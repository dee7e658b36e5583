\* A client disconnects while its source is compiled.
CONSTANTS
  a = a  b = b  t1 = t1  t2 = t2  id1 = id1  id2 = id2  v1 = v1  v2 = v2
  None = None  Unavailable = Unavailable
  Tasks = {t1, t2}
  Sources = {a, b}
  Ids = {id1, id2}
  IdOf <- OwnIds
  Tools = {v1}
  Ttls = {1}
  MaxConcurrency = 1
  MaxRequests = 2
  MaxTime = 0
  MaxCrashes = 0
  ClientsMayLeave = TRUE
SPECIFICATION Spec
INVARIANTS WorkIsBounded
