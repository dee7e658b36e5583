\* A renewal with a shorter lifetime than an earlier one.
CONSTANTS
  a = a  b = b  t1 = t1  t2 = t2  id1 = id1  id2 = id2  v1 = v1  v2 = v2
  None = None  Unavailable = Unavailable
  Tasks = {t1}
  Sources = {a}
  Ids = {id1}
  IdOf <- SingleId
  Tools = {v1}
  Ttls = {1, 2}
  MaxConcurrency = 1
  MaxRequests = 2
  MaxTime = 1
  MaxCrashes = 0
  ClientsMayLeave = FALSE
SPECIFICATION Spec
INVARIANTS OldLinksWork
