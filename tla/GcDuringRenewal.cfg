\* gc removes a build that was renewed after its scan.
CONSTANTS
  a = a  b = b  t1 = t1  t2 = t2  r1 = r1  id1 = id1  id2 = id2  v1 = v1  v2 = v2
  None = None  Unavailable = Unavailable
  Tasks = {t1}
  Sources = {a}
  Ids = {id1}
  IdOf <- SingleId
  Tools = {v1}
  Ttls = {1, 2}
  MaxConcurrency = 1
  MaxRequests = 2
  MaxTime = 3
  MaxCrashes = 0
  ClientsMayLeave = FALSE
  Readers = {}
  Ages = {0}
  GcWhileServing = TRUE
  MaxGcRuns = 1
SPECIFICATION ServiceSpec
PROPERTIES GcRemovesOnlyExpired
