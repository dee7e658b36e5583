\* Downloads race submissions; gc runs while no submission is handled.
CONSTANTS
  a = a  b = b  t1 = t1  t2 = t2  r1 = r1  id1 = id1  id2 = id2  v1 = v1  v2 = v2
  None = None  Unavailable = Unavailable
  Tasks = {t1}
  Sources = {a, b}
  Ids = {id1, id2}
  IdOf <- OwnIds
  Tools = {v1}
  Ttls = {1, 2}
  MaxConcurrency = 1
  MaxRequests = 2
  MaxTime = 3
  MaxCrashes = 0
  ClientsMayLeave = FALSE
  Readers = {r1}
  Ages = {0, 2}
  GcWhileServing = FALSE
  MaxGcRuns = 1
SPECIFICATION ServiceSpec
INVARIANTS ServiceTypeOK ViewAgreesWithLinks
PROPERTIES DownloadsAreOwn ExpiredIsNotServed SteadyLinkIsServed GcRemovesOnlyExpired
