\* Submissions of two sources with one build id race, fail and are abandoned; tools change.
CONSTANTS
  a = a  b = b  t1 = t1  t2 = t2  id1 = id1  id2 = id2  v1 = v1  v2 = v2
  None = None  Unavailable = Unavailable
  Tasks = {t1, t2}
  Sources = {a, b}
  Ids = {id1}
  IdOf <- SharedId
  Tools = {v1, v2}
  Ttls = {1}
  MaxConcurrency = 1
  MaxRequests = 3
  MaxTime = 1
  MaxCrashes = 0
  ClientsMayLeave = TRUE
SPECIFICATION Spec
SYMMETRY TaskSymmetry
INVARIANTS MutualExclusion ContextIsCurrent ArtifactIsOwn
PROPERTIES LinksSurvive RevokedStaysRevoked OkIsHonest IdentityIsStable RefinesRegistry
