\* Commands one after the other, servers of the job and by hand, a kill.
CONSTANTS
  s1 = s1  p1 = p1  p2 = p2
  None = None
  Shells = {s1}
  Pids = {p1, p2}
  MaxCommands = 3
  MaxKills = 1
SPECIFICATION FairSpec
INVARIANTS OneServer RestartApplies
PROPERTIES TokenIsKept DoctorIsRight JobServes
CHECK_DEADLOCK FALSE
