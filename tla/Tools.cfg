\* Two runs of tools and two health requests on two threads.
CONSTANTS
  r1 = r1  r2 = r2  p1 = p1  p2 = p2  c1 = c1  c2 = c2  None = None
  Runs = {r1, r2}
  Pids = {p1, p2}
  Clients = {c1, c2}
  Workers = 2
  Ttl = 1
  MaxTime = 2
SPECIFICATION Spec
INVARIANTS TimedOutIsGone
PROPERTIES KillsOnlyItsOwn ProbesAreRationed EveryRunEnds HealthIsAnswered
