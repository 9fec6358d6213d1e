SPECIFICATION Spec
CONSTANTS
  None = None
  r1 = r1
  r2 = r2
  n1 = n1
  n2 = n2
  n3 = n3
  w1 = w1
  Ticks = {t1}
  Repos = {r1}
  Runners = {n1, n2}
  RepoOf <- Together
  Runs = {w1}
  RunRepo <- RunsOfR1
  PageSize = 2
  Listable = {r1}
  OfflineLive = {n1}
  SlowStart = {}
  MaxRunners = 2
PROPERTY GhostsAreDead
