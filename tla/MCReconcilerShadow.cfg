SPECIFICATION FairSpec
CONSTANTS
  None = None
  Reader = Reader
  j1 = j1
  j2 = j2
  j3 = j3
  w1 = w1
  w2 = w2
  Jobs = {j1, j2, j3}
  Runs = {w1, w2}
  RunOf <- MixedRuns
  Matching = {j1, j2}
  Static = {x1}
  Serves <- ServesOne
  MaxConcurrency = 2
  Passes = {t1}
  MaxFaults = 0
PROPERTY JobsServed
