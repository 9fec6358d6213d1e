SPECIFICATION FairSpec
CONSTANTS
  NoLabel = NoLabel
  Free = Free
  Files <- TheFiles
  Env <- TheEnv
  Repos = {r1}
  Requests = {q1}
INVARIANTS TypeOK DrainedMeansQuiet
PROPERTIES TasksEnd ShutsDown
CHECK_DEADLOCK FALSE
