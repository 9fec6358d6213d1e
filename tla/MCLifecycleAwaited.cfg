SPECIFICATION Spec
CONSTANTS
  NoLabel = NoLabel
  Free = Free
  Files <- TheFiles
  Env <- TheEnv
  Repos = {r1, r2}
  Requests = {q1}
INVARIANT AllAwaited
CHECK_DEADLOCK FALSE
