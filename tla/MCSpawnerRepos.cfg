SPECIFICATION FairSpec
CONSTANTS
  None = None
  r1 = r1
  r2 = r2
  Callers = {p1, p2}
  Repos = {r1, r2}
  Containers = {c1, c2}
  MaxConcurrency <- Caps
  DryRunFlags = {FALSE}
  Responsive = {r2}
  MaxCalls = 2
  MaxRestarts = 0
PROPERTIES
  CapHitJustified
  CallsReturn
