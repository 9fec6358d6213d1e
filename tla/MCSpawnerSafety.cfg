SPECIFICATION Spec
CONSTANTS
  None = None
  r1 = r1
  r2 = r2
  Callers = {p1, p2}
  Repos = {r2}
  Containers = {c1, c2, c3}
  MaxConcurrency <- Caps
  DryRunFlags = {FALSE, TRUE}
  Responsive = {}
  MaxCalls = 3
  MaxRestarts = 1
SYMMETRY Symmetry
INVARIANTS
  TypeOK
  CapHeld
  OutcomesAddUp
  PauseBites
  EnvFilesScoped
PROPERTY ImplementsPool
