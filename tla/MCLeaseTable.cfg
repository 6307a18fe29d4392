SPECIFICATION Spec
CONSTANTS
  r1 = r1
  r2 = r2
  known = known
  other = other
  unknown = unknown
  p1 = p1
  p2 = p2
  l1 = l1
  l2 = l2
  l3 = l3
  Runner = {r1, r2}
  Job = {known, other, unknown}
  Project = {p1, p2}
  NoProject = NoProject
  NoOne = NoOne
  LeaseId = {l1, l2, l3}
  DeclaredCap = {3}
  RunnerCeiling = 2
  ProjectCeiling = 2
  Ttl = {1}
  MaxClock = 3
  ProjectOf <- MCProjectOf
INVARIANTS
  TypeOK
  TenureIsExclusive
  CeilingsHold
  EventsAreTrue
PROPERTIES
  LateCallsChangeNothing
  ImplementsTenure
SYMMETRY MCSymmetry
