SPECIFICATION FairSpec
CONSTANTS
  a = a
  b = b
  Runner = {a, b}
  NoRunner = NoRunner
  Shape <- MCShape
  MaxChild = 4
  MaxTrouble = 2
INVARIANTS
  ChildrenMatchElements
  ReportIsWhole
PROPERTIES
  NeverSilentlyStuck
  CallSettles
