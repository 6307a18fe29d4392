SPECIFICATION ControlPlaneSpec
CONSTANTS
  init = init
  column = column
  late = late
  renamed = renamed
  NoOwner = NoOwner
  Null = Null
  Process = {1, 2}
  ColumnFile = column
  NumberOf <- MCNumber
  Build <- MCBuild
  MaxEvent = 2
  MaxDrop = 1
INVARIANTS
  OneOwner
CHECK_DEADLOCK FALSE
