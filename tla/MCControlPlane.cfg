SPECIFICATION ControlPlaneSpec
CONSTANTS
  init = init
  column = column
  late = late
  renamed = renamed
  NoOwner = NoOwner
  Null = Null
  Process = {1, 2, 3}
  ColumnFile = column
  NumberOf <- MCNumber
  Build <- MCBuild
  MaxEvent = 2
  MaxDrop = 1
PROPERTIES
  LockIsSound
  StartsAreSound
  WatchIsExact
CHECK_DEADLOCK FALSE
CONSTRAINT Scene
