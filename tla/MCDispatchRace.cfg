SPECIFICATION Spec
CONSTANTS
  work = work
  final = final
  a = a
  b = b
  Runner = {a, b}
  NoRunner = NoRunner
  Job = {1}
  NoJob = 0
  Node = {work, final}
  NoNode = NoNode
  Entry = work
  Exits <- MCExits
  Working = {work}
  Delivers = {work}
  Ending <- MCRaceEndings
  RunnerCap = 1
  PreCeiling = 2
  FailCeiling = 2
  MaxSession = 2
  MaxFault = 1
  MaxLapse = 1
  MaxCrash = 1
  MaxUnblock = 1
INVARIANTS
  TypeOK
  OneEnginePerJob
  OneWayOut
  DeliveredOnce
SYMMETRY MCSymmetry
