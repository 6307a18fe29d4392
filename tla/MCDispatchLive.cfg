SPECIFICATION FairSpec
CONSTANTS
  work = work
  final = final
  a = a
  b = b
  Runner = {a}
  NoRunner = NoRunner
  Job = {1, 2}
  NoJob = 0
  Node = {work, final}
  NoNode = NoNode
  Entry = work
  Exits <- MCExits
  Working = {work}
  Delivers = {}
  Ending <- MCLiveEndings
  RunnerCap = 1
  PreCeiling = 2
  FailCeiling = 2
  MaxSession = 3
  MaxFault = 1
  MaxLapse = 0
  MaxCrash = 1
  MaxUnblock = 0
PROPERTIES
  LeaseComesBack
  NobodyStarves
