SPECIFICATION Spec
CONSTANTS
  j1 = j1
  j2 = j2
  j3 = j3
  work = work
  report = report
  done = done
  round = round
  Job = {j1}
  NoJob = NoJob
  Round = {}
  NoRound = NoRound
  Node = {work}
  Final = {}
  Working = {work}
  Ceiling = 2
  Parent = {NoJob}
  DependsOn <- MCNoDeps
  Outcome = {"failed", "refused"}
  MaxSession = 3
  MaxWaiting = 1
  MaxQuestion = 0
PROPERTIES
  RefusalsAreNotCounted
