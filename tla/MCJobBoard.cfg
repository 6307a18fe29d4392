SPECIFICATION Spec
CONSTANTS
  j1 = j1
  j2 = j2
  j3 = j3
  work = work
  report = report
  done = done
  round = round
  Job = {j1, j2, j3}
  NoJob = NoJob
  Round = {round}
  NoRound = NoRound
  Node = {work, report, done}
  Final = {report, done}
  Working = {work, report}
  Ceiling = 2
  Parent = {NoJob, j1, j2}
  DependsOn <- MCDeps
  Outcome = {"completed", "no_output", "failed", "refused"}
  MaxSession = 3
  MaxWaiting = 2
  MaxQuestion = 2
INVARIANTS
  TypeOK
  RoundEndsOnce
  OneAnswerPerQuestion
PROPERTIES
  EndIsTrue
  EndIsAnnounced
  SessionEndsOnce
  CeilingIsExact
  CancelIsExact
CONSTRAINT Scene
