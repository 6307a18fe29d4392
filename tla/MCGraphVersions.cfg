SPECIFICATION Spec
CONSTANTS
  here = here
  there = there
  main = main
  copy = copy
  draft = draft
  review = review
  finish = finish
  plain = plain
  write = write
  check = check
  text = text
  Initial = draft
  Finals = {finish}
  Skill = {plain, write, check}
  NoSkill = NoSkill
  AnyCondition = AnyCondition
  Path = {text}
  Requires <- MCRequires
  Produces <- MCProduces
  Given = {}
  Project = {here, there}
  Default = here
  Lineage = {main, copy}
  Base = main
  NoVersion = NoVersion
  Imported = {check}
  Document <- MCDocument
  Change <- MCChange
  MaxProposal = 2
INVARIANTS
  AppliedIsInForce
  ContractsAreTrue
  DiffLands
CHECK_DEADLOCK FALSE
