SPECIFICATION FairSpec
CONSTANTS
  Job = {1, 2}
  NoJob = 0
  Tree = {1, 2, 3}
  Apart = {TRUE, FALSE}
  MaxCommit = 2
  MaxEvent = 1
PROPERTIES
  NothingIsLost
  MainLineIsTrue
  LeftoversAreCollected
CHECK_DEADLOCK FALSE
CONSTRAINT Scene
