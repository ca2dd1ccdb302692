SPECIFICATION EndsSpec
CONSTANTS
  Step <- Chain
  DependsOn <- ChainDepends
  Final = "last"
  Policy <- Strict
  MaxParallel = 1
  MaxEvents = 1
PROPERTY EveryTaskEnds
PROPERTY RunEnds
PROPERTY ReviewEnds
CHECK_DEADLOCK FALSE
