SPECIFICATION Spec
CONSTANTS
  Step <- Fork
  DependsOn <- ForkDepends
  left = left
  right = right
  final = final
  Final = final
  Policy <- Lenient
  MaxParallel = 2
  MaxEvents = 1
INVARIANT RunIsEarned
PROPERTY EndStands
SYMMETRY Branches
CHECK_DEADLOCK FALSE
