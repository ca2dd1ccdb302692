SPECIFICATION Spec
CONSTANTS
  one = one
  other = other
  reader = reader
  Conversation <- Conversations
  WorkMode <- Editing
  Independent <- Reading
  Claiming <- Editing
  Owned <- OneFile
  SlotLimit = 2
  MaxTasks = 2
  MaxQuestions = 1
  MaxCrashes = 1
SYMMETRY Alike
INVARIANT LocksAreSound
PROPERTY ToldStands
CHECK_DEADLOCK FALSE
