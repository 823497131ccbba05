SPECIFICATION Spec
CONSTANTS
  Overtaking = FALSE
  None = None
INVARIANTS
  ListsAreSequences
  BufferInOnePlace
  ReturnsFilledBuffer
  InfoIsExact
  ChunkInOnePlace
  FailedIsUndone
  OptionsAreAccepted
PROPERTIES
  PushTakesFreeId
CHECK_DEADLOCK FALSE
