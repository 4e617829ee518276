SPECIFICATION Spec
CONSTANTS
  BufferLimit = 2
  FifoLimit = 2
  MaxLead = 2
  MaxThrows = 1
INVARIANT SinkOutlivesSources
INVARIANT OneProducer
INVARIANT SoundHasOwner
PROPERTY IterationsEnd
PROPERTY ShutdownCompletes
CHECK_DEADLOCK FALSE
