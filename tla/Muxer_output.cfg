SPECIFICATION Spec
CONSTANTS
  SampleRate = 5
  FrameRate = 2
  AudioFrame = 2
  Lead = 2
  SoundLead = 5
  QueueLimit = 2
  FileFifo = 5
  LiveFifo = 10
  StaleAfter = 2
  MaxFrames = 3
  MaxRestarts = 1
  MaxStarts = 2
INVARIANT SoundCoversPicture
INVARIANT StaleIsLive
INVARIANT InStep
INVARIANT MirrorInStep
CHECK_DEADLOCK FALSE
