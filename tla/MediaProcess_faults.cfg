SPECIFICATION Spec
CONSTANTS
  rx1 = rx1
  v1 = v1
  s1 = s1
  NoInput = NoInput
  NoNotice = NoNotice
  NoVideo = NoVideo
  NoSeek = NoSeek
  Unset = Unset
  Inputs <- OneInput
  Analogue <- Nothing
  Notices <- Nothing
  Videos <- OneVideo
  Seeks <- OneSeek
  FallbackEnabled = TRUE
  MaxBacklog = 1
  MaxCrashes = 1
  MaxStalls = 1
INVARIANTS CacheCoherent InformedFirst
PROPERTIES ImplementsMirror Converges
CHECK_DEADLOCK FALSE
