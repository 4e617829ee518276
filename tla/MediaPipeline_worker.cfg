SPECIFICATION Spec
CONSTANTS
  rx1 = rx1
  cam = cam
  v1 = v1
  NoInput = NoInput
  NoVideo = NoVideo
  Retired = Retired
  Receivers <- OneReceiver
  Captures <- OneCapture
  Videos <- OneVideo
  FallbackEnabled = FALSE
  MaxQueue = 1
INVARIANTS OneSource StatusIsPlaying
PROPERTIES LiveReturns Settles
