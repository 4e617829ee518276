SPECIFICATION Spec
CONSTANTS
  rx1 = rx1
  cam = cam
  v1 = v1
  NoInput = NoInput
  NoVideo = NoVideo
  Retired = Retired
  Receivers <- OneReceiver
  Captures <- Nothing
  Videos <- OneVideo
  FallbackEnabled = TRUE
  MaxQueue = 1
  Disturbances <- Everything
PROPERTIES PttFollows PttCovers
