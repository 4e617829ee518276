SPECIFICATION Spec
CONSTANTS
  rx1 = rx1
  rx2 = rx2
  rx3 = rx3
  Capture = Capture
  NoInput = NoInput
  NoMer = NoMer
  Never = Never
  Receivers <- Reported
  Priority <- Configured
  Hang <- HangTimes
  MinimumMer = 1
  Mers = {0, 1}
  Debounce = 1
  Pause = 2
INVARIANT NoticeCoversHang
PROPERTIES NotInterrupted Served
