SPECIFICATION PcSpec
CONSTANTS
  l1 = l1
  l2 = l2
  NoLine = NoLine
  NoInput = NoInput
  Unset = Unset
  Never = Never
  Lines <- TwoLines
  FallbackEnabled = TRUE
  Debounce = 1
  Hold = 3
  Pause = 2
  MaxLate = 2
INVARIANTS NoticeTellsLastAccess BelievedIsTrue
PROPERTIES PiFollows
CHECK_DEADLOCK FALSE
