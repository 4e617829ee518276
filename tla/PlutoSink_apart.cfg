SPECIFICATION UndisturbedSpec
CONSTANT Outages = TRUE
INVARIANTS SetBeforeOnAir OffIsOff
PROPERTIES PlutoFollows
