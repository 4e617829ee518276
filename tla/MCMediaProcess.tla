--------------------------- MODULE MCMediaProcess ---------------------------
(* Constants of MediaProcess for TLC.                                       *)
EXTENDS MediaProcess

CONSTANTS rx1, v1, s1

OneInput == {rx1}
OneVideo == {v1}
OneSeek == {s1}
Nothing == {}

=============================================================================
