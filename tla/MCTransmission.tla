---------------------------- MODULE MCTransmission ----------------------------
(* Constants of Transmission for TLC.                                        *)
EXTENDS Transmission

CONSTANTS rx1, cam, v1

OneReceiver == {rx1}
OneVideo == {v1}
Nothing == {}
VideoMayEnd == {"end"}
Everything == Kinds

=============================================================================
