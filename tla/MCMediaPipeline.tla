--------------------------- MODULE MCMediaPipeline ---------------------------
(* Constants of MediaPipeline for TLC.                                      *)
EXTENDS MediaPipeline

CONSTANTS rx1, cam, v1

OneReceiver == {rx1}
OneCapture == {cam}
OneVideo == {v1}

=============================================================================
