----------------------------- MODULE MCSelection -----------------------------
(* Constants of Selection for TLC.  Two receivers share a priority, as those *)
(* do that the configuration does not name.                                  *)
EXTENDS Selection

CONSTANTS rx1, rx2, rx3

Reported == <<rx1, rx2, rx3>>
Configured == rx1 :> 2 @@ rx2 :> 2 @@ rx3 :> 1
HangTimes == rx1 :> 1 @@ rx2 :> 3 @@ rx3 :> 2 @@ Capture :> 2

=============================================================================
