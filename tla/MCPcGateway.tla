----------------------------- MODULE MCPcGateway -----------------------------
(* Constants of PcGateway for TLC.                                           *)
EXTENDS PcGateway

CONSTANTS l1, l2

TwoLines == {l1, l2}

=============================================================================
