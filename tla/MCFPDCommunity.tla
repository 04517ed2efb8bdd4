--------------------------- MODULE MCFPDCommunity ---------------------------
(* FPDCommunity for TLC: two clients, two templates.                       *)
EXTENDS FPDCommunity, Sequences, TLC

MCUnknownName == [k \in FingerIds |-> "Unknown " \o ToString(k)]
=============================================================================
