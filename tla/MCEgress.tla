------------------------------ MODULE MCEgress ------------------------------
(* Instances of Egress for TLC.                                            *)
EXTENDS Egress

CONSTANTS corp, detox, r1, r2
=============================================================================
