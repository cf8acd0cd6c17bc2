----------------------------- MODULE MCAoeFlow -----------------------------
(* Small instances of AoeFlow for TLC.                                     *)
EXTENDS AoeFlow, TLC

CONSTANTS f1, f2

=============================================================================
