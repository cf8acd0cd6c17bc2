----------------------------- MODULE MCAoeKtio -----------------------------
(* Small instances of AoeKtio for TLC.                                     *)
EXTENDS AoeKtio, TLC

CONSTANTS f1, f2, s1, s2

\* No frame belongs to CPU 0.
SplitHome == f1 :> 1 @@ f2 :> 2
=============================================================================
