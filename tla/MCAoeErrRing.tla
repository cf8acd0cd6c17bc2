---------------------------- MODULE MCAoeErrRing ----------------------------
(* Small instances of AoeErrRing for TLC.                                  *)
EXTENDS AoeErrRing, TLC

CONSTANTS m1, m2, w1, w2, r1, r2

TwoLen == m1 :> 1 @@ m2 :> 2

\* Buffers that take every message.
WideCnt == r1 :> 2 @@ r2 :> 2
=============================================================================
