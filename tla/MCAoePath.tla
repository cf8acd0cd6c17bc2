----------------------------- MODULE MCAoePath -----------------------------
(* Small instances of AoePath for TLC.                                     *)
EXTENDS AoePath, TLC

CONSTANTS m1, m2, n1, n2, n3, f1, f2

SomeMtu == n1 :> 1500 @@ n2 :> 9000 @@ n3 :> 9000

\* One target changes what it announces and is heard on more interfaces than it
\* has slots for; another one shares an interface with it.
Heard(t, n, bufcnt, scnt) == [t : {t}, nd : {n}, bufcnt : bufcnt, scnt : scnt]
SomeRsp ==
    Heard(m1, n1, {2}, {16}) \cup Heard(m1, n2, {1}, {16}) \cup
    Heard(m1, n3, {0}, {1}) \cup Heard(m2, n2, {0}, {2})

FrameSymmetry == Permutations({f1, f2})
=============================================================================
