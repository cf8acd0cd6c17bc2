------------------------------ MODULE MCAoeIo ------------------------------
(* Small instances of AoeIo for TLC.                                       *)
EXTENDS AoeIo, TLC

CONSTANTS t1, t2, f1, f2, f3, f4, r1, r2, b1, b2, b3

OneTgtOf == f1 :> t1 @@ f2 :> t1
TrioTgtOf == f1 :> t1 @@ f2 :> t1 @@ f3 :> t2
WideTgtOf == f1 :> t1 @@ f2 :> t1 @@ f3 :> t1 @@ f4 :> t2

\* A request of two bios and one of a single bio.
ThreeRqOf == b1 :> r1 @@ b2 :> r1 @@ b3 :> r2
ThreeSize == b1 :> 2 @@ b2 :> 1 @@ b3 :> 1

\* A request of two bios.
TwoRqOf == b1 :> r1 @@ b2 :> r1
TwoSize == b1 :> 1 @@ b2 :> 1
DuoSize == b1 :> 2 @@ b2 :> 1

\* A request of one bio that takes two frames, or three.
OneRqOf == b1 :> r1
OneSize == b1 :> 2
OneSize3 == b1 :> 3

\* The frames of one target are interchangeable.
FrameSymmetry == Permutations({f1, f2})
WideSymmetry == Permutations({f1, f2, f3})
=============================================================================
