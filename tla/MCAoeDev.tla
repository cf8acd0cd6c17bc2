------------------------------ MODULE MCAoeDev ------------------------------
(* Small instances of AoeDev for TLC.                                      *)
EXTENDS AoeDev, TLC

CONSTANTS d1, d2, a1, a2, c1, w1, w2, p1, p2, o1

\* With dynamic minors no address has a static one.
NoStatic == [a \in Addr |-> None]

\* Devices and addresses are interchangeable.
DevSymmetry == {p @@ q : p \in Permutations({d1, d2}), q \in Permutations({a1, a2})}
=============================================================================
