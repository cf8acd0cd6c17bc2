----------------------------- MODULE AoeErrFifo -----------------------------
(***************************************************************************)
(* What /dev/etherd/err promises: the messages come out in the order in    *)
(* which they went in, each to one reader, and at most NMsg are retained.  *)
(* A message that finds no room is dropped, never an older one.            *)
(***************************************************************************)
EXTENDS Naturals, Sequences

CONSTANTS
    NMsg,       \* messages retained
    Msg,        \* what a message may be
    Reader,     \* who reads them
    None        \* nothing was read

VARIABLES
    queue,      \* the messages retained, oldest first
    got         \* the message that a reader took last

vars == <<queue, got>>

Init == queue = <<>> /\ got = [r \in Reader |-> None]

Put(m) ==
    /\ Len(queue) < NMsg
    /\ queue' = Append(queue, m)
    /\ UNCHANGED got

Get(r) ==
    /\ queue # <<>>
    /\ got' = [got EXCEPT ![r] = Head(queue)]
    /\ queue' = Tail(queue)

Next == (\E m \in Msg : Put(m)) \/ (\E r \in Reader : Get(r))

Spec == Init /\ [][Next]_vars
=============================================================================
