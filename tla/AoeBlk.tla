------------------------------- MODULE AoeBlk -------------------------------
(***************************************************************************)
(* What the driver promises to the block layer: it gives every request     *)
(* back once, a bio of it then carries an error or has been transferred in *)
(* full, and once a request is back the driver no longer touches its data. *)
(***************************************************************************)
EXTENDS Integers

CONSTANTS
    Req,        \* requests
    Bio,        \* their bios
    RqOf,       \* the request of a bio
    Size        \* the number of pieces that a bio is transferred in

VARIABLES
    st,         \* a request is "new", "pending" or "done"
    xfer,       \* the pieces of a bio that have been transferred
    bad         \* the bios with an error

vars == <<st, xfer, bad>>

Init ==
    /\ st = [r \in Req |-> "new"]
    /\ xfer = [b \in Bio |-> 0]
    /\ bad = {}

Pending == {r \in Req : st[r] = "pending"}
PendingBio == {b \in Bio : RqOf[b] \in Pending}

\* The block layer submits a request.
Submit(r) ==
    /\ st[r] = "new"
    /\ st' = [st EXCEPT ![r] = "pending"]
    /\ UNCHANGED <<xfer, bad>>

\* The driver transfers a piece of the bios of X, finds an error for the bios of
\* E, and gives the requests of D back.
Serve(D, E, X) ==
    /\ st' = [r \in Req |-> IF r \in D THEN "done" ELSE st[r]]
    /\ bad' = bad \cup E
    /\ xfer' = [b \in Bio |-> IF b \in X THEN xfer[b] + 1 ELSE xfer[b]]
    /\ \A b \in Bio : RqOf[b] \in D => b \in bad' \/ xfer'[b] = Size[b]

Next ==
    \/ \E r \in Req : Submit(r)
    \/ \E D \in SUBSET Pending, E \in SUBSET PendingBio, X \in SUBSET PendingBio :
         Serve(D, E, X)

Spec == Init /\ [][Next]_vars
=============================================================================
