----------------------------- MODULE AoeErrRing -----------------------------
(***************************************************************************)
(* The ring of error messages behind /dev/etherd/err (aoechr.c).  Any part *)
(* of the driver may add a message with aoechr_error, in any context; a    *)
(* reader takes the oldest one with aoechr_read, or sleeps on emsgs_sema   *)
(* while there is none.  The ring is used under emsgs_lock, but the writer *)
(* tests nblocked_emsgs_readers and calls up() after unlocking, and a      *)
(* reader sleeps without the lock.                                         *)
(*                                                                         *)
(* A message is one of a few values with a length; a slot holds None when  *)
(* EMFL_VALID is clear.                                                    *)
(***************************************************************************)
EXTENDS Integers, Sequences, FiniteSets

CONSTANTS
    NMsg,       \* NMSG
    Msg,        \* the messages
    MsgLen,     \* em->len of a message
    Writer,     \* contexts that call aoechr_error
    Reader,     \* processes that read, one read(2) at a time
    Cnt,        \* the size of a reader's buffer
    MaxUp,      \* bound: wakeups pending when aoechr_error is called again
    None        \* no message

ASSUME RingAssumption ==
    /\ NMsg \in Nat \ {0}
    /\ MsgLen \in [Msg -> Nat]
    /\ Cnt \in [Reader -> Nat]
    /\ MaxUp \in Nat \ {0}
    /\ IsFiniteSet(Writer) /\ IsFiniteSet(Reader)
    /\ None \notin Msg

VARIABLES
    emsgs,      \* the slots
    head,       \* emsgs_head_idx
    tail,       \* emsgs_tail_idx
    sema,       \* the count of emsgs_sema
    waitlist,   \* the readers asleep in down_interruptible, in order
    nblocked,   \* nblocked_emsgs_readers
    wpc,        \* where a writer is
    rpc,        \* where a reader is
    got         \* what a reader took last

ringVars == <<emsgs, head, tail>>
semVars == <<sema, waitlist>>
vars == <<ringVars, semVars, nblocked, wpc, rpc, got>>

Slot == 0..(NMsg - 1)

Init ==
    /\ emsgs = [i \in Slot |-> None] /\ head = 0 /\ tail = 0
    /\ sema = 0 /\ waitlist = <<>> /\ nblocked = 0
    /\ wpc = [w \in Writer |-> "idle"]
    /\ rpc = [r \in Reader |-> "idle"]
    /\ got = [r \in Reader |-> None]

\* emsgs_tail_idx++; emsgs_tail_idx %= ARRAY_SIZE(emsgs)
Advance(i) == IF i + 1 = NMsg THEN 0 ELSE i + 1

\* The slot at the tail is still in use.
FullNever == FALSE
Full == emsgs[tail] # None

\* nblocked_emsgs_readers++, in a reader that found no message
BlockSilently(n) == n
Block(n) == n + 1

----------------------------------------------------------------------------
(* aoechr_error.                                                           *)

\* The message is stored, or dropped because the ring is full or kmemdup
\* failed.
Error(w, m) ==
    /\ wpc[w] = "idle"
    /\ sema < MaxUp
    /\ \/ /\ ~Full
          /\ emsgs' = [emsgs EXCEPT ![tail] = m]
          /\ tail' = Advance(tail)
          /\ wpc' = [wpc EXCEPT ![w] = "unlocked"]
          /\ UNCHANGED <<head, semVars, nblocked, rpc, got>>
       \/ UNCHANGED vars

\* up(): wake the reader that has slept longest, or remember for the next one.
Up ==
    IF waitlist = <<>>
    THEN /\ sema' = sema + 1
         /\ UNCHANGED <<waitlist, rpc>>
    ELSE /\ waitlist' = Tail(waitlist)
         /\ rpc' = [rpc EXCEPT ![Head(waitlist)] = "woken"]
         /\ UNCHANGED sema

\* After unlocking.
ErrorUnlocked(w) ==
    /\ wpc[w] = "unlocked"
    /\ wpc' = [wpc EXCEPT ![w] = "idle"]
    /\ \/ nblocked > 0 /\ Up
       \/ nblocked = 0 /\ UNCHANGED <<semVars, rpc>>
    /\ UNCHANGED <<ringVars, nblocked, got>>

----------------------------------------------------------------------------
(* aoechr_read.                                                            *)

\* The body of the loop and what follows it; n is the count of blocked readers
\* with which it is entered, and ndelay tells whether O_NDELAY is set.  A message
\* that does not fit stays where it is.
TryRead(r, n, ndelay) ==
    LET m == emsgs[head]
        taken == m # None /\ MsgLen[m] <= Cnt[r]
        blocks == m = None /\ ~ndelay
    IN /\ IF taken
          THEN /\ emsgs' = [emsgs EXCEPT ![head] = None]
               /\ head' = Advance(head)
               /\ got' = [got EXCEPT ![r] = m]
          ELSE UNCHANGED <<emsgs, head, got>>
       /\ rpc' = [rpc EXCEPT ![r] = IF blocks THEN "down" ELSE "idle"]
       /\ nblocked' = IF blocks THEN Block(n) ELSE n
       /\ UNCHANGED tail

Read(r, ndelay) ==
    /\ rpc[r] = "idle"
    /\ TryRead(r, nblocked, ndelay)
    /\ UNCHANGED <<semVars, wpc>>

\* down_interruptible: go on, or sleep.
Down(r) ==
    /\ rpc[r] = "down"
    /\ \/ /\ sema > 0
          /\ sema' = sema - 1
          /\ rpc' = [rpc EXCEPT ![r] = "woken"]
          /\ UNCHANGED waitlist
       \/ /\ sema = 0
          /\ waitlist' = Append(waitlist, r)
          /\ rpc' = [rpc EXCEPT ![r] = "asleep"]
          /\ UNCHANGED sema
    /\ UNCHANGED <<ringVars, nblocked, wpc, got>>

\* A signal interrupts the sleep.
Signal(r) ==
    /\ rpc[r] = "asleep"
    /\ rpc' = [rpc EXCEPT ![r] = "interrupted"]
    /\ \E i \in 1..Len(waitlist) :
         /\ waitlist[i] = r
         /\ waitlist' = SubSeq(waitlist, 1, i - 1)
                        \o SubSeq(waitlist, i + 1, Len(waitlist))
    /\ UNCHANGED <<ringVars, sema, nblocked, wpc, got>>

\* down_interruptible has returned 0: look again.
Woken(r) ==
    /\ rpc[r] = "woken"
    /\ TryRead(r, nblocked - 1, FALSE)
    /\ UNCHANGED <<semVars, wpc>>

\* down_interruptible has returned -EINTR.
Interrupted(r) ==
    /\ rpc[r] = "interrupted"
    /\ rpc' = [rpc EXCEPT ![r] = "idle"]
    /\ nblocked' = nblocked - 1
    /\ UNCHANGED <<ringVars, semVars, wpc, got>>

----------------------------------------------------------------------------

Next ==
    \/ \E w \in Writer : ErrorUnlocked(w) \/ \E m \in Msg : Error(w, m)
    \/ \E r \in Reader :
         \/ \E ndelay \in BOOLEAN : Read(r, ndelay)
         \/ Down(r) \/ Signal(r) \/ Woken(r) \/ Interrupted(r)

Spec == Init /\ [][Next]_vars

\* A call that has begun goes on; nobody has to call.
Fairness ==
    /\ \A w \in Writer : WF_vars(ErrorUnlocked(w))
    /\ \A r \in Reader : WF_vars(Down(r) \/ Woken(r) \/ Interrupted(r))

FairSpec == Spec /\ Fairness

----------------------------------------------------------------------------
(* Correctness.                                                            *)

\* Every variable has its type; the indices stay within the array, and the
\* semaphore and the count of blocked readers do not go below zero.
TypeOK ==
    /\ emsgs \in [Slot -> Msg \cup {None}] /\ head \in Slot /\ tail \in Slot
    /\ sema \in Nat /\ waitlist \in Seq(Reader) /\ nblocked \in Nat
    /\ wpc \in [Writer -> {"idle", "unlocked"}]
    /\ rpc \in [Reader -> {"idle", "down", "asleep", "woken", "interrupted"}]
    /\ got \in [Reader -> Msg \cup {None}]

\* How many messages there are, and the i-th oldest of them.
Count ==
    IF emsgs[head] = None THEN 0
    ELSE IF head < tail THEN tail - head ELSE NMsg - head + tail
Nth(i) == emsgs[IF head + i - 1 < NMsg THEN head + i - 1 ELSE head + i - 1 - NMsg]

Fifo == INSTANCE AoeErrFifo WITH queue <- [i \in 1..Count |-> Nth(i)]

\* The ring is a bounded FIFO: aoechr_error and aoechr_read, the indices
\* wrapping around and the flags of the slots, implement one, whoever calls
\* them at the same time.
IsFifo == Fifo!Spec

\* The wakeups that are on their way: calls of up() still to be made, calls
\* remembered by the semaphore, and readers that are awake but have not looked.
OnTheWay ==
    sema + Cardinality({w \in Writer : wpc[w] = "unlocked"})
         + Cardinality({r \in Reader : rpc[r] = "woken"})

\* No wakeup is lost: as long as a reader sleeps, or is about to, there is a
\* wakeup on its way for every message in the ring, although aoechr_error tests
\* nblocked_emsgs_readers without the lock.
NoLostWakeup ==
    (\E r \in Reader : rpc[r] \in {"down", "asleep"}) => Count <= OnTheWay

\* A message does not lie in the ring while a reader sleeps: the message is
\* taken, or the reader wakes up.
SleeperServed ==
    \A r \in Reader :
        rpc[r] = "asleep" /\ Count > 0 ~> rpc[r] # "asleep" \/ Count = 0
=============================================================================
