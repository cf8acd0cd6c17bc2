-------------------------- MODULE AoeErrRingProofs --------------------------
(***************************************************************************)
(* Proofs about AoeErrRing: the ring is a bounded FIFO for every size of   *)
(* it, and no wakeup is lost for any readers and writers, provided that    *)
(* every reader's buffer takes every message.                              *)
(***************************************************************************)
EXTENDS AoeErrRing, FiniteSetTheorems, SequenceTheorems, TLAPS

USE SMTT(60), Z3T(60), ZenonT(30)

\* The slots in use are the ones from the head up to the tail, around the end
\* of the array; when head and tail meet, the ring is empty or full.
InUse(i) ==
    IF head = tail THEN emsgs[head] # None
    ELSE IF head < tail THEN head <= i /\ i < tail
    ELSE head <= i \/ i < tail

RingType ==
    /\ emsgs \in [Slot -> Msg \cup {None}] /\ head \in Slot /\ tail \in Slot
    /\ got \in [Reader -> Msg \cup {None}]

Occupied == \A i \in Slot : emsgs[i] # None <=> InUse(i)

RingInv == RingType /\ Occupied

\* What a writer and what a reader do to the ring.
Store(m) ==
    /\ ~Full
    /\ emsgs' = [emsgs EXCEPT ![tail] = m]
    /\ tail' = Advance(tail)
    /\ UNCHANGED <<head, got>>

Take(r) ==
    /\ emsgs[head] # None
    /\ emsgs' = [emsgs EXCEPT ![head] = None]
    /\ head' = Advance(head)
    /\ got' = [got EXCEPT ![r] = emsgs[head]]
    /\ UNCHANGED tail

Same == UNCHANGED <<emsgs, head, tail, got>>

\* Every step stores a message, takes one or leaves the ring alone.
LEMMA RingSteps ==
    ASSUME [Next]_vars
    PROVE  \/ \E m \in Msg : Store(m)
           \/ \E r \in Reader : Take(r)
           \/ Same
<1>1. ASSUME NEW w \in Writer, NEW m \in Msg, Error(w, m) PROVE Store(m) \/ Same
  BY ZenonT(30), <1>1 DEF Error, Store, Same, vars, ringVars
<1>2. ASSUME NEW w \in Writer, ErrorUnlocked(w) PROVE Same
  BY ZenonT(30), <1>2 DEF ErrorUnlocked, Same, ringVars
<1>3. ASSUME NEW r \in Reader, NEW n, NEW nd, TryRead(r, n, nd) PROVE Take(r) \/ Same
  BY ZenonT(30), <1>3 DEF TryRead, Take, Same
<1>4. ASSUME NEW r \in Reader, NEW nd \in BOOLEAN, Read(r, nd) PROVE Take(r) \/ Same
  BY ZenonT(30), <1>3, <1>4 DEF Read
<1>5. ASSUME NEW r \in Reader, Woken(r) PROVE Take(r) \/ Same
  BY ZenonT(30), <1>3, <1>5 DEF Woken
<1>6. ASSUME NEW r \in Reader, Down(r) \/ Signal(r) \/ Interrupted(r) PROVE Same
  BY ZenonT(30), <1>6 DEF Down, Signal, Interrupted, Same, ringVars
<1>7. CASE UNCHANGED vars
  BY ZenonT(30), <1>7 DEF vars, ringVars, Same
<1> QED
  BY ZenonT(30), <1>1, <1>2, <1>4, <1>5, <1>6, <1>7 DEF Next

\* An index stays within the array.
LEMMA AdvanceType ==
    ASSUME NEW i \in Slot
    PROVE  /\ Advance(i) \in Slot
           /\ Advance(i) = i + 1 \/ (i + 1 = NMsg /\ Advance(i) = 0)
           /\ i + 1 # NMsg => Advance(i) = i + 1
BY RingAssumption DEF Advance, Slot

\* A stored message is one more in use, behind the others.
LEMMA StoreStep ==
    ASSUME RingInv, NEW m \in Msg, Store(m)
    PROVE  /\ RingInv'
           /\ Count < NMsg /\ Count \in Nat /\ Count' = Count + 1
<1> USE RingAssumption
<1>t. RingType
  BY DEF RingInv
<1>0. RingType'
  BY ZenonT(30), <1>t, AdvanceType DEF RingType, Store
<1>e. /\ head' = head /\ emsgs[tail] = None /\ m # None /\ emsgs'[tail] = m
      /\ \A i \in Slot : i # tail => emsgs'[i] = emsgs[i]
  BY ZenonT(30), <1>t DEF Store, Full, RingType
<1>n. /\ NMsg \in Nat \ {0} /\ head \in Nat /\ tail \in Nat /\ head < NMsg /\ tail < NMsg
      /\ tail' = (IF tail + 1 = NMsg THEN 0 ELSE tail + 1)
  BY <1>t DEF RingType, Slot, Store, Advance
<1>o. \A i \in Slot : emsgs[i] # None <=> InUse(i)
  BY DEF RingInv, Occupied
<1>h. head \in Slot /\ tail \in Slot
  BY <1>t DEF RingType
<1>1. Occupied'
  <2> SUFFICES ASSUME NEW i \in Slot PROVE (emsgs[i] # None)' <=> InUse(i)'
    BY DEF Occupied
  <2>1. i \in Nat /\ i < NMsg
    BY DEF Slot
  <2>2. emsgs'[i] # None <=> (i = tail \/ InUse(i))
    BY <1>e, <1>o
  <2>3. emsgs'[head] # None <=> (head = tail \/ emsgs[head] # None)
    BY <1>e, <1>h
  <2>4. head # tail => emsgs[head] # None
    BY <1>o, <1>h, <1>n DEF InUse
  <2> QED
    BY <1>e, <1>n, <2>1, <2>2, <2>3, <2>4 DEF InUse
<1>2. Count < NMsg /\ Count \in Nat /\ Count' = Count + 1
  <2>1. head # tail => emsgs[head] # None
    BY <1>o, <1>h, <1>n DEF InUse
  <2>2. emsgs'[head] # None
    BY <1>e, <1>h, <2>1
  <2>3. CASE head = tail
    BY <2>2, <2>3, <1>e, <1>n DEF Count
  <2>4. CASE head # tail
    BY <2>1, <2>2, <2>4, <1>e, <1>n DEF Count
  <2> QED
    BY <2>3, <2>4
<1> QED
  BY <1>0, <1>1, <1>2 DEF RingInv

\* A message taken is one less, the oldest.
LEMMA TakeStep ==
    ASSUME RingInv, NEW r \in Reader, Take(r)
    PROVE  /\ RingInv'
           /\ Count \in Nat /\ Count > 0 /\ Count <= NMsg /\ Count' = Count - 1
<1> USE RingAssumption
<1>t. RingType
  BY DEF RingInv
<1>0. RingType'
  <2>1. emsgs[head] \in Msg \cup {None}
    BY <1>t DEF RingType
  <2> QED
    BY ZenonT(30), <1>t, <2>1, AdvanceType DEF RingType, Take
<1>e. /\ tail' = tail /\ emsgs[head] # None /\ emsgs'[head] = None
      /\ \A i \in Slot : i # head => emsgs'[i] = emsgs[i]
  BY ZenonT(30), <1>t DEF Take, RingType
<1>n. /\ NMsg \in Nat \ {0} /\ head \in Nat /\ tail \in Nat /\ head < NMsg /\ tail < NMsg
      /\ head' = (IF head + 1 = NMsg THEN 0 ELSE head + 1)
  BY <1>t DEF RingType, Slot, Take, Advance
<1>o. \A i \in Slot : emsgs[i] # None <=> InUse(i)
  BY DEF RingInv, Occupied
<1>h. head \in Slot /\ tail \in Slot /\ head' \in Slot
  BY <1>t, <1>0 DEF RingType
<1>v. emsgs'[head'] # None <=> (head' # head /\ InUse(head'))
  BY <1>e, <1>h, <1>o
<1>1. Occupied'
  <2> SUFFICES ASSUME NEW i \in Slot PROVE (emsgs[i] # None)' <=> InUse(i)'
    BY DEF Occupied
  <2>1. i \in Nat /\ i < NMsg
    BY DEF Slot
  <2>2. emsgs'[i] # None <=> (i # head /\ InUse(i))
    BY <1>e, <1>o
  <2> QED
    BY <1>e, <1>n, <1>v, <2>1, <2>2 DEF InUse
<1>2. Count \in Nat /\ Count > 0 /\ Count <= NMsg /\ Count' = Count - 1
  BY <1>e, <1>n, <1>v DEF Count, InUse
<1> QED
  BY <1>0, <1>1, <1>2 DEF RingInv

\* The ring, its indices and the messages taken have their types, and the slots
\* in use are the ones between head and tail.
LEMMA RingInvariant == Spec => []RingInv
<1>1. Init => RingInv
  BY RingAssumption DEF Init, RingInv, RingType, Occupied, InUse, Slot
<1>2. ASSUME RingInv, Same PROVE RingInv'
  BY ZenonT(30), <1>2 DEF Same, RingInv, RingType, Occupied, InUse
<1>3. RingInv /\ [Next]_vars => RingInv'
  BY ZenonT(30), <1>2, RingSteps, StoreStep, TakeStep
<1> QED
  BY <1>1, <1>3, PTL DEF Spec

----------------------------------------------------------------------------
(* The FIFO.                                                               *)

\* The messages in the ring, oldest first.
Queue == [i \in 1..Count |-> Nth(i)]

\* The number of messages is that of the slots in use.
LEMMA CountType ==
    ASSUME RingInv
    PROVE  /\ Count \in 0..NMsg
           /\ Count = 0 <=> emsgs[head] = None
BY RingAssumption DEF RingInv, RingType, Slot, Count, Occupied, InUse

\* The ring holds a sequence of messages.
LEMMA QueueType ==
    ASSUME RingInv
    PROVE  /\ Count \in Nat
           /\ Queue \in Seq(Msg \cup {None}) /\ Len(Queue) = Count
           /\ \A i \in 1..Count : Queue[i] = Nth(i)
<1>1. Count \in Nat /\ Count <= NMsg
  BY CountType, RingAssumption
<1>2. ASSUME NEW i \in 1..Count PROVE Nth(i) \in Msg \cup {None}
  <2>1. (IF head + i - 1 < NMsg THEN head + i - 1 ELSE head + i - 1 - NMsg) \in Slot
    BY <1>1, RingAssumption DEF RingInv, RingType, Slot
  <2> QED
    BY <2>1 DEF Nth, RingInv, RingType
<1>3. Queue \in [1..Count -> Msg \cup {None}]
  BY <1>2 DEF Queue
<1>4. \A i \in 1..Count : Queue[i] = Nth(i)
  BY DEF Queue
<1> HIDE DEF Queue
<1>5. Queue \in Seq(Msg \cup {None}) /\ Len(Queue) = Count
  BY <1>1, <1>3
<1> QED
  BY <1>1, <1>4, <1>5

\* aoechr_error puts the message at the end.
LEMMA StorePuts ==
    ASSUME RingInv, RingInv', NEW m \in Msg, Store(m)
    PROVE  Len(Queue) < NMsg /\ Queue' = Append(Queue, m)
<1>1. Count < NMsg /\ Count \in Nat /\ Count' = Count + 1
  BY StoreStep
<1>2. /\ Queue \in Seq(Msg \cup {None}) /\ Len(Queue) = Count
      /\ \A i \in 1..Count : Queue[i] = Nth(i)
  BY QueueType
<1>3. /\ Queue' \in Seq(Msg \cup {None}) /\ Len(Queue') = Count + 1
      /\ \A i \in 1..(Count + 1) : Queue'[i] = Nth(i)'
  <2>1. /\ (Queue \in Seq(Msg \cup {None}))' /\ (Len(Queue) = Count)'
        /\ (\A i \in 1..Count : Queue[i] = Nth(i))'
    BY QueueType, PTL
  <2> QED
    BY <2>1, <1>1
<1>n. /\ NMsg \in Nat \ {0} /\ head \in Nat /\ tail \in Nat /\ head < NMsg /\ tail < NMsg
      /\ head' = head /\ emsgs'[tail] = m
      /\ \A i \in Slot : i # tail => emsgs'[i] = emsgs[i]
  BY RingAssumption DEF RingInv, RingType, Slot, Store
<1>c. Count = IF head = tail THEN 0 ELSE IF head < tail THEN tail - head ELSE NMsg - head + tail
  BY <1>n, <1>1 DEF Count, RingInv, RingType, Occupied, InUse, Slot, Store, Full
<1>4. ASSUME NEW i \in 1..Count PROVE Nth(i)' = Nth(i)
  <2> DEFINE k == IF head + i - 1 < NMsg THEN head + i - 1 ELSE head + i - 1 - NMsg
  <2>1. k \in Slot /\ k # tail
    BY <1>n, <1>1, <1>c DEF Slot
  <2>2. Nth(i) = emsgs[k] /\ Nth(i)' = emsgs'[k]
    BY <1>n DEF Nth
  <2> HIDE DEF k
  <2> QED
    BY <2>1, <2>2, <1>n
<1>5. ASSUME NEW i, i = Count + 1 PROVE Nth(i)' = m
  <2>1. (IF head + i - 1 < NMsg THEN head + i - 1 ELSE head + i - 1 - NMsg) = tail
    BY <1>n, <1>c, <1>1, <1>5
  <2> QED
    BY <2>1, <1>n DEF Nth
<1> HIDE DEF Queue
<1>6. /\ Append(Queue, m) \in Seq(Msg \cup {None}) /\ Len(Append(Queue, m)) = Count + 1
      /\ \A i \in 1..Count : Append(Queue, m)[i] = Queue[i]
      /\ Append(Queue, m)[Count + 1] = m
  BY <1>1, <1>2
<1>7. \A i \in 1..(Count + 1) : Queue'[i] = Append(Queue, m)[i]
  <2> TAKE i \in 1..(Count + 1)
  <2>1. CASE i \in 1..Count
    BY <2>1, <1>2, <1>3, <1>4, <1>6
  <2>2. CASE i = Count + 1
    BY <2>2, <1>3, <1>5, <1>6
  <2>3. i \in 1..Count \/ i = Count + 1
    BY <1>1
  <2> QED
    BY ZenonT(30), <2>1, <2>2, <2>3
<1>8. Queue' = Append(Queue, m)
  BY <1>3, <1>6, <1>7, SeqEqual
<1> QED
  BY <1>1, <1>2, <1>8

\* aoechr_read takes the message at the front.
LEMMA TakeGets ==
    ASSUME RingInv, RingInv', NEW r \in Reader, Take(r)
    PROVE  Queue # <<>> /\ emsgs[head] = Head(Queue) /\ Queue' = Tail(Queue)
<1>1. Count \in Nat /\ Count > 0 /\ Count <= NMsg /\ Count' = Count - 1
  BY TakeStep
<1>2. /\ Queue \in Seq(Msg \cup {None}) /\ Len(Queue) = Count
      /\ \A i \in 1..Count : Queue[i] = Nth(i)
  BY QueueType
<1>3. /\ Queue' \in Seq(Msg \cup {None}) /\ Len(Queue') = Count - 1
      /\ \A i \in 1..(Count - 1) : Queue'[i] = Nth(i)'
  <2>1. /\ (Queue \in Seq(Msg \cup {None}))' /\ (Len(Queue) = Count)'
        /\ (\A i \in 1..Count : Queue[i] = Nth(i))'
    BY QueueType, PTL
  <2> QED
    BY <2>1, <1>1
<1>n. /\ NMsg \in Nat \ {0} /\ head \in Nat /\ head < NMsg
      /\ head' = (IF head + 1 = NMsg THEN 0 ELSE head + 1)
      /\ \A i \in Slot : i # head => emsgs'[i] = emsgs[i]
  BY RingAssumption DEF RingInv, RingType, Slot, Take, Advance
<1>4. ASSUME NEW i \in 1..(Count - 1) PROVE Nth(i)' = Nth(i + 1)
  <2> DEFINE k == IF head + i < NMsg THEN head + i ELSE head + i - NMsg
  <2>1. k \in Slot /\ k # head
    BY <1>n, <1>1 DEF Slot
  <2>2. Nth(i + 1) = emsgs[k]
    BY <1>n, <1>1 DEF Nth
  <2>3. Nth(i)' = emsgs'[k]
    BY <1>n, <1>1 DEF Nth
  <2> HIDE DEF k
  <2> QED
    BY <2>1, <2>2, <2>3, <1>n
<1>5. Nth(1) = emsgs[head]
  BY <1>n DEF Nth
<1> HIDE DEF Queue
<1>6. Queue # <<>> /\ Head(Queue) = Queue[1]
  BY <1>1, <1>2
<1>7. /\ Tail(Queue) \in Seq(Msg \cup {None}) /\ Len(Tail(Queue)) = Count - 1
      /\ \A i \in 1..(Count - 1) : Tail(Queue)[i] = Queue[i + 1]
  BY <1>1, <1>2, <1>6, HeadTailProperties
<1>8. \A i \in 1..(Count - 1) : Queue'[i] = Tail(Queue)[i]
  <2> TAKE i \in 1..(Count - 1)
  <2>1. i + 1 \in 1..Count
    BY <1>1
  <2> QED
    BY <2>1, <1>2, <1>3, <1>4, <1>7
<1>9. Queue' = Tail(Queue)
  BY <1>3, <1>7, <1>8, SeqEqual
<1>10. Queue[1] = Nth(1)
  BY <1>1, <1>2
<1> QED
  BY <1>5, <1>6, <1>9, <1>10

\* The ring implements the bounded FIFO of AoeErrFifo, whatever its size and
\* whoever calls aoechr_error and aoechr_read.
THEOREM RingIsFifo == Spec => IsFifo
<1>1. Init => Fifo!Init
  <2> SUFFICES ASSUME Init PROVE Fifo!Init
    OBVIOUS
  <2>1. Count = 0
    BY RingAssumption DEF Init, Count, Slot
  <2> QED
    BY <2>1 DEF Init, Fifo!Init
<1>2. RingInv /\ RingInv' /\ [Next]_vars => [Fifo!Next]_Fifo!vars
  <2> SUFFICES ASSUME RingInv, RingInv', [Next]_vars PROVE [Fifo!Next]_Fifo!vars
    OBVIOUS
  <2>1. ASSUME NEW m \in Msg, Store(m) PROVE Fifo!Next
    <3>1. Len(Queue) < NMsg /\ Queue' = Append(Queue, m) /\ got' = got
      BY ZenonT(30), StorePuts, <2>1 DEF Store
    <3> QED
      BY ZenonT(30), <3>1 DEF Queue, Fifo!Next, Fifo!Put
  <2>2. ASSUME NEW r \in Reader, Take(r) PROVE Fifo!Next
    <3>1. /\ Queue # <<>> /\ Queue' = Tail(Queue)
          /\ got' = [got EXCEPT ![r] = Head(Queue)]
      BY ZenonT(30), TakeGets, <2>2 DEF Take
    <3> QED
      BY ZenonT(30), <3>1 DEF Queue, Fifo!Next, Fifo!Get
  <2>3. ASSUME Same PROVE UNCHANGED Fifo!vars
    BY ZenonT(30), <2>3 DEF Same, Fifo!vars, Count, Nth
  <2> QED
    BY ZenonT(30), <2>1, <2>2, <2>3, RingSteps
<1> QED
  BY <1>1, <1>2, RingInvariant, PTL DEF Spec, IsFifo, Fifo!Spec

----------------------------------------------------------------------------
(* The sleepers.                                                           *)

\* Every reader's buffer takes every message.
Fits == \A m \in Msg, r \in Reader : MsgLen[m] <= Cnt[r]

Unlocked == {w \in Writer : wpc[w] = "unlocked"}
Awake == {r \in Reader : rpc[r] = "woken"}
Blocked == {r \in Reader : rpc[r] # "idle"}

SleepType ==
    /\ sema \in Nat /\ waitlist \in Seq(Reader)
    /\ wpc \in [Writer -> {"idle", "unlocked"}]
    /\ rpc \in [Reader -> {"idle", "down", "asleep", "woken", "interrupted"}]

\* The readers in the list of the semaphore are asleep, each there once.
ListInv ==
    /\ \A i \in 1..Len(waitlist) : rpc[waitlist[i]] = "asleep"
    /\ \A i, j \in 1..Len(waitlist) : waitlist[i] = waitlist[j] => i = j

\* nblocked_emsgs_readers counts the readers that have added themselves to it.
BlockedInv == nblocked = Cardinality(Blocked)

SleepInv ==
    /\ RingInv /\ SleepType /\ ListInv /\ BlockedInv
    /\ Fits => NoLostWakeup

\* The sets of processes are finite, and their sizes are numbers.
LEMMA Finite ==
    /\ IsFiniteSet(Unlocked) /\ Cardinality(Unlocked) \in Nat
    /\ IsFiniteSet(Awake) /\ Cardinality(Awake) \in Nat
    /\ IsFiniteSet(Blocked) /\ Cardinality(Blocked) \in Nat
<1>1. Unlocked \subseteq Writer /\ Awake \subseteq Reader /\ Blocked \subseteq Reader
  BY ZenonT(30) DEF Unlocked, Awake, Blocked
<1>2. IsFiniteSet(Writer) /\ IsFiniteSet(Reader)
  BY RingAssumption
<1>3. IsFiniteSet(Unlocked) /\ IsFiniteSet(Awake) /\ IsFiniteSet(Blocked)
  BY ZenonT(30), <1>1, <1>2, FS_Subset
<1> QED
  BY ZenonT(30), <1>3, FS_CardinalityType

\* An element more.
LEMMA OneMore ==
    ASSUME NEW S, IsFiniteSet(S), NEW T, NEW x, x \notin S, T = S \cup {x}
    PROVE  Cardinality(T) = Cardinality(S) + 1
BY FS_AddElement

\* An element less.
LEMMA OneLess ==
    ASSUME NEW S, IsFiniteSet(S), NEW T, NEW x \in S, T = S \ {x}
    PROVE  Cardinality(T) = Cardinality(S) - 1
BY FS_RemoveElement

\* The body of the loop of aoechr_read blocks the reader, takes a message, or
\* returns without one.
LEMMA TryReadCases ==
    ASSUME NEW r \in Reader, NEW n, NEW nd, TryRead(r, n, nd)
    PROVE  \/ /\ emsgs[head] = None /\ Same
              /\ rpc' = [rpc EXCEPT ![r] = "down"] /\ nblocked' = Block(n)
           \/ /\ rpc' = [rpc EXCEPT ![r] = "idle"] /\ nblocked' = n
              /\ \/ Take(r)
                 \/ Same /\ (emsgs[head] = None => nd)
                         /\ (emsgs[head] # None => ~(MsgLen[emsgs[head]] <= Cnt[r]))
<1> DEFINE m == emsgs[head]
           taken == m # None /\ MsgLen[m] <= Cnt[r]
           blocks == m = None /\ ~nd
<1>1. /\ IF taken
         THEN /\ emsgs' = [emsgs EXCEPT ![head] = None]
              /\ head' = Advance(head)
              /\ got' = [got EXCEPT ![r] = m]
         ELSE UNCHANGED <<emsgs, head, got>>
      /\ rpc' = [rpc EXCEPT ![r] = IF blocks THEN "down" ELSE "idle"]
      /\ nblocked' = (IF blocks THEN Block(n) ELSE n)
      /\ tail' = tail
  BY ZenonT(30) DEF TryRead
<1>2. CASE blocks
  BY ZenonT(30), <1>1, <1>2 DEF Same
<1>3. CASE ~blocks
  <2>1. rpc' = [rpc EXCEPT ![r] = "idle"] /\ nblocked' = n
    BY ZenonT(30), <1>1, <1>3
  <2>2. CASE taken
    BY ZenonT(30), <1>1, <2>1, <2>2 DEF Take
  <2>3. CASE ~taken
    BY ZenonT(30), <1>1, <1>3, <2>1, <2>3 DEF Same
  <2> QED
    BY ZenonT(30), <2>2, <2>3
<1> QED
  BY ZenonT(30), <1>2, <1>3

\* Types and the list of sleepers.
LEMMA ListStep ==
    ASSUME SleepType, ListInv, [Next]_vars
    PROVE  SleepType' /\ ListInv'
<1> DEFINE Good == SleepType' /\ ListInv'
<1>t. /\ sema \in Nat /\ waitlist \in Seq(Reader)
      /\ wpc \in [Writer -> {"idle", "unlocked"}]
      /\ rpc \in [Reader -> {"idle", "down", "asleep", "woken", "interrupted"}]
  BY DEF SleepType
<1>same. ASSUME sema' = sema, waitlist' = waitlist, NEW r \in Reader,
                rpc[r] # "asleep", wpc' = wpc, NEW s \in {"idle", "down"},
                rpc' = [rpc EXCEPT ![r] = s]
         PROVE  Good
  <2>1. SleepType'
    BY <1>same, <1>t DEF SleepType
  <2>2. ListInv'
    BY <1>same, <1>t DEF ListInv
  <2> QED
    BY <2>1, <2>2
<1>1. ASSUME NEW w \in Writer, NEW m \in Msg, Error(w, m) PROVE Good
  <2>1. UNCHANGED <<sema, waitlist, rpc>> /\ (wpc' = wpc \/ wpc' = [wpc EXCEPT ![w] = "unlocked"])
    BY ZenonT(30), <1>1 DEF Error, vars, semVars
  <2> QED
    BY <2>1, <1>t DEF SleepType, ListInv
<1>2. ASSUME NEW w \in Writer, ErrorUnlocked(w) PROVE Good
  <2>0. wpc' \in [Writer -> {"idle", "unlocked"}]
    BY <1>2, <1>t DEF ErrorUnlocked
  <2>1. CASE UNCHANGED <<sema, waitlist, rpc>>
    BY <2>0, <2>1, <1>t DEF SleepType, ListInv
  <2>2. CASE waitlist = <<>> /\ sema' = sema + 1 /\ UNCHANGED <<waitlist, rpc>>
    BY <2>0, <2>2, <1>t DEF SleepType, ListInv
  <2>3. CASE /\ waitlist # <<>> /\ waitlist' = Tail(waitlist)
             /\ rpc' = [rpc EXCEPT ![Head(waitlist)] = "woken"]
             /\ UNCHANGED sema
    <3>1. /\ Head(waitlist) \in Reader /\ Head(waitlist) = waitlist[1] /\ Len(waitlist) \in Nat \ {0}
          /\ waitlist' \in Seq(Reader) /\ Len(waitlist') = Len(waitlist) - 1
          /\ \A i \in 1..(Len(waitlist) - 1) : waitlist'[i] = waitlist[i + 1]
      BY <2>3, <1>t
    <3>2. SleepType'
      BY <2>0, <2>3, <3>1, <1>t DEF SleepType
    <3>3. \A i \in 1..(Len(waitlist) - 1) : waitlist'[i] # waitlist[1] /\ waitlist'[i] \in Reader
                                            /\ rpc[waitlist'[i]] = "asleep"
      BY <3>1, <1>t DEF ListInv
    <3>4. \A i, j \in 1..(Len(waitlist) - 1) : waitlist'[i] = waitlist'[j] => i = j
      BY <3>1 DEF ListInv
    <3>5. \A i \in 1..Len(waitlist') : rpc'[waitlist'[i]] = "asleep"
      BY <2>3, <3>1, <3>3, <1>t
    <3> QED
      BY <3>1, <3>2, <3>4, <3>5 DEF ListInv
  <2> QED
    BY ZenonT(30), <1>2, <2>1, <2>2, <2>3 DEF ErrorUnlocked, Up, semVars
<1>3. ASSUME NEW r \in Reader, NEW n, NEW nd, rpc[r] # "asleep",
             TryRead(r, n, nd), UNCHANGED <<semVars, wpc>>
      PROVE  Good
  <2>1. sema' = sema /\ waitlist' = waitlist /\ wpc' = wpc
    BY ZenonT(30), <1>3 DEF semVars
  <2>2. rpc' = [rpc EXCEPT ![r] = "down"] \/ rpc' = [rpc EXCEPT ![r] = "idle"]
    BY ZenonT(30), <1>3, TryReadCases
  <2> HIDE DEF Good
  <2> QED
    BY ZenonT(30), <1>same, <1>3, <2>1, <2>2
<1>4. ASSUME NEW r \in Reader, NEW nd \in BOOLEAN, Read(r, nd) PROVE Good
  <2>1. rpc[r] # "asleep"
    BY <1>4 DEF Read
  <2> HIDE DEF Good
  <2> QED
    BY ZenonT(30), <1>3, <1>4, <2>1 DEF Read
<1>5. ASSUME NEW r \in Reader, Woken(r) PROVE Good
  <2>1. rpc[r] # "asleep"
    BY <1>5 DEF Woken
  <2> HIDE DEF Good
  <2> QED
    BY ZenonT(30), <1>3, <1>5, <2>1 DEF Woken
<1>6. ASSUME NEW r \in Reader, Interrupted(r) PROVE Good
  <2>1. /\ sema' = sema /\ waitlist' = waitlist /\ wpc' = wpc /\ rpc[r] # "asleep"
        /\ rpc' = [rpc EXCEPT ![r] = "idle"]
    BY <1>6 DEF Interrupted, semVars
  <2> HIDE DEF Good
  <2> QED
    BY ZenonT(30), <1>same, <2>1
<1>7. ASSUME NEW r \in Reader, Down(r) PROVE Good
  <2>1. rpc[r] = "down" /\ wpc' = wpc
    BY <1>7 DEF Down
  <2>2. CASE /\ sema > 0 /\ sema' = sema - 1 /\ waitlist' = waitlist
             /\ rpc' = [rpc EXCEPT ![r] = "woken"]
    BY <2>1, <2>2, <1>t DEF SleepType, ListInv
  <2>3. CASE /\ sema' = sema /\ waitlist' = Append(waitlist, r)
             /\ rpc' = [rpc EXCEPT ![r] = "asleep"]
    <3>1. SleepType'
      BY <2>1, <2>3, <1>t DEF SleepType
    <3>2. /\ Len(waitlist) \in Nat /\ Len(waitlist') = Len(waitlist) + 1
          /\ waitlist'[Len(waitlist) + 1] = r
          /\ \A i \in 1..Len(waitlist) : waitlist'[i] = waitlist[i] /\ waitlist[i] \in Reader
      BY <2>3, <1>t
    <3>3. \A i \in 1..Len(waitlist) : waitlist[i] # r /\ rpc[waitlist[i]] = "asleep"
      BY <2>1 DEF ListInv
    <3>4. \A i \in 1..Len(waitlist') : rpc'[waitlist'[i]] = "asleep"
      BY <3>2, <3>3, <2>3, <1>t
    <3>5. \A i, j \in 1..Len(waitlist') : waitlist'[i] = waitlist'[j] => i = j
      BY <3>2, <3>3 DEF ListInv
    <3> QED
      BY <3>1, <3>4, <3>5 DEF ListInv
  <2> QED
    BY ZenonT(30), <1>7, <2>2, <2>3 DEF Down
<1>8. ASSUME NEW r \in Reader, Signal(r) PROVE Good
  <2>1. PICK k \in 1..Len(waitlist) :
          /\ waitlist[k] = r
          /\ waitlist' = SubSeq(waitlist, 1, k - 1) \o SubSeq(waitlist, k + 1, Len(waitlist))
    BY ZenonT(30), <1>8 DEF Signal
  <2>2. sema' = sema /\ wpc' = wpc /\ rpc' = [rpc EXCEPT ![r] = "interrupted"]
    BY <1>8 DEF Signal
  <2>n. Len(waitlist) \in Nat /\ k \in Nat /\ 1 <= k /\ k <= Len(waitlist)
    BY <1>t
  <2>3. /\ SubSeq(waitlist, 1, k - 1) \in Seq(Reader)
        /\ Len(SubSeq(waitlist, 1, k - 1)) = k - 1
        /\ \A i \in 1..(k - 1) : SubSeq(waitlist, 1, k - 1)[i] = waitlist[i]
    BY <2>n, <1>t
  <2>4. /\ SubSeq(waitlist, k + 1, Len(waitlist)) \in Seq(Reader)
        /\ Len(SubSeq(waitlist, k + 1, Len(waitlist))) = Len(waitlist) - k
        /\ \A i \in 1..(Len(waitlist) - k) :
              SubSeq(waitlist, k + 1, Len(waitlist))[i] = waitlist[k + i]
    BY <2>n, <1>t
  <2> DEFINE a == SubSeq(waitlist, 1, k - 1)
             b == SubSeq(waitlist, k + 1, Len(waitlist))
  <2>5. /\ a \o b \in Seq(Reader) /\ Len(a \o b) = Len(a) + Len(b)
        /\ \A i \in 1..(Len(a) + Len(b)) :
              (a \o b)[i] = IF i <= Len(a) THEN a[i] ELSE b[i - Len(a)]
    BY ZenonT(30), <2>3, <2>4, ConcatProperties
  <2>6. /\ waitlist' \in Seq(Reader) /\ Len(waitlist') = Len(waitlist) - 1
        /\ \A i \in 1..(Len(waitlist) - 1) :
              waitlist'[i] = waitlist[IF i < k THEN i ELSE i + 1]
    <3> HIDE DEF a, b
    <3>1. waitlist' = a \o b
      BY <2>1 DEF a, b
    <3>2. /\ Len(a) = k - 1 /\ Len(b) = Len(waitlist) - k
          /\ \A i \in 1..(k - 1) : a[i] = waitlist[i]
          /\ \A i \in 1..(Len(waitlist) - k) : b[i] = waitlist[k + i]
      BY <2>3, <2>4 DEF a, b
    <3>3. waitlist' \in Seq(Reader) /\ Len(waitlist') = Len(waitlist) - 1
      BY <3>1, <3>2, <2>5, <2>n
    <3>4. ASSUME NEW i \in 1..(Len(waitlist) - 1)
          PROVE  waitlist'[i] = waitlist[IF i < k THEN i ELSE i + 1]
      <4>1. waitlist'[i] = IF i <= k - 1 THEN a[i] ELSE b[i - (k - 1)]
        BY <3>1, <3>2, <2>5, <2>n
      <4>2. CASE i < k
        BY <4>1, <4>2, <3>2, <2>n
      <4>3. CASE ~(i < k)
        <5>1. i - (k - 1) \in 1..(Len(waitlist) - k) /\ k + (i - (k - 1)) = i + 1
          BY <4>3, <2>n
        <5> QED
          BY <4>1, <4>3, <5>1, <3>2, <2>n
      <4> QED
        BY <4>2, <4>3
    <3> QED
      BY <3>3, <3>4
  <2>7. SleepType'
    BY <2>2, <2>6, <1>t DEF SleepType
  <2>8. \A i \in 1..(Len(waitlist) - 1) :
          /\ waitlist'[i] # r /\ waitlist'[i] \in Reader /\ rpc[waitlist'[i]] = "asleep"
    <3> TAKE i \in 1..(Len(waitlist) - 1)
    <3> DEFINE j == IF i < k THEN i ELSE i + 1
    <3>1. j \in 1..Len(waitlist) /\ j # k
      BY <2>n
    <3>2. waitlist'[i] = waitlist[j]
      BY <2>6
    <3> HIDE DEF j
    <3>3. waitlist[j] \in Reader
      BY <3>1, <1>t
    <3> QED
      BY ZenonT(30), <2>1, <3>1, <3>2, <3>3 DEF ListInv
  <2>9. \A i, j \in 1..(Len(waitlist) - 1) : waitlist'[i] = waitlist'[j] => i = j
    BY <2>6, <2>n DEF ListInv
  <2>10. \A i \in 1..Len(waitlist') : rpc'[waitlist'[i]] = "asleep"
    BY <2>2, <2>6, <2>8, <1>t
  <2> QED
    BY <2>6, <2>7, <2>9, <2>10 DEF ListInv
<1>9. ASSUME UNCHANGED vars PROVE Good
  BY ZenonT(30), <1>9 DEF vars, semVars, SleepType, ListInv
<1> HIDE DEF Good
<1>10. Good
  BY ZenonT(30), <1>1, <1>2, <1>4, <1>5, <1>6, <1>7, <1>8, <1>9 DEF Next
<1> QED
  BY <1>10 DEF Good

\* A reader that returns is in no set.
LEMMA IdleMove ==
    ASSUME SleepType, NEW r \in Reader, rpc' = [rpc EXCEPT ![r] = "idle"]
    PROVE  Blocked' = Blocked \ {r} /\ Awake' = Awake \ {r}
BY DEF SleepType, Blocked, Awake

\* A reader that is woken up is still counted as blocked.
LEMMA WokenMove ==
    ASSUME SleepType, NEW r \in Reader, rpc' = [rpc EXCEPT ![r] = "woken"]
    PROVE  Blocked' = Blocked \cup {r} /\ Awake' = Awake \cup {r}
BY DEF SleepType, Blocked, Awake

\* So is one that goes to sleep, sleeps or is interrupted.
LEMMA SleepMove ==
    ASSUME SleepType, NEW r \in Reader,
           \/ rpc' = [rpc EXCEPT ![r] = "down"]
           \/ rpc' = [rpc EXCEPT ![r] = "asleep"]
           \/ rpc' = [rpc EXCEPT ![r] = "interrupted"]
    PROVE  Blocked' = Blocked \cup {r} /\ Awake' = Awake \ {r}
BY DEF SleepType, Blocked, Awake

\* The count of blocked readers stays exact.
LEMMA BlockedStep ==
    ASSUME SleepType, ListInv, BlockedInv, [Next]_vars
    PROVE  BlockedInv'
<1> DEFINE N == Cardinality(Blocked)
<1>t. rpc \in [Reader -> {"idle", "down", "asleep", "woken", "interrupted"}]
  BY DEF SleepType
<1>n. nblocked = N /\ N \in Nat /\ IsFiniteSet(Blocked)
  BY Finite DEF BlockedInv
<1>same. ASSUME nblocked' = nblocked, Blocked' = Blocked PROVE BlockedInv'
  BY ZenonT(30), <1>same, <1>n DEF BlockedInv
<1>less. ASSUME NEW r \in Blocked, nblocked' = nblocked - 1, Blocked' = Blocked \ {r}
         PROVE  BlockedInv'
  <2>1. Cardinality(Blocked') = N - 1
    BY ZenonT(30), <1>less, <1>n, OneLess
  <2> QED
    BY ZenonT(30), <1>less, <1>n, <2>1 DEF BlockedInv
<1>more. ASSUME NEW r, r \notin Blocked, nblocked' = nblocked + 1, Blocked' = Blocked \cup {r}
         PROVE  BlockedInv'
  <2>1. Cardinality(Blocked') = N + 1
    BY ZenonT(30), <1>more, <1>n, OneMore
  <2> QED
    BY ZenonT(30), <1>more, <1>n, <2>1 DEF BlockedInv
<1>rpc. ASSUME rpc' = rpc PROVE Blocked' = Blocked
  BY ZenonT(30), <1>rpc DEF Blocked
<1> HIDE DEF N
<1>1. ASSUME NEW w \in Writer, NEW m \in Msg, Error(w, m) PROVE BlockedInv'
  <2>1. nblocked' = nblocked /\ rpc' = rpc
    BY ZenonT(30), <1>1 DEF Error, vars
  <2> QED
    BY ZenonT(30), <2>1, <1>same, <1>rpc
<1>2. ASSUME NEW w \in Writer, ErrorUnlocked(w) PROVE BlockedInv'
  <2>1. nblocked' = nblocked
    BY ZenonT(30), <1>2 DEF ErrorUnlocked
  <2>2. CASE rpc' = rpc
    BY ZenonT(30), <2>1, <2>2, <1>same, <1>rpc
  <2>3. CASE waitlist # <<>> /\ rpc' = [rpc EXCEPT ![Head(waitlist)] = "woken"]
    <3>1. Head(waitlist) \in Reader /\ rpc[Head(waitlist)] = "asleep"
      BY <2>3 DEF SleepType, ListInv
    <3>2. Blocked' = Blocked \cup {Head(waitlist)}
      BY ZenonT(30), <2>3, <3>1, WokenMove
    <3>3. Blocked' = Blocked
      BY <3>1, <3>2 DEF Blocked
    <3> QED
      BY ZenonT(30), <2>1, <3>3, <1>same
  <2> QED
    BY ZenonT(30), <1>2, <2>2, <2>3 DEF ErrorUnlocked, Up
<1>4. ASSUME NEW r \in Reader, NEW nd \in BOOLEAN, Read(r, nd) PROVE BlockedInv'
  <2>1. rpc[r] = "idle" /\ TryRead(r, nblocked, nd) /\ r \notin Blocked
    BY ZenonT(30), <1>4 DEF Read, Blocked
  <2>2. CASE rpc' = [rpc EXCEPT ![r] = "down"] /\ nblocked' = Block(nblocked)
    <3>1. Blocked' = Blocked \cup {r}
      BY ZenonT(30), <2>2, SleepMove
    <3> QED
      BY ZenonT(30), <2>1, <2>2, <3>1, <1>more DEF Block
  <2>3. CASE rpc' = [rpc EXCEPT ![r] = "idle"] /\ nblocked' = nblocked
    <3>1. Blocked' = Blocked \ {r}
      BY ZenonT(30), <2>3, IdleMove
    <3> QED
      BY <2>1, <2>3, <3>1, <1>same
  <2> QED
    BY ZenonT(30), <2>1, <2>2, <2>3, TryReadCases
<1>5. ASSUME NEW r \in Reader, Woken(r) PROVE BlockedInv'
  <2>1. rpc[r] = "woken" /\ TryRead(r, nblocked - 1, FALSE)
    BY ZenonT(30), <1>5 DEF Woken
  <2>0. r \in Blocked
    BY <2>1 DEF Blocked
  <2>2. CASE rpc' = [rpc EXCEPT ![r] = "down"] /\ nblocked' = Block(nblocked - 1)
    <3>1. Blocked' = Blocked \cup {r}
      BY ZenonT(30), <2>2, SleepMove
    <3>2. nblocked' = nblocked
      BY <2>2, <1>n DEF Block
    <3> QED
      BY <2>0, <3>2, <3>1, <1>same
  <2>3. CASE rpc' = [rpc EXCEPT ![r] = "idle"] /\ nblocked' = nblocked - 1
    <3>1. Blocked' = Blocked \ {r}
      BY ZenonT(30), <2>3, IdleMove
    <3> QED
      BY ZenonT(30), <2>0, <2>3, <3>1, <1>less
  <2> QED
    BY ZenonT(30), <2>1, <2>2, <2>3, TryReadCases
<1>6. ASSUME NEW r \in Reader, Interrupted(r) PROVE BlockedInv'
  <2>1. /\ r \in Blocked /\ nblocked' = nblocked - 1
        /\ rpc' = [rpc EXCEPT ![r] = "idle"]
    BY <1>6 DEF Interrupted, Blocked
  <2>2. Blocked' = Blocked \ {r}
    BY ZenonT(30), <2>1, IdleMove
  <2> QED
    BY ZenonT(30), <2>1, <2>2, <1>less
<1>7. ASSUME NEW r \in Reader, Down(r) \/ Signal(r) PROVE BlockedInv'
  <2>1. /\ r \in Blocked /\ nblocked' = nblocked
        /\ \/ rpc' = [rpc EXCEPT ![r] = "woken"]
           \/ rpc' = [rpc EXCEPT ![r] = "asleep"]
           \/ rpc' = [rpc EXCEPT ![r] = "interrupted"]
    <3>1. rpc[r] \in {"down", "asleep"}
      BY ZenonT(30), <1>7 DEF Down, Signal
    <3>2. r \in Blocked
      BY <3>1 DEF Blocked
    <3> QED
      BY ZenonT(30), <1>7, <3>2 DEF Down, Signal
  <2>2. Blocked' = Blocked \cup {r}
    BY ZenonT(30), <2>1, WokenMove, SleepMove
  <2> QED
    BY <2>1, <2>2, <1>same
<1>8. ASSUME UNCHANGED vars PROVE BlockedInv'
  BY ZenonT(30), <1>8, <1>same, <1>rpc DEF vars
<1> QED
  BY ZenonT(30), <1>1, <1>2, <1>4, <1>5, <1>6, <1>7, <1>8 DEF Next

\* A reader that is about to sleep, or sleeps.
Sleepy == \E r \in Reader : rpc[r] \in {"down", "asleep"}

\* The writers that may call up(), and the readers that have yet to look.
U == Cardinality(Unlocked)
K == Cardinality(Awake)

\* There are never fewer than no wakeups.
LEMMA SumNat == ASSUME NEW s \in Nat, NEW u \in Nat, NEW k \in Nat PROVE 0 <= s + u + k
OBVIOUS

\* A message less pays for a wakeup less.
LEMMA SumLess ==
    ASSUME NEW c \in Nat, NEW s \in Nat, NEW u \in Nat, NEW k \in Nat, c <= s + u + k,
           NEW l, l = k \/ l = k - 1
    PROVE  c - 1 <= s + u + l
OBVIOUS

\* A wakeup stays on its way until a reader has looked.
LEMMA WakeupStep ==
    ASSUME SleepInv, RingInv', Fits, [Next]_vars
    PROVE  NoLostWakeup'
<1>i. /\ RingInv /\ SleepType /\ ListInv /\ BlockedInv
      /\ Sleepy => Count <= OnTheWay
  BY DEF SleepInv, NoLostWakeup, Sleepy
<1>t. /\ sema \in Nat /\ waitlist \in Seq(Reader)
      /\ wpc \in [Writer -> {"idle", "unlocked"}]
      /\ rpc \in [Reader -> {"idle", "down", "asleep", "woken", "interrupted"}]
  BY <1>i DEF SleepType
<1>f. /\ U \in Nat /\ K \in Nat /\ IsFiniteSet(Unlocked) /\ IsFiniteSet(Awake)
      /\ U' \in Nat /\ K' \in Nat
  <2>1. (Cardinality(Unlocked) \in Nat /\ Cardinality(Awake) \in Nat)'
    BY Finite, PTL
  <2> QED
    BY ZenonT(30), <2>1, Finite DEF U, K
<1>c. Count \in Nat /\ Count' \in Nat
  <2>1. (Count \in 0..NMsg)'
    BY CountType, PTL
  <2> QED
    BY <1>i, <2>1, CountType, RingAssumption
<1>w. OnTheWay = sema + U + K /\ OnTheWay' = sema' + U' + K'
  BY ZenonT(30) DEF OnTheWay, Unlocked, Awake, U, K
<1>g. (Sleepy' => Count' <= OnTheWay') => NoLostWakeup'
  BY DEF NoLostWakeup, Sleepy
<1>same. ASSUME Same PROVE Count' = Count
  BY ZenonT(30), <1>same DEF Same, Count
<1>1. ASSUME NEW w \in Writer, NEW m \in Msg, Error(w, m) PROVE NoLostWakeup'
  <2>1. CASE UNCHANGED vars
    <3>1. Same /\ Sleepy' = Sleepy /\ OnTheWay' = OnTheWay
      BY ZenonT(30), <2>1 DEF vars, ringVars, semVars, Same, Sleepy, OnTheWay
    <3> QED
      BY ZenonT(30), <3>1, <1>same, <1>i, <1>g
  <2>2. CASE /\ wpc[w] = "idle" /\ Store(m) /\ wpc' = [wpc EXCEPT ![w] = "unlocked"]
             /\ sema' = sema /\ rpc' = rpc
    <3>1. Count' = Count + 1
      BY ZenonT(30), <1>i, <2>2, StoreStep
    <3>2. Unlocked' = Unlocked \cup {w} /\ w \notin Unlocked
      BY <2>2, <1>t DEF Unlocked
    <3>3. U' = U + 1
      BY ZenonT(30), <3>2, <1>f, OneMore DEF U
    <3>4. K' = K /\ Sleepy' = Sleepy
      BY ZenonT(30), <2>2 DEF K, Awake, Sleepy
    <3> QED
      BY <1>i, <1>t, <1>f, <1>c, <1>w, <1>g, <2>2, <3>1, <3>3, <3>4
  <2> QED
    BY ZenonT(30), <1>1, <2>1, <2>2 DEF Error, Store, semVars
<1>2. ASSUME NEW w \in Writer, ErrorUnlocked(w) PROVE NoLostWakeup'
  <2>1. wpc[w] = "unlocked" /\ wpc' = [wpc EXCEPT ![w] = "idle"] /\ Same
    BY ZenonT(30), <1>2 DEF ErrorUnlocked, Same, ringVars
  <2>2. Unlocked' = Unlocked \ {w} /\ w \in Unlocked
    BY <2>1, <1>t DEF Unlocked
  <2>3. U' = U - 1
    BY ZenonT(30), <2>2, <1>f, OneLess DEF U
  <2>c. Count' = Count
    BY ZenonT(30), <2>1, <1>same
  <2>4. CASE nblocked = 0 /\ UNCHANGED <<sema, rpc>>
    <3>1. Blocked = {}
      <4>1. Cardinality(Blocked) = 0 /\ IsFiniteSet(Blocked)
        BY ZenonT(30), <1>i, <2>4, Finite DEF BlockedInv
      <4> QED
        BY ZenonT(30), <4>1, FS_EmptySet
    <3>2. ~Sleepy'
      BY <3>1, <2>4 DEF Blocked, Sleepy
    <3> QED
      BY ZenonT(30), <3>2, <1>g
  <2>5. CASE sema' = sema + 1 /\ UNCHANGED rpc
    <3>1. K' = K /\ Sleepy' = Sleepy
      BY ZenonT(30), <2>5 DEF K, Awake, Sleepy
    <3> QED
      BY <1>i, <1>t, <1>f, <1>c, <1>w, <1>g, <2>c, <2>3, <2>5, <3>1
  <2>6. CASE /\ waitlist # <<>> /\ rpc' = [rpc EXCEPT ![Head(waitlist)] = "woken"]
             /\ sema' = sema
    <3>1. Head(waitlist) \in Reader /\ rpc[Head(waitlist)] = "asleep"
      BY <1>i, <2>6 DEF SleepType, ListInv
    <3>2. Awake' = Awake \cup {Head(waitlist)} /\ Head(waitlist) \notin Awake
      <4>1. Head(waitlist) \notin Awake
        BY <3>1 DEF Awake
      <4> QED
        BY ZenonT(30), <1>i, <2>6, <3>1, <4>1, WokenMove
    <3>3. K' = K + 1
      BY ZenonT(30), <3>2, <1>f, OneMore DEF K
    <3>4. Sleepy
      BY <3>1 DEF Sleepy
    <3> QED
      BY <1>i, <1>t, <1>f, <1>c, <1>w, <1>g, <2>c, <2>3, <2>6, <3>3, <3>4
  <2> QED
    BY ZenonT(30), <1>2, <2>4, <2>5, <2>6 DEF ErrorUnlocked, Up, semVars
<1>u. ASSUME UNCHANGED <<sema, wpc>> PROVE sema' = sema /\ U' = U
  BY ZenonT(30), <1>u DEF U, Unlocked
<1>z. ASSUME sema' = sema, U' = U PROVE 0 <= OnTheWay'
  <2>1. sema' \in Nat /\ U' \in Nat /\ K' \in Nat
    BY ZenonT(30), <1>z, <1>t, <1>f
  <2>2. 0 <= sema' + U' + K'
    BY ZenonT(30), <2>1, SumNat
  <2> QED
    BY ZenonT(30), <2>2, <1>w
<1>d. ASSUME sema' = sema, U' = U, K' = K \/ K' = K - 1, Count' = Count - 1, Count <= OnTheWay
      PROVE  Count' <= OnTheWay'
  <2>1. Count - 1 <= sema + U + K'
    BY ZenonT(30), <1>d, <1>t, <1>f, <1>c, <1>w, SumLess
  <2> QED
    BY ZenonT(30), <2>1, <1>d, <1>w
<1>3. ASSUME NEW r \in Reader, NEW n, NEW nd, TryRead(r, n, nd),
             UNCHANGED <<semVars, wpc>>,
             \/ rpc[r] = "idle"
             \/ rpc[r] = "woken" /\ ~nd
      PROVE  NoLostWakeup'
  <2>u. sema' = sema /\ U' = U
    BY ZenonT(30), <1>3, <1>u DEF semVars
  <2>1. CASE emsgs[head] = None /\ Same
    <3>1. Count' = 0
      BY ZenonT(30), <2>1, <1>same, <1>i, CountType
    <3>2. 0 <= OnTheWay'
      BY ZenonT(30), <1>z, <2>u
    <3> QED
      BY ZenonT(30), <3>1, <3>2, <1>g
  <2>2. CASE Take(r) /\ rpc' = [rpc EXCEPT ![r] = "idle"]
    <3>1. Count' = Count - 1
      BY ZenonT(30), <1>i, <2>2, TakeStep
    <3>2. Awake' = Awake \ {r}
      BY ZenonT(30), <1>i, <2>2, IdleMove
    <3>3. K' = K \/ K' = K - 1
      <4>1. CASE r \in Awake
        BY ZenonT(30), <3>2, <4>1, <1>f, OneLess DEF K
      <4>2. CASE r \notin Awake
        <5>1. Awake' = Awake
          BY <3>2, <4>2
        <5> QED
          BY ZenonT(30), <5>1 DEF K
      <4> QED
        BY ZenonT(30), <4>1, <4>2
    <3>4. Sleepy' => Sleepy
      BY <2>2, <1>t DEF Sleepy
    <3> QED
      BY ZenonT(30), <1>i, <1>g, <1>d, <2>u, <3>1, <3>3, <3>4
  <2>3. CASE emsgs[head] # None /\ ~(MsgLen[emsgs[head]] <= Cnt[r])
    <3>1. emsgs[head] \in Msg
      BY <1>i, <2>3 DEF RingInv, RingType
    <3> QED
      BY ZenonT(30), <2>3, <3>1 DEF Fits
  <2> QED
    BY ZenonT(30), <1>3, <2>1, <2>2, <2>3, TryReadCases
<1>4. ASSUME NEW r \in Reader, NEW nd \in BOOLEAN, Read(r, nd) PROVE NoLostWakeup'
  BY ZenonT(30), <1>3, <1>4 DEF Read
<1>5. ASSUME NEW r \in Reader, Woken(r) PROVE NoLostWakeup'
  BY ZenonT(30), <1>3, <1>5 DEF Woken
<1>6. ASSUME NEW r \in Reader, Interrupted(r) \/ Signal(r) PROVE NoLostWakeup'
  <2>1. /\ Same /\ UNCHANGED <<sema, wpc>>
        /\ \/ rpc[r] = "interrupted" /\ rpc' = [rpc EXCEPT ![r] = "idle"]
           \/ rpc[r] = "asleep" /\ rpc' = [rpc EXCEPT ![r] = "interrupted"]
    BY ZenonT(30), <1>6 DEF Interrupted, Signal, semVars, ringVars, Same
  <2>2. Awake' = Awake
    <3>1. r \notin Awake
      BY <2>1 DEF Awake
    <3>2. Awake' = Awake \ {r}
      BY ZenonT(30), <1>i, <2>1, IdleMove, SleepMove
    <3> QED
      BY <3>1, <3>2
  <2>3. K' = K /\ Count' = Count /\ sema' = sema /\ U' = U
    BY ZenonT(30), <2>1, <2>2, <1>same, <1>u DEF K
  <2>4. Sleepy' => Sleepy
    BY <2>1, <1>t DEF Sleepy
  <2> QED
    BY ZenonT(30), <1>i, <1>w, <1>g, <2>3, <2>4
<1>7. ASSUME NEW r \in Reader, Down(r) PROVE NoLostWakeup'
  <2>1. rpc[r] = "down" /\ wpc' = wpc /\ Same
    BY ZenonT(30), <1>7 DEF Down, ringVars, Same
  <2>2. Count' = Count /\ U' = U /\ Sleepy
    BY ZenonT(30), <2>1, <1>same DEF U, Unlocked, Sleepy
  <2>3. CASE sema > 0 /\ sema' = sema - 1 /\ rpc' = [rpc EXCEPT ![r] = "woken"]
    <3>1. Awake' = Awake \cup {r} /\ r \notin Awake
      <4>1. r \notin Awake
        BY <2>1 DEF Awake
      <4> QED
        BY ZenonT(30), <1>i, <2>3, <4>1, WokenMove
    <3>2. K' = K + 1
      BY ZenonT(30), <3>1, <1>f, OneMore DEF K
    <3> QED
      BY <1>i, <1>t, <1>f, <1>c, <1>w, <1>g, <2>2, <2>3, <3>2
  <2>4. CASE sema' = sema /\ rpc' = [rpc EXCEPT ![r] = "asleep"]
    <3>1. Awake' = Awake
      <4>1. r \notin Awake
        BY <2>1 DEF Awake
      <4>2. Awake' = Awake \ {r}
        BY ZenonT(30), <1>i, <2>4, SleepMove
      <4> QED
        BY <4>1, <4>2
    <3>2. K' = K
      BY ZenonT(30), <3>1 DEF K
    <3> QED
      BY ZenonT(30), <1>i, <1>w, <1>g, <2>2, <2>4, <3>2
  <2> QED
    BY ZenonT(30), <1>7, <2>3, <2>4 DEF Down
<1>8. ASSUME UNCHANGED vars PROVE NoLostWakeup'
  <2>1. Same /\ Sleepy' = Sleepy /\ OnTheWay' = OnTheWay
    BY ZenonT(30), <1>8 DEF vars, ringVars, semVars, Same, Sleepy, OnTheWay
  <2> QED
    BY ZenonT(30), <2>1, <1>same, <1>i, <1>g
<1> QED
  BY ZenonT(30), <1>1, <1>2, <1>4, <1>5, <1>6, <1>7, <1>8 DEF Next

\* The strengthened invariant holds always.
LEMMA SleepInvariant == Spec => []SleepInv
<1>1. Init => SleepInv
  <2> SUFFICES ASSUME Init PROVE SleepInv
    OBVIOUS
  <2>1. RingInv
    BY RingAssumption DEF Init, RingInv, RingType, Occupied, InUse, Slot
  <2>2. SleepType
    BY DEF Init, SleepType
  <2>3. ListInv
    BY DEF Init, ListInv
  <2>4. Blocked = {} /\ ~(\E r \in Reader : rpc[r] \in {"down", "asleep"})
    BY DEF Init, Blocked
  <2>5. BlockedInv
    BY <2>4, FS_EmptySet DEF Init, BlockedInv
  <2> QED
    BY ZenonT(30), <2>1, <2>2, <2>3, <2>4, <2>5 DEF SleepInv, NoLostWakeup
<1>2. SleepInv /\ RingInv' /\ [Next]_vars => SleepInv'
  BY ZenonT(30), ListStep, BlockedStep, WakeupStep DEF SleepInv
<1> QED
  BY <1>1, <1>2, RingInvariant, PTL DEF Spec

\* Every variable keeps its type: the indices stay within the array, and the
\* semaphore and nblocked_emsgs_readers, decremented without a test, never go
\* below zero.
THEOREM RingTypes == Spec => []TypeOK
<1>1. SleepInv => TypeOK
  BY Finite DEF SleepInv, RingInv, RingType, SleepType, BlockedInv, TypeOK
<1> QED
  BY <1>1, SleepInvariant, PTL

\* No wakeup is lost, for any readers and writers, when the buffers take every
\* message: a reader whose buffer is too small uses a wakeup up and leaves the
\* message in the ring.
THEOREM NoWakeupIsLost == Spec => [](Fits => NoLostWakeup)
<1>1. SleepInv => (Fits => NoLostWakeup)
  BY DEF SleepInv
<1> QED
  BY <1>1, SleepInvariant, PTL
=============================================================================
