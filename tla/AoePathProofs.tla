--------------------------- MODULE AoePathProofs ---------------------------
(***************************************************************************)
(* Proofs about AoePath, for any targets, interfaces, slots, frames and    *)
(* announcements: what setifbcnt, ejectif, ifrotate and the counts of      *)
(* losses and bytes guarantee about the paths of a device.                 *)
(***************************************************************************)
EXTENDS AoePath, FiniteSetTheorems, WellFoundedInduction, TLAPS

\* The provers of the leaves that name none, tried in this order.
USE SMTT(60), Z3T(60), ZenonT(30)

----------------------------------------------------------------------------
(* The invariant.                                                          *)

IfRec == [nd : Nd \cup {None}, bcnt : Nat, lost : Nat]
Ifs == [Slot -> IfRec]

TgtType ==
    /\ tgts \subseteq Mac
    /\ nframes \in [Mac -> 0..AoeMaxout]
    /\ ifs \in [Mac -> Ifs]
    /\ minbcnt \in [Mac -> Nat] /\ maxbcnt \in Nat
    /\ held \in [Nd -> Int]
HistType == unanswered \in [Mac -> [Nd -> Nat]] /\ stale \subseteq Mac \X Nd
Placed == {"free", "active", "flist", "rexmitq", "ktio"}
FrameType ==
    /\ place \in [Frame -> Placed]
    /\ ft \in [Frame -> Mac \cup {None}] /\ fdev \in [Frame -> Nd \cup {None}]
    /\ lock \in {"free", "flist", "rexmit"} /\ todo \subseteq Frame
    /\ ifp \in [Mac -> Slot]

\* The slots in use come first and hold different interfaces.
Packed(a) ==
    \A i, j \in Slot : i < j /\ a[j].nd # None => a[i].nd # None /\ a[i].nd # a[j].nd
SlotsInv ==
    /\ \A t \in Mac : Packed(ifs[t])
    /\ \A t \in tgts : ifs[t][1].nd # None

\* A frame that is in use has a target and, unless it is deferred, an interface;
\* the frames that rexmit_deferred has still to visit are deferred.
FramesInv ==
    /\ \A f \in Frame :
         /\ place[f] # "free" => ft[f] \in tgts
         /\ place[f] \in {"active", "flist", "ktio"} => fdev[f] \in Nd
    /\ \A f \in todo : lock = "rexmit" /\ place[f] = "rexmitq"

\* The targets that have an interface.
Has(n) == {t \in tgts : n \in Nds(ifs[t])}
HeldInv == \A n \in Nd : held[n] = Cardinality(Has(n))

\* The byte counts of the interfaces, of the targets and of the device.
FitsNd(n, b) == Mtu[n] >= SafeMtu => b + HdrLen <= Mtu[n]
BcntInv ==
    \A t \in tgts :
        /\ maxbcnt # 0 => maxbcnt <= minbcnt[t]
        /\ \A i \in Slot : ifs[t][i].nd # None =>
             FitsNd(ifs[t][i].nd, ifs[t][i].bcnt) /\ minbcnt[t] <= ifs[t][i].bcnt

PathInv ==
    /\ TgtType /\ HistType /\ FrameType /\ SlotsInv /\ FramesInv /\ HeldInv
    /\ BcntInv /\ LostExact

----------------------------------------------------------------------------
(* Slots.                                                                  *)

\* A set of numbers has a smallest one.
LEMMA MinIs ==
    ASSUME NEW S \in SUBSET Nat, S # {}
    PROVE  Min(S) \in S /\ \A y \in S : Min(S) <= y
<1> DEFINE R == OpToRel(<, Nat)
<1>1. IsWellFoundedOn(R, Nat)
  BY ZenonT(30), NatLessThanWellFounded
<1>2. \A x, y \in Nat : x < y => <<x, y>> \in R
  BY ZenonT(30) DEF OpToRel
<1> HIDE DEF R
<1>3. \E x \in S : \A y \in S : ~(<<y, x>> \in R)
  BY ZenonT(30), <1>1, WFMin
<1>4. PICK x \in S : \A y \in S : ~(<<y, x>> \in R)
  BY <1>3
<1>5. ASSUME NEW y \in S PROVE x <= y
  <2>1. ~(y < x)
    BY ZenonT(30), <1>2, <1>4
  <2> QED
    BY <2>1
<1> QED
  BY ZenonT(30), <1>4, <1>5 DEF Min

\* The slots before the first empty one are counted by setifbcnt's loop.
LEMMA ValidIs ==
    ASSUME NEW a \in Ifs
    PROVE  \E m \in 0..NAoeIfs :
             /\ Valid(a) = 1..m /\ Cardinality(Valid(a)) = m
             /\ m < NAoeIfs => a[m + 1].nd = None
<1> DEFINE E == {i \in Slot : a[i].nd = None}
<1>0. NAoeIfs \in Nat /\ NAoeIfs >= 2
  BY ZenonT(30), PathAssumption
<1>1. CASE E = {}
  <2>1. Valid(a) = 1..NAoeIfs
    BY <1>0, <1>1 DEF Valid, Slot
  <2>2. Cardinality(1..NAoeIfs) = NAoeIfs
    BY <1>0, FS_Interval
  <2> QED
    BY <1>0, <2>1, <2>2
<1>2. CASE E # {}
  <2>1. E \in SUBSET Nat
    BY <1>0 DEF Slot
  <2>2. Min(E) \in E /\ \A y \in E : Min(E) <= y
    BY <1>2, <2>1, MinIs
  <2> DEFINE m == Min(E) - 1
  <2>3. m \in 0..NAoeIfs /\ m < NAoeIfs /\ Min(E) = m + 1
    BY <1>0, <2>2 DEF Slot
  <2> HIDE DEF m
  <2>4. Valid(a) = 1..m
    <3>1. ASSUME NEW i \in Slot PROVE i \in Valid(a) <=> i <= m
      <4>1. CASE i <= m
        <5>1. \A j \in 1..i : j \in Slot /\ j \notin E
          BY <1>0, <4>1, <2>2, <2>3 DEF Slot
        <5> QED
          BY <4>1, <5>1 DEF Valid
      <4>2. CASE ~(i <= m)
        <5>1. Min(E) \in 1..i /\ a[Min(E)].nd = None
          BY <1>0, <4>2, <2>2, <2>3 DEF Slot
        <5> QED
          BY <4>2, <5>1 DEF Valid
      <4> QED
        BY <4>1, <4>2
    <3>2. Valid(a) \subseteq Slot /\ 1..m \subseteq Slot
      BY <1>0, <2>3 DEF Slot, Valid
    <3>3. \A i \in Slot : i \in 1..m <=> i <= m
      BY <1>0, <2>3 DEF Slot
    <3> QED
      BY ZenonT(30), <3>1, <3>2, <3>3
  <2>5. Cardinality(1..m) = m
    BY <2>3, FS_Interval
  <2>6. a[m + 1].nd = None
    BY <2>2, <2>3
  <2> QED
    BY ZenonT(30), <2>3, <2>4, <2>5, <2>6
<1> QED
  BY <1>1, <1>2

\* The valid slots of a packed array are the ones in use.
LEMMA PackedValid ==
    ASSUME NEW a \in Ifs, Packed(a), NEW i \in Slot
    PROVE  i \in Valid(a) <=> a[i].nd # None
<1>0. NAoeIfs \in Nat /\ NAoeIfs >= 2
  BY ZenonT(30), PathAssumption
<1>1. i \in 1..i /\ 1..i \subseteq Slot
  BY <1>0 DEF Slot
<1>2. ASSUME a[i].nd # None, NEW j \in 1..i PROVE a[j].nd # None
  BY <1>0, <1>1, <1>2 DEF Packed, Slot
<1> QED
  BY <1>1, <1>2 DEF Valid

\* The interfaces of a packed array are the ones in its valid slots.
LEMMA ValidNds ==
    ASSUME NEW a \in Ifs, Packed(a)
    PROVE  {a[i].nd : i \in Valid(a)} = Nds(a)
<1>1. Valid(a) \subseteq Slot
  BY ZenonT(30) DEF Valid
<1> QED
  BY ZenonT(30), <1>1, PackedValid DEF Nds

\* ifrotate finds an interface if the first slot has one.
LEMMA RotateIs ==
    ASSUME NEW a \in Ifs, NEW i \in Slot
    PROVE  /\ Rotate(a, i) \in Slot
           /\ a[1].nd # None => a[Rotate(a, i)].nd \in Nd
<1>0. NAoeIfs \in Nat /\ NAoeIfs >= 2
  BY ZenonT(30), PathAssumption
<1>1. 1 \in Slot /\ (i # NAoeIfs => i + 1 \in Slot)
  BY <1>0 DEF Slot
<1>2. \A j \in Slot : a[j].nd \in Nd \cup {None}
  BY DEF Ifs, IfRec
<1> DEFINE k == IF i = NAoeIfs \/ a[i + 1].nd = None THEN 1 ELSE i + 1
<1>3. k \in Slot /\ (a[1].nd # None => a[k].nd # None)
  BY ZenonT(30), <1>1
<1>4. Rotate(a, i) = IF a[k].nd = None THEN i ELSE k
  BY ZenonT(30) DEF Rotate
<1> HIDE DEF k
<1> QED
  BY ZenonT(30), <1>2, <1>3, <1>4

\* A number that fits a word is not changed by cutting it to the word.
LEMMA WordMod ==
    ASSUME NEW w \in Nat, w > 0, NEW x \in 0..(w - 1)
    PROVE  x % w = x
OBVIOUS

\* What a frame can carry fits the mtu, unless that is too small for DEFAULTBCNT.
LEMMA BcntIs ==
    ASSUME NEW n \in Nd, NEW scnt \in 0..255
    PROVE  Bcnt(n, scnt) \in Nat /\ FitsNd(n, Bcnt(n, scnt))
<1> DEFINE room == ((Mtu[n] - HdrLen) % Word) \div 512
           s == IF room > scnt THEN scnt ELSE room
<1>0. Word \in Nat /\ Word > 0 /\ HdrLen \in Nat /\ DefaultBcnt \in Nat
  BY DEF Word, HdrLen, DefaultBcnt
<1>1. Mtu[n] \in HdrLen..(Word - 1)
  BY ZenonT(30), RspAssumption
<1>2. Mtu[n] - HdrLen \in 0..(Word - 1)
  BY <1>0, <1>1
<1>2a. \A x \in 0..(Word - 1) : x % Word = x
  BY <1>0, WordMod
<1>2b. (Mtu[n] - HdrLen) % Word = Mtu[n] - HdrLen
  BY <1>2, <1>2a
<1>2c. ASSUME NEW x \in Nat PROVE x \div 512 \in Nat /\ (x \div 512) * 512 <= x
  OBVIOUS
<1>3. room \in Nat /\ room * 512 <= Mtu[n] - HdrLen
  BY <1>2, <1>2b, <1>2c
<1> HIDE DEF room
<1>4. s \in Nat /\ s <= room
  BY <1>3
<1>5. Bcnt(n, scnt) = IF s = 0 THEN DefaultBcnt ELSE s * 512
  BY ZenonT(30) DEF Bcnt, room
<1> HIDE DEF s
<1>6. s * 512 \in Nat /\ s * 512 <= Mtu[n] - HdrLen
  BY <1>0, <1>1, <1>3, <1>4
<1>7. Bcnt(n, scnt) \in Nat
  BY <1>0, <1>5, <1>6
<1>8. Mtu[n] >= SafeMtu => Bcnt(n, scnt) + HdrLen <= Mtu[n]
  BY <1>0, <1>1, <1>5, <1>6 DEF SafeMtu
<1> QED
  BY <1>7, <1>8 DEF FitsNd

\* ejectif takes slot k away and leaves the others, in order and packed.
LEMMA EjectifIs ==
    ASSUME NEW a \in Ifs, Packed(a), NEW k \in Slot, a[k].nd # None
    PROVE  LET e == Ejectif(a, k)
           IN /\ e \in Ifs /\ Packed(e)
              /\ Nds(e) = Nds(a) \ {a[k].nd}
              /\ \A i \in Slot : e[i].nd # None => \E j \in Slot : j # k /\ e[i] = a[j]
              /\ a[1].nd # None /\ (k # 1 \/ a[2].nd # None) => e[1].nd # None
<1> DEFINE e == Ejectif(a, k)
<1>0. NAoeIfs \in Nat /\ NAoeIfs >= 2 /\ None \notin Nd
  BY ZenonT(30), PathAssumption
<1>1. /\ \A i \in Slot : i < k => e[i] = a[i]
      /\ \A i \in Slot : ~(i < k) /\ i < NAoeIfs => i + 1 \in Slot /\ e[i] = a[i + 1]
      /\ e[NAoeIfs].nd = None
  <2>1. \A i \in Slot : ~(i < k) /\ i < NAoeIfs => i + 1 \in Slot
    BY <1>0 DEF Slot
  <2>2. NAoeIfs \in Slot /\ ~(NAoeIfs < k) /\ ~(NAoeIfs < NAoeIfs)
    BY <1>0 DEF Slot
  <2>3. [a[NAoeIfs] EXCEPT !.nd = None].nd = None
    BY <2>2 DEF Ifs, IfRec
  <2> QED
    BY ZenonT(30), <2>1, <2>2, <2>3 DEF Ejectif
<1>2. e \in Ifs
  <2>1. \A i \in Slot : a[i] \in IfRec /\ [a[i] EXCEPT !.nd = None] \in IfRec
    BY DEF Ifs, IfRec
  <2>2. \A i \in Slot : i < NAoeIfs => i + 1 \in Slot
    BY <1>0 DEF Slot
  <2> QED
    BY ZenonT(30), <2>1, <2>2 DEF Ejectif, Ifs
<1> HIDE DEF e
<1> DEFINE g(i) == IF i < k THEN i ELSE i + 1
<1>3. ASSUME NEW i \in Slot, e[i].nd # None
      PROVE  g(i) \in Slot /\ g(i) # k /\ e[i] = a[g(i)]
  <2>1. i < NAoeIfs
    BY <1>0, <1>1, <1>3 DEF Slot
  <2> QED
    BY <1>0, <1>1, <2>1 DEF Slot
<1>4. ASSUME NEW i \in Slot, NEW j \in Slot, i < j, e[j].nd # None
      PROVE  e[i].nd # None /\ e[i].nd # e[j].nd
  <2>1. g(j) \in Slot /\ e[j] = a[g(j)]
    BY <1>3, <1>4
  <2>2. g(i) \in Slot /\ e[i] = a[g(i)] /\ g(i) < g(j)
    BY <1>0, <1>1, <1>4, <2>1 DEF Slot
  <2> QED
    BY <1>4, <2>1, <2>2 DEF Packed
<1>5. Packed(e)
  BY ZenonT(30), <1>4 DEF Packed
<1>6. ASSUME NEW j \in Slot, j # k, a[j].nd # None
      PROVE  \E i \in Slot : e[i] = a[j]
  <2>1. CASE j < k
    BY <1>1, <2>1
  <2>2. CASE ~(j < k)
    <3>1. j - 1 \in Slot /\ ~(j - 1 < k) /\ j - 1 < NAoeIfs /\ (j - 1) + 1 = j
      BY <1>0, <1>6, <2>2 DEF Slot
    <3> QED
      BY <1>1, <3>1
  <2> QED
    BY <2>1, <2>2
<1>7. ASSUME NEW j \in Slot, j # k PROVE a[j].nd # a[k].nd
  BY <1>7 DEF Packed, Slot
<1>8. Nds(e) = Nds(a) \ {a[k].nd}
  <2>1. ASSUME NEW i \in Slot, e[i].nd # None
        PROVE  \E j \in Slot : j # k /\ e[i] = a[j]
    BY ZenonT(30), <1>3, <2>1
  <2>2. ASSUME NEW x \in Nds(e) PROVE x \in Nds(a) \ {a[k].nd}
    <3>1. PICK i \in Slot : x = e[i].nd /\ x # None
      BY ZenonT(30), <2>2 DEF Nds
    <3>2. PICK j \in Slot : j # k /\ e[i] = a[j]
      BY ZenonT(30), <2>1, <3>1
    <3> QED
      BY ZenonT(30), <1>7, <3>1, <3>2 DEF Nds
  <2>3. ASSUME NEW x \in Nds(a), x # a[k].nd PROVE x \in Nds(e)
    <3>1. PICK j \in Slot : x = a[j].nd /\ x # None
      BY ZenonT(30), <2>3 DEF Nds
    <3>2. PICK i \in Slot : e[i] = a[j]
      BY ZenonT(30), <1>6, <2>3, <3>1
    <3> QED
      BY ZenonT(30), <3>1, <3>2 DEF Nds
  <2> QED
    BY ZenonT(30), <2>2, <2>3
<1>9. a[1].nd # None /\ (k # 1 \/ a[2].nd # None) => e[1].nd # None
  BY <1>0, <1>1 DEF Slot
<1> QED
  BY ZenonT(30), <1>2, <1>3, <1>5, <1>8, <1>9 DEF e

\* setifbcnt gives a slot to an interface that was not known and sets the byte
\* count of that interface only, or changes nothing if all slots are taken.
LEMMA SetifIs ==
    ASSUME NEW a \in Ifs, Packed(a), NEW n \in Nd, NEW b \in Nat
    PROVE  LET c == Setif(a, n, b)
           IN /\ c \in Ifs /\ Packed(c)
              /\ TooMany(a, n) => c = a
              /\ ~TooMany(a, n) =>
                   /\ Nds(c) = Nds(a) \cup {n} /\ c[1].nd # None
                   /\ \A i \in Slot : /\ c[i].nd = n => c[i].bcnt = b
                                      /\ c[i].nd # n => c[i] = a[i]
              /\ n \in Nds(a) =>
                   \A i \in Slot : c[i].nd = a[i].nd /\ c[i].lost = a[i].lost
<1> DEFINE c == Setif(a, n, b)
<1>0. NAoeIfs \in Nat /\ NAoeIfs >= 2 /\ None \notin Nd /\ 1 \in Slot
  <2>1. NAoeIfs \in Nat /\ NAoeIfs >= 2 /\ None \notin Nd
    BY ZenonT(30), PathAssumption
  <2> QED
    BY <2>1 DEF Slot
<1>1. PICK m \in 0..NAoeIfs :
        /\ Valid(a) = 1..m /\ Cardinality(Valid(a)) = m
        /\ m < NAoeIfs => a[m + 1].nd = None
  BY ValidIs
<1>2. {a[i].nd : i \in Valid(a)} = Nds(a)
  BY ValidNds
<1>3. \A i \in Slot : i \in Valid(a) <=> a[i].nd # None
  BY ZenonT(30), PackedValid
<1>4. n # None
  BY ZenonT(30), <1>0
<1>5. TooMany(a, n) <=> n \notin Nds(a) /\ m = NAoeIfs
  BY <1>0, <1>1 DEF TooMany, Slot
<1>6. \A i \in Slot : a[i] \in IfRec /\ [a[i] EXCEPT !.bcnt = b] \in IfRec
  BY DEF Ifs, IfRec
<1>7. CASE n \in Nds(a)
  <2>1. c = [i \in Slot |-> IF i \in Valid(a) /\ a[i].nd = n
                            THEN [a[i] EXCEPT !.bcnt = b] ELSE a[i]]
    BY ZenonT(30), <1>2, <1>7 DEF Setif
  <2> HIDE DEF c
  <2>2. c \in Ifs
    BY ZenonT(30), <1>6, <2>1 DEF Ifs
  <2>3. \A i \in Slot : a[i].nd = n => i \in Valid(a)
    BY ZenonT(30), <1>3, <1>4
  <2>4. ASSUME NEW i \in Slot
        PROVE  /\ c[i].nd = a[i].nd /\ c[i].lost = a[i].lost
               /\ c[i].nd = n => c[i].bcnt = b
               /\ c[i].nd # n => c[i] = a[i]
    <3>1. CASE a[i].nd = n
      <4>1. c[i] = [a[i] EXCEPT !.bcnt = b]
        BY ZenonT(30), <2>1, <2>3, <3>1
      <4> QED
        BY <1>6, <3>1, <4>1 DEF IfRec
    <3>2. CASE a[i].nd # n
      <4>1. c[i] = a[i]
        BY ZenonT(30), <2>1, <3>2
      <4> QED
        BY ZenonT(30), <3>2, <4>1
    <3> QED
      BY <3>1, <3>2
  <2>5. Packed(c)
    BY ZenonT(30), <2>4 DEF Packed
  <2>6. Nds(c) = Nds(a) \cup {n}
    BY ZenonT(30), <1>7, <2>4 DEF Nds
  <2>7. c[1].nd # None
    <3>1. PICK i \in Slot : a[i].nd = n
      BY ZenonT(30), <1>7 DEF Nds
    <3>2. i = 1 \/ 1 < i
      BY <1>0 DEF Slot
    <3>3. a[1].nd # None
      BY ZenonT(30), <1>0, <1>4, <3>1, <3>2 DEF Packed
    <3> QED
      BY ZenonT(30), <1>0, <2>4, <3>3
  <2> QED
    BY ZenonT(30), <1>5, <1>7, <2>2, <2>4, <2>5, <2>6, <2>7 DEF c
<1>8. CASE n \notin Nds(a) /\ m = NAoeIfs
  <2>1. Cardinality(Valid(a)) + 1 > NAoeIfs
    BY <1>0, <1>1, <1>8
  <2>2. c = a
    BY ZenonT(30), <1>2, <1>8, <2>1 DEF Setif
  <2> QED
    BY ZenonT(30), <1>5, <1>8, <2>2
<1>9. CASE n \notin Nds(a) /\ m # NAoeIfs
  <2> DEFINE k == m + 1
  <2>1. /\ k \in Slot /\ Cardinality(Valid(a)) + 1 = k /\ ~(k > NAoeIfs)
        /\ a[k].nd = None
    BY <1>0, <1>1, <1>9 DEF Slot
  <2>2. \A i \in Slot : a[i].nd # None <=> i < k
    BY <1>0, <1>1, <1>3, <1>9 DEF Slot
  <2>2a. \A i \in Slot : a[i].nd # n
    BY ZenonT(30), <1>4, <1>9 DEF Nds
  <2> HIDE DEF k
  <2>3. c = [a EXCEPT ![k].nd = n, ![k].bcnt = b]
    BY ZenonT(30), <1>2, <1>9, <2>1 DEF Setif
  <2> HIDE DEF c
  <2>4. /\ c \in Ifs /\ c[k].nd = n /\ c[k].bcnt = b
        /\ \A i \in Slot : i # k => c[i] = a[i]
    <3> DEFINE a1 == [a EXCEPT ![k].nd = n]
    <3>1. a1 \in Ifs /\ a1[k].nd = n
      BY <2>1 DEF Ifs, IfRec
    <3>2. \A i \in Slot : i # k => a1[i] = a[i]
      BY DEF Ifs
    <3>3. c = [a1 EXCEPT ![k].bcnt = b]
      BY <2>3
    <3> HIDE DEF a1
    <3>4. c \in Ifs /\ c[k].nd = n /\ c[k].bcnt = b
      BY <2>1, <3>1, <3>3 DEF Ifs, IfRec
    <3>5. \A i \in Slot : i # k => c[i] = a1[i]
      BY <3>1, <3>3 DEF Ifs
    <3> QED
      BY <3>2, <3>4, <3>5
  <2>5. ASSUME NEW i \in Slot, NEW j \in Slot, i < j, c[j].nd # None
        PROVE  c[i].nd # None /\ c[i].nd # c[j].nd
    <3>1. CASE j = k
      <4>1. i # k /\ i < k
        BY <2>5, <3>1 DEF Slot
      <4> QED
        BY ZenonT(30), <2>2, <2>2a, <2>4, <3>1, <4>1
    <3>2. CASE j # k
      <4>1. a[j].nd # None /\ j < k
        BY ZenonT(30), <2>2, <2>4, <2>5, <3>2
      <4>2. i # k
        BY <2>1, <2>5, <4>1 DEF Slot
      <4> QED
        BY ZenonT(30), <2>4, <2>5, <3>2, <4>1, <4>2 DEF Packed
    <3> QED
      BY <3>1, <3>2
  <2>6. Packed(c)
    BY ZenonT(30), <2>5 DEF Packed
  <2>7. \A i \in Slot : c[i].nd = IF i = k THEN n ELSE a[i].nd
    BY ZenonT(30), <2>4
  <2>8. Nds(c) = Nds(a) \cup {n}
    <3>1. ASSUME NEW x \in Nds(c) PROVE x \in Nds(a) \cup {n}
      BY ZenonT(30), <2>7, <3>1 DEF Nds
    <3>2. ASSUME NEW x \in Nds(a) PROVE x \in Nds(c)
      BY ZenonT(30), <2>1, <2>7, <3>2 DEF Nds
    <3>3. n \in Nds(c)
      BY ZenonT(30), <1>4, <2>1, <2>4 DEF Nds
    <3> QED
      BY ZenonT(30), <3>1, <3>2, <3>3
  <2>9. c[1].nd # None
    <3>1. 1 = k \/ 1 < k
      BY <1>0, <2>1 DEF Slot
    <3> QED
      BY ZenonT(30), <1>0, <1>4, <2>2, <2>7, <3>1
  <2> QED
    BY ZenonT(30), <1>5, <1>9, <2>2a, <2>4, <2>6, <2>8, <2>9 DEF c
<1> QED
  BY <1>7, <1>8, <1>9

----------------------------------------------------------------------------
(* Steps.                                                                  *)

\* The parts of a config response.
LEMMA RspIs ==
    ASSUME NEW r \in Rsp
    PROVE  /\ r.t \in Mac /\ r.nd \in Nd /\ r.scnt \in 0..255
           /\ Nframes(r) \in 0..AoeMaxout
<1>1. r \in [t : Mac, nd : Nd, bufcnt : 0..(Word - 1), scnt : 0..255]
  BY ZenonT(30), RspAssumption
<1>2. AoeMaxout \in Nat /\ Word \in Nat
  <2>1. AoeMaxout \in Nat
    BY ZenonT(30), PathAssumption
  <2> QED
    BY <2>1 DEF Word
<1>3. r.t \in Mac /\ r.nd \in Nd /\ r.scnt \in 0..255 /\ r.bufcnt \in 0..(Word - 1)
  BY <1>1
<1> QED
  BY <1>2, <1>3 DEF Nframes

\* The slots of the target of a config response, before and after it.
Old(r) == IF r.t \in tgts THEN ifs[r.t] ELSE EmptyIfs
New(r) == Setif(Old(r), r.nd, Bcnt(r.nd, r.scnt))

\* What a config response does to the target that sent it.
LEMMA CfgRspIs ==
    ASSUME PathInv, NEW r \in Rsp, CfgRsp(r)
    PROVE  LET t == r.t
               n == r.nd
               b == Bcnt(n, r.scnt)
               a == Old(r)
               c == New(r)
           IN /\ t \in Mac /\ n \in Nd /\ b \in Nat /\ FitsNd(n, b)
              /\ a \in Ifs /\ Packed(a)
              /\ t \notin tgts => Nds(a) = {} /\ (\A i \in Slot : a[i].nd = None)
              /\ t \in tgts => a = ifs[t]
              /\ TooMany(a, n) => t \in tgts /\ c = a
              /\ c \in Ifs /\ Packed(c)
              /\ ifs' = [ifs EXCEPT ![t] = c] /\ tgts' = tgts \cup {t}
              /\ c[1].nd # None
<1>1. r.t \in Mac /\ r.nd \in Nd /\ r.scnt \in 0..255
  BY ZenonT(30), RspIs
<1>2. Bcnt(r.nd, r.scnt) \in Nat /\ FitsNd(r.nd, Bcnt(r.nd, r.scnt))
  BY ZenonT(30), <1>1, BcntIs
<1>3. NAoeIfs \in Nat /\ NAoeIfs >= 2 /\ None \notin Nd /\ 1 \in Slot /\ 1 \in 1..1
  <2>1. NAoeIfs \in Nat /\ NAoeIfs >= 2 /\ None \notin Nd
    BY ZenonT(30), PathAssumption
  <2> QED
    BY <2>1 DEF Slot
<1>4. /\ EmptyIfs \in Ifs /\ Packed(EmptyIfs) /\ Nds(EmptyIfs) = {}
      /\ \A i \in Slot : EmptyIfs[i].nd = None
  <2>1. EmptyIf \in IfRec /\ EmptyIf.nd = None
    BY DEF EmptyIf, IfRec
  <2>2. EmptyIfs \in Ifs /\ \A i \in Slot : EmptyIfs[i].nd = None
    BY ZenonT(30), <2>1 DEF EmptyIfs, Ifs
  <2> QED
    BY ZenonT(30), <2>2 DEF Packed, Nds
<1>5. r.t \notin tgts => ~TooMany(Old(r), r.nd)
  BY ZenonT(30), <1>3, <1>4 DEF Old, TooMany, Valid
<1>6. ifs \in [Mac -> Ifs] /\ \A t \in Mac : Packed(ifs[t])
  BY ZenonT(30) DEF PathInv, TgtType, SlotsInv
<1>7. Old(r) \in Ifs /\ Packed(Old(r))
  BY ZenonT(30), <1>1, <1>4, <1>6 DEF Old
<1>8. /\ New(r) \in Ifs /\ Packed(New(r))
      /\ TooMany(Old(r), r.nd) => New(r) = Old(r)
      /\ ~TooMany(Old(r), r.nd) => New(r)[1].nd # None
  <2> DEFINE a == Old(r)
             n == r.nd
             b == Bcnt(r.nd, r.scnt)
             c == Setif(a, n, b)
  <2>1. a \in Ifs /\ Packed(a) /\ n \in Nd /\ b \in Nat
    BY ZenonT(30), <1>1, <1>2, <1>7
  <2>2. New(r) = c
    BY ZenonT(30) DEF New
  <2> HIDE DEF a, n, b
  <2>3. c \in Ifs /\ Packed(c) /\ (TooMany(a, n) => c = a)
    BY ZenonT(30), <2>1, SetifIs
  <2>4. ~TooMany(a, n) => c[1].nd # None
    BY ZenonT(30), <2>1, SetifIs
  <2> QED
    BY ZenonT(30), <2>2, <2>3, <2>4 DEF a, n
<1>9. ifs' = [ifs EXCEPT ![r.t] = New(r)] /\ tgts' = tgts \cup {r.t}
  BY ZenonT(30) DEF CfgRsp, New, Old
<1>10. r.t \in tgts => Old(r) = ifs[r.t] /\ Old(r)[1].nd # None
  BY ZenonT(30) DEF Old, PathInv, SlotsInv
<1>11. r.t \notin tgts => Nds(Old(r)) = {} /\ \A i \in Slot : Old(r)[i].nd = None
  BY ZenonT(30), <1>4 DEF Old
<1> QED
  BY ZenonT(30), <1>1, <1>2, <1>5, <1>7, <1>8, <1>9, <1>10, <1>11

\* The references and the histories after a config response.
LEMMA CfgRspHist ==
    ASSUME PathInv, NEW r \in Rsp, CfgRsp(r)
    PROVE  LET t == r.t
               n == r.nd
           IN /\ TooMany(Old(r), n) =>
                   UNCHANGED <<minbcnt, maxbcnt, held, unanswered, stale>>
              /\ ~TooMany(Old(r), n) =>
                   IF n \in Nds(Old(r)) THEN UNCHANGED <<held, unanswered, stale>>
                   ELSE /\ held' = [held EXCEPT ![n] = @ + 1]
                        /\ unanswered' = [unanswered EXCEPT ![t][n] = 0]
                        /\ stale' = IF \E i \in Getif(New(r), n) : New(r)[i].lost > 0
                                    THEN stale \cup {<<t, n>>} ELSE stale
<1>1. r.t \in Mac /\ ifs \in [Mac -> Ifs]
  BY ZenonT(30), CfgRspIs DEF PathInv, TgtType
<1>2. [ifs EXCEPT ![r.t] = New(r)][r.t] = New(r)
  BY ZenonT(30), <1>1
<1>3. CASE TooMany(Old(r), r.nd)
  <2>1. UNCHANGED <<minbcnt, maxbcnt, held, histVars>>
    BY ZenonT(30), <1>3 DEF CfgRsp, Old
  <2> QED
    BY ZenonT(30), <1>3, <2>1 DEF histVars
<1>4. CASE ~TooMany(Old(r), r.nd)
  <2>1. /\ held' = IF r.nd \in Nds(Old(r)) THEN held ELSE [held EXCEPT ![r.nd] = @ + 1]
        /\ unanswered' = IF r.nd \in Nds(Old(r)) THEN unanswered
                         ELSE [unanswered EXCEPT ![r.t][r.nd] = 0]
    BY ZenonT(30), <1>4 DEF CfgRsp, Old
  <2>2. LET c == [ifs EXCEPT ![r.t] = New(r)][r.t]
        IN stale' = IF r.nd \notin Nds(Old(r)) /\ \E i \in Getif(c, r.nd) : c[i].lost > 0
                    THEN stale \cup {<<r.t, r.nd>>} ELSE stale
    BY ZenonT(30), <1>4 DEF CfgRsp, Old, New
  <2>3. stale' = IF r.nd \notin Nds(Old(r)) /\ \E i \in Getif(New(r), r.nd) : New(r)[i].lost > 0
                 THEN stale \cup {<<r.t, r.nd>>} ELSE stale
    BY ZenonT(30), <1>2, <2>2
  <2> QED
    BY ZenonT(30), <1>4, <2>1, <2>3
<1> QED
  BY <1>3, <1>4

\* setifbcnt sets the smallest byte counts of the target and of the device.
LEMMA CountsAre ==
    ASSUME PathInv, NEW r \in Rsp, CfgRsp(r), ~TooMany(Old(r), r.nd)
    PROVE  /\ minbcnt' = [minbcnt EXCEPT ![r.t] = minbcnt'[r.t]]
           /\ minbcnt' \in [Mac -> Nat] /\ maxbcnt' \in Nat
           /\ minbcnt'[r.t] <= Bcnt(r.nd, r.scnt)
           /\ \A i \in Valid(New(r)) : minbcnt'[r.t] <= New(r)[i].bcnt
           /\ \A u \in tgts' : maxbcnt' <= minbcnt'[u]
<1> DEFINE b == Bcnt(r.nd, r.scnt)
           c == New(r)
           B == {b} \cup {c[i].bcnt : i \in Valid(c)}
           M == {minbcnt'[u] : u \in tgts \cup {r.t}}
<1>1. /\ r.t \in Mac /\ b \in Nat /\ c \in Ifs
      /\ ifs' = [ifs EXCEPT ![r.t] = c] /\ tgts' = tgts \cup {r.t}
  BY ZenonT(30), CfgRspIs
<1>2. minbcnt \in [Mac -> Nat] /\ tgts \subseteq Mac /\ ifs \in [Mac -> Ifs]
  BY ZenonT(30) DEF PathInv, TgtType
<1>3. minbcnt' = [minbcnt EXCEPT ![r.t] = Min(B)] /\ maxbcnt' = Min(M)
  <2>1. /\ minbcnt' = [minbcnt EXCEPT ![r.t] = SetMinbcnt([ifs EXCEPT ![r.t] = c][r.t], b)]
        /\ maxbcnt' = Setdbcnt(minbcnt', r.t, tgts \cup {r.t})
    BY ZenonT(30) DEF CfgRsp, Old, New
  <2>2. [ifs EXCEPT ![r.t] = c][r.t] = c
    BY ZenonT(30), <1>1, <1>2
  <2> QED
    BY ZenonT(30), <2>1, <2>2 DEF SetMinbcnt, Setdbcnt
<1> HIDE DEF c, b
<1>4. \A i \in Valid(c) : c[i].bcnt \in Nat
  BY <1>1 DEF Ifs, IfRec, Valid
<1>5. B \in SUBSET Nat /\ b \in B
  BY ZenonT(30), <1>1, <1>4
<1>6. Min(B) \in Nat /\ \A y \in B : Min(B) <= y
  <2>1. Min(B) \in B /\ \A y \in B : Min(B) <= y
    BY ZenonT(30), <1>5, MinIs
  <2> QED
    BY ZenonT(30), <1>5, <2>1
<1>7. minbcnt' \in [Mac -> Nat] /\ minbcnt'[r.t] = Min(B)
  BY ZenonT(30), <1>1, <1>2, <1>3, <1>6
<1>8. M \in SUBSET Nat /\ minbcnt'[r.t] \in M
  BY ZenonT(30), <1>1, <1>2, <1>7
<1>9. Min(M) \in Nat /\ \A y \in M : Min(M) <= y
  <2>1. Min(M) \in M /\ \A y \in M : Min(M) <= y
    BY ZenonT(30), <1>8, MinIs
  <2> QED
    BY ZenonT(30), <1>8, <2>1
<1>10. \A u \in tgts' : maxbcnt' <= minbcnt'[u]
  BY ZenonT(30), <1>1, <1>3, <1>9
<1>11. minbcnt'[r.t] <= b /\ \A i \in Valid(c) : minbcnt'[r.t] <= c[i].bcnt
  BY ZenonT(30), <1>5, <1>6, <1>7
<1> QED
  BY ZenonT(30), <1>3, <1>7, <1>9, <1>10, <1>11 DEF b, c

\* Most steps leave the targets and their interfaces alone; a revalidation
\* forgets the byte count of the device.
Quiet ==
    /\ UNCHANGED <<tgts, nframes, ifs, minbcnt, held, unanswered, stale>>
    /\ maxbcnt' \in {maxbcnt, 0}

\* The steps that do not.
LEMMA NextCases ==
    ASSUME [Next]_vars
    PROVE  \/ Quiet
           \/ \E r \in Rsp : CfgRsp(r)
           \/ \E f \in Frame, good \in BOOLEAN : KtioComplete(f, good)
           \/ \E f \in Frame : TimerDefer(f)
           \/ Flush
<1> USE DEF Quiet, tgtVars, frameVars, ctlVars, histVars
<1>1. CASE UNCHANGED vars
  BY <1>1 DEF vars
<1>2. ASSUME NEW t \in Mac, Probe(t) PROVE Quiet
  BY <1>2 DEF Probe
<1>3. ASSUME NEW t \in Mac, NEW f \in Frame, Send(f, t) \/ RexmitReassign(f, t)
      PROVE  Quiet
  BY <1>3 DEF Send, RexmitReassign
<1>4. ASSUME NEW f \in Frame, NEW n \in Nd, AtaRsp(f, n) PROVE Quiet
  BY <1>4 DEF AtaRsp
<1>5. ASSUME NEW f \in Frame, RexmitDefer(f) \/ RexmitResend(f) PROVE Quiet
  BY <1>5 DEF RexmitDefer, RexmitResend
<1>6. ASSUME NEW E \in SUBSET Frame, TimerFires(E) PROVE Quiet
  BY <1>6 DEF TimerFires
<1>7. CASE Cleanslate \/ TimerDead \/ TimerDeferred \/ RexmitDone
  BY <1>7 DEF Cleanslate, TimerDead, TimerDeferred, RexmitDone
<1> HIDE DEF Quiet, tgtVars, frameVars, ctlVars, histVars
<1> QED
  BY ZenonT(30), <1>1, <1>2, <1>3, <1>4, <1>5, <1>6, <1>7 DEF Next

\* What an answer does to the slots of its target.
LEMMA KtioIs ==
    ASSUME PathInv, NEW f \in Frame, NEW good \in BOOLEAN, KtioComplete(f, good)
    PROVE  LET t == ft[f]
               n == fdev[f]
           IN /\ t \in tgts /\ t \in Mac /\ n \in Nd
              /\ ifs' \in [Mac -> Ifs]
              /\ \A u \in Mac : u # t => ifs'[u] = ifs[u]
              /\ \A i \in Slot :
                   /\ ifs'[t][i].nd = ifs[t][i].nd /\ ifs'[t][i].bcnt = ifs[t][i].bcnt
                   /\ ~(good /\ ifs[t][i].nd = n) => ifs'[t][i] = ifs[t][i]
                   /\ good /\ ifs[t][i].nd = n => ifs'[t][i].lost = 0
<1> DEFINE t == ft[f]
           n == fdev[f]
           hit == IF good THEN Getif(ifs[t], n) ELSE {}
           c == [i \in Slot |-> IF i \in hit THEN [ifs[t][i] EXCEPT !.lost = 0]
                                             ELSE ifs[t][i]]
<1>1. place[f] = "ktio"
  BY ZenonT(30) DEF KtioComplete
<1>2. t \in tgts /\ t \in Mac /\ n \in Nd
  BY <1>1 DEF PathInv, FramesInv, TgtType
<1>3. ifs \in [Mac -> Ifs]
  BY ZenonT(30) DEF PathInv, TgtType
<1>4. ifs' = [ifs EXCEPT ![t] = c]
  BY ZenonT(30) DEF KtioComplete
<1>5. \A i \in Slot : i \in hit <=> good /\ ifs[t][i].nd = n
  BY ZenonT(30) DEF Getif
<1> HIDE DEF t, n, hit
<1>6. ASSUME NEW i \in Slot
      PROVE  /\ c[i] \in IfRec
             /\ c[i].nd = ifs[t][i].nd /\ c[i].bcnt = ifs[t][i].bcnt
             /\ i \in hit => c[i].lost = 0
             /\ i \notin hit => c[i] = ifs[t][i]
  <2>1. ifs[t][i] \in IfRec
    BY ZenonT(30), <1>2, <1>3 DEF Ifs
  <2>2. c[i] = IF i \in hit THEN [ifs[t][i] EXCEPT !.lost = 0] ELSE ifs[t][i]
    BY ZenonT(30)
  <2> HIDE DEF c
  <2> QED
    BY <2>1, <2>2 DEF IfRec
<1>7. c \in Ifs
  BY ZenonT(30), <1>6 DEF Ifs
<1> HIDE DEF c
<1>8. ifs' \in [Mac -> Ifs] /\ ifs'[t] = c /\ \A u \in Mac : u # t => ifs'[u] = ifs[u]
  BY ZenonT(30), <1>2, <1>3, <1>4, <1>7
<1>9. ASSUME NEW i \in Slot
      PROVE  /\ ifs'[t][i].nd = ifs[t][i].nd /\ ifs'[t][i].bcnt = ifs[t][i].bcnt
             /\ ~(good /\ ifs[t][i].nd = n) => ifs'[t][i] = ifs[t][i]
             /\ good /\ ifs[t][i].nd = n => ifs'[t][i].lost = 0
  BY ZenonT(30), <1>5, <1>6, <1>8
<1> QED
  BY ZenonT(30), <1>2, <1>8, <1>9 DEF t, n

\* A loss that is counted, in slot k of target t.
Counts(t, k) ==
    /\ ifs' = [ifs EXCEPT ![t][k].lost = @ + 1]
    /\ unanswered' = [unanswered EXCEPT ![t][ifs[t][k].nd] = @ + 1]
    /\ UNCHANGED <<held, stale>>

\* An interface that is ejected, from slot k of target t.
Ejects(t, k) ==
    /\ k # 1 \/ ifs[t][2].nd # None
    /\ ifs' = [ifs EXCEPT ![t] = Ejectif(ifs[t], k)]
    /\ held' = [held EXCEPT ![ifs[t][k].nd] = @ - 1]
    /\ unanswered' = [unanswered EXCEPT ![t][ifs[t][k].nd] = 0]
    /\ stale' = stale \ {<<t, ifs[t][k].nd>>}

\* What the timer does to the slots of the target of an expired frame.
LEMMA DeferIs ==
    ASSUME PathInv, NEW f \in Frame, TimerDefer(f)
    PROVE  /\ ft[f] \in tgts /\ ft[f] \in Mac
           /\ UNCHANGED <<tgts, nframes, minbcnt, maxbcnt, ifp>>
           /\ \/ UNCHANGED <<ifs, held, unanswered, stale>>
              \/ \E k \in Slot : ifs[ft[f]][k].nd \in Nd /\ Counts(ft[f], k)
              \/ \E k \in Slot : ifs[ft[f]][k].nd \in Nd /\ Ejects(ft[f], k)
<1>1. place[f] = "flist"
  BY ZenonT(30) DEF TimerDefer
<1>2. ft[f] \in tgts /\ ft[f] \in Mac /\ fdev[f] \in Nd
  BY <1>1 DEF PathInv, FramesInv, TgtType
<1>3. UNCHANGED <<tgts, nframes, minbcnt, maxbcnt, ifp>>
  BY ZenonT(30) DEF TimerDefer
<1>4. \/ UNCHANGED <<ifs, held, unanswered, stale>>
      \/ \E k \in Getif(ifs[ft[f]], fdev[f]) : Counts(ft[f], k)
      \/ \E k \in Getif(ifs[ft[f]], fdev[f]) : Ejects(ft[f], k)
  BY ZenonT(30) DEF TimerDefer, Counts, Ejects, Getif, MayEject, histVars
<1>5. \A k \in Getif(ifs[ft[f]], fdev[f]) : k \in Slot /\ ifs[ft[f]][k].nd \in Nd
  BY ZenonT(30), <1>2 DEF Getif
<1> QED
  BY ZenonT(30), <1>2, <1>3, <1>4, <1>5

\* What a loss does to the slots of a target.
LEMMA CountsIs ==
    ASSUME PathInv, NEW t \in Mac, NEW k \in Slot, Counts(t, k)
    PROVE  /\ ifs' \in [Mac -> Ifs]
           /\ \A u \in Mac : u # t => ifs'[u] = ifs[u]
           /\ \A i \in Slot :
                /\ ifs'[t][i].nd = ifs[t][i].nd /\ ifs'[t][i].bcnt = ifs[t][i].bcnt
                /\ i # k => ifs'[t][i] = ifs[t][i]
           /\ ifs'[t][k].lost = ifs[t][k].lost + 1
<1>1. ifs \in [Mac -> Ifs]
  BY ZenonT(30) DEF PathInv, TgtType
<1>2. ifs[t] \in Ifs /\ ifs[t][k] \in IfRec
  BY ZenonT(30), <1>1 DEF Ifs
<1> DEFINE r == [ifs[t][k] EXCEPT !.lost = @ + 1]
           c == [ifs[t] EXCEPT ![k] = r]
<1>3. /\ r \in IfRec /\ r.nd = ifs[t][k].nd /\ r.bcnt = ifs[t][k].bcnt
      /\ r.lost = ifs[t][k].lost + 1
  BY <1>2 DEF IfRec
<1>4. ifs' = [ifs EXCEPT ![t] = c]
  BY ZenonT(30) DEF Counts
<1> HIDE DEF r
<1>5. c \in Ifs /\ c[k] = r /\ \A i \in Slot : i # k => c[i] = ifs[t][i]
  BY ZenonT(30), <1>2, <1>3 DEF Ifs
<1> HIDE DEF c
<1>6. ifs' \in [Mac -> Ifs] /\ ifs'[t] = c /\ \A u \in Mac : u # t => ifs'[u] = ifs[u]
  BY ZenonT(30), <1>1, <1>4, <1>5
<1> QED
  BY ZenonT(30), <1>3, <1>5, <1>6

\* Every slot in use after an ejection is another slot from before it.
EjectsFrom(t, k) ==
    \A i \in Slot : ifs'[t][i].nd # None =>
      \E j \in Slot : ifs'[t][i] = ifs[t][j] /\ ifs[t][j].nd # ifs[t][k].nd

\* What an ejection does to the slots of a target.
LEMMA EjectsIs ==
    ASSUME PathInv, NEW t \in tgts, NEW k \in Slot, ifs[t][k].nd \in Nd, Ejects(t, k)
    PROVE  /\ ifs' \in [Mac -> Ifs]
           /\ \A u \in Mac : u # t => ifs'[u] = ifs[u]
           /\ Packed(ifs'[t]) /\ ifs'[t][1].nd # None
           /\ Nds(ifs'[t]) = Nds(ifs[t]) \ {ifs[t][k].nd}
           /\ EjectsFrom(t, k)
<1> DEFINE a == ifs[t]
           e == Ejectif(a, k)
<1>1. ifs \in [Mac -> Ifs] /\ t \in Mac
  BY ZenonT(30) DEF PathInv, TgtType
<1>2. a \in Ifs /\ Packed(a) /\ a[1].nd # None
  BY ZenonT(30), <1>1 DEF PathInv, SlotsInv
<1>3. a[k].nd # None
  BY ZenonT(30), PathAssumption
<1>4. (k # 1 \/ a[2].nd # None) /\ ifs' = [ifs EXCEPT ![t] = e]
  BY ZenonT(30) DEF Ejects
<1> HIDE DEF a
<1>5. e \in Ifs /\ Packed(e) /\ Nds(e) = Nds(a) \ {a[k].nd}
  BY ZenonT(30), <1>2, <1>3, EjectifIs
<1>6. e[1].nd # None
  BY ZenonT(30), <1>2, <1>3, <1>4, EjectifIs
<1>7. \A i \in Slot : e[i].nd # None => \E j \in Slot : j # k /\ e[i] = a[j]
  BY ZenonT(30), <1>2, <1>3, EjectifIs
<1> HIDE DEF e
<1>8. \A j \in Slot : j # k => a[j].nd # a[k].nd
  BY <1>2, <1>3 DEF Packed, Slot
<1>9. ifs' \in [Mac -> Ifs] /\ ifs'[t] = e /\ \A u \in Mac : u # t => ifs'[u] = ifs[u]
  BY ZenonT(30), <1>1, <1>4, <1>5
<1> QED
  BY ZenonT(30), <1>5, <1>6, <1>7, <1>8, <1>9 DEF a, EjectsFrom

\* The state after a flush.
LEMMA FlushIs ==
    ASSUME Flush
    PROVE  /\ tgts' = {} /\ maxbcnt' = 0 /\ stale' = {}
           /\ \A t \in Mac, i \in Slot : ifs'[t][i].nd = None
           /\ ifs' \in [Mac -> Ifs]
<1>1. EmptyIf \in IfRec /\ EmptyIf.nd = None
  BY DEF EmptyIf, IfRec
<1>2. ifs' = [t \in Mac |-> EmptyIfs]
  BY ZenonT(30) DEF Flush
<1> QED
  BY ZenonT(30), <1>1, <1>2 DEF Flush, EmptyIfs, Ifs

----------------------------------------------------------------------------
(* Every step preserves the invariant.                                     *)

\* The targets keep their types.
LEMMA TgtTypeStep ==
    ASSUME PathInv, [Next]_vars
    PROVE  TgtType'
<1>0. TgtType
  BY ZenonT(30) DEF PathInv
<1>1. CASE Quiet
  BY <1>0, <1>1 DEF TgtType, Quiet
<1>2. ASSUME NEW r \in Rsp, CfgRsp(r) PROVE TgtType'
  <2>1. /\ r.t \in Mac /\ r.nd \in Nd /\ New(r) \in Ifs
        /\ ifs' = [ifs EXCEPT ![r.t] = New(r)] /\ tgts' = tgts \cup {r.t}
    BY ZenonT(30), <1>2, CfgRspIs
  <2>2. nframes' = [nframes EXCEPT ![r.t] = Nframes(r)] /\ Nframes(r) \in 0..AoeMaxout
    BY ZenonT(30), <1>2, RspIs DEF CfgRsp
  <2>3. /\ tgts' \subseteq Mac /\ nframes' \in [Mac -> 0..AoeMaxout]
        /\ ifs' \in [Mac -> Ifs]
    BY ZenonT(30), <1>0, <2>1, <2>2 DEF TgtType
  <2>4. CASE TooMany(Old(r), r.nd)
    <3>1. UNCHANGED <<minbcnt, maxbcnt, held>>
      BY ZenonT(30), <1>2, <2>4 DEF CfgRsp, Old
    <3> QED
      BY <1>0, <2>3, <3>1 DEF TgtType
  <2>5. CASE ~TooMany(Old(r), r.nd)
    <3>1. held' = held \/ held' = [held EXCEPT ![r.nd] = @ + 1]
      BY ZenonT(30), <1>2, <2>5 DEF CfgRsp, Old
    <3>2. held' \in [Nd -> Int]
      BY <1>0, <2>1, <3>1 DEF TgtType
    <3>3. minbcnt' \in [Mac -> Nat] /\ maxbcnt' \in Nat
      BY ZenonT(30), <1>2, <2>5, CountsAre
    <3> QED
      BY ZenonT(30), <2>3, <3>2, <3>3 DEF TgtType
  <2> QED
    BY <2>4, <2>5
<1>3. ASSUME NEW f \in Frame, NEW good \in BOOLEAN, KtioComplete(f, good)
      PROVE  TgtType'
  <2>1. ifs' \in [Mac -> Ifs] /\ UNCHANGED <<tgts, nframes, minbcnt, maxbcnt, held>>
    BY ZenonT(30), <1>3, KtioIs DEF KtioComplete
  <2> QED
    BY ZenonT(30), <1>0, <2>1 DEF TgtType
<1>4. ASSUME NEW f \in Frame, TimerDefer(f) PROVE TgtType'
  <2>1. /\ ft[f] \in tgts /\ ft[f] \in Mac
        /\ UNCHANGED <<tgts, nframes, minbcnt, maxbcnt>>
        /\ \/ UNCHANGED <<ifs, held>>
           \/ \E k \in Slot : ifs[ft[f]][k].nd \in Nd /\ Counts(ft[f], k)
           \/ \E k \in Slot : ifs[ft[f]][k].nd \in Nd /\ Ejects(ft[f], k)
    BY ZenonT(30), <1>4, DeferIs
  <2>2. CASE UNCHANGED <<ifs, held>>
    BY ZenonT(30), <1>0, <2>1, <2>2 DEF TgtType
  <2>3. ASSUME NEW k \in Slot, Counts(ft[f], k) PROVE TgtType'
    <3>1. ifs' \in [Mac -> Ifs] /\ held' = held
      BY ZenonT(30), <2>1, <2>3, CountsIs DEF Counts
    <3> QED
      BY ZenonT(30), <1>0, <2>1, <3>1 DEF TgtType
  <2>4. ASSUME NEW k \in Slot, ifs[ft[f]][k].nd \in Nd, Ejects(ft[f], k) PROVE TgtType'
    <3>1. ifs' \in [Mac -> Ifs] /\ held' = [held EXCEPT ![ifs[ft[f]][k].nd] = @ - 1]
      BY ZenonT(30), <2>1, <2>4, EjectsIs DEF Ejects
    <3>2. held' \in [Nd -> Int]
      BY <1>0, <2>4, <3>1 DEF TgtType
    <3> QED
      BY ZenonT(30), <1>0, <2>1, <3>1, <3>2 DEF TgtType
  <2> QED
    BY ZenonT(30), <2>1, <2>2, <2>3, <2>4
<1>5. CASE Flush
  <2>0. AoeMaxout \in Nat
    BY ZenonT(30), PathAssumption
  <2>1. tgts' = {} /\ maxbcnt' = 0 /\ ifs' \in [Mac -> Ifs]
    BY ZenonT(30), <1>5, FlushIs
  <2>2. nframes' = [t \in Mac |-> 0] /\ minbcnt' = [t \in Mac |-> 0]
    BY ZenonT(30), <1>5 DEF Flush
  <2> DEFINE C(n) == Cardinality({t \in tgts : \E i \in Valid(ifs[t]) : ifs[t][i].nd = n})
  <2>3. held' = [n \in Nd |-> held[n] - C(n)]
    BY ZenonT(30), <1>5 DEF Flush
  <2>4. \A n \in Nd : C(n) \in Nat
    <3>1. tgts \subseteq Mac /\ IsFiniteSet(Mac)
      BY ZenonT(30), <1>0, PathAssumption DEF TgtType
    <3>2. ASSUME NEW S, S \subseteq Mac PROVE Cardinality(S) \in Nat
      BY <3>1, <3>2, FS_Subset, FS_CardinalityType
    <3> QED
      BY ZenonT(30), <3>1, <3>2
  <2> HIDE DEF C
  <2>5. held' \in [Nd -> Int]
    BY <1>0, <2>3, <2>4 DEF TgtType
  <2>6. nframes' \in [Mac -> 0..AoeMaxout] /\ minbcnt' \in [Mac -> Nat]
    BY <2>0, <2>2
  <2> QED
    BY ZenonT(30), <2>1, <2>5, <2>6 DEF TgtType
<1> QED
  BY ZenonT(30), <1>1, <1>2, <1>3, <1>4, <1>5, NextCases

\* The counts of the paths after the one of target t and interface n is set.
Put(t, n, x) == [unanswered EXCEPT ![t][n] = x]
OnlyPut(U, t, n, x) ==
    /\ U[t][n] = x
    /\ \A u \in Mac, m \in Nd : u # t \/ m # n => U[u][m] = unanswered[u][m]

\* Only that count changes.
LEMMA HistSet ==
    ASSUME HistType, NEW t \in Mac, NEW n \in Nd, NEW x \in Nat
    PROVE  /\ Put(t, n, x) \in [Mac -> [Nd -> Nat]]
           /\ OnlyPut(Put(t, n, x), t, n, x)
<1> DEFINE c == [unanswered[t] EXCEPT ![n] = x]
<1>1. unanswered \in [Mac -> [Nd -> Nat]]
  BY ZenonT(30) DEF HistType
<1>2. c \in [Nd -> Nat] /\ c[n] = x /\ \A m \in Nd : m # n => c[m] = unanswered[t][m]
  BY ZenonT(30), <1>1
<1>3. Put(t, n, x) = [unanswered EXCEPT ![t] = c]
  BY ZenonT(30) DEF Put
<1> HIDE DEF c
<1> QED
  BY ZenonT(30), <1>1, <1>2, <1>3 DEF OnlyPut

\* The histories keep their types.
LEMMA HistTypeStep ==
    ASSUME PathInv, [Next]_vars
    PROVE  HistType'
<1>0. HistType
  BY ZenonT(30) DEF PathInv
<1>z. \A t \in Mac, n \in Nd : Put(t, n, 0) \in [Mac -> [Nd -> Nat]]
  <2>1. 0 \in Nat
    OBVIOUS
  <2> QED
    BY ZenonT(30), <1>0, <2>1, HistSet
<1>1. CASE Quiet
  BY ZenonT(30), <1>0, <1>1 DEF HistType, Quiet
<1>2. ASSUME NEW r \in Rsp, CfgRsp(r) PROVE HistType'
  <2>1. r.t \in Mac /\ r.nd \in Nd
    BY ZenonT(30), <1>2, CfgRspIs
  <2> DEFINE U == Put(r.t, r.nd, 0)
  <2>u. U \in [Mac -> [Nd -> Nat]]
    BY ZenonT(30), <1>z, <2>1
  <2>2. /\ unanswered' = unanswered \/ unanswered' = U
        /\ stale' = stale \/ stale' = stale \cup {<<r.t, r.nd>>}
    BY ZenonT(30), <1>2, CfgRspHist DEF Put
  <2> HIDE DEF U
  <2>3. unanswered' \in [Mac -> [Nd -> Nat]]
    BY ZenonT(30), <1>0, <2>u, <2>2 DEF HistType
  <2>4. stale' \subseteq Mac \X Nd
    BY <1>0, <2>1, <2>2 DEF HistType
  <2> QED
    BY ZenonT(30), <2>3, <2>4 DEF HistType
<1>3. ASSUME NEW f \in Frame, NEW good \in BOOLEAN, KtioComplete(f, good)
      PROVE  HistType'
  <2>1. ft[f] \in Mac /\ fdev[f] \in Nd
    BY ZenonT(30), <1>3, KtioIs
  <2> DEFINE U == Put(ft[f], fdev[f], 0)
  <2>u. U \in [Mac -> [Nd -> Nat]]
    BY ZenonT(30), <1>z, <2>1
  <2>2. /\ unanswered' = unanswered \/ unanswered' = U
        /\ stale' \subseteq stale
    BY ZenonT(30), <1>3 DEF KtioComplete, Put
  <2> HIDE DEF U
  <2>3. unanswered' \in [Mac -> [Nd -> Nat]]
    BY ZenonT(30), <1>0, <2>u, <2>2 DEF HistType
  <2>4. stale' \subseteq Mac \X Nd
    BY <1>0, <2>1, <2>2 DEF HistType
  <2> QED
    BY ZenonT(30), <2>3, <2>4 DEF HistType
<1>4. ASSUME NEW f \in Frame, TimerDefer(f) PROVE HistType'
  <2> DEFINE t == ft[f]
  <2>1. t \in Mac
    BY ZenonT(30), <1>4, DeferIs
  <2>2. CASE UNCHANGED <<unanswered, stale>>
    BY ZenonT(30), <1>0, <2>2 DEF HistType
  <2>3. ASSUME NEW k \in Slot, ifs[t][k].nd \in Nd, Counts(t, k) PROVE HistType'
    <3>1. unanswered[t][ifs[t][k].nd] + 1 \in Nat
      BY <1>0, <2>1, <2>3 DEF HistType
    <3>2. /\ unanswered' = Put(t, ifs[t][k].nd, unanswered[t][ifs[t][k].nd] + 1)
          /\ stale' = stale
      BY ZenonT(30), <2>3 DEF Counts, Put
    <3> QED
      BY ZenonT(30), <1>0, <2>1, <2>3, <3>1, <3>2, HistSet DEF HistType
  <2>4. ASSUME NEW k \in Slot, ifs[t][k].nd \in Nd, Ejects(t, k) PROVE HistType'
    <3>1. /\ unanswered' = Put(t, ifs[t][k].nd, 0)
          /\ stale' \subseteq stale
      BY ZenonT(30), <2>4 DEF Ejects, Put
    <3> QED
      BY ZenonT(30), <1>0, <1>z, <2>1, <2>4, <3>1 DEF HistType
  <2> QED
    BY ZenonT(30), <1>4, <2>2, <2>3, <2>4, DeferIs
<1>5. CASE Flush
  <2>1. stale' = {} /\ unanswered' = [t \in Mac |-> [n \in Nd |-> 0]] /\ 0 \in Nat
    BY ZenonT(30), <1>5 DEF Flush
  <2> QED
    BY ZenonT(30), <2>1 DEF HistType
<1> QED
  BY ZenonT(30), <1>1, <1>2, <1>3, <1>4, <1>5, NextCases

\* The slots stay packed, and a target keeps an interface.
LEMMA SlotsStep ==
    ASSUME PathInv, [Next]_vars
    PROVE  SlotsInv'
<1>0. SlotsInv /\ TgtType
  BY ZenonT(30) DEF PathInv
<1>s. 1 \in Slot
  <2>1. NAoeIfs \in Nat /\ NAoeIfs >= 2
    BY ZenonT(30), PathAssumption
  <2> QED
    BY <2>1 DEF Slot
<1>p. ASSUME NEW t \in Mac, \A i \in Slot : ifs'[t][i].nd = ifs[t][i].nd
      PROVE  Packed(ifs'[t])
  <2>1. Packed(ifs[t])
    BY ZenonT(30), <1>0 DEF SlotsInv
  <2> DEFINE a == ifs[t]
             c == ifs'[t]
  <2>2. Packed(a) /\ \A i \in Slot : c[i].nd = a[i].nd
    BY ZenonT(30), <1>p, <2>1
  <2> HIDE DEF a, c
  <2>3. Packed(c)
    BY <2>2 DEF Packed
  <2> QED
    BY ZenonT(30), <2>3 DEF c
<1>1. CASE Quiet
  BY ZenonT(30), <1>0, <1>1 DEF SlotsInv, Quiet
<1>2. ASSUME NEW r \in Rsp, CfgRsp(r) PROVE SlotsInv'
  <2>1. /\ r.t \in Mac /\ Packed(New(r)) /\ New(r)[1].nd # None
        /\ ifs' = [ifs EXCEPT ![r.t] = New(r)] /\ tgts' = tgts \cup {r.t}
    BY ZenonT(30), <1>2, CfgRspIs
  <2>2. \A t \in Mac : ifs'[t] = IF t = r.t THEN New(r) ELSE ifs[t]
    BY ZenonT(30), <1>0, <2>1 DEF TgtType
  <2> QED
    BY ZenonT(30), <1>0, <2>1, <2>2 DEF SlotsInv, TgtType
<1>3. ASSUME NEW f \in Frame, NEW good \in BOOLEAN, KtioComplete(f, good)
      PROVE  SlotsInv'
  <2>1. \A u \in Mac, i \in Slot : ifs'[u][i].nd = ifs[u][i].nd
    BY ZenonT(30), <1>3, KtioIs
  <2>2. tgts' = tgts
    BY ZenonT(30), <1>3 DEF KtioComplete
  <2> QED
    BY ZenonT(30), <1>0, <1>s, <1>p, <2>1, <2>2 DEF SlotsInv, TgtType
<1>4. ASSUME NEW f \in Frame, TimerDefer(f) PROVE SlotsInv'
  <2> DEFINE t == ft[f]
  <2>1. t \in tgts /\ t \in Mac /\ tgts' = tgts /\ tgts \subseteq Mac
    BY ZenonT(30), <1>0, <1>4, DeferIs DEF TgtType
  <2>2. CASE UNCHANGED ifs
    BY ZenonT(30), <1>0, <2>1, <2>2 DEF SlotsInv
  <2>3. ASSUME NEW k \in Slot, Counts(t, k) PROVE SlotsInv'
    <3>1. \A u \in Mac, i \in Slot : ifs'[u][i].nd = ifs[u][i].nd
      BY ZenonT(30), <2>1, <2>3, CountsIs
    <3> QED
      BY ZenonT(30), <1>0, <1>s, <1>p, <2>1, <3>1 DEF SlotsInv
  <2>4. ASSUME NEW k \in Slot, ifs[t][k].nd \in Nd, Ejects(t, k) PROVE SlotsInv'
    <3>1. /\ \A u \in Mac : u # t => ifs'[u] = ifs[u]
          /\ Packed(ifs'[t]) /\ ifs'[t][1].nd # None
      BY ZenonT(30), <2>1, <2>4, EjectsIs
    <3> QED
      BY ZenonT(30), <1>0, <2>1, <3>1 DEF SlotsInv
  <2> QED
    BY ZenonT(30), <1>4, <2>2, <2>3, <2>4, DeferIs
<1>5. CASE Flush
  BY ZenonT(30), <1>5, FlushIs DEF SlotsInv, Packed
<1> QED
  BY ZenonT(30), <1>1, <1>2, <1>3, <1>4, <1>5, NextCases

\* The references stay exact if the same targets have the interface.
LEMMA HeldSame ==
    ASSUME HeldInv, NEW n \in Nd, held'[n] = held[n], tgts' = tgts,
           \A t \in tgts : n \in Nds(ifs'[t]) <=> n \in Nds(ifs[t])
    PROVE  held'[n] = Cardinality(Has(n)')
<1>1. Has(n)' = Has(n)
  BY ZenonT(30) DEF Has
<1> QED
  BY ZenonT(30), <1>1 DEF HeldInv

\* The targets that have an interface are counted.
LEMMA HasFinite ==
    ASSUME TgtType, NEW n \in Nd
    PROVE  IsFiniteSet(Has(n)) /\ Cardinality(Has(n)) \in Nat
<1>1. Has(n) \subseteq Mac /\ IsFiniteSet(Mac)
  BY ZenonT(30), PathAssumption DEF Has, TgtType
<1> QED
  BY <1>1, FS_Subset, FS_CardinalityType

\* The references on the interfaces stay exact.
LEMMA HeldStep ==
    ASSUME PathInv, [Next]_vars
    PROVE  HeldInv'
<1>0. HeldInv /\ TgtType
  BY ZenonT(30) DEF PathInv
<1>h. held \in [Nd -> Int] /\ tgts \subseteq Mac /\ ifs \in [Mac -> Ifs]
  BY ZenonT(30), <1>0 DEF TgtType
<1>n. ASSUME NEW t \in Mac, \A i \in Slot : ifs'[t][i].nd = ifs[t][i].nd
      PROVE  Nds(ifs'[t]) = Nds(ifs[t])
  BY ZenonT(30), <1>n DEF Nds
<1>1. CASE Quiet
  BY ZenonT(30), <1>0, <1>1 DEF HeldInv, Has, Quiet
<1>2. ASSUME NEW r \in Rsp, CfgRsp(r) PROVE HeldInv'
  <2> DEFINE t == r.t
             n == r.nd
             a == Old(r)
             c == New(r)
  <2>1. /\ t \in Mac /\ n \in Nd /\ a \in Ifs /\ Packed(a)
        /\ t \notin tgts => Nds(a) = {}
        /\ t \in tgts => a = ifs[t]
        /\ TooMany(a, n) => t \in tgts /\ c = a
        /\ ifs' = [ifs EXCEPT ![t] = c] /\ tgts' = tgts \cup {t}
    BY ZenonT(30), <1>2, CfgRspIs
  <2>2. \A u \in Mac : ifs'[u] = IF u = t THEN c ELSE ifs[u]
    BY ZenonT(30), <1>h, <2>1
  <2>3. CASE TooMany(a, n)
    <3>1. held' = held
      BY ZenonT(30), <1>2, <2>3, CfgRspHist
    <3>2. tgts' = tgts /\ \A u \in tgts : ifs'[u] = ifs[u]
      BY ZenonT(30), <1>h, <2>1, <2>2, <2>3
    <3> QED
      BY ZenonT(30), <1>0, <3>1, <3>2 DEF HeldInv, Has
  <2>4. CASE ~TooMany(a, n)
    <3>1. Nds(c) = Nds(a) \cup {n}
      <4> DEFINE b == Bcnt(n, r.scnt)
      <4>1. b \in Nat /\ c = Setif(a, n, b)
        BY ZenonT(30), <1>2, CfgRspIs DEF New
      <4> HIDE DEF a, n, b, c
      <4> QED
        BY ZenonT(30), <2>1, <2>4, <4>1, SetifIs
    <3>2. CASE n \in Nds(a)
      <4>1. held' = held
        BY ZenonT(30), <1>2, <2>4, <3>2, CfgRspHist
      <4>2. tgts' = tgts /\ \A u \in tgts : Nds(ifs'[u]) = Nds(ifs[u])
        BY ZenonT(30), <1>h, <2>1, <2>2, <3>1, <3>2
      <4> QED
        BY ZenonT(30), <1>0, <4>1, <4>2 DEF HeldInv, Has
    <3>3. CASE n \notin Nds(a)
      <4>1. held' = [held EXCEPT ![n] = @ + 1]
        BY ZenonT(30), <1>2, <2>4, <3>3, CfgRspHist
      <4> HIDE DEF t, n, a, c
      <4>2. ASSUME NEW m \in Nd, m # n PROVE held'[m] = held[m] /\ Has(m)' = Has(m)
        <5>1. m \in Nds(c) <=> m \in Nds(a)
          BY ZenonT(30), <3>1, <4>2
        <5>2. \A u \in Mac : u \in Has(m)' <=> u \in Has(m)
          BY ZenonT(30), <1>h, <2>1, <2>2, <5>1 DEF Has
        <5>3. Has(m) \subseteq Mac /\ Has(m)' \subseteq Mac
          BY ZenonT(30), <1>h, <2>1 DEF Has
        <5>4. held'[m] = held[m]
          BY ZenonT(30), <1>h, <2>1, <4>1, <4>2
        <5> QED
          BY ZenonT(30), <5>2, <5>3, <5>4
      <4>3. held'[n] = Cardinality(Has(n)')
        <5>1. Has(n)' = Has(n) \cup {t} /\ t \notin Has(n)
          <6>1. t \notin Has(n)
            BY ZenonT(30), <2>1, <3>3 DEF Has
          <6>2. \A u \in Mac : u \in Has(n)' <=> u \in Has(n) \cup {t}
            BY ZenonT(30), <1>h, <2>1, <2>2, <3>1 DEF Has
          <6>3. Has(n) \subseteq Mac /\ Has(n)' \subseteq Mac
            BY ZenonT(30), <1>h, <2>1 DEF Has
          <6> QED
            BY ZenonT(30), <2>1, <6>1, <6>2, <6>3
        <5>2. IsFiniteSet(Has(n)) /\ held[n] = Cardinality(Has(n))
          BY ZenonT(30), <1>0, <2>1, HasFinite DEF HeldInv
        <5>3. Cardinality(Has(n)') = Cardinality(Has(n)) + 1
          BY <5>1, <5>2, FS_AddElement
        <5>4. held'[n] = held[n] + 1
          BY <1>h, <2>1, <4>1
        <5> QED
          BY ZenonT(30), <5>2, <5>3, <5>4
      <4> QED
        BY ZenonT(30), <1>0, <4>2, <4>3 DEF HeldInv
    <3> QED
      BY <3>2, <3>3
  <2> QED
    BY <2>3, <2>4
<1>3. ASSUME NEW f \in Frame, NEW good \in BOOLEAN, KtioComplete(f, good)
      PROVE  HeldInv'
  <2>1. \A u \in Mac, i \in Slot : ifs'[u][i].nd = ifs[u][i].nd
    BY ZenonT(30), <1>3, KtioIs
  <2>2. tgts' = tgts /\ held' = held
    BY ZenonT(30), <1>3 DEF KtioComplete
  <2>3. \A u \in tgts : Nds(ifs'[u]) = Nds(ifs[u])
    BY ZenonT(30), <1>h, <1>n, <2>1
  <2> QED
    BY ZenonT(30), <1>0, <2>2, <2>3 DEF HeldInv, Has
<1>4. ASSUME NEW f \in Frame, TimerDefer(f) PROVE HeldInv'
  <2> DEFINE t == ft[f]
  <2>1. t \in tgts /\ t \in Mac /\ tgts' = tgts
    BY ZenonT(30), <1>4, DeferIs
  <2>2. CASE UNCHANGED <<ifs, held>>
    BY ZenonT(30), <1>0, <2>1, <2>2 DEF HeldInv, Has
  <2>3. ASSUME NEW k \in Slot, Counts(t, k) PROVE HeldInv'
    <3>1. \A u \in Mac, i \in Slot : ifs'[u][i].nd = ifs[u][i].nd
      BY ZenonT(30), <2>1, <2>3, CountsIs
    <3>2. held' = held /\ \A u \in tgts : Nds(ifs'[u]) = Nds(ifs[u])
      BY ZenonT(30), <1>h, <1>n, <2>3, <3>1 DEF Counts
    <3> QED
      BY ZenonT(30), <1>0, <2>1, <3>2 DEF HeldInv, Has
  <2>4. ASSUME NEW k \in Slot, ifs[t][k].nd \in Nd, Ejects(t, k) PROVE HeldInv'
    <3>0. PICK n \in Nd : n = ifs[t][k].nd
      BY <2>4
    <3>1. /\ \A u \in Mac : u # t => ifs'[u] = ifs[u]
          /\ Nds(ifs'[t]) = Nds(ifs[t]) \ {n}
      BY ZenonT(30), <2>1, <2>4, <3>0, EjectsIs
    <3>2. n \in Nds(ifs[t])
      BY ZenonT(30), <2>4, <3>0, PathAssumption DEF Nds
    <3>3. held' = [held EXCEPT ![n] = @ - 1]
      BY ZenonT(30), <2>4, <3>0 DEF Ejects
    <3> HIDE DEF t
    <3>4. ASSUME NEW m \in Nd, m # n PROVE held'[m] = Cardinality(Has(m)')
      <4>1. held'[m] = held[m]
        BY ZenonT(30), <1>h, <3>3, <3>4
      <4>2. \A u \in tgts : m \in Nds(ifs'[u]) <=> m \in Nds(ifs[u])
        BY ZenonT(30), <1>h, <3>1, <3>4
      <4> QED
        BY ZenonT(30), <1>0, <2>1, <4>1, <4>2, HeldSame
    <3>5. held'[n] = Cardinality(Has(n)')
      <4>1. Has(n)' = Has(n) \ {t} /\ t \in Has(n)
        BY ZenonT(30), <1>h, <2>1, <3>1, <3>2 DEF Has
      <4>2. IsFiniteSet(Has(n)) /\ held[n] = Cardinality(Has(n))
        BY ZenonT(30), <1>0, HasFinite DEF HeldInv
      <4>3. Cardinality(Has(n)') = Cardinality(Has(n)) - 1
        <5>1. Cardinality(Has(n) \ {t}) = Cardinality(Has(n)) - 1
          BY ZenonT(30), <4>1, <4>2, FS_RemoveElement
        <5> QED
          BY ZenonT(30), <4>1, <5>1
      <4>4. held'[n] = held[n] - 1
        BY <1>h, <3>3
      <4> QED
        BY ZenonT(30), <4>2, <4>3, <4>4
    <3> QED
      BY ZenonT(30), <3>4, <3>5 DEF HeldInv
  <2> QED
    BY ZenonT(30), <1>4, <2>2, <2>3, <2>4, DeferIs
<1>5. CASE Flush
  <2>1. ASSUME NEW n \in Nd PROVE held'[n] = Cardinality(Has(n)')
    <3> DEFINE H == {t \in tgts : \E i \in Valid(ifs[t]) : ifs[t][i].nd = n}
    <3>1. held'[n] = held[n] - Cardinality(H)
      BY ZenonT(30), <1>5 DEF Flush
    <3>2. ASSUME NEW t \in tgts
          PROVE  (\E i \in Valid(ifs[t]) : ifs[t][i].nd = n) <=> n \in Nds(ifs[t])
      <4>1. ifs[t] \in Ifs /\ Packed(ifs[t])
        BY ZenonT(30), <1>h DEF PathInv, SlotsInv
      <4>2. {ifs[t][i].nd : i \in Valid(ifs[t])} = Nds(ifs[t])
        BY ZenonT(30), <4>1, ValidNds
      <4> QED
        BY ZenonT(30), <4>2
    <3>3. H = Has(n)
      BY ZenonT(30), <3>2 DEF Has
    <3>4. held[n] = Cardinality(Has(n)) /\ Cardinality(Has(n)) \in Nat
      BY ZenonT(30), <1>0, HasFinite DEF HeldInv
    <3> HIDE DEF H
    <3>5. held'[n] = 0
      BY <3>1, <3>3, <3>4
    <3>6. Has(n)' = {}
      BY ZenonT(30), <1>5, FlushIs DEF Has
    <3> QED
      BY <3>5, <3>6, FS_EmptySet
  <2> QED
    BY ZenonT(30), <2>1 DEF HeldInv
<1> QED
  BY ZenonT(30), <1>1, <1>2, <1>3, <1>4, <1>5, NextCases

\* The byte counts stay within what the interfaces and the targets can take.
LEMMA BcntStep ==
    ASSUME PathInv, [Next]_vars
    PROVE  BcntInv'
<1>0. BcntInv
  BY ZenonT(30) DEF PathInv
<1>h. /\ tgts \subseteq Mac /\ ifs \in [Mac -> Ifs] /\ minbcnt \in [Mac -> Nat]
      /\ maxbcnt \in Nat
  BY ZenonT(30) DEF PathInv, TgtType
<1> DEFINE Fine(u, a) == \A i \in Slot : a[i].nd # None =>
                           FitsNd(a[i].nd, a[i].bcnt) /\ minbcnt[u] <= a[i].bcnt
<1>f. \A u \in tgts : Fine(u, ifs[u]) /\ (maxbcnt # 0 => maxbcnt <= minbcnt[u])
  BY ZenonT(30), <1>0 DEF BcntInv
<1>g. ASSUME tgts' = tgts, minbcnt' = minbcnt, maxbcnt' \in {maxbcnt, 0},
             \A u \in tgts : Fine(u, ifs'[u])
      PROVE  BcntInv'
  BY ZenonT(30), <1>g, <1>f DEF BcntInv
<1>1. CASE Quiet
  BY ZenonT(30), <1>1, <1>f, <1>g DEF Quiet
<1>2. ASSUME NEW r \in Rsp, CfgRsp(r) PROVE BcntInv'
  <2> DEFINE t == r.t
             n == r.nd
             b == Bcnt(n, r.scnt)
             a == Old(r)
             c == New(r)
  <2>1. /\ t \in Mac /\ n \in Nd /\ b \in Nat /\ FitsNd(n, b)
        /\ a \in Ifs /\ Packed(a) /\ c \in Ifs /\ Packed(c)
        /\ t \notin tgts => \A i \in Slot : a[i].nd = None
        /\ t \in tgts => a = ifs[t]
        /\ TooMany(a, n) => t \in tgts /\ c = a
        /\ ifs' = [ifs EXCEPT ![t] = c] /\ tgts' = tgts \cup {t}
    BY ZenonT(30), <1>2, CfgRspIs
  <2>2. \A u \in Mac : ifs'[u] = IF u = t THEN c ELSE ifs[u]
    BY ZenonT(30), <1>h, <2>1
  <2>3. CASE TooMany(a, n)
    <3>1. UNCHANGED <<minbcnt, maxbcnt>>
      BY ZenonT(30), <1>2, <2>3, CfgRspHist
    <3>2. tgts' = tgts /\ \A u \in tgts : ifs'[u] = ifs[u]
      BY ZenonT(30), <1>h, <2>1, <2>2, <2>3
    <3> QED
      BY ZenonT(30), <1>f, <1>g, <3>1, <3>2
  <2>4. CASE ~TooMany(a, n)
    <3>1. /\ minbcnt' = [minbcnt EXCEPT ![t] = minbcnt'[t]]
          /\ minbcnt'[t] <= b
          /\ \A i \in Valid(c) : minbcnt'[t] <= c[i].bcnt
          /\ \A u \in tgts' : maxbcnt' <= minbcnt'[u]
      BY ZenonT(30), <1>2, <2>4, CountsAre
    <3>2. \A i \in Slot : /\ c[i].nd = n => c[i].bcnt = b
                          /\ c[i].nd # n => c[i] = a[i]
      <4>1. c = Setif(a, n, b)
        BY ZenonT(30) DEF New
      <4> HIDE DEF a, n, b, c
      <4>2. \A i \in Slot : /\ Setif(a, n, b)[i].nd = n => Setif(a, n, b)[i].bcnt = b
                            /\ Setif(a, n, b)[i].nd # n => Setif(a, n, b)[i] = a[i]
        BY ZenonT(30), <2>1, <2>4, SetifIs
      <4> QED
        BY <4>1, <4>2
    <3>3. \A i \in Slot : c[i].nd # None => minbcnt'[t] <= c[i].bcnt
      <4> HIDE DEF t, c
      <4> QED
        BY ZenonT(30), <2>1, <3>1, PackedValid
    <3> HIDE DEF t, n, b, a, c
    <3>4. ASSUME NEW i \in Slot, c[i].nd # None PROVE FitsNd(c[i].nd, c[i].bcnt)
      <4>1. CASE c[i].nd = n
        BY ZenonT(30), <2>1, <3>2, <4>1
      <4>2. CASE c[i].nd # n
        <5>1. c[i] = a[i] /\ t \in tgts /\ a = ifs[t]
          BY ZenonT(30), <2>1, <3>2, <3>4, <4>2
        <5> QED
          BY ZenonT(30), <1>f, <3>4, <5>1
      <4> QED
        BY <4>1, <4>2
    <3>5. ASSUME NEW u \in tgts, u # t PROVE ifs'[u] = ifs[u] /\ minbcnt'[u] = minbcnt[u]
      BY ZenonT(30), <1>h, <2>1, <2>2, <3>1, <3>5
    <3>6. ASSUME NEW u \in tgts', NEW i \in Slot, ifs'[u][i].nd # None
          PROVE  FitsNd(ifs'[u][i].nd, ifs'[u][i].bcnt) /\ minbcnt'[u] <= ifs'[u][i].bcnt
      <4>1. CASE u = t
        BY ZenonT(30), <2>1, <2>2, <3>3, <3>4, <3>6, <4>1
      <4>2. CASE u # t
        <5>1. u \in tgts
          BY ZenonT(30), <2>1, <4>2
        <5> QED
          BY ZenonT(30), <1>f, <3>5, <3>6, <4>2, <5>1
      <4> QED
        BY <4>1, <4>2
    <3> QED
      BY ZenonT(30), <3>1, <3>6 DEF BcntInv
  <2> QED
    BY <2>3, <2>4
<1>3. ASSUME NEW f \in Frame, NEW good \in BOOLEAN, KtioComplete(f, good)
      PROVE  BcntInv'
  <2>1. \A u \in Mac, i \in Slot : /\ ifs'[u][i].nd = ifs[u][i].nd
                                   /\ ifs'[u][i].bcnt = ifs[u][i].bcnt
    BY ZenonT(30), <1>3, KtioIs
  <2>2. UNCHANGED <<tgts, minbcnt, maxbcnt>>
    BY ZenonT(30), <1>3 DEF KtioComplete
  <2>3. \A u \in tgts : Fine(u, ifs'[u])
    BY ZenonT(30), <1>f, <1>h, <2>1
  <2> QED
    BY ZenonT(30), <1>g, <2>2, <2>3
<1>4. ASSUME NEW f \in Frame, TimerDefer(f) PROVE BcntInv'
  <2> DEFINE t == ft[f]
  <2>1. t \in tgts /\ t \in Mac /\ UNCHANGED <<tgts, minbcnt, maxbcnt>>
    BY ZenonT(30), <1>4, DeferIs
  <2>2. CASE UNCHANGED ifs
    BY ZenonT(30), <1>f, <1>g, <2>1, <2>2
  <2>3. ASSUME NEW k \in Slot, Counts(t, k) PROVE BcntInv'
    <3>1. \A u \in Mac, i \in Slot : /\ ifs'[u][i].nd = ifs[u][i].nd
                                     /\ ifs'[u][i].bcnt = ifs[u][i].bcnt
      BY ZenonT(30), <2>1, <2>3, CountsIs
    <3>2. \A u \in tgts : Fine(u, ifs'[u])
      BY ZenonT(30), <1>f, <1>h, <3>1
    <3> QED
      BY ZenonT(30), <1>g, <2>1, <3>2
  <2>4. ASSUME NEW k \in Slot, ifs[t][k].nd \in Nd, Ejects(t, k) PROVE BcntInv'
    <3>1. \A u \in Mac : u # t => ifs'[u] = ifs[u]
      BY ZenonT(30), <2>1, <2>4, EjectsIs
    <3>1a. EjectsFrom(t, k)
      BY ZenonT(30), <2>1, <2>4, EjectsIs
    <3>2. ASSUME NEW u \in tgts PROVE Fine(u, ifs'[u])
      <4>1. CASE u = t
        <5>1. ASSUME NEW i \in Slot, ifs'[t][i].nd # None
              PROVE  /\ FitsNd(ifs'[t][i].nd, ifs'[t][i].bcnt)
                     /\ minbcnt[t] <= ifs'[t][i].bcnt
          <6>1. PICK j \in Slot : ifs'[t][i] = ifs[t][j]
            BY ZenonT(30), <3>1a, <5>1 DEF EjectsFrom
          <6>2. ifs[t][j].nd # None
            BY ZenonT(30), <5>1, <6>1
          <6> HIDE DEF t
          <6>3. FitsNd(ifs[t][j].nd, ifs[t][j].bcnt) /\ minbcnt[t] <= ifs[t][j].bcnt
            BY ZenonT(30), <1>f, <2>1, <6>2
          <6> QED
            BY ZenonT(30), <6>1, <6>3
        <5> QED
          BY ZenonT(30), <4>1, <5>1
      <4>2. CASE u # t
        BY ZenonT(30), <1>f, <1>h, <3>1, <4>2
      <4> QED
        BY <4>1, <4>2
    <3> QED
      BY ZenonT(30), <1>g, <2>1, <3>2
  <2> QED
    BY ZenonT(30), <1>4, <2>2, <2>3, <2>4, DeferIs
<1>5. CASE Flush
  BY ZenonT(30), <1>5, FlushIs DEF BcntInv
<1> QED
  BY ZenonT(30), <1>1, <1>2, <1>3, <1>4, <1>5, NextCases

\* The counts of losses stay exact.
LEMMA LostStep ==
    ASSUME PathInv, [Next]_vars
    PROVE  LostExact'
<1> DEFINE Right(u, a, U, S) == \A i \in Slot : a[i].nd # None /\ <<u, a[i].nd>> \notin S =>
                                  a[i].lost = U[u][a[i].nd]
<1>0. HistType /\ \A u \in tgts : Right(u, ifs[u], unanswered, stale)
  BY ZenonT(30) DEF PathInv, LostExact
<1>h. tgts \subseteq Mac /\ ifs \in [Mac -> Ifs]
  BY ZenonT(30) DEF PathInv, TgtType
<1>r. ASSUME \A u \in tgts' : Right(u, ifs'[u], unanswered', stale') PROVE LostExact'
  BY ZenonT(30), <1>r DEF LostExact
<1>t. \A u \in Mac, i \in Slot : ifs[u][i].nd # None => ifs[u][i].nd \in Nd
  BY <1>h DEF Ifs, IfRec
<1>1. CASE Quiet
  <2>1. tgts' = tgts /\ ifs' = ifs /\ unanswered' = unanswered /\ stale' = stale
    BY ZenonT(30), <1>1 DEF Quiet
  <2> QED
    BY ZenonT(30), <1>0, <2>1 DEF LostExact, PathInv
<1>2. ASSUME NEW r \in Rsp, CfgRsp(r) PROVE LostExact'
  <2> DEFINE t == r.t
             n == r.nd
             b == Bcnt(n, r.scnt)
             a == Old(r)
             c == New(r)
  <2>1. /\ t \in Mac /\ n \in Nd /\ b \in Nat
        /\ a \in Ifs /\ Packed(a) /\ c \in Ifs
        /\ t \notin tgts => Nds(a) = {} /\ \A i \in Slot : a[i].nd = None
        /\ t \in tgts => a = ifs[t]
        /\ TooMany(a, n) => t \in tgts /\ c = a
        /\ ifs' = [ifs EXCEPT ![t] = c] /\ tgts' = tgts \cup {t}
    BY ZenonT(30), <1>2, CfgRspIs
  <2>2. \A u \in Mac : ifs'[u] = IF u = t THEN c ELSE ifs[u]
    BY ZenonT(30), <1>h, <2>1
  <2>3. CASE TooMany(a, n)
    <3>1. unanswered' = unanswered /\ stale' = stale
      BY ZenonT(30), <1>2, <2>3, CfgRspHist
    <3>2. tgts' = tgts /\ \A u \in tgts : ifs'[u] = ifs[u]
      BY ZenonT(30), <1>h, <2>1, <2>2, <2>3
    <3>3. \A u \in tgts' : Right(u, ifs'[u], unanswered', stale')
      BY <1>0, <3>1, <3>2
    <3> QED
      BY ZenonT(30), <1>r, <3>3
  <2>4. CASE ~TooMany(a, n) /\ n \in Nds(a)
    <3>1. unanswered' = unanswered /\ stale' = stale
      BY ZenonT(30), <1>2, <2>4, CfgRspHist
    <3>2. \A i \in Slot : c[i].nd = a[i].nd /\ c[i].lost = a[i].lost
      <4>1. c = Setif(a, n, b)
        BY ZenonT(30) DEF New
      <4> HIDE DEF a, n, b, c
      <4>2. \A i \in Slot : /\ Setif(a, n, b)[i].nd = a[i].nd
                            /\ Setif(a, n, b)[i].lost = a[i].lost
        BY ZenonT(30), <2>1, <2>4, SetifIs
      <4> QED
        BY <4>1, <4>2
    <3>3. t \in tgts /\ a = ifs[t] /\ tgts' = tgts
      BY ZenonT(30), <2>1, <2>4
    <3> HIDE DEF t, n, b, a, c
    <3>4. ASSUME NEW u \in tgts, NEW i \in Slot
          PROVE  ifs'[u][i].nd = ifs[u][i].nd /\ ifs'[u][i].lost = ifs[u][i].lost
      <4>1. CASE u = t
        BY ZenonT(30), <2>1, <2>2, <3>2, <3>3, <4>1
      <4>2. CASE u # t
        BY ZenonT(30), <1>h, <2>2, <4>2
      <4> QED
        BY <4>1, <4>2
    <3>5. \A u \in tgts' : Right(u, ifs'[u], unanswered', stale')
      BY <1>0, <3>1, <3>3, <3>4
    <3> QED
      BY ZenonT(30), <1>r, <3>5
  <2>5. CASE ~TooMany(a, n) /\ n \notin Nds(a)
    <3>1. /\ unanswered' = Put(t, n, 0)
          /\ stale' = IF \E i \in Getif(c, n) : c[i].lost > 0
                      THEN stale \cup {<<t, n>>} ELSE stale
      BY ZenonT(30), <1>2, <2>5, CfgRspHist DEF Put
    <3>2. \A i \in Slot : c[i].nd # n => c[i] = a[i]
      <4>1. c = Setif(a, n, b)
        BY ZenonT(30) DEF New
      <4> HIDE DEF a, n, b, c
      <4>2. \A i \in Slot : /\ Setif(a, n, b)[i].nd = n => Setif(a, n, b)[i].bcnt = b
                            /\ Setif(a, n, b)[i].nd # n => Setif(a, n, b)[i] = a[i]
        BY ZenonT(30), <2>1, <2>5, SetifIs
      <4> QED
        BY <4>1, <4>2
    <3>3. /\ unanswered'[t][n] = 0
          /\ \A u \in Mac, m \in Nd : u # t \/ m # n => unanswered'[u][m] = unanswered[u][m]
      <4> HIDE DEF t, n, a, b, c
      <4>1. 0 \in Nat
        OBVIOUS
      <4>2. HistType
        BY <1>0
      <4>3. OnlyPut(Put(t, n, 0), t, n, 0)
        BY ZenonT(30), <2>1, <4>1, <4>2, HistSet
      <4> QED
        BY ZenonT(30), <3>1, <4>3 DEF OnlyPut
    <3>4. stale \subseteq stale' /\ \A i \in Slot : c[i].nd = n /\ c[i].lost > 0 => <<t, n>> \in stale'
      BY ZenonT(30), <3>1 DEF Getif
    <3> HIDE DEF t, n, b, a, c
    <3>5. ASSUME NEW i \in Slot, c[i].nd # None, <<t, c[i].nd>> \notin stale'
          PROVE  c[i].lost = unanswered'[t][c[i].nd]
      <4>1. CASE c[i].nd = n
        <5>1. c[i].lost \in Nat
          BY <2>1 DEF Ifs, IfRec
        <5>2. ~(c[i].lost > 0)
          BY ZenonT(30), <3>4, <3>5, <4>1
        <5>3. c[i].lost = 0
          BY <5>1, <5>2
        <5> QED
          BY ZenonT(30), <3>3, <4>1, <5>3
      <4>2. CASE c[i].nd # n
        <5>1. c[i] = a[i] /\ t \in tgts /\ a = ifs[t]
          BY ZenonT(30), <2>1, <3>2, <3>5, <4>2
        <5>2. ifs[t][i].nd \in Nd /\ <<t, ifs[t][i].nd>> \notin stale /\ ifs[t][i].nd # None
          BY ZenonT(30), <1>h, <1>t, <3>4, <3>5, <5>1
        <5>3. ifs[t][i].lost = unanswered[t][ifs[t][i].nd]
          BY ZenonT(30), <1>0, <5>1, <5>2
        <5> QED
          BY ZenonT(30), <2>1, <3>3, <4>2, <5>1, <5>2, <5>3
      <4> QED
        BY <4>1, <4>2
    <3>6. ASSUME NEW u \in tgts, u # t PROVE Right(u, ifs'[u], unanswered', stale')
      <4>1. ifs'[u] = ifs[u] /\ u \in Mac
        BY ZenonT(30), <1>h, <2>2, <3>6
      <4>2. ASSUME NEW i \in Slot, ifs[u][i].nd # None, <<u, ifs[u][i].nd>> \notin stale'
            PROVE  ifs[u][i].lost = unanswered'[u][ifs[u][i].nd]
        <5>1. ifs[u][i].lost = unanswered[u][ifs[u][i].nd]
          BY ZenonT(30), <1>0, <3>4, <4>2
        <5>2. unanswered'[u][ifs[u][i].nd] = unanswered[u][ifs[u][i].nd]
          BY ZenonT(30), <1>t, <3>3, <3>6, <4>1, <4>2
        <5> QED
          BY ZenonT(30), <5>1, <5>2
      <4> QED
        BY ZenonT(30), <4>1, <4>2
    <3>7. Right(t, ifs'[t], unanswered', stale')
      BY ZenonT(30), <2>1, <2>2, <3>5
    <3>8. \A u \in tgts' : Right(u, ifs'[u], unanswered', stale')
      BY ZenonT(30), <2>1, <3>6, <3>7
    <3> QED
      BY ZenonT(30), <1>r, <3>8
  <2> QED
    BY <2>3, <2>4, <2>5
<1>3. ASSUME NEW f \in Frame, NEW good \in BOOLEAN, KtioComplete(f, good)
      PROVE  LostExact'
  <2> DEFINE t == ft[f]
             n == fdev[f]
  <2>1. /\ t \in tgts /\ t \in Mac /\ n \in Nd
        /\ \A u \in Mac : u # t => ifs'[u] = ifs[u]
    BY ZenonT(30), <1>3, KtioIs
  <2>2. \A i \in Slot :
          /\ ifs'[t][i].nd = ifs[t][i].nd /\ ifs'[t][i].bcnt = ifs[t][i].bcnt
          /\ ~(good /\ ifs[t][i].nd = n) => ifs'[t][i] = ifs[t][i]
          /\ good /\ ifs[t][i].nd = n => ifs'[t][i].lost = 0
    BY ZenonT(30), <1>3, KtioIs
  <2>3. tgts' = tgts
    BY ZenonT(30), <1>3 DEF KtioComplete
  <2>4. /\ unanswered' = IF good THEN Put(t, n, 0) ELSE unanswered
        /\ stale' = IF good THEN stale \ {<<t, n>>} ELSE stale
    BY ZenonT(30), <1>3 DEF KtioComplete, Put
  <2> HIDE DEF t, n
  <2>5. CASE ~good
    <3>1. \A u \in tgts, i \in Slot : ifs'[u][i] = ifs[u][i]
      BY ZenonT(30), <1>h, <2>1, <2>2, <2>5
    <3>2. \A u \in tgts' : Right(u, ifs'[u], unanswered', stale')
      BY <1>0, <2>3, <2>4, <2>5, <3>1
    <3> QED
      BY ZenonT(30), <1>r, <3>2
  <2>6. CASE good
    <3>1. /\ unanswered'[t][n] = 0
          /\ \A u \in Mac, m \in Nd : u # t \/ m # n => unanswered'[u][m] = unanswered[u][m]
      <4>1. HistType /\ 0 \in Nat
        BY <1>0
      <4>2. OnlyPut(Put(t, n, 0), t, n, 0)
        BY ZenonT(30), <2>1, <4>1, HistSet
      <4> QED
        BY ZenonT(30), <2>4, <2>6, <4>2 DEF OnlyPut
    <3>2. \A u \in tgts, m \in Nd : <<u, m>> \notin stale' =>
            <<u, m>> \notin stale \/ (u = t /\ m = n)
      BY <2>4, <2>6
    <3>3. ASSUME NEW u \in tgts, NEW i \in Slot, ifs'[u][i].nd # None,
                 <<u, ifs'[u][i].nd>> \notin stale'
          PROVE  ifs'[u][i].lost = unanswered'[u][ifs'[u][i].nd]
      <4>1. ifs'[u][i].nd = ifs[u][i].nd /\ ifs[u][i].nd \in Nd /\ u \in Mac
        BY ZenonT(30), <1>h, <1>t, <2>1, <2>2, <3>3
      <4>2. CASE u = t /\ ifs[u][i].nd = n
        BY ZenonT(30), <2>2, <2>6, <3>1, <4>1, <4>2
      <4>3. CASE ~(u = t /\ ifs[u][i].nd = n)
        <5>1. ifs'[u][i] = ifs[u][i]
          BY ZenonT(30), <2>1, <2>2, <4>1, <4>3
        <5>2. <<u, ifs[u][i].nd>> \notin stale
          BY ZenonT(30), <3>2, <3>3, <4>1, <4>3
        <5>3. ifs[u][i].lost = unanswered[u][ifs[u][i].nd]
          BY ZenonT(30), <1>0, <3>3, <4>1, <5>2
        <5>4. unanswered'[u][ifs[u][i].nd] = unanswered[u][ifs[u][i].nd]
          BY ZenonT(30), <3>1, <4>1, <4>3
        <5> QED
          BY ZenonT(30), <4>1, <5>1, <5>3, <5>4
      <4> QED
        BY <4>2, <4>3
    <3>4. \A u \in tgts' : Right(u, ifs'[u], unanswered', stale')
      BY ZenonT(30), <2>3, <3>3
    <3> QED
      BY ZenonT(30), <1>r, <3>4
  <2> QED
    BY <2>5, <2>6
<1>4. ASSUME NEW f \in Frame, TimerDefer(f) PROVE LostExact'
  <2> DEFINE t == ft[f]
  <2>1. t \in tgts /\ t \in Mac /\ tgts' = tgts
    BY ZenonT(30), <1>4, DeferIs
  <2>d. \/ UNCHANGED <<ifs, held, unanswered, stale>>
        \/ \E k \in Slot : ifs[t][k].nd \in Nd /\ Counts(t, k)
        \/ \E k \in Slot : ifs[t][k].nd \in Nd /\ Ejects(t, k)
    BY ZenonT(30), <1>4, DeferIs
  <2> HIDE DEF t
  <2>2. CASE UNCHANGED <<ifs, held, unanswered, stale>>
    <3>1. \A u \in tgts' : Right(u, ifs'[u], unanswered', stale')
      BY ZenonT(30), <1>0, <2>1, <2>2
    <3> QED
      BY ZenonT(30), <1>r, <3>1
  <2>3. ASSUME NEW k \in Slot, ifs[t][k].nd \in Nd, Counts(t, k) PROVE LostExact'
    <3> DEFINE n == ifs[t][k].nd
    <3>1. /\ \A u \in Mac : u # t => ifs'[u] = ifs[u]
          /\ \A i \in Slot : ifs'[t][i].nd = ifs[t][i].nd
          /\ \A i \in Slot : i # k => ifs'[t][i] = ifs[t][i]
          /\ ifs'[t][k].lost = ifs[t][k].lost + 1
      BY ZenonT(30), <2>1, <2>3, CountsIs
    <3>2. unanswered' = Put(t, n, unanswered[t][n] + 1) /\ stale' = stale
      BY ZenonT(30), <2>3 DEF Counts, Put
    <3>3. \A j \in Slot : j # k => ifs[t][j].nd # n
      <4>1. Packed(ifs[t]) /\ None \notin Nd
        BY ZenonT(30), <2>1, PathAssumption DEF PathInv, SlotsInv
      <4> QED
        BY <2>3, <4>1 DEF Packed, Slot
    <3>4. n \in Nd
      BY <2>3
    <3>5. /\ unanswered'[t][n] = unanswered[t][n] + 1
          /\ \A u \in Mac, m \in Nd : u # t \/ m # n => unanswered'[u][m] = unanswered[u][m]
      <4>1. HistType /\ unanswered[t][n] + 1 \in Nat
        BY <1>0, <2>1, <3>4 DEF HistType
      <4> HIDE DEF n
      <4> DEFINE x == unanswered[t][n] + 1
      <4> HIDE DEF x
      <4>2. OnlyPut(Put(t, n, x), t, n, x)
        BY ZenonT(30), <2>1, <3>4, <4>1, HistSet DEF x
      <4> QED
        BY ZenonT(30), <3>2, <4>2 DEF OnlyPut, x
    <3>6. ASSUME NEW u \in tgts, NEW i \in Slot, ifs'[u][i].nd # None,
                 <<u, ifs'[u][i].nd>> \notin stale
          PROVE  ifs'[u][i].lost = unanswered'[u][ifs'[u][i].nd]
      <4>1. ifs'[u][i].nd = ifs[u][i].nd /\ ifs[u][i].nd \in Nd /\ u \in Mac
        BY ZenonT(30), <1>h, <1>t, <2>1, <3>1, <3>6
      <4>2. ifs[u][i].lost = unanswered[u][ifs[u][i].nd]
        BY ZenonT(30), <1>0, <3>6, <4>1
      <4>3. CASE u = t /\ i = k
        BY ZenonT(30), <3>1, <3>5, <4>1, <4>2, <4>3
      <4>4. CASE ~(u = t /\ i = k)
        <5>1. ifs'[u][i] = ifs[u][i]
          BY ZenonT(30), <3>1, <4>1, <4>4
        <5>2. u # t \/ ifs[u][i].nd # n
          BY ZenonT(30), <3>3, <4>4
        <5> HIDE DEF n
        <5>3. unanswered'[u][ifs[u][i].nd] = unanswered[u][ifs[u][i].nd]
          BY ZenonT(30), <3>5, <4>1, <5>2
        <5> QED
          BY ZenonT(30), <4>1, <4>2, <5>1, <5>3
      <4> QED
        BY <4>3, <4>4
    <3>7. \A u \in tgts' : Right(u, ifs'[u], unanswered', stale')
      BY ZenonT(30), <2>1, <3>2, <3>6
    <3> QED
      BY ZenonT(30), <1>r, <3>7
  <2>4. ASSUME NEW k \in Slot, ifs[t][k].nd \in Nd, Ejects(t, k) PROVE LostExact'
    <3> DEFINE n == ifs[t][k].nd
    <3>1. (\A u \in Mac : u # t => ifs'[u] = ifs[u]) /\ EjectsFrom(t, k)
      BY ZenonT(30), <2>1, <2>4, EjectsIs
    <3>2. unanswered' = Put(t, n, 0) /\ stale' = stale \ {<<t, n>>}
      BY ZenonT(30), <2>4 DEF Ejects, Put
    <3>3. \A u \in Mac, m \in Nd : u # t \/ m # n => unanswered'[u][m] = unanswered[u][m]
      <4>1. HistType /\ 0 \in Nat /\ n \in Nd
        BY <1>0, <2>4
      <4> HIDE DEF n
      <4>2. OnlyPut(Put(t, n, 0), t, n, 0)
        BY ZenonT(30), <2>1, <4>1, HistSet
      <4> QED
        BY ZenonT(30), <3>2, <4>2 DEF OnlyPut
    <3>4. \A u \in tgts, m \in Nd : <<u, m>> \notin stale' /\ (u # t \/ m # n) =>
            <<u, m>> \notin stale
      <4> HIDE DEF n
      <4> QED
        BY <3>2
    <3>5. ASSUME NEW u \in tgts, NEW i \in Slot, ifs'[u][i].nd # None,
                 <<u, ifs'[u][i].nd>> \notin stale'
          PROVE  ifs'[u][i].lost = unanswered'[u][ifs'[u][i].nd]
      <4>1. PICK j \in Slot : ifs'[u][i] = ifs[u][j] /\ (u = t => ifs[u][j].nd # n)
        <5>1. CASE u = t
          <6>1. ifs'[t][i].nd # None
            BY ZenonT(30), <3>5, <5>1
          <6> QED
            BY ZenonT(30), <3>1, <5>1, <6>1 DEF EjectsFrom
        <5>2. CASE u # t
          BY ZenonT(30), <1>h, <3>1, <5>2
        <5> QED
          BY <5>1, <5>2
      <4> HIDE DEF n
      <4>2. ifs[u][j].nd # None /\ ifs[u][j].nd \in Nd /\ u \in Mac
        BY ZenonT(30), <1>h, <1>t, <3>5, <4>1
      <4>3. <<u, ifs[u][j].nd>> \notin stale
        BY ZenonT(30), <3>4, <3>5, <4>1, <4>2
      <4>4. ifs[u][j].lost = unanswered[u][ifs[u][j].nd]
        BY ZenonT(30), <1>0, <4>2, <4>3
      <4>5. unanswered'[u][ifs[u][j].nd] = unanswered[u][ifs[u][j].nd]
        BY ZenonT(30), <3>3, <4>1, <4>2
      <4> QED
        BY ZenonT(30), <4>1, <4>4, <4>5
    <3>6. \A u \in tgts' : Right(u, ifs'[u], unanswered', stale')
      BY ZenonT(30), <2>1, <3>5
    <3> QED
      BY ZenonT(30), <1>r, <3>6
  <2> QED
    BY ZenonT(30), <2>d, <2>2, <2>3, <2>4
<1>5. CASE Flush
  BY ZenonT(30), <1>5, FlushIs DEF LostExact
<1> QED
  BY ZenonT(30), <1>1, <1>2, <1>3, <1>4, <1>5, NextCases

\* A frame that leaves has the target and an interface of it.
LEMMA LeaveIs ==
    ASSUME FrameType, NEW f \in Frame, NEW t \in Mac, NEW a \in [Mac -> Ifs],
           NEW p \in [Mac -> Slot], a[t][1].nd # None, Leave(f, t, a, p)
    PROVE  /\ place' \in [Frame -> Placed]
           /\ ft' \in [Frame -> Mac \cup {None}] /\ fdev' \in [Frame -> Nd \cup {None}]
           /\ ifp' \in [Mac -> Slot]
           /\ place'[f] = "active" /\ ft'[f] = t /\ fdev'[f] \in Nd
           /\ \A g \in Frame : g # f =>
                place'[g] = place[g] /\ ft'[g] = ft[g] /\ fdev'[g] = fdev[g]
<1> DEFINE i == Rotate(a[t], p[t])
<1>1. i \in Slot /\ a[t][i].nd \in Nd
  <2>1. a[t] \in Ifs /\ p[t] \in Slot
    BY ZenonT(30)
  <2> QED
    BY ZenonT(30), <2>1, RotateIs
<1>2. /\ place' = [place EXCEPT ![f] = "active"] /\ ft' = [ft EXCEPT ![f] = t]
      /\ fdev' = [fdev EXCEPT ![f] = a[t][i].nd] /\ ifp' = [p EXCEPT ![t] = i]
  BY ZenonT(30) DEF Leave
<1> HIDE DEF i
<1>3. "active" \in Placed
  BY DEF Placed
<1> QED
  BY ZenonT(30), <1>1, <1>2, <1>3 DEF FrameType

\* What a frame needs in its place.
FrameOk(f) ==
    /\ place[f] # "free" => ft[f] \in tgts
    /\ place[f] \in {"active", "flist", "ktio"} => fdev[f] \in Nd

\* A frame that leaves is as it must be, and so are the others.
LEMMA LeaveOk ==
    ASSUME FrameType, FramesInv, tgts \subseteq tgts', tgts' \subseteq Mac,
           NEW f \in Frame, NEW t \in tgts', NEW a \in [Mac -> Ifs],
           NEW p \in [Mac -> Slot], a[t][1].nd # None, Leave(f, t, a, p)
    PROVE  \A g \in Frame : FrameOk(g)'
<1>1. /\ place'[f] = "active" /\ ft'[f] = t /\ fdev'[f] \in Nd
      /\ \A g \in Frame : g # f =>
           place'[g] = place[g] /\ ft'[g] = ft[g] /\ fdev'[g] = fdev[g]
  BY ZenonT(30), LeaveIs
<1>2. \A g \in Frame : FrameOk(g)
  BY ZenonT(30) DEF FramesInv, FrameOk
<1> QED
  BY ZenonT(30), <1>1, <1>2 DEF FrameOk

\* reassign_frame leaves the position of the target in its slots.
LEMMA OwnRotatedIs ==
    ASSUME TgtType, FrameType, NEW t \in Mac, NEW p \in OwnRotated(t)
    PROVE  p \in [Mac -> Slot]
<1>1. ifs[t] \in Ifs /\ ifp[t] \in Slot /\ ifp \in [Mac -> Slot]
  BY ZenonT(30) DEF TgtType, FrameType
<1>2. Rotate(ifs[t], ifp[t]) \in Slot
  BY ZenonT(30), <1>1, RotateIs
<1> QED
  BY ZenonT(30), <1>1, <1>2 DEF OwnRotated

\* The frames keep their types, and every frame has what its place needs.
LEMMA FramesStep ==
    ASSUME PathInv, [Next]_vars, TgtType', SlotsInv'
    PROVE  FrameType' /\ FramesInv'
<1>0. TgtType /\ FrameType /\ FramesInv /\ SlotsInv
  BY ZenonT(30) DEF PathInv
<1>p. /\ place \in [Frame -> Placed] /\ ft \in [Frame -> Mac \cup {None}]
      /\ fdev \in [Frame -> Nd \cup {None}]
      /\ lock \in {"free", "flist", "rexmit"} /\ todo \subseteq Frame
      /\ ifp \in [Mac -> Slot] /\ tgts \subseteq Mac /\ ifs \in [Mac -> Ifs]
  BY ZenonT(30), <1>0 DEF FrameType, TgtType
<1>o. /\ \A g \in Frame : FrameOk(g)
      /\ \A g \in todo : lock = "rexmit" /\ place[g] = "rexmitq"
  BY ZenonT(30), <1>0 DEF FramesInv, FrameOk
<1>i. ASSUME \A g \in Frame : FrameOk(g)',
             \A g \in todo' : lock' = "rexmit" /\ place'[g] = "rexmitq"
      PROVE  FramesInv'
  BY ZenonT(30), <1>i DEF FramesInv, FrameOk
<1>l. lock # "rexmit" => todo = {}
  BY ZenonT(30), <1>o
<1>1. CASE UNCHANGED vars
  BY ZenonT(30), <1>0, <1>1 DEF vars, tgtVars, frameVars, ctlVars, FrameType, FramesInv
<1>2. ASSUME NEW t \in Mac, Probe(t) PROVE FrameType' /\ FramesInv'
  <2>1. UNCHANGED <<tgts, place, ft, fdev, lock, todo>>
    BY ZenonT(30), <1>2 DEF Probe, frameVars, ctlVars
  <2>2. ifp' \in OwnRotated(t)
    BY ZenonT(30), <1>2 DEF Probe, OwnRotated
  <2>3. ifp' \in [Mac -> Slot]
    BY ZenonT(30), <1>0, <2>2, OwnRotatedIs
  <2> QED
    BY ZenonT(30), <1>0, <2>1, <2>3 DEF FrameType, FramesInv
<1>q. ASSUME NEW f \in Frame, NEW t \in tgts', NEW a \in [Mac -> Ifs],
             NEW p \in [Mac -> Slot], a[t][1].nd # None, Leave(f, t, a, p),
             tgts \subseteq tgts', lock' = lock, todo' \subseteq todo, f \notin todo'
      PROVE  FrameType' /\ FramesInv'
  <2>1. tgts' \subseteq Mac /\ t \in Mac
    BY ZenonT(30) DEF TgtType
  <2>2. /\ place' \in [Frame -> Placed]
        /\ ft' \in [Frame -> Mac \cup {None}] /\ fdev' \in [Frame -> Nd \cup {None}]
        /\ ifp' \in [Mac -> Slot]
        /\ \A g \in Frame : g # f => place'[g] = place[g]
    BY ZenonT(30), <1>0, <1>q, <2>1, LeaveIs
  <2>3. \A g \in Frame : FrameOk(g)'
    BY ZenonT(30), <1>0, <1>q, <2>1, LeaveOk
  <2>4. \A g \in todo' : lock' = "rexmit" /\ place'[g] = "rexmitq"
    BY ZenonT(30), <1>o, <1>p, <1>q, <2>2
  <2>5. FramesInv'
    BY ZenonT(30), <1>i, <2>3, <2>4
  <2>6. lock' \in {"free", "flist", "rexmit"} /\ todo' \subseteq Frame
    BY ZenonT(30), <1>p, <1>q
  <2> QED
    BY ZenonT(30), <2>2, <2>5, <2>6 DEF FrameType
<1>3. ASSUME NEW t \in Mac, NEW f \in Frame, Send(f, t)
      PROVE  FrameType' /\ FramesInv'
  <2>1. /\ t \in tgts' /\ tgts' = tgts /\ lock' = lock /\ todo' = todo
        /\ lock = "free" /\ Leave(f, t, ifs, ifp)
    BY ZenonT(30), <1>3 DEF Send, Newframe, ctlVars
  <2>2. ifs[t][1].nd # None
    BY ZenonT(30), <1>0, <2>1 DEF SlotsInv
  <2>3. f \notin todo'
    BY <1>l, <2>1
  <2> QED
    BY ZenonT(30), <1>p, <1>q, <2>1, <2>2, <2>3
<1>4. ASSUME NEW u \in Mac, NEW f \in Frame, RexmitReassign(f, u)
      PROVE  FrameType' /\ FramesInv'
  <2> DEFINE p == [ifp EXCEPT ![u] = Rotate(ifs[u], @)]
  <2>1. /\ u \in tgts' /\ tgts' = tgts /\ lock' = lock /\ todo' = todo \ {f}
        /\ Leave(f, u, ifs, p)
    BY ZenonT(30), <1>4 DEF RexmitReassign
  <2>2. ifs[u][1].nd # None
    BY ZenonT(30), <1>0, <2>1 DEF SlotsInv
  <2>3. p \in OwnRotated(u)
    BY ZenonT(30) DEF OwnRotated
  <2> HIDE DEF p
  <2>4. p \in [Mac -> Slot]
    BY ZenonT(30), <1>0, <2>3, OwnRotatedIs
  <2>5. tgts \subseteq tgts' /\ todo' \subseteq todo /\ f \notin todo'
    BY ZenonT(30), <2>1
  <2> QED
    BY ZenonT(30), <1>p, <1>q, <2>1, <2>2, <2>4, <2>5
<1>5. ASSUME NEW f \in Frame, RexmitResend(f) PROVE FrameType' /\ FramesInv'
  <2>1. /\ f \in todo /\ tgts' = tgts /\ lock' = lock /\ todo' = todo \ {f}
        /\ \E p \in OwnRotated(ft[f]) : Leave(f, ft[f], ifs, p)
    BY ZenonT(30), <1>5 DEF RexmitResend
  <2>2. PICK p \in OwnRotated(ft[f]) : Leave(f, ft[f], ifs, p)
    BY <2>1
  <2>3. ft[f] \in tgts
    <3>1. place[f] # "free"
      BY <1>o, <2>1
    <3> QED
      BY ZenonT(30), <1>o, <3>1 DEF FrameOk
  <2>4. ft[f] \in Mac /\ ifs[ft[f]][1].nd # None
    BY ZenonT(30), <1>0, <1>p, <2>3 DEF SlotsInv
  <2>5. p \in [Mac -> Slot]
    BY ZenonT(30), <1>0, <2>2, <2>4, OwnRotatedIs
  <2>6. ft[f] \in tgts' /\ tgts \subseteq tgts' /\ todo' \subseteq todo /\ f \notin todo'
    BY ZenonT(30), <2>1, <2>3
  <2> QED
    BY ZenonT(30), <1>p, <1>q, <2>1, <2>2, <2>4, <2>5, <2>6
<1>6. ASSUME NEW f \in Frame, RexmitDefer(f) PROVE FrameType' /\ FramesInv'
  <2>1. /\ f \in todo /\ UNCHANGED <<tgts, place, ft, fdev, lock>>
        /\ todo' \subseteq todo /\ ifp' \in OwnRotated(ft[f])
    BY ZenonT(30), <1>6 DEF RexmitDefer, frameVars
  <2>2. ft[f] \in Mac
    <3>1. place[f] # "free"
      BY <1>o, <2>1
    <3> QED
      BY ZenonT(30), <1>o, <1>p, <3>1 DEF FrameOk
  <2>3. ifp' \in [Mac -> Slot]
    BY ZenonT(30), <1>0, <2>1, <2>2, OwnRotatedIs
  <2> QED
    BY ZenonT(30), <1>0, <2>1, <2>3 DEF FrameType, FramesInv
<1>7. ASSUME NEW r \in Rsp, CfgRsp(r) PROVE FrameType' /\ FramesInv'
  <2> DEFINE p == IF r.t \in tgts THEN ifp ELSE [ifp EXCEPT ![r.t] = 1]
  <2>1. /\ r.t \in Mac /\ tgts' = tgts \cup {r.t}
        /\ ifs' = [ifs EXCEPT ![r.t] = New(r)]
    BY ZenonT(30), <1>7, CfgRspIs
  <2>2. p \in [Mac -> Slot]
    <3>1. NAoeIfs \in Nat /\ NAoeIfs >= 2
      BY ZenonT(30), PathAssumption
    <3>2. 1 \in Slot
      BY <3>1 DEF Slot
    <3> QED
      BY ZenonT(30), <1>p, <2>1, <3>2
  <2>3. /\ lock = "free" /\ lock' = lock /\ todo' = todo
        /\ \/ ifp' = p /\ UNCHANGED <<place, ft, fdev>>
           \/ \E f \in Frame, u \in tgts \cup {r.t} : Leave(f, u, [ifs EXCEPT ![r.t] = New(r)], p)
    BY ZenonT(30), <1>7 DEF CfgRsp, Newframe, Old, New, ctlVars, frameVars
  <2> HIDE DEF p
  <2>4. CASE ifp' = p /\ UNCHANGED <<place, ft, fdev>>
    <3>1. \A g \in Frame : FrameOk(g)'
      BY ZenonT(30), <1>o, <2>1, <2>4 DEF FrameOk
    <3>2. FramesInv'
      BY ZenonT(30), <1>i, <1>o, <2>3, <2>4, <3>1
    <3> QED
      BY ZenonT(30), <1>p, <2>2, <2>3, <2>4, <3>2 DEF FrameType
  <2>5. ASSUME NEW f \in Frame, NEW u \in tgts', Leave(f, u, ifs', p)
        PROVE  FrameType' /\ FramesInv'
    <3>1. ifs' \in [Mac -> Ifs] /\ ifs'[u][1].nd # None
      BY ZenonT(30) DEF TgtType, SlotsInv
    <3>2. tgts \subseteq tgts' /\ todo' \subseteq todo
      BY ZenonT(30), <2>1, <2>3
    <3>3. f \notin todo'
      BY <1>l, <2>3
    <3> DEFINE a == ifs'
    <3>4. a \in [Mac -> Ifs] /\ a[u][1].nd # None /\ Leave(f, u, a, p)
      BY ZenonT(30), <2>5, <3>1
    <3> HIDE DEF a
    <3> QED
      BY ZenonT(30), <1>q, <2>2, <2>3, <3>2, <3>3, <3>4
  <2> QED
    BY ZenonT(30), <2>1, <2>3, <2>4, <2>5
<1>s. ASSUME UNCHANGED <<tgts, ifp>>, place' \in [Frame -> Placed],
             ft' \in [Frame -> Mac \cup {None}], fdev' \in [Frame -> Nd \cup {None}],
             lock' \in {"free", "flist", "rexmit"}, todo' \subseteq Frame,
             \A g \in Frame : FrameOk(g)',
             \A g \in todo' : lock' = "rexmit" /\ place'[g] = "rexmitq"
      PROVE  FrameType' /\ FramesInv'
  BY ZenonT(30), <1>i, <1>p, <1>s DEF FrameType
<1>c. {"free", "ktio", "rexmitq", "flist"} \subseteq Placed
  BY DEF Placed
<1>8. ASSUME NEW f \in Frame, NEW n \in Nd, AtaRsp(f, n) PROVE FrameType' /\ FramesInv'
  <2>1. /\ UNCHANGED <<tgts, ifp, ft>>
        /\ place' = [place EXCEPT ![f] = "ktio"] /\ fdev' = [fdev EXCEPT ![f] = n]
        /\ lock' = "rexmit" /\ todo' = {g \in Frame : place[g] = "rexmitq"} \ {f}
        /\ place[f] \in {"active", "rexmitq"}
    BY ZenonT(30), <1>8 DEF AtaRsp, tgtVars, On
  <2>2. place' \in [Frame -> Placed] /\ fdev' \in [Frame -> Nd \cup {None}]
    BY ZenonT(30), <1>c, <1>p, <2>1
  <2>3. /\ place'[f] = "ktio" /\ fdev'[f] \in Nd /\ ft[f] \in tgts
        /\ \A g \in Frame : g # f => place'[g] = place[g] /\ fdev'[g] = fdev[g]
    <3>1. place[f] # "free"
      BY <2>1
    <3> QED
      BY ZenonT(30), <1>o, <1>p, <2>1, <3>1 DEF FrameOk
  <2>4. \A g \in Frame : FrameOk(g)'
    BY ZenonT(30), <1>o, <2>1, <2>3 DEF FrameOk
  <2>5. \A g \in todo' : lock' = "rexmit" /\ place'[g] = "rexmitq"
    BY ZenonT(30), <2>1, <2>3
  <2> QED
    BY ZenonT(30), <1>p, <1>s, <2>1, <2>2, <2>4, <2>5
<1>9. ASSUME NEW f \in Frame, NEW good \in BOOLEAN, KtioComplete(f, good)
      PROVE  FrameType' /\ FramesInv'
  <2>1. /\ UNCHANGED <<tgts, ifp, lock, todo>> /\ lock = "free"
        /\ place' = [place EXCEPT ![f] = "free"]
        /\ ft' = [ft EXCEPT ![f] = None] /\ fdev' = [fdev EXCEPT ![f] = None]
    BY ZenonT(30), <1>9 DEF KtioComplete, ctlVars
  <2>2. /\ place' \in [Frame -> Placed] /\ ft' \in [Frame -> Mac \cup {None}]
        /\ fdev' \in [Frame -> Nd \cup {None}]
    BY ZenonT(30), <1>c, <1>p, <2>1
  <2>3. /\ place'[f] = "free"
        /\ \A g \in Frame : g # f =>
             place'[g] = place[g] /\ ft'[g] = ft[g] /\ fdev'[g] = fdev[g]
    BY ZenonT(30), <1>p, <2>1
  <2>4. ASSUME NEW g \in Frame PROVE FrameOk(g)'
    <3>1. CASE g = f
      BY <2>3, <3>1 DEF FrameOk
    <3>2. CASE g # f
      <4>1. place'[g] = place[g] /\ ft'[g] = ft[g] /\ fdev'[g] = fdev[g] /\ tgts' = tgts
        BY ZenonT(30), <2>1, <2>3, <3>2
      <4> QED
        BY ZenonT(30), <1>o, <4>1 DEF FrameOk
    <3> QED
      BY <3>1, <3>2
  <2>5. todo' = {}
    BY <1>l, <2>1
  <2> QED
    BY ZenonT(30), <1>p, <1>s, <2>1, <2>2, <2>4, <2>5
<1>10. ASSUME NEW f \in Frame, TimerDefer(f) PROVE FrameType' /\ FramesInv'
  <2>1. /\ UNCHANGED <<tgts, ifp, ft, lock, todo>> /\ lock = "flist"
        /\ place' = [place EXCEPT ![f] = "rexmitq"] /\ fdev' = [fdev EXCEPT ![f] = None]
        /\ place[f] = "flist"
    BY ZenonT(30), <1>10 DEF TimerDefer, ctlVars
  <2>2. place' \in [Frame -> Placed] /\ fdev' \in [Frame -> Nd \cup {None}]
    BY ZenonT(30), <1>c, <1>p, <2>1
  <2>3. /\ place'[f] = "rexmitq" /\ ft[f] \in tgts
        /\ \A g \in Frame : g # f => place'[g] = place[g] /\ fdev'[g] = fdev[g]
    <3>1. place[f] # "free"
      BY <2>1
    <3> QED
      BY ZenonT(30), <1>o, <1>p, <2>1, <3>1 DEF FrameOk
  <2>4. ASSUME NEW g \in Frame PROVE FrameOk(g)'
    <3>1. CASE g = f
      BY <2>1, <2>3, <3>1 DEF FrameOk
    <3>2. CASE g # f
      BY ZenonT(30), <1>o, <2>1, <2>3, <3>2 DEF FrameOk
    <3> QED
      BY <3>1, <3>2
  <2>5. todo' = {}
    BY <1>l, <2>1
  <2> QED
    BY ZenonT(30), <1>p, <1>s, <2>1, <2>2, <2>4, <2>5
<1>11. ASSUME NEW E \in SUBSET Frame, TimerFires(E) PROVE FrameType' /\ FramesInv'
  <2>1. /\ UNCHANGED <<tgts, ifp, ft, fdev, todo>> /\ lock = "free" /\ lock' = "flist"
        /\ place' = [g \in Frame |-> IF g \in E THEN "flist" ELSE place[g]]
        /\ E \subseteq {g \in Frame : place[g] = "active"}
    BY ZenonT(30), <1>11 DEF TimerFires, tgtVars, On
  <2>2. place' \in [Frame -> Placed]
    BY ZenonT(30), <1>c, <1>p, <2>1
  <2>3. ASSUME NEW g \in Frame PROVE FrameOk(g)'
    <3>1. CASE g \in E
      BY <1>o, <2>1, <3>1 DEF FrameOk
    <3>2. CASE g \notin E
      <4>1. place'[g] = place[g]
        BY ZenonT(30), <2>1, <3>2
      <4> QED
        BY ZenonT(30), <1>o, <2>1, <4>1 DEF FrameOk
    <3> QED
      BY <3>1, <3>2
  <2>4. todo' = {}
    BY <1>l, <2>1
  <2> QED
    BY ZenonT(30), <1>p, <1>s, <2>1, <2>2, <2>3, <2>4
<1>d. ASSUME Downdev
      PROVE  /\ place' \in [Frame -> Placed] /\ ft' \in [Frame -> Mac \cup {None}]
             /\ fdev' \in [Frame -> Nd \cup {None}]
             /\ \A g \in Frame : IF place[g] = "ktio"
                                 THEN place'[g] = place[g] /\ ft'[g] = ft[g] /\ fdev'[g] = fdev[g]
                                 ELSE place'[g] = "free"
  BY ZenonT(30), <1>c, <1>d, <1>p DEF Downdev, Freed
<1>12. CASE TimerDead
  <2>1. Downdev /\ UNCHANGED <<tgts, ifp, todo>> /\ lock = "flist" /\ lock' = "free"
    BY ZenonT(30), <1>12 DEF TimerDead, tgtVars
  <2>2. ASSUME NEW g \in Frame PROVE FrameOk(g)'
    <3>1. CASE place[g] = "ktio"
      BY ZenonT(30), <1>d, <1>o, <2>1, <3>1 DEF FrameOk
    <3>2. CASE place[g] # "ktio"
      <4>1. place'[g] = "free"
        BY ZenonT(30), <1>d, <2>1, <3>2
      <4> QED
        BY <4>1 DEF FrameOk
    <3> QED
      BY <3>1, <3>2
  <2>3. todo' = {}
    BY <1>l, <2>1
  <2> QED
    BY ZenonT(30), <1>d, <1>p, <1>s, <2>1, <2>2, <2>3
<1>13. CASE TimerDeferred
  <2>1. /\ UNCHANGED <<tgts, ifp, place, ft, fdev>> /\ lock' = "rexmit"
        /\ todo' = {g \in Frame : place[g] = "rexmitq"}
    BY ZenonT(30), <1>13 DEF TimerDeferred, tgtVars, frameVars, On
  <2>2. \A g \in Frame : FrameOk(g)'
    BY ZenonT(30), <1>o, <2>1 DEF FrameOk
  <2> QED
    BY ZenonT(30), <1>p, <1>s, <2>1, <2>2
<1>14. CASE RexmitDone
  <2>1. UNCHANGED <<tgts, ifp, place, ft, fdev>> /\ lock' = "free" /\ todo' = {}
    BY ZenonT(30), <1>14 DEF RexmitDone, tgtVars, frameVars
  <2>2. \A g \in Frame : FrameOk(g)'
    BY ZenonT(30), <1>o, <2>1 DEF FrameOk
  <2> QED
    BY ZenonT(30), <1>p, <1>s, <2>1, <2>2
<1>15. CASE Cleanslate
  <2>1. UNCHANGED <<tgts, ifp, place, ft, fdev, lock, todo>>
    BY ZenonT(30), <1>15 DEF Cleanslate, frameVars, ctlVars
  <2> QED
    BY ZenonT(30), <1>0, <2>1 DEF FrameType, FramesInv
<1>16. CASE Flush
  <2>1. /\ Downdev /\ lock = "free" /\ UNCHANGED <<lock, todo>>
        /\ ifp' = [t \in Mac |-> 1] /\ {g \in Frame : place[g] = "ktio"} = {}
    BY ZenonT(30), <1>16 DEF Flush, ctlVars, On
  <2>2. ASSUME NEW g \in Frame PROVE FrameOk(g)'
    <3>1. place'[g] = "free"
      BY ZenonT(30), <1>d, <2>1
    <3> QED
      BY <3>1 DEF FrameOk
  <2>3. todo' = {}
    BY <1>l, <2>1
  <2>4. FramesInv'
    BY ZenonT(30), <1>i, <2>2, <2>3
  <2>5. NAoeIfs \in Nat /\ NAoeIfs >= 2
    BY ZenonT(30), PathAssumption
  <2>6. ifp' \in [Mac -> Slot]
    BY <2>1, <2>5 DEF Slot
  <2> QED
    BY ZenonT(30), <1>d, <1>p, <2>1, <2>3, <2>4, <2>6 DEF FrameType
<1> QED
  BY ZenonT(30), <1>1, <1>2, <1>3, <1>4, <1>5, <1>6, <1>7, <1>8, <1>9, <1>10, <1>11, <1>12,
     <1>13, <1>14, <1>15, <1>16 DEF Next

----------------------------------------------------------------------------
(* The theorems.                                                           *)

\* A device without targets satisfies the invariant.
LEMMA PathInit == Init => PathInv
<1> SUFFICES ASSUME Init PROVE PathInv
  OBVIOUS
<1>0. NAoeIfs \in Nat /\ NAoeIfs >= 2 /\ AoeMaxout \in Nat
  BY ZenonT(30), PathAssumption
<1>1. EmptyIf \in IfRec /\ EmptyIf.nd = None
  BY DEF EmptyIf, IfRec
<1>2. EmptyIfs \in Ifs /\ \A i \in Slot : EmptyIfs[i].nd = None
  BY ZenonT(30), <1>1 DEF EmptyIfs, Ifs
<1>3. ifs \in [Mac -> Ifs] /\ \A t \in Mac, i \in Slot : ifs[t][i].nd = None
  BY ZenonT(30), <1>2 DEF Init
<1>4. 1 \in Slot /\ 0 \in 0..AoeMaxout /\ 0 \in Nat /\ 0 \in Int
  BY <1>0 DEF Slot
<1>5. tgts = {} /\ maxbcnt = 0 /\ stale = {} /\ todo = {} /\ lock = "free"
  BY ZenonT(30) DEF Init
<1>6. TgtType
  BY ZenonT(30), <1>3, <1>4 DEF Init, TgtType
<1>7. HistType
  BY ZenonT(30), <1>4 DEF Init, HistType
<1>8. FrameType
  <2>1. "free" \in Placed
    BY DEF Placed
  <2> QED
    BY ZenonT(30), <1>4, <2>1 DEF Init, FrameType
<1>9. SlotsInv
  BY ZenonT(30), <1>3, <1>5 DEF SlotsInv, Packed
<1>10. FramesInv
  <2>1. \A f \in Frame : place[f] = "free"
    BY ZenonT(30) DEF Init
  <2> QED
    BY <1>5, <2>1 DEF FramesInv
<1>11. HeldInv
  <2>1. ASSUME NEW n \in Nd PROVE held[n] = Cardinality(Has(n))
    <3>1. held[n] = 0 /\ Has(n) = {}
      BY ZenonT(30), <1>5 DEF Init, Has
    <3> QED
      BY <3>1, FS_EmptySet
  <2> QED
    BY ZenonT(30), <2>1 DEF HeldInv
<1>12. BcntInv /\ LostExact
  BY ZenonT(30), <1>5 DEF BcntInv, LostExact
<1> QED
  BY <1>6, <1>7, <1>8, <1>9, <1>10, <1>11, <1>12 DEF PathInv

\* The invariant holds in every reachable state.
LEMMA PathInvariant == Spec => []PathInv
<1>1. PathInv /\ [Next]_vars => PathInv'
  <2> SUFFICES ASSUME PathInv, [Next]_vars PROVE PathInv'
    OBVIOUS
  <2>1. TgtType' /\ HistType' /\ SlotsInv'
    BY TgtTypeStep, HistTypeStep, SlotsStep
  <2>2. FrameType' /\ FramesInv'
    BY <2>1, FramesStep
  <2>3. HeldInv' /\ BcntInv' /\ LostExact'
    BY HeldStep, BcntStep, LostStep
  <2> QED
    BY ZenonT(30), <2>1, <2>2, <2>3 DEF PathInv
<1> QED
  BY PathInit, <1>1, PTL DEF Spec

\* Every variable keeps its type; the references of the device on an interface
\* never go below zero and a target never expects more frames than aoe_maxout.
THEOREM PathTypes == Spec => []TypeOK
<1>1. PathInv => TypeOK
  <2> SUFFICES ASSUME PathInv PROVE TypeOK
    OBVIOUS
  <2>0. TgtType /\ HistType /\ FrameType /\ FramesInv /\ HeldInv
    BY ZenonT(30) DEF PathInv
  <2>1. held \in [Nd -> Nat]
    <3>1. \A n \in Nd : held[n] \in Nat
      BY ZenonT(30), <2>0, HasFinite DEF HeldInv
    <3>2. held \in [Nd -> Int]
      BY ZenonT(30), <2>0 DEF TgtType
    <3> QED
      BY <3>1, <3>2
  <2>2. todo \subseteq On("rexmitq")
    BY ZenonT(30), <2>0 DEF FramesInv, FrameType, On
  <2> QED
    BY ZenonT(30), <2>0, <2>1, <2>2
    DEF TypeOK, TgtType, HistType, FrameType, Placed, Ifs, IfRec
<1> QED
  BY PathInvariant, <1>1, PTL

\* IfsSound holds for any number of targets, interfaces and slots: setifbcnt and
\* ejectif keep the interfaces of a target packed and different, ejectif never
\* takes the last one, every command that is out has a target and an interface,
\* and the references that freetgt puts are the ones that setifbcnt took.
THEOREM PathsSound == Spec => []IfsSound
<1>1. PathInv => IfsSound
  <2> SUFFICES ASSUME PathInv PROVE IfsSound
    OBVIOUS
  <2>1. \A t \in tgts : /\ ifs[t][1].nd # None
                        /\ \A i, j \in Slot : i < j /\ ifs[t][j].nd # None =>
                             ifs[t][i].nd \notin {None, ifs[t][j].nd}
    BY ZenonT(30) DEF PathInv, TgtType, SlotsInv, Packed
  <2>2. \A f \in On("active") : ft[f] \in tgts /\ fdev[f] # None
    <3>1. None \notin Nd
      BY ZenonT(30), PathAssumption
    <3>2. \A f \in Frame : place[f] = "active" => ft[f] \in tgts /\ fdev[f] \in Nd
      BY DEF PathInv, FramesInv
    <3> QED
      BY ZenonT(30), <3>1, <3>2 DEF On
  <2> QED
    BY ZenonT(30), <2>1, <2>2 DEF PathInv, HeldInv, Has, IfsSound
<1> QED
  BY PathInvariant, <1>1, PTL

\* PathsFit holds for any mtu and announced counts that their fields can carry:
\* the 16-bit arithmetic of aoecmd_cfg_rsp and the minima of setifbcnt and
\* setdbcnt keep a new command within every path that it may be sent through.
THEOREM CommandsFit == Spec => []PathsFit
<1>1. PathInv => PathsFit
  <2> SUFFICES ASSUME PathInv, NEW t \in tgts, NEW i \in Slot, ifs[t][i].nd # None
               PROVE  LET p == ifs[t][i]
                      IN /\ Mtu[p.nd] >= SafeMtu => FrameBytes + HdrLen <= Mtu[p.nd]
                         /\ maxbcnt # 0 => maxbcnt <= p.bcnt
    BY ZenonT(30) DEF PathsFit
  <2> DEFINE p == ifs[t][i]
  <2>0. /\ HdrLen \in Nat /\ DefaultBcnt \in Nat /\ SafeMtu = HdrLen + DefaultBcnt
        /\ HdrLen..(Word - 1) \subseteq Int
    BY DEF HdrLen, DefaultBcnt, SafeMtu, Word
  <2>1. maxbcnt \in Nat /\ minbcnt[t] \in Nat /\ p.nd \in Nd /\ p.bcnt \in Nat
    <3>1. /\ maxbcnt \in Nat /\ minbcnt \in [Mac -> Nat] /\ tgts \subseteq Mac
          /\ ifs \in [Mac -> Ifs]
      BY ZenonT(30) DEF PathInv, TgtType
    <3>2. p \in IfRec
      BY ZenonT(30), <3>1 DEF Ifs
    <3>3. p.nd \in Nd /\ p.bcnt \in Nat
      BY <3>2 DEF IfRec
    <3> QED
      BY ZenonT(30), <3>1, <3>3
  <2>2. Mtu[p.nd] \in Int
    <3>1. Mtu[p.nd] \in HdrLen..(Word - 1)
      BY ZenonT(30), <2>1, RspAssumption
    <3> QED
      BY ZenonT(30), <2>0, <3>1
  <2>3. /\ maxbcnt # 0 => maxbcnt <= minbcnt[t]
        /\ FitsNd(p.nd, p.bcnt) /\ minbcnt[t] <= p.bcnt
    BY ZenonT(30) DEF PathInv, BcntInv
  <2> HIDE DEF p
  <2>4. maxbcnt # 0 => maxbcnt <= p.bcnt
    BY <2>1, <2>3
  <2>5. Mtu[p.nd] >= SafeMtu => FrameBytes + HdrLen <= Mtu[p.nd]
    BY <2>0, <2>1, <2>2, <2>3, <2>4 DEF FrameBytes, FitsNd
  <2> QED
    BY ZenonT(30), <2>4, <2>5 DEF p
<1> QED
  BY PathInvariant, <1>1, PTL

\* LostExact holds for any number of paths: over ejections that move the slots,
\* answers that come back on another interface and config responses, a slot
\* counts the losses of its own interface.
THEOREM LossesExact == Spec => []LostExact
<1>1. PathInv => LostExact
  BY ZenonT(30) DEF PathInv
<1> QED
  BY PathInvariant, <1>1, PTL
============================================================================
