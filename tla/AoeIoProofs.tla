---------------------------- MODULE AoeIoProofs ----------------------------
(***************************************************************************)
(* The I/O engine, for any number of targets, frames, interfaces, requests *)
(* and bios.                                                               *)
(*                                                                         *)
(* The window of a target: the counters nout and nout_probes agree with    *)
(* the frames that are out, and a target is never sent more than one       *)
(* command beyond the cap on its window.                                   *)
(*                                                                         *)
(* Requests, bios and bufs: none is lost, none is ended twice, none is     *)
(* used after its end, and none is reported as good that was not answered  *)
(* in full.  So the engine implements AoeBlk, the block device that its    *)
(* users see.                                                              *)
(***************************************************************************)
EXTENDS AoeIo, FiniteSetTheorems, TLAPS

\* The provers of the leaves that name none, tried in this order.
USE SMTT(60), Z3T(60), ZenonT(30)

----------------------------------------------------------------------------
(* The window.                                                             *)

\* The counts no of all targets are those of the frames S.
NoutOK(no, S) == \A t \in Tgt : no[t] = Cardinality(Of(S, t))

\* The counts np of all targets cover the frames S.
ProbesOK(np, S) == \A t \in Tgt : np[t] >= Cardinality(Of(S, t))

\* The frames that are out when they are placed as in pl.
Busy(pl) == {f \in Frame : pl[f] \in {"active", "flist"}}

\* What is kept about the places of the frames, the probes among them and the
\* two counters.
CountsOK(pl, pb, no, np) ==
    /\ pl \in [Frame -> Place] /\ pb \in SUBSET Frame
    /\ no \in [Tgt -> Nat] /\ np \in [Tgt -> Nat]
    /\ \A f \in pb : pl[f] # "free"
    /\ NoutOK(no, Busy(pl))
    /\ ProbesOK(np, Busy(pl) \cap pb)
    /\ \A t \in Tgt : no[t] <= NFrames + (IF np[t] > 0 THEN 1 ELSE 0)

\* The part of TypeOK that is not in CountsOK.
WindowTypes ==
    /\ maxout \in [Tgt -> 1..NFrames] /\ taint \in [Tgt -> 0..MaxTaint]
    /\ nifs \in [Tgt -> 1..NIf] /\ ifp \in [Tgt -> 1..NIf]
    /\ lock \in Lock /\ todo \subseteq Frame

\* The inductive invariant.
WindowInv ==
    /\ CountsOK(place, probing, nout, nout_probes)
    /\ WindowTypes
    /\ InRexmit => todo \subseteq On("rexmitq")

----------------------------------------------------------------------------

\* One more frame in a set of frames is one more of its own target's.
LEMMA OfAdd ==
    ASSUME NEW S \in SUBSET Frame, NEW f \in Frame, f \notin S, NEW t \in Tgt
    PROVE  /\ Cardinality(Of(S, t)) \in Nat
           /\ Cardinality(Of(S \cup {f}, t)) =
                IF TgtOf[f] = t THEN Cardinality(Of(S, t)) + 1
                                ELSE Cardinality(Of(S, t))
<1>1. IsFiniteSet(Of(S, t))
  <2>1. Of(S, t) \in SUBSET Frame
    BY DEF Of
  <2> QED
    BY <2>1, FS_Subset, IoAssumption
<1>2. Of(S \cup {f}, t) = IF TgtOf[f] = t THEN Of(S, t) \cup {f} ELSE Of(S, t)
  BY DEF Of
<1>3. f \notin Of(S, t)
  BY DEF Of
<1> QED
  BY ZenonT(60), <1>1, <1>2, <1>3, FS_AddElement, FS_CardinalityType

\* A subset of a set of frames has no more frames of any target.
LEMMA OfSubset ==
    ASSUME NEW S \in SUBSET Frame, NEW R \in SUBSET S, NEW t \in Tgt
    PROVE  /\ Cardinality(Of(R, t)) \in Nat
           /\ Cardinality(Of(S, t)) \in Nat
           /\ Cardinality(Of(R, t)) <= Cardinality(Of(S, t))
<1>1. Of(S, t) \in SUBSET Frame /\ Of(R, t) \in SUBSET Of(S, t)
  BY DEF Of
<1>2. IsFiniteSet(Of(S, t))
  BY <1>1, FS_Subset, IoAssumption
<1>3. IsFiniteSet(Of(R, t))
  BY <1>1, <1>2, FS_Subset
<1> QED
  BY <1>1, <1>2, <1>3, FS_Subset, FS_CardinalityType

\* Sending a frame and counting it keeps the counts right.
LEMMA NoutAdd ==
    ASSUME NEW no \in [Tgt -> Nat], NEW S \in SUBSET Frame, NEW f \in Frame,
           f \notin S, NoutOK(no, S)
    PROVE  /\ [no EXCEPT ![TgtOf[f]] = @ + 1] \in [Tgt -> Nat]
           /\ NoutOK([no EXCEPT ![TgtOf[f]] = @ + 1], S \cup {f})
<1>1. TgtOf[f] \in Tgt
  BY IoAssumption
<1>2. ASSUME NEW t \in Tgt
      PROVE  [no EXCEPT ![TgtOf[f]] = @ + 1][t] = Cardinality(Of(S \cup {f}, t))
  BY <1>1, <1>2, OfAdd DEF NoutOK
<1> QED
  BY <1>1, <1>2 DEF NoutOK

\* So does taking a frame back: its target has at least one frame out.
LEMMA NoutDrop ==
    ASSUME NEW no \in [Tgt -> Nat], NEW S \in SUBSET Frame, NEW f \in S,
           NoutOK(no, S)
    PROVE  /\ no[TgtOf[f]] > 0
           /\ [no EXCEPT ![TgtOf[f]] = @ - 1] \in [Tgt -> Nat]
           /\ NoutOK([no EXCEPT ![TgtOf[f]] = @ - 1], S \ {f})
<1>1. TgtOf[f] \in Tgt /\ f \in Frame
  BY IoAssumption
<1>2. (S \ {f}) \in SUBSET Frame /\ (S \ {f}) \cup {f} = S /\ f \notin S \ {f}
  OBVIOUS
<1>3. ASSUME NEW t \in Tgt
      PROVE  /\ Cardinality(Of(S \ {f}, t)) \in Nat
             /\ no[t] = IF TgtOf[f] = t THEN Cardinality(Of(S \ {f}, t)) + 1
                                        ELSE Cardinality(Of(S \ {f}, t))
  <2>1. /\ Cardinality(Of(S \ {f}, t)) \in Nat
        /\ Cardinality(Of((S \ {f}) \cup {f}, t)) =
                IF TgtOf[f] = t THEN Cardinality(Of(S \ {f}, t)) + 1
                                ELSE Cardinality(Of(S \ {f}, t))
    BY <1>1, <1>2, OfAdd
  <2> QED
    BY ZenonT(60), <2>1, <1>2 DEF NoutOK
<1>4. no[TgtOf[f]] > 0
  BY <1>1, <1>3
<1>5. ASSUME NEW t \in Tgt
      PROVE  [no EXCEPT ![TgtOf[f]] = @ - 1][t] = Cardinality(Of(S \ {f}, t))
  BY <1>1, <1>3
<1> QED
  BY <1>1, <1>4, <1>5 DEF NoutOK

\* The same for probes, whose counts may be too large.
LEMMA ProbesAdd ==
    ASSUME NEW np \in [Tgt -> Nat], NEW S \in SUBSET Frame, NEW f \in Frame,
           f \notin S, ProbesOK(np, S)
    PROVE  /\ [np EXCEPT ![TgtOf[f]] = @ + 1] \in [Tgt -> Nat]
           /\ ProbesOK([np EXCEPT ![TgtOf[f]] = @ + 1], S \cup {f})
<1>1. TgtOf[f] \in Tgt
  BY IoAssumption
<1>2. ASSUME NEW t \in Tgt
      PROVE  [np EXCEPT ![TgtOf[f]] = @ + 1][t] >= Cardinality(Of(S \cup {f}, t))
  BY <1>1, <1>2, OfAdd DEF ProbesOK
<1> QED
  BY <1>1, <1>2 DEF ProbesOK

\* A probe that is answered or expires was counted.
LEMMA ProbesDrop ==
    ASSUME NEW np \in [Tgt -> Nat], NEW S \in SUBSET Frame, NEW f \in S,
           ProbesOK(np, S)
    PROVE  /\ np[TgtOf[f]] > 0
           /\ [np EXCEPT ![TgtOf[f]] = @ - 1] \in [Tgt -> Nat]
           /\ ProbesOK([np EXCEPT ![TgtOf[f]] = @ - 1], S \ {f})
<1>1. TgtOf[f] \in Tgt /\ f \in Frame
  BY IoAssumption
<1>2. (S \ {f}) \in SUBSET Frame /\ (S \ {f}) \cup {f} = S /\ f \notin S \ {f}
  OBVIOUS
<1>3. ASSUME NEW t \in Tgt
      PROVE  /\ Cardinality(Of(S \ {f}, t)) \in Nat
             /\ np[t] >= IF TgtOf[f] = t THEN Cardinality(Of(S \ {f}, t)) + 1
                                         ELSE Cardinality(Of(S \ {f}, t))
  <2>1. /\ Cardinality(Of(S \ {f}, t)) \in Nat
        /\ Cardinality(Of((S \ {f}) \cup {f}, t)) =
                IF TgtOf[f] = t THEN Cardinality(Of(S \ {f}, t)) + 1
                                ELSE Cardinality(Of(S \ {f}, t))
    BY <1>1, <1>2, OfAdd
  <2> QED
    BY <2>1, <1>2 DEF ProbesOK
<1>4. np[TgtOf[f]] > 0
  BY <1>1, <1>3
<1>5. ASSUME NEW t \in Tgt
      PROVE  [np EXCEPT ![TgtOf[f]] = @ - 1][t] >= Cardinality(Of(S \ {f}, t))
  BY <1>1, <1>3
<1> QED
  BY <1>1, <1>4, <1>5 DEF ProbesOK

\* Counts that are larger, or frames that are fewer, are covered as well.
LEMMA ProbesWeaken ==
    ASSUME NEW np \in [Tgt -> Nat], NEW nq \in [Tgt -> Nat],
           NEW S \in SUBSET Frame, NEW R \in SUBSET S,
           \A t \in Tgt : nq[t] >= np[t], ProbesOK(np, S)
    PROVE  ProbesOK(nq, R)
<1>1. ASSUME NEW t \in Tgt
      PROVE  nq[t] >= Cardinality(Of(R, t))
  <2>1. /\ Cardinality(Of(R, t)) \in Nat
        /\ Cardinality(Of(S, t)) \in Nat
        /\ Cardinality(Of(R, t)) <= Cardinality(Of(S, t))
    BY OfSubset
  <2>2. np[t] >= Cardinality(Of(S, t)) /\ nq[t] >= np[t] /\ np[t] \in Nat /\ nq[t] \in Nat
    BY DEF ProbesOK
  <2> QED
    BY <2>1, <2>2
<1> QED
  BY <1>1 DEF ProbesOK

----------------------------------------------------------------------------
(* What the code does to a frame keeps the counts.                         *)

\* A frame that was not out is sent with room in the window.
LEMMA CountsSend ==
    ASSUME NEW pl, NEW pb, NEW no, NEW np, CountsOK(pl, pb, no, np),
           NEW f \in Frame, pl[f] \notin {"active", "flist"}, f \notin pb,
           no[TgtOf[f]] < NFrames
    PROVE  CountsOK([pl EXCEPT ![f] = "active"], pb,
                    [no EXCEPT ![TgtOf[f]] = @ + 1], np)
<1> DEFINE npl == [pl EXCEPT ![f] = "active"]
           nno == [no EXCEPT ![TgtOf[f]] = @ + 1]
<1>0. /\ pl \in [Frame -> Place] /\ pb \in SUBSET Frame
      /\ no \in [Tgt -> Nat] /\ np \in [Tgt -> Nat]
      /\ \A g \in pb : pl[g] # "free"
      /\ NoutOK(no, Busy(pl)) /\ ProbesOK(np, Busy(pl) \cap pb)
      /\ \A t \in Tgt : no[t] <= NFrames + (IF np[t] > 0 THEN 1 ELSE 0)
  BY DEF CountsOK
<1>1. TgtOf[f] \in Tgt
  BY IoAssumption
<1>2. npl \in [Frame -> Place] /\ \A g \in pb : npl[g] # "free"
  BY <1>0 DEF Place
<1>3. /\ Busy(npl) = Busy(pl) \cup {f} /\ f \notin Busy(pl)
      /\ Busy(pl) \in SUBSET Frame
      /\ Busy(npl) \cap pb = Busy(pl) \cap pb
  BY <1>0 DEF Busy, Place
<1>4. nno \in [Tgt -> Nat] /\ NoutOK(nno, Busy(npl))
  <2>1. nno \in [Tgt -> Nat] /\ NoutOK(nno, Busy(pl) \cup {f})
    BY <1>0, <1>3, NoutAdd, ZenonT(60)
  <2> QED
    BY ZenonT(60), <1>3, <2>1
<1>5. \A t \in Tgt : nno[t] <= NFrames + (IF np[t] > 0 THEN 1 ELSE 0)
  BY <1>0, <1>1, IoAssumption
<1> QED
  BY ZenonT(60), <1>0, <1>2, <1>3, <1>4, <1>5 DEF CountsOK

\* A deferred probe is sent again and counted.
LEMMA CountsSendProbe ==
    ASSUME NEW pl, NEW pb, NEW no, NEW np, CountsOK(pl, pb, no, np),
           NEW f \in Frame, pl[f] \notin {"active", "flist"}, f \in pb,
           no[TgtOf[f]] < NFrames
    PROVE  CountsOK([pl EXCEPT ![f] = "active"], pb,
                    [no EXCEPT ![TgtOf[f]] = @ + 1],
                    [np EXCEPT ![TgtOf[f]] = @ + 1])
<1> DEFINE npl == [pl EXCEPT ![f] = "active"]
           nno == [no EXCEPT ![TgtOf[f]] = @ + 1]
           nnp == [np EXCEPT ![TgtOf[f]] = @ + 1]
<1>0. /\ pl \in [Frame -> Place] /\ pb \in SUBSET Frame
      /\ no \in [Tgt -> Nat] /\ np \in [Tgt -> Nat]
      /\ \A g \in pb : pl[g] # "free"
      /\ NoutOK(no, Busy(pl)) /\ ProbesOK(np, Busy(pl) \cap pb)
      /\ \A t \in Tgt : no[t] <= NFrames + (IF np[t] > 0 THEN 1 ELSE 0)
  BY DEF CountsOK
<1>1. TgtOf[f] \in Tgt
  BY IoAssumption
<1>2. npl \in [Frame -> Place] /\ \A g \in pb : npl[g] # "free"
  BY <1>0 DEF Place
<1>3. /\ Busy(npl) = Busy(pl) \cup {f} /\ f \notin Busy(pl)
      /\ Busy(pl) \in SUBSET Frame /\ (Busy(pl) \cap pb) \in SUBSET Frame
      /\ f \notin Busy(pl) \cap pb
      /\ Busy(npl) \cap pb = (Busy(pl) \cap pb) \cup {f}
  BY <1>0 DEF Busy, Place
<1>4. nno \in [Tgt -> Nat] /\ NoutOK(nno, Busy(npl))
  <2>1. nno \in [Tgt -> Nat] /\ NoutOK(nno, Busy(pl) \cup {f})
    BY <1>0, <1>3, NoutAdd, ZenonT(60)
  <2> QED
    BY ZenonT(60), <1>3, <2>1
<1>5. nnp \in [Tgt -> Nat] /\ ProbesOK(nnp, Busy(npl) \cap pb)
  <2>1. nnp \in [Tgt -> Nat] /\ ProbesOK(nnp, (Busy(pl) \cap pb) \cup {f})
    BY <1>0, <1>3, ProbesAdd, ZenonT(60)
  <2> QED
    BY ZenonT(60), <1>3, <2>1
<1>6. \A t \in Tgt : nno[t] <= NFrames + (IF nnp[t] > 0 THEN 1 ELSE 0)
  BY <1>0, <1>1, IoAssumption
<1> QED
  BY ZenonT(30), <1>0, <1>2, <1>4, <1>5, <1>6 DEF CountsOK

\* A new probe leaves whether or not there is room, if none is counted.
LEMMA CountsNewProbe ==
    ASSUME NEW pl, NEW pb, NEW no, NEW np, CountsOK(pl, pb, no, np),
           NEW f \in Frame, pl[f] = "free", np[TgtOf[f]] = 0
    PROVE  CountsOK([pl EXCEPT ![f] = "active"], pb \cup {f},
                    [no EXCEPT ![TgtOf[f]] = @ + 1],
                    [np EXCEPT ![TgtOf[f]] = @ + 1])
<1> DEFINE npl == [pl EXCEPT ![f] = "active"]
           nno == [no EXCEPT ![TgtOf[f]] = @ + 1]
           nnp == [np EXCEPT ![TgtOf[f]] = @ + 1]
<1>0. /\ pl \in [Frame -> Place] /\ pb \in SUBSET Frame
      /\ no \in [Tgt -> Nat] /\ np \in [Tgt -> Nat]
      /\ \A g \in pb : pl[g] # "free"
      /\ NoutOK(no, Busy(pl)) /\ ProbesOK(np, Busy(pl) \cap pb)
      /\ \A t \in Tgt : no[t] <= NFrames + (IF np[t] > 0 THEN 1 ELSE 0)
  BY DEF CountsOK
<1>1. TgtOf[f] \in Tgt
  BY IoAssumption
<1>2. npl \in [Frame -> Place] /\ \A g \in pb \cup {f} : npl[g] # "free"
  BY <1>0 DEF Place
<1>3. /\ Busy(npl) = Busy(pl) \cup {f} /\ f \notin Busy(pl)
      /\ Busy(pl) \in SUBSET Frame /\ (Busy(pl) \cap pb) \in SUBSET Frame
      /\ f \notin Busy(pl) \cap pb
      /\ Busy(npl) \cap (pb \cup {f}) = (Busy(pl) \cap pb) \cup {f}
  BY <1>0 DEF Busy, Place
<1>4. nno \in [Tgt -> Nat] /\ NoutOK(nno, Busy(npl))
  <2>1. nno \in [Tgt -> Nat] /\ NoutOK(nno, Busy(pl) \cup {f})
    BY <1>0, <1>3, NoutAdd, ZenonT(60)
  <2> QED
    BY ZenonT(60), <1>3, <2>1
<1>5. nnp \in [Tgt -> Nat] /\ ProbesOK(nnp, Busy(npl) \cap (pb \cup {f}))
  <2>1. nnp \in [Tgt -> Nat] /\ ProbesOK(nnp, (Busy(pl) \cap pb) \cup {f})
    BY <1>0, <1>3, ProbesAdd, ZenonT(60)
  <2> QED
    BY ZenonT(60), <1>3, <2>1
<1>6. \A t \in Tgt : nno[t] <= NFrames + (IF nnp[t] > 0 THEN 1 ELSE 0)
  BY <1>0, <1>1, IoAssumption
<1> QED
  BY ZenonT(30), <1>0, <1>2, <1>4, <1>5, <1>6 DEF CountsOK

\* A probe is counted that found no frame to leave with.
LEMMA CountsNoProbe ==
    ASSUME NEW pl, NEW pb, NEW no, NEW np, CountsOK(pl, pb, no, np), NEW t \in Tgt
    PROVE  CountsOK(pl, pb, no, [np EXCEPT ![t] = @ + 1])
<1> DEFINE nnp == [np EXCEPT ![t] = @ + 1]
<1>0. /\ pl \in [Frame -> Place] /\ pb \in SUBSET Frame
      /\ no \in [Tgt -> Nat] /\ np \in [Tgt -> Nat]
      /\ \A g \in pb : pl[g] # "free"
      /\ NoutOK(no, Busy(pl)) /\ ProbesOK(np, Busy(pl) \cap pb)
      /\ \A u \in Tgt : no[u] <= NFrames + (IF np[u] > 0 THEN 1 ELSE 0)
  BY DEF CountsOK
<1>1. nnp \in [Tgt -> Nat] /\ \A u \in Tgt : nnp[u] >= np[u]
  BY <1>0
<1>2. ProbesOK(nnp, Busy(pl) \cap pb)
  <2>1. (Busy(pl) \cap pb) \in SUBSET Frame
    BY DEF Busy
  <2> QED
    BY ZenonT(60), <1>0, <1>1, <2>1, ProbesWeaken
<1>3. \A u \in Tgt : no[u] <= NFrames + (IF nnp[u] > 0 THEN 1 ELSE 0)
  BY <1>0, <1>1, IoAssumption
<1> QED
  BY <1>0, <1>1, <1>2, <1>3 DEF CountsOK

\* A frame that is out is answered or expires.
LEMMA CountsBack ==
    ASSUME NEW pl, NEW pb, NEW no, NEW np, CountsOK(pl, pb, no, np),
           NEW f \in Frame, pl[f] \in {"active", "flist"},
           NEW p \in {"iocq", "rexmitq"}
    PROVE  CountsOK([pl EXCEPT ![f] = p], pb, [no EXCEPT ![TgtOf[f]] = @ - 1],
                    IF f \in pb THEN [np EXCEPT ![TgtOf[f]] = @ - 1] ELSE np)
<1> DEFINE npl == [pl EXCEPT ![f] = p]
           nno == [no EXCEPT ![TgtOf[f]] = @ - 1]
           nnp == IF f \in pb THEN [np EXCEPT ![TgtOf[f]] = @ - 1] ELSE np
<1>0. /\ pl \in [Frame -> Place] /\ pb \in SUBSET Frame
      /\ no \in [Tgt -> Nat] /\ np \in [Tgt -> Nat]
      /\ \A g \in pb : pl[g] # "free"
      /\ NoutOK(no, Busy(pl)) /\ ProbesOK(np, Busy(pl) \cap pb)
      /\ \A t \in Tgt : no[t] <= NFrames + (IF np[t] > 0 THEN 1 ELSE 0)
  BY DEF CountsOK
<1>1. TgtOf[f] \in Tgt
  BY IoAssumption
<1>2. npl \in [Frame -> Place] /\ \A g \in pb : npl[g] # "free"
  BY <1>0 DEF Place
<1>3. /\ Busy(npl) = Busy(pl) \ {f} /\ f \in Busy(pl)
      /\ Busy(pl) \in SUBSET Frame /\ (Busy(pl) \cap pb) \in SUBSET Frame
      /\ Busy(npl) \cap pb = (Busy(pl) \cap pb) \ {f}
  BY <1>0 DEF Busy, Place
<1>4. nno \in [Tgt -> Nat] /\ NoutOK(nno, Busy(npl)) /\ no[TgtOf[f]] > 0
  <2>1. /\ nno \in [Tgt -> Nat] /\ NoutOK(nno, Busy(pl) \ {f})
        /\ no[TgtOf[f]] > 0
    BY <1>0, <1>3, NoutDrop, ZenonT(60)
  <2> QED
    BY ZenonT(60), <1>3, <2>1
<1>5. CASE f \in pb
  <2>1. f \in Busy(pl) \cap pb
    BY <1>3, <1>5
  <2>2. /\ np[TgtOf[f]] > 0 /\ nnp \in [Tgt -> Nat]
        /\ ProbesOK(nnp, Busy(npl) \cap pb)
    <3> DEFINE mnp == [np EXCEPT ![TgtOf[f]] = @ - 1]
    <3>1. /\ np[TgtOf[f]] > 0 /\ mnp \in [Tgt -> Nat]
          /\ ProbesOK(mnp, (Busy(pl) \cap pb) \ {f})
      BY <1>0, <1>3, <2>1, ProbesDrop, ZenonT(60)
    <3>2. nnp = mnp
      BY <1>5
    <3> QED
      BY ZenonT(60), <1>3, <3>1, <3>2
  <2>3. \A t \in Tgt : nno[t] <= NFrames + (IF nnp[t] > 0 THEN 1 ELSE 0)
    BY <1>0, <1>1, <1>4, <1>5, <2>2, IoAssumption
  <2> QED
    BY ZenonT(30), <1>0, <1>2, <1>4, <2>2, <2>3 DEF CountsOK
<1>6. CASE f \notin pb
  <2>1. Busy(npl) \cap pb = Busy(pl) \cap pb
    BY ZenonT(60), <1>3, <1>6
  <2>2. \A t \in Tgt : nno[t] <= NFrames + (IF nnp[t] > 0 THEN 1 ELSE 0)
    BY <1>0, <1>1, <1>4, <1>6, IoAssumption
  <2> QED
    BY ZenonT(60), <1>0, <1>2, <1>4, <1>6, <2>1, <2>2 DEF CountsOK
<1> QED
  BY <1>5, <1>6

\* A frame that is not out moves on, or is freed and is no probe any more.
LEMMA CountsMove ==
    ASSUME NEW pl, NEW pb, NEW no, NEW np, CountsOK(pl, pb, no, np),
           NEW f \in Frame, pl[f] \notin {"active", "flist"},
           NEW p \in {"iocq", "ktio", "rexmitq"}
    PROVE  /\ CountsOK([pl EXCEPT ![f] = p], pb, no, np)
           /\ CountsOK([pl EXCEPT ![f] = "free"], pb \ {f}, no, np)
<1>0. /\ pl \in [Frame -> Place] /\ pb \in SUBSET Frame
      /\ no \in [Tgt -> Nat] /\ np \in [Tgt -> Nat]
      /\ \A g \in pb : pl[g] # "free"
      /\ NoutOK(no, Busy(pl)) /\ ProbesOK(np, Busy(pl) \cap pb)
      /\ \A t \in Tgt : no[t] <= NFrames + (IF np[t] > 0 THEN 1 ELSE 0)
  BY DEF CountsOK
<1>1. /\ Busy([pl EXCEPT ![f] = p]) = Busy(pl)
      /\ Busy([pl EXCEPT ![f] = "free"]) = Busy(pl)
      /\ Busy(pl) \cap (pb \ {f}) = Busy(pl) \cap pb
  BY <1>0 DEF Busy, Place
<1> QED
  BY ZenonT(60), <1>0, <1>1 DEF CountsOK, Place

\* ifrotate stays within the array of interfaces.
LEMMA RotateType ==
    ASSUME NEW i \in [Tgt -> 1..NIf], nifs \in [Tgt -> 1..NIf], NEW t \in Tgt
    PROVE  Rotate(i, t) \in [Tgt -> 1..NIf]
BY IoAssumption DEF Rotate

\* Probe with what its caller changed.
LEMMA ProbeKeeps ==
    ASSUME NEW pl, NEW pb, NEW no, NEW ip \in [Tgt -> 1..NIf], NEW t \in Tgt,
           CountsOK(pl, pb, no, nout_probes), nout_probes[t] = 0,
           nifs \in [Tgt -> 1..NIf],
           Probe(t, pl, pb, no, ip)
    PROVE  /\ CountsOK(place', probing', nout', nout_probes')
           /\ ifp' \in [Tgt -> 1..NIf]
           /\ \A f \in Frame : pl[f] = "rexmitq" => place'[f] = "rexmitq"
<1>1. nout_probes' = [nout_probes EXCEPT ![t] = @ + 1]
  BY DEF Probe, CountProbe
<1>2. CASE place' = pl /\ probing' = pb /\ nout' = no /\ ifp' = ip
  <2>1. CountsOK(pl, pb, no, [nout_probes EXCEPT ![t] = @ + 1])
    BY CountsNoProbe, ZenonT(60)
  <2> QED
    BY <1>1, <1>2, <2>1
<1>3. ASSUME NEW g \in On("free"),
             TgtOf[g] = t, pl[g] = "free",
             place' = [pl EXCEPT ![g] = "active"], probing' = pb \cup {g},
             nout' = [no EXCEPT ![t] = @ + 1], ifp' = Rotate(ip, t)
      PROVE  /\ CountsOK(place', probing', nout', nout_probes')
             /\ ifp' \in [Tgt -> 1..NIf]
             /\ \A f \in Frame : pl[f] = "rexmitq" => place'[f] = "rexmitq"
  <2>1. g \in Frame /\ nout_probes[TgtOf[g]] = 0
    BY <1>3 DEF On
  <2>2. CountsOK([pl EXCEPT ![g] = "active"], pb \cup {g},
                 [no EXCEPT ![TgtOf[g]] = @ + 1],
                 [nout_probes EXCEPT ![TgtOf[g]] = @ + 1])
    BY <1>3, <2>1, CountsNewProbe, ZenonT(60)
  <2>3. CountsOK(place', probing', nout', nout_probes')
    BY <1>1, <1>3, <2>2, ZenonT(60)
  <2>4. ifp' \in [Tgt -> 1..NIf]
    BY <1>3, RotateType
  <2>5. \A f \in Frame : pl[f] = "rexmitq" => place'[f] = "rexmitq"
    BY ZenonT(30), <1>3, <2>1 DEF CountsOK
  <2> QED
    BY <2>3, <2>4, <2>5
<1> QED
  BY ZenonT(30), <1>2, <1>3 DEF Probe

----------------------------------------------------------------------------

\* Nothing is out when the device has just been installed.
LEMMA WindowInit == Init => WindowInv
<1> SUFFICES ASSUME Init PROVE WindowInv
  OBVIOUS
<1>1. WindowTypes /\ ~InRexmit
  BY IoAssumption DEF Init, WindowTypes, Lock, InRexmit
<1>2. Busy(place) = {}
  BY DEF Init, Busy
<1>3. \A t \in Tgt : /\ Cardinality(Of(Busy(place), t)) = 0
                     /\ Cardinality(Of(Busy(place) \cap probing, t)) = 0
  <2>1. \A t \in Tgt : Of(Busy(place), t) = {} /\ Of(Busy(place) \cap probing, t) = {}
    BY <1>2 DEF Of
  <2> QED
    BY <2>1, FS_EmptySet
<1>4. NoutOK(nout, Busy(place)) /\ ProbesOK(nout_probes, Busy(place) \cap probing)
  BY <1>3 DEF Init, NoutOK, ProbesOK
<1>5. CountsOK(place, probing, nout, nout_probes)
  BY <1>4, IoAssumption DEF Init, CountsOK, Place
<1> QED
  BY <1>1, <1>5 DEF WindowInv

\* One step per action; an action that changes no window keeps the counts.
LEMMA WindowNext == WindowInv /\ [Next]_vars => WindowInv'
<1> SUFFICES ASSUME WindowInv, [Next]_vars PROVE WindowInv'
  OBVIOUS
<1>inv. /\ CountsOK(place, probing, nout, nout_probes)
        /\ place \in [Frame -> Place] /\ probing \subseteq Frame
        /\ nout \in [Tgt -> Nat] /\ nout_probes \in [Tgt -> Nat]
        /\ WindowTypes
        /\ InRexmit => todo \subseteq On("rexmitq")
        /\ TgtOf \in [Frame -> Tgt] /\ NFrames \in Nat
  BY IoAssumption DEF WindowInv, CountsOK
<1>suf. ASSUME CountsOK(place', probing', nout', nout_probes'), WindowTypes',
               InRexmit' => todo' \subseteq On("rexmitq")'
        PROVE  WindowInv'
  BY <1>suf DEF WindowInv, CountsOK, NoutOK, ProbesOK, Busy, Of
<1>same. ASSUME UNCHANGED <<winVars, frameVars, ifVars>>,
                lock' \in Lock, todo' \subseteq Frame,
                InRexmit' => todo' \subseteq On("rexmitq")
         PROVE  WindowInv'
  <2>1. CountsOK(place', probing', nout', nout_probes')
    BY <1>inv, <1>same DEF winVars, frameVars
  <2>2. WindowTypes' /\ On("rexmitq")' = On("rexmitq")
    BY <1>inv, <1>same DEF winVars, ifVars, frameVars, WindowTypes, On
  <2> QED
    BY <1>suf, <1>same, <2>1, <2>2
<1> USE <1>inv DEF WindowTypes
<1>1. ASSUME NEW r \in Req, Submit(r) PROVE WindowInv'
  BY <1>1, <1>same DEF Submit, ctlVars, InRexmit
<1>2. ASSUME NEW r \in Req, NextRequest(r) PROVE WindowInv'
  BY <1>2, <1>same DEF NextRequest, ctlVars, InRexmit
<1>3. CASE Request
  BY <1>3, <1>same DEF Request, StartWork, InRexmit, On, Lock
<1>free. ASSUME NEW w \in [Tgt -> 1..NFrames], NEW f \in NewFrames(w)
         PROVE  /\ f \in Frame /\ place[f] = "free" /\ TgtOf[f] \in Tgt
                /\ nout[TgtOf[f]] < NFrames /\ f \notin probing
                /\ CountsOK([place EXCEPT ![f] = "active"], probing,
                            [nout EXCEPT ![TgtOf[f]] = @ + 1], nout_probes)
  <2>1. /\ f \in Frame /\ place[f] = "free" /\ TgtOf[f] \in Tgt
        /\ nout[TgtOf[f]] < NFrames /\ f \notin probing
    BY <1>free DEF NewFrames, Room, On, CountsOK
  <2>2. place[f] \notin {"active", "flist"}
    BY <2>1
  <2>3. CountsOK([place EXCEPT ![f] = "active"], probing,
                 [nout EXCEPT ![TgtOf[f]] = @ + 1], nout_probes)
    BY <2>1, <2>2, CountsSend, ZenonT(60)
  <2> QED
    BY <2>1, <2>3
<1>4. ASSUME NEW f \in Frame, RexmitStopProbe(f) PROVE WindowInv'
  <2>1. place[f] = "rexmitq"
    BY <1>4 DEF RexmitStopProbe, On
  <2>2. CountsOK([place EXCEPT ![f] = "free"], probing \ {f}, nout, nout_probes)
    BY ZenonT(60), <2>1, CountsMove
  <2>3. CountsOK(place', probing', nout', nout_probes')
    BY <1>4, <2>2, ZenonT(60) DEF RexmitStopProbe, winVars
  <2>4. WindowTypes'
    BY <1>4 DEF RexmitStopProbe, winVars, ifVars
  <2>5. InRexmit' => todo' \subseteq On("rexmitq")'
    BY ZenonT(30), <1>4 DEF RexmitStopProbe, InRexmit, On
  <2> QED
    BY ZenonT(30), <1>suf, <2>3, <2>4, <2>5
<1>5. ASSUME NEW f \in Frame, RexmitDefer(f) PROVE WindowInv'
  <2>1. CountsOK(place', probing', nout', nout_probes')
    BY <1>5, ZenonT(60) DEF RexmitDefer, winVars, frameVars
  <2>2. ifp' \in [Tgt -> 1..NIf]
    BY <1>5, RotateType DEF RexmitDefer
  <2>3. WindowTypes'
    BY ZenonT(30), <1>5, <2>2 DEF RexmitDefer, winVars
  <2>4. InRexmit' => todo' \subseteq On("rexmitq")'
    BY ZenonT(30), <1>5 DEF RexmitDefer, InRexmit, On, frameVars
  <2> QED
    BY <1>suf, <2>1, <2>3, <2>4
<1>6. ASSUME NEW f \in Frame, RexmitResend(f) PROVE WindowInv'
  <2> DEFINE npl == [place EXCEPT ![f] = "active"]
             nno == [nout EXCEPT ![TgtOf[f]] = @ + 1]
  <2>1. /\ place[f] = "rexmitq" /\ nout[TgtOf[f]] < NFrames
        /\ place' = npl /\ nout' = nno /\ probing' = probing
        /\ f \in probing => nout_probes' = [nout_probes EXCEPT ![TgtOf[f]] = @ + 1]
        /\ f \notin probing => nout_probes' = nout_probes
    BY <1>6 DEF RexmitResend, On, Room, CountProbe
  <2>4. CountsOK(place', probing', nout', nout_probes')
    <3>1. f \in probing => CountsOK(place', probing', nout', nout_probes')
      <4> SUFFICES ASSUME f \in probing
                   PROVE  CountsOK(place', probing', nout', nout_probes')
        OBVIOUS
      <4>1. place[f] \notin {"active", "flist"}
        BY <2>1
      <4>2. CountsOK(npl, probing, nno, [nout_probes EXCEPT ![TgtOf[f]] = @ + 1])
        BY <2>1, <4>1, CountsSendProbe, ZenonT(60)
      <4> QED
        BY <2>1, <4>2, ZenonT(60)
    <3>2. f \notin probing => CountsOK(place', probing', nout', nout_probes')
      <4> SUFFICES ASSUME f \notin probing
                   PROVE  CountsOK(place', probing', nout', nout_probes')
        OBVIOUS
      <4>1. place[f] \notin {"active", "flist"}
        BY <2>1
      <4>2. CountsOK(npl, probing, nno, nout_probes)
        BY <2>1, <4>1, CountsSend, ZenonT(60)
      <4> QED
        BY <2>1, <4>2, ZenonT(60)
    <3> QED
      BY <3>1, <3>2
  <2>5. ifp' \in [Tgt -> 1..NIf]
    <3>1. PICK ip \in {ifp, Rotate(ifp, TgtOf[f])} : ifp' = Rotate(ip, TgtOf[f])
      BY ZenonT(30), <1>6 DEF RexmitResend
    <3>2. ip \in [Tgt -> 1..NIf]
      BY <3>1, RotateType
    <3> QED
      BY ZenonT(30), <3>1, <3>2, RotateType
  <2>6. WindowTypes'
    BY ZenonT(30), <1>6, <2>5 DEF RexmitResend
  <2>7. InRexmit' => todo' \subseteq On("rexmitq")'
    BY ZenonT(30), <1>6 DEF RexmitResend, InRexmit, On
  <2> QED
    BY <1>suf, <2>4, <2>6, <2>7
<1>7. ASSUME NEW f \in Frame, NEW nf \in Frame, RexmitReassign(f, nf)
      PROVE  WindowInv'
  <2> DEFINE t == TgtOf[f]
             u == TgtOf[nf]
             pl1 == [place EXCEPT ![nf] = "active"]
             pl2 == [place EXCEPT ![f] = "free", ![nf] = "active"]
             no == [nout EXCEPT ![u] = @ + 1]
             ip == Rotate(Rotate(ifp, u), u)
  <2>1. /\ place[f] = "rexmitq" /\ f \notin probing /\ t # u /\ f # nf
        /\ nf \in NewFrames(maxout)
        /\ IF nout_probes[t] = 0 /\ Untainted # {}
           THEN Probe(t, pl2, probing, no, ip)
           ELSE NoProbe(pl2, probing, no, ip)
    BY ZenonT(30), <1>7 DEF RexmitReassign, On
  <2>2. place[nf] = "free" /\ nout[u] < NFrames /\ nf \notin probing /\ t \in Tgt
    BY ZenonT(60), <1>free, <2>1
  <2>3. CountsOK(pl1, probing, no, nout_probes)
    BY <1>free, <2>1, ZenonT(60)
  <2>4. CountsOK(pl2, probing, no, nout_probes)
    <3>1. pl1[f] \notin {"active", "flist"}
      BY ZenonT(30), <2>1
    <3>2. CountsOK([pl1 EXCEPT ![f] = "free"], probing \ {f}, no, nout_probes)
      BY ZenonT(60), <2>3, <3>1, CountsMove
    <3>3. pl2 = [pl1 EXCEPT ![f] = "free"] /\ probing = probing \ {f}
      BY ZenonT(60), <2>1
    <3> QED
      BY ZenonT(60), <3>2, <3>3
  <2>5. ip \in [Tgt -> 1..NIf]
    BY ZenonT(60), RotateType
  <2>6. /\ CountsOK(place', probing', nout', nout_probes')
        /\ ifp' \in [Tgt -> 1..NIf]
        /\ \A g \in Frame : pl2[g] = "rexmitq" => place'[g] = "rexmitq"
    <3>1. CASE nout_probes[t] = 0 /\ Untainted # {}
      <4>1. Probe(t, pl2, probing, no, ip)
        BY ZenonT(30), <2>1, <3>1
      <4> HIDE DEF t, pl2, no, ip
      <4> QED
        BY ZenonT(30), <2>2, <2>4, <2>5, <3>1, <4>1, ProbeKeeps
    <3>2. CASE ~(nout_probes[t] = 0 /\ Untainted # {})
      <4>1. NoProbe(pl2, probing, no, ip)
        BY ZenonT(30), <2>1, <3>2
      <4> HIDE DEF t, pl2, no, ip
      <4> QED
        BY ZenonT(30), <2>4, <2>5, <4>1 DEF NoProbe
    <3> QED
      BY ZenonT(30), <3>1, <3>2
  <2>7. WindowTypes'
    BY ZenonT(30), <1>7, <2>6 DEF RexmitReassign
  <2>8. InRexmit' => todo' \subseteq On("rexmitq")'
    <3>1. InRexmit /\ todo' = todo \ {f} /\ lock' = lock
      BY ZenonT(30), <1>7 DEF RexmitReassign
    <3>2. \A g \in todo' : g \in Frame /\ pl2[g] = "rexmitq"
      BY ZenonT(30), <2>1, <2>2, <3>1 DEF On
    <3> QED
      BY ZenonT(30), <2>6, <3>2 DEF On
  <2> QED
    BY ZenonT(30), <1>suf, <2>6, <2>7, <2>8
<1>8. CASE RexmitDone
  BY ZenonT(30), <1>8, <1>same DEF RexmitDone, StartWork, Unlock, InRexmit, On, Lock
<1>9. ASSUME NEW b \in Bio, NextBuf(b) PROVE WindowInv'
  BY ZenonT(30), <1>9, <1>same DEF NextBuf, ctlVars, InRexmit
<1>10. CASE NextBufNull
  BY ZenonT(30), <1>10, <1>same DEF NextBufNull, Lock, InRexmit
<1>11. CASE NoNextBuf
  BY ZenonT(30), <1>11, <1>same DEF NoNextBuf, Unlock, Lock, InRexmit
<1>12. CASE NoNewFrame
  BY ZenonT(30), <1>12, <1>same DEF NoNewFrame, Unlock, Lock, InRexmit
<1>13. ASSUME NEW f \in Frame, SendFrame(f) PROVE WindowInv'
  <2>1. f \in NewFrames(maxout)
    BY ZenonT(30), <1>13 DEF SendFrame
  <2>2. CountsOK(place', probing', nout', nout_probes')
    BY <1>13, <1>free, <2>1, ZenonT(60) DEF SendFrame
  <2>3. ifp' \in [Tgt -> 1..NIf]
    BY ZenonT(30), <1>13, RotateType DEF SendFrame
  <2>4. WindowTypes'
    BY ZenonT(30), <1>13, <2>3 DEF SendFrame, ctlVars
  <2>5. ~InRexmit'
    BY ZenonT(30), <1>13 DEF SendFrame, ctlVars, InRexmit
  <2> QED
    BY ZenonT(30), <1>suf, <2>2, <2>4, <2>5
<1>14. ASSUME NEW f \in Frame, AtaRsp(f) PROVE WindowInv'
  <2>1. CountsOK(place', probing', nout', nout_probes')
    <3>1. CASE place[f] = "active"
      <4>1. place[f] \in {"active", "flist"} /\ "iocq" \in {"iocq", "rexmitq"}
        BY <3>1
      <4>2. CountsOK([place EXCEPT ![f] = "iocq"], probing,
                     [nout EXCEPT ![TgtOf[f]] = @ - 1],
                     IF f \in probing THEN [nout_probes EXCEPT ![TgtOf[f]] = @ - 1]
                                      ELSE nout_probes)
        BY <4>1, CountsBack, ZenonT(60)
      <4>3. /\ place' = [place EXCEPT ![f] = "iocq"] /\ probing' = probing
            /\ nout' = [nout EXCEPT ![TgtOf[f]] = @ - 1]
            /\ nout_probes' = IF f \in probing
                              THEN [nout_probes EXCEPT ![TgtOf[f]] = @ - 1]
                              ELSE nout_probes
        BY ZenonT(30), <1>14, <3>1 DEF AtaRsp, CalcRttavg
      <4> QED
        BY <4>2, <4>3, ZenonT(60)
    <3>2. CASE place[f] = "rexmitq"
      <4>1. place[f] \notin {"active", "flist"} /\ "iocq" \in {"iocq", "ktio", "rexmitq"}
        BY <3>2
      <4>2. CountsOK([place EXCEPT ![f] = "iocq"], probing, nout, nout_probes)
        BY <4>1, CountsMove, ZenonT(60)
      <4>3. /\ place' = [place EXCEPT ![f] = "iocq"] /\ probing' = probing
            /\ nout' = nout /\ nout_probes' = nout_probes
        BY ZenonT(30), <1>14, <3>2 DEF AtaRsp, CalcRttavg
      <4> QED
        BY <4>2, <4>3, ZenonT(60)
    <3> QED
      BY ZenonT(30), <1>14, <3>1, <3>2 DEF AtaRsp, CalcRttavg
  <2>2. maxout' \in [Tgt -> 1..NFrames]
    BY <1>14 DEF AtaRsp, CalcRttavg
  <2>3. WindowTypes' /\ todo' \subseteq On("rexmitq")'
    BY ZenonT(30), <1>14, <2>2 DEF AtaRsp, CalcRttavg, ifVars, Lock, On
  <2> QED
    BY ZenonT(30), <1>suf, <2>1, <2>3
<1>15. ASSUME NEW f \in Frame, NEW good \in BOOLEAN, KtioTake(f, good)
       PROVE  WindowInv'
  <2>1. place[f] \notin {"active", "flist"} /\ "ktio" \in {"iocq", "ktio", "rexmitq"}
    BY ZenonT(30), <1>15 DEF KtioTake, AtaidComplete
  <2>2. CountsOK([place EXCEPT ![f] = "ktio"], probing, nout, nout_probes)
    BY <2>1, CountsMove, ZenonT(60)
  <2>3. CountsOK(place', probing', nout', nout_probes')
    BY <1>15, <2>2, ZenonT(60) DEF KtioTake, AtaidComplete, winVars
  <2>4. WindowTypes' /\ ~InRexmit'
    BY ZenonT(30), <1>15 DEF KtioTake, AtaidComplete, winVars, ifVars, ctlVars, InRexmit
  <2> QED
    BY ZenonT(30), <1>suf, <2>3, <2>4
<1>16. ASSUME NEW f \in Frame, KtioComplete(f) PROVE WindowInv'
  <2> DEFINE t == TgtOf[f]
             pl == [place EXCEPT ![f] = "free"]
             pb == probing \ {f}
  <2>1. /\ place[f] = "ktio" /\ t \in Tgt
        /\ taint' = [taint EXCEPT ![t] = IF @ > 0 THEN @ - 1 ELSE 0]
        /\ IF taint[t] > 1 /\ nout_probes[t] = 0 /\ Untainted # {}
           THEN Probe(t, pl, pb, nout, ifp)
           ELSE NoProbe(pl, pb, nout, ifp)
        /\ (lock' = "rexmit_work" /\ todo' = On("rexmitq")) \/
           (lock' = "free" /\ todo' = todo)
        /\ maxout' = maxout /\ nifs' = nifs
    BY ZenonT(30), <1>16 DEF KtioComplete, StartWork, Unlock
  <2>2. CountsOK(pl, pb, nout, nout_probes)
    BY ZenonT(60), <2>1, CountsMove
  <2> HIDE DEF pb
  <2>3. /\ CountsOK(place', probing', nout', nout_probes')
        /\ ifp' \in [Tgt -> 1..NIf]
        /\ \A g \in Frame : pl[g] = "rexmitq" => place'[g] = "rexmitq"
    <3>1. CASE taint[t] > 1 /\ nout_probes[t] = 0 /\ Untainted # {}
      <4>1. Probe(t, pl, pb, nout, ifp)
        BY ZenonT(30), <2>1, <3>1
      <4> HIDE DEF t, pl
      <4> QED
        BY ZenonT(30), <2>1, <2>2, <3>1, <4>1, ProbeKeeps
    <3>2. CASE ~(taint[t] > 1 /\ nout_probes[t] = 0 /\ Untainted # {})
      <4>1. NoProbe(pl, pb, nout, ifp)
        BY ZenonT(30), <2>1, <3>2
      <4> HIDE DEF t, pl
      <4> QED
        BY ZenonT(30), <2>2, <4>1 DEF NoProbe
    <3> QED
      BY ZenonT(60), <3>1, <3>2
  <2>4. taint' \in [Tgt -> 0..MaxTaint]
    <3>1. MaxTaint \in Nat /\ taint \in [Tgt -> 0..MaxTaint]
      BY ZenonT(30), IoAssumption
    <3>2. taint' = [taint EXCEPT ![t] = IF taint[t] > 0 THEN taint[t] - 1 ELSE 0]
      BY ZenonT(30), <2>1
    <3>3. (IF taint[t] > 0 THEN taint[t] - 1 ELSE 0) \in 0..MaxTaint
      BY <2>1, <3>1
    <3> QED
      BY ZenonT(30), <3>1, <3>2, <3>3
  <2>5. WindowTypes'
    BY ZenonT(30), <2>1, <2>3, <2>4 DEF Lock, On
  <2>6. InRexmit' => todo' \subseteq On("rexmitq")'
    BY ZenonT(30), <2>1, <2>3 DEF InRexmit, On
  <2> QED
    BY ZenonT(60), <1>suf, <2>3, <2>5, <2>6
<1>17. ASSUME NEW E \in SUBSET Frame, TimerFires(E) PROVE WindowInv'
  <2>1. /\ place' \in [Frame -> Place] /\ Busy(place') = Busy(place)
        /\ \A f \in Frame : place[f] # "free" => place'[f] # "free"
    BY ZenonT(30), <1>17 DEF TimerFires, Busy, On, Place
  <2>2. CountsOK(place', probing', nout', nout_probes')
    BY ZenonT(60), <1>17, <2>1 DEF TimerFires, winVars, CountsOK
  <2>3. WindowTypes' /\ ~InRexmit'
    BY ZenonT(30), <1>17 DEF TimerFires, winVars, ifVars, InRexmit, Lock
  <2> QED
    BY ZenonT(30), <1>suf, <2>2, <2>3
<1>18. ASSUME NEW f \in Frame, TimerDefer(f) PROVE WindowInv'
  <2>1. place[f] \in {"active", "flist"} /\ "rexmitq" \in {"iocq", "rexmitq"}
    BY ZenonT(30), <1>18 DEF TimerDefer, Ejectif
  <2>2. CountsOK([place EXCEPT ![f] = "rexmitq"], probing,
                 [nout EXCEPT ![TgtOf[f]] = @ - 1],
                 IF f \in probing THEN [nout_probes EXCEPT ![TgtOf[f]] = @ - 1]
                                  ELSE nout_probes)
    BY <2>1, CountsBack, ZenonT(60)
  <2>3. /\ place' = [place EXCEPT ![f] = "rexmitq"] /\ probing' = probing
        /\ nout' = [nout EXCEPT ![TgtOf[f]] = @ - 1]
        /\ nout_probes' = IF f \in probing
                          THEN [nout_probes EXCEPT ![TgtOf[f]] = @ - 1]
                          ELSE nout_probes
    BY ZenonT(30), <1>18 DEF TimerDefer, Ejectif
  <2>4. CountsOK(place', probing', nout', nout_probes')
    BY <2>2, <2>3, ZenonT(60)
  <2>5. taint' \in [Tgt -> 0..MaxTaint]
    BY <1>18, IoAssumption DEF TimerDefer, Ejectif, Scorned
  <2>6. maxout' \in [Tgt -> 1..NFrames] /\ nifs' \in [Tgt -> 1..NIf]
    BY <1>18, IoAssumption DEF TimerDefer, Ejectif
  <2>7. WindowTypes' /\ ~InRexmit'
    BY ZenonT(30), <1>18, <2>5, <2>6 DEF TimerDefer, Ejectif, ctlVars, InRexmit
  <2> QED
    BY ZenonT(30), <1>suf, <2>4, <2>7
<1>19. ASSUME NEW f \in Frame, TimerDead(f) PROVE WindowInv'
  <2>1. /\ place' = [g \in Frame |-> IF g \in DownFrames THEN "free" ELSE place[g]]
        /\ probing' = probing \ DownFrames
        /\ nout' = [t \in Tgt |-> 0] /\ nout_probes' = nout_probes
        /\ maxout' = [t \in Tgt |-> 1] /\ taint' = taint
        /\ nifs' = nifs /\ ifp' = ifp /\ lock' = "free" /\ todo' = todo
    BY ZenonT(60), <1>19 DEF TimerDead, Downdev, Wreset, Unlock, ifVars
  <2>2. /\ place' \in [Frame -> Place] /\ Busy(place') = {}
        /\ probing' \in SUBSET Frame /\ \A g \in probing' : place'[g] # "free"
    BY ZenonT(30), <2>1 DEF Busy, DownFrames, On, Place, CountsOK
  <2>3. \A t \in Tgt : /\ Cardinality(Of(Busy(place'), t)) = 0
                       /\ Cardinality(Of(Busy(place') \cap probing', t)) = 0
    <3>1. \A t \in Tgt : Of(Busy(place'), t) = {} /\ Of(Busy(place') \cap probing', t) = {}
      BY ZenonT(30), <2>2 DEF Of
    <3> QED
      BY ZenonT(60), <3>1, FS_EmptySet
  <2>4. NoutOK(nout', Busy(place')) /\ ProbesOK(nout_probes', Busy(place') \cap probing')
    <3>1. \A t \in Tgt : nout'[t] = 0 /\ nout_probes'[t] >= 0
      BY <2>1
    <3> QED
      BY ZenonT(60), <2>3, <3>1 DEF NoutOK, ProbesOK
  <2>5. CountsOK(place', probing', nout', nout_probes')
    <3>1. nout' \in [Tgt -> Nat] /\ nout_probes' \in [Tgt -> Nat]
      <4>1. 0 \in Nat
        OBVIOUS
      <4>2. nout' \in [Tgt -> Nat]
        BY ZenonT(60), <2>1, <4>1
      <4>3. nout_probes' \in [Tgt -> Nat]
        BY ZenonT(60), <2>1 DEF CountsOK
      <4> QED
        BY ZenonT(60), <4>2, <4>3
    <3>2. \A t \in Tgt : nout'[t] <= NFrames + (IF nout_probes'[t] > 0 THEN 1 ELSE 0)
      <4>1. \A t \in Tgt : nout'[t] = 0
        BY ZenonT(60), <2>1
      <4>2. NFrames \in Nat
        BY ZenonT(60), IoAssumption
      <4>3. 0 <= NFrames + 0 /\ 0 <= NFrames + 1
        BY <4>2
      <4> QED
        BY ZenonT(60), <4>1, <4>3
    <3> QED
      BY ZenonT(60), <2>2, <2>4, <3>1, <3>2 DEF CountsOK
  <2>6. WindowTypes' /\ ~InRexmit'
    BY <2>1, IoAssumption DEF InRexmit, Lock
  <2> QED
    BY <1>suf, <2>5, <2>6
<1>20. CASE TimerDeferred
  BY ZenonT(30), <1>20, <1>same DEF TimerDeferred, Lock, On, InRexmit
<1>id. ASSUME NEW w \in [Tgt -> 1..NFrames], NEW sent \in BOOLEAN, AtaId(w, sent),
              UNCHANGED <<probing, nout_probes>>
       PROVE  CountsOK(place', probing', nout', nout_probes') /\ ifp' \in [Tgt -> 1..NIf]
  <2>1. ASSUME NEW f \in NewFrames(w),
               place' = [place EXCEPT ![f] = "active"],
               nout' = [nout EXCEPT ![TgtOf[f]] = @ + 1],
               ifp' = Rotate(ifp, TgtOf[f])
        PROVE  CountsOK(place', probing', nout', nout_probes') /\ ifp' \in [Tgt -> 1..NIf]
    <3>1. CountsOK(place', probing', nout', nout_probes')
      BY <1>free, <1>id, <2>1, ZenonT(60)
    <3>2. ifp' \in [Tgt -> 1..NIf]
      BY ZenonT(60), <1>free, <2>1, RotateType
    <3> QED
      BY ZenonT(30), <3>1, <3>2
  <2>2. CASE UNCHANGED <<place, nout, ifp>>
    BY ZenonT(30), <1>id, <2>2
  <2> QED
    BY ZenonT(30), <1>id, <2>1, <2>2 DEF AtaId
<1>21. CASE Revalidate
  <2>1. [t \in Tgt |-> 1] \in [Tgt -> 1..NFrames]
    BY IoAssumption
  <2>2. CountsOK(place', probing', nout', nout_probes') /\ ifp' \in [Tgt -> 1..NIf]
    BY ZenonT(30), <1>21, <1>id, <2>1 DEF Revalidate, Wreset
  <2>3. WindowTypes' /\ ~InRexmit'
    BY ZenonT(30), <1>21, <2>1, <2>2 DEF Revalidate, Wreset, InRexmit
  <2> QED
    BY ZenonT(30), <1>suf, <2>2, <2>3
<1>22. CASE RevalidateAgain
  <2>1. CountsOK(place', probing', nout', nout_probes') /\ ifp' \in [Tgt -> 1..NIf]
    <3>1. CASE \E sent \in BOOLEAN : AtaId(maxout, sent)
      BY ZenonT(30), <1>22, <1>id, <3>1 DEF RevalidateAgain
    <3>2. CASE UNCHANGED <<place, nout, ifp>>
      BY ZenonT(30), <1>22, <3>2 DEF RevalidateAgain
    <3> QED
      BY ZenonT(30), <1>22, <3>1, <3>2 DEF RevalidateAgain
  <2>2. WindowTypes' /\ ~InRexmit'
    BY ZenonT(30), <1>22, <2>1 DEF RevalidateAgain, InRexmit
  <2> QED
    BY <1>suf, <2>1, <2>2
<1>25. ASSUME NEW t \in Tgt, CfgRsp(t) PROVE WindowInv'
  <2>1. CountsOK(place', probing', nout', nout_probes')
    BY <1>25, ZenonT(60) DEF CfgRsp, frameVars, winVars
  <2>2. WindowTypes' /\ ~InRexmit'
    BY <1>25, IoAssumption DEF CfgRsp, winVars, ctlVars, InRexmit
  <2> QED
    BY ZenonT(30), <1>suf, <2>1, <2>2
<1>23. CASE Sleepwork
  BY ZenonT(30), <1>23, <1>same DEF Sleepwork, ctlVars, InRexmit
<1>24. CASE Halted \/ UNCHANGED vars
  BY ZenonT(30), <1>24, <1>same DEF Halted, vars, ctlVars, InRexmit
<1> QED
  BY ZenonT(30), <1>1, <1>2, <1>3, <1>4, <1>5, <1>6, <1>7, <1>8, <1>9, <1>10, <1>11, <1>12,
     <1>13, <1>14, <1>15, <1>16, <1>17, <1>18, <1>19, <1>20, <1>21, <1>22, <1>23,
     <1>24, <1>25 DEF Next

\* The counts and the bound follow from the invariant.
LEMMA WindowImplies ==
    WindowInv => NoutExact /\ ProbesCounted /\ WindowBound
<1> SUFFICES ASSUME WindowInv
             PROVE  NoutExact /\ ProbesCounted /\ WindowBound
  OBVIOUS
<1>1. Busy(place) = Out
  BY DEF WindowInv, CountsOK, Busy, Out, On
<1>2. NoutExact /\ ProbesCounted
  BY ZenonT(60), <1>1 DEF WindowInv, CountsOK, NoutOK, ProbesOK, NoutExact, ProbesCounted
<1>3. WindowBound
  BY IoAssumption DEF WindowInv, CountsOK, WindowBound
<1> QED
  BY <1>2, <1>3

\* The invariant holds of every behaviour of the driver.
THEOREM WindowInvariant == Spec => []WindowInv
BY WindowInit, WindowNext, PTL DEF Spec

\* t->nout is always the number of frames of the target that await an answer,
\* whatever is sent, answered, lost, reassigned or failed, and in whatever order.
THEOREM NoutIsExact == Spec => []NoutExact
BY WindowInvariant, WindowImplies, PTL

\* t->nout_probes always covers the probes that await an answer.
THEOREM ProbesAreCounted == Spec => []ProbesCounted
BY WindowInvariant, WindowImplies, PTL

\* No target ever has more than nframes + 1 commands outstanding.
THEOREM WindowIsBounded == Spec => []WindowBound
BY WindowInvariant, WindowImplies, PTL

----------------------------------------------------------------------------
(* Requests, bios and bufs.                                                *)

\* Sums of natural numbers.
LEMMA Sums ==
    /\ \A l, n, a \in Nat : (l - 1) + (n + 1) + a = l + n + a
    /\ \A l, n, a \in Nat : l + (n - 1) + (a + 1) = l + n + a
    /\ \A a \in Nat : 0 + 1 + a = a + 1
    /\ \A n \in Nat : n - 0 = n /\ (n > 0 \/ n = 0)
    /\ \A n \in Nat : \A m \in 0..n : n # m => n - m > 0
OBVIOUS

RqState == {"new", "queued", "started", "done"}

\* Requests and the set U of their bios that are not finished.
ReqsOK(rq, sp, U) ==
    /\ rq \in [Req -> RqState] /\ sp \in [Req -> Nat] /\ U \in SUBSET Bio
    /\ \A b \in U : rq[RqOf[b]] = "started"
    /\ \A r \in Req : rq[r] = "started" =>
         /\ sp[r] = Cardinality({b \in U : RqOf[b] = r})
         /\ \E b \in U : RqOf[b] = r

\* Frames and the bufs lv that they carry.
FramesOK(fb, nf, lv) ==
    /\ fb \in [Frame -> Bio \cup {None}] /\ nf \in [Bio -> Nat] /\ lv \in SUBSET Bio
    /\ \A f \in Frame : fb[f] # None => fb[f] \in lv
    /\ \A b \in lv : nf[b] = Cardinality({f \in Frame : fb[f] = b})

\* A buf is with its frames or in the hands of aoecmd_ata_rw.
SentOK(ib, lv, lf, nf) ==
    /\ ib \in lv \cup {None} /\ lf \in [Bio -> Nat]
    /\ \A b \in lv : nf[b] > 0 \/ b = ib
    /\ \A b \in lv : lf[b] > 0 => b = ib

\* The request in progress.
IpOK(ir, nx, rq, lv) ==
    /\ ir \in Req \cup {None} /\ lv \cap nx = {}
    /\ ir = None => nx = {}
    /\ ir # None => rq[ir] = "started" /\ nx \subseteq Bios(ir)

\* A free frame carries nothing, and neither does a probe.
PlacesOK(pl, pb, fb) ==
    /\ \A f \in Frame : fb[f] # None => pl[f] # "free"
    /\ \A f \in pb : fb[f] = None

\* A bio that has not failed: every frame's worth of it is still to be sent, or
\* is with a frame, or has been answered.
BioConserved(b, rq, nx, lv, lf, nf, ak) ==
    /\ rq[RqOf[b]] \in {"new", "queued"} \/ b \in nx => ak[b] = 0
    /\ b \in lv => lf[b] + nf[b] + ak[b] = Size[b]
    /\ rq[RqOf[b]] \in {"started", "done"} /\ b \notin lv \cup nx => ak[b] = Size[b]

FlagTypes ==
    /\ up \in BOOLEAN /\ kickme \in BOOLEAN /\ newsize \in BOOLEAN
    /\ plugged \in BOOLEAN /\ nreval \in 0..MaxReval /\ reval \in BOOLEAN

\* The inductive invariant, relative to WindowInv.
BufInv ==
    /\ FlagTypes
    /\ ReqsOK(rqs, special, live \cup nxbio)
    /\ FramesOK(fbuf, nframesout, live)
    /\ SentOK(ipbuf, live, left, nframesout)
    /\ IpOK(iprq, nxbio, rqs, live)
    /\ PlacesOK(place, probing, fbuf)
    /\ acked \in [Bio -> Nat] /\ err \in SUBSET Bio
    /\ \A b \in Bio \ err :
         /\ BioConserved(b, rqs, nxbio, live, left, nframesout, acked)
         /\ b = ipbuf => left[b] > 0

----------------------------------------------------------------------------
(* Finite sets.                                                            *)

\* The bios of a request, and the frames of a buf, are finitely many.
LEMMA Finite ==
    /\ \A U \in SUBSET Bio : IsFiniteSet(U) /\ Cardinality(U) \in Nat
    /\ \A S \in SUBSET Frame : IsFiniteSet(S) /\ Cardinality(S) \in Nat
BY IoAssumption, FS_Subset, FS_CardinalityType

\* Taking a part out of a finite set.
LEMMA CardinalityMinus ==
    ASSUME NEW A, IsFiniteSet(A), NEW B \in SUBSET A
    PROVE  /\ Cardinality(A) \in Nat /\ Cardinality(B) \in Nat
           /\ Cardinality(A \ B) = Cardinality(A) - Cardinality(B)
           /\ Cardinality(B) <= Cardinality(A)
           /\ Cardinality(B) = Cardinality(A) <=> A \ B = {}
<1>1. IsFiniteSet(B) /\ IsFiniteSet(A \ B)
  BY FS_Subset
<1>2. (A \ B) \cup B = A /\ (A \ B) \cap B = {}
  OBVIOUS
<1>3. Cardinality(A) = Cardinality(A \ B) + Cardinality(B) - Cardinality({})
  BY <1>1, <1>2, FS_Union
<1>4. Cardinality({}) = 0 /\ (Cardinality(A \ B) = 0 <=> A \ B = {})
  BY <1>1, FS_EmptySet
<1>5. /\ Cardinality(A) \in Nat /\ Cardinality(B) \in Nat
      /\ Cardinality(A \ B) \in Nat
  BY <1>1, FS_CardinalityType
<1> QED
  BY <1>3, <1>4, <1>5

----------------------------------------------------------------------------
(* Requests.                                                               *)

\* EndBios for bios fin that are not finished: the requests that have no other
\* unfinished bio end, and no others do.
LEMMA EndBiosReqs ==
    ASSUME NEW U, ReqsOK(rqs, special, U), NEW fin \in SUBSET U,
           NEW drain \in BOOLEAN, EndBios(fin, drain)
    PROVE  /\ ReqsOK(rqs', special', U \ fin)
           /\ \A r \in Req :
                \/ rqs'[r] = rqs[r]
                \/ rqs'[r] = "done" /\ rqs[r] = "started" /\ r \in EndedBy(fin)
                \/ rqs'[r] = "done" /\ rqs[r] = "queued" /\ drain
           /\ \A r \in EndedBy(fin) : r \in Req /\ rqs'[r] = "done"
<1> DEFINE A(r) == {b \in U : RqOf[b] = r}
           F(r) == {b \in fin : RqOf[b] = r}
<1>1. /\ U \in SUBSET Bio /\ rqs \in [Req -> RqState] /\ special \in [Req -> Nat]
      /\ \A b \in U : rqs[RqOf[b]] = "started"
      /\ \A r \in Req : rqs[r] = "started" =>
           special[r] = Cardinality(A(r)) /\ \E b \in U : RqOf[b] = r
      /\ RqOf \in [Bio -> Req]
  BY IoAssumption DEF ReqsOK
<1>2. /\ special' = [r \in Req |-> special[r] - Cardinality(F(r))]
      /\ rqs' = [r \in Req |-> IF r \in EndedBy(fin) \/ (drain /\ r \in Queued)
                               THEN "done" ELSE rqs[r]]
  BY DEF EndBios
<1>3. ASSUME NEW r \in Req
      PROVE  /\ Cardinality(A(r)) \in Nat /\ Cardinality(F(r)) \in Nat
             /\ Cardinality(A(r) \ F(r)) = Cardinality(A(r)) - Cardinality(F(r))
             /\ Cardinality(F(r)) <= Cardinality(A(r))
             /\ Cardinality(F(r)) = Cardinality(A(r)) <=> A(r) \ F(r) = {}
  <2>1. F(r) \in SUBSET A(r) /\ A(r) \in SUBSET Bio
    BY <1>1
  <2>2. IsFiniteSet(A(r))
    BY <2>1, Finite
  <2> HIDE DEF A, F
  <2> QED
    BY ZenonT(60), <2>1, <2>2, CardinalityMinus
<1>4. ASSUME NEW r \in Req, rqs[r] # "started"
      PROVE  F(r) = {} /\ Cardinality(F(r)) = 0
  <2>1. F(r) = {}
    BY <1>1, <1>4
  <2> QED
    BY <2>1, FS_EmptySet
<1>5. \A r \in EndedBy(fin) : r \in Req /\ rqs[r] = "started" /\ A(r) \ F(r) = {}
  <2> SUFFICES ASSUME NEW r \in EndedBy(fin)
               PROVE  r \in Req /\ rqs[r] = "started" /\ A(r) \ F(r) = {}
    OBVIOUS
  <2>1. /\ \E b \in fin : r = RqOf[b]
        /\ special[r] = Cardinality(F(r))
    BY DEF EndedBy
  <2>2. r \in Req /\ rqs[r] = "started"
    BY <1>1, <2>1
  <2> QED
    BY ZenonT(60), <1>1, <1>3, <2>1, <2>2
<1>6. ASSUME NEW r \in Req, rqs[r] = "started", r \notin EndedBy(fin)
      PROVE  A(r) \ F(r) # {}
  <2>1. CASE F(r) = {}
    BY ZenonT(60), <1>1, <1>6, <2>1
  <2>2. CASE F(r) # {}
    <3>1. r \in {RqOf[b] : b \in fin}
      BY <2>2
    <3>2. special[r] # Cardinality(F(r))
      BY <1>6, <3>1 DEF EndedBy
    <3> QED
      BY ZenonT(30), <1>1, <1>3, <1>6, <3>2
  <2> QED
    BY <2>1, <2>2
<1>7. special' \in [Req -> Nat]
  <2>1. \A r \in Req : special[r] - Cardinality(F(r)) \in Nat
    <3> SUFFICES ASSUME NEW r \in Req
                 PROVE  special[r] - Cardinality(F(r)) \in Nat
      OBVIOUS
    <3>1. CASE rqs[r] = "started"
      <4>1. special[r] = Cardinality(A(r))
        BY <1>1, <3>1
      <4>2. /\ Cardinality(A(r)) \in Nat /\ Cardinality(F(r)) \in Nat
            /\ Cardinality(F(r)) <= Cardinality(A(r))
        BY ZenonT(60), <1>3
      <4> HIDE DEF A, F
      <4> QED
        BY <4>1, <4>2
    <3>2. CASE rqs[r] # "started"
      BY <1>1, <1>4, <3>2
    <3> QED
      BY <3>1, <3>2
  <2> QED
    BY <1>2, <2>1
<1>8. rqs' \in [Req -> RqState]
  BY <1>1, <1>2 DEF RqState
<1>9. ASSUME NEW b \in U \ fin PROVE rqs'[RqOf[b]] = "started"
  <2>1. b \in A(RqOf[b]) \ F(RqOf[b]) /\ RqOf[b] \in Req /\ rqs[RqOf[b]] = "started"
    BY <1>1, <1>9
  <2>2. RqOf[b] \notin EndedBy(fin) /\ RqOf[b] \notin Queued
    BY <1>5, <2>1 DEF Queued
  <2> QED
    BY <1>2, <2>1, <2>2
<1>10. ASSUME NEW r \in Req, rqs'[r] = "started"
       PROVE  /\ special'[r] = Cardinality({b \in U \ fin : RqOf[b] = r})
              /\ \E b \in U \ fin : RqOf[b] = r
  <2>1. rqs[r] = "started" /\ r \notin EndedBy(fin)
    BY <1>2, <1>10
  <2>2. {b \in U \ fin : RqOf[b] = r} = A(r) \ F(r)
    OBVIOUS
  <2>3. special'[r] = Cardinality(A(r) \ F(r))
    BY ZenonT(60), <1>1, <1>2, <1>3, <2>1
  <2>4. A(r) \ F(r) # {}
    BY <1>6, <2>1
  <2> QED
    BY <2>2, <2>3, <2>4
<1>11. ReqsOK(rqs', special', U \ fin)
  BY ZenonT(30), <1>1, <1>7, <1>8, <1>9, <1>10 DEF ReqsOK
<1>12. \A r \in EndedBy(fin) : r \in Req /\ rqs'[r] = "done"
  BY <1>2, <1>5
<1>13. \A r \in Req :
         \/ rqs'[r] = rqs[r]
         \/ rqs'[r] = "done" /\ rqs[r] = "started" /\ r \in EndedBy(fin)
         \/ rqs'[r] = "done" /\ rqs[r] = "queued" /\ drain
  BY <1>2, <1>5 DEF Queued
<1> QED
  BY <1>11, <1>12, <1>13

\* A queued request is taken up with all its bios.
LEMMA StartReqs ==
    ASSUME NEW rq, NEW sp, NEW U, ReqsOK(rq, sp, U),
           NEW r \in Req, rq[r] = "queued"
    PROVE  ReqsOK([rq EXCEPT ![r] = "started"],
                  [sp EXCEPT ![r] = Cardinality(Bios(r))], U \cup Bios(r))
<1> DEFINE nrq == [rq EXCEPT ![r] = "started"]
           nsp == [sp EXCEPT ![r] = Cardinality(Bios(r))]
           V == U \cup Bios(r)
<1>1. /\ U \in SUBSET Bio /\ rq \in [Req -> RqState] /\ sp \in [Req -> Nat]
      /\ \A b \in U : rq[RqOf[b]] = "started"
      /\ \A s \in Req : rq[s] = "started" =>
           sp[s] = Cardinality({b \in U : RqOf[b] = s}) /\ \E b \in U : RqOf[b] = s
      /\ RqOf \in [Bio -> Req]
  BY IoAssumption DEF ReqsOK
<1>2. Bios(r) \in SUBSET Bio /\ \A b \in Bios(r) : RqOf[b] = r
  BY DEF Bios
<1>3. nrq \in [Req -> RqState] /\ V \in SUBSET Bio
  BY <1>1, <1>2 DEF RqState
<1>4. nsp \in [Req -> Nat]
  BY <1>1, <1>2, Finite
<1>5. \A b \in V : nrq[RqOf[b]] = "started"
  BY <1>1, <1>2
<1>6. {b \in V : RqOf[b] = r} = Bios(r) /\ \E b \in V : RqOf[b] = r
  BY <1>1, IoAssumption DEF Bios
<1>7. \A s \in Req \ {r} : {b \in V : RqOf[b] = s} = {b \in U : RqOf[b] = s}
  BY <1>2
<1>8. ASSUME NEW s \in Req, nrq[s] = "started"
      PROVE  nsp[s] = Cardinality({b \in V : RqOf[b] = s}) /\ \E b \in V : RqOf[b] = s
  <2>1. CASE s = r
    BY <1>1, <1>6, <2>1
  <2>2. CASE s # r
    BY ZenonT(30), <1>1, <1>7, <1>8, <2>2
  <2> QED
    BY <2>1, <2>2
<1> QED
  BY ZenonT(30), <1>3, <1>4, <1>5, <1>8 DEF ReqsOK

----------------------------------------------------------------------------
(* Frames.                                                                 *)

\* A free frame takes a piece of a buf.
LEMMA FramesSend ==
    ASSUME NEW fb, NEW nf, NEW lv, FramesOK(fb, nf, lv),
           NEW f \in Frame, fb[f] = None, NEW b \in lv
    PROVE  FramesOK([fb EXCEPT ![f] = b], [nf EXCEPT ![b] = @ + 1], lv)
<1> DEFINE S(c) == {g \in Frame : fb[g] = c}
           T(c) == {g \in Frame : [fb EXCEPT ![f] = b][g] = c}
<1>1. /\ fb \in [Frame -> Bio \cup {None}] /\ nf \in [Bio -> Nat] /\ lv \in SUBSET Bio
      /\ \A g \in Frame : fb[g] # None => fb[g] \in lv
      /\ \A c \in lv : nf[c] = Cardinality(S(c))
      /\ None \notin Bio
  BY IoAssumption DEF FramesOK
<1>2. T(b) = S(b) \cup {f} /\ f \notin S(b)
  BY <1>1
<1>3. \A c \in lv \ {b} : T(c) = S(c)
  BY <1>1
<1>4. Cardinality(T(b)) = Cardinality(S(b)) + 1
  <2>1. IsFiniteSet(S(b))
    BY Finite
  <2> HIDE DEF S, T
  <2> QED
    BY ZenonT(60), <1>2, <2>1, FS_AddElement
<1>5. \A c \in lv : [nf EXCEPT ![b] = @ + 1][c] = Cardinality(T(c))
  BY ZenonT(60), <1>1, <1>3, <1>4
<1>6. /\ [fb EXCEPT ![f] = b] \in [Frame -> Bio \cup {None}]
      /\ [nf EXCEPT ![b] = @ + 1] \in [Bio -> Nat]
      /\ \A g \in Frame : [fb EXCEPT ![f] = b][g] # None => [fb EXCEPT ![f] = b][g] \in lv
  BY <1>1
<1> QED
  BY <1>1, <1>5, <1>6 DEF FramesOK

\* A frame gives up its buf.
LEMMA FramesBack ==
    ASSUME NEW fb, NEW nf, NEW lv, FramesOK(fb, nf, lv),
           NEW f \in Frame, fb[f] # None
    PROVE  /\ FramesOK([fb EXCEPT ![f] = None], [nf EXCEPT ![fb[f]] = @ - 1], lv)
           /\ nf[fb[f]] > 0
<1> DEFINE b == fb[f]
           S(c) == {g \in Frame : fb[g] = c}
           T(c) == {g \in Frame : [fb EXCEPT ![f] = None][g] = c}
<1>1. /\ fb \in [Frame -> Bio \cup {None}] /\ nf \in [Bio -> Nat] /\ lv \in SUBSET Bio
      /\ \A g \in Frame : fb[g] # None => fb[g] \in lv
      /\ \A c \in lv : nf[c] = Cardinality(S(c))
      /\ None \notin Bio
  BY IoAssumption DEF FramesOK
<1>2. T(b) = S(b) \ {f} /\ f \in S(b) /\ b \in lv
  BY <1>1
<1>3. \A c \in lv \ {b} : T(c) = S(c)
  BY <1>1
<1>4. Cardinality(T(b)) = Cardinality(S(b)) - 1 /\ Cardinality(S(b)) \in Nat \ {0}
  <2>1. IsFiniteSet(S(b))
    BY Finite
  <2> HIDE DEF S, T
  <2>2. Cardinality(T(b)) = Cardinality(S(b)) - 1
    BY ZenonT(60), <1>2, <2>1, FS_RemoveElement
  <2>3. Cardinality(S(b)) \in Nat /\ Cardinality(S(b)) # 0
    BY ZenonT(30), <1>2, <2>1, FS_EmptySet, FS_CardinalityType
  <2> QED
    BY <2>2, <2>3
<1>5. nf[b] > 0
  BY <1>1, <1>2, <1>4
<1>6. \A c \in lv : [nf EXCEPT ![b] = @ - 1][c] = Cardinality(T(c))
  BY ZenonT(60), <1>1, <1>2, <1>3, <1>4
<1>7. /\ [fb EXCEPT ![f] = None] \in [Frame -> Bio \cup {None}]
      /\ [nf EXCEPT ![b] = @ - 1] \in [Bio -> Nat]
      /\ \A g \in Frame :
           [fb EXCEPT ![f] = None][g] # None => [fb EXCEPT ![f] = None][g] \in lv
  BY <1>1, <1>2, <1>5
<1> QED
  BY ZenonT(30), <1>1, <1>5, <1>6, <1>7 DEF FramesOK

\* A frame hands its buf to a free one.
LEMMA FramesMove ==
    ASSUME NEW fb, NEW nf, NEW lv, FramesOK(fb, nf, lv),
           NEW f \in Frame, NEW g \in Frame, f # g, fb[g] = None
    PROVE  FramesOK([fb EXCEPT ![g] = fb[f], ![f] = None], nf, lv)
<1> DEFINE nfb == [fb EXCEPT ![g] = fb[f], ![f] = None]
           S(c) == {h \in Frame : fb[h] = c}
           T(c) == {h \in Frame : nfb[h] = c}
<1>1. /\ fb \in [Frame -> Bio \cup {None}] /\ nf \in [Bio -> Nat] /\ lv \in SUBSET Bio
      /\ \A h \in Frame : fb[h] # None => fb[h] \in lv
      /\ \A c \in lv : nf[c] = Cardinality(S(c))
      /\ None \notin Bio
  BY IoAssumption DEF FramesOK
<1>2. /\ nfb \in [Frame -> Bio \cup {None}]
      /\ \A h \in Frame : nfb[h] # None => nfb[h] \in lv
  BY <1>1
<1>3. ASSUME NEW c \in lv PROVE Cardinality(T(c)) = Cardinality(S(c))
  <2>1. CASE fb[f] # c
    <3>1. T(c) = S(c)
      BY <1>1, <2>1
    <3> QED
      BY ZenonT(60), <3>1
  <2>2. CASE fb[f] = c
    <3>1. /\ S(c) = (S(c) \ {f}) \cup {f} /\ T(c) = (S(c) \ {f}) \cup {g}
          /\ g \notin S(c) \ {f} /\ f \notin S(c) \ {f}
      BY <1>1, <2>2
    <3>2. IsFiniteSet(S(c) \ {f})
      BY Finite
    <3> HIDE DEF S, T
    <3>3. Cardinality(S(c)) = Cardinality(S(c) \ {f}) + 1
      BY ZenonT(30), <3>1, <3>2, FS_AddElement
    <3>4. Cardinality(T(c)) = Cardinality(S(c) \ {f}) + 1
      BY ZenonT(30), <3>1, <3>2, FS_AddElement
    <3> QED
      BY <3>3, <3>4
  <2> QED
    BY <2>1, <2>2
<1> QED
  BY ZenonT(60), <1>1, <1>2, <1>3 DEF FramesOK

\* Bufs that no frame carries can go.
LEMMA FramesEnd ==
    ASSUME NEW fb, NEW nf, NEW lv, FramesOK(fb, nf, lv), NEW fin,
           \A b \in lv \cap fin : nf[b] = 0
    PROVE  FramesOK(fb, nf, lv \ fin)
<1>1. /\ fb \in [Frame -> Bio \cup {None}] /\ nf \in [Bio -> Nat] /\ lv \in SUBSET Bio
      /\ \A g \in Frame : fb[g] # None => fb[g] \in lv
      /\ \A c \in lv : nf[c] = Cardinality({g \in Frame : fb[g] = c})
  BY DEF FramesOK
<1>2. ASSUME NEW g \in Frame, fb[g] \in fin, fb[g] \in lv PROVE FALSE
  <2> DEFINE S == {h \in Frame : fb[h] = fb[g]}
  <2>1. Cardinality(S) = 0 /\ g \in S
    BY <1>1, <1>2
  <2>2. IsFiniteSet(S)
    BY Finite
  <2> HIDE DEF S
  <2> QED
    BY <2>1, <2>2, FS_EmptySet
<1> QED
  BY <1>1, <1>2 DEF FramesOK

\* A new buf, which no frame carries yet.
LEMMA FramesNew ==
    ASSUME NEW fb, NEW nf, NEW lv, FramesOK(fb, nf, lv), NEW b \in Bio, b \notin lv
    PROVE  FramesOK(fb, [nf EXCEPT ![b] = 0], lv \cup {b})
<1>1. /\ fb \in [Frame -> Bio \cup {None}] /\ nf \in [Bio -> Nat] /\ lv \in SUBSET Bio
      /\ \A g \in Frame : fb[g] # None => fb[g] \in lv
      /\ \A c \in lv : nf[c] = Cardinality({g \in Frame : fb[g] = c})
      /\ b # None
  BY IoAssumption DEF FramesOK
<1>2. {g \in Frame : fb[g] = b} = {}
  BY <1>1
<1>3. Cardinality({g \in Frame : fb[g] = b}) = 0
  BY <1>2, FS_EmptySet
<1> QED
  BY <1>1, <1>3 DEF FramesOK

\* The frames M give up what they carry.
LEMMA FramesDown ==
    ASSUME NEW fb, NEW nf, NEW lv, FramesOK(fb, nf, lv), NEW M \in SUBSET Frame
    PROVE  /\ FramesOK([f \in Frame |-> IF f \in M THEN None ELSE fb[f]],
                       [b \in Bio |-> nf[b] - Cardinality({f \in Frame : fb[f] = b} \cap M)],
                       lv)
           /\ \A b \in Bio : Cardinality({f \in Frame : fb[f] = b} \cap M) \in 0..nf[b]
<1> DEFINE S(b) == {f \in Frame : fb[f] = b}
           nfb == [f \in Frame |-> IF f \in M THEN None ELSE fb[f]]
           L(b) == S(b) \cap M
           lost(b) == Cardinality(L(b))
<1>1. /\ fb \in [Frame -> Bio \cup {None}] /\ nf \in [Bio -> Nat] /\ lv \in SUBSET Bio
      /\ \A g \in Frame : fb[g] # None => fb[g] \in lv
      /\ \A c \in lv : nf[c] = Cardinality(S(c))
      /\ None \notin Bio
  BY IoAssumption DEF FramesOK
<1>2. ASSUME NEW b \in Bio
      PROVE  /\ lost(b) \in 0..nf[b]
             /\ b \in lv => nf[b] - lost(b) = Cardinality({f \in Frame : nfb[f] = b})
  <2>1. {f \in Frame : nfb[f] = b} = S(b) \ L(b)
    BY <1>1, <1>2
  <2>2. /\ lost(b) \in Nat /\ Cardinality(S(b)) \in Nat
        /\ Cardinality(S(b) \ L(b)) = Cardinality(S(b)) - lost(b)
        /\ lost(b) <= Cardinality(S(b))
    <3>1. IsFiniteSet(S(b)) /\ L(b) \in SUBSET S(b)
      BY Finite
    <3> HIDE DEF S, L
    <3>2. \A A, B : IsFiniteSet(A) /\ B \in SUBSET A =>
                      /\ Cardinality(A) \in Nat /\ Cardinality(B) \in Nat
                      /\ Cardinality(A \ B) = Cardinality(A) - Cardinality(B)
                      /\ Cardinality(B) <= Cardinality(A)
      BY CardinalityMinus
    <3> QED
      BY <3>1, <3>2
  <2>3. CASE b \in lv
    <3>1. nf[b] = Cardinality(S(b))
      BY <1>1, <2>3
    <3> HIDE DEF S, L, nfb
    <3> QED
      BY <2>1, <2>2, <2>3, <3>1
  <2>4. CASE b \notin lv
    <3>1. L(b) = {}
      BY <1>1, <1>2, <2>4
    <3>2. lost(b) = 0
      BY <3>1, FS_EmptySet
    <3> QED
      BY <1>1, <2>4, <3>2
  <2> QED
    BY ZenonT(30), <2>3, <2>4
<1>3. [b \in Bio |-> nf[b] - lost(b)] \in [Bio -> Nat]
  <2>1. ASSUME NEW b \in Bio PROVE nf[b] - lost(b) \in Nat
    <3>1. nf[b] \in Nat /\ lost(b) \in 0..nf[b]
      BY ZenonT(60), <1>1, <1>2
    <3> HIDE DEF lost
    <3> QED
      BY <3>1
  <2> QED
    BY <2>1
<1>4. /\ nfb \in [Frame -> Bio \cup {None}]
      /\ \A g \in Frame : nfb[g] # None => nfb[g] \in lv
  BY <1>1
<1>5. \A b \in lv : [c \in Bio |-> nf[c] - lost(c)][b] = Cardinality({f \in Frame : nfb[f] = b})
  BY ZenonT(60), <1>1, <1>2
<1>6. FramesOK(nfb, [b \in Bio |-> nf[b] - lost(b)], lv)
  BY ZenonT(60), <1>1, <1>3, <1>4, <1>5 DEF FramesOK
<1> QED
  BY ZenonT(60), <1>2, <1>6

----------------------------------------------------------------------------
(* Steps.                                                                  *)

\* The invariant holds of a device that has just been installed.
LEMMA BufInit == Init => BufInv
<1> SUFFICES ASSUME Init PROVE BufInv
  OBVIOUS
<1>1. ReqsOK(rqs, special, live \cup nxbio)
  BY DEF Init, ReqsOK, RqState
<1>2. FramesOK(fbuf, nframesout, live) /\ SentOK(ipbuf, live, left, nframesout)
  BY DEF Init, FramesOK, SentOK
<1>3. IpOK(iprq, nxbio, rqs, live) /\ PlacesOK(place, probing, fbuf)
  BY IoAssumption DEF Init, IpOK, PlacesOK
<1>5. FlagTypes
  <2>1. nreval \in 0..MaxReval
    BY IoAssumption DEF Init
  <2>2. /\ up \in BOOLEAN /\ kickme \in BOOLEAN /\ newsize \in BOOLEAN
        /\ plugged \in BOOLEAN /\ reval \in BOOLEAN
    BY ZenonT(60) DEF Init
  <2> QED
    BY <2>1, <2>2 DEF FlagTypes
<1>4. /\ acked \in [Bio -> Nat] /\ err \in SUBSET Bio
      /\ \A b \in Bio \ err :
           /\ BioConserved(b, rqs, nxbio, live, left, nframesout, acked)
           /\ b = ipbuf => left[b] > 0
  BY ZenonT(30), IoAssumption DEF Init, BioConserved
<1> QED
  BY ZenonT(30), <1>1, <1>2, <1>3, <1>4, <1>5 DEF BufInv

\* A step that moves no buf: it may change the places of frames, as long as a
\* frame that carries a buf is not freed and a probe carries none, and it may
\* mark bios as failed.
LEMMA BufSame ==
    ASSUME BufInv, FlagTypes',
           UNCHANGED <<rqs, special, iprq, nxbio, ipbuf, live, left, nframesout,
                       acked, fbuf>>,
           err \subseteq err', err' \in SUBSET Bio,
           PlacesOK(place', probing', fbuf)
    PROVE  BufInv'
<1>1. ReqsOK(rqs, special, live \cup nxbio)'
  BY ZenonT(30) DEF BufInv, ReqsOK
<1>2. FramesOK(fbuf, nframesout, live)' /\ SentOK(ipbuf, live, left, nframesout)'
  BY ZenonT(30) DEF BufInv, FramesOK, SentOK
<1>3. IpOK(iprq, nxbio, rqs, live)' /\ PlacesOK(place, probing, fbuf)'
  BY ZenonT(30) DEF BufInv, IpOK, PlacesOK
<1>4. /\ acked' \in [Bio -> Nat] /\ err' \in SUBSET Bio
      /\ \A b \in Bio \ err' :
           /\ BioConserved(b, rqs, nxbio, live, left, nframesout, acked)'
           /\ b = ipbuf' => left'[b] > 0
  BY ZenonT(30) DEF BufInv, BioConserved
<1> QED
  BY ZenonT(30), <1>1, <1>2, <1>3, <1>4 DEF BufInv

\* A device that is down fails the whole block queue.
LEMMA BufDrain ==
    ASSUME BufInv, FlagTypes',
           UNCHANGED <<special, iprq, nxbio, ipbuf, live, left, nframesout, acked,
                       frameVars>>,
           rqs' = [r \in Req |-> IF r \in Queued THEN "done" ELSE rqs[r]],
           err' = err \cup Drained
    PROVE  BufInv'
<1>0. /\ rqs \in [Req -> RqState] /\ RqOf \in [Bio -> Req]
      /\ \A r \in Req : rqs'[r] = IF rqs[r] = "queued" THEN "done" ELSE rqs[r]
  BY ZenonT(30), IoAssumption DEF BufInv, ReqsOK, Queued
<1>1. ReqsOK(rqs', special', live' \cup nxbio')
  BY ZenonT(30), <1>0 DEF BufInv, ReqsOK, RqState
<1>2. FramesOK(fbuf, nframesout, live)' /\ SentOK(ipbuf, live, left, nframesout)'
  BY ZenonT(30) DEF BufInv, FramesOK, SentOK, frameVars
<1>3. IpOK(iprq, nxbio, rqs, live)' /\ PlacesOK(place, probing, fbuf)'
  BY ZenonT(30), <1>0 DEF BufInv, IpOK, PlacesOK, frameVars
<1>4. acked' \in [Bio -> Nat] /\ err' \in SUBSET Bio
  BY ZenonT(60) DEF BufInv, Drained
<1>5. ASSUME NEW b \in Bio \ err'
      PROVE  /\ BioConserved(b, rqs', nxbio', live', left', nframesout', acked')
             /\ b = ipbuf' => left'[b] > 0
  <2>1. b \in Bio \ err /\ rqs'[RqOf[b]] = rqs[RqOf[b]]
    BY ZenonT(30), <1>0, <1>5 DEF Drained, Queued
  <2> QED
    BY ZenonT(60), <2>1 DEF BufInv, BioConserved
<1> QED
  BY ZenonT(60), <1>1, <1>2, <1>3, <1>4, <1>5 DEF BufInv, ReqsOK, BioConserved

\* nextbuf takes a request from the block queue.
LEMMA BufNextRequest ==
    ASSUME BufInv, NEW r \in Req, NextRequest(r)
    PROVE  BufInv'
<1>0. /\ rqs \in [Req -> RqState] /\ rqs[r] = "queued" /\ RqOf \in [Bio -> Req]
      /\ iprq = None /\ nxbio = {} /\ ipbuf = None /\ special \in [Req -> Nat]
      /\ rqs' = [rqs EXCEPT ![r] = "started"]
      /\ special' = [special EXCEPT ![r] = Cardinality(Bios(r))]
      /\ iprq' = r /\ nxbio' = Bios(r) /\ live' = live /\ r # None
      /\ ipbuf' = ipbuf /\ left' = left /\ nframesout' = nframesout
      /\ err' = err /\ acked' = acked
      /\ place' = place /\ probing' = probing /\ fbuf' = fbuf
      /\ None \notin Bio /\ \A b \in live : rqs[RqOf[b]] = "started"
  BY ZenonT(60), IoAssumption DEF BufInv, ReqsOK, IpOK, NextRequest, RqBioCnt, bufVars, frameVars
<1>1. ReqsOK(rqs', special', live' \cup nxbio')
  <2>1. ReqsOK(rqs, special, live)
    <3>1. live \cup nxbio = live
      BY <1>0
    <3> QED
      BY ZenonT(60), <3>1 DEF BufInv
  <2>2. ReqsOK([rqs EXCEPT ![r] = "started"],
               [special EXCEPT ![r] = Cardinality(Bios(r))], live \cup Bios(r))
    BY <1>0, <2>1, StartReqs, ZenonT(60)
  <2> QED
    BY <1>0, <2>2, ZenonT(60)
<1>2. /\ FramesOK(fbuf', nframesout', live') /\ SentOK(ipbuf', live', left', nframesout')
      /\ PlacesOK(place', probing', fbuf')
  BY ZenonT(30), <1>0 DEF BufInv
<1>3. IpOK(iprq', nxbio', rqs', live')
  BY ZenonT(30), <1>0 DEF IpOK, Bios
<1>4. FlagTypes'
  BY DEF BufInv, FlagTypes, NextRequest, flagVars, ctlVars
<1>5. ASSUME NEW b \in Bio \ err'
      PROVE  /\ BioConserved(b, rqs', nxbio', live', left', nframesout', acked')
             /\ b = ipbuf' => left'[b] > 0
  <2>1. b \in Bio /\ BioConserved(b, rqs, nxbio, live, left, nframesout, acked)
    BY ZenonT(30), <1>0, <1>5 DEF BufInv
  <2>2. CASE RqOf[b] = r
    <3>1. b \in nxbio' /\ b \notin live' /\ acked[b] = 0
      BY ZenonT(30), <1>0, <2>1, <2>2 DEF Bios, BioConserved
    <3> QED
      BY ZenonT(30), <1>0, <2>1, <3>1 DEF BioConserved
  <2>3. CASE RqOf[b] # r
    <3>1. b \notin nxbio' /\ rqs'[RqOf[b]] = rqs[RqOf[b]]
      BY ZenonT(30), <1>0, <2>1, <2>3 DEF Bios
    <3> QED
      BY ZenonT(30), <1>0, <2>1, <3>1 DEF BioConserved
  <2> QED
    BY ZenonT(30), <2>2, <2>3
<1>6. acked' \in [Bio -> Nat] /\ err' \in SUBSET Bio
  BY ZenonT(30), <1>0 DEF BufInv
<1> QED
  BY ZenonT(60), <1>1, <1>2, <1>3, <1>4, <1>5, <1>6
  DEF BufInv, ReqsOK, FramesOK, SentOK, IpOK, PlacesOK, BioConserved, Bios

\* nextbuf takes the next bio of the request.
LEMMA BufNextBuf ==
    ASSUME BufInv, NEW b \in Bio, NextBuf(b)
    PROVE  BufInv'
<1>0. /\ b \in nxbio /\ iprq # None /\ ipbuf = None
      /\ ipbuf' = b /\ live' = live \cup {b} /\ left' = [left EXCEPT ![b] = Size[b]]
      /\ nframesout' = [nframesout EXCEPT ![b] = 0] /\ nxbio' = nxbio \ {b}
      /\ iprq' = IF nxbio = {b} THEN None ELSE iprq
      /\ rqs' = rqs /\ special' = special /\ err' = err /\ acked' = acked
      /\ place' = place /\ probing' = probing /\ fbuf' = fbuf
  BY DEF NextBuf, frameVars
<1>i. /\ live \cap nxbio = {} /\ nxbio \subseteq Bios(iprq) /\ rqs[iprq] = "started"
      /\ iprq \in Req \cup {None}
  BY ZenonT(60), <1>0 DEF BufInv, IpOK
<1>t. /\ Size[b] \in Nat \ {0} /\ left \in [Bio -> Nat] /\ nframesout \in [Bio -> Nat]
      /\ live \in SUBSET Bio /\ RqOf[b] = iprq /\ None \notin Bio
  BY ZenonT(60), <1>0, <1>i, IoAssumption DEF BufInv, FramesOK, SentOK, Bios
<1> USE <1>i, <1>t
<1>1. ReqsOK(rqs', special', live' \cup nxbio')
  <2>1. live' \cup nxbio' = live \cup nxbio
    BY ZenonT(30), <1>0
  <2> QED
    BY ZenonT(60), <1>0, <2>1 DEF BufInv
<1>2. FramesOK(fbuf', nframesout', live')
  <2>1. b \notin live /\ FramesOK(fbuf, nframesout, live)
    BY ZenonT(30), <1>0 DEF BufInv
  <2>2. FramesOK(fbuf, [nframesout EXCEPT ![b] = 0], live \cup {b})
    BY <2>1, FramesNew, ZenonT(60)
  <2> QED
    BY <1>0, <2>2, ZenonT(60)
<1>3. SentOK(ipbuf', live', left', nframesout')
  <2>0. b \notin live /\ SentOK(None, live, left, nframesout)
    BY ZenonT(60), <1>0 DEF BufInv
  <2>1. left' \in [Bio -> Nat]
    <3>1. Size[b] \in Nat
      OBVIOUS
    <3> QED
      BY ZenonT(60), <1>0, <3>1
  <2>2. ipbuf' \in live' \cup {None}
    BY ZenonT(60), <1>0
  <2>3. ASSUME NEW c \in live'
        PROVE  (nframesout'[c] > 0 \/ c = ipbuf') /\ (left'[c] > 0 => c = ipbuf')
    <3>1. CASE c = b
      BY ZenonT(60), <1>0, <3>1
    <3>2. CASE c # b
      <4>1. c \in live /\ c \in Bio /\ c # None
        BY ZenonT(60), <1>0, <2>3, <3>2
      <4>2. nframesout'[c] = nframesout[c] /\ left'[c] = left[c]
        BY ZenonT(60), <1>0, <4>1, <3>2
      <4> QED
        BY ZenonT(60), <2>0, <4>1, <4>2 DEF SentOK
    <3> QED
      BY ZenonT(60), <3>1, <3>2
  <2> QED
    BY ZenonT(60), <2>1, <2>2, <2>3 DEF SentOK
<1>4. IpOK(iprq', nxbio', rqs', live')
  BY ZenonT(30), <1>0 DEF IpOK
<1>5. FlagTypes' /\ PlacesOK(place', probing', fbuf')
  BY ZenonT(60), <1>0 DEF BufInv, FlagTypes, NextBuf, flagVars, ctlVars
<1>6. ASSUME NEW c \in Bio \ err'
      PROVE  /\ BioConserved(c, rqs', nxbio', live', left', nframesout', acked')
             /\ c = ipbuf' => left'[c] > 0
  <2>1. /\ c \in Bio /\ BioConserved(c, rqs, nxbio, live, left, nframesout, acked)
        /\ acked \in [Bio -> Nat]
    BY ZenonT(60), <1>0, <1>6 DEF BufInv
  <2>2. CASE c = b
    BY <1>0, <2>1, <2>2 DEF BioConserved
  <2>3. CASE c # b
    BY ZenonT(30), <1>0, <2>1, <2>3 DEF BioConserved
  <2> QED
    BY ZenonT(30), <2>2, <2>3
<1>7. acked' \in [Bio -> Nat] /\ err' \in SUBSET Bio
  BY ZenonT(60), <1>0 DEF BufInv
<1> QED
  BY ZenonT(60), <1>1, <1>2, <1>3, <1>4, <1>5, <1>6, <1>7
  DEF BufInv, ReqsOK, FramesOK, SentOK, IpOK, PlacesOK, BioConserved, Bios

\* aoecmd_ata_rw sends the next piece of the buf.
LEMMA BufSend ==
    ASSUME BufInv, NEW f \in Frame, SendFrame(f), PlacesOK(place', probing', fbuf')
    PROVE  BufInv'
<1> DEFINE b == ipbuf
           n == IF left[b] = 0 THEN 0 ELSE left[b] - 1
<1>0. /\ b # None /\ place[f] = "free"
      /\ fbuf' = [fbuf EXCEPT ![f] = b] /\ left' = [left EXCEPT ![b] = n]
      /\ ipbuf' = IF n = 0 THEN None ELSE b
      /\ nframesout' = [nframesout EXCEPT ![b] = @ + 1]
      /\ rqs' = rqs /\ special' = special /\ iprq' = iprq /\ nxbio' = nxbio
      /\ live' = live /\ err' = err /\ acked' = acked
  BY ZenonT(30) DEF SendFrame, NewFrames, On, rqVars
<1>1. /\ b \in live /\ live \in SUBSET Bio /\ fbuf[f] = None
      /\ left \in [Bio -> Nat] /\ nframesout \in [Bio -> Nat] /\ None \notin Bio
  BY ZenonT(60), <1>0, IoAssumption DEF BufInv, SentOK, FramesOK, PlacesOK
<1>2. FramesOK(fbuf', nframesout', live')
  <2>1. FramesOK(fbuf, nframesout, live)
    BY DEF BufInv
  <2>2. FramesOK([fbuf EXCEPT ![f] = b], [nframesout EXCEPT ![b] = @ + 1], live)
    BY <1>1, <2>1, FramesSend, ZenonT(60)
  <2> QED
    BY <1>0, <2>2, ZenonT(60)
<1>3. n \in Nat /\ (left[b] > 0 => n = left[b] - 1)
  BY <1>1
<1>4. SentOK(ipbuf', live', left', nframesout')
  <2>1. \A c \in live : (nframesout[c] > 0 \/ c = b) /\ (left[c] > 0 => c = b)
    BY DEF BufInv, SentOK
  <2>2. left' \in [Bio -> Nat] /\ ipbuf' \in live' \cup {None}
    BY ZenonT(30), <1>0, <1>1, <1>3
  <2>3. ASSUME NEW c \in live'
        PROVE  nframesout'[c] > 0 /\ (left'[c] > 0 => c = ipbuf')
    <3> HIDE DEF n
    <3>1. CASE c = b
      BY <1>0, <1>1, <1>3, <3>1
    <3>2. CASE c # b
      BY ZenonT(30), <1>0, <1>1, <2>1, <2>3, <3>2
    <3> QED
      BY ZenonT(30), <3>1, <3>2
  <2> QED
    BY ZenonT(30), <2>2, <2>3 DEF SentOK
<1>5. ReqsOK(rqs', special', live' \cup nxbio') /\ IpOK(iprq', nxbio', rqs', live')
  BY ZenonT(30), <1>0 DEF BufInv
<1>6. FlagTypes'
  BY ZenonT(30) DEF BufInv, FlagTypes, SendFrame, flagVars, ctlVars, rqVars
<1>7. ASSUME NEW c \in Bio \ err'
      PROVE  /\ BioConserved(c, rqs', nxbio', live', left', nframesout', acked')
             /\ c = ipbuf' => left'[c] > 0
  <2>1. /\ c \in Bio /\ BioConserved(c, rqs, nxbio, live, left, nframesout, acked)
        /\ c = b => left[c] > 0
        /\ acked \in [Bio -> Nat]
    BY ZenonT(30), <1>0, <1>7 DEF BufInv
  <2> HIDE DEF n
  <2>2. CASE c = b
    <3>1. /\ left'[c] = left[c] - 1 /\ nframesout'[c] = nframesout[c] + 1
          /\ left[c] \in Nat /\ nframesout[c] \in Nat /\ acked[c] \in Nat
      BY ZenonT(30), <1>0, <1>1, <1>3, <2>1, <2>2
    <3>2. c = ipbuf' => left'[c] > 0
      BY <1>0, <1>1, <1>3, <2>1, <2>2
    <3>3. left'[c] + nframesout'[c] + acked[c] = left[c] + nframesout[c] + acked[c]
      <4>1. (left[c] - 1) + (nframesout[c] + 1) + acked[c] = left[c] + nframesout[c] + acked[c]
        BY ZenonT(30), <3>1, Sums
      <4> QED
        BY ZenonT(30), <3>1, <4>1
    <3> QED
      BY ZenonT(30), <1>0, <1>1, <2>1, <2>2, <3>2, <3>3 DEF BioConserved
  <2>3. CASE c # b
    <3>1. left'[c] = left[c] /\ nframesout'[c] = nframesout[c] /\ c # ipbuf'
      BY ZenonT(30), <1>0, <1>1, <2>1, <2>3
    <3> QED
      BY ZenonT(30), <1>0, <2>1, <3>1 DEF BioConserved
  <2> QED
    BY <2>2, <2>3
<1>8. acked' \in [Bio -> Nat] /\ err' \in SUBSET Bio
  BY ZenonT(30), <1>0 DEF BufInv
<1> QED
  BY ZenonT(60), <1>2, <1>4, <1>5, <1>6, <1>7, <1>8
  DEF BufInv, ReqsOK, FramesOK, SentOK, IpOK, PlacesOK, BioConserved, Bios

\* The places of frames after a step that may have sent a probe.
LEMMA ProbePlaces ==
    ASSUME NEW pl \in [Frame -> Place], NEW pb, NEW no, NEW ip, NEW fb, NEW t,
           PlacesOK(pl, pb, fb),
           Probe(t, pl, pb, no, ip) \/ NoProbe(pl, pb, no, ip)
    PROVE  PlacesOK(place', probing', fb)
BY ZenonT(30) DEF PlacesOK, Probe, NoProbe, On

\* rexmit_deferred hands the buf of a frame to a frame of another target.
LEMMA BufReassign ==
    ASSUME BufInv, NEW f \in Frame, NEW g \in Frame, RexmitReassign(f, g),
           place \in [Frame -> Place], todo \subseteq On("rexmitq"),
           probing \subseteq Frame, \A h \in probing : place[h] # "free"
    PROVE  BufInv'
<1> DEFINE pl == [place EXCEPT ![f] = "free", ![g] = "active"]
           no == [nout EXCEPT ![TgtOf[g]] = @ + 1]
           ip == Rotate(Rotate(ifp, TgtOf[g]), TgtOf[g])
<1>0. /\ place[f] = "rexmitq" /\ place[g] = "free" /\ f # g /\ f \notin probing
      /\ fbuf' = [fbuf EXCEPT ![g] = fbuf[f], ![f] = None]
      /\ Probe(TgtOf[f], pl, probing, no, ip) \/ NoProbe(pl, probing, no, ip)
      /\ UNCHANGED <<flagVars, rqVars, bufVars, nreval, reval>>
  BY ZenonT(30) DEF RexmitReassign, NewFrames, On
<1>1. fbuf[g] = None /\ fbuf \in [Frame -> Bio \cup {None}]
  BY ZenonT(30), <1>0 DEF BufInv, PlacesOK, FramesOK
<1>2. FramesOK(fbuf', nframesout', live')
  <2>1. FramesOK(fbuf, nframesout, live)
    BY DEF BufInv
  <2>2. FramesOK([fbuf EXCEPT ![g] = fbuf[f], ![f] = None], nframesout, live)
    BY <1>0, <1>1, <2>1, FramesMove, ZenonT(60)
  <2> QED
    BY ZenonT(30), <1>0, <2>2 DEF bufVars
<1>3. PlacesOK(place', probing', fbuf')
  <2>1. PlacesOK(pl, probing, fbuf')
    <3>1. g \notin probing
      BY ZenonT(30), <1>0
    <3>2. PlacesOK(place, probing, fbuf)
      BY DEF BufInv
    <3>3. \A h \in Frame : fbuf'[h] # None => pl[h] # "free"
      BY ZenonT(30), <1>0, <1>1, <3>2 DEF PlacesOK
    <3>4. \A h \in probing : fbuf'[h] = None
      BY ZenonT(30), <1>0, <1>1, <3>1, <3>2 DEF PlacesOK
    <3> QED
      BY <3>3, <3>4 DEF PlacesOK
  <2>2. pl \in [Frame -> Place]
    BY DEF Place
  <2> HIDE DEF pl, no, ip
  <2> QED
    BY ZenonT(30), <1>0, <2>1, <2>2, ProbePlaces
<1>4. /\ ReqsOK(rqs', special', live' \cup nxbio') /\ IpOK(iprq', nxbio', rqs', live')
      /\ SentOK(ipbuf', live', left', nframesout')
  BY ZenonT(30), <1>0 DEF BufInv, rqVars, bufVars
<1>5. FlagTypes'
  BY ZenonT(30), <1>0 DEF BufInv, FlagTypes, flagVars, rqVars
<1>6. /\ acked' \in [Bio -> Nat] /\ err' \in SUBSET Bio
      /\ \A c \in Bio \ err' :
           /\ BioConserved(c, rqs', nxbio', live', left', nframesout', acked')
           /\ c = ipbuf' => left'[c] > 0
  BY ZenonT(30), <1>0 DEF BufInv, rqVars, bufVars
<1> QED
  BY ZenonT(60), <1>2, <1>3, <1>4, <1>5, <1>6
  DEF BufInv, ReqsOK, FramesOK, SentOK, IpOK, PlacesOK, BioConserved, Bios

\* Bios end: what is left of the requests and of d->ip fits together.
LEMMA EndBiosIp ==
    ASSUME BufInv, NEW fin \in SUBSET (live \cup nxbio), NEW drain \in BOOLEAN,
           EndBios(fin, drain), nxbio' = nxbio \ fin
    PROVE  /\ ReqsOK(rqs', special', live' \cup nxbio')
           /\ IpOK(iprq', nxbio', rqs', live')
           /\ \A r \in Req :
                \/ rqs'[r] = rqs[r]
                \/ rqs'[r] = "done" /\ rqs[r] = "started"
                \/ rqs'[r] = "done" /\ rqs[r] = "queued" /\ drain
<1> DEFINE U == live \cup nxbio
<1>1. /\ live' = live \ fin
      /\ iprq' = IF iprq \in EndedBy(fin) THEN None ELSE iprq
  BY DEF EndBios
<1>2. /\ ReqsOK(rqs', special', U \ fin)
      /\ \A r \in Req :
           \/ rqs'[r] = rqs[r]
           \/ rqs'[r] = "done" /\ rqs[r] = "started" /\ r \in EndedBy(fin)
           \/ rqs'[r] = "done" /\ rqs[r] = "queued" /\ drain
      /\ \A r \in EndedBy(fin) : r \in Req /\ rqs'[r] = "done"
  <2>1. ReqsOK(rqs, special, U) /\ fin \in SUBSET U
    BY DEF BufInv
  <2> HIDE DEF U
  <2> QED
    BY <2>1, EndBiosReqs
<1>3. U \ fin = live' \cup nxbio'
  BY <1>1
<1>4. ReqsOK(rqs', special', live' \cup nxbio')
  BY ZenonT(30), <1>2, <1>3
<1>5. /\ iprq \in Req \cup {None} /\ live \cap nxbio = {}
      /\ iprq = None => nxbio = {}
      /\ iprq # None => rqs[iprq] = "started" /\ nxbio \subseteq Bios(iprq)
  BY ZenonT(30) DEF BufInv, IpOK
<1>6. ASSUME iprq' = None PROVE nxbio' = {}
  <2>1. CASE iprq = None
    BY <1>5, <2>1
  <2>2. CASE iprq # None
    <3>1. iprq \in EndedBy(fin) /\ rqs'[iprq] = "done"
      BY ZenonT(30), <1>1, <1>2, <1>6, <2>2
    <3>2. \A b \in nxbio' : RqOf[b] = iprq /\ rqs'[RqOf[b]] = "started"
      BY ZenonT(30), <1>4, <1>5, <2>2 DEF ReqsOK, Bios
    <3> QED
      BY <3>1, <3>2
  <2> QED
    BY <2>1, <2>2
<1>7. ASSUME iprq' # None
      PROVE  rqs'[iprq'] = "started" /\ nxbio' \subseteq Bios(iprq')
  <2>1. iprq' = iprq /\ iprq \notin EndedBy(fin) /\ iprq \in Req
    BY ZenonT(30), <1>1, <1>5, <1>7
  <2>2. rqs[iprq] = "started" /\ nxbio' \subseteq Bios(iprq)
    BY ZenonT(30), <1>5, <2>1, <1>7
  <2> QED
    BY ZenonT(30), <1>2, <2>1, <2>2
<1>8. iprq' \in Req \cup {None} /\ live' \cap nxbio' = {}
  BY <1>1, <1>5
<1> QED
  BY ZenonT(60), <1>2, <1>4, <1>6, <1>7, <1>8 DEF IpOK

\* ktiocomplete ends a frame, and the buf with its last frame.
LEMMA BufKtioComplete ==
    ASSUME BufInv, NEW f \in Frame, KtioComplete(f), place \in [Frame -> Place],
           probing \subseteq Frame
    PROVE  BufInv'
<1> DEFINE b == fbuf[f]
           fin == IF b # None /\ LastFrame(b) THEN {b} ELSE {}
           drain == EndedBy(fin) # {} /\ ~up
           pl == [place EXCEPT ![f] = "free"]
           pb == probing \ {f}
<1>0. /\ fbuf' = [fbuf EXCEPT ![f] = None]
      /\ nframesout' = IF b = None THEN nframesout
                       ELSE [nframesout EXCEPT ![b] = @ - 1]
      /\ acked' = IF b = None \/ b \in err THEN acked ELSE [acked EXCEPT ![b] = @ + 1]
      /\ err' = IF drain THEN err \cup Drained ELSE err
      /\ UNCHANGED <<flagVars, plugged, nxbio, left, nreval, reval>>
      /\ \/ Probe(TgtOf[f], pl, pb, nout, ifp)
         \/ NoProbe(pl, pb, nout, ifp)
  BY ZenonT(60) DEF KtioComplete
<1>1. EndBios(fin, drain)
  BY ZenonT(60) DEF KtioComplete
<1>2. /\ live' = live \ fin
      /\ ipbuf' = IF ipbuf \in fin THEN None ELSE ipbuf
  BY ZenonT(60), <1>1 DEF EndBios
<1>t. /\ fbuf \in [Frame -> Bio \cup {None}] /\ nframesout \in [Bio -> Nat]
      /\ live \in SUBSET Bio /\ left \in [Bio -> Nat] /\ acked \in [Bio -> Nat]
      /\ err \in SUBSET Bio /\ None \notin Bio /\ RqOf \in [Bio -> Req]
      /\ rqs \in [Req -> RqState]
      /\ b # None => b \in live
      /\ live \cap nxbio = {}
      /\ \A c \in live \cup nxbio : rqs[RqOf[c]] = "started"
  BY ZenonT(30), IoAssumption DEF BufInv, FramesOK, SentOK, IpOK, ReqsOK
<1>3. fin \in SUBSET live /\ nxbio' = nxbio \ fin /\ drain \in BOOLEAN
  BY <1>0, <1>t
<1>4. /\ ReqsOK(rqs', special', live' \cup nxbio')
      /\ IpOK(iprq', nxbio', rqs', live')
      /\ \A r \in Req :
           \/ rqs'[r] = rqs[r]
           \/ rqs'[r] = "done" /\ rqs[r] = "started"
           \/ rqs'[r] = "done" /\ rqs[r] = "queued" /\ drain
  <2> HIDE DEF fin, drain
  <2>1. fin \in SUBSET (live \cup nxbio)
    BY <1>3
  <2> QED
    BY ZenonT(60), <1>1, <1>3, <2>1, EndBiosIp
<1>5. FramesOK(fbuf', nframesout', live') /\ (b # None => nframesout[b] > 0)
  <2>1. FramesOK(fbuf, nframesout, live)
    BY DEF BufInv
  <2>2. CASE b = None
    <3>1. fbuf' = fbuf /\ nframesout' = nframesout /\ live' = live
      BY ZenonT(30), <1>0, <1>2, <1>t, <2>2
    <3> QED
      BY ZenonT(30), <2>1, <2>2, <3>1
  <2>3. CASE b # None
    <3>1. /\ FramesOK([fbuf EXCEPT ![f] = None],
                      [nframesout EXCEPT ![fbuf[f]] = @ - 1], live)
          /\ nframesout[fbuf[f]] > 0
      BY <2>1, <2>3, FramesBack, ZenonT(60)
    <3>2. FramesOK(fbuf', nframesout', live)
      BY <1>0, <2>3, <3>1, ZenonT(60)
    <3>3. \A c \in live \cap fin : nframesout'[c] = 0
      BY <1>0, <1>t, <2>3 DEF LastFrame
    <3>4. FramesOK(fbuf', nframesout', live \ fin)
      <4> HIDE DEF fin
      <4> QED
        BY ZenonT(30), <3>2, <3>3, FramesEnd
    <3> QED
      BY ZenonT(30), <1>2, <3>1, <3>4
  <2> QED
    BY ZenonT(60), <2>2, <2>3
<1>6. SentOK(ipbuf', live', left', nframesout')
  <2>1. /\ ipbuf \in live \cup {None}
        /\ \A c \in live : (nframesout[c] > 0 \/ c = ipbuf) /\ (left[c] > 0 => c = ipbuf)
    BY DEF BufInv, SentOK
  <2>2. ipbuf' \in live' \cup {None} /\ left' \in [Bio -> Nat]
    BY ZenonT(30), <1>0, <1>2, <1>t, <2>1
  <2>3. ASSUME NEW c \in live'
        PROVE  /\ nframesout'[c] > 0 \/ c = ipbuf'
               /\ left'[c] > 0 => c = ipbuf'
    <3>1. c \in live /\ c \notin fin /\ left'[c] = left[c] /\ (c = ipbuf => c = ipbuf')
      BY ZenonT(60), <1>0, <1>2, <2>3
    <3>2. CASE c = b
      <4>1. b # None /\ ~LastFrame(b)
        BY ZenonT(30), <1>t, <3>1, <3>2
      <4>2. nframesout'[b] = nframesout[b] - 1 /\ nframesout[b] \in Nat /\ left[b] \in Nat
        BY ZenonT(30), <1>0, <1>t, <4>1
      <4>3. nframesout[b] # 1 \/ left[b] # 0
        BY ZenonT(60), <4>1 DEF LastFrame
      <4>4. nframesout'[b] \in Nat
        BY ZenonT(30), <1>5, <3>1, <3>2, <1>t DEF FramesOK
      <4>5. CASE left[b] > 0
        BY ZenonT(60), <2>1, <3>1, <3>2, <4>5
      <4>6. CASE ~(left[b] > 0)
        <5>1. nframesout'[b] > 0 \/ nframesout[b] = 0
          <6>1. left[b] = 0
            BY <4>2, <4>6
          <6>2. nframesout[b] # 1
            BY ZenonT(60), <4>3, <6>1
          <6> QED
            BY <4>2, <6>2
        <5>2. nframesout[b] # 0
          BY <4>2, <4>4
        <5> QED
          BY ZenonT(60), <3>1, <3>2, <4>2, <4>6, <5>1, <5>2
      <4> QED
        BY ZenonT(60), <4>5, <4>6
    <3>3. CASE c # b
      <4>1. nframesout'[c] = nframesout[c]
        BY ZenonT(30), <1>0, <1>t, <3>1, <3>3
      <4> QED
        BY ZenonT(60), <2>1, <3>1, <4>1
    <3> QED
      BY ZenonT(60), <3>2, <3>3
  <2> QED
    BY ZenonT(30), <2>2, <2>3 DEF SentOK
<1>7. PlacesOK(place', probing', fbuf')
  <2>1. PlacesOK(pl, pb, fbuf')
    BY ZenonT(30), <1>0, <1>t DEF BufInv, PlacesOK
  <2>2. pl \in [Frame -> Place]
    BY DEF Place
  <2> HIDE DEF pl, pb
  <2> QED
    BY ZenonT(30), <1>0, <2>1, <2>2, ProbePlaces
<1>8. FlagTypes'
  BY ZenonT(30), <1>0 DEF BufInv, FlagTypes, flagVars
<1>9. acked' \in [Bio -> Nat] /\ err' \in SUBSET Bio
  <2>1. acked' \in [Bio -> Nat]
    BY <1>0, <1>t
  <2> QED
    BY ZenonT(30), <1>0, <1>t, <2>1 DEF Drained
<1>10. ASSUME NEW c \in Bio \ err'
       PROVE  /\ BioConserved(c, rqs', nxbio', live', left', nframesout', acked')
              /\ c = ipbuf' => left'[c] > 0
  <2>1. /\ c \in Bio /\ c \notin err /\ RqOf[c] \in Req
        /\ BioConserved(c, rqs, nxbio, live, left, nframesout, acked)
        /\ c = ipbuf => left[c] > 0
        /\ left'[c] = left[c] /\ nxbio' = nxbio
    BY ZenonT(30), <1>0, <1>10, <1>t DEF BufInv
  <2>2. c = ipbuf' => left'[c] > 0
    BY ZenonT(30), <1>2, <1>t, <2>1
  <2>3. \/ rqs'[RqOf[c]] = rqs[RqOf[c]]
        \/ rqs'[RqOf[c]] = "done" /\ rqs[RqOf[c]] = "started"
    <3>1. ~(rqs[RqOf[c]] = "queued" /\ drain)
      BY ZenonT(60), <1>0, <1>10, <2>1 DEF Drained, Queued
    <3> HIDE DEF drain
    <3> QED
      BY ZenonT(60), <1>4, <2>1, <3>1
  <2>4. CASE c = b
    <3>1. /\ nframesout'[c] = nframesout[c] - 1 /\ acked'[c] = acked[c] + 1
          /\ c \in live /\ c \notin nxbio /\ nframesout[c] \in Nat /\ left[c] \in Nat
          /\ acked[c] \in Nat /\ rqs[RqOf[c]] = "started"
      BY ZenonT(30), <1>0, <1>t, <2>1, <2>4
    <3>2. c \notin live' => nframesout[c] = 1 /\ left[c] = 0
      BY ZenonT(60), <1>2, <2>4, <3>1 DEF LastFrame
    <3>3. left[c] + nframesout[c] + acked[c] = Size[c]
      BY ZenonT(30), <2>1, <3>1 DEF BioConserved
    <3>4. left'[c] + nframesout'[c] + acked'[c] = Size[c]
      <4>1. left[c] + (nframesout[c] - 1) + (acked[c] + 1) = left[c] + nframesout[c] + acked[c]
        BY ZenonT(30), <3>1, Sums
      <4>2. left'[c] = left[c]
        BY ZenonT(30), <2>1
      <4> QED
        BY ZenonT(30), <3>1, <3>3, <4>1, <4>2
    <3>5. c \notin live' => acked'[c] = Size[c]
      BY ZenonT(30), <3>1, <3>2, <3>3, Sums
    <3> QED
      BY ZenonT(30), <2>1, <2>2, <2>3, <3>1, <3>4, <3>5 DEF BioConserved
  <2>5. CASE c # b
    <3>1. /\ nframesout'[c] = nframesout[c] /\ acked'[c] = acked[c]
          /\ c \in live' <=> c \in live
      BY ZenonT(30), <1>0, <1>2, <1>t, <2>1, <2>5
    <3> QED
      BY ZenonT(60), <2>1, <2>2, <2>3, <3>1 DEF BioConserved
  <2> QED
    BY ZenonT(60), <2>4, <2>5
<1> QED
  BY ZenonT(60), <1>4, <1>5, <1>6, <1>7, <1>8, <1>9, <1>10
  DEF BufInv, ReqsOK, FramesOK, SentOK, IpOK, PlacesOK, BioConserved, Bios

\* aoedev_downdev takes back every frame that is not with ktio and fails the
\* bufs that they carry, the request in progress and the block queue.
LEMMA BufDowndev ==
    ASSUME BufInv, Downdev, FlagTypes', probing \subseteq Frame
    PROVE  BufInv'
<1> DEFINE M == DownFrames
           lost(b) == Cardinality({f \in Frame : fbuf[f] = b} \cap M)
           hit == ({fbuf[f] : f \in M} \cup {ipbuf}) \ {None}
           fin == {b \in hit : nframesout[b] = lost(b)} \cup nxbio
<1>0. /\ fbuf' = [f \in Frame |-> IF f \in M THEN None ELSE fbuf[f]]
      /\ place' = [f \in Frame |-> IF f \in M THEN "free" ELSE place[f]]
      /\ probing' = probing \ M
      /\ nframesout' = [b \in Bio |-> nframesout[b] - lost(b)]
      /\ left' = [b \in Bio |-> IF b \in hit THEN 0 ELSE left[b]]
      /\ err' = err \cup hit \cup nxbio \cup Drained
      /\ nxbio' = {} /\ acked' = acked
  BY ZenonT(60) DEF Downdev, FailedBufs, Wreset, FramesOf
<1>1. EndBios(fin, TRUE)
  BY ZenonT(60) DEF Downdev, FailedBufs, Wreset, FramesOf
<1>2. live' = live \ fin /\ ipbuf' = IF ipbuf \in fin THEN None ELSE ipbuf
  BY ZenonT(30), <1>1 DEF EndBios
<1>t. /\ fbuf \in [Frame -> Bio \cup {None}] /\ nframesout \in [Bio -> Nat]
      /\ live \in SUBSET Bio /\ left \in [Bio -> Nat] /\ acked \in [Bio -> Nat]
      /\ err \in SUBSET Bio /\ nxbio \in SUBSET Bio
      /\ None \notin Bio /\ RqOf \in [Bio -> Req]
      /\ ipbuf \in live \cup {None} /\ live \cap nxbio = {}
      /\ \A f \in Frame : fbuf[f] # None => fbuf[f] \in live
      /\ \A c \in live : (nframesout[c] > 0 \/ c = ipbuf) /\ (left[c] > 0 => c = ipbuf)
      /\ \A c \in live \cup nxbio : rqs[RqOf[c]] = "started"
  BY ZenonT(30), IoAssumption DEF BufInv, FramesOK, SentOK, IpOK, ReqsOK
<1>3. M \in SUBSET Frame /\ hit \in SUBSET live
  BY <1>t DEF DownFrames, On
<1>4. /\ FramesOK(fbuf', nframesout', live)
      /\ \A b \in Bio : lost(b) \in 0..nframesout[b]
  <2>1. FramesOK(fbuf, nframesout, live)
    BY ZenonT(30) DEF BufInv
  <2> HIDE DEF M
  <2>2. /\ FramesOK([f \in Frame |-> IF f \in M THEN None ELSE fbuf[f]],
                    [b \in Bio |-> nframesout[b] - lost(b)], live)
        /\ \A b \in Bio : lost(b) \in 0..nframesout[b]
    BY <1>3, <2>1, FramesDown, ZenonT(60)
  <2> QED
    BY <1>0, <2>2, ZenonT(60)
<1>5. ASSUME NEW c \in Bio, c \notin hit
      PROVE  lost(c) = 0
  <2>1. {f \in Frame : fbuf[f] = c} \cap M = {}
    BY ZenonT(30), <1>5, <1>t
  <2> QED
    BY ZenonT(30), <2>1, FS_EmptySet
<1> HIDE DEF M, lost
<1>6. fin \in SUBSET (live \cup nxbio) /\ nxbio' = nxbio \ fin
  BY ZenonT(30), <1>0, <1>3
<1>7. /\ ReqsOK(rqs', special', live' \cup nxbio')
      /\ IpOK(iprq', nxbio', rqs', live')
      /\ \A r \in Req :
           \/ rqs'[r] = rqs[r]
           \/ rqs'[r] = "done" /\ rqs[r] = "started"
           \/ rqs'[r] = "done" /\ rqs[r] = "queued"
  <2> HIDE DEF fin
  <2> QED
    BY ZenonT(60), <1>1, <1>6, EndBiosIp
<1>8. FramesOK(fbuf', nframesout', live')
  <2>1. \A c \in live \cap fin : nframesout'[c] = 0
    BY <1>0, <1>t
  <2> HIDE DEF fin
  <2>2. FramesOK(fbuf', nframesout', live \ fin)
    BY ZenonT(30), <1>4, <2>1, FramesEnd
  <2> QED
    BY ZenonT(30), <1>2, <2>2
<1>9. SentOK(ipbuf', live', left', nframesout')
  <2>1. ipbuf' \in live' \cup {None} /\ left' \in [Bio -> Nat]
    BY ZenonT(30), <1>0, <1>2, <1>t
  <2>2. ASSUME NEW c \in live' PROVE nframesout'[c] > 0 /\ left'[c] = 0
    <3>1. c \in live /\ c \notin fin /\ c \in Bio
      BY ZenonT(30), <1>2, <1>t, <2>2
    <3>2. /\ nframesout'[c] = nframesout[c] - lost(c) /\ lost(c) \in 0..nframesout[c]
          /\ nframesout[c] \in Nat /\ left[c] \in Nat
      BY ZenonT(30), <1>0, <1>4, <1>t, <3>1
    <3>3. CASE c \in hit
      <4>1. nframesout[c] # lost(c) /\ left'[c] = 0
        BY ZenonT(30), <1>0, <3>1, <3>3
      <4> QED
        BY ZenonT(30), <3>2, <4>1, Sums
    <3>4. CASE c \notin hit
      <4>1. c # ipbuf /\ lost(c) = 0
        BY ZenonT(30), <1>5, <1>t, <3>1, <3>4
      <4>2. left'[c] = left[c] /\ ~(left[c] > 0) /\ nframesout[c] > 0
        BY ZenonT(30), <1>0, <1>t, <3>1, <3>4, <4>1
      <4> QED
        BY ZenonT(30), <3>2, <4>1, <4>2, Sums
    <3> QED
      BY ZenonT(30), <3>3, <3>4
  <2> QED
    BY <2>1, <2>2 DEF SentOK
<1>10. PlacesOK(place', probing', fbuf')
  BY ZenonT(30), <1>0, <1>t DEF BufInv, PlacesOK
<1>11. acked' \in [Bio -> Nat] /\ err' \in SUBSET Bio
  BY ZenonT(30), <1>0, <1>3, <1>t DEF Drained
<1>12. ASSUME NEW c \in Bio \ err'
       PROVE  /\ BioConserved(c, rqs', nxbio', live', left', nframesout', acked')
              /\ c = ipbuf' => left'[c] > 0
  <2>1. /\ c \in Bio /\ c \notin err /\ c \notin hit /\ c \notin nxbio
        /\ c \notin fin /\ c \notin Drained /\ RqOf[c] \in Req
        /\ BioConserved(c, rqs, nxbio, live, left, nframesout, acked)
    BY ZenonT(30), <1>0, <1>12, <1>t DEF BufInv
  <2>2. /\ left'[c] = left[c] /\ nframesout'[c] = nframesout[c] /\ acked'[c] = acked[c]
        /\ c \in live' <=> c \in live
        /\ c \notin nxbio'
    <3>1. lost(c) = 0 /\ nframesout[c] \in Nat
      BY ZenonT(30), <1>5, <1>t, <2>1
    <3>2. nframesout'[c] = nframesout[c] - 0 /\ left'[c] = left[c] /\ acked' = acked
      BY ZenonT(30), <1>0, <2>1, <3>1
    <3>3. (c \in live' <=> c \in live) /\ c \notin nxbio'
      BY ZenonT(30), <1>0, <1>2, <2>1
    <3> QED
      BY ZenonT(30), <3>1, <3>2, <3>3, Sums
  <2>3. \/ rqs'[RqOf[c]] = rqs[RqOf[c]]
        \/ rqs'[RqOf[c]] = "done" /\ rqs[RqOf[c]] = "started"
    BY ZenonT(60), <1>7, <2>1 DEF Drained, Queued
  <2>4. c # ipbuf'
    BY ZenonT(30), <1>2, <1>t, <2>1
  <2> QED
    BY ZenonT(30), <2>1, <2>2, <2>3, <2>4 DEF BioConserved
<1> QED
  BY ZenonT(60), <1>7, <1>8, <1>9, <1>10, <1>11, <1>12
  DEF BufInv, ReqsOK, FramesOK, SentOK, IpOK, PlacesOK, BioConserved, Bios

\* Every step preserves the invariant.
LEMMA BufNext == WindowInv /\ BufInv /\ [Next]_vars => BufInv'
<1> SUFFICES ASSUME WindowInv, BufInv, [Next]_vars PROVE BufInv'
  OBVIOUS
<1>inv. /\ place \in [Frame -> Place] /\ probing \subseteq Frame
        /\ \A h \in probing : place[h] # "free"
        /\ InRexmit => todo \subseteq On("rexmitq")
        /\ FlagTypes /\ PlacesOK(place, probing, fbuf)
        /\ fbuf \in [Frame -> Bio \cup {None}] /\ err \in SUBSET Bio
  BY ZenonT(30) DEF WindowInv, CountsOK, BufInv, FramesOK
<1>same. ASSUME UNCHANGED <<rqs, special, iprq, nxbio, bufVars, frameVars>>, FlagTypes'
         PROVE  BufInv'
  BY ZenonT(30), <1>inv, <1>same, BufSame DEF bufVars, frameVars
<1>move. ASSUME UNCHANGED <<rqs, special, iprq, nxbio, bufVars, fbuf, probing>>,
                FlagTypes', \A f \in Frame : place'[f] = "free" => place[f] = "free"
         PROVE  BufInv'
  <2>1. PlacesOK(place', probing', fbuf)
    BY ZenonT(30), <1>inv, <1>move DEF PlacesOK
  <2> QED
    BY ZenonT(30), <1>inv, <1>move, <2>1, BufSame DEF bufVars
<1>1. ASSUME NEW r \in Req, Submit(r) PROVE BufInv'
  <2>1. /\ UNCHANGED <<special, iprq, nxbio, bufVars, frameVars>>
        /\ rqs[r] = "new" /\ rqs' = [rqs EXCEPT ![r] = "queued"]
    BY ZenonT(30), <1>1 DEF Submit
  <2>2. FlagTypes'
    BY ZenonT(30), <1>1, <1>inv DEF Submit, FlagTypes, flagVars, ctlVars
  <2>3. ReqsOK(rqs', special', live' \cup nxbio')
    <3>1. ReqsOK(rqs, special, live \cup nxbio)
      BY ZenonT(30) DEF BufInv
    <3>2. live' = live /\ nxbio' = nxbio /\ special' = special
      BY ZenonT(30), <2>1 DEF bufVars
    <3>3. /\ rqs' \in [Req -> RqState]
          /\ \A q \in Req : rqs'[q] = "started" <=> rqs[q] = "started"
      BY ZenonT(30), <2>1, <3>1 DEF ReqsOK, RqState
    <3>4. \A b \in live \cup nxbio : RqOf[b] \in Req
      BY ZenonT(30), <3>1, IoAssumption DEF ReqsOK
    <3> QED
      BY ZenonT(30), <3>1, <3>2, <3>3, <3>4 DEF ReqsOK
  <2>4. IpOK(iprq', nxbio', rqs', live')
    <3>1. rqs \in [Req -> RqState]
      BY ZenonT(60) DEF BufInv, ReqsOK
    <3> QED
      BY ZenonT(30), <2>1, <3>1 DEF BufInv, IpOK, bufVars
  <2>5. /\ FramesOK(fbuf', nframesout', live') /\ PlacesOK(place', probing', fbuf')
        /\ SentOK(ipbuf', live', left', nframesout')
        /\ acked' \in [Bio -> Nat] /\ err' \in SUBSET Bio
    BY ZenonT(30), <2>1 DEF BufInv, bufVars, frameVars
  <2>6. ASSUME NEW b \in Bio \ err'
        PROVE  /\ BioConserved(b, rqs', nxbio', live', left', nframesout', acked')
               /\ b = ipbuf' => left'[b] > 0
    <3>1. /\ b \in Bio \ err /\ BioConserved(b, rqs, nxbio, live, left, nframesout, acked)
          /\ b = ipbuf => left[b] > 0
          /\ rqs \in [Req -> RqState] /\ RqOf[b] \in Req
      BY ZenonT(30), <2>1, <2>6, IoAssumption DEF BufInv, bufVars, ReqsOK
    <3> QED
      BY ZenonT(30), <2>1, <3>1 DEF BioConserved, bufVars
  <2> QED
    BY ZenonT(60), <2>2, <2>3, <2>4, <2>5, <2>6
    DEF BufInv, ReqsOK, FramesOK, SentOK, IpOK, PlacesOK, BioConserved, Bios
<1>2. ASSUME NEW r \in Req, NextRequest(r) PROVE BufInv'
  BY <1>2, BufNextRequest
<1>3. CASE Request
  <2>1. FlagTypes'
    BY ZenonT(60), <1>3, <1>inv DEF Request, FlagTypes, flagVars
  <2>2. CASE up
    BY ZenonT(30), <1>3, <1>same, <2>1, <2>2 DEF Request, bufVars
  <2>3. CASE ~up
    BY ZenonT(30), <1>3, <2>1, <2>3, BufDrain DEF Request
  <2> QED
    BY <2>2, <2>3
<1>4. ASSUME NEW f \in Frame, RexmitStopProbe(f) PROVE BufInv'
  <2>1. /\ f \in probing /\ place' = [place EXCEPT ![f] = "free"]
        /\ probing' = probing \ {f}
        /\ UNCHANGED <<rqVars, bufVars, fbuf>>
    BY ZenonT(60), <1>4 DEF RexmitStopProbe, UselessProbe
  <2>2. PlacesOK(place', probing', fbuf)
    BY ZenonT(30), <1>inv, <2>1 DEF PlacesOK
  <2>3. FlagTypes'
    BY ZenonT(30), <1>4, <1>inv DEF RexmitStopProbe, FlagTypes, rqVars
  <2> QED
    BY ZenonT(30), <1>inv, <2>1, <2>2, <2>3, BufSame DEF rqVars, bufVars
<1>nofr. NoFrame \/ UNCHANGED kickme => kickme' \in BOOLEAN
  <2>1. NoFrame => kickme' \in BOOLEAN
    BY ZenonT(60) DEF NoFrame
  <2> QED
    BY <1>inv, <2>1 DEF FlagTypes
<1>5. ASSUME NEW f \in Frame, RexmitDefer(f) PROVE BufInv'
  <2>1. NoFrame \/ UNCHANGED kickme
    BY ZenonT(30), <1>5 DEF RexmitDefer, NotReassigned
  <2>2. FlagTypes'
    BY ZenonT(30), <1>5, <1>inv, <1>nofr, <2>1 DEF RexmitDefer, FlagTypes, rqVars
  <2> QED
    BY ZenonT(30), <1>5, <1>same, <2>2 DEF RexmitDefer, rqVars
<1>6. ASSUME NEW f \in Frame, RexmitResend(f) PROVE BufInv'
  <2>1. NoFrame \/ UNCHANGED kickme
    BY ZenonT(60), <1>6 DEF RexmitResend, NotReassigned
  <2>2. FlagTypes'
    BY ZenonT(30), <1>6, <1>inv, <1>nofr, <2>1 DEF RexmitResend, FlagTypes, rqVars
  <2> QED
    BY ZenonT(30), <1>6, <1>inv, <1>move, <2>2 DEF RexmitResend, rqVars
<1>7. ASSUME NEW f \in Frame, NEW nf \in Frame, RexmitReassign(f, nf) PROVE BufInv'
  <2>1. todo \subseteq On("rexmitq")
    BY ZenonT(60), <1>7, <1>inv DEF RexmitReassign
  <2> QED
    BY ZenonT(30), <1>7, <1>inv, <2>1, BufReassign
<1>8. CASE RexmitDone
  <2>1. FlagTypes'
    BY ZenonT(60), <1>8, <1>inv DEF RexmitDone, FlagTypes
  <2>2. CASE UNCHANGED <<rqs, err>>
    BY ZenonT(30), <1>8, <1>same, <2>1, <2>2 DEF RexmitDone, bufVars
  <2>3. CASE /\ rqs' = [r \in Req |-> IF r \in Queued THEN "done" ELSE rqs[r]]
             /\ err' = err \cup Drained
    BY ZenonT(30), <1>8, <2>1, <2>3, BufDrain DEF RexmitDone
  <2> QED
    BY ZenonT(30), <1>8, <2>2, <2>3 DEF RexmitDone
<1>9. ASSUME NEW b \in Bio, NextBuf(b) PROVE BufInv'
  BY <1>9, BufNextBuf
<1>10. CASE NextBufNull
  BY ZenonT(30), <1>10, <1>same, <1>inv DEF NextBufNull, FlagTypes, flagVars, rqVars
<1>11. CASE NoNextBuf
  BY ZenonT(30), <1>11, <1>same, <1>inv DEF NoNextBuf, FlagTypes, flagVars, rqVars
<1>12. CASE NoNewFrame
  BY ZenonT(30), <1>12, <1>same, <1>inv, <1>nofr DEF NoNewFrame, FlagTypes, rqVars
<1>13. ASSUME NEW f \in Frame, SendFrame(f) PROVE BufInv'
  <2>1. /\ place' = [place EXCEPT ![f] = "active"] /\ place[f] = "free"
        /\ fbuf' = [fbuf EXCEPT ![f] = ipbuf] /\ probing' = probing
    BY ZenonT(60), <1>13 DEF SendFrame, NewFrames, On
  <2>2. PlacesOK(place', probing', fbuf')
    BY ZenonT(30), <1>inv, <2>1 DEF PlacesOK
  <2> QED
    BY ZenonT(30), <1>13, <2>2, BufSend
<1>14. ASSUME NEW f \in Frame, AtaRsp(f) PROVE BufInv'
  BY ZenonT(30), <1>14, <1>inv, <1>move DEF AtaRsp, CalcRttavg, FlagTypes, flagVars, rqVars
<1>15. ASSUME NEW f \in Frame, NEW good \in BOOLEAN, KtioTake(f, good) PROVE BufInv'
  <2>1. newsize' \in BOOLEAN
    BY <1>15, ZenonT(60) DEF KtioTake, AtaidComplete
  <2>2. FlagTypes'
    BY ZenonT(30), <1>15, <1>inv, <2>1 DEF KtioTake, AtaidComplete, FlagTypes, rqVars, ctlVars
  <2>3. PlacesOK(place', probing', fbuf)
    BY ZenonT(30), <1>15, <1>inv DEF KtioTake, AtaidComplete, PlacesOK
  <2>4. err \subseteq err' /\ err' \in SUBSET Bio
    BY ZenonT(30), <1>15, <1>inv DEF KtioTake, AtaidComplete
  <2> QED
    BY ZenonT(60), <1>15, <2>2, <2>3, <2>4, BufSame DEF KtioTake, AtaidComplete, rqVars
<1>16. ASSUME NEW f \in Frame, KtioComplete(f) PROVE BufInv'
  BY ZenonT(30), <1>16, <1>inv, BufKtioComplete
<1>17. ASSUME NEW E \in SUBSET Frame, TimerFires(E) PROVE BufInv'
  BY ZenonT(30), <1>17, <1>inv, <1>move DEF TimerFires, FlagTypes, flagVars, rqVars
<1>18. ASSUME NEW f \in Frame, TimerDefer(f) PROVE BufInv'
  BY ZenonT(60), <1>18, <1>inv, <1>move DEF TimerDefer, Ejectif, FlagTypes, flagVars, rqVars, ctlVars
<1>19. ASSUME NEW f \in Frame, TimerDead(f) PROVE BufInv'
  <2>1. Downdev
    BY <1>19 DEF TimerDead
  <2>2. FlagTypes'
    BY ZenonT(60), <1>inv, <2>1 DEF Downdev, Wreset, FlagTypes
  <2> QED
    BY ZenonT(30), <1>inv, <2>1, <2>2, BufDowndev
<1>20. CASE TimerDeferred
  BY ZenonT(30), <1>20, <1>same, <1>inv DEF TimerDeferred, FlagTypes, flagVars, rqVars
<1>id. ASSUME NEW w, NEW sent \in BOOLEAN, AtaId(w, sent)
       PROVE  /\ kickme' \in BOOLEAN
              /\ \A f \in Frame : place'[f] = "free" => place[f] = "free"
  <2>1. NoFrame \/ UNCHANGED kickme
    BY ZenonT(60), <1>id DEF AtaId
  <2>2. place' = place \/ \E f \in Frame : place' = [place EXCEPT ![f] = "active"]
    BY ZenonT(60), <1>id DEF AtaId, NewFrames, On
  <2> QED
    BY ZenonT(30), <1>inv, <1>nofr, <2>1, <2>2
<1>21. CASE Revalidate
  <2>1. PICK sent \in BOOLEAN : AtaId([t \in Tgt |-> 1], sent) /\ reval' = ~sent
    BY ZenonT(30), <1>21 DEF Revalidate, Wreset
  <2>2. nreval' \in 0..MaxReval
    BY <1>21, <1>inv, IoAssumption DEF Revalidate, Wreset, FlagTypes
  <2>3. FlagTypes'
    BY ZenonT(30), <1>21, <1>id, <1>inv, <2>1, <2>2 DEF Revalidate, Wreset, FlagTypes, rqVars
  <2> QED
    BY ZenonT(60), <1>21, <1>id, <1>move, <2>1, <2>3 DEF Revalidate, Wreset, rqVars
<1>22. CASE RevalidateAgain
  <2>1. /\ kickme' \in BOOLEAN /\ reval' \in BOOLEAN
        /\ \A f \in Frame : place'[f] = "free" => place[f] = "free"
    <3>1. CASE \E sent \in BOOLEAN : AtaId(maxout, sent) /\ reval' = ~sent
      BY ZenonT(30), <1>id, <3>1
    <3>2. CASE reval' = FALSE /\ UNCHANGED <<kickme, place>>
      BY ZenonT(60), <1>inv, <3>2 DEF FlagTypes
    <3> QED
      BY ZenonT(60), <1>22, <3>1, <3>2 DEF RevalidateAgain
  <2>2. FlagTypes'
    BY ZenonT(30), <1>22, <1>inv, <2>1 DEF RevalidateAgain, FlagTypes, rqVars
  <2> QED
    BY ZenonT(30), <1>22, <1>move, <2>1, <2>2 DEF RevalidateAgain, rqVars
<1>23. CASE Sleepwork
  BY ZenonT(60), <1>23, <1>same, <1>inv DEF Sleepwork, FlagTypes, rqVars, ctlVars
<1>24. ASSUME NEW t \in Tgt, CfgRsp(t) PROVE BufInv'
  BY ZenonT(30), <1>24, <1>same, <1>inv DEF CfgRsp, FlagTypes, flagVars, rqVars, ctlVars
<1>25. CASE Halted \/ UNCHANGED vars
  BY ZenonT(30), <1>25, <1>same, <1>inv DEF Halted, vars, FlagTypes, flagVars, rqVars, ctlVars
<1> QED
  BY ZenonT(30), <1>1, <1>2, <1>3, <1>4, <1>5, <1>6, <1>7, <1>8, <1>9, <1>10, <1>11, <1>12,
     <1>13, <1>14, <1>15, <1>16, <1>17, <1>18, <1>19, <1>20, <1>21, <1>22, <1>23,
     <1>24, <1>25 DEF Next

\* What the invariants say, in the terms of AoeIo.
LEMMA BufImplies ==
    WindowInv /\ BufInv =>
      TypeOK /\ NoDanglingBuf /\ CountsExact /\ NoStrandedBuf /\ NoFalseSuccess
<1> SUFFICES ASSUME WindowInv, BufInv
             PROVE  TypeOK /\ NoDanglingBuf /\ CountsExact /\ NoStrandedBuf
                    /\ NoFalseSuccess
  OBVIOUS
<1>1. TypeOK
  <2>1. /\ rqs \in [Req -> {"new", "queued", "started", "done"}]
        /\ special \in [Req -> Nat] /\ iprq \in Req \cup {None}
        /\ nxbio \subseteq Bio /\ ipbuf \in Bio \cup {None} /\ live \subseteq Bio
        /\ left \in [Bio -> Nat] /\ nframesout \in [Bio -> Nat]
        /\ fbuf \in [Frame -> Bio \cup {None}]
    BY ZenonT(60) DEF BufInv, ReqsOK, RqState, FramesOK, SentOK, IpOK
  <2> QED
    BY ZenonT(60), <2>1 DEF WindowInv, CountsOK, WindowTypes, BufInv, FlagTypes, TypeOK
<1>2. NoDanglingBuf
  BY ZenonT(60) DEF BufInv, FramesOK, PlacesOK, SentOK, ReqsOK, NoDanglingBuf
<1>3. CountsExact
  BY ZenonT(60) DEF BufInv, FramesOK, ReqsOK, CountsExact, FramesOf
<1>4. NoStrandedBuf
  BY ZenonT(60) DEF BufInv, SentOK, ReqsOK, NoStrandedBuf
<1>5. NoFalseSuccess
  BY ZenonT(60) DEF BufInv, ReqsOK, BioConserved, NoFalseSuccess
<1> QED
  BY ZenonT(30), <1>1, <1>2, <1>3, <1>4, <1>5

\* Both invariants hold of every behaviour of the driver.
THEOREM BufInvariant == Spec => [](WindowInv /\ BufInv)
BY WindowInit, WindowNext, BufInit, BufNext, PTL DEF Spec

\* Every variable of the I/O engine always has its type; no counter goes below
\* zero.
THEOREM TypeCorrect == Spec => []TypeOK
BY BufInvariant, BufImplies, PTL

\* No frame ever points to a buf that was freed, and no buf to a request that
\* was given back to the block layer.
THEOREM NothingDangles == Spec => []NoDanglingBuf
BY BufInvariant, BufImplies, PTL

\* buf->nframesout and rq->special always count what is still to finish.
THEOREM CountsAreExact == Spec => []CountsExact
BY BufInvariant, BufImplies, PTL

\* No buf and no request is ever left with nothing that could end it.
THEOREM NothingIsStranded == Spec => []NoStrandedBuf
BY BufInvariant, BufImplies, PTL

\* No bio is ever reported as good that was not answered in full.
THEOREM NoSuccessIsFalse == Spec => []NoFalseSuccess
BY BufInvariant, BufImplies, PTL

-----------------------------------------------------------------------------
(***************************************************************************)
(* The I/O engine implements AoeBlk.                                       *)
(***************************************************************************)

\* The request is with the driver.
PendingRq(r) == rqs[r] \in {"queued", "started"}

\* What a step that serves requests does to them: it changes nothing of a request
\* that is not pending.
Serves ==
    /\ \A r \in Req :
         \/ rqs'[r] = rqs[r]
         \/ PendingRq(r) /\ rqs'[r] \in {"started", "done"}
    /\ err \subseteq err' /\ \A b \in err' \ err : PendingRq(RqOf[b])
    /\ \E X \in SUBSET {b \in Bio : PendingRq(RqOf[b])} :
         acked' = [b \in Bio |-> IF b \in X THEN acked[b] + 1 ELSE acked[b]]

\* Such a step is a step of AoeBlk.
LEMMA ServesBlk ==
    ASSUME BufInv, BufInv', Serves
    PROVE  Blk!Next
<1> DEFINE s == [r \in Req |-> IF rqs[r] \in {"queued", "started"} THEN "pending" ELSE rqs[r]]
           D == {r \in Req : PendingRq(r) /\ rqs'[r] = "done"}
           E == err' \ err
           P == {b \in Bio : PendingRq(RqOf[b])}
<1>1. /\ rqs \in [Req -> RqState] /\ rqs' \in [Req -> RqState]
      /\ err \in SUBSET Bio /\ err' \in SUBSET Bio /\ RqOf \in [Bio -> Req]
  BY ZenonT(30), IoAssumption DEF BufInv, ReqsOK
<1>2. PICK X \in SUBSET P :
        acked' = [b \in Bio |-> IF b \in X THEN acked[b] + 1 ELSE acked[b]]
  BY ZenonT(30) DEF Serves
<1>3. Blk!Pending = {r \in Req : PendingRq(r)} /\ Blk!PendingBio = P
  <2>1. \A r \in Req : s[r] = "pending" <=> PendingRq(r)
    BY ZenonT(30), <1>1 DEF PendingRq, RqState
  <2>2. Blk!Pending = {r \in Req : PendingRq(r)}
    BY ZenonT(30), <2>1 DEF Blk!Pending
  <2> QED
    BY ZenonT(30), <1>1, <2>2 DEF Blk!PendingBio
<1>4. s' = [r \in Req |-> IF r \in D THEN "done" ELSE s[r]]
  <2> SUFFICES ASSUME NEW r \in Req
               PROVE  s'[r] = IF r \in D THEN "done" ELSE s[r]
    BY ZenonT(30)
  <2>1. \/ rqs'[r] = rqs[r]
        \/ PendingRq(r) /\ rqs'[r] \in {"started", "done"}
    BY ZenonT(30) DEF Serves
  <2> QED
    BY ZenonT(30), <2>1 DEF PendingRq
<1>5. err' = err \cup E
  BY ZenonT(30) DEF Serves
<1>6. \A b \in Bio : RqOf[b] \in D => b \in err' \/ acked'[b] = Size[b]
  <2> SUFFICES ASSUME NEW b \in Bio, RqOf[b] \in D, b \notin err'
               PROVE  acked'[b] = Size[b]
    OBVIOUS
  <2>1. BioConserved(b, rqs', nxbio', live', left', nframesout', acked')
    BY ZenonT(30) DEF BufInv
  <2>2. b \notin live' \cup nxbio'
    <3>1. \A c \in live' \cup nxbio' : rqs'[RqOf[c]] = "started"
      BY ZenonT(30) DEF BufInv, ReqsOK
    <3> QED
      BY ZenonT(30), <3>1
  <2> QED
    BY ZenonT(30), <2>1, <2>2 DEF BioConserved
<1>7. D \in SUBSET Blk!Pending /\ E \in SUBSET Blk!PendingBio /\ X \in SUBSET Blk!PendingBio
  BY ZenonT(30), <1>1, <1>3 DEF Serves
<1>8. Blk!Serve(D, E, X)
  BY ZenonT(30), <1>2, <1>4, <1>5, <1>6 DEF Blk!Serve
<1> QED
  BY ZenonT(30), <1>7, <1>8 DEF Blk!Next

\* EXCEPT, as a function of its argument.
LEMMA ExceptIsIf ==
    ASSUME NEW S, NEW T, NEW g \in [S -> T], NEW x \in S, NEW v
    PROVE  [g EXCEPT ![x] = v] = [y \in S |-> IF y = x THEN v ELSE g[y]]
BY ZenonT(60)

\* Ending bios of live bufs and of the request in progress, and draining the block
\* queue, change only requests that are pending.
LEMMA EndBiosServes ==
    ASSUME BufInv, NEW fin \in SUBSET (live \cup nxbio), NEW drain \in BOOLEAN,
           EndBios(fin, drain)
    PROVE  \A r \in Req : rqs'[r] = rqs[r] \/ (PendingRq(r) /\ rqs'[r] = "done")
<1>1. ReqsOK(rqs, special, live \cup nxbio)
  BY ZenonT(30) DEF BufInv
<1>2. \A r \in Req :
        \/ rqs'[r] = rqs[r]
        \/ rqs'[r] = "done" /\ rqs[r] = "started" /\ r \in EndedBy(fin)
        \/ rqs'[r] = "done" /\ rqs[r] = "queued" /\ drain
  BY ZenonT(60), <1>1, EndBiosReqs
<1> QED
  BY ZenonT(30), <1>2 DEF PendingRq

\* Every step of the driver is a step of AoeBlk, or changes nothing there.
LEMMA BlkStep ==
    ASSUME WindowInv, BufInv, BufInv', [Next]_vars
    PROVE  [Blk!Next]_Blk!vars
<1>inv. /\ rqs \in [Req -> RqState] /\ RqOf \in [Bio -> Req] /\ up \in BOOLEAN
        /\ live \cup nxbio \in SUBSET Bio
        /\ \A b \in live \cup nxbio : PendingRq(RqOf[b])
        /\ \A f \in Frame : fbuf[f] # None => fbuf[f] \in live
        /\ ipbuf # None => ipbuf \in live
        /\ acked \in [Bio -> Nat]
  BY ZenonT(30), IoAssumption DEF BufInv, ReqsOK, FramesOK, SentOK, FlagTypes, PendingRq
<1>same. ASSUME UNCHANGED <<rqs, err, acked>> PROVE [Blk!Next]_Blk!vars
  <2>1. UNCHANGED Blk!vars
    BY <1>same DEF Blk!vars
  <2> QED
    BY ZenonT(60), <2>1
<1>ack. acked' = acked =>
          \E X \in SUBSET {b \in Bio : PendingRq(RqOf[b])} :
            acked' = [b \in Bio |-> IF b \in X THEN acked[b] + 1 ELSE acked[b]]
  <2>1. acked = [b \in Bio |-> IF b \in {} THEN acked[b] + 1 ELSE acked[b]]
    BY <1>inv
  <2>2. {} \in SUBSET {b \in Bio : PendingRq(RqOf[b])}
    OBVIOUS
  <2> QED
    BY ZenonT(60), <2>1, <2>2
<1>drn. \A b \in Drained : PendingRq(RqOf[b])
  BY ZenonT(30) DEF Drained, Queued, PendingRq
<1>drain. ASSUME rqs' = [r \in Req |-> IF r \in Queued THEN "done" ELSE rqs[r]],
                 err' = err \cup Drained, acked' = acked
          PROVE  Blk!Next
  <2>1. \A r \in Req : rqs'[r] = rqs[r] \/ (PendingRq(r) /\ rqs'[r] = "done")
    BY ZenonT(30), <1>drain DEF Queued, PendingRq
  <2>s. Serves
    BY ZenonT(30), <1>drain, <1>drn, <1>ack, <2>1 DEF Serves
  <2> QED
    BY ZenonT(60), <2>s, ServesBlk
<1>1. ASSUME NEW r \in Req, Submit(r) PROVE Blk!Next
  <2>1. rqs[r] = "new" /\ rqs' = [rqs EXCEPT ![r] = "queued"] /\ UNCHANGED <<acked, err>>
    BY ZenonT(30), <1>1 DEF Submit, bufVars
  <2> DEFINE s == [q \in Req |-> IF rqs[q] \in {"queued", "started"} THEN "pending" ELSE rqs[q]]
  <2>2. s[r] = "new" /\ s' = [s EXCEPT ![r] = "pending"]
    <3>1. s[r] = "new"
      BY <2>1
    <3>2. \A q \in Req : rqs'[q] = IF q = r THEN "queued" ELSE rqs[q]
      BY ZenonT(30), <1>inv, <2>1
    <3>3. \A q \in Req : s'[q] = IF q = r THEN "pending" ELSE s[q]
      BY ZenonT(30), <3>2
    <3>4. s \in [Req -> {"new", "pending", "done"}]
      BY ZenonT(30), <1>inv DEF RqState
    <3>5. s' = [q \in Req |-> s'[q]]
      OBVIOUS
    <3> HIDE DEF s
    <3>6. [s EXCEPT ![r] = "pending"] = [q \in Req |-> IF q = r THEN "pending" ELSE s[q]]
      BY ZenonT(60), <3>4, ExceptIsIf
    <3> QED
      BY ZenonT(30), <3>1, <3>3, <3>5, <3>6
  <2>3. Blk!Submit(r)
    BY ZenonT(60), <2>1, <2>2 DEF Blk!Submit
  <2> QED
    BY ZenonT(60), <2>3 DEF Blk!Next
<1>2. ASSUME NEW r \in Req, NextRequest(r) PROVE Blk!Next
  <2>1. /\ rqs[r] = "queued" /\ rqs' = [rqs EXCEPT ![r] = "started"]
        /\ UNCHANGED <<acked, err>>
    BY ZenonT(30), <1>2 DEF NextRequest, bufVars
  <2>2. \A q \in Req : rqs'[q] = rqs[q] \/ (PendingRq(q) /\ rqs'[q] = "started")
    BY ZenonT(30), <1>inv, <2>1 DEF PendingRq
  <2>s. Serves
    BY ZenonT(30), <1>ack, <2>1, <2>2 DEF Serves
  <2> QED
    BY ZenonT(60), <2>s, ServesBlk
<1>3. CASE Request
  BY ZenonT(30), <1>3, <1>same, <1>drain DEF Request
<1>8. CASE RexmitDone
  BY ZenonT(30), <1>8, <1>same, <1>drain DEF RexmitDone
<1>15. ASSUME NEW f \in Frame, NEW good \in BOOLEAN, KtioTake(f, good) PROVE Blk!Next
  <2>1. /\ UNCHANGED <<rqs, acked>>
        /\ err' = err \/ (fbuf[f] # None /\ err' = err \cup {fbuf[f]})
    BY ZenonT(30), <1>15 DEF KtioTake, rqVars
  <2>2. err \subseteq err' /\ \A b \in err' \ err : PendingRq(RqOf[b])
    BY ZenonT(30), <1>inv, <2>1
  <2>s. Serves
    BY ZenonT(30), <1>ack, <2>1, <2>2 DEF Serves
  <2> QED
    BY ZenonT(60), <2>s, ServesBlk
<1>16. ASSUME NEW f \in Frame, KtioComplete(f) PROVE Blk!Next
  <2> DEFINE b == fbuf[f]
             fin == IF b # None /\ LastFrame(b) THEN {b} ELSE {}
             drain == EndedBy(fin) # {} /\ ~up
             X == IF b = None \/ b \in err THEN {} ELSE {b}
  <2>1. /\ EndBios(fin, drain)
        /\ err' = IF drain THEN err \cup Drained ELSE err
        /\ acked' = IF b = None \/ b \in err THEN acked ELSE [acked EXCEPT ![b] = @ + 1]
    BY ZenonT(60), <1>16 DEF KtioComplete
  <2>2. fin \in SUBSET (live \cup nxbio) /\ drain \in BOOLEAN
    BY ZenonT(30), <1>inv
  <2> HIDE DEF fin, drain
  <2>3. \A r \in Req : rqs'[r] = rqs[r] \/ (PendingRq(r) /\ rqs'[r] = "done")
    BY ZenonT(60), <2>1, <2>2, EndBiosServes
  <2>4. err \subseteq err' /\ \A c \in err' \ err : PendingRq(RqOf[c])
    BY ZenonT(30), <1>drn, <2>1
  <2>5. X \in SUBSET {c \in Bio : PendingRq(RqOf[c])}
    BY ZenonT(30), <1>inv
  <2>6. acked' = [c \in Bio |-> IF c \in X THEN acked[c] + 1 ELSE acked[c]]
    <3>1. CASE b = None \/ b \in err
      BY ZenonT(30), <1>inv, <2>1, <3>1
    <3>2. CASE b # None /\ b \notin err
      <4>1. X = {b} /\ acked' = [acked EXCEPT ![b] = @ + 1]
        BY ZenonT(30), <2>1, <3>2
      <4>2. acked' = [c \in Bio |-> IF c = b THEN acked[c] + 1 ELSE acked[c]]
        <5>1. b \in Bio
          BY ZenonT(30), <1>inv, <3>2
        <5>2. acked' = [c \in Bio |-> IF c = b THEN acked[b] + 1 ELSE acked[c]]
          BY ZenonT(60), <1>inv, <4>1, <5>1, ExceptIsIf
        <5> QED
          BY ZenonT(30), <5>1, <5>2
      <4>3. \A c : c \in X <=> c = b
        BY ZenonT(30), <4>1
      <4> HIDE DEF X, b
      <4> QED
        BY ZenonT(60), <4>2, <4>3
    <3> QED
      BY ZenonT(30), <3>1, <3>2
  <2> HIDE DEF X
  <2>s. Serves
    BY ZenonT(60), <2>3, <2>4, <2>5, <2>6 DEF Serves
  <2> QED
    BY ZenonT(60), <2>s, ServesBlk
<1>19. ASSUME NEW f \in Frame, TimerDead(f) PROVE Blk!Next
  <2> DEFINE hit == FailedBufs(DownFrames)
             fin == {b \in hit : nframesout[b] = Cardinality(FramesOf(b) \cap DownFrames)}
                    \cup nxbio
  <2>1. /\ EndBios(fin, TRUE) /\ acked' = acked
        /\ err' = err \cup hit \cup nxbio \cup Drained
    BY ZenonT(60), <1>19 DEF TimerDead, Downdev
  <2>2. hit \in SUBSET live
    BY <1>inv DEF FailedBufs, DownFrames, On
  <2>3. fin \in SUBSET (live \cup nxbio)
    BY ZenonT(30), <2>2
  <2> HIDE DEF hit, fin
  <2>4. \A r \in Req : rqs'[r] = rqs[r] \/ (PendingRq(r) /\ rqs'[r] = "done")
    BY ZenonT(60), <2>1, <2>3, EndBiosServes
  <2>5. err \subseteq err' /\ \A c \in err' \ err : PendingRq(RqOf[c])
    BY ZenonT(30), <1>inv, <1>drn, <2>1, <2>2
  <2>s. Serves
    BY <1>ack, <2>1, <2>4, <2>5 DEF Serves
  <2> QED
    BY ZenonT(60), <2>s, ServesBlk
<1>f. ASSUME NEW f \in Frame,
             \/ RexmitStopProbe(f) \/ RexmitDefer(f) \/ RexmitResend(f)
             \/ \E nf \in Frame : RexmitReassign(f, nf)
             \/ SendFrame(f) \/ AtaRsp(f) \/ TimerDefer(f)
      PROVE  [Blk!Next]_Blk!vars
  <2>1. UNCHANGED <<rqs, err, acked>>
    BY ZenonT(60), <1>f DEF RexmitStopProbe, RexmitDefer, RexmitResend, RexmitReassign,
       SendFrame, AtaRsp, TimerDefer, rqVars, bufVars
  <2> QED
    BY ZenonT(30), <1>same, <2>1
<1>g. ASSUME \/ \E b \in Bio : NextBuf(b)
             \/ NextBufNull \/ NoNextBuf \/ NoNewFrame
             \/ \E E \in SUBSET Frame : TimerFires(E)
             \/ TimerDeferred
             \/ Revalidate \/ RevalidateAgain \/ Sleepwork
             \/ \E t \in Tgt : CfgRsp(t)
             \/ Halted \/ UNCHANGED vars
      PROVE  [Blk!Next]_Blk!vars
  <2>1. UNCHANGED <<rqs, err, acked>>
    BY ZenonT(60), <1>g DEF NextBuf, NextBufNull, NoNextBuf, NoNewFrame, TimerFires, TimerDeferred,
       Revalidate, RevalidateAgain, Sleepwork, CfgRsp, Halted, vars, rqVars, bufVars
  <2> QED
    BY ZenonT(30), <1>same, <2>1
<1> QED
  BY ZenonT(60), <1>1, <1>2, <1>3, <1>8, <1>15, <1>16, <1>19, <1>f, <1>g DEF Next

\* The driver is a block device, for any requests, bios, targets and frames.
THEOREM DriverIsBlockDevice == Spec => IsBlockDevice
<1>1. Init => Blk!Init
  BY ZenonT(30) DEF Init, Blk!Init
<1>2. WindowInv /\ BufInv /\ (WindowInv /\ BufInv)' /\ [Next]_vars => [Blk!Next]_Blk!vars
  BY BlkStep
<1> QED
  BY <1>1, <1>2, BufInvariant, PTL DEF Spec, IsBlockDevice, Blk!Spec
=============================================================================
