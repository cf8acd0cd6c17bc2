------------------------------ MODULE AoePath ------------------------------
(***************************************************************************)
(* The paths to one AoE device: the targets (remote MAC addresses) through *)
(* which it was found, the local interfaces on which each target was       *)
(* heard, and the byte counts that both allow (aoecmd.c).  Config          *)
(* responses add targets and interfaces and change byte counts, every      *)
(* transmission moves a target on to its next interface, losses eject an   *)
(* interface, and a flush gives all of them back.                          *)
(*                                                                         *)
(* As in AoeIo the loops under d->lock take one iteration per step, and    *)
(* `lock' names the loop.                                                  *)
(*                                                                         *)
(* Abstractions.  What a command carries, the window and the taint of a    *)
(* target are in AoeIo and AoeFlow: here any target that has an interface  *)
(* may be chosen, a deferred frame may stay deferred or move, and a frame  *)
(* is "with ktio" between its answer and its completion.  A frame that     *)
(* moves to another target keeps its name.  A probe counts neither as lost *)
(* nor as answered, so that it only moves its target on to the next        *)
(* interface.                                                              *)
(***************************************************************************)
EXTENDS Integers, FiniteSets, FiniteSetsExt

CONSTANTS
    Mac,        \* remote addresses
    Nd,         \* local network interfaces
    Mtu,        \* nd->mtu
    Rsp,        \* config responses that can be heard: the target t, the interface
                \*   nd, and the buffer and sector counts that are announced
    Frame,      \* frames
    AoeMaxout,  \* aoe_maxout
    NAoeIfs,    \* NAOEIFS
    MaxLost,    \* bound: losses counted on one interface
    None        \* NULL

HdrLen == 36            \* struct aoe_hdr and struct aoe_atahdr
DefaultBcnt == 1024     \* DEFAULTBCNT
SafeMtu == HdrLen + DefaultBcnt
Word == 65536           \* the values of a u16

ASSUME PathAssumption ==
    /\ IsFiniteSet(Mac)
    /\ AoeMaxout \in Nat
    /\ NAoeIfs \in Nat /\ NAoeIfs >= 2
    /\ MaxLost \in Nat
    /\ None \notin Nd /\ None \notin Mac

\* An interface has room for the headers, and a response what its fields carry.
ASSUME RspAssumption ==
    /\ Mtu \in [Nd -> HdrLen..(Word - 1)]
    /\ Rsp \subseteq [t : Mac, nd : Nd, bufcnt : 0..(Word - 1), scnt : 0..255]

VARIABLES
    tgts,       \* the targets in d->targets
    nframes,    \* t->nframes
    ifs,        \* t->ifs
    ifp,        \* index in t->ifs of t->ifp
    minbcnt,    \* t->minbcnt
    maxbcnt,    \* d->maxbcnt
    held,       \* references that the device holds on an interface
    place,      \* the list that a frame is on
    ft,         \* f->t
    fdev,       \* the interface of f->skb, or of f->r_skb once it is answered;
                \*   a deferred frame's is not read before it is set again
    lock,       \* which loop the holder of d->lock is in
    todo,       \* what rexmit_deferred has not visited yet
    unanswered, \* history: what was lost on a path and not answered since
    stale       \* history: paths that got a slot with the losses of another

tgtVars == <<tgts, nframes, ifs, ifp, minbcnt, maxbcnt, held>>
frameVars == <<place, ft, fdev>>
ctlVars == <<lock, todo>>
histVars == <<unanswered, stale>>
vars == <<tgtVars, frameVars, ctlVars, histVars>>

Slot == 1..NAoeIfs
EmptyIf == [nd |-> None, bcnt |-> 0, lost |-> 0]
EmptyIfs == [i \in Slot |-> EmptyIf]

\* The interfaces of an array of slots, and the slots before its first empty one.
Nds(a) == {a[i].nd : i \in Slot} \ {None}
Valid(a) == {i \in Slot : \A j \in 1..i : a[j].nd # None}

On(p) == {f \in Frame : place[f] = p}

Init ==
    /\ tgts = {} /\ maxbcnt = 0
    /\ nframes = [t \in Mac |-> 0] /\ ifp = [t \in Mac |-> 1]
    /\ ifs = [t \in Mac |-> EmptyIfs] /\ minbcnt = [t \in Mac |-> 0]
    /\ held = [n \in Nd |-> 0]
    /\ place = [f \in Frame |-> "free"]
    /\ ft = [f \in Frame |-> None] /\ fdev = [f \in Frame |-> None]
    /\ lock = "free" /\ todo = {}
    /\ unanswered = [t \in Mac |-> [n \in Nd |-> 0]] /\ stale = {}

----------------------------------------------------------------------------
(* Interfaces of a target.                                                 *)

\* getif: the slots that hold interface n.
Getif(a, n) == {i \in Slot : a[i].nd = n}

\* ifrotate: the next slot, or the first if there is no interface in it; the
\* target stays where it is if the first slot is empty too.
Rotate(a, i) ==
    LET k == IF i = NAoeIfs \/ a[i + 1].nd = None THEN 1 ELSE i + 1
    IN IF a[k].nd = None THEN i ELSE k

\* ejectif: the slots behind k move down by one; the last keeps its counts.
EjectifKeepsLast(a, k) ==
    [i \in Slot |-> IF i < k \/ i = NAoeIfs THEN a[i] ELSE a[i + 1]]
EjectifKeepsLost(a, k) ==
    [i \in Slot |-> IF i < k THEN a[i]
                    ELSE IF i < NAoeIfs THEN [a[i + 1] EXCEPT !.lost = a[i].lost]
                    ELSE [a[i] EXCEPT !.nd = None]]
Ejectif(a, k) ==
    [i \in Slot |-> IF i < k THEN a[i]
                    ELSE IF i < NAoeIfs THEN a[i + 1]
                    ELSE [a[i] EXCEPT !.nd = None]]

\* The timer ejects an interface that lost too much, unless it is the only one.
MayEject(a, k, n) == a[k].lost + 1 > 2 * n /\ (k # 1 \/ a[2].nd # None)

\* setdbcnt: the smallest byte count of all targets.
SetdbcntLast(mb, t, S) == mb[t]
Setdbcnt(mb, t, S) == Min({mb[u] : u \in S})

\* The bytes of the next command or probe: d->maxbcnt, DEFAULTBCNT if it is 0.
FrameBytes == IF maxbcnt = 0 THEN DefaultBcnt ELSE maxbcnt

\* aoecmd_cfg_rsp: what one frame can carry through interface n, in 16 bits.
Bcnt(n, scnt) ==
    LET room == ((Mtu[n] - HdrLen) % Word) \div 512
        s == IF room > scnt THEN scnt ELSE room
    IN IF s = 0 THEN DefaultBcnt ELSE s * 512

\* aoecmd_cfg_rsp: the announced buffer count, within reason.
Nframes(r) == IF r.bufcnt > AoeMaxout THEN AoeMaxout ELSE r.bufcnt

\* setifbcnt: the slots of a target after interface n was heard with byte
\* count b.  A slot that was used before keeps its count of losses.
Setif(a, n, b) ==
    LET V == Valid(a)
        free == Cardinality(V) + 1
    IN IF n \in {a[i].nd : i \in V}
       THEN [i \in Slot |-> IF i \in V /\ a[i].nd = n
                            THEN [a[i] EXCEPT !.bcnt = b] ELSE a[i]]
       ELSE IF free > NAoeIfs THEN a
       ELSE [a EXCEPT ![free].nd = n, ![free].bcnt = b]

\* setifbcnt returns early: all slots are taken by other interfaces.
TooMany(a, n) == Valid(a) = Slot /\ n \notin Nds(a)

SetMinbcnt(a, b) == Min({b} \cup {a[i].bcnt : i \in Valid(a)})

----------------------------------------------------------------------------
(* Frames.                                                                 *)

\* A frame leaves on target t; p are the positions of all targets before it is
\* rotated.
Leave(f, t, a, p) ==
    LET i == Rotate(a[t], p[t])
    IN /\ place' = [place EXCEPT ![f] = "active"]
       /\ ft' = [ft EXCEPT ![f] = t]
       /\ fdev' = [fdev EXCEPT ![f] = a[t][i].nd]
       /\ ifp' = [p EXCEPT ![t] = i]

\* newframe takes a target only if t->ifp is an interface.
Newframe(f, t, a, p) ==
    /\ place[f] = "free"
    /\ a[t][p[t]].nd # None
    /\ Leave(f, t, a, p)

\* aoecmd_ata_rw and the identify command of a revalidation.
Send(f, t) ==
    /\ lock = "free"
    /\ t \in tgts
    /\ Newframe(f, t, ifs, ifp)
    /\ UNCHANGED <<tgts, nframes, ifs, minbcnt, maxbcnt, held, ctlVars, histVars>>

\* probe, or a probe that is sent again.
Probe(t) ==
    /\ lock \in {"free", "rexmit"}
    /\ t \in tgts
    /\ ifp' = [ifp EXCEPT ![t] = Rotate(ifs[t], @)]
    /\ UNCHANGED <<tgts, nframes, ifs, minbcnt, maxbcnt, held, frameVars, ctlVars,
                   histVars>>

\* aoecmd_cfg_rsp: a target announces itself on an interface.  A device that is
\* not open is identified, through any target.
CfgRsp(r) ==
    LET t == r.t
        n == r.nd
        old == IF t \in tgts THEN ifs[t] ELSE EmptyIfs
        b == Bcnt(n, r.scnt)
        a == [ifs EXCEPT ![t] = Setif(old, n, b)]
        p == IF t \in tgts THEN ifp ELSE [ifp EXCEPT ![t] = 1]
        S == tgts \cup {t}
    IN /\ lock = "free"
       /\ tgts' = S
       /\ nframes' = [nframes EXCEPT ![t] = Nframes(r)]
       /\ ifs' = a
       /\ IF TooMany(old, n)
          THEN UNCHANGED <<minbcnt, maxbcnt, held, histVars>>
          ELSE /\ minbcnt' = [minbcnt EXCEPT ![t] = SetMinbcnt(a[t], b)]
               /\ maxbcnt' = Setdbcnt(minbcnt', t, S)
               /\ held' = IF n \in Nds(old) THEN held ELSE [held EXCEPT ![n] = @ + 1]
               /\ unanswered' = IF n \in Nds(old) THEN unanswered
                                ELSE [unanswered EXCEPT ![t][n] = 0]
               /\ stale' = IF n \notin Nds(old) /\ \E i \in Getif(a[t], n) : a[t][i].lost > 0
                           THEN stale \cup {<<t, n>>} ELSE stale
       /\ \/ ifp' = p /\ UNCHANGED frameVars
          \/ \E f \in Frame, u \in S : Newframe(f, u, a, p)
       /\ UNCHANGED ctlVars

\* aoecmd_cleanslate: the byte count is forgotten until the next response.
Cleanslate ==
    /\ lock = "free"
    /\ maxbcnt # 0
    /\ maxbcnt' = 0
    /\ UNCHANGED <<tgts, nframes, ifs, ifp, minbcnt, held, frameVars, ctlVars,
                   histVars>>

----------------------------------------------------------------------------
(* Answers.                                                                *)

\* aoecmd_ata_rsp: an answer comes in through interface n, not always the one
\* that the command left through; the deferred frames are looked at next.
AtaRsp(f, n) ==
    /\ lock = "free"
    /\ place[f] \in {"active", "rexmitq"}
    /\ place' = [place EXCEPT ![f] = "ktio"]
    /\ fdev' = [fdev EXCEPT ![f] = n]
    /\ lock' = "rexmit" /\ todo' = On("rexmitq") \ {f}
    /\ UNCHANGED <<tgtVars, ft, histVars>>

\* ktiocomplete: a good answer to a read or write clears the losses of the
\* interface it came through; other answers do not.
KtioComplete(f, good) ==
    LET t == ft[f]
        n == fdev[f]
        hit == IF good THEN Getif(ifs[t], n) ELSE {}
    IN /\ lock = "free"
       /\ place[f] = "ktio"
       /\ ifs' = [ifs EXCEPT ![t] = [i \in Slot |-> IF i \in hit
                                                    THEN [@[i] EXCEPT !.lost = 0]
                                                    ELSE @[i]]]
       /\ unanswered' = IF good THEN [unanswered EXCEPT ![t][n] = 0] ELSE unanswered
       /\ stale' = IF good THEN stale \ {<<t, n>>} ELSE stale
       /\ place' = [place EXCEPT ![f] = "free"]
       /\ ft' = [ft EXCEPT ![f] = None] /\ fdev' = [fdev EXCEPT ![f] = None]
       /\ UNCHANGED <<tgts, nframes, ifp, minbcnt, maxbcnt, held, ctlVars>>

----------------------------------------------------------------------------
(* rexmit_timer and rexmit_deferred.                                       *)

TimerFires(E) ==
    /\ lock = "free"
    /\ E # {} /\ E \subseteq On("active")
    /\ place' = [f \in Frame |-> IF f \in E THEN "flist" ELSE place[f]]
    /\ lock' = "flist"
    /\ UNCHANGED <<tgtVars, ft, fdev, todo, histVars>>

\* An expired frame is deferred.  If the target still has the interface, the
\* loss is counted there, and the interface may be ejected.
TimerDefer(f) ==
    LET t == ft[f]
        n == fdev[f]
        hit == Getif(ifs[t], n)
    IN /\ lock = "flist"
       /\ place[f] = "flist"
       /\ place' = [place EXCEPT ![f] = "rexmitq"]
       /\ fdev' = [fdev EXCEPT ![f] = None]
       /\ \/ /\ hit = {}
             /\ UNCHANGED <<ifs, held, histVars>>
          \/ \E k \in hit :
               /\ MayEject(ifs[t], k, nframes[t])
               /\ ifs' = [ifs EXCEPT ![t] = Ejectif(@, k)]
               /\ held' = [held EXCEPT ![n] = @ - 1]
               /\ unanswered' = [unanswered EXCEPT ![t][n] = 0]
               /\ stale' = stale \ {<<t, n>>}
          \/ \E k \in hit :
               /\ ~MayEject(ifs[t], k, nframes[t])
               /\ ifs[t][k].lost < MaxLost
               /\ ifs' = [ifs EXCEPT ![t][k].lost = @ + 1]
               /\ unanswered' = [unanswered EXCEPT ![t][n] = @ + 1]
               /\ UNCHANGED <<held, stale>>
       /\ UNCHANGED <<tgts, nframes, ifp, minbcnt, maxbcnt, ft, ctlVars>>

\* aoedev_downdev: the frames that are not with ktio are given back.
Freed(v, new) == [f \in Frame |-> IF place[f] = "ktio" THEN v[f] ELSE new]
Downdev ==
    /\ place' = Freed(place, "free") /\ ft' = Freed(ft, None)
    /\ fdev' = Freed(fdev, None)

\* A frame has waited for longer than aoe_deadsecs.
TimerDead ==
    /\ lock = "flist"
    /\ On("flist") # {}
    /\ Downdev
    /\ lock' = "free"
    /\ UNCHANGED <<tgtVars, todo, histVars>>

TimerDeferred ==
    /\ lock = "flist"
    /\ On("flist") = {}
    /\ lock' = "rexmit" /\ todo' = On("rexmitq")
    /\ UNCHANGED <<tgtVars, frameVars, histVars>>

\* reassign_frame may have rotated the frame's own target, and given up.
OwnRotated(t) == {ifp, [ifp EXCEPT ![t] = Rotate(ifs[t], @)]}

\* The frame stays deferred.
RexmitDefer(f) ==
    /\ lock = "rexmit" /\ f \in todo
    /\ todo' = todo \ {f}
    /\ ifp' \in OwnRotated(ft[f])
    /\ UNCHANGED <<tgts, nframes, ifs, minbcnt, maxbcnt, held, frameVars, lock,
                   histVars>>

\* resend on the frame's own target.
RexmitResend(f) ==
    /\ lock = "rexmit" /\ f \in todo
    /\ todo' = todo \ {f}
    /\ \E p \in OwnRotated(ft[f]) : Leave(f, ft[f], ifs, p)
    /\ UNCHANGED <<tgts, nframes, ifs, minbcnt, maxbcnt, held, lock, histVars>>

\* resend after reassign_frame has found target u, which it rotated.
RexmitReassign(f, u) ==
    /\ lock = "rexmit" /\ f \in todo
    /\ u \in tgts \ {ft[f]}
    /\ ifs[u][ifp[u]].nd # None
    /\ todo' = todo \ {f}
    /\ Leave(f, u, ifs, [ifp EXCEPT ![u] = Rotate(ifs[u], @)])
    /\ UNCHANGED <<tgts, nframes, ifs, minbcnt, maxbcnt, held, lock, histVars>>

RexmitDone ==
    /\ lock = "rexmit" /\ todo = {}
    /\ lock' = "free"
    /\ UNCHANGED <<tgtVars, frameVars, todo, histVars>>

----------------------------------------------------------------------------

\* flush and freedev: the device goes down and is freed, which ktio must not
\* be using; freetgt gives back the interfaces before the first empty slot.
\* Nobody else comes in between, since the device is marked with DEVFL_TKILL.
Flush ==
    /\ lock = "free"
    /\ tgts # {} /\ On("ktio") = {}
    /\ Downdev
    /\ held' = [n \in Nd |->
                  held[n] - Cardinality({t \in tgts : \E i \in Valid(ifs[t]) :
                                                        ifs[t][i].nd = n})]
    /\ tgts' = {} /\ maxbcnt' = 0 /\ stale' = {}
    /\ nframes' = [t \in Mac |-> 0] /\ ifp' = [t \in Mac |-> 1]
    /\ ifs' = [t \in Mac |-> EmptyIfs] /\ minbcnt' = [t \in Mac |-> 0]
    /\ unanswered' = [t \in Mac |-> [n \in Nd |-> 0]]
    /\ UNCHANGED ctlVars

Next ==
    \/ \E r \in Rsp : CfgRsp(r)
    \/ \E t \in Mac : Probe(t) \/ \E f \in Frame : Send(f, t) \/ RexmitReassign(f, t)
    \/ \E f \in Frame :
         \/ \E n \in Nd : AtaRsp(f, n)
         \/ \E good \in BOOLEAN : KtioComplete(f, good)
         \/ TimerDefer(f) \/ RexmitDefer(f) \/ RexmitResend(f)
    \/ \E E \in SUBSET Frame : TimerFires(E)
    \/ Cleanslate \/ TimerDead \/ TimerDeferred \/ RexmitDone \/ Flush

Spec == Init /\ [][Next]_vars

----------------------------------------------------------------------------
(* Correctness.                                                            *)

\* Every variable has its type.
TypeOK ==
    /\ tgts \subseteq Mac
    /\ nframes \in [Mac -> 0..AoeMaxout] /\ ifp \in [Mac -> Slot]
    /\ ifs \in [Mac -> [Slot -> [nd : Nd \cup {None}, bcnt : Nat, lost : Nat]]]
    /\ minbcnt \in [Mac -> Nat] /\ maxbcnt \in Nat
    /\ held \in [Nd -> Nat]
    /\ place \in [Frame -> {"free", "active", "flist", "rexmitq", "ktio"}]
    /\ ft \in [Frame -> Mac \cup {None}] /\ fdev \in [Frame -> Nd \cup {None}]
    /\ lock \in {"free", "flist", "rexmit"} /\ todo \subseteq On("rexmitq")
    /\ unanswered \in [Mac -> [Nd -> Nat]] /\ stale \subseteq Mac \X Nd

\* The interfaces of a target are packed, none is there twice and one is always
\* there, whatever is heard and ejected, so that ifrotate finds an interface
\* ("probably can't happen" in resend) and no command leaves through a NULL.
\* The device holds one reference on an interface for every target that has it.
IfsSound ==
    /\ \A t \in tgts :
         /\ ifs[t][1].nd # None
         /\ \A i, j \in Slot : i < j /\ ifs[t][j].nd # None =>
              ifs[t][i].nd \notin {None, ifs[t][j].nd}
    /\ \A f \in On("active") : ft[f] \in tgts /\ fdev[f] # None
    /\ \A n \in Nd : held[n] = Cardinality({t \in tgts : n \in Nds(ifs[t])})

\* A command is not too large for any path that it may leave through, the other
\* targets' included: not for the interface, if its mtu can carry DEFAULTBCNT,
\* nor for what the target announced, unless a revalidation has just forgotten
\* it.  (A command that is sent again keeps its size.)
PathsFit ==
    \A t \in tgts, i \in Slot :
        LET p == ifs[t][i]
        IN p.nd # None =>
             /\ Mtu[p.nd] >= SafeMtu => FrameBytes + HdrLen <= Mtu[p.nd]
             /\ maxbcnt # 0 => maxbcnt <= p.bcnt

\* What a slot counts is what its own interface lost since it was last answered,
\* over ejections that move slots and answers on other interfaces; except that
\* an interface may get the last slot with the losses of the one before it.
LostExact ==
    \A t \in tgts, i \in Slot :
        LET p == ifs[t][i]
        IN p.nd # None /\ <<t, p.nd>> \notin stale => p.lost = unanswered[t][p.nd]
=============================================================================
