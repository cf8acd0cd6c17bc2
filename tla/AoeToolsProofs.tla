--------------------------- MODULE AoeToolsProofs ---------------------------
(***************************************************************************)
(* The programs of aoetools for any interfaces, targets, frame sizes and   *)
(* ways to start: the list of aoe-sancheck under racing insertions, the    *)
(* answers that each program takes, and the driver beside them.  With the  *)
(* arithmetic of the tags of AoeTag, those of the driver included.         *)
(***************************************************************************)
EXTENDS AoeTools, FiniteSetTheorems, TLAPS

USE SMTT(60), Z3T(60), ZenonT(30)

----------------------------------------------------------------------------
(* The inductive invariants.                                               *)

Node0 == Node \cup {Nil}
Label == {"discover", "poll", "done", "readid", "writeid", "head", "sethead",
          "first", "walk", "append", "link", "linknext", "probe"}

\* The thread of e has numbered the path on which it works.
Numbered(e) == Inserting(e) \/ pc[e] = "probe"
\* It works on a path that is not in luns yet.
Works(e) == Numbered(e) \/ pc[e] = "readid" \/ pc[e] = "writeid"
\* It walks on the list, or links its element behind p.
HasP(e) == pc[e] \in {"first", "walk", "append", "link", "linknext"}

\* The types of what the threads share, and of their own.
ListType ==
    /\ targlist \in Node0 /\ next \in [Node -> Node0] /\ raced \in BOOLEAN /\ id \in Nat
    /\ pc \in [Eth -> Label]
    /\ cur \in [Eth -> Target \cup {0}]
    /\ reg \in [Eth -> [id : Nat, p : Node0, t : Node0]]
    /\ DOMAIN luns = Eth
    /\ \A e \in Eth : DOMAIN luns[e] \subseteq Target
    /\ \A e \in Eth : Works(e) => cur[e] \in Target \ DOMAIN luns[e]

\* Commands are sent to targets.
SentType ==
    /\ sees \in [Eth -> SUBSET Target]
    /\ \A r \in sent : r.t \in Target

\* Whatever the threads do, an element is followed by a greater one, and a thread
\* links its element between a smaller and a greater one.
OrderInv ==
    /\ \A n \in Node : next[n] = Nil \/ Key(n) < Key(next[n])
    /\ \A e \in Eth : HasP(e) => reg[e].p \in Node /\ Key(reg[e].p) < cur[e]
    /\ \A e \in Eth : pc[e] \in {"link", "linknext"} =>
                          reg[e].t \in Node /\ cur[e] < Key(reg[e].t)

\* What follows an element, once a thread that has linked it in has set its next.
Nx == [n \in Node |-> IF pc[n[1]] = "linknext" /\ cur[n[1]] = n[2] THEN reg[n[1]].t
                                                                ELSE next[n]]

\* S is a list from its head h on, if f[n] follows n: it is reached from h, and
\* its elements are in order and without gaps.
ChainOf(S, h, f) ==
    /\ h \in S \cup {Nil} /\ (h = Nil <=> S = {})
    /\ \A n \in S : f[n] = Nil \/ f[n] \in S
    /\ \A n \in S : n = h \/ \E m \in S : f[m] = n
    /\ \A n \in S : Key(h) <= Key(n)
    /\ \A m, n \in S : Key(m) = Key(n) => m = n
    /\ \A m, n \in S : Key(m) < Key(n) => f[m] # Nil /\ Key(f[m]) <= Key(n)

\* S is the list of targets, and nothing else is linked to anything.
Chain(S) ==
    /\ ChainOf(S, targlist, Nx)
    /\ \A n \in Node \ S : next[n] = Nil \/ (pc[n[1]] = "sethead" /\ cur[n[1]] = n[2])

\* It has what the thread of e has found, and if that thread inserts it is where it
\* should be.
Placed(e, S) ==
    /\ \A t \in DOMAIN luns[e] : \E n \in S : Key(n) = t
    /\ pc[e] \in {"linknext", "probe"} => \E n \in S : Key(n) = cur[e]
    /\ pc[e] = "linknext" => ThisNode(e) \in S
    /\ pc[e] = "sethead" => next[ThisNode(e)] = targlist /\ \A n \in S : cur[e] < Key(n)
    /\ HasP(e) => reg[e].p \in S
    /\ pc[e] \in {"walk", "append", "link"} => reg[e].t = next[reg[e].p]
    /\ pc[e] = "append" => reg[e].t = Nil

\* If threads were never in inserttarg together, there is such a list.
OneInv ==
    ~raced =>
        /\ \A e, f \in Eth : Inserting(e) /\ Inserting(f) => e = f
        /\ \E S \in SUBSET Node : Chain(S) /\ \A e \in Eth : Placed(e, S)

\* The paths that were numbered.  The counter, which threads may set back, is
\* never ahead of them.
NumberedNodes == {n \in Node : \/ n[2] \in DOMAIN luns[n[1]]
                               \/ Numbered(n[1]) /\ cur[n[1]] = n[2]}
IdInv ==
    /\ id <= Cardinality(NumberedNodes)
    /\ \A e \in Eth : pc[e] = "writeid" => reg[e].id <= Cardinality(NumberedNodes)
    /\ \A e \in Eth : Numbered(e) => reg[e].id < Cardinality(Node)
    /\ \A e \in Eth : \A t \in DOMAIN luns[e] :
          /\ "id" \in DOMAIN luns[e][t]
          /\ luns[e][t].id \in Nat /\ luns[e][t].id < Cardinality(Node)

\* The tags under which each program sends.
Sender(r, start, tag) ==
    \/ r.by = "driver" /\ r.tag \in Tag /\ ForDriver(r.tag)
    \/ r.by = "sancheck" /\ r.tag \in ProbeTags
    \/ r.by = "aoeping" /\ \E k \in 1..3 : /\ r.tag = PingTag(start, k - 1)
                                           /\ r.kind = <<"config", "identify", "smart">>[k]
    \/ r.by = "aoecfg" /\ r.tag = tag /\ r.kind = "config"
SentInv == \A r \in sent : Sender(r, ping.start, cfg.tag)

\* What aoeping and aoecfg were told, and where they are.
StartInv ==
    /\ ping \in [start : Tag, want : {"none", "find", "ident", "smart"}, out : BOOLEAN,
                 stage : {"find", "ident", "smart", "ok", "failed"}]
    /\ ping.stage = "find" => ping.want # "none"
    /\ ping.stage = "ident" => ping.want \in {"ident", "smart"}
    /\ cfg \in [tag : {CfgTag(u) : u \in Usec}, all : BOOLEAN, st : {"new", "out", "done"}]

----------------------------------------------------------------------------
(* Elements of the list, and what a thread leaves alone.                   *)

\* An element is a thread and a target, and not NULL.
LEMMA NodeFacts ==
    /\ Target \subseteq Nat
    /\ \A n \in Node : /\ n[1] \in Eth /\ n[2] \in Target /\ n = <<n[1], n[2]>>
                       /\ Key(n) = n[2] /\ n[2] \in Nat /\ n # Nil
    /\ \A e \in Eth, t \in Target : /\ <<e, t>> \in Node
                                    /\ <<e, t>>[1] = e /\ <<e, t>>[2] = t
<1>1. Target \subseteq Nat
  BY ToolsAssumption
<1>2. ASSUME NEW n \in Node
      PROVE  /\ n[1] \in Eth /\ n[2] \in Target /\ n = <<n[1], n[2]>>
             /\ Key(n) = n[2] /\ n # Nil
  <2>1. n[1] \in Eth /\ n[2] \in Target /\ n = <<n[1], n[2]>>
    BY DEF Node
  <2>2. <<n[1], n[2]>> # <<>>
    OBVIOUS
  <2> QED
    BY ZenonT(30), <2>1, <2>2 DEF Key, Nil
<1>3. ASSUME NEW e \in Eth, NEW t \in Target
      PROVE  <<e, t>> \in Node /\ <<e, t>>[1] = e /\ <<e, t>>[2] = t
  BY DEF Node
<1> QED
  BY ZenonT(30), <1>1, <1>2, <1>3

\* A thread changes its own pc, path, registers and luns only.
Alone(e) ==
    \A f \in Eth \ {e} : /\ pc'[f] = pc[f] /\ cur'[f] = cur[f]
                         /\ reg'[f] = reg[f] /\ luns'[f] = luns[f]
LEMMA Others ==
    ASSUME ListType, NEW e \in Eth, Sancheck(e)
    PROVE  Alone(e)
<1>0. /\ DOMAIN pc = Eth /\ DOMAIN cur = Eth /\ DOMAIN reg = Eth /\ DOMAIN luns = Eth
      /\ pc = [f \in Eth |-> pc[f]] /\ cur = [f \in Eth |-> cur[f]]
      /\ reg = [f \in Eth |-> reg[f]]
  BY DEF ListType
<1>1. CASE JDiscover(e) \/ Quiet(e) \/ SetHead(e) \/ LinkNext(e) \/ WriteId(e) \/ Link(e)
  BY ZenonT(30), <1>0, <1>1 DEF JDiscover, Quiet, SetHead, LinkNext, WriteId, Link, Goto, Alone
<1>2. CASE ReadId(e) \/ Head0(e) \/ First(e) \/ Walk(e)
  BY ZenonT(30), <1>0, <1>2 DEF ReadId, Head0, First, Walk, Goto, Alone
<1>3. CASE Probe(e)
  BY ZenonT(30), <1>0, <1>3 DEF Probe, Goto, Alone
<1>4. ASSUME NEW r \in sent, JConfig(e, r) \/ JAta(e, r) PROVE Alone(e)
  BY ZenonT(30), <1>0, <1>4 DEF JConfig, JAta, Goto, Alone
<1> QED
  BY ZenonT(30), <1>1, <1>2, <1>3, <1>4 DEF Sancheck

----------------------------------------------------------------------------
(* What a thread does to its pc, its path, its registers and its luns.     *)

Regs == [id : Nat, p : Node0, t : Node0]
Moves(e, l) == pc'[e] = l /\ pc' = [f \in Eth |-> pc'[f]]
Holds(e, i, p, t) ==
    /\ reg'[e] = [id |-> i, p |-> p, t |-> t] /\ reg' = [f \in Eth |-> reg'[f]]
    /\ UNCHANGED <<cur, luns>>

\* The steps that leave the path and luns alone.
LEMMA Effects ==
    ASSUME ListType, NEW e \in Eth
    PROVE  /\ JDiscover(e) => Moves(e, "poll") /\ UNCHANGED <<cur, luns, reg>>
           /\ Quiet(e) => Moves(e, "done") /\ UNCHANGED <<cur, luns, reg>>
           /\ ReadId(e) => Moves(e, "writeid") /\ Holds(e, id, reg[e].p, reg[e].t)
           /\ WriteId(e) => Moves(e, "head") /\ UNCHANGED <<cur, luns, reg>>
           /\ SetHead(e) => Moves(e, "probe") /\ UNCHANGED <<cur, luns, reg>>
           /\ First(e) => Moves(e, "walk") /\ Holds(e, reg[e].id, reg[e].p, next[reg[e].p])
           /\ LinkNext(e) => Moves(e, "probe") /\ UNCHANGED <<cur, luns, reg>>
<1>0. /\ DOMAIN pc = Eth /\ DOMAIN reg = Eth /\ pc = [f \in Eth |-> pc[f]]
      /\ reg = [f \in Eth |-> reg[f]] /\ reg[e] \in Regs
  BY DEF ListType, Regs
<1>1. reg[e] = [id |-> reg[e].id, p |-> reg[e].p, t |-> reg[e].t]
  BY <1>0 DEF Regs
<1>2. \A l : Goto(e, l) => Moves(e, l)
  BY ZenonT(30), <1>0 DEF Goto, Moves
<1>3. ReadId(e) => Holds(e, id, reg[e].p, reg[e].t)
  BY <1>0, <1>1 DEF ReadId, Holds
<1>4. First(e) => Holds(e, reg[e].id, reg[e].p, next[reg[e].p])
  BY <1>0, <1>1 DEF First, Holds
<1> QED
  BY ZenonT(30), <1>2, <1>3, <1>4
  DEF JDiscover, Quiet, ReadId, WriteId, SetHead, First, LinkNext

\* The registers, one by one.
LEMMA Fields ==
    ASSUME NEW e \in Eth, NEW i, NEW p, NEW t, Holds(e, i, p, t)
    PROVE  /\ reg'[e].id = i /\ reg'[e].p = p /\ reg'[e].t = t
           /\ cur' = cur /\ luns' = luns
BY DEF Holds

\* The steps of inserttarg that branch.
LEMMA Branches ==
    ASSUME ListType, NEW e \in Eth
    PROVE  /\ Head0(e) =>
                 /\ UNCHANGED <<cur, luns>>
                 /\ \/ targlist = Nil /\ Moves(e, "sethead") /\ UNCHANGED <<next, reg>>
                    \/ /\ targlist # Nil /\ cur[e] < Key(targlist)
                       /\ next' = [next EXCEPT ![ThisNode(e)] = targlist]
                       /\ Moves(e, "sethead") /\ UNCHANGED reg
                    \/ /\ targlist # Nil /\ cur[e] = Key(targlist)
                       /\ Moves(e, "probe") /\ UNCHANGED <<next, reg>>
                    \/ /\ targlist # Nil /\ cur[e] > Key(targlist)
                       /\ Holds(e, reg[e].id, targlist, reg[e].t)
                       /\ Moves(e, "first") /\ UNCHANGED next
           /\ Walk(e) =>
                 /\ UNCHANGED <<cur, luns, next>>
                 /\ \/ reg[e].t = Nil /\ Moves(e, "append") /\ UNCHANGED reg
                    \/ /\ reg[e].t # Nil /\ cur[e] = Key(reg[e].t)
                       /\ Moves(e, "probe") /\ UNCHANGED reg
                    \/ /\ reg[e].t # Nil /\ cur[e] < Key(reg[e].t)
                       /\ Moves(e, "link") /\ UNCHANGED reg
                    \/ /\ reg[e].t # Nil /\ cur[e] > Key(reg[e].t)
                       /\ Holds(e, reg[e].id, reg[e].t, next[reg[e].t])
                       /\ Moves(e, "walk")
           /\ Link(e) => /\ UNCHANGED <<cur, luns, reg>>
                         /\ \/ pc[e] = "link" /\ Moves(e, "linknext")
                            \/ pc[e] = "append" /\ Moves(e, "probe")
<1>0. /\ DOMAIN pc = Eth /\ DOMAIN reg = Eth /\ pc = [f \in Eth |-> pc[f]]
      /\ reg = [f \in Eth |-> reg[f]] /\ reg[e] \in Regs
  BY DEF ListType, Regs
<1>1. reg[e] = [id |-> reg[e].id, p |-> reg[e].p, t |-> reg[e].t]
  BY <1>0 DEF Regs
<1>2. \A l : Goto(e, l) => Moves(e, l)
  BY ZenonT(30), <1>0 DEF Goto, Moves
<1>3. UNCHANGED pc /\ pc[e] = "walk" => Moves(e, "walk")
  BY ZenonT(30), <1>0 DEF Moves
<1>4. /\ UNCHANGED <<cur, luns>>
      /\ reg' = [reg EXCEPT ![e].p = targlist]
      => Holds(e, reg[e].id, targlist, reg[e].t)
  BY ZenonT(30), <1>0, <1>1 DEF Holds
<1>5. /\ UNCHANGED <<cur, luns>>
      /\ reg' = [reg EXCEPT ![e].p = reg[e].t, ![e].t = next[reg[e].t]]
      => Holds(e, reg[e].id, reg[e].t, next[reg[e].t])
  BY ZenonT(30), <1>0, <1>1 DEF Holds
<1>6. ASSUME Head0(e)
      PROVE  /\ UNCHANGED <<cur, luns>>
             /\ \/ targlist = Nil /\ Moves(e, "sethead") /\ UNCHANGED <<next, reg>>
                \/ /\ targlist # Nil /\ cur[e] < Key(targlist)
                   /\ next' = [next EXCEPT ![ThisNode(e)] = targlist]
                   /\ Moves(e, "sethead") /\ UNCHANGED reg
                \/ /\ targlist # Nil /\ cur[e] = Key(targlist)
                   /\ Moves(e, "probe") /\ UNCHANGED <<next, reg>>
                \/ /\ targlist # Nil /\ cur[e] > Key(targlist)
                   /\ Holds(e, reg[e].id, targlist, reg[e].t)
                   /\ Moves(e, "first") /\ UNCHANGED next
  BY ZenonT(30), <1>2, <1>4, <1>6 DEF Head0
<1>7. ASSUME Walk(e)
      PROVE  /\ UNCHANGED <<cur, luns, next>>
             /\ \/ reg[e].t = Nil /\ Moves(e, "append") /\ UNCHANGED reg
                \/ /\ reg[e].t # Nil /\ cur[e] = Key(reg[e].t)
                   /\ Moves(e, "probe") /\ UNCHANGED reg
                \/ /\ reg[e].t # Nil /\ cur[e] < Key(reg[e].t)
                   /\ Moves(e, "link") /\ UNCHANGED reg
                \/ /\ reg[e].t # Nil /\ cur[e] > Key(reg[e].t)
                   /\ Holds(e, reg[e].id, reg[e].t, next[reg[e].t])
                   /\ Moves(e, "walk")
  BY ZenonT(30), <1>2, <1>3, <1>5, <1>7 DEF Walk, At
<1>8. ASSUME Link(e)
      PROVE  /\ UNCHANGED <<cur, luns, reg>>
             /\ \/ pc[e] = "link" /\ Moves(e, "linknext")
                \/ pc[e] = "append" /\ Moves(e, "probe")
  BY ZenonT(30), <1>2, <1>8 DEF Link, At
<1> QED
  BY ZenonT(30), <1>6, <1>7, <1>8

\* The steps that start on a path, take the answer of one, and enter one in luns.
LEMMA Paths ==
    ASSUME ListType, NEW e \in Eth
    PROVE  /\ \A r : JConfig(e, r) => /\ Moves(e, "readid") /\ UNCHANGED <<luns, reg>>
                                      /\ cur'[e] = r.t /\ cur' = [f \in Eth |-> cur'[f]]
           /\ \A r : JAta(e, r) => /\ UNCHANGED <<pc, cur, reg>>
                                   /\ DOMAIN luns'[e] = DOMAIN luns[e] /\ DOMAIN luns' = Eth
           /\ Probe(e) => /\ Moves(e, "poll") /\ cur'[e] = 0 /\ cur' = [f \in Eth |-> cur'[f]]
                          /\ reg'[e] = [id |-> 0, p |-> Nil, t |-> Nil] /\ reg' = [f \in Eth |-> reg'[f]]
                          /\ DOMAIN luns'[e] = DOMAIN luns[e] \cup {cur[e]}
                          /\ DOMAIN luns' = Eth
<1>0. /\ DOMAIN pc = Eth /\ pc = [f \in Eth |-> pc[f]]
      /\ cur = [f \in Eth |-> cur[f]] /\ DOMAIN luns = Eth /\ reg = [f \in Eth |-> reg[f]]
  BY DEF ListType
<1>1. \A l : Goto(e, l) => Moves(e, l)
  BY ZenonT(30), <1>0 DEF Goto, Moves
<1>2. ASSUME NEW r, JConfig(e, r)
      PROVE  cur'[e] = r.t /\ cur' = [f \in Eth |-> cur'[f]]
  BY ZenonT(30), <1>0, <1>2 DEF JConfig
<1>3. ASSUME NEW r, JAta(e, r)
      PROVE  DOMAIN luns'[e] = DOMAIN luns[e] /\ DOMAIN luns' = Eth
  BY ZenonT(30), <1>0, <1>3 DEF JAta
<1>4. ASSUME Probe(e)
      PROVE  /\ cur'[e] = 0 /\ cur' = [f \in Eth |-> cur'[f]]
             /\ reg'[e] = [id |-> 0, p |-> Nil, t |-> Nil] /\ reg' = [f \in Eth |-> reg'[f]]
             /\ DOMAIN luns'[e] = DOMAIN luns[e] \cup {cur[e]} /\ DOMAIN luns' = Eth
  BY ZenonT(30), <1>0, <1>4 DEF Probe
<1> QED
  BY ZenonT(30), <1>1, <1>2, <1>3, <1>4 DEF JConfig, JAta, Probe

----------------------------------------------------------------------------
(* Types.                                                                  *)

\* What a step of the thread of e has to keep.
LEMMA TypeOf ==
    ASSUME ListType, NEW e \in Eth, Alone(e),
           targlist' \in Node0, next' \in [Node -> Node0], raced' \in BOOLEAN, id' \in Nat,
             DOMAIN luns' = Eth, pc' = [f \in Eth |-> pc'[f]], cur' = [f \in Eth |-> cur'[f]],
           reg' = [f \in Eth |-> reg'[f]],
           pc'[e] \in Label, cur'[e] \in Target \cup {0}, reg'[e] \in Regs,
           DOMAIN luns'[e] \subseteq Target,
           Works(e)' => cur'[e] \in Target \ DOMAIN luns'[e]
    PROVE  ListType'
<1>1. \A f \in Eth : /\ pc'[f] \in Label /\ cur'[f] \in Target \cup {0} /\ reg'[f] \in Regs
                     /\ DOMAIN luns'[f] \subseteq Target
                     /\ Works(f)' => cur'[f] \in Target \ DOMAIN luns'[f]
  BY ZenonT(30) DEF Alone, ListType, Works, Numbered, Inserting, Regs
<1> QED
  BY ZenonT(30), <1>1 DEF ListType, Regs

\* A thread keeps the types.
LEMMA TypeStepThread ==
    ASSUME ListType, SentType, OrderInv, NEW e \in Eth, Sancheck(e)
    PROVE  ListType'
<1>0. /\ targlist \in Node0 /\ next \in [Node -> Node0] /\ raced \in BOOLEAN
      /\ pc[e] \in Label /\ cur[e] \in Target \cup {0} /\ reg[e] \in Regs
      /\ pc = [f \in Eth |-> pc[f]] /\ cur = [f \in Eth |-> cur[f]]
      /\ reg = [f \in Eth |-> reg[f]] /\ DOMAIN luns = Eth
      /\ DOMAIN luns[e] \subseteq Target /\ Nil \in Node0 /\ id \in Nat
      /\ Works(e) => cur[e] \in Target \ DOMAIN luns[e]
  BY DEF ListType, Regs, Node0
<1>1. Alone(e)
  BY Others
<1>2. reg[e].id \in Nat /\ reg[e].p \in Node0 /\ reg[e].t \in Node0
  BY <1>0 DEF Regs
<1>3. \A i \in Nat, p \in Node0, t \in Node0 : [id |-> i, p |-> p, t |-> t] \in Regs
  BY DEF Regs
<1>4. \A n \in Node0 : n # Nil => next[n] \in Node0
  BY <1>0 DEF Node0
<1> DEFINE Shared == targlist' \in Node0 /\ next' \in [Node -> Node0] /\ id' \in Nat
<1>5. ASSUME NEW l \in Label, Moves(e, l), UNCHANGED <<cur, luns>>, Shared, raced' \in BOOLEAN,
             DOMAIN luns' = Eth, reg' = [f \in Eth |-> reg'[f]], reg'[e] \in Regs,
             l \in {"poll", "done"} \/ Works(e)
      PROVE  ListType'
  <2>1. Works(e)' => cur'[e] \in Target \ DOMAIN luns'[e]
    BY ZenonT(30), <1>0, <1>5 DEF Works, Numbered, Inserting, Moves
  <2> QED
    BY ZenonT(30), <1>0, <1>1, <1>5, <2>1, TypeOf DEF Moves
<1>6. ASSUME NEW l \in Label, Moves(e, l), UNCHANGED <<cur, luns, reg>>, Shared,
             raced' \in BOOLEAN, l \in {"poll", "done"} \/ Works(e)
      PROVE  ListType'
  BY ZenonT(30), <1>0, <1>5, <1>6
<1>7. ASSUME NEW l \in Label, Moves(e, l), NEW i \in Nat, NEW p \in Node0, NEW t \in Node0,
             Holds(e, i, p, t), Shared, raced' \in BOOLEAN, Works(e)
      PROVE  ListType'
  BY ZenonT(30), <1>0, <1>3, <1>5, <1>7 DEF Holds
<1> HIDE DEF Shared
<1>8. UNCHANGED <<targlist, next, id>> => Shared
  BY ZenonT(30), <1>0 DEF Shared
<1>9. pc[e] \in Label \ {"discover", "poll", "done"} => Works(e)
  BY DEF Label, Works, Numbered, Inserting
<1>10. CASE JDiscover(e) \/ Quiet(e)
  BY ZenonT(30), <1>0, <1>6, <1>8, <1>10, Effects DEF JDiscover, Quiet, Label
<1>11. CASE ReadId(e)
  BY ZenonT(30), <1>0, <1>2, <1>7, <1>8, <1>9, <1>11, Effects DEF ReadId, At, Label
<1>12. CASE WriteId(e)
  <2>1. Shared /\ raced' \in BOOLEAN
    BY <1>0, <1>2, <1>12 DEF WriteId, Shared, Enter
  <2> QED
    BY ZenonT(30), <1>0, <1>6, <1>9, <1>12, <2>1, Effects DEF WriteId, At, Label
<1>13. CASE First(e)
  <2>1. next[reg[e].p] \in Node0
    BY ZenonT(30), <1>0, <1>13 DEF OrderInv, HasP, First, At
  <2> QED
    BY ZenonT(30), <1>0, <1>2, <1>7, <1>8, <1>9, <1>13, <2>1, Effects DEF First, At, Label
<1>14. ASSUME pc[e] \in Label \ {"discover", "poll", "done"}
       PROVE  ThisNode(e) \in Node
  BY ZenonT(30), <1>0, <1>9, <1>14, NodeFacts DEF ThisNode
<1>15. CASE Head0(e)
  <2>1. Works(e) /\ ThisNode(e) \in Node /\ raced' = raced
    BY ZenonT(30), <1>0, <1>9, <1>14, <1>15 DEF Head0, At, Label
  <2>2. Shared
    BY ZenonT(30), <1>0, <1>15, <2>1 DEF Head0, Shared
  <2> QED
    BY ZenonT(30), <1>0, <1>2, <1>6, <1>7, <1>15, <2>1, <2>2, Branches DEF Label
<1>16. CASE SetHead(e)
  <2>1. Works(e) /\ ThisNode(e) \in Node /\ raced' = raced
    BY ZenonT(30), <1>0, <1>9, <1>14, <1>16 DEF SetHead, At, Label
  <2>2. Shared
    BY ZenonT(30), <1>0, <1>16, <2>1 DEF SetHead, Shared, Node0
  <2> QED
    BY ZenonT(30), <1>0, <1>6, <1>16, <2>1, <2>2, Effects DEF Label
<1>17. CASE Walk(e)
  <2>1. Works(e) /\ raced' = raced
    BY ZenonT(30), <1>0, <1>9, <1>17 DEF Walk, At, Label
  <2>2. Shared
    BY ZenonT(30), <1>8, <1>17 DEF Walk
  <2>3. reg[e].t # Nil => next[reg[e].t] \in Node0
    BY ZenonT(30), <1>2, <1>4
  <2> QED
    BY ZenonT(30), <1>0, <1>2, <1>6, <1>7, <1>17, <2>1, <2>2, <2>3, Branches DEF Label
<1>18. CASE Link(e)
  <2>1. Works(e) /\ ThisNode(e) \in Node /\ raced' = raced
    BY ZenonT(30), <1>0, <1>9, <1>14, <1>18 DEF Link, At, Label
  <2>2. Shared
    BY ZenonT(30), <1>0, <1>18, <2>1 DEF Link, Shared, Node0
  <2> QED
    BY ZenonT(30), <1>0, <1>6, <1>18, <2>1, <2>2, Branches DEF Label
<1>19. CASE LinkNext(e)
  <2>1. Works(e) /\ ThisNode(e) \in Node /\ raced' = raced
    BY ZenonT(30), <1>0, <1>9, <1>14, <1>19 DEF LinkNext, At, Label
  <2>2. Shared
    BY ZenonT(30), <1>0, <1>2, <1>19, <2>1 DEF LinkNext, Shared
  <2> QED
    BY ZenonT(30), <1>0, <1>6, <1>19, <2>1, <2>2, Effects DEF Label
<1>20. CASE Probe(e)
  <2>1. Works(e) /\ cur[e] \in Target
    BY ZenonT(30), <1>0, <1>9, <1>20 DEF Probe, At, Label
  <2>2. ~Works(e)' /\ pc'[e] \in Label /\ reg'[e] \in Regs
    <3>1. pc'[e] = "poll" /\ reg'[e] = [id |-> 0, p |-> Nil, t |-> Nil]
      BY ZenonT(30), <1>20, Paths DEF Moves
    <3> QED
      BY <1>0, <1>3, <3>1 DEF Works, Numbered, Inserting, Label
  <2> QED
    BY ZenonT(30), <1>0, <1>1, <1>20, <2>1, <2>2, Paths, TypeOf DEF Probe, Moves
<1>21. ASSUME NEW r \in sent, JConfig(e, r) PROVE ListType'
  <2>1. r.t \in Target \ DOMAIN luns[e]
    BY ZenonT(30), <1>21 DEF JConfig, SentType
  <2>2. pc'[e] \in Label
    BY ZenonT(30), <1>21, Paths DEF Moves, Label
  <2>3. /\ UNCHANGED <<targlist, next, raced, id, luns, reg>>
        /\ cur'[e] = r.t /\ cur' = [f \in Eth |-> cur'[f]] /\ pc' = [f \in Eth |-> pc'[f]]
    BY ZenonT(30), <1>21, Paths DEF JConfig, Moves
  <2>4. cur'[e] \in Target \ DOMAIN luns'[e] /\ cur'[e] \in Target \cup {0}
    BY ZenonT(30), <2>1, <2>3
  <2> QED
    BY ZenonT(30), <1>0, <1>1, <2>2, <2>3, <2>4, TypeOf
<1>22. ASSUME NEW r \in sent, JAta(e, r) PROVE ListType'
  <2>1. Works(e)' <=> Works(e)
    BY ZenonT(30), <1>22 DEF JAta, Works, Numbered, Inserting
  <2>2. /\ UNCHANGED <<targlist, next, raced, id, pc, cur, reg>>
        /\ DOMAIN luns'[e] = DOMAIN luns[e] /\ DOMAIN luns' = Eth
    BY ZenonT(30), <1>22, Paths DEF JAta
  <2> QED
    BY ZenonT(30), <1>0, <1>1, <2>1, <2>2, TypeOf
<1> QED
  BY ZenonT(30), <1>10, <1>11, <1>12, <1>13, <1>15, <1>16, <1>17, <1>18, <1>19, <1>20, <1>21,
     <1>22 DEF Sancheck

----------------------------------------------------------------------------
(* Order, whatever the threads do.                                         *)

Ordered == \A n \in Node : next[n] = Nil \/ Key(n) < Key(next[n])
Behind(e) ==
    /\ HasP(e) => reg[e].p \in Node /\ Key(reg[e].p) < cur[e]
    /\ pc[e] \in {"link", "linknext"} => reg[e].t \in Node /\ cur[e] < Key(reg[e].t)

\* What a step of the thread of e has to keep.
LEMMA OrderOf ==
    ASSUME OrderInv, NEW e \in Eth, Alone(e), Ordered', Behind(e)'
    PROVE  OrderInv'
<1>1. \A f \in Eth : Behind(f)'
  BY ZenonT(30) DEF OrderInv, Alone, Behind, HasP
<1> QED
  BY ZenonT(30), <1>1 DEF OrderInv, Ordered, Behind

\* A greater element, or none, may be linked behind one.
LEMMA LinkOrdered ==
    ASSUME ListType, Ordered, NEW m \in Node, NEW x, x = Nil \/ Key(m) < Key(x),
           next' = [next EXCEPT ![m] = x]
    PROVE  Ordered'
BY ZenonT(30) DEF ListType, Ordered

\* A thread keeps the order.
LEMMA OrderStepThread ==
    ASSUME ListType, OrderInv, NEW e \in Eth, Sancheck(e)
    PROVE  OrderInv'
<1>0. Alone(e) /\ Ordered /\ Behind(e)
  BY ZenonT(30), Others DEF OrderInv, Ordered, Behind
<1>1. UNCHANGED next => Ordered'
  BY ZenonT(30), <1>0 DEF Ordered
<1>2. ASSUME NEW l, Moves(e, l), l \notin {"first", "walk", "append", "link", "linknext"},
             Ordered'
      PROVE  OrderInv'
  <2>1. Behind(e)'
    BY ZenonT(30), <1>2 DEF Behind, HasP, Moves
  <2> QED
    BY ZenonT(30), <1>0, <1>2, <2>1, OrderOf
<1>3. ASSUME pc[e] \in Label \ {"discover", "poll", "done"}
      PROVE  ThisNode(e) \in Node /\ Key(ThisNode(e)) = cur[e]
  <2>1. cur[e] \in Target
    BY ZenonT(30), <1>3 DEF ListType, Label, Works, Numbered, Inserting
  <2> QED
    BY ZenonT(30), <2>1, NodeFacts DEF ThisNode
<1>4. CASE JDiscover(e) \/ Quiet(e) \/ ReadId(e) \/ WriteId(e) \/ SetHead(e)
  <2>1. UNCHANGED next
    BY ZenonT(30), <1>4 DEF JDiscover, Quiet, ReadId, WriteId, SetHead
  <2>2. \/ Moves(e, "poll") \/ Moves(e, "done") \/ Moves(e, "writeid") \/ Moves(e, "head")
        \/ Moves(e, "probe")
    BY ZenonT(30), <1>4, Effects
  <2> QED
    BY ZenonT(30), <1>1, <1>2, <2>1, <2>2
<1>5. CASE Head0(e)
  <2>1. ThisNode(e) \in Node /\ Key(ThisNode(e)) = cur[e] /\ targlist \in Node0
    BY ZenonT(30), <1>3, <1>5 DEF Head0, At, Label, ListType
  <2>2. CASE /\ targlist # Nil /\ cur[e] < Key(targlist)
             /\ next' = [next EXCEPT ![ThisNode(e)] = targlist] /\ Moves(e, "sethead")
    <3>1. Ordered'
      BY ZenonT(30), <1>0, <2>1, <2>2, LinkOrdered
    <3> QED
      BY ZenonT(30), <1>2, <2>2, <3>1
  <2>3. CASE /\ targlist # Nil /\ cur[e] > Key(targlist)
             /\ Holds(e, reg[e].id, targlist, reg[e].t) /\ Moves(e, "first") /\ UNCHANGED next
    <3>1. pc'[e] = "first" /\ reg'[e].p = targlist /\ cur'[e] = cur[e]
      BY <2>3 DEF Moves, Holds
    <3>2. targlist \in Node /\ Key(targlist) < cur[e]
      BY <2>1, <2>3, NodeFacts DEF Node0, ListType
    <3>3. Behind(e)'
      BY ZenonT(30), <3>1, <3>2 DEF Behind
    <3> QED
      BY ZenonT(30), <1>0, <1>1, <2>3, <3>3, OrderOf
  <2>4. CASE (Moves(e, "sethead") \/ Moves(e, "probe")) /\ UNCHANGED next
    BY ZenonT(30), <1>1, <1>2, <2>4
  <2> QED
    BY ZenonT(30), <1>5, <2>2, <2>3, <2>4, Branches
<1>6. CASE First(e)
  <2>1. pc[e] = "first" /\ pc'[e] = "walk" /\ reg'[e].p = reg[e].p /\ cur'[e] = cur[e]
    <3>1. Moves(e, "walk") /\ Holds(e, reg[e].id, reg[e].p, next[reg[e].p])
      BY ZenonT(30), <1>6, Effects
    <3>2. reg'[e].p = reg[e].p /\ reg'[e].t = next[reg[e].p] /\ cur' = cur /\ luns' = luns
      BY <3>1 DEF Holds
    <3> QED
      BY ZenonT(30), <1>6, <3>1, <3>2 DEF First, At, Moves
  <2>2. Behind(e)'
    BY ZenonT(30), <1>0, <2>1 DEF Behind, HasP
  <2> QED
    BY ZenonT(30), <1>0, <1>1, <1>6, <2>2, OrderOf DEF First
<1>7. CASE Walk(e)
  <2>0. /\ pc[e] = "walk" /\ UNCHANGED <<next, cur>> /\ reg[e].t \in Node0
        /\ reg[e].p \in Node /\ Key(reg[e].p) < cur[e]
    BY <1>0, <1>7 DEF Walk, At, Behind, HasP, ListType
  <2>1. CASE reg[e].t = Nil /\ Moves(e, "append") /\ UNCHANGED reg
    <3>1. Behind(e)'
      BY ZenonT(30), <2>0, <2>1 DEF Behind, Moves
    <3> QED
      BY ZenonT(30), <1>0, <1>1, <2>0, <3>1, OrderOf
  <2>2. CASE Moves(e, "probe")
    BY ZenonT(30), <1>1, <1>2, <2>0, <2>2
  <2>3. CASE /\ reg[e].t # Nil /\ cur[e] < Key(reg[e].t)
             /\ Moves(e, "link") /\ UNCHANGED reg
    <3>1. Behind(e)'
      BY ZenonT(30), <2>0, <2>3 DEF Behind, Node0
    <3> QED
      BY ZenonT(30), <1>0, <1>1, <2>0, <3>1, OrderOf
  <2>4. CASE /\ reg[e].t # Nil /\ cur[e] > Key(reg[e].t)
             /\ Holds(e, reg[e].id, reg[e].t, next[reg[e].t]) /\ Moves(e, "walk")
    <3>1. pc'[e] = "walk" /\ reg'[e].p = reg[e].t
      BY <2>4 DEF Moves, Holds
    <3>2. reg[e].t \in Node /\ Key(reg[e].t) < cur[e]
      BY <2>0, <2>4, NodeFacts DEF Node0, ListType
    <3>3. Behind(e)'
      BY ZenonT(30), <2>0, <3>1, <3>2 DEF Behind
    <3> QED
      BY ZenonT(30), <1>0, <1>1, <2>0, <3>3, OrderOf
  <2> QED
    BY ZenonT(30), <1>7, <2>1, <2>2, <2>3, <2>4, Branches
<1>8. CASE Link(e)
  <2>1. /\ ThisNode(e) \in Node /\ Key(ThisNode(e)) = cur[e]
        /\ reg[e].p \in Node /\ Key(reg[e].p) < cur[e]
    BY ZenonT(30), <1>0, <1>3, <1>8 DEF Link, At, Label, Behind, HasP
  <2>2. Ordered'
    BY ZenonT(30), <1>0, <1>8, <2>1, LinkOrdered DEF Link
  <2>3. CASE pc[e] = "link" /\ Moves(e, "linknext")
    <3>1. UNCHANGED <<cur, reg>>
      BY ZenonT(30), <1>8, Branches
    <3>2. Behind(e)'
      BY ZenonT(30), <1>0, <2>3, <3>1 DEF Behind, HasP, Moves
    <3> QED
      BY ZenonT(30), <1>0, <2>2, <3>2, OrderOf
  <2>4. CASE Moves(e, "probe")
    BY ZenonT(30), <1>2, <2>2, <2>4
  <2> QED
    BY ZenonT(30), <1>8, <2>3, <2>4, Branches
<1>9. CASE LinkNext(e)
  <2>1. /\ ThisNode(e) \in Node /\ Key(ThisNode(e)) = cur[e]
        /\ cur[e] < Key(reg[e].t)
    BY ZenonT(30), <1>0, <1>3, <1>9 DEF LinkNext, At, Label, Behind
  <2>2. Ordered'
    BY ZenonT(30), <1>0, <1>9, <2>1, LinkOrdered DEF LinkNext
  <2> QED
    BY ZenonT(30), <1>2, <1>9, <2>2, Effects
<1>10. CASE Probe(e)
  BY ZenonT(30), <1>1, <1>2, <1>10, Paths DEF Probe
<1>11. ASSUME NEW r \in sent, JConfig(e, r) PROVE OrderInv'
  <2>1. Moves(e, "readid") /\ UNCHANGED next
    BY ZenonT(30), <1>11, Paths DEF JConfig
  <2> QED
    BY ZenonT(30), <1>1, <1>2, <2>1
<1>12. ASSUME NEW r \in sent, JAta(e, r) PROVE OrderInv'
  BY ZenonT(30), <1>12 DEF JAta, OrderInv, HasP
<1> QED
  BY ZenonT(30), <1>4, <1>5, <1>6, <1>7, <1>8, <1>9, <1>10, <1>11, <1>12 DEF Sancheck

----------------------------------------------------------------------------
(* Lists.                                                                  *)

\* No element has a key between those of an element and its successor.
LEMMA NoGap ==
    ASSUME NEW S \in SUBSET Node, NEW h, NEW f, ChainOf(S, h, f), NEW p \in S, NEW k \in Nat,
           Key(p) < k, f[p] = Nil \/ k < Key(f[p])
    PROVE  \A n \in S : Key(n) # k
<1> SUFFICES ASSUME NEW n \in S, Key(n) = k PROVE FALSE
  OBVIOUS
<1>1. Key(p) < Key(n) /\ f[p] # Nil /\ Key(f[p]) <= Key(n) /\ f[p] \in S
  BY ZenonT(30) DEF ChainOf
<1>2. Key(f[p]) \in Nat
  BY ZenonT(30), <1>1, NodeFacts
<1> QED
  BY <1>1, <1>2

\* An element that is smaller than all may become the head.
LEMMA PushFront ==
    ASSUME NEW S \in SUBSET Node, NEW h, NEW f, ChainOf(S, h, f),
           NEW x \in Node, \A n \in S : Key(x) < Key(n),
           NEW g, g[x] = h, \A n \in S : g[n] = f[n]
    PROVE  ChainOf(S \cup {x}, x, g)
<1>0. /\ \A n \in S \cup {x} : Key(n) \in Nat /\ n # Nil
      /\ x \notin S
  BY NodeFacts
<1>1. x \in (S \cup {x}) \cup {Nil} /\ (x = Nil <=> S \cup {x} = {})
  BY <1>0
<1>2. \A n \in S \cup {x} : g[n] = Nil \/ g[n] \in S \cup {x}
  BY ZenonT(30) DEF ChainOf
<1>3. \A n \in S \cup {x} : n = x \/ \E m \in S \cup {x} : g[m] = n
  BY ZenonT(30) DEF ChainOf
<1>4. \A n \in S \cup {x} : Key(x) <= Key(n)
  BY <1>0
<1>5. \A m, n \in S \cup {x} : Key(m) = Key(n) => m = n
  BY <1>0 DEF ChainOf
<1>6. \A m, n \in S \cup {x} : Key(m) < Key(n) => g[m] # Nil /\ Key(g[m]) <= Key(n)
  <2> SUFFICES ASSUME NEW m \in S \cup {x}, NEW n \in S \cup {x}, Key(m) < Key(n)
               PROVE  g[m] # Nil /\ Key(g[m]) <= Key(n)
    OBVIOUS
  <2>1. n \in S
    BY <1>0
  <2>2. CASE m = x
    BY ZenonT(30), <2>1, <2>2 DEF ChainOf
  <2>3. CASE m \in S
    BY ZenonT(30), <2>1, <2>3 DEF ChainOf
  <2> QED
    BY <2>2, <2>3
<1> QED
  BY ZenonT(30), <1>1, <1>2, <1>3, <1>4, <1>5, <1>6 DEF ChainOf

\* An element may be linked between one and its successor: g has x between p and
\* what follows p in f.
Spliced(S, p, x, f, g) ==
    /\ Key(p) < Key(x) /\ (f[p] = Nil \/ Key(x) < Key(f[p]))
    /\ g[p] = x /\ g[x] = f[p] /\ \A n \in S \ {p} : g[n] = f[n]
LEMMA InsertBehind ==
    ASSUME NEW S \in SUBSET Node, NEW h, NEW f, ChainOf(S, h, f),
           NEW p \in S, NEW x \in Node, NEW g, Spliced(S, p, x, f, g)
    PROVE  x \notin S /\ ChainOf(S \cup {x}, h, g)
<1> USE DEF Spliced
<1>0. \A n \in S \cup {x} : Key(n) \in Nat /\ n # Nil
  BY NodeFacts
<1>1. \A n \in S : Key(n) # Key(x)
  BY ZenonT(30), <1>0, NoGap
<1>2. x \notin S
  BY ZenonT(30), <1>1
<1>3. h \in S /\ h # Nil /\ h \in (S \cup {x}) \cup {Nil} /\ S \cup {x} # {}
  BY ZenonT(30) DEF ChainOf
<1>4. \A n \in S \cup {x} : g[n] = Nil \/ g[n] \in S \cup {x}
  BY ZenonT(30) DEF ChainOf
<1>5. ASSUME NEW n \in S \cup {x} PROVE n = h \/ \E m \in S \cup {x} : g[m] = n
  <2>1. CASE n = x
    BY ZenonT(30), <2>1
  <2>2. CASE n \in S /\ n = f[p]
    BY ZenonT(30), <2>2
  <2>3. CASE n \in S /\ n # f[p]
    BY ZenonT(30), <2>3 DEF ChainOf
  <2> QED
    BY <2>1, <2>2, <2>3
<1>6. \A n \in S \cup {x} : Key(h) <= Key(n)
  <2>1. Key(h) <= Key(p) /\ Key(h) \in Nat /\ Key(p) \in Nat /\ \A n \in S : Key(h) <= Key(n)
    BY ZenonT(30), <1>0, <1>3 DEF ChainOf
  <2> QED
    BY <1>0, <2>1
<1>7. \A m, n \in S \cup {x} : Key(m) = Key(n) => m = n
  BY ZenonT(30), <1>1 DEF ChainOf
<1>8. ASSUME NEW m \in S \cup {x}, NEW n \in S \cup {x}, Key(m) < Key(n)
      PROVE  g[m] # Nil /\ Key(g[m]) <= Key(n)
  <2>1. CASE m = x
    <3>1. n \in S /\ Key(p) < Key(n)
      BY <1>0, <1>8, <2>1
    <3> QED
      BY ZenonT(30), <2>1, <3>1 DEF ChainOf
  <2>2. CASE m = p
    <3>1. g[m] # Nil
      BY ZenonT(30), <1>0, <2>2
    <3>2. CASE n = x
      BY <1>0, <2>2, <3>2
    <3>3. CASE n \in S
      <4>1. f[p] # Nil /\ Key(f[p]) <= Key(n) /\ f[p] \in S
        BY ZenonT(30), <1>8, <2>2, <3>3 DEF ChainOf
      <4> QED
        BY <1>0, <2>2, <3>1, <3>3, <4>1
    <3> QED
      BY <3>1, <3>2, <3>3
  <2>3. CASE m \in S /\ m # p /\ n \in S
    BY ZenonT(30), <1>8, <2>3 DEF ChainOf
  <2>4. CASE m \in S /\ m # p /\ n = x
    <3>1. Key(m) # Key(p)
      BY ZenonT(30), <2>4 DEF ChainOf
    <3>2. CASE Key(m) < Key(p)
      <4>1. f[m] # Nil /\ Key(f[m]) <= Key(p) /\ f[m] \in S
        BY ZenonT(30), <2>4, <3>2 DEF ChainOf
      <4> QED
        BY <1>0, <2>4, <4>1
    <3>3. CASE Key(p) < Key(m)
      <4>1. f[p] # Nil /\ Key(f[p]) <= Key(m) /\ f[p] \in S
        BY ZenonT(30), <2>4, <3>3 DEF ChainOf
      <4> QED
        BY <1>0, <1>8, <2>4, <4>1
    <3> QED
      BY <1>0, <2>4, <3>1, <3>2, <3>3
  <2> QED
    BY <2>1, <2>2, <2>3, <2>4
<1> QED
  BY ZenonT(30), <1>2, <1>3, <1>4, <1>5, <1>6, <1>7, <1>8 DEF ChainOf

----------------------------------------------------------------------------
(* The list, if threads do not insert together.                            *)

\* While nobody else inserts, only the element of e may have its next still to be
\* set.
LEMMA NxFacts ==
    ASSUME ListType, NEW e \in Eth, Alone(e), \A f \in Eth \ {e} : ~Inserting(f),
           cur'[e] = cur[e], NEW n \in Node
    PROVE  /\ Nx[n] = IF pc[e] = "linknext" /\ n = ThisNode(e) THEN reg[e].t ELSE next[n]
           /\ Nx'[n] = IF pc'[e] = "linknext" /\ n = ThisNode(e) THEN reg'[e].t ELSE next'[n]
<1>1. n[1] \in Eth /\ n = <<n[1], n[2]>>
  BY ZenonT(30), NodeFacts
<1>2. n = ThisNode(e) <=> n[1] = e /\ cur[e] = n[2]
  <2>1. ThisNode(e)[1] = e /\ ThisNode(e)[2] = cur[e]
    BY DEF ThisNode
  <2> QED
    BY ZenonT(30), <1>1, <2>1 DEF ThisNode
<1>3. \A f \in Eth \ {e} : pc[f] # "linknext" /\ pc'[f] # "linknext"
  BY ZenonT(30) DEF Inserting, Alone
<1> QED
  BY ZenonT(30), <1>1, <1>2, <1>3 DEF Nx

\* The thread of f is not disturbed, if it does not insert and the list only grows.
LEMMA PlacedKept ==
    ASSUME NEW S, NEW Q, S \subseteq Q, NEW e \in Eth, Alone(e), NEW f \in Eth \ {e},
           ~Inserting(f), Placed(f, S)
    PROVE  Placed(f, Q)'
BY ZenonT(30) DEF Placed, Alone, Inserting, HasP

\* A step of a thread that does not insert.
LEMMA ListKept ==
    ASSUME ListType, NEW e \in Eth, Alone(e), UNCHANGED <<targlist, next>>, 
           ~Inserting(e), ~Inserting(e)' \/ pc'[e] = "head", pc'[e] # "probe",
           NEW S \in SUBSET Node, Chain(S), \A f \in Eth : Placed(f, S),
           \A t \in DOMAIN luns'[e] : \E n \in S : Key(n) = t
    PROVE  Chain(S)' /\ \A f \in Eth : Placed(f, S)'
<1>1. ASSUME NEW n \in Node
      PROVE  /\ Nx'[n] = Nx[n]
             /\ (pc[n[1]] = "sethead" /\ cur[n[1]] = n[2])
                => pc'[n[1]] = "sethead" /\ cur'[n[1]] = n[2]
  <2>1. n[1] \in Eth
    BY ZenonT(30), NodeFacts
  <2>2. pc[e] \notin {"linknext", "sethead"} /\ pc'[e] # "linknext"
    BY ZenonT(30) DEF Inserting
  <2> QED
    BY ZenonT(30), <2>1, <2>2 DEF Nx, Alone
<1>2. Nx' = Nx
  BY ZenonT(30), <1>1 DEF Nx
<1>3. Chain(S)'
  BY ZenonT(30), <1>1, <1>2 DEF Chain, ChainOf
<1>4. ASSUME NEW f \in Eth PROVE Placed(f, S)'
  <2>1. CASE f # e
    BY ZenonT(30), <2>1 DEF Placed, Alone, HasP, ThisNode
  <2>2. CASE f = e
    BY ZenonT(30), <2>2 DEF Placed, HasP, Inserting
  <2> QED
    BY <2>1, <2>2
<1> QED
  BY <1>3, <1>4

\* A step of a thread that inserts, when no other does.
Listed(S) == Chain(S) /\ \A f \in Eth : Placed(f, S)
LEMMA ListStep ==
    ASSUME ListType, OrderInv, NEW e \in Eth, Sancheck(e), Inserting(e),
           \A f \in Eth \ {e} : ~Inserting(f),
           NEW S \in SUBSET Node, Listed(S)
    PROVE  \E Q \in SUBSET Node : Listed(Q)'
<1> USE DEF Listed
<1>0. /\ Alone(e) /\ Behind(e) /\ Ordered /\ Placed(e, S) /\ ChainOf(S, targlist, Nx)
      /\ \A f \in Eth \ {e} : pc[f] # "sethead"
  BY ZenonT(30), Others DEF OrderInv, Behind, Ordered, Chain, Inserting
<1>1. /\ targlist \in Node0 /\ next \in [Node -> Node0]
      /\ cur[e] \in Target /\ cur[e] \in Nat
      /\ ThisNode(e) \in Node /\ Key(ThisNode(e)) = cur[e]
  <2>1. targlist \in Node0 /\ next \in [Node -> Node0] /\ cur[e] \in Target
    BY ZenonT(30) DEF ListType, Works, Numbered
  <2> QED
    BY ZenonT(30), <2>1, NodeFacts DEF ThisNode
<1>2. ASSUME pc[e] # "sethead", NEW n \in Node \ S PROVE next[n] = Nil
  BY ZenonT(30), <1>0, <1>2, NodeFacts DEF Chain
<1>3. ASSUME NEW Q \in SUBSET Node, S \subseteq Q, ChainOf(Q, targlist', Nx'), Placed(e, Q)',
             \A n \in Node \ Q : \/ next'[n] = Nil
                                 \/ pc'[n[1]] = "sethead" /\ cur'[n[1]] = n[2]
      PROVE  \E P \in SUBSET Node : Listed(P)'
  <2>1. \A f \in Eth : Placed(f, Q)'
    BY ZenonT(30), <1>0, <1>3, PlacedKept
  <2>2. Chain(Q)'
    BY ZenonT(30), <1>3 DEF Chain
  <2> QED
    BY ZenonT(30), <2>1, <2>2
<1>4. ASSUME UNCHANGED <<targlist, next, cur>>, pc[e] \notin {"linknext", "sethead"},
             pc'[e] # "linknext", Placed(e, S)'
      PROVE  \E Q \in SUBSET Node : Listed(Q)'
  <2>1. \A n \in Node : Nx'[n] = Nx[n]
    BY ZenonT(30), <1>0, <1>4, NxFacts
  <2>2. Nx' = Nx
    BY ZenonT(30), <2>1 DEF Nx
  <2>3. ChainOf(S, targlist', Nx')
    BY ZenonT(30), <1>0, <1>4, <2>2
  <2> QED
    BY ZenonT(30), <1>2, <1>3, <1>4, <2>3
<1>5. CASE Head0(e)
  <2>0. /\ pc[e] = "head" /\ UNCHANGED <<targlist, cur, luns>>
        /\ targlist # Nil => targlist \in S
        /\ \A n \in S : Key(targlist) <= Key(n)
        /\ targlist = Nil => S = {}
    BY ZenonT(30), <1>0, <1>5 DEF Head0, At, ChainOf
  <2>1. CASE targlist = Nil /\ Moves(e, "sethead") /\ UNCHANGED <<next, reg>>
    <3>1. pc'[e] = "sethead" /\ next[ThisNode(e)] = Nil /\ S = {}
      BY ZenonT(30), <1>1, <1>2, <2>0, <2>1 DEF Moves
    <3>2. Placed(e, S)'
      BY ZenonT(30), <1>0, <2>0, <2>1, <3>1 DEF Placed, HasP, ThisNode
    <3> QED
      BY ZenonT(30), <1>4, <2>0, <2>1, <3>1, <3>2
  <2>2. CASE /\ targlist # Nil /\ cur[e] < Key(targlist)
             /\ next' = [next EXCEPT ![ThisNode(e)] = targlist]
             /\ Moves(e, "sethead") /\ UNCHANGED reg
    <3>1. pc'[e] = "sethead"
      BY <2>2 DEF Moves
    <3>2. \A n \in S : cur[e] < Key(n)
      BY <1>1, <2>0, <2>2, NodeFacts
    <3>3. ThisNode(e) \notin S
      BY <1>1, <3>2
    <3>4. next'[ThisNode(e)] = targlist /\ \A n \in Node \ {ThisNode(e)} : next'[n] = next[n]
      BY ZenonT(30), <1>1, <2>2
    <3>5. ASSUME NEW n \in S PROVE Nx'[n] = Nx[n]
      <4>1. next'[n] = next[n] /\ pc[e] # "linknext" /\ pc'[e] # "linknext" /\ cur'[e] = cur[e]
        BY ZenonT(30), <2>0, <3>1, <3>3, <3>4
      <4> QED
        BY ZenonT(30), <1>0, <4>1, NxFacts
    <3>6. ChainOf(S, targlist', Nx')
      BY ZenonT(30), <1>0, <2>0, <3>5 DEF ChainOf
    <3>7. Placed(e, S)'
      BY ZenonT(30), <1>0, <2>0, <3>1, <3>2, <3>4 DEF Placed, HasP, ThisNode
    <3>8. ASSUME NEW n \in Node \ S
          PROVE  next'[n] = Nil \/ (pc'[n[1]] = "sethead" /\ cur'[n[1]] = n[2])
      <4>1. CASE n = ThisNode(e)
        <5>1. ThisNode(e)[1] = e /\ ThisNode(e)[2] = cur[e]
          BY DEF ThisNode
        <5> QED
          BY ZenonT(30), <2>0, <3>1, <4>1, <5>1
      <4>2. CASE n # ThisNode(e)
        BY ZenonT(30), <1>2, <2>0, <3>4, <4>2
      <4> QED
        BY <4>1, <4>2
    <3> QED
      BY ZenonT(30), <1>3, <3>6, <3>7, <3>8
  <2>3. CASE /\ targlist # Nil /\ cur[e] = Key(targlist)
             /\ Moves(e, "probe") /\ UNCHANGED <<next, reg>>
    <3>1. pc'[e] = "probe"
      BY <2>3 DEF Moves
    <3>2. Placed(e, S)'
      BY ZenonT(30), <1>0, <2>0, <2>3, <3>1 DEF Placed, HasP
    <3> QED
      BY ZenonT(30), <1>4, <2>0, <2>3, <3>1, <3>2
  <2>4. CASE /\ targlist # Nil /\ Holds(e, reg[e].id, targlist, reg[e].t)
             /\ Moves(e, "first") /\ UNCHANGED next
    <3>1. pc'[e] = "first" /\ reg'[e].p = targlist
      BY <2>4 DEF Moves, Holds
    <3>2. Placed(e, S)'
      BY ZenonT(30), <1>0, <2>0, <2>4, <3>1 DEF Placed
    <3> QED
      BY ZenonT(30), <1>4, <2>0, <2>4, <3>1, <3>2
  <2> QED
    BY ZenonT(30), <1>5, <2>1, <2>2, <2>3, <2>4, Branches
<1>6. CASE First(e)
  <2>1. /\ pc[e] = "first" /\ pc'[e] = "walk" /\ UNCHANGED <<targlist, next, cur, luns>>
        /\ reg'[e].p = reg[e].p /\ reg'[e].t = next[reg[e].p]
    <3>1. Moves(e, "walk") /\ Holds(e, reg[e].id, reg[e].p, next[reg[e].p])
      BY ZenonT(30), <1>6, Effects
    <3>2. reg'[e].p = reg[e].p /\ reg'[e].t = next[reg[e].p] /\ cur' = cur /\ luns' = luns
      BY <3>1 DEF Holds
    <3> QED
      BY ZenonT(30), <1>6, <3>1, <3>2 DEF First, At, Moves
  <2>2. Placed(e, S)'
    BY ZenonT(30), <1>0, <2>1 DEF Placed, HasP
  <2> QED
    BY ZenonT(30), <1>4, <2>1, <2>2
<1>7. CASE Walk(e)
  <2>0. /\ pc[e] = "walk" /\ UNCHANGED <<targlist, next, cur, luns>>
        /\ reg[e].p \in S /\ reg[e].t = next[reg[e].p]
    BY ZenonT(30), <1>0, <1>7 DEF Walk, At, Placed, HasP
  <2>1. reg[e].t # Nil => reg[e].t \in S
    <3>1. Nx[reg[e].p] = next[reg[e].p]
      BY ZenonT(30), <1>0, <2>0, NxFacts
    <3> QED
      BY ZenonT(30), <1>0, <2>0, <3>1 DEF ChainOf
  <2>2. CASE reg[e].t = Nil /\ Moves(e, "append") /\ UNCHANGED reg
    <3>1. Placed(e, S)'
      BY ZenonT(30), <1>0, <2>0, <2>2 DEF Placed, Moves
    <3> QED
      BY ZenonT(30), <1>4, <2>0, <2>2, <3>1 DEF Moves
  <2>3. CASE /\ reg[e].t # Nil /\ cur[e] = Key(reg[e].t)
             /\ Moves(e, "probe") /\ UNCHANGED reg
    <3>1. Placed(e, S)'
      BY ZenonT(30), <1>0, <2>0, <2>1, <2>3 DEF Placed, Moves, HasP
    <3> QED
      BY ZenonT(30), <1>4, <2>0, <2>3, <3>1 DEF Moves
  <2>4. CASE Moves(e, "link") /\ UNCHANGED reg
    <3>1. Placed(e, S)'
      BY ZenonT(30), <1>0, <2>0, <2>4 DEF Placed, Moves
    <3> QED
      BY ZenonT(30), <1>4, <2>0, <2>4, <3>1 DEF Moves
  <2>5. CASE /\ reg[e].t # Nil
             /\ Holds(e, reg[e].id, reg[e].t, next[reg[e].t]) /\ Moves(e, "walk")
    <3>1. pc'[e] = "walk" /\ reg'[e].p = reg[e].t /\ reg'[e].t = next[reg[e].t]
      BY <2>5 DEF Moves, Holds
    <3>2. Placed(e, S)'
      BY ZenonT(30), <1>0, <2>0, <2>1, <2>5, <3>1 DEF Placed
    <3> QED
      BY ZenonT(30), <1>4, <2>0, <3>1, <3>2
  <2> QED
    BY ZenonT(30), <1>7, <2>2, <2>3, <2>4, <2>5, Branches
<1>8. PICK x \in Node : x = ThisNode(e)
  BY <1>1
<1>9. ASSUME pc'[e] = "probe", luns'[e] = luns[e], cur'[e] = cur[e]
      PROVE  Placed(e, S \cup {x})'
  <2> DEFINE Q == S \cup {x}
  <2>1. \E n \in Q : Key(n) = cur[e]
    BY ZenonT(30), <1>1, <1>8
  <2>2. \A t \in DOMAIN luns[e] : \E n \in Q : Key(n) = t
    BY ZenonT(30), <1>0 DEF Placed
  <2> HIDE DEF Q
  <2>3. Placed(e, Q)'
    BY ZenonT(30), <1>9, <2>1, <2>2 DEF Placed, HasP
  <2> QED
    BY ZenonT(30), <2>3 DEF Q
<1>10. S \cup {x} \in SUBSET Node /\ S \subseteq S \cup {x}
  BY ZenonT(30), <1>8
<1>11. CASE SetHead(e)
  <2>0. /\ pc[e] = "sethead" /\ pc'[e] = "probe" /\ UNCHANGED <<next, cur, luns, reg>>
        /\ targlist' = x /\ next[x] = targlist /\ \A n \in S : Key(x) < Key(n)
    BY ZenonT(30), <1>0, <1>1, <1>8, <1>11, Effects DEF SetHead, At, Placed, Moves
  <2>1. \A n \in Node : Nx'[n] = next[n] /\ Nx[n] = next[n]
    BY ZenonT(30), <1>0, <2>0, NxFacts
  <2>2. Nx'[x] = targlist /\ \A n \in S : Nx'[n] = Nx[n]
    BY ZenonT(30), <2>0, <2>1
  <2>3. ChainOf(S \cup {x}, x, Nx')
    BY ZenonT(30), <1>0, <2>0, <2>2, PushFront
  <2>4. ASSUME NEW n \in Node \ (S \cup {x}) PROVE next'[n] = Nil
    <3>1. n[1] \in Eth /\ n = <<n[1], n[2]>>
      BY ZenonT(30), NodeFacts
    <3>2. ~(pc[n[1]] = "sethead" /\ cur[n[1]] = n[2])
      BY ZenonT(30), <1>0, <1>8, <3>1 DEF ThisNode
    <3> QED
      BY ZenonT(30), <2>0, <3>2 DEF Chain
  <2>5. Placed(e, S \cup {x})'
    BY ZenonT(30), <1>9, <2>0
  <2>6. ChainOf(S \cup {x}, targlist', Nx')
    BY ZenonT(30), <2>0, <2>3
  <2> QED
    BY ZenonT(30), <1>3, <1>10, <2>4, <2>5, <2>6
<1>12. CASE Link(e)
  <2>0. /\ UNCHANGED <<targlist, cur, luns, reg>>
        /\ next' = [next EXCEPT ![reg[e].p] = x]
        /\ \/ pc[e] = "link" /\ pc'[e] = "linknext"
           \/ pc[e] = "append" /\ pc'[e] = "probe"
    BY ZenonT(30), <1>8, <1>12, Branches DEF Link, Moves
  <2>1. /\ reg[e].p \in S /\ reg[e].t = next[reg[e].p]
        /\ pc[e] = "append" => reg[e].t = Nil
        /\ Key(reg[e].p) < cur[e]
        /\ pc[e] = "link" => cur[e] < Key(reg[e].t)
    BY ZenonT(30), <1>0, <2>0 DEF Placed, HasP, Behind
  <2>2. next'[reg[e].p] = x /\ \A n \in Node \ {reg[e].p} : next'[n] = next[n]
    BY ZenonT(30), <1>1, <2>0, <2>1
  <2>3. /\ \A n \in Node : Nx[n] = next[n]
        /\ \A n \in Node \ {x} : Nx'[n] = next'[n]
        /\ Nx'[x] = IF pc'[e] = "linknext" THEN reg[e].t ELSE next'[x]
    BY ZenonT(30), <1>0, <1>8, <2>0, NxFacts
  <2>4. /\ Key(reg[e].p) < Key(x)
        /\ Nx[reg[e].p] = Nil \/ Key(x) < Key(Nx[reg[e].p])
    BY ZenonT(30), <1>1, <1>8, <2>0, <2>1, <2>3
  <2>5. \A n \in S : Key(n) # Key(x)
    <3>1. Key(x) \in Nat
      BY ZenonT(30), <1>1, <1>8
    <3> QED
      BY ZenonT(30), <1>0, <2>1, <2>4, <3>1, NoGap
  <2>6. x \notin S /\ x # reg[e].p
    BY ZenonT(30), <2>1, <2>5
  <2>7. Nx'[x] = Nx[reg[e].p]
    BY ZenonT(30), <1>2, <2>0, <2>1, <2>2, <2>3, <2>6
  <2>8. Nx'[reg[e].p] = x /\ \A n \in S \ {reg[e].p} : Nx'[n] = Nx[n]
    BY ZenonT(30), <2>1, <2>2, <2>3, <2>6
  <2>9. ChainOf(S \cup {x}, targlist, Nx')
    <3>1. PICK p \in S : p = reg[e].p
      BY <2>1
    <3>2. Spliced(S, p, x, Nx, Nx')
      BY ZenonT(30), <2>4, <2>7, <2>8, <3>1 DEF Spliced
    <3> QED
      BY ZenonT(30), <1>0, <3>2, InsertBehind
  <2>10. ASSUME NEW n \in Node \ (S \cup {x}) PROVE next'[n] = Nil
    BY ZenonT(30), <1>2, <2>0, <2>1, <2>2
  <2>11. Placed(e, S \cup {x})'
    <3>1. CASE pc'[e] = "probe"
      BY ZenonT(30), <1>9, <2>0, <3>1
    <3>2. CASE pc'[e] = "linknext"
      <4> DEFINE Q == S \cup {x}
      <4>1. /\ x \in Q /\ Key(x) = cur[e] /\ reg[e].p \in Q
            /\ \A t \in DOMAIN luns[e] : \E n \in Q : Key(n) = t
        BY ZenonT(30), <1>0, <1>1, <1>8, <2>1 DEF Placed
      <4> HIDE DEF Q
      <4>2. Placed(e, Q)'
        BY ZenonT(30), <1>8, <2>0, <3>2, <4>1 DEF Placed, ThisNode
      <4> QED
        BY ZenonT(30), <4>2 DEF Q
    <3> QED
      BY ZenonT(30), <2>0, <3>1, <3>2
  <2>12. ChainOf(S \cup {x}, targlist', Nx')
    BY ZenonT(30), <2>0, <2>9
  <2> QED
    BY ZenonT(30), <1>3, <1>10, <2>10, <2>11, <2>12
<1>13. CASE LinkNext(e)
  <2>0. /\ pc[e] = "linknext" /\ pc'[e] = "probe" /\ UNCHANGED <<targlist, cur, luns, reg>>
        /\ next' = [next EXCEPT ![x] = reg[e].t]
        /\ x \in S /\ \E n \in S : Key(n) = cur[e]
    BY ZenonT(30), <1>0, <1>8, <1>13, Effects DEF LinkNext, At, Placed, Moves
  <2>1. next'[x] = reg[e].t /\ \A n \in Node \ {x} : next'[n] = next[n]
    BY ZenonT(30), <1>1, <2>0
  <2>2. \A n \in Node : Nx'[n] = Nx[n]
    BY ZenonT(30), <1>0, <1>8, <2>0, <2>1, NxFacts
  <2>3. Nx' = Nx
    BY ZenonT(30), <2>2 DEF Nx
  <2>4. ChainOf(S, targlist', Nx')
    BY ZenonT(30), <1>0, <2>0, <2>3
  <2>5. Placed(e, S)'
    BY ZenonT(30), <1>0, <2>0 DEF Placed, HasP
  <2>6. ASSUME NEW n \in Node \ S PROVE next'[n] = Nil
    BY ZenonT(30), <1>2, <2>0, <2>1
  <2> QED
    BY ZenonT(30), <1>3, <2>4, <2>5, <2>6
<1> QED
  BY ZenonT(30), <1>5, <1>6, <1>7, <1>11, <1>12, <1>13
  DEF Sancheck, Inserting, At, JDiscover, ReadId, WriteId, Probe, Quiet, JConfig, JAta

\* A thread keeps it: it finds nobody else in inserttarg, or raced is set.
LEMMA OneStepThread ==
    ASSUME ListType, OrderInv, OneInv, NEW e \in Eth, Sancheck(e)
    PROVE  OneInv'
<1> SUFFICES ASSUME ~raced'
             PROVE  /\ \A f, g \in Eth : Inserting(f)' /\ Inserting(g)' => f = g
                    /\ \E S \in SUBSET Node : Listed(S)'
  BY ZenonT(30) DEF OneInv, Listed
<1>0. Alone(e)
  BY Others
<1>1. ~raced
  <2>1. raced' = raced \/ WriteId(e)
    BY ZenonT(30) DEF Sancheck, JDiscover, ReadId, Head0, SetHead, First, Walk, Link, LinkNext,
                      Probe, Quiet, JConfig, JAta
  <2> QED
    BY ZenonT(30), <2>1 DEF WriteId, Enter
<1>2. \A f, g \in Eth : Inserting(f) /\ Inserting(g) => f = g
  BY ZenonT(30), <1>1 DEF OneInv
<1>3. PICK S \in SUBSET Node : Listed(S)
  BY ZenonT(30), <1>1 DEF OneInv, Listed
<1>4. \A f \in Eth \ {e} : Inserting(f)' <=> Inserting(f)
  BY ZenonT(30), <1>0 DEF Alone, Inserting
<1>5. CASE Inserting(e)
  <2>1. \A f \in Eth \ {e} : ~Inserting(f)
    BY ZenonT(30), <1>2, <1>5
  <2>2. \E Q \in SUBSET Node : Listed(Q)'
    BY ZenonT(30), <1>3, <1>5, <2>1, ListStep
  <2> QED
    BY ZenonT(30), <1>4, <2>1, <2>2
<1>6. CASE ~Inserting(e)
  <2>1. ASSUME UNCHANGED <<targlist, next>>, pc'[e] # "probe",
               ~Inserting(e)' \/ (pc'[e] = "head" /\ \A f \in Eth \ {e} : ~Inserting(f)),
               \A t \in DOMAIN luns'[e] : \E n \in S : Key(n) = t
        PROVE  /\ \A f, g \in Eth : Inserting(f)' /\ Inserting(g)' => f = g
               /\ \E Q \in SUBSET Node : Listed(Q)'
    <3>1. \A f, g \in Eth : Inserting(f)' /\ Inserting(g)' => f = g
      BY ZenonT(30), <1>2, <1>4, <2>1
    <3>2. Listed(S)'
      <4>1. Chain(S)' /\ \A f \in Eth : Placed(f, S)'
        BY ZenonT(30), <1>0, <1>3, <1>6, <2>1, ListKept DEF Listed
      <4> QED
        BY <4>1 DEF Listed
    <3> QED
      BY <3>1, <3>2
  <2>2. \A t \in DOMAIN luns[e] : \E n \in S : Key(n) = t
    BY ZenonT(30), <1>3 DEF Listed, Placed
  <2>3. CASE JDiscover(e) \/ Quiet(e) \/ ReadId(e)
    <3>1. pc'[e] \in {"poll", "done", "writeid"} /\ UNCHANGED <<targlist, next, luns>>
      BY ZenonT(30), <2>3, Effects DEF JDiscover, Quiet, ReadId, Moves
    <3> QED
      BY ZenonT(30), <2>1, <2>2, <3>1 DEF Inserting
  <2>4. CASE WriteId(e)
    <3>1. pc'[e] = "head" /\ UNCHANGED <<targlist, next, luns>>
      BY ZenonT(30), <2>4, Effects DEF WriteId, Moves
    <3>2. \A f \in Eth \ {e} : ~Inserting(f)
      BY ZenonT(30), <2>4 DEF WriteId, Enter
    <3> QED
      BY ZenonT(30), <2>1, <2>2, <3>1, <3>2
  <2>5. CASE Probe(e)
    <3>1. /\ pc[e] = "probe" /\ pc'[e] = "poll" /\ UNCHANGED <<targlist, next>>
          /\ DOMAIN luns'[e] = DOMAIN luns[e] \cup {cur[e]}
      BY ZenonT(30), <2>5, Paths DEF Probe, At, Moves
    <3>2. \E n \in S : Key(n) = cur[e]
      BY ZenonT(30), <1>3, <3>1 DEF Listed, Placed
    <3>3. \A t \in DOMAIN luns'[e] : \E n \in S : Key(n) = t
      BY ZenonT(30), <2>2, <3>1, <3>2
    <3> QED
      BY ZenonT(30), <2>1, <3>1, <3>3 DEF Inserting
  <2>6. ASSUME NEW r \in sent, JConfig(e, r) \/ JAta(e, r)
        PROVE  /\ \A f, g \in Eth : Inserting(f)' /\ Inserting(g)' => f = g
               /\ \E Q \in SUBSET Node : Listed(Q)'
    <3>1. /\ UNCHANGED <<targlist, next>> /\ pc'[e] \in {"poll", "readid"}
          /\ DOMAIN luns'[e] = DOMAIN luns[e]
      BY ZenonT(30), <2>6, Paths DEF JConfig, JAta, Moves, At
    <3> QED
      BY ZenonT(30), <2>1, <2>2, <3>1 DEF Inserting
  <2>7. ~(Head0(e) \/ SetHead(e) \/ First(e) \/ Walk(e) \/ Link(e) \/ LinkNext(e))
    BY ZenonT(30), <1>6 DEF Head0, SetHead, First, Walk, Link, LinkNext, At, Inserting
  <2> QED
    BY ZenonT(30), <2>3, <2>4, <2>5, <2>6, <2>7 DEF Sancheck
<1> QED
  BY <1>5, <1>6

----------------------------------------------------------------------------
(* The list is right.                                                      *)

\* All that the list needs.
ListInv == ListType /\ SentType /\ OrderInv /\ OneInv

\* It holds at the start, when the list is empty.
LEMMA InitList == Init => ListInv
<1> SUFFICES ASSUME Init PROVE ListInv
  OBVIOUS
<1>0. /\ targlist = Nil /\ next = [n \in Node |-> Nil] /\ raced = FALSE /\ id = 0
      /\ luns = [e \in Eth |-> [t \in {} |-> 0]] /\ pc = [e \in Eth |-> "discover"]
      /\ cur = [e \in Eth |-> 0] /\ reg = [e \in Eth |-> [id |-> 0, p |-> Nil, t |-> Nil]]
  BY ZenonT(30) DEF Init
<1>1. ListType
  <2>1. [id |-> 0, p |-> Nil, t |-> Nil] \in [id : Nat, p : Node0, t : Node0]
    BY DEF Node0
  <2>2. \A e \in Eth : DOMAIN luns[e] = {} /\ pc[e] = "discover"
    BY ZenonT(30), <1>0
  <2>3. \A e \in Eth : ~Works(e)
    BY ZenonT(30), <2>2 DEF Works, Numbered, Inserting
  <2>4. 0 \in Nat /\ Nil \in Node0 /\ "discover" \in Label
    BY DEF Node0, Label
  <2>5. reg \in [Eth -> [id : Nat, p : Node0, t : Node0]]
    BY ZenonT(30), <1>0, <2>1
  <2>6. /\ next \in [Node -> Node0] /\ pc \in [Eth -> Label] /\ cur \in [Eth -> Target \cup {0}]
        /\ DOMAIN luns = Eth
    BY ZenonT(30), <1>0, <2>4
  <2> QED
    BY ZenonT(30), <1>0, <2>2, <2>3, <2>4, <2>5, <2>6 DEF ListType
<1>2. SentType
  <2>1. PICK s \in Setup :
           /\ sees = s.sees
           /\ sent = {Cmd(PingEth, PingTarget, "identify", NewTag(y[1], y[2]), "driver") :
                          y \in s.drv}
    BY ZenonT(30) DEF Init
  <2>2. s.sees \in [Eth -> SUBSET Target] /\ PingTarget \in Target
    BY ToolsAssumption
  <2>3. \A r \in sent : r.t = PingTarget
    BY <2>1 DEF Cmd
  <2> QED
    BY <2>1, <2>2, <2>3 DEF SentType
<1>3. OrderInv
  BY ZenonT(30), <1>0 DEF OrderInv, HasP
<1>4. OneInv
  <2>1. \A e \in Eth : pc[e] = "discover" /\ DOMAIN luns[e] = {}
    BY ZenonT(30), <1>0
  <2>2. \A e \in Eth : ~Inserting(e) /\ Placed(e, {})
    BY ZenonT(30), <2>1 DEF Inserting, Placed, HasP
  <2>3. ChainOf({}, targlist, Nx)
    BY ZenonT(30), <1>0 DEF ChainOf
  <2>4. Chain({})
    BY ZenonT(30), <1>0, <2>3 DEF Chain
  <2> QED
    BY ZenonT(30), <2>2, <2>4 DEF OneInv
<1> QED
  BY <1>1, <1>2, <1>3, <1>4 DEF ListInv

\* A step sends commands to targets only.
LEMMA SentTypeStep ==
    ASSUME ListType, SentType, [Next]_vars
    PROVE  SentType'
<1>0. PingEth \in Eth /\ PingTarget \in Target
  BY ToolsAssumption
<1>1. ASSUME UNCHANGED <<sees, sent>> PROVE SentType'
  BY ZenonT(30), <1>1 DEF SentType
<1>2. ASSUME UNCHANGED sees, NEW C, sent' = sent \cup C, \A r \in C : r.t \in Target
      PROVE  SentType'
  BY ZenonT(30), <1>2 DEF SentType
<1>3. ASSUME NEW e \in Eth, JDiscover(e) PROVE SentType'
  <2>1. \A r \in {Cmd(e, t, "config", DiscoverTag, "sancheck") : t \in sees[e]} : r.t \in Target
    BY DEF Cmd, SentType
  <2> QED
    BY ZenonT(30), <1>2, <1>3, <2>1 DEF JDiscover
<1>4. ASSUME NEW e \in Eth, Probe(e) PROVE SentType'
  <2>1. cur[e] \in Target
    BY ZenonT(30), <1>4 DEF Probe, At, ListType, Works, Numbered
  <2>2. \A r \in {Cmd(e, cur[e], "identify", ProbeTag(reg[e].id, n), "sancheck") :
                      n \in 1..NSect} : r.t \in Target
    BY <2>1 DEF Cmd
  <2> QED
    BY ZenonT(30), <1>2, <1>4, <2>2 DEF Probe
<1>5. ASSUME PingSend PROVE SentType'
  <2>1. PICK c : c = Cmd(PingEth, PingTarget, StageKind, StageTag, "aoeping")
    OBVIOUS
  <2>2. c.t \in Target
    BY <1>0, <2>1 DEF Cmd
  <2>3. sees' = sees /\ sent' = sent \cup {c}
    BY ZenonT(30), <1>5, <2>1 DEF PingSend
  <2> QED
    BY ZenonT(30), <2>2, <2>3 DEF SentType
<1>6. ASSUME CfgQuery PROVE SentType'
  <2> DEFINE T == IF cfg.all THEN sees[PingEth] ELSE {PingTarget}
  <2>1. T \subseteq Target
    BY <1>0 DEF SentType
  <2> HIDE DEF T
  <2>2. \A r \in {Cmd(PingEth, t, "config", cfg.tag, "aoecfg") : t \in T} : r.t \in Target
    BY <2>1 DEF Cmd
  <2> QED
    BY ZenonT(30), <1>2, <1>6, <2>2 DEF CfgQuery, T
<1>7. ASSUME NEW e \in Eth, Sancheck(e), ~JDiscover(e), ~Probe(e) PROVE UNCHANGED <<sees, sent>>
  BY ZenonT(30), <1>7 DEF Sancheck, ReadId, WriteId, Head0, SetHead, First, Walk, Link,
     LinkNext, Quiet, JConfig, JAta
<1>8. ASSUME NEW r \in sent, PingAccept(r) \/ CfgAccept(r) PROVE UNCHANGED <<sees, sent>>
  BY ZenonT(30), <1>8 DEF PingAccept, CfgAccept
<1> QED
  BY ZenonT(30), <1>1, <1>3, <1>4, <1>5, <1>6, <1>7, <1>8
  DEF Next, vars, PingAlarm, CfgTimeout

\* Without a step of a thread, nothing changes in the list.
LEMMA ListIdle ==
    ASSUME UNCHANGED sanVars
    PROVE  /\ ListType => ListType' /\ (OrderInv => OrderInv') /\ (OneInv => OneInv')
           /\ IdInv => IdInv'
<1>0. UNCHANGED <<id, targlist, next, luns, pc, cur, reg, raced>>
  BY ZenonT(30) DEF sanVars
<1>1. ListType => ListType'
  BY ZenonT(30), <1>0 DEF ListType, Works, Numbered, Inserting
<1>2. OrderInv => OrderInv'
  BY ZenonT(30), <1>0 DEF OrderInv, HasP
<1>3. Nx' = Nx
  BY ZenonT(30), <1>0 DEF Nx
<1>4. ASSUME NEW S, Chain(S) PROVE Chain(S)'
  BY ZenonT(30), <1>0, <1>3, <1>4 DEF Chain, ChainOf
<1>5. ASSUME NEW S, NEW e \in Eth, Placed(e, S) PROVE Placed(e, S)'
  BY ZenonT(30), <1>0, <1>5 DEF Placed, HasP, ThisNode
<1>6. OneInv => OneInv'
  BY ZenonT(30), <1>0, <1>4, <1>5 DEF OneInv, Inserting
<1>7. NumberedNodes' = NumberedNodes
  BY ZenonT(30), <1>0 DEF NumberedNodes, Numbered, Inserting
<1>8. IdInv => IdInv'
  BY ZenonT(30), <1>0, <1>7 DEF IdInv, Numbered, Inserting
<1> QED
  BY <1>1, <1>2, <1>6, <1>8

\* A step is one of a thread, or leaves aoe-sancheck alone.
LEMMA WhoSteps ==
    ASSUME [Next]_vars
    PROVE  (\E e \in Eth : Sancheck(e)) \/ UNCHANGED sanVars
BY ZenonT(30) DEF Next, vars, PingSend, PingAccept, PingAlarm, CfgQuery, CfgAccept, CfgTimeout

\* Every step keeps it.
LEMMA ListInvStep ==
    ASSUME ListInv, [Next]_vars
    PROVE  ListInv'
<1>0. ListType /\ SentType /\ OrderInv /\ OneInv
  BY DEF ListInv
<1>1. SentType'
  BY ZenonT(30), <1>0, SentTypeStep
<1>2. ASSUME NEW e \in Eth, Sancheck(e) PROVE ListType' /\ OrderInv' /\ OneInv'
  BY ZenonT(30), <1>0, <1>2, TypeStepThread, OrderStepThread, OneStepThread
<1>3. ListType' /\ OrderInv' /\ OneInv'
  BY ZenonT(30), <1>0, <1>2, ListIdle, WhoSteps
<1> QED
  BY ZenonT(30), <1>1, <1>3 DEF ListInv

\* It holds always.
LEMMA ListInvariant == Spec => []ListInv
BY InitList, ListInvStep, PTL DEF Spec

\* At rest, the chain is the list.
LEMMA ChainIsList ==
    ASSUME NEW S \in SUBSET Node, Chain(S), \A e \in Eth : ~Inserting(e)
    PROVE  IsList(S)
<1>1. ASSUME NEW n \in Node PROVE Nx[n] = next[n]
  <2>1. pc[n[1]] # "linknext"
    BY ZenonT(30), NodeFacts DEF Inserting
  <2> QED
    BY ZenonT(30), <2>1 DEF Nx
<1> QED
  BY ZenonT(30), <1>1 DEF Chain, ChainOf, IsList

\* The list that aoe-sancheck prints is in strict order whatever its threads do,
\* for any interfaces and targets, and complete if no two threads were in
\* inserttarg at the same time.
THEOREM ListAlwaysRight == Spec => []ListRight
<1>1. ListInv => ListRight
  <2> SUFFICES ASSUME ListInv PROVE ListRight
    OBVIOUS
  <2>1. \A n \in Node : next[n] = Nil \/ Key(n) < Key(next[n])
    BY ZenonT(30) DEF ListInv, OrderInv
  <2>2. ASSUME ~raced, \A e \in Eth : ~Inserting(e)
        PROVE  \E S \in SUBSET Node :
                  /\ IsList(S)
                  /\ \A e \in Eth : DOMAIN luns[e] \subseteq {Key(n) : n \in S}
    <3>1. PICK S \in SUBSET Node : Chain(S) /\ \A e \in Eth : Placed(e, S)
      BY ZenonT(30), <2>2 DEF ListInv, OneInv
    <3>2. IsList(S)
      BY ZenonT(30), <2>2, <3>1, ChainIsList
    <3>3. \A e \in Eth : DOMAIN luns[e] \subseteq {Key(n) : n \in S}
      BY ZenonT(30), <3>1 DEF Placed
    <3> QED
      BY <3>2, <3>3
  <2> QED
    BY ZenonT(30), <2>1, <2>2 DEF ListRight
<1> QED
  BY <1>1, ListInvariant, PTL

----------------------------------------------------------------------------
(* The numbers of the paths.                                               *)

\* There are finitely many elements, and at least one.
LEMMA NodesFinite ==
    /\ IsFiniteSet(Node) /\ Cardinality(Node) \in Nat \ {0}
    /\ \A X \in SUBSET Node : /\ IsFiniteSet(X) /\ Cardinality(X) \in Nat
                              /\ Cardinality(X) <= Cardinality(Node)
<1>1. IsFiniteSet(Node)
  BY ToolsAssumption, FS_Product DEF Node
<1>2. ASSUME NEW X \in SUBSET Node
      PROVE  /\ IsFiniteSet(X) /\ Cardinality(X) \in Nat
             /\ Cardinality(X) <= Cardinality(Node)
  BY <1>1, FS_Subset, FS_CardinalityType
<1>3. Cardinality(Node) \in Nat /\ Node # {}
  BY ZenonT(30), <1>1, ToolsAssumption, NodeFacts, FS_CardinalityType
<1>4. Cardinality(Node) # 0
  BY <1>1, <1>3, FS_EmptySet
<1> QED
  BY ZenonT(30), <1>1, <1>2, <1>3, <1>4

\* One more element makes one more number.
LEMMA OneMore ==
    ASSUME NEW X \in SUBSET Node, NEW x \in Node \ X
    PROVE  /\ Cardinality(X \cup {x}) = Cardinality(X) + 1
           /\ Cardinality(X) < Cardinality(Node)
<1>1. IsFiniteSet(X) /\ Cardinality(X) \in Nat /\ X \cup {x} \in SUBSET Node
  BY NodesFinite
<1>2. Cardinality(X \cup {x}) = Cardinality(X) + 1
  BY <1>1, FS_AddElement
<1>3. Cardinality(X \cup {x}) <= Cardinality(Node) /\ Cardinality(Node) \in Nat
  BY ZenonT(30), <1>1, NodesFinite
<1> QED
  BY <1>1, <1>2, <1>3

\* What a step of the thread of e has to keep.
Counted(e, c) ==
    /\ pc[e] = "writeid" => reg[e].id <= c
    /\ Numbered(e) => reg[e].id < Cardinality(Node)
    /\ \A t \in DOMAIN luns[e] : /\ "id" \in DOMAIN luns[e][t]
                                 /\ luns[e][t].id \in Nat /\ luns[e][t].id < Cardinality(Node)
LEMMA IdOf ==
    ASSUME ListType, IdInv, NEW e \in Eth, Alone(e), NEW c \in Nat,
           Cardinality(NumberedNodes') = c, Cardinality(NumberedNodes) <= c,
           id' <= c, Counted(e, c)'
    PROVE  IdInv'
<1>0. Cardinality(NumberedNodes) \in Nat
  BY ZenonT(30), NodesFinite DEF NumberedNodes
<1>1. ASSUME NEW f \in Eth \ {e}, pc[f] = "writeid" PROVE reg[f].id <= c
  <2>1. reg[f].id \in Nat /\ reg[f].id <= Cardinality(NumberedNodes)
    BY <1>1 DEF IdInv, ListType
  <2> QED
    BY <1>0, <2>1
<1>2. ASSUME NEW f \in Eth PROVE Counted(f, c)'
  <2>1. CASE f = e
    BY ZenonT(30), <2>1
  <2>2. CASE f # e
    <3>1. pc'[f] = pc[f] /\ reg'[f] = reg[f] /\ luns'[f] = luns[f]
      BY ZenonT(30), <2>2 DEF Alone
    <3> QED
      BY ZenonT(30), <1>1, <2>2, <3>1 DEF Counted, IdInv, Numbered, Inserting
  <2> QED
    BY <2>1, <2>2
<1> QED
  BY ZenonT(30), <1>2 DEF IdInv, Counted

\* The numbered paths are the same, if those of e are.
LEMMA NumberedSame ==
    ASSUME NEW e \in Eth, Alone(e),
           \A t \in Target : (t \in DOMAIN luns'[e] \/ (Numbered(e)' /\ cur'[e] = t))
                             <=> (t \in DOMAIN luns[e] \/ (Numbered(e) /\ cur[e] = t))
    PROVE  NumberedNodes' = NumberedNodes
<1>1. ASSUME NEW n \in Node
      PROVE  (n[2] \in DOMAIN luns'[n[1]] \/ (Numbered(n[1])' /\ cur'[n[1]] = n[2]))
             <=> (n[2] \in DOMAIN luns[n[1]] \/ (Numbered(n[1]) /\ cur[n[1]] = n[2]))
  <2>1. n[1] \in Eth /\ n[2] \in Target
    BY ZenonT(30), NodeFacts
  <2>2. CASE n[1] = e
    BY ZenonT(30), <2>1, <2>2
  <2>3. CASE n[1] # e
    BY ZenonT(30), <2>1, <2>3 DEF Alone, Numbered, Inserting
  <2> QED
    BY <2>2, <2>3
<1> QED
  BY ZenonT(30), <1>1 DEF NumberedNodes

\* A thread keeps the counter behind the paths that were numbered.
LEMMA IdStepThread ==
    ASSUME ListType, IdInv, NEW e \in Eth, Sancheck(e)
    PROVE  IdInv'
<1>0. Alone(e)
  BY Others
<1>1. PICK c \in Nat : c = Cardinality(NumberedNodes)
  BY ZenonT(30), NodesFinite DEF NumberedNodes
<1>2. /\ id \in Nat /\ id <= c /\ Counted(e, c) /\ reg[e].id \in Nat
  BY <1>1 DEF IdInv, Counted, ListType
<1>3. ASSUME UNCHANGED id, Counted(e, c)',
             \A t \in Target : (t \in DOMAIN luns'[e] \/ (Numbered(e)' /\ cur'[e] = t))
                               <=> (t \in DOMAIN luns[e] \/ (Numbered(e) /\ cur[e] = t))
      PROVE  IdInv'
  <2>1. NumberedNodes' = NumberedNodes
    BY ZenonT(30), <1>0, <1>3, NumberedSame
  <2>2. Cardinality(NumberedNodes') = c /\ Cardinality(NumberedNodes) <= c /\ id' <= c
    BY <1>1, <1>2, <1>3, <2>1
  <2> QED
    BY ZenonT(30), <1>0, <1>3, <2>2, IdOf
<1>4. CASE WriteId(e)
  <2>1. /\ pc[e] = "writeid" /\ pc'[e] = "head" /\ UNCHANGED <<cur, luns, reg>>
        /\ id' = reg[e].id + 1
    BY ZenonT(30), <1>4, Effects DEF WriteId, At, Moves
  <2>2. PICK x \in Node : x = ThisNode(e)
    BY ZenonT(30), <2>1, NodeFacts DEF ListType, Works, ThisNode
  <2>3. x[1] = e /\ x[2] = cur[e] /\ cur[e] \notin DOMAIN luns[e]
    BY ZenonT(30), <2>1, <2>2, NodeFacts DEF ListType, Works, ThisNode
  <2>4. ~Numbered(e) /\ Numbered(e)'
    BY ZenonT(30), <2>1 DEF Numbered, Inserting
  <2>5. x \notin NumberedNodes
    BY ZenonT(30), <2>3, <2>4 DEF NumberedNodes
  <2>6. NumberedNodes' = NumberedNodes \cup {x}
    <3>1. ASSUME NEW n \in Node
          PROVE  (n[2] \in DOMAIN luns'[n[1]] \/ (Numbered(n[1])' /\ cur'[n[1]] = n[2]))
                 <=> (n[2] \in DOMAIN luns[n[1]] \/ (Numbered(n[1]) /\ cur[n[1]] = n[2]) \/ n = x)
      <4>1. n[1] \in Eth /\ n = <<n[1], n[2]>>
        BY ZenonT(30), NodeFacts
      <4>2. CASE n[1] = e
        BY ZenonT(30), <2>1, <2>2, <2>3, <2>4, <4>1, <4>2 DEF ThisNode
      <4>3. CASE n[1] # e
        BY ZenonT(30), <1>0, <2>3, <4>1, <4>3 DEF Alone, Numbered, Inserting
      <4> QED
        BY <4>2, <4>3
    <3> QED
      BY ZenonT(30), <3>1 DEF NumberedNodes
  <2>7. Cardinality(NumberedNodes') = c + 1 /\ c < Cardinality(Node)
    <3>1. NumberedNodes \in SUBSET Node
      BY DEF NumberedNodes
    <3> QED
      BY ZenonT(30), <1>1, <2>5, <2>6, <3>1, OneMore
  <2>8. reg[e].id <= c /\ reg[e].id \in Nat
    BY ZenonT(30), <1>2, <2>1 DEF Counted
  <2>9. /\ c + 1 \in Nat /\ Cardinality(NumberedNodes) <= c + 1 /\ id' <= c + 1
        /\ reg[e].id < Cardinality(Node)
    BY <1>1, <2>1, <2>7, <2>8, NodesFinite
  <2>10. PICK d \in Nat : d = c + 1
    BY <2>9
  <2>11. Counted(e, d)'
    BY ZenonT(30), <1>2, <2>1, <2>9 DEF Counted
  <2> QED
    BY ZenonT(30), <1>0, <2>7, <2>9, <2>10, <2>11, IdOf
<1>5. CASE ReadId(e)
  <2>1. /\ pc[e] = "readid" /\ pc'[e] = "writeid" /\ UNCHANGED <<cur, luns, id>>
        /\ reg'[e].id = id
    BY ZenonT(30), <1>5, Effects, Fields DEF ReadId, At, Moves
  <2>2. ~Numbered(e) /\ ~Numbered(e)'
    BY ZenonT(30), <2>1 DEF Numbered, Inserting
  <2>3. Counted(e, c)'
    BY ZenonT(30), <1>2, <2>1, <2>2 DEF Counted
  <2> QED
    BY ZenonT(30), <1>3, <2>1, <2>2, <2>3
<1>6. ASSUME Numbered(e), Numbered(e)', UNCHANGED <<cur, luns, id>>, reg'[e].id = reg[e].id,
             pc'[e] # "writeid"
      PROVE  IdInv'
  <2>1. Counted(e, c)'
    BY ZenonT(30), <1>2, <1>6 DEF Counted
  <2> QED
    BY ZenonT(30), <1>3, <1>6, <2>1
<1>7. CASE Head0(e) \/ SetHead(e) \/ First(e) \/ Walk(e) \/ Link(e) \/ LinkNext(e)
  <2>1. Numbered(e) /\ UNCHANGED id
    BY ZenonT(30), <1>7
    DEF Head0, SetHead, First, Walk, Link, LinkNext, At, Numbered, Inserting
  <2>2. \A i, p, t : Holds(e, i, p, t) => reg'[e].id = i /\ UNCHANGED <<cur, luns>>
    BY DEF Holds
  <2>3. reg'[e].id = reg[e].id /\ UNCHANGED <<cur, luns>>
    BY ZenonT(30), <1>7, <2>2, Effects, Branches
  <2>4. pc'[e] \in {"sethead", "probe", "first", "walk", "append", "link", "linknext"}
    BY ZenonT(30), <1>7, Effects, Branches DEF Moves
  <2>5. Numbered(e)' /\ pc'[e] # "writeid"
    BY ZenonT(30), <2>4 DEF Numbered, Inserting
  <2> QED
    BY ZenonT(30), <1>6, <2>1, <2>3, <2>5
<1>8. ASSUME ~Numbered(e), ~Numbered(e)', UNCHANGED id, pc'[e] # "writeid",
             DOMAIN luns'[e] = DOMAIN luns[e],
             \A t \in DOMAIN luns[e] : /\ "id" \in DOMAIN luns'[e][t]
                                       /\ luns'[e][t].id = luns[e][t].id
      PROVE  IdInv'
  <2>1. Counted(e, c)'
    BY ZenonT(30), <1>2, <1>8 DEF Counted
  <2> QED
    BY ZenonT(30), <1>3, <1>8, <2>1
<1>9. \A t \in DOMAIN luns[e] : "id" \in DOMAIN luns[e][t]
  BY ZenonT(30), <1>2 DEF Counted
<1>10. CASE JDiscover(e) \/ Quiet(e)
  <2>1. /\ pc[e] \in {"discover", "poll"} /\ pc'[e] \in {"poll", "done"} /\ UNCHANGED <<luns, id>>
    BY ZenonT(30), <1>10, Effects DEF JDiscover, Quiet, At, Moves
  <2> QED
    BY ZenonT(30), <1>8, <1>9, <2>1 DEF Numbered, Inserting
<1>11. ASSUME NEW r \in sent, JConfig(e, r) PROVE IdInv'
  <2>1. pc[e] = "poll" /\ pc'[e] = "readid" /\ UNCHANGED <<luns, id>>
    BY ZenonT(30), <1>11, Paths DEF JConfig, At, Moves
  <2> QED
    BY ZenonT(30), <1>8, <1>9, <2>1 DEF Numbered, Inserting
<1>12. ASSUME NEW r \in sent, JAta(e, r) PROVE IdInv'
  <2>1. pc[e] = "poll" /\ pc'[e] = "poll" /\ UNCHANGED id /\ DOMAIN luns'[e] = DOMAIN luns[e]
    BY ZenonT(30), <1>12, Paths DEF JAta, At
  <2>2. PICK v : luns'[e] = [luns[e] EXCEPT ![r.t] = [luns[e][r.t] EXCEPT !.maxsect = v]]
    <3>1. DOMAIN luns = Eth
      BY DEF ListType
    <3> QED
      BY ZenonT(30), <1>12, <3>1 DEF JAta
  <2>3. \A t \in DOMAIN luns[e] : /\ "id" \in DOMAIN luns'[e][t]
                                  /\ luns'[e][t].id = luns[e][t].id
    BY ZenonT(30), <1>9, <2>2
  <2> QED
    BY ZenonT(30), <1>8, <2>1, <2>3 DEF Numbered, Inserting
<1>13. CASE Probe(e)
  <2>1. /\ pc[e] = "probe" /\ pc'[e] = "poll" /\ UNCHANGED id
        /\ DOMAIN luns'[e] = DOMAIN luns[e] \cup {cur[e]}
    BY ZenonT(30), <1>13, Paths DEF Probe, At, Moves
  <2>2. Numbered(e) /\ ~Numbered(e)'
    BY ZenonT(30), <2>1 DEF Numbered, Inserting
  <2>3. ASSUME NEW t \in DOMAIN luns'[e]
        PROVE  luns'[e][t] = IF t = cur[e] THEN [id |-> reg[e].id, maxsect |-> 0] ELSE luns[e][t]
    <3>1. DOMAIN luns = Eth
      BY DEF ListType
    <3> QED
      BY ZenonT(30), <1>13, <2>1, <3>1 DEF Probe
  <2>4. PICK v : v = [id |-> reg[e].id, maxsect |-> 0]
    BY ZenonT(30)
  <2>5. "id" \in DOMAIN v /\ v.id = reg[e].id
    BY <2>4
  <2>6. Counted(e, c)'
    BY ZenonT(30), <1>2, <2>1, <2>2, <2>3, <2>4, <2>5 DEF Counted
  <2> QED
    BY ZenonT(30), <1>3, <2>1, <2>2, <2>6
<1> QED
  BY ZenonT(30), <1>4, <1>5, <1>7, <1>10, <1>11, <1>12, <1>13 DEF Sancheck

----------------------------------------------------------------------------
(* Tags.                                                                   *)

\* The words of a tag.
LEMMA Words == Half = 65536 /\ Top = 32768
BY DEF Half, Top

\* They are natural numbers.
LEMMA WordsNat == Half \in Nat /\ Top \in Nat
BY Words

\* And so are the microseconds of a second.
LEMMA UsecNat == \A u \in Usec : u \in Nat
BY SMT DEF Usec

\* The top bit of a tag of aoeping is lost only when the low bits wrap.
LEMMA PingWraps ==
    ASSUME NEW hi \in Nat, NEW lo \in Nat, NEW k \in 0..2, hi < Half, lo < Half,
           ((hi % Top) + Top + ((lo + k) \div Half)) % Half < Top
    PROVE  (hi % Top) = Top - 1 /\ lo >= Half - k
BY Words

\* The driver's own tags pass the filter of aoenet_rcv, and they are 32 bits.
THEOREM DriverTags ==
    ASSUME NEW lasttag \in Nat, NEW jiffies \in Nat
    PROVE  NewTag(lasttag, jiffies) \in Tag /\ ForDriver(NewTag(lasttag, jiffies))
<1>1. /\ (lasttag % Top) \in Nat /\ (lasttag % Top) < Top /\ Top < Half
      /\ (jiffies % Half) \in Nat /\ (jiffies % Half) < Half
      /\ Top \in Nat /\ Half \in Nat
  BY Words
<1>2. /\ (lasttag % Top) \in 0..(Half - 1) /\ (lasttag % Top) < Top
      /\ (jiffies % Half) \in 0..(Half - 1)
  BY <1>1
<1>3. NewTag(lasttag, jiffies) \in Tag
  BY <1>2 DEF NewTag, Tag
<1>4. NewTag(lasttag, jiffies)[1] = lasttag % Top
  BY DEF NewTag
<1> QED
  BY <1>2, <1>3, <1>4 DEF ForDriver

\* The tags of fewer than 2^15 commands of a device in a row are different,
\* whenever they are sent: an answer is taken for a later command only when so
\* many were sent in between.
THEOREM TagsDiffer ==
    ASSUME NEW m \in Nat, NEW n \in Nat, m < n, n - m < Top,
           NEW i \in Nat, NEW j \in Nat
    PROVE  NewTag(m, i) # NewTag(n, j)
<1>1. (m % Top) # (n % Top)
  BY Words
<1> QED
  BY <1>1 DEF NewTag

\* The age that tsince takes from the tag of a late answer is the one since the
\* command was sent, rounded up, over the wrap of jiffies in the tag; as in
\* AoeFlow.UnexpectedRsp.
THEOREM TsinceIsAge ==
    ASSUME NEW lasttag \in Nat, NEW then \in Nat, NEW now \in Nat,
           then <= now, now - then < Half
    PROVE  Tsince(NewTag(lasttag, then), now) = (now - then) + 1
<1>1. NewTag(lasttag, then)[2] = then % Half
  BY DEF NewTag
<1>2. LET n == (now % Half) - (then % Half)
      IN (IF n < 0 THEN n + Half ELSE n) = now - then
  BY Words
<1> QED
  BY <1>1, <1>2 DEF Tsince

\* The tags of the user programs do not pass the filter of the driver, but for an
\* aoeping that starts within two of the last tag.
THEOREM UserTags ==
    /\ ~ForDriver(DiscoverTag)
    /\ \A i, n \in Nat : ~ForDriver(ProbeTag(i, n))
    /\ \A usec \in Nat : ~ForDriver(CfgTag(usec))
    /\ \A start \in Tag, k \in 0..2 :
         ForDriver(PingTag(start, k)) =>
             (start[1] % Top) = Top - 1 /\ start[2] >= Half - k
<1>1. ~ForDriver(DiscoverTag)
  BY Words DEF ForDriver, DiscoverTag
<1>2. ASSUME NEW i \in Nat, NEW n \in Nat
      PROVE  ~ForDriver(ProbeTag(i, n))
  <2>1. ProbeTag(i, n)[1] = PathNr(i) % Half
    BY DEF ProbeTag
  <2> QED
    BY <2>1, Words DEF ForDriver, PathNr
<1>3. ASSUME NEW usec \in Nat
      PROVE  ~ForDriver(CfgTag(usec))
  <2>1. CfgTag(usec)[1] = Top + (usec \div Half)
    BY DEF CfgTag
  <2> QED
    BY <2>1, Words DEF ForDriver
<1>4. ASSUME NEW start \in Tag, NEW k \in 0..2, ForDriver(PingTag(start, k))
      PROVE  (start[1] % Top) = Top - 1 /\ start[2] >= Half - k
  <2>1. start[1] \in 0..(Half - 1) /\ start[2] \in 0..(Half - 1)
    BY DEF Tag
  <2>2. PingTag(start, k)[1] = ((start[1] % Top) + Top + ((start[2] + k) \div Half)) % Half
    BY DEF PingTag
  <2>3. ((start[1] % Top) + Top + ((start[2] + k) \div Half)) % Half < Top
    BY <1>4, <2>2 DEF ForDriver
  <2>4. start[1] \in Nat /\ start[2] \in Nat /\ start[1] < Half /\ start[2] < Half
    BY <2>1, WordsNat
  <2> QED
    BY ZenonT(30), <2>3, <2>4, PingWraps
<1> QED
  BY ZenonT(30), <1>1, <1>2, <1>3, <1>4

\* The number of a path is at least 2^15, and its 16 bits in a tag are too.
LEMMA PathNrs ==
    ASSUME NEW i \in Nat
    PROVE  /\ PathNr(i) \in Nat /\ PathNr(i) >= Top
           /\ PathNr(i) < Half => PathNr(i) % Half = PathNr(i)
BY Words DEF PathNr

\* The three tags of aoeping are different, and their halves have 16 bits.
LEMMA PingTags ==
    ASSUME NEW start \in Tag
    PROVE  /\ \A j, k \in 0..2 : PingTag(start, j) = PingTag(start, k) => j = k
           /\ \A k \in 0..2 : PingTag(start, k)[1] \in 0..(Half - 1)
<1>1. start[1] \in Nat /\ start[2] \in Nat
  BY WordsNat DEF Tag
<1>2. ASSUME NEW j \in 0..2, NEW k \in 0..2, PingTag(start, j) = PingTag(start, k)
      PROVE  j = k
  <2>1. (start[2] + j) % Half = (start[2] + k) % Half
    BY <1>2 DEF PingTag
  <2> QED
    BY <1>1, <2>1, Words
<1>3. ASSUME NEW k \in 0..2 PROVE PingTag(start, k)[1] \in 0..(Half - 1)
  <2>1. PingTag(start, k)[1] = ((start[1] % Top) + Top + ((start[2] + k) \div Half)) % Half
    BY DEF PingTag
  <2>2. ASSUME NEW x \in Int PROVE x % Half \in 0..(Half - 1)
    <3>1. x % Half \in Int /\ 0 <= x % Half /\ x % Half < Half
      BY Words
    <3> QED
      BY <3>1, WordsNat
  <2>3. (start[1] % Top) + Top + ((start[2] + k) \div Half) \in Int
    BY <1>1, Words
  <2> QED
    BY <2>1, <2>2, <2>3
<1> QED
  BY ZenonT(30), <1>2, <1>3

\* A query of aoe-sancheck has the tag of a probe of path 0 with no sector.
LEMMA QueryTag == DiscoverTag = ProbeTag(0, 0)
<1>1. PathNr(0) % Half = Top
  BY Words DEF PathNr
<1> QED
  BY <1>1 DEF ProbeTag, DiscoverTag


----------------------------------------------------------------------------
(* The commands that are sent, and the answers that are taken.             *)

\* The counter starts behind the paths.
LEMMA InitId == Init => IdInv
<1> SUFFICES ASSUME Init PROVE IdInv
  OBVIOUS
<1>1. /\ id = 0 /\ \A e \in Eth : pc[e] = "discover" /\ DOMAIN luns[e] = {}
  BY ZenonT(30) DEF Init
<1>2. PICK c \in Nat : c = Cardinality(NumberedNodes)
  BY ZenonT(30), NodesFinite DEF NumberedNodes
<1>3. id <= c
  BY <1>1
<1> QED
  BY ZenonT(30), <1>1, <1>2, <1>3 DEF IdInv, Numbered, Inserting

\* Every step keeps it there.
LEMMA IdStep ==
    ASSUME ListInv, IdInv, [Next]_vars
    PROVE  IdInv'
BY ZenonT(30), IdStepThread, ListIdle, WhoSteps DEF ListInv

\* The numbers of the paths that are numbered make tags of aoe-sancheck.
LEMMA TagOfPath ==
    ASSUME NEW i \in Nat, i < Cardinality(Node), NEW n \in 0..NSect
    PROVE  ProbeTag(i, n) \in ProbeTags
<1>1. i \in 0..(Cardinality(Node) - 1)
  BY NodesFinite
<1> QED
  BY <1>1 DEF ProbeTags

\* What the programs are told does not change.
LEMMA StartStep ==
    ASSUME StartInv, [Next]_vars
    PROVE  StartInv' /\ ping'.start = ping.start /\ cfg'.tag = cfg.tag
<1> DEFINE St == {"find", "ident", "smart", "ok", "failed"}
           P == [start : Tag, want : {"none", "find", "ident", "smart"}, out : BOOLEAN,
                 stage : St]
           W(p) == /\ p.stage = "find" => p.want # "none"
                   /\ p.stage = "ident" => p.want \in {"ident", "smart"}
           C == [tag : {CfgTag(u) : u \in Usec}, all : BOOLEAN, st : {"new", "out", "done"}]
<1>1. \A o \in BOOLEAN : LET q == [ping EXCEPT !.out = o]
                        IN q \in P /\ q.start = ping.start /\ W(q)
  BY DEF StartInv
<1>2. \A s \in St, o \in BOOLEAN : LET q == [ping EXCEPT !.stage = s, !.out = o]
                                   IN /\ q \in P /\ q.start = ping.start
                                      /\ q.stage = s /\ q.want = ping.want
  BY DEF StartInv
<1>3. \A s \in {"new", "out", "done"} : LET d == [cfg EXCEPT !.st = s]
                                        IN d \in C /\ d.tag = cfg.tag
  BY DEF StartInv
<1>4. ping \in P /\ W(ping) /\ cfg \in C
  BY DEF StartInv
<1> HIDE DEF P, C, W
<1>5. ping' \in P /\ W(ping') /\ ping'.start = ping.start
  <2>1. CASE UNCHANGED ping
    BY ZenonT(30), <1>4, <2>1
  <2>2. CASE PingSend
    BY ZenonT(30), <1>1, <1>4, <2>2 DEF PingSend
  <2>3. ASSUME NEW r \in sent, PingAccept(r) PROVE ping' \in P /\ W(ping') /\ ping'.start = ping.start
    <3>1. PICK s \in After : ping' = [ping EXCEPT !.stage = s, !.out = FALSE]
      BY ZenonT(30), <2>3 DEF PingAccept
    <3>2. ping.stage \in {"find", "ident", "smart"}
      BY ZenonT(30), <2>3 DEF PingAccept, PingRuns
    <3>3. s \in {"ok", "ident", "smart", "failed"} /\ (s = "ident" => ping.want \in {"ident", "smart"})
      BY <1>4, <3>1, <3>2 DEF After, P, W
    <3> QED
      BY ZenonT(30), <1>2, <3>1, <3>3 DEF W
  <2>4. CASE PingAlarm
    BY ZenonT(30), <1>2, <2>4 DEF PingAlarm, W
  <2>5. ASSUME NEW e \in Eth, Sancheck(e) PROVE UNCHANGED ping
    BY ZenonT(30), <2>5 DEF Sancheck, JDiscover, ReadId, WriteId, Head0, SetHead, First, Walk,
       Link, LinkNext, Probe, Quiet, JConfig, JAta
  <2>6. ASSUME NEW r \in sent, CfgAccept(r) PROVE UNCHANGED ping
    BY ZenonT(30), <2>6 DEF CfgAccept
  <2>7. CASE CfgQuery \/ CfgTimeout \/ UNCHANGED vars
    BY ZenonT(30), <2>1, <2>7 DEF CfgQuery, CfgTimeout, vars
  <2> QED
    BY ZenonT(30), <2>1, <2>2, <2>3, <2>4, <2>5, <2>6, <2>7 DEF Next
<1>6. cfg' \in C /\ cfg'.tag = cfg.tag
  <2>1. CASE UNCHANGED cfg
    BY ZenonT(30), <1>4, <2>1
  <2>2. CASE CfgQuery \/ CfgTimeout
    BY ZenonT(30), <1>3, <2>2 DEF CfgQuery, CfgTimeout
  <2>3. ASSUME NEW r \in sent, CfgAccept(r) PROVE cfg' \in C /\ cfg'.tag = cfg.tag
    BY ZenonT(30), <1>3, <2>3 DEF CfgAccept
  <2>4. ASSUME NEW e \in Eth, Sancheck(e) PROVE UNCHANGED cfg
    BY ZenonT(30), <2>4 DEF Sancheck, JDiscover, ReadId, WriteId, Head0, SetHead, First, Walk,
       Link, LinkNext, Probe, Quiet, JConfig, JAta
  <2>5. ASSUME NEW r \in sent, PingAccept(r) PROVE UNCHANGED cfg
    BY ZenonT(30), <2>5 DEF PingAccept
  <2>6. CASE PingSend \/ PingAlarm \/ UNCHANGED vars
    BY ZenonT(30), <2>1, <2>6 DEF PingSend, PingAlarm, vars
  <2> QED
    BY ZenonT(30), <2>1, <2>2, <2>3, <2>4, <2>5, <2>6 DEF Next
<1> QED
  BY ZenonT(30), <1>5, <1>6 DEF StartInv, P, C, W


\* What is sent at the start, and what the programs are told.
LEMMA InitSent == Init => StartInv /\ SentInv
<1> SUFFICES ASSUME Init PROVE StartInv /\ SentInv
  OBVIOUS
<1>1. PICK s \in Setup :
         /\ sent = {Cmd(PingEth, PingTarget, "identify", NewTag(y[1], y[2]), "driver") :
                        y \in s.drv}
         /\ ping = [start |-> s.start, want |-> s.want, out |-> FALSE,
                    stage |-> IF s.want = "none" THEN "ok" ELSE "find"]
         /\ cfg = [tag |-> CfgTag(s.usec), all |-> s.ask = "all",
                   st |-> IF s.ask = "none" THEN "done" ELSE "new"]
  BY ZenonT(30) DEF Init
<1>2. /\ s.start \in Tag /\ s.want \in {"none", "find", "ident", "smart"} /\ s.usec \in Usec
      /\ s.drv \in SUBSET (Nat \X Nat)
  BY ToolsAssumption
<1>3. StartInv
  <2>1. CfgTag(s.usec) \in {CfgTag(u) : u \in Usec}
    BY <1>2
  <2>2. (s.ask = "all") \in BOOLEAN
    OBVIOUS
  <2>3. cfg \in [tag : {CfgTag(u) : u \in Usec}, all : BOOLEAN, st : {"new", "out", "done"}]
    BY <1>1, <2>1, <2>2
  <2>4. /\ ping \in [start : Tag, want : {"none", "find", "ident", "smart"}, out : BOOLEAN,
                     stage : {"find", "ident", "smart", "ok", "failed"}]
        /\ ping.stage = "find" => ping.want # "none"
        /\ ping.stage = "ident" => ping.want \in {"ident", "smart"}
    BY <1>1, <1>2
  <2> QED
    BY <2>3, <2>4 DEF StartInv
<1>4. SentInv
  <2>1. ASSUME NEW r \in sent PROVE Sender(r, ping.start, cfg.tag)
    <3>1. PICK y \in s.drv : r = Cmd(PingEth, PingTarget, "identify", NewTag(y[1], y[2]), "driver")
      BY ZenonT(30), <1>1
    <3>2. r.by = "driver" /\ r.tag = NewTag(y[1], y[2])
      BY <3>1 DEF Cmd
    <3>3. y[1] \in Nat /\ y[2] \in Nat
      BY <1>2
    <3> QED
      BY ZenonT(30), <3>2, <3>3, DriverTags DEF Sender
  <2> QED
    BY <2>1 DEF SentInv
<1> QED
  BY <1>3, <1>4

\* The stage of aoeping has its number.
LEMMA StageOf ==
    ASSUME PingRuns
    PROVE  StageNr \in 1..3
<1>1. \E k \in 1..3 : Stages[k] = ping.stage
  <2>1. Stages[1] = "find" /\ Stages[2] = "ident" /\ Stages[3] = "smart"
    BY DEF Stages
  <2>2. 1 \in 1..3 /\ 2 \in 1..3 /\ 3 \in 1..3
    OBVIOUS
  <2> QED
    BY ZenonT(30), <2>1, <2>2 DEF PingRuns
<1> QED
  BY ZenonT(30), <1>1 DEF StageNr

\* Every program sends under its own tags only.
LEMMA SentStep ==
    ASSUME ListType, IdInv, StartInv, SentInv, [Next]_vars
    PROVE  SentInv'
<1>0. ping'.start = ping.start /\ cfg'.tag = cfg.tag
  BY StartStep
<1>1. ASSUME UNCHANGED sent PROVE SentInv'
  BY ZenonT(30), <1>0, <1>1 DEF SentInv
<1>2. ASSUME NEW C, sent' = sent \cup C, \A r \in C : Sender(r, ping.start, cfg.tag)
      PROVE  SentInv'
  BY ZenonT(30), <1>0, <1>2 DEF SentInv
<1>3. NSect \in Nat
  BY ToolsAssumption
<1>4. ASSUME NEW e \in Eth, JDiscover(e) PROVE SentInv'
  <2>1. DiscoverTag \in ProbeTags
    <3>1. 0 \in Nat /\ 0 < Cardinality(Node) /\ 0 \in 0..NSect
      BY <1>3, NodesFinite
    <3> QED
      BY ZenonT(30), <3>1, QueryTag, TagOfPath
  <2>2. ASSUME NEW t PROVE Sender(Cmd(e, t, "config", DiscoverTag, "sancheck"), ping.start, cfg.tag)
    BY <2>1 DEF Cmd, Sender
  <2>3. \A r \in {Cmd(e, t, "config", DiscoverTag, "sancheck") : t \in sees[e]} :
           Sender(r, ping.start, cfg.tag)
    BY ZenonT(30), <2>2
  <2> QED
    BY ZenonT(30), <1>2, <1>4, <2>3 DEF JDiscover
<1>5. ASSUME NEW e \in Eth, Probe(e) PROVE SentInv'
  <2>1. reg[e].id \in Nat /\ reg[e].id < Cardinality(Node)
    <3>1. Numbered(e)
      BY ZenonT(30), <1>5 DEF Probe, At, Numbered
    <3>2. reg[e].id \in Nat
      BY DEF ListType
    <3> QED
      BY ZenonT(30), <3>1, <3>2 DEF IdInv
  <2>2. ASSUME NEW n \in 1..NSect
        PROVE  Sender(Cmd(e, cur[e], "identify", ProbeTag(reg[e].id, n), "sancheck"),
                      ping.start, cfg.tag)
    <3>1. n \in 0..NSect
      BY <1>3
    <3>2. ProbeTag(reg[e].id, n) \in ProbeTags
      BY ZenonT(30), <2>1, <3>1, TagOfPath
    <3> QED
      BY <3>2 DEF Cmd, Sender
  <2>3. \A r \in {Cmd(e, cur[e], "identify", ProbeTag(reg[e].id, n), "sancheck") :
                      n \in 1..NSect} : Sender(r, ping.start, cfg.tag)
    BY ZenonT(30), <2>2
  <2> QED
    BY ZenonT(30), <1>2, <1>5, <2>3 DEF Probe
<1>6. ASSUME PingSend PROVE SentInv'
  <2>1. PICK k \in 1..3 : k = StageNr
    BY ZenonT(30), <1>6, StageOf DEF PingSend
  <2>2. PICK c : c = Cmd(PingEth, PingTarget, StageKind, StageTag, "aoeping")
    OBVIOUS
  <2>3. c.by = "aoeping" /\ c.kind = StageKind /\ c.tag = StageTag
    BY <2>2 DEF Cmd
  <2>4. Sender(c, ping.start, cfg.tag)
    BY ZenonT(30), <2>1, <2>3 DEF Sender, StageKind, StageTag
  <2>5. sent' = sent \cup {c}
    BY ZenonT(30), <1>6, <2>2 DEF PingSend
  <2> QED
    BY ZenonT(30), <1>0, <2>4, <2>5 DEF SentInv
<1>7. ASSUME CfgQuery PROVE SentInv'
  <2> DEFINE T == IF cfg.all THEN sees[PingEth] ELSE {PingTarget}
  <2>1. ASSUME NEW t PROVE Sender(Cmd(PingEth, t, "config", cfg.tag, "aoecfg"), ping.start, cfg.tag)
    BY DEF Cmd, Sender
  <2> HIDE DEF T
  <2>2. \A r \in {Cmd(PingEth, t, "config", cfg.tag, "aoecfg") : t \in T} :
           Sender(r, ping.start, cfg.tag)
    BY ZenonT(30), <2>1
  <2> QED
    BY ZenonT(30), <1>2, <1>7, <2>2 DEF CfgQuery, T
<1>8. ASSUME NEW e \in Eth, Sancheck(e), ~JDiscover(e), ~Probe(e) PROVE UNCHANGED sent
  BY ZenonT(30), <1>8 DEF Sancheck, ReadId, WriteId, Head0, SetHead, First, Walk, Link,
     LinkNext, Quiet, JConfig, JAta
<1>9. ASSUME NEW r \in sent, PingAccept(r) \/ CfgAccept(r) PROVE UNCHANGED sent
  BY ZenonT(30), <1>9 DEF PingAccept, CfgAccept
<1>10. CASE PingAlarm \/ CfgTimeout \/ UNCHANGED vars
  BY ZenonT(30), <1>1, <1>10 DEF PingAlarm, CfgTimeout, vars
<1> QED
  BY ZenonT(30), <1>1, <1>4, <1>5, <1>6, <1>7, <1>8, <1>9, <1>10 DEF Next


\* All that the answers need.
ToolsInv == ListInv /\ IdInv /\ StartInv /\ SentInv

\* What one may take depends on what the programs were told.
LEMMA MaySame ==
    ASSUME ping'.start = ping.start, cfg'.tag = cfg.tag, NEW p, NEW by, NEW kind,
           MayTake(p, by, kind)
    PROVE  MayTake(p, by, kind)'
<1>1. PingUses' = PingUses
  BY ZenonT(30) DEF PingUses
<1> QED
  BY ZenonT(30), <1>1 DEF MayTake

\* The tags of aoeping.
LEMMA PingUse ==
    ASSUME NEW k \in 1..3
    PROVE  PingTag(ping.start, k - 1) \in PingUses
<1>1. k - 1 \in 0..2
  OBVIOUS
<1> QED
  BY ZenonT(30), <1>1 DEF PingUses

\* What aoe-sancheck looks at is not for the driver.
LEMMA TopNotDriver ==
    ASSUME NEW r, Sender(r, ping.start, cfg.tag), r.tag[1] >= Top
    PROVE  r.by # "driver"
<1>1. ASSUME r.tag \in Tag PROVE ~ForDriver(r.tag)
  <2>1. r.tag[1] \in Int
    BY <1>1, WordsNat DEF Tag
  <2> QED
    BY <2>1, WordsNat DEF ForDriver
<1>2. r.by = "driver" => r.tag \in Tag /\ ForDriver(r.tag)
  BY DEF Sender
<1> QED
  BY ZenonT(30), <1>1, <1>2

\* The config answers that aoe-sancheck takes.
LEMMA JConfigTakes ==
    ASSUME SentInv, NEW e \in Eth, NEW r \in sent, JConfig(e, r), r.by # "sancheck"
    PROVE  MayTake("sancheck", r.by, r.kind)
<1>1. Sender(r, ping.start, cfg.tag) /\ r.tag[1] >= Top /\ r.kind = "config"
  BY ZenonT(30) DEF JConfig, SentInv
<1>2. r.by # "driver"
  BY ZenonT(30), <1>1, TopNotDriver
<1>3. r.by \in {"aoeping", "aoecfg"}
  BY ZenonT(30), <1>1, <1>2 DEF Sender
<1> QED
  BY ZenonT(30), <1>1, <1>3 DEF MayTake

\* The answers to ATA commands that it takes.
LEMMA JAtaTakes ==
    ASSUME IdInv, StartInv, SentInv, NEW e \in Eth, NEW r \in sent, JAta(e, r), r.by # "sancheck"
    PROVE  MayTake("sancheck", r.by, r.kind)
<1>0. Sender(r, ping.start, cfg.tag) /\ r.kind # "config" /\ r.tag[1] >= Top
  <2>1. r.kind \in {"identify", "smart"} /\ r.tag[1] >= Top
    BY ZenonT(30) DEF JAta
  <2> QED
    BY <2>1 DEF SentInv
<1>1. PICK i \in Nat : i < Cardinality(Node) /\ r.tag[1] = PathNr(i)
  BY ZenonT(30) DEF JAta, SameId, IdInv
<1>2. r.by # "driver"
  BY ZenonT(30), <1>0, TopNotDriver
<1>3. r.by = "aoeping" /\ \E k \in 1..3 : r.tag = PingTag(ping.start, k - 1)
  BY ZenonT(30), <1>0, <1>2 DEF Sender
<1>4. PICK k \in 1..3 : r.tag = PingTag(ping.start, k - 1)
  BY ZenonT(30), <1>3
<1>5. PathNr(i) \in 0..(Half - 1)
  <2>1. ping.start \in Tag /\ k - 1 \in 0..2
    BY DEF StartInv
  <2>2. PingTag(ping.start, k - 1)[1] \in 0..(Half - 1)
    BY ZenonT(30), <2>1, PingTags
  <2> QED
    BY ZenonT(30), <2>2, <1>1, <1>4
<1>6. PathNr(i) % Half = PathNr(i)
  BY <1>5, WordsNat, PathNrs
<1>7. ProbeTag(i, 0) \in ProbeTags
  <2>1. 0 \in 0..NSect
    BY ToolsAssumption
  <2> QED
    BY ZenonT(30), <1>1, <2>1, TagOfPath
<1>8. ProbeTag(i, 0)[1] = r.tag[1]
  BY <1>1, <1>6 DEF ProbeTag
<1>9. r.tag \in PingUses
  BY ZenonT(30), <1>4, PingUse
<1> QED
  BY ZenonT(30), <1>0, <1>3, <1>7, <1>8, <1>9 DEF MayTake

\* The answers that aoeping takes.
LEMMA PingTakes ==
    ASSUME StartInv, SentInv, NEW r \in sent, PingAccept(r), ~(r.by = "aoeping" /\ r.kind = StageKind)
    PROVE  MayTake("aoeping", r.by, r.kind)
<1>1. PICK k \in 1..3 : k = StageNr
  BY ZenonT(30), StageOf DEF PingAccept
<1>2. r.tag = PingTag(ping.start, k - 1) /\ Sender(r, ping.start, cfg.tag)
  BY ZenonT(30), <1>1 DEF PingAccept, StageTag, SentInv
<1>3. r.tag \in PingUses
  BY ZenonT(30), <1>2, PingUse
<1>4. ASSUME NEW j \in 1..3, r.by = "aoeping", r.tag = PingTag(ping.start, j - 1),
             r.kind = <<"config", "identify", "smart">>[j]
      PROVE  FALSE
  <2>1. ping.start \in Tag /\ j - 1 \in 0..2 /\ k - 1 \in 0..2
    BY DEF StartInv
  <2>2. j - 1 = k - 1
    BY ZenonT(30), <1>2, <1>4, <2>1, PingTags
  <2>3. j = k
    BY <2>2
  <2> QED
    BY ZenonT(30), <1>1, <1>4, <2>3 DEF StageKind
<1>5. r.by # "aoeping"
  BY ZenonT(30), <1>2, <1>4 DEF Sender
<1> QED
  BY ZenonT(30), <1>2, <1>3, <1>5 DEF Sender, MayTake

\* The answers that aoecfg takes.
LEMMA CfgTakes ==
    ASSUME StartInv, SentInv, NEW r \in sent, CfgAccept(r), r.by # "aoecfg"
    PROVE  MayTake("aoecfg", r.by, r.kind)
<1>1. r.tag = cfg.tag /\ Sender(r, ping.start, cfg.tag)
  BY ZenonT(30) DEF CfgAccept, SentInv
<1>2. PICK u \in Usec : cfg.tag = CfgTag(u)
  BY DEF StartInv
<1>3. u \in Nat
  BY ZenonT(30), UsecNat
<1>4. ~ForDriver(cfg.tag)
  BY ZenonT(30), <1>2, <1>3, UserTags
<1>5. r.by = "aoeping" => cfg.tag \in PingUses
  BY ZenonT(30), <1>1, PingUse DEF Sender
<1> QED
  BY ZenonT(30), <1>1, <1>4, <1>5 DEF Sender, MayTake

\* Every step keeps what the answers need, and takes no other answer.
LEMMA ToolsStep ==
    ASSUME ToolsInv, [Next]_vars
    PROVE  ToolsInv' /\ (OwnAnswers => OwnAnswers')
<1>0. ListType /\ ListInv /\ IdInv /\ StartInv /\ SentInv
  BY DEF ToolsInv, ListInv
<1>1. ToolsInv'
  BY ZenonT(30), <1>0, ListInvStep, IdStep, StartStep, SentStep DEF ToolsInv
<1>2. ping'.start = ping.start /\ cfg'.tag = cfg.tag
  BY ZenonT(30), <1>0, StartStep
<1>3. ASSUME OwnAnswers PROVE OwnAnswers'
  <2> DEFINE New(p, by, kind) == wrong' = wrong \cup {<<p, by, kind>>} /\ MayTake(p, by, kind)
  <2>1. ASSUME UNCHANGED wrong PROVE OwnAnswers'
    BY ZenonT(30), <1>2, <1>3, <2>1, MaySame DEF OwnAnswers
  <2>2. ASSUME NEW p, NEW by, NEW kind, New(p, by, kind) PROVE OwnAnswers'
    <3>1. ASSUME NEW w \in wrong' PROVE MayTake(w[1], w[2], w[3])
      <4>1. CASE w \in wrong
        BY ZenonT(30), <4>1, <1>3 DEF OwnAnswers
      <4>2. CASE w = <<p, by, kind>>
        <5>1. w[1] = p /\ w[2] = by /\ w[3] = kind
          BY <4>2
        <5> QED
          BY ZenonT(30), <5>1, <2>2
      <4> QED
        BY ZenonT(30), <3>1, <4>1, <4>2, <2>2
    <3> QED
      BY ZenonT(30), <3>1, <1>2, MaySame DEF OwnAnswers
  <2> HIDE DEF New
  <2>3. ASSUME NEW e \in Eth, NEW r \in sent, JConfig(e, r) \/ JAta(e, r)
        PROVE  UNCHANGED wrong \/ New("sancheck", r.by, r.kind)
    BY ZenonT(30), <1>0, <2>3, JConfigTakes, JAtaTakes DEF JConfig, JAta, Takes, New
  <2>4. ASSUME NEW r \in sent, PingAccept(r) PROVE UNCHANGED wrong \/ New("aoeping", r.by, r.kind)
    BY ZenonT(30), <1>0, <2>4, PingTakes DEF PingAccept, Takes, New
  <2>5. ASSUME NEW r \in sent, CfgAccept(r) PROVE UNCHANGED wrong \/ New("aoecfg", r.by, r.kind)
    BY ZenonT(30), <1>0, <2>5, CfgTakes DEF CfgAccept, Takes, New
  <2>6. ASSUME NEW e \in Eth, Sancheck(e), \A r \in sent : ~JConfig(e, r) /\ ~JAta(e, r)
        PROVE  UNCHANGED wrong
    BY ZenonT(30), <2>6 DEF Sancheck, JDiscover, ReadId, WriteId, Head0, SetHead, First,
       Walk, Link, LinkNext, Probe, Quiet
  <2>7. CASE PingSend \/ PingAlarm \/ CfgQuery \/ CfgTimeout \/ UNCHANGED vars
    BY ZenonT(30), <2>1, <2>7 DEF PingSend, PingAlarm, CfgQuery, CfgTimeout, vars
  <2> QED
    BY ZenonT(30), <2>1, <2>2, <2>3, <2>4, <2>5, <2>6, <2>7 DEF Next
<1> QED
  BY ZenonT(30), <1>1, <1>3

\* For any paths and any way to start, a program takes the answer to a command of
\* another only as MayTake says, though answers are lost, late or repeated, and
\* although the threads of aoe-sancheck may give a number twice.
THEOREM AnswersAreOwn == Spec => []OwnAnswers
<1>1. Init => ToolsInv
  BY ZenonT(30), InitList, InitId, InitSent DEF ToolsInv
<1>2. Init => OwnAnswers
  BY ZenonT(30) DEF Init, OwnAnswers
<1> QED
  BY <1>1, <1>2, ToolsStep, PTL DEF Spec

\* For any way to start, the driver takes no answer to a command of these programs,
\* unless aoeping was told to start within two of the last tag.
THEOREM DriverStaysDeaf == Spec => []DriverDeaf
<1>1. Init => ToolsInv
  BY ZenonT(30), InitList, InitId, InitSent DEF ToolsInv
<1>2. ToolsInv => DriverDeaf
  <2> SUFFICES ASSUME ToolsInv, NEW r \in sent
               PROVE  \/ r.by = "driver" /\ ForDriver(r.tag)
                      \/ r.by # "driver" /\ ~ForDriver(r.tag)
                      \/ r.by = "aoeping" /\ ping.start[1] % Top = Top - 1 /\ ping.start[2] >= Half - 2
    BY ZenonT(30) DEF DriverDeaf
  <2>0. StartInv /\ Sender(r, ping.start, cfg.tag)
    BY ZenonT(30) DEF ToolsInv, SentInv
  <2>1. CASE r.by = "driver" /\ ForDriver(r.tag)
    BY <2>1
  <2>2. CASE r.by = "sancheck" /\ r.tag \in ProbeTags
    <3>1. PICK i \in Nat, n \in Nat : r.tag = ProbeTag(i, n)
      <4>1. NSect \in Nat /\ Cardinality(Node) \in Nat
        BY ToolsAssumption, NodesFinite
      <4> QED
        BY <2>2, <4>1 DEF ProbeTags
    <3> QED
      BY ZenonT(30), <2>2, <3>1, UserTags
  <2>3. CASE r.by = "aoeping" /\ \E k \in 1..3 : r.tag = PingTag(ping.start, k - 1)
    <3>1. PICK k \in 1..3 : r.tag = PingTag(ping.start, k - 1)
      BY <2>3
    <3>2. ping.start \in Tag /\ k - 1 \in 0..2 /\ ping.start[2] \in Int
      BY <2>0, WordsNat DEF StartInv, Tag
    <3>3. ForDriver(r.tag) => ping.start[1] % Top = Top - 1 /\ ping.start[2] >= Half - (k - 1)
      BY ZenonT(30), <3>1, <3>2, UserTags
    <3>4. ping.start[2] >= Half - (k - 1) => ping.start[2] >= Half - 2
      BY <3>2, WordsNat
    <3> QED
      BY ZenonT(30), <2>3, <3>3, <3>4
  <2>4. CASE r.by = "aoecfg" /\ r.tag = cfg.tag
    <3>1. PICK u \in Usec : cfg.tag = CfgTag(u)
      BY <2>0 DEF StartInv
    <3>2. u \in Nat
      BY ZenonT(30), UsecNat
    <3> QED
      BY ZenonT(30), <2>4, <3>1, <3>2, UserTags
  <2> QED
    BY ZenonT(30), <2>0, <2>1, <2>2, <2>3, <2>4 DEF Sender
<1> QED
  BY <1>1, <1>2, ToolsStep, PTL DEF Spec
=============================================================================
