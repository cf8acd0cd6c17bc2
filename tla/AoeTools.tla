------------------------------ MODULE AoeTools ------------------------------
(***************************************************************************)
(* The programs of aoetools that speak AoE themselves, on one host and at  *)
(* the same time: aoe-sancheck, with a thread per network interface,       *)
(* aoeping and aoecfg.  Each has raw sockets, so it sees the answers to    *)
(* the commands of the others, and recognises its own by tag and address.  *)
(* The threads of aoe-sancheck share a counter and the sorted list of the  *)
(* targets without a lock; every access to them is a step here.            *)
(*                                                                         *)
(* The network may lose, delay, duplicate and reorder answers.             *)
(*                                                                         *)
(* Abstractions.  A target is a number (its shelf and slot in their order) *)
(* with one address per interface, so a path is an interface and a target. *)
(* What is printed is left out, and so are answers that report errors.     *)
(* The tests of inserttarg on the head of the list read it once, as the    *)
(* build with the flags of the Makefile does.                              *)
(***************************************************************************)
EXTENDS AoeTag, Sequences, FiniteSets

CONSTANTS
    Eth,        \* network interfaces, and so threads of aoe-sancheck
    Target,     \* targets
    NSect,      \* sectors that a frame of an interface can carry
    PingEth, PingTarget,    \* where aoeping and aoecfg look
    Setup       \* how things may start: [sees: the targets that answer on an
                \* interface, start: the first tag of aoeping, want: its last
                \* stage, or "none" if it does not run, usec: the microseconds at
                \* which aoecfg starts, ask: "one" device, "all", or "none",
                \* drv: lasttag and jiffies of commands of the driver]

ASSUME ToolsAssumption ==
    /\ IsFiniteSet(Eth) /\ Eth # {}
    /\ IsFiniteSet(Target) /\ Target \subseteq Nat \ {0}
    /\ NSect \in 0..255
    /\ PingEth \in Eth /\ PingTarget \in Target
    /\ Setup \subseteq [sees : [Eth -> SUBSET Target],
                        start : Tag, want : {"none", "find", "ident", "smart"},
                        usec : Usec, ask : {"none", "one", "all"},
                        drv : SUBSET (Nat \X Nat)]

Node == Eth \X Target   \* the list elements, by the thread that made them
Nil == <<>>
Key(n) == n[2]

VARIABLES
    sees,       \* sees[e]: the targets that answer on e
    sent,       \* commands that were sent, by anyone
    wrong,      \* history: who took an answer that was not for it: the taker,
                \* who had sent the command, and the command
    \* aoe-sancheck
    id,         \* findlun: static int id
    targlist,   \* targlist
    next,       \* next of the list elements
    luns,       \* luns[e]: paths of e, with their id and maxsect
    pc,         \* where the thread of e is
    cur,        \* the target that it works on
    reg,        \* its registers: the id it read, and p and t of inserttarg
    raced,      \* history: two threads were in inserttarg at the same time
    \* aoeping and aoecfg
    ping,       \* aoeping: its options, its stage and whether it has sent
    cfg         \* aoecfg: its tag, whether it asks all, and its state

sanVars == <<id, targlist, next, luns, pc, cur, reg, raced>>
vars == <<sees, sent, wrong, sanVars, ping, cfg>>

Cmd(e, t, k, tag, by) == [e |-> e, t |-> t, kind |-> k, tag |-> tag, by |-> by]

\* Program p takes the answer r.
Takes(p, r, own) == wrong' = IF own THEN wrong ELSE wrong \cup {<<p, r.by, r.kind>>}

Init ==
    /\ wrong = {}
    /\ id = 0 /\ targlist = Nil /\ next = [n \in Node |-> Nil]
    /\ luns = [e \in Eth |-> [t \in {} |-> 0]]
    /\ pc = [e \in Eth |-> "discover"]
    /\ cur = [e \in Eth |-> 0]
    /\ reg = [e \in Eth |-> [id |-> 0, p |-> Nil, t |-> Nil]]
    /\ raced = FALSE
    /\ \E s \in Setup :
          /\ sees = s.sees
          /\ sent = {Cmd(PingEth, PingTarget, "identify", NewTag(x[1], x[2]), "driver") :
                        x \in s.drv}
          /\ ping = [start |-> s.start, want |-> s.want, out |-> FALSE,
                     stage |-> IF s.want = "none" THEN "ok" ELSE "find"]
          /\ cfg = [tag |-> CfgTag(s.usec), all |-> s.ask = "all",
                    st |-> IF s.ask = "none" THEN "done" ELSE "new"]

----------------------------------------------------------------------------
(* aoe-sancheck: jcheck, jinput, findlun, inserttarg, jprobe               *)

Goto(e, l) == pc' = [pc EXCEPT ![e] = l]
At(e, l) == pc[e] = l
Inserting(e) ==
    pc[e] \in {"head", "sethead", "first", "walk", "append", "link", "linknext"}
Enter(e) == raced' = (raced \/ \E o \in Eth \ {e} : Inserting(o))

\* discover: a broadcast query, which every target on e may answer.
JDiscover(e) ==
    /\ At(e, "discover") /\ Goto(e, "poll")
    /\ sent' = sent \cup {Cmd(e, t, "config", DiscoverTag, "sancheck") : t \in sees[e]}
    /\ UNCHANGED <<sees, wrong, id, targlist, next, luns, cur, reg, raced, ping, cfg>>

\* jinput, the answer r to a query, whoever has asked: a path that is new is set
\* up and probed.
JConfig(e, r) ==
    /\ At(e, "poll") /\ r.e = e /\ r.kind = "config" /\ r.tag[1] >= Top
    /\ r.t \notin DOMAIN luns[e]
    /\ cur' = [cur EXCEPT ![e] = r.t] /\ Goto(e, "readid")
    /\ Takes("sancheck", r, r.by = "sancheck")
    /\ UNCHANGED <<sees, sent, id, targlist, next, luns, reg, raced, ping, cfg>>

\* jinput, the answer to an ATA command: of a known path, and with its id.
SameIdAny(lun, tag) == TRUE
SameId(lun, tag) == tag[1] = PathNr(lun.id)

JAta(e, r) ==
    /\ At(e, "poll") /\ r.e = e /\ r.kind \in {"identify", "smart"} /\ r.tag[1] >= Top
    /\ r.t \in DOMAIN luns[e] /\ SameId(luns[e][r.t], r.tag)
    /\ luns' = [luns EXCEPT ![e][r.t].maxsect =
                    IF r.tag[2] % 256 > @ THEN r.tag[2] % 256 ELSE @]
    /\ Takes("sancheck", r, r.by = "sancheck")
    /\ UNCHANGED <<sees, sent, id, targlist, next, pc, cur, reg, raced, ping, cfg>>

\* findlun: id++ reads, then writes.
ReadId(e) ==
    /\ At(e, "readid") /\ Goto(e, "writeid")
    /\ reg' = [reg EXCEPT ![e].id = id]
    /\ UNCHANGED <<sees, sent, wrong, id, targlist, next, luns, cur, raced, ping, cfg>>

WriteId(e) ==
    /\ At(e, "writeid") /\ Goto(e, "head")
    /\ id' = reg[e].id + 1
    /\ Enter(e)
    /\ UNCHANGED <<sees, sent, wrong, targlist, next, luns, cur, reg, ping, cfg>>

\* inserttarg: at the head of the list, and on from it.
ThisNode(e) == <<e, cur[e]>>

Head0(e) ==
    /\ At(e, "head")
    /\ \/ /\ targlist = Nil
          /\ Goto(e, "sethead") /\ UNCHANGED <<next, reg>>
       \/ /\ targlist # Nil /\ cur[e] < Key(targlist)
          /\ next' = [next EXCEPT ![ThisNode(e)] = targlist]
          /\ Goto(e, "sethead") /\ UNCHANGED reg
       \/ /\ targlist # Nil /\ cur[e] = Key(targlist)
          /\ Goto(e, "probe") /\ UNCHANGED <<next, reg>>
       \/ /\ targlist # Nil /\ cur[e] > Key(targlist)
          /\ reg' = [reg EXCEPT ![e].p = targlist]
          /\ Goto(e, "first") /\ UNCHANGED next
    /\ UNCHANGED <<sees, sent, wrong, id, targlist, luns, cur, raced, ping, cfg>>

SetHead(e) ==
    /\ At(e, "sethead") /\ Goto(e, "probe")
    /\ targlist' = ThisNode(e)
    /\ UNCHANGED <<sees, sent, wrong, id, next, luns, cur, reg, raced, ping, cfg>>

First(e) ==
    /\ At(e, "first") /\ Goto(e, "walk")
    /\ reg' = [reg EXCEPT ![e].t = next[reg[e].p]]
    /\ UNCHANGED <<sees, sent, wrong, id, targlist, next, luns, cur, raced, ping, cfg>>

WalkTwice(e) ==
    /\ At(e, "walk")
    /\ \/ /\ reg[e].t = Nil /\ Goto(e, "append") /\ UNCHANGED reg
       \/ /\ reg[e].t # Nil /\ cur[e] <= Key(reg[e].t)
          /\ Goto(e, "link") /\ UNCHANGED reg
       \/ /\ reg[e].t # Nil /\ cur[e] > Key(reg[e].t)
          /\ reg' = [reg EXCEPT ![e].p = reg[e].t, ![e].t = next[reg[e].t]]
          /\ UNCHANGED pc
    /\ UNCHANGED <<sees, sent, wrong, id, targlist, next, luns, cur, raced, ping, cfg>>
Walk(e) ==
    /\ At(e, "walk")
    /\ \/ /\ reg[e].t = Nil /\ Goto(e, "append") /\ UNCHANGED reg
       \/ /\ reg[e].t # Nil /\ cur[e] = Key(reg[e].t)
          /\ Goto(e, "probe") /\ UNCHANGED reg
       \/ /\ reg[e].t # Nil /\ cur[e] < Key(reg[e].t)
          /\ Goto(e, "link") /\ UNCHANGED reg
       \/ /\ reg[e].t # Nil /\ cur[e] > Key(reg[e].t)
          /\ reg' = [reg EXCEPT ![e].p = reg[e].t, ![e].t = next[reg[e].t]]
          /\ UNCHANGED pc
    /\ UNCHANGED <<sees, sent, wrong, id, targlist, next, luns, cur, raced, ping, cfg>>

\* p->next = nt, and in the middle of the list nt->next = t after it.
Link(e) ==
    /\ At(e, "link") \/ At(e, "append")
    /\ next' = [next EXCEPT ![reg[e].p] = ThisNode(e)]
    /\ Goto(e, IF At(e, "link") THEN "linknext" ELSE "probe")
    /\ UNCHANGED <<sees, sent, wrong, id, targlist, luns, cur, reg, raced, ping, cfg>>

LinkNext(e) ==
    /\ At(e, "linknext") /\ Goto(e, "probe")
    /\ next' = [next EXCEPT ![ThisNode(e)] = reg[e].t]
    /\ UNCHANGED <<sees, sent, wrong, id, targlist, luns, cur, reg, raced, ping, cfg>>

\* The path is entered in luns, and jprobe sends an identify command in frames
\* of every size.
Probe(e) ==
    /\ At(e, "probe") /\ Goto(e, "poll")
    /\ luns' = [luns EXCEPT ![e] = [t \in DOMAIN luns[e] \cup {cur[e]} |->
                    IF t = cur[e] THEN [id |-> reg[e].id, maxsect |-> 0] ELSE luns[e][t]]]
    /\ sent' = sent \cup {Cmd(e, cur[e], "identify", ProbeTag(reg[e].id, n), "sancheck") :
                              n \in 1..NSect}
    /\ reg' = [reg EXCEPT ![e] = [id |-> 0, p |-> Nil, t |-> Nil]]
    /\ cur' = [cur EXCEPT ![e] = 0]
    /\ UNCHANGED <<sees, wrong, id, targlist, next, raced, ping, cfg>>

\* Nothing useful has come for waitsecs.
Quiet(e) ==
    /\ At(e, "poll") /\ Goto(e, "done")
    /\ UNCHANGED <<sees, sent, wrong, id, targlist, next, luns, cur, reg, raced, ping, cfg>>

Sancheck(e) ==
    \/ JDiscover(e) \/ ReadId(e) \/ WriteId(e) \/ Head0(e) \/ SetHead(e)
    \/ First(e) \/ Walk(e) \/ Link(e) \/ LinkNext(e) \/ Probe(e) \/ Quiet(e)
    \/ \E r \in sent : JConfig(e, r) \/ JAta(e, r)

----------------------------------------------------------------------------
(* aoeping                                                                 *)

Stages == <<"find", "ident", "smart">>
StageNr == CHOOSE k \in 1..3 : Stages[k] = ping.stage
StageKind == <<"config", "identify", "smart">>[StageNr]
StageTag == PingTag(ping.start, StageNr - 1)
PingRuns == ping.stage \in {"find", "ident", "smart"}

\* find_blade, disk_identify, smart: the command is sent, after alarm.
PingSend ==
    /\ PingRuns /\ ~ping.out
    /\ ping' = [ping EXCEPT !.out = TRUE]
    /\ sent' = sent \cup {Cmd(PingEth, PingTarget, StageKind, StageTag, "aoeping")}
    /\ UNCHANGED <<sees, wrong, sanVars, cfg>>

\* What follows an answer: the next stage that the options ask for, or the end.
\* The target may be found not to support SMART.
After ==
    CASE ping.stage = "find" /\ ping.want = "find" -> {"ok"}
      [] ping.stage = "find" /\ ping.want # "find" -> {"ident"}
      [] ping.stage = "ident" /\ ping.want = "ident" -> {"ok"}
      [] ping.stage = "ident" /\ ping.want = "smart" -> {"smart", "failed"}
      [] ping.stage = "smart" -> {"ok"}

\* aoe_pkt_read and the loop of find_blade: an answer of the device with the
\* tag, whatever its command.
PingAccept(r) ==
    /\ PingRuns /\ ping.out
    /\ r.e = PingEth /\ r.t = PingTarget /\ r.tag = StageTag
    /\ \E s \in After : ping' = [ping EXCEPT !.stage = s, !.out = FALSE]
    /\ Takes("aoeping", r, r.by = "aoeping" /\ r.kind = StageKind)
    /\ UNCHANGED <<sees, sent, sanVars, cfg>>

\* SIGALRM ends the program, if there is a timeout.
PingAlarm ==
    /\ PingRuns /\ ping.out
    /\ ping' = [ping EXCEPT !.stage = "failed", !.out = FALSE]
    /\ UNCHANGED <<sees, sent, wrong, sanVars, cfg>>

----------------------------------------------------------------------------
(* aoecfg                                                                  *)

\* cfgquery: one device is asked, or all.
CfgQuery ==
    /\ cfg.st = "new" /\ cfg' = [cfg EXCEPT !.st = "out"]
    /\ sent' = sent \cup {Cmd(PingEth, t, "config", cfg.tag, "aoecfg") :
                              t \in IF cfg.all THEN sees[PingEth] ELSE {PingTarget}}
    /\ UNCHANGED <<sees, wrong, sanVars, ping>>

\* An answer with the tag is shown; if one device was asked, that is all.
CfgAccept(r) ==
    /\ cfg.st = "out"
    /\ r.e = PingEth /\ r.tag = cfg.tag /\ (~cfg.all => r.t = PingTarget)
    /\ cfg' = [cfg EXCEPT !.st = IF cfg.all THEN "out" ELSE "done"]
    /\ Takes("aoecfg", r, r.by = "aoecfg")
    /\ UNCHANGED <<sees, sent, sanVars, ping>>

\* readto: the timeout ends the program.
CfgTimeout ==
    /\ cfg.st = "out" /\ cfg' = [cfg EXCEPT !.st = "done"]
    /\ UNCHANGED <<sees, sent, wrong, sanVars, ping>>

Next ==
    \/ \E e \in Eth : Sancheck(e)
    \/ PingSend \/ (\E r \in sent : PingAccept(r)) \/ PingAlarm
    \/ CfgQuery \/ (\E r \in sent : CfgAccept(r)) \/ CfgTimeout

Spec == Init /\ [][Next]_vars

----------------------------------------------------------------------------
(* Correctness.                                                            *)

\* S is the list: its head, and what follows an element of it.
IsList(S) ==
    /\ targlist = Nil <=> S = {}
    /\ \A n \in S : next[n] = Nil \/ next[n] \in S
    /\ targlist \in S \cup {Nil}
    /\ \A n \in S : n = targlist \/ \E m \in S : next[m] = n

\* The list that aoe-sancheck prints goes on with a greater target from every
\* element, even when threads insert into it at the same time: so it is sorted,
\* ends, and has no target twice.  If no two threads were in inserttarg at the
\* same time, it has each target that a thread has found.
ListRight ==
    /\ \A n \in Node : next[n] = Nil \/ Key(n) < Key(next[n])
    /\ ~raced /\ (\A e \in Eth : ~Inserting(e)) =>
          \E S \in SUBSET Node :
             /\ IsList(S)
             /\ \A e \in Eth : DOMAIN luns[e] \subseteq {Key(n) : n \in S}

\* The tags that aoeping uses, and the ones of aoe-sancheck, its query included.
PingUses == {PingTag(ping.start, k) : k \in 0..2}
ProbeTags == {ProbeTag(i, n) : i \in 0..(Cardinality(Node) - 1), n \in 0..NSect}

\* How p can come to take the answer to a command of another.  aoe-sancheck looks
\* at no more than the top bit of the tag of a config answer, so that it finds its
\* paths by the queries of the others too, and at the first half of the tag of an
\* ATA answer; aoeping and aoecfg compare the whole tag.
MayTake(p, by, kind) ==
    \/ p = "sancheck" /\ kind = "config" /\ by \in {"aoeping", "aoecfg"}
    \/ p = "sancheck" /\ kind # "config" /\ by = "aoeping"
       /\ \E t \in PingUses, s \in ProbeTags : t[1] = s[1]
    \/ p = "aoeping" /\ by = "sancheck" /\ \E t \in PingUses : t \in ProbeTags
    \/ p = "aoecfg" /\ by = "sancheck" /\ cfg.tag \in ProbeTags
    \/ <<p, by>> \in {<<"aoeping", "aoecfg">>, <<"aoecfg", "aoeping">>} /\ cfg.tag \in PingUses
    \/ p = "aoeping" /\ by = "driver" /\ \E t \in PingUses : ForDriver(t)

\* A program takes the answer to a command of another one only in these ways:
\* aoe-sancheck the answers to the others' config queries, and otherwise two of
\* which the tags meet as far as the taker compares them.  No program takes one of
\* the driver, unless aoeping has left the tags of user programs, and aoeping takes
\* none that belongs to an earlier stage of its own.
\* (aoeping looks neither at the command of an answer nor at its direction,
\* and all three may run on the same device.)
OwnAnswers == \A w \in wrong : MayTake(w[1], w[2], w[3])

\* The driver takes the answers to its own commands, and never the answer to a
\* command of one of these programs, unless aoeping was told to start within two
\* of the last tag.
DriverDeaf ==
    \A r \in sent :
        \/ r.by = "driver" /\ ForDriver(r.tag)
        \/ r.by # "driver" /\ ~ForDriver(r.tag)
        \/ r.by = "aoeping" /\ ping.start[1] % Top = Top - 1 /\ ping.start[2] >= Half - 2
=============================================================================
