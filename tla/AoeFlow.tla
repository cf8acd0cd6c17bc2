------------------------------ MODULE AoeFlow ------------------------------
(***************************************************************************)
(* Flow control towards one target (aoecmd.c): the averages of the round   *)
(* trip time, the retransmission timeout rto that is computed from them,   *)
(* and the window of a target with slow start and congestion avoidance.    *)
(* Every answer is a sample of the round trip time, even one to a command  *)
(* that was sent again in the meantime; an expired command closes the      *)
(* window.                                                                 *)
(*                                                                         *)
(* Time passes in ticks, and the age of a command is the number of ticks   *)
(* since it was last sent.  The averages are fixed point numbers in 32     *)
(* bits, as in the code; AvgScale, DevScale and Word are parameters so     *)
(* that TLC can be given small ones.                                       *)
(*                                                                         *)
(* The network answers a command within MaxRtt ticks or never.  It may     *)
(* become steady: from then on every answer takes exactly Rtt ticks, and   *)
(* nobody resets the device.                                               *)
(*                                                                         *)
(* Abstractions.  One target; what commands carry is in AoeIo.  A frame is *)
(* free as soon as it is answered.  Sending and sending again, which every *)
(* handler does at its end (aoecmd_work), are steps of their own.  Answers *)
(* to old transmissions of equal age are taken as one.  Probes, which go   *)
(* out whatever the window, are in AoeIo.                                  *)
(***************************************************************************)
EXTENDS Integers, FiniteSets

CONSTANTS
    Frame,      \* frames of the target
    BufCnt,     \* buffer counts that the target announces
    AoeMaxout,  \* aoe_maxout
    AvgScale,   \* 2 ^ RTTSCALE
    DevScale,   \* 2 ^ RTTDSCALE
    AvgInit,    \* RTTAVG_INIT
    DevInit,    \* RTTDEV_INIT
    Word,       \* 2 ^ 32
    MaxRtt,     \* the longest that an answer takes
    Rtt         \* what an answer takes when the network is steady

ASSUME FlowAssumption ==
    /\ IsFiniteSet(Frame)
    /\ BufCnt \subseteq Nat
    /\ AoeMaxout \in Nat \ {0}
    /\ AvgScale \in Nat \ {0} /\ DevScale \in Nat \ {0}
    /\ MaxRtt \in Nat /\ Rtt \in 0..MaxRtt
    /\ AvgInit \in 0..(AvgScale * (MaxRtt + 2) - 1)
    /\ DevInit \in 0..(DevScale * (MaxRtt + 2) - 1)
    /\ Word \in Nat
    /\ 2 * AvgScale * (MaxRtt + 2) <= Word
    /\ 8 * DevScale * (MaxRtt + 2) <= Word

VARIABLES
    rttavg,     \* d->rttavg
    rttdev,     \* d->rttdev
    nframes,    \* t->nframes
    maxout,     \* t->maxout
    ssthresh,   \* t->ssthresh
    next_cwnd,  \* t->next_cwnd
    nout,       \* t->nout
    st,         \* "free", "active" or "rexmitq" (deferred)
    age,        \* ticks since the frame was last sent
    late,       \* ages of earlier transmissions that may still be answered
    steady,     \* answers take Rtt ticks from now on
    fullans     \* history: answers to a full window since it last changed

rttVars == <<rttavg, rttdev>>
winVars == <<nframes, maxout, ssthresh, next_cwnd>>
netVars == <<late, steady>>
vars == <<rttVars, winVars, nout, st, age, netVars, fullans>>

Old == MaxRtt + 1       \* the age of what is not answered any more

On(s) == {f \in Frame : st[f] = s}

\* aoecmd_cfg_rsp: the announced buffer count, within reason.
Capped(n) == IF n > AoeMaxout THEN AoeMaxout ELSE n

\* A target that has just been added (addtgt).
Init ==
    /\ rttavg = AvgInit /\ rttdev = DevInit
    /\ nframes \in {Capped(n) : n \in BufCnt}
    /\ maxout = nframes \div 2
    /\ ssthresh = nframes \div 2 /\ next_cwnd = nframes
    /\ nout = 0 /\ st = [f \in Frame |-> "free"] /\ age = [f \in Frame |-> 0]
    /\ late = {} /\ steady = FALSE /\ fullans = 0

----------------------------------------------------------------------------
(* The averages and the timeout.                                           *)

Abs(n) == IF n < 0 THEN -n ELSE n

\* rto
Rto(avg, dev) ==
    LET t == ((2 * avg) % Word) \div AvgScale + ((8 * dev) % Word) \div DevScale
    IN IF t = 0 THEN 1 ELSE t

\* calc_rttavg: the averages after a sample of rtt ticks.
NewAvgUndecayed(avg, rtt) == (avg + rtt) % Word
NewAvg(avg, rtt) == (avg + (rtt - avg \div AvgScale)) % Word
NewDev(avg, dev, rtt) ==
    (dev + (Abs(rtt - avg \div AvgScale) - dev \div DevScale)) % Word

Sample(rtt) ==
    /\ rttavg' = NewAvg(rttavg, rtt)
    /\ rttdev' = NewDev(rttavg, rttdev, rtt)

\* An answer to a transmission that is known no more is a sample as well.
LateSampleNot(rtt) == UNCHANGED rttVars
LateSample(rtt) == Sample(rtt)

----------------------------------------------------------------------------
(* The window.                                                             *)

\* calc_rttavg with a target: the window grows with every answer below
\* ssthresh, else after next_cwnd answers that found it full.
GrowUncounted ==
    \/ /\ maxout >= nframes \/ nout # maxout
       /\ UNCHANGED <<maxout, next_cwnd, fullans>>
    \/ /\ maxout < nframes /\ nout = maxout
       /\ IF next_cwnd = 0
          THEN maxout' = maxout + 1 /\ next_cwnd' = maxout + 1 /\ fullans' = 0
          ELSE fullans' = fullans + 1 /\ UNCHANGED <<maxout, next_cwnd>>
Grow ==
    \/ /\ maxout >= nframes
       /\ UNCHANGED <<maxout, next_cwnd, fullans>>
    \/ /\ maxout < nframes /\ maxout < ssthresh
       /\ maxout' = maxout + 1 /\ fullans' = 0
       /\ UNCHANGED next_cwnd
    \/ /\ maxout < nframes /\ maxout >= ssthresh
       /\ nout = maxout /\ next_cwnd = 0
       /\ maxout' = maxout + 1 /\ next_cwnd' = maxout + 1 /\ fullans' = 0
    \/ /\ maxout < nframes /\ maxout >= ssthresh
       /\ nout = maxout /\ next_cwnd > 0
       /\ next_cwnd' = next_cwnd - 1 /\ fullans' = fullans + 1
       /\ UNCHANGED maxout
    \/ /\ maxout < nframes /\ maxout >= ssthresh
       /\ nout # maxout
       /\ UNCHANGED <<maxout, next_cwnd, fullans>>

\* aoecmd_wreset
Wreset(n) ==
    /\ maxout' = 1 /\ ssthresh' = n \div 2 /\ next_cwnd' = n
    /\ fullans' = 0

----------------------------------------------------------------------------

\* aoecmd_ata_rw: a new command leaves.
Room == nout < maxout

Send(f) ==
    /\ st[f] = "free" /\ Room
    /\ st' = [st EXCEPT ![f] = "active"]
    /\ age' = [age EXCEPT ![f] = 0]
    /\ nout' = nout + 1
    /\ UNCHANGED <<rttVars, winVars, netVars, fullans>>

\* rexmit_deferred: a deferred command is sent again.  Its earlier transmission
\* may still be answered.
Resend(f) ==
    /\ st[f] = "rexmitq" /\ Room
    /\ st' = [st EXCEPT ![f] = "active"]
    /\ age' = [age EXCEPT ![f] = 0]
    /\ late' = IF age[f] > MaxRtt THEN late ELSE late \cup {age[f]}
    /\ nout' = nout + 1
    /\ UNCHANGED <<rttVars, winVars, steady, fullans>>

\* An answer comes after a ticks.
Answers(a) == a <= MaxRtt /\ (steady => a = Rtt)

\* aoecmd_ata_rsp finds the frame, active or deferred.
AtaRsp(f) ==
    /\ Answers(age[f])
    /\ \/ /\ st[f] = "active"
          /\ Grow
          /\ nout' = nout - 1
       \/ /\ st[f] = "rexmitq"
          /\ UNCHANGED <<maxout, next_cwnd, nout, fullans>>
    /\ Sample(age[f])
    /\ st' = [st EXCEPT ![f] = "free"]
    /\ age' = [age EXCEPT ![f] = 0]
    /\ UNCHANGED <<nframes, ssthresh, netVars>>

\* aoecmd_ata_rsp finds no frame: the age is taken from the tag (tsince), which
\* rounds up.
UnexpectedRsp(a) ==
    /\ a \in late /\ Answers(a)
    /\ LateSample(a + 1)
    /\ late' = late \ {a}
    /\ UNCHANGED <<winVars, nout, st, age, steady, fullans>>

\* rexmit_timer: all commands that have waited for rto are deferred.
RexmitTimer ==
    LET E == {f \in On("active") : age[f] >= Rto(rttavg, rttdev)}
    IN /\ E # {}
       /\ st' = [f \in Frame |-> IF f \in E THEN "rexmitq" ELSE st[f]]
       /\ nout' = nout - Cardinality(E)
       /\ ssthresh' = IF maxout = 1 THEN ssthresh ELSE maxout \div 2
       /\ maxout' = 1
       /\ fullans' = IF maxout = 1 THEN fullans ELSE 0
       /\ UNCHANGED <<rttVars, nframes, next_cwnd, age, netVars>>

\* aoedev_downdev, from the timer for a command that nobody answers, or from a
\* flush.
Downdev ==
    /\ ~steady
    /\ st' = [f \in Frame |-> "free"] /\ age' = [f \in Frame |-> 0]
    /\ nout' = 0
    /\ Wreset(nframes)
    /\ late' = late \cup {age[f] : f \in {g \in Frame : st[g] # "free" /\ age[g] <= MaxRtt}}
    /\ UNCHANGED <<rttVars, nframes, steady>>

\* revalidate: aoecmd_cleanslate.
Cleanslate ==
    /\ ~steady
    /\ rttavg' = AvgInit /\ rttdev' = DevInit
    /\ Wreset(nframes)
    /\ UNCHANGED <<nframes, nout, st, age, netVars>>

\* aoecmd_ata_id: an identify command takes a frame and resets the averages.
AtaId(f) ==
    /\ ~steady
    /\ st[f] = "free" /\ Room
    /\ st' = [st EXCEPT ![f] = "active"]
    /\ age' = [age EXCEPT ![f] = 0]
    /\ nout' = nout + 1
    /\ rttavg' = AvgInit /\ rttdev' = DevInit
    /\ UNCHANGED <<winVars, netVars, fullans>>

\* aoecmd_cfg_rsp: the target announces its buffers again.
CfgRspKeepsWindow(n) ==
    /\ ~steady
    /\ nframes' = Capped(n)
    /\ UNCHANGED <<maxout, ssthresh, next_cwnd, fullans>>
    /\ UNCHANGED <<rttVars, nout, st, age, netVars>>
CfgRsp(n) ==
    /\ ~steady
    /\ nframes' = Capped(n)
    /\ IF nframes' < maxout
       THEN Wreset(nframes')
       ELSE UNCHANGED <<maxout, ssthresh, next_cwnd, fullans>>
    /\ UNCHANGED <<rttVars, nout, st, age, netVars>>

\* Time passes.  In a steady network no answer that is due is passed over.
Tick ==
    /\ steady => Rtt \notin late /\ \A f \in Frame : st[f] # "free" => age[f] # Rtt
    /\ age' = [f \in Frame |-> IF st[f] = "free" \/ age[f] = Old THEN age[f]
                               ELSE age[f] + 1]
    /\ late' = {a + 1 : a \in late \ {MaxRtt}}
    /\ UNCHANGED <<rttVars, winVars, nout, st, steady, fullans>>

BecomeSteady ==
    /\ ~steady /\ steady' = TRUE
    /\ UNCHANGED <<rttVars, winVars, nout, st, age, late, fullans>>

Next ==
    \/ \E f \in Frame : Send(f) \/ Resend(f) \/ AtaRsp(f) \/ AtaId(f)
    \/ \E a \in late : UnexpectedRsp(a)
    \/ RexmitTimer \/ Downdev \/ Cleanslate
    \/ \E n \in BufCnt : CfgRsp(n)
    \/ Tick \/ BecomeSteady

Spec == Init /\ [][Next]_vars

\* Time passes, the timer is re-armed on every tick, what is due is answered,
\* and there is always something to send.
Fairness ==
    /\ WF_vars(Tick) /\ WF_vars(RexmitTimer)
    /\ \A f \in Frame : WF_vars(AtaRsp(f)) /\ WF_vars(Resend(f)) /\ WF_vars(Send(f))
    /\ WF_vars(\E a \in late : UnexpectedRsp(a))

FairSpec == Spec /\ Fairness

----------------------------------------------------------------------------
(* Correctness.                                                            *)

\* Every variable has its type.
TypeOK ==
    /\ rttavg \in 0..(Word - 1) /\ rttdev \in 0..(Word - 1)
    /\ nframes \in 0..AoeMaxout /\ ssthresh \in 0..AoeMaxout
    /\ maxout \in 0..AoeMaxout /\ next_cwnd \in 0..AoeMaxout
    /\ nout \in Nat
    /\ st \in [Frame -> {"free", "active", "rexmitq"}] /\ age \in [Frame -> 0..Old]
    /\ late \subseteq 0..MaxRtt /\ steady \in BOOLEAN /\ fullans \in Nat

\* The scaled averages stay below what their 32 bits can hold, also when rto
\* multiplies them, and they decode to no more than the largest sample; so the
\* timeout is positive and bounded.
RttBounded ==
    /\ 2 * rttavg < Word /\ 8 * rttdev < Word
    /\ rttavg \div AvgScale <= MaxRtt + 1 /\ rttdev \div DevScale <= MaxRtt + 1
    /\ Rto(rttavg, rttdev) \in 1..(2 * (MaxRtt + 2) + 8 * (MaxRtt + 2))

\* The window is within what the target announced last, or one, and it is
\* closed only for a target that was never sent anything (addtgt halves a
\* buffer count of one to zero); nout counts the commands that are out.
WindowFits ==
    /\ maxout <= 1 \/ maxout <= nframes
    /\ maxout = 0 => On("free") = Frame
    /\ nout = Cardinality(On("active"))

\* A target whose window is full gets a wider one after aoe_maxout answers, if
\* it may have it, however the buffer count, the window and the slow start
\* threshold were changed before.
GrowsInTime == fullans <= AoeMaxout

\* In a steady network the timeout adapts: from some time on no command expires
\* before its answer is due, although it starts from other round trip times and
\* answers to commands sent again find no frame.
RtoAdapts == <>[](steady => \A f \in On("active") :
                                age[f] < Rtt => age[f] < Rto(rttavg, rttdev))
=============================================================================
