--------------------------- MODULE AoeFlowProofs ---------------------------
(***************************************************************************)
(* Flow control for any number of frames, any buffer counts, and any       *)
(* scales and word for which a round trip fits: the averages never leave   *)
(* their words, the window fits what was announced, and it grows in time.  *)
(***************************************************************************)
EXTENDS AoeFlow, FiniteSetTheorems, TLAPS

USE SMTT(60), Z3T(60), ZenonT(30)

----------------------------------------------------------------------------
(* Arithmetic.                                                             *)

\* Division leaves a rest below the divisor.
LEMMA DivRest ==
    ASSUME NEW a \in Nat \ {0}, NEW x \in Nat
    PROVE  /\ x \div a \in Nat
           /\ a * (x \div a) <= x
           /\ x < a * (x \div a) + a
<1> DEFINE q == x \div a
<1>1. q \in Int /\ x = a * q + (x % a) /\ x % a \in 0..(a - 1)
  OBVIOUS
<1>2. q >= 0
  <2>1. SUFFICES ASSUME q <= -1 PROVE FALSE
    BY <1>1
  <2>2. a * q <= -a
    BY <2>1, <1>1
  <2> QED
    BY <2>2, <1>1
<1> QED
  BY <1>1, <1>2

\* A product grows with its second factor.
LEMMA TimesMonotone ==
    ASSUME NEW a \in Nat, NEW x \in Int, NEW y \in Int, x <= y
    PROVE  a * x <= a * y
OBVIOUS

\* A quotient is below a bound when the dividend is below the bound times the
\* divisor.
LEMMA DivBound ==
    ASSUME NEW a \in Nat \ {0}, NEW x \in Nat, NEW k \in Nat, x < a * k
    PROVE  x \div a \in 0..(k - 1)
<1> DEFINE q == x \div a
<1>1. q \in Nat /\ a * q <= x
  BY DivRest
<1>2. q < k
  <2>1. SUFFICES ASSUME k <= q PROVE FALSE
    BY <1>1
  <2>2. a * k <= a * q
    BY <2>1, <1>1, TimesMonotone
  <2>3. a * q \in Int /\ a * k \in Int
    BY <1>1
  <2> QED
    BY <2>2, <2>3, <1>1
<1> QED
  BY <1>1, <1>2

\* A scaled average stays within its bound when it moves towards a sample that
\* is within it.
LEMMA AverageBound ==
    ASSUME NEW a \in Nat \ {0}, NEW m \in Nat \ {0},
           NEW x \in 0..(a * m - 1), NEW s \in 0..(m - 1)
    PROVE  /\ x \div a \in 0..(m - 1)
           /\ x + (s - x \div a) \in 0..(a * m - 1)
<1> DEFINE q == x \div a
<1>0. a * m \in Int /\ x \in Nat /\ x < a * m
  OBVIOUS
<1>1. q \in 0..(m - 1)
  BY <1>0, DivBound
<1>2. a * q \in Int /\ a * q <= x /\ x <= a * q + (a - 1)
  BY <1>0, DivRest
<1> HIDE DEF q
<1>3. x + (s - q) >= 0
  <2>1. q <= a * q
    BY <1>1
  <2> QED
    BY <2>1, <1>1, <1>2
<1>4. x + (s - q) <= a * m - 1
  <2>1. (a - 1) * q <= (a - 1) * (m - 1)
    BY <1>1, TimesMonotone
  <2>2. (a - 1) * q = a * q - q /\ (a - 1) * (m - 1) = a * m - a - m + 1
    BY <1>1
  <2> QED
    BY <2>1, <2>2, <1>0, <1>1, <1>2
<1> QED
  BY <1>0, <1>1, <1>3, <1>4 DEF q

----------------------------------------------------------------------------
(* The invariant.                                                          *)

\* The averages are within what a sample of MaxRtt + 1 ticks can make of them.
AvgBound == AvgScale * (MaxRtt + 2)
DevBound == DevScale * (MaxRtt + 2)

RttInv == rttavg \in 0..(AvgBound - 1) /\ rttdev \in 0..(DevBound - 1)

\* The countdown next_cwnd leaves room for what is counted in fullans.
WinInv ==
    /\ nframes \in 0..AoeMaxout /\ ssthresh \in 0..AoeMaxout
    /\ maxout \in 0..AoeMaxout /\ next_cwnd \in 0..AoeMaxout
    /\ fullans \in Nat
    /\ fullans + next_cwnd <= AoeMaxout
    /\ maxout <= 1 \/ maxout <= nframes

FrameType ==
    /\ st \in [Frame -> {"free", "active", "rexmitq"}] /\ age \in [Frame -> 0..Old]
    /\ late \subseteq 0..MaxRtt /\ steady \in BOOLEAN

\* nout counts the active frames, and nothing is out when the window is closed.
OutInv ==
    /\ nout = Cardinality(On("active"))
    /\ maxout = 0 => \A f \in Frame : st[f] = "free"

FrameInv == FrameType /\ OutInv

FlowInv == RttInv /\ WinInv /\ FrameInv

\* The bounds are integers that fit the word.
LEMMA Bounds ==
    /\ AvgBound \in Nat /\ DevBound \in Nat /\ Word \in Nat
    /\ 2 * AvgBound <= Word /\ 8 * DevBound <= Word
    /\ AvgInit \in 0..(AvgBound - 1) /\ DevInit \in 0..(DevBound - 1)
    /\ AvgBound > 0 /\ DevBound > 0
<1>1. AvgBound \in Nat /\ DevBound \in Nat /\ AvgBound > 0 /\ DevBound > 0
  BY FlowAssumption DEF AvgBound, DevBound
<1>2. 2 * AvgScale * (MaxRtt + 2) = 2 * AvgBound /\ 8 * DevScale * (MaxRtt + 2) = 8 * DevBound
  BY FlowAssumption DEF AvgBound, DevBound
<1> QED
  BY <1>1, <1>2, FlowAssumption DEF AvgBound, DevBound

\* A sample leaves the averages within their bounds (calc_rttavg).
LEMMA SampleBound ==
    ASSUME RttInv, NEW rtt \in 0..(MaxRtt + 1), Sample(rtt)
    PROVE  RttInv'
<1> DEFINE q == rttavg \div AvgScale
           e == Abs(rtt - q)
<1>0. MaxRtt \in Nat /\ AvgScale \in Nat \ {0} /\ DevScale \in Nat \ {0}
  BY FlowAssumption
<1>1. q \in 0..(MaxRtt + 1) /\ rttavg + (rtt - q) \in 0..(AvgBound - 1)
  <2>1. /\ MaxRtt + 2 \in Nat \ {0} /\ rtt \in 0..((MaxRtt + 2) - 1)
        /\ rttavg \in 0..(AvgScale * (MaxRtt + 2) - 1)
    BY <1>0 DEF RttInv, AvgBound
  <2>2. /\ q \in 0..((MaxRtt + 2) - 1)
        /\ rttavg + (rtt - q) \in 0..(AvgScale * (MaxRtt + 2) - 1)
    BY ZenonT(30), <1>0, <2>1, AverageBound
  <2> QED
    BY <1>0, <2>2 DEF AvgBound
<1> HIDE DEF q
<1>2. e \in 0..(MaxRtt + 1)
  BY <1>0, <1>1 DEF Abs
<1> HIDE DEF e
<1>3. rttdev + (e - rttdev \div DevScale) \in 0..(DevBound - 1)
  BY <1>0, <1>2, AverageBound DEF RttInv, DevBound
<1>4. rttavg' = (rttavg + (rtt - q)) % Word
  BY DEF Sample, NewAvg, q
<1>5. rttdev' = (rttdev + (e - rttdev \div DevScale)) % Word
  BY DEF Sample, NewDev, q, e
<1>6. \A y \in Nat : y < Word => y % Word = y
  BY Bounds
<1> QED
  BY <1>1, <1>3, <1>4, <1>5, <1>6, Bounds DEF RttInv

\* The invariant holds of a target that has just been added.
LEMMA InitFlow == Init => FlowInv
<1> SUFFICES ASSUME Init PROVE FlowInv
  OBVIOUS
<1>1. RttInv
  BY Bounds DEF Init, RttInv
<1>2. WinInv
  <2>1. nframes \in 0..AoeMaxout
    BY FlowAssumption DEF Init, Capped
  <2> QED
    BY <2>1, FlowAssumption DEF Init, WinInv
<1>3. FrameType
  <2>1. 0 \in 0..Old
    BY FlowAssumption DEF Old
  <2> QED
    BY ZenonT(30), <2>1 DEF Init, FrameType
<1>4. OutInv
  <2>1. On("active") = {}
    BY DEF Init, On
  <2> QED
    BY <2>1, FS_EmptySet DEF Init, OutInv
<1> QED
  BY <1>1, <1>2, <1>3, <1>4 DEF FlowInv, FrameInv

\* A step keeps the averages within their bounds.
LEMMA RttStep ==
    ASSUME FlowInv, [Next]_vars
    PROVE  RttInv'
<1>0. RttInv /\ MaxRtt \in Nat
  BY FlowAssumption DEF FlowInv
<1>1. CASE UNCHANGED rttVars
  BY <1>0, <1>1 DEF RttInv, rttVars
<1>2. CASE rttavg' = AvgInit /\ rttdev' = DevInit
  BY <1>2, Bounds DEF RttInv
<1>3. ASSUME NEW f \in Frame, AtaRsp(f)
      PROVE  RttInv'
  <2>1. age[f] \in 0..(MaxRtt + 1) /\ Sample(age[f])
    BY <1>0, <1>3 DEF FlowInv, FrameInv, FrameType, AtaRsp, Answers, Old
  <2> QED
    BY <1>0, <2>1, SampleBound
<1>4. ASSUME NEW a \in late, UnexpectedRsp(a)
      PROVE  RttInv'
  <2>1. a + 1 \in 0..(MaxRtt + 1) /\ Sample(a + 1)
    BY <1>0, <1>4 DEF FlowInv, FrameInv, FrameType, UnexpectedRsp, LateSample
  <2> QED
    BY <1>0, <2>1, SampleBound
<1> QED
  BY ZenonT(60), <1>1, <1>2, <1>3, <1>4
  DEF Next, vars, rttVars, Send, Resend, AtaId, RexmitTimer, Downdev, Cleanslate,
      CfgRsp, Tick, BecomeSteady

\* aoecmd_wreset leaves a window of one.
LEMMA WresetWin ==
    ASSUME NEW n \in 0..AoeMaxout, Wreset(n), nframes' = n
    PROVE  WinInv'
BY FlowAssumption DEF Wreset, WinInv

\* A step keeps the window within the buffers of the target, and the countdown
\* below aoe_maxout.
LEMMA WinStep ==
    ASSUME FlowInv, [Next]_vars
    PROVE  WinInv'
<1>0. WinInv /\ AoeMaxout \in Nat \ {0}
  BY FlowAssumption DEF FlowInv
<1>1. CASE UNCHANGED <<winVars, fullans>>
  BY <1>0, <1>1 DEF WinInv, winVars
<1>2. ASSUME Grow, UNCHANGED <<nframes, ssthresh>>
      PROVE  WinInv'
  BY <1>0, <1>2 DEF Grow, WinInv
<1>3. ASSUME NEW f \in Frame, AtaRsp(f)
      PROVE  WinInv'
  BY <1>1, <1>2, <1>3 DEF AtaRsp, winVars
<1>4. CASE RexmitTimer
  BY <1>0, <1>4 DEF RexmitTimer, WinInv
<1>5. CASE Downdev
  BY <1>0, <1>5, WresetWin DEF Downdev, WinInv
<1>6. CASE Cleanslate
  BY <1>0, <1>6, WresetWin DEF Cleanslate, WinInv
<1>7. ASSUME NEW n \in BufCnt, CfgRsp(n)
      PROVE  WinInv'
  <2>1. nframes' \in 0..AoeMaxout
    BY <1>0, <1>7, FlowAssumption DEF CfgRsp, Capped
  <2>2. CASE nframes' < maxout
    BY <1>7, <2>1, <2>2, WresetWin DEF CfgRsp
  <2>3. CASE ~(nframes' < maxout)
    BY <1>0, <1>7, <2>1, <2>3 DEF CfgRsp, WinInv
  <2> QED
    BY <2>2, <2>3
<1> QED
  BY ZenonT(60), <1>1, <1>3, <1>4, <1>5, <1>6, <1>7
  DEF Next, vars, winVars, Send, Resend, AtaId, UnexpectedRsp, Tick, BecomeSteady

\* A step keeps the frames, and the ages of what may still be answered, within
\* their types.
LEMMA FrameTypeStep ==
    ASSUME FrameType, [Next]_vars
    PROVE  FrameType'
<1>0. MaxRtt \in Nat /\ Old = MaxRtt + 1 /\ 0 \in 0..Old
  BY FlowAssumption DEF Old
<1>1. ASSUME NEW f \in Frame, NEW s \in {"free", "active", "rexmitq"},
             st' = [st EXCEPT ![f] = s], age' = [age EXCEPT ![f] = 0],
             late' \subseteq 0..MaxRtt, steady' = steady
      PROVE  FrameType'
  BY ZenonT(30), <1>0, <1>1 DEF FrameType
<1>2. ASSUME NEW f \in Frame, Send(f) \/ AtaId(f) \/ AtaRsp(f)
      PROVE  FrameType'
  BY ZenonT(30), <1>1, <1>2 DEF Send, AtaId, AtaRsp, netVars, FrameType
<1>3. ASSUME NEW f \in Frame, Resend(f)
      PROVE  FrameType'
  <2>0. age[f] \in 0..Old /\ late \subseteq 0..MaxRtt
    BY DEF FrameType
  <2>1. late' \subseteq 0..MaxRtt
    <3>1. age[f] > MaxRtt \/ age[f] \in 0..MaxRtt
      BY <1>0, <2>0
    <3>2. late' = late \/ (~(age[f] > MaxRtt) /\ late' = late \cup {age[f]})
      BY <1>3 DEF Resend
    <3> QED
      BY ZenonT(30), <2>0, <3>1, <3>2
  <2> QED
    BY ZenonT(30), <1>1, <1>3, <2>1 DEF Resend
<1>4. ASSUME NEW a \in late, UnexpectedRsp(a)
      PROVE  FrameType'
  BY ZenonT(30), <1>4 DEF UnexpectedRsp, FrameType
<1>5. CASE RexmitTimer
  BY ZenonT(30), <1>5 DEF RexmitTimer, FrameType, netVars
<1>6. CASE Downdev
  <2>1. late' \subseteq 0..MaxRtt
    <3>1. ASSUME NEW f \in Frame, age[f] <= MaxRtt PROVE age[f] \in 0..MaxRtt
      BY <1>0, <3>1 DEF FrameType
    <3> QED
      BY ZenonT(30), <1>6, <3>1 DEF Downdev, FrameType
  <2> QED
    BY ZenonT(30), <1>0, <1>6, <2>1 DEF Downdev, FrameType
<1>7. CASE Tick
  <2>1. late' \subseteq 0..MaxRtt
    BY <1>0, <1>7 DEF Tick, FrameType
  <2>2. ASSUME NEW f \in Frame
        PROVE  (IF st[f] = "free" \/ age[f] = Old THEN age[f] ELSE age[f] + 1) \in 0..Old
    BY <1>0 DEF FrameType
  <2>3. age' \in [Frame -> 0..Old]
    BY ZenonT(30), <1>7, <2>2 DEF Tick
  <2> QED
    BY <1>7, <2>1, <2>3 DEF Tick, FrameType
<1>8. CASE UNCHANGED <<st, age, late>> /\ steady' \in BOOLEAN
  BY ZenonT(30), <1>8 DEF FrameType
<1> QED
  BY ZenonT(60), <1>2, <1>3, <1>4, <1>5, <1>6, <1>7, <1>8
  DEF Next, vars, netVars, Cleanslate, CfgRsp, BecomeSteady, FrameType

\* A step keeps nout exact, and opens a closed window before anything is sent.
LEMMA OutStep ==
    ASSUME FlowInv, [Next]_vars
    PROVE  OutInv'
<1> DEFINE A == On("active")
<1>0. /\ FrameType /\ OutInv /\ WinInv
      /\ IsFiniteSet(A) /\ Cardinality(A) \in Nat
  BY FlowAssumption, FS_Subset, FS_CardinalityType DEF FlowInv, FrameInv, On
<1>1. nout' = Cardinality(A')
  <2>1. ASSUME NEW f \in Frame, st[f] # "active",
               st' = [st EXCEPT ![f] = "active"], nout' = nout + 1
        PROVE  nout' = Cardinality(A')
    <3>1. A' = A \cup {f} /\ f \notin A
      BY <1>0, <2>1 DEF On, FrameType
    <3> QED
      BY <1>0, <2>1, <3>1, FS_AddElement DEF OutInv
  <2>2. ASSUME NEW f \in Frame, AtaRsp(f)
        PROVE  nout' = Cardinality(A')
    <3>1. CASE st[f] = "active"
      <4>1. A' = A \ {f} /\ f \in A
        BY <1>0, <2>2, <3>1 DEF On, FrameType, AtaRsp
      <4> QED
        BY <1>0, <2>2, <3>1, <4>1, FS_RemoveElement DEF OutInv, AtaRsp
    <3>2. CASE st[f] # "active"
      <4>1. A' = A
        BY <1>0, <2>2, <3>2 DEF On, FrameType, AtaRsp
      <4> QED
        BY <1>0, <2>2, <3>2, <4>1 DEF OutInv, AtaRsp
    <3> QED
      BY <3>1, <3>2
  <2>3. CASE RexmitTimer
    <3> DEFINE E == {f \in On("active") : age[f] >= Rto(rttavg, rttdev)}
    <3>1. A' = A \ E /\ A \cap E = E
      BY <1>0, <2>3 DEF On, FrameType, RexmitTimer
    <3>2. nout' = nout - Cardinality(E)
      BY <2>3 DEF RexmitTimer
    <3> HIDE DEF E
    <3> QED
      <4>1. Cardinality(A \ E) = Cardinality(A) - Cardinality(A \cap E)
        BY ZenonT(30), <1>0, FS_Difference
      <4>2. nout = Cardinality(A)
        BY <1>0 DEF OutInv
      <4> HIDE DEF A
      <4> QED
        BY ZenonT(30), <3>1, <3>2, <4>1, <4>2
  <2>4. CASE Downdev
    <3>1. A' = {}
      BY <2>4 DEF Downdev, On
    <3> QED
      BY <2>4, <3>1, FS_EmptySet DEF Downdev
  <2>5. CASE UNCHANGED <<st, nout>>
    BY <1>0, <2>5 DEF OutInv, On
  <2> QED
    BY ZenonT(60), <2>1, <2>2, <2>3, <2>4, <2>5
    DEF Next, vars, Send, Resend, AtaId, UnexpectedRsp, Cleanslate, CfgRsp, Tick,
        BecomeSteady
<1>2. ASSUME maxout' = 0 PROVE \A f \in Frame : st'[f] = "free"
  <2>1. maxout \in Nat /\ nout \in Nat
    BY <1>0 DEF WinInv, OutInv
  <2>2. CASE UNCHANGED <<st, maxout>>
    BY <1>0, <1>2, <2>2 DEF OutInv
  <2>3. ASSUME NEW f \in Frame, Send(f) \/ Resend(f) \/ AtaId(f)
        PROVE  FALSE
    BY <1>2, <2>1, <2>3 DEF Send, Resend, AtaId, Room, winVars
  <2>4. ASSUME NEW f \in Frame, AtaRsp(f)
        PROVE  FALSE
    <3>1. maxout = 0
      BY <1>2, <2>1, <2>4 DEF AtaRsp, Grow
    <3> QED
      BY <1>0, <2>4, <3>1 DEF AtaRsp, OutInv
  <2>5. ASSUME RexmitTimer \/ Downdev \/ Cleanslate
        PROVE  FALSE
    BY <1>2, <2>5 DEF RexmitTimer, Downdev, Cleanslate, Wreset
  <2>6. ASSUME NEW n \in BufCnt, CfgRsp(n)
        PROVE  UNCHANGED <<st, maxout>>
    BY <1>2, <2>6 DEF CfgRsp, Wreset
  <2> QED
    BY ZenonT(60), <2>2, <2>3, <2>4, <2>5, <2>6
    DEF Next, vars, winVars, UnexpectedRsp, Tick, BecomeSteady
<1> QED
  BY <1>1, <1>2 DEF OutInv

\* The invariant is inductive.
LEMMA FlowStep ==
    ASSUME FlowInv, [Next]_vars
    PROVE  FlowInv'
BY RttStep, WinStep, FrameTypeStep, OutStep DEF FlowInv, FrameInv

\* It holds always.
LEMMA FlowInvariant == Spec => []FlowInv
BY InitFlow, FlowStep, PTL DEF Spec

----------------------------------------------------------------------------

\* rto neither wraps nor exceeds ten times the longest round trip, and the
\* averages decode to a round trip time.
LEMMA RttFits == RttInv => RttBounded
<1> SUFFICES ASSUME RttInv PROVE RttBounded
  OBVIOUS
<1> DEFINE m == MaxRtt + 2
<1>0. /\ AvgScale \in Nat \ {0} /\ DevScale \in Nat \ {0} /\ m \in Nat
      /\ 2 * m \in Nat /\ 8 * m \in Nat
  BY FlowAssumption
<1>1. /\ rttavg \in Nat /\ rttavg < AvgScale * m
      /\ rttdev \in Nat /\ rttdev < DevScale * m
  BY <1>0 DEF RttInv, AvgBound, DevBound
<1>2. 2 * rttavg < Word /\ 8 * rttdev < Word /\ Word \in Nat
  BY <1>0, <1>1, Bounds DEF AvgBound, DevBound
<1>3. rttavg \div AvgScale \in 0..(m - 1) /\ rttdev \div DevScale \in 0..(m - 1)
  BY <1>0, <1>1, DivBound
<1>4. 2 * rttavg < AvgScale * (2 * m) /\ 8 * rttdev < DevScale * (8 * m)
  BY <1>0, <1>1
<1>5. /\ (2 * rttavg) \div AvgScale \in 0..(2 * m - 1)
      /\ (8 * rttdev) \div DevScale \in 0..(8 * m - 1)
  <2>1. 2 * rttavg \in Nat /\ 8 * rttdev \in Nat
    BY <1>1
  <2> HIDE DEF m
  <2> QED
    BY ZenonT(30), <1>0, <1>4, <2>1, DivBound
<1>6. (2 * rttavg) % Word = 2 * rttavg /\ (8 * rttdev) % Word = 8 * rttdev
  BY <1>1, <1>2
<1>7. Rto(rttavg, rttdev) \in 1..(2 * m + 8 * m)
  BY <1>0, <1>5, <1>6 DEF Rto
<1>8. rttavg \div AvgScale <= MaxRtt + 1 /\ rttdev \div DevScale <= MaxRtt + 1
  <2>1. m - 1 = MaxRtt + 1
    BY FlowAssumption
  <2> QED
    BY <1>3, <2>1, FlowAssumption
<1> QED
  BY ZenonT(30), <1>2, <1>7, <1>8 DEF RttBounded

\* The fixed point averages of calc_rttavg never leave their words, for any
\* scales, and rto is positive and bounded.
THEOREM RttIsBounded == Spec => []RttBounded
BY FlowInvariant, RttFits, PTL DEF FlowInv

\* The window fits what the target announced last, nout is exact, and a closed
\* window means that nothing was ever sent (aoecmd_wreset, calc_rttavg,
\* rexmit_timer).
THEOREM WindowAlwaysFits == Spec => []WindowFits
<1>1. FlowInv => WindowFits
  BY DEF FlowInv, WinInv, FrameInv, OutInv, WindowFits, On
<1> QED
  BY <1>1, FlowInvariant, PTL

\* A full window is widened after at most aoe_maxout answers (calc_rttavg).
THEOREM WindowGrowsInTime == Spec => []GrowsInTime
<1>1. FlowInv => GrowsInTime
  BY FlowAssumption DEF FlowInv, WinInv, GrowsInTime
<1> QED
  BY <1>1, FlowInvariant, PTL
=============================================================================
