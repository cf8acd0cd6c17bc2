--------------------------- MODULE AoeKtioProofs ---------------------------
(***************************************************************************)
(* The threads that complete I/O, for any number of CPUs, frames and       *)
(* softirqs and any aoe_maxioc: a frame is completed once, no wake-up of a *)
(* thread is missed, BUG_ON(id != 0) does not fire, and the unload leaves  *)
(* neither a thread nor a frame behind.                                    *)
(***************************************************************************)
EXTENDS AoeKtio, SequenceTheorems, TLAPS

USE SMTT(60), Z3T(60), ZenonT(30)

----------------------------------------------------------------------------
(* The invariant.                                                          *)

\* The state of a softirq fits what it has in hand, and a thread that works on
\* a frame has one.
Hands ==
    /\ \A s \in Softirq : irq[s].pc = "delegate" <=> irq[s].f # None
    /\ \A k \in Cpu :
         kpc[k] \in {"complete", "active", "spawn", "rendez"} => kf[k] \in Frame

\* The life of a thread.  Only thread 0 spawns, one thread at a time; it waits
\* for it and marks it active.  Only active threads are told to stop.
Life ==
    /\ active[0] /\ kpc[0] \notin {"none", "born"}
    /\ \A k \in Cpu :
         /\ kpc[k] \in {"spawn", "rendez"} => k = 0
         /\ ~active[k] => /\ ~stop[k] /\ kpc[k] # "exited"
                          /\ kpc[k] = "none" \/ (kpc[0] = "rendez" /\ Home[kf[0]] = k)
         /\ active[k] => kpc[k] \notin {"none", "born"}
         /\ kpc[k] \in {"none", "born"} \/ (active[k] /\ kpc[k] # "exited") => rendez[k] = 0
    /\ kpc[0] = "rendez" => ~active[Home[kf[0]]]

\* A queue other than the first has a thread and only frames of its own.
Homes ==
    \A k \in Cpu :
        /\ iocq[k] # <<>> => active[k]
        /\ k # 0 => /\ \A i \in 1..Len(iocq[k]) : Home[iocq[k][i]] = k
                    /\ kpc[k] \in {"complete", "active"} => Home[kf[k]] = k /\ active[k]
        /\ kpc[k] # "BUG_ON"

Sleeps ==
    /\ \A k \in Cpu : kpc[k] = "schedule" => onwaitq[k]
    /\ NoSleepOnWork

\* Where aoecmd_exit is: the threads and queues that it has done.
Unload ==
    /\ exit.pc # "loaded" => \A s \in Softirq : irq[s].pc = "idle"
    /\ exit.pc \in {"stop", "join"} =>
         \A k \in Cpu : k < exit.k => kpc[k] \in {"none", "exited"}
    /\ exit.pc \in {"flush", "unloaded"} => \A k \in Cpu : kpc[k] \in {"none", "exited"}
    /\ exit.pc = "flush" => \A k \in Cpu : k < exit.k => iocq[k] = <<>>
    /\ exit.pc = "unloaded" => \A k \in Cpu : iocq[k] = <<>>

\* What is in a place was answered, and no two places hold the same frame.
Answered ==
    /\ \A s \in Softirq : irq[s].f # None => fstate[irq[s].f] = "answered"
    /\ \A k \in Cpu : \A i \in 1..Len(iocq[k]) : fstate[iocq[k][i]] = "answered"
    /\ \A k \in Cpu : kpc[k] = "complete" => fstate[kf[k]] = "answered"
AloneInIrq ==
    /\ \A s, u \in Softirq : irq[s].f # None /\ irq[s].f = irq[u].f => s = u
    /\ \A s \in Softirq, k \in Cpu : kpc[k] = "complete" => irq[s].f # kf[k]
AloneInHand ==
    \A k, l \in Cpu : kpc[k] = "complete" /\ kpc[l] = "complete" /\ kf[k] = kf[l] => k = l
AloneInQueue ==
    /\ \A k, l \in Cpu : \A i \in 1..Len(iocq[k]), j \in 1..Len(iocq[l]) :
         iocq[k][i] = iocq[l][j] => k = l /\ i = j
    /\ \A s \in Softirq, k \in Cpu : \A i \in 1..Len(iocq[k]) : irq[s].f # iocq[k][i]
    /\ \A k, l \in Cpu : \A i \in 1..Len(iocq[l]) : kpc[k] = "complete" => kf[k] # iocq[l][i]
Apart == Answered /\ AloneInIrq /\ AloneInHand /\ AloneInQueue

\* An answered frame is somewhere.
InIrq(f) == \E s \in Softirq : irq[s].f = f
InQueue(f) == \E k \in Cpu : \E i \in 1..Len(iocq[k]) : iocq[k][i] = f
InHand(f) == \E k \in Cpu : kpc[k] = "complete" /\ kf[k] = f
Somewhere ==
    \A f \in Frame : fstate[f] = "answered" => InIrq(f) \/ InQueue(f) \/ InHand(f)

KtioInv == TypeOK /\ Hands /\ Life /\ Homes /\ Sleeps /\ Unload /\ Apart /\ Somewhere

----------------------------------------------------------------------------
(* Queues.                                                                 *)

\* A frame is put at the end of a queue.
LEMMA Appended ==
    ASSUME iocq \in [Cpu -> Seq(Frame)], NEW id \in Cpu, NEW f \in Frame,
           iocq' = [iocq EXCEPT ![id] = Append(@, f)]
    PROVE  /\ iocq' \in [Cpu -> Seq(Frame)]
           /\ \A k \in Cpu : k # id => iocq'[k] = iocq[k]
           /\ Len(iocq[id]) \in Nat /\ Len(iocq'[id]) = Len(iocq[id]) + 1
           /\ \A i \in 1..Len(iocq[id]) : iocq'[id][i] = iocq[id][i]
           /\ iocq'[id][Len(iocq[id]) + 1] = f
<1>1. iocq[id] \in Seq(Frame) /\ iocq'[id] = Append(iocq[id], f)
  BY ZenonT(30)
<1>2. Append(iocq[id], f) \in Seq(Frame)
  BY <1>1
<1>3. iocq' \in [Cpu -> Seq(Frame)] /\ \A k \in Cpu : k # id => iocq'[k] = iocq[k]
  BY ZenonT(30), <1>2
<1> QED
  BY <1>1, <1>3

\* A frame is taken from the beginning of a queue.
LEMMA Shortened ==
    ASSUME iocq \in [Cpu -> Seq(Frame)], NEW k \in Cpu, iocq[k] # <<>>,
           iocq' = [iocq EXCEPT ![k] = Taken(@)]
    PROVE  /\ iocq' \in [Cpu -> Seq(Frame)]
           /\ \A j \in Cpu : j # k => iocq'[j] = iocq[j]
           /\ Len(iocq[k]) \in Nat /\ Len(iocq[k]) > 0
           /\ Len(iocq'[k]) = Len(iocq[k]) - 1
           /\ \A i \in 1..(Len(iocq[k]) - 1) : iocq'[k][i] = iocq[k][i + 1]
           /\ Head(iocq[k]) = iocq[k][1] /\ Head(iocq[k]) \in Frame
<1>1. iocq[k] \in Seq(Frame) /\ iocq'[k] = Tail(iocq[k])
  BY ZenonT(30) DEF Taken
<1>2. Tail(iocq[k]) \in Seq(Frame)
  BY <1>1
<1>3. iocq' \in [Cpu -> Seq(Frame)] /\ \A j \in Cpu : j # k => iocq'[j] = iocq[j]
  BY ZenonT(30), <1>2 DEF Taken
<1>4. /\ Len(iocq[k]) \in Nat /\ Len(iocq[k]) > 0
      /\ Head(iocq[k]) = iocq[k][1] /\ Head(iocq[k]) \in Frame
  BY <1>1
<1>5. /\ Len(iocq'[k]) = Len(iocq[k]) - 1
      /\ \A i \in 1..(Len(iocq[k]) - 1) : iocq'[k][i] = iocq[k][i + 1]
  BY <1>1, HeadTailProperties
<1> QED
  BY <1>3, <1>4, <1>5

\* A queue is emptied.
LEMMA Emptied ==
    ASSUME iocq \in [Cpu -> Seq(Frame)], NEW k \in Cpu,
           iocq' = [iocq EXCEPT ![k] = <<>>]
    PROVE  /\ iocq' \in [Cpu -> Seq(Frame)]
           /\ \A j \in Cpu : j # k => iocq'[j] = iocq[j]
           /\ iocq'[k] = <<>> /\ Len(iocq'[k]) = 0
<1>1. <<>> \in Seq(Frame) /\ Len(<<>>) = 0
  OBVIOUS
<1> QED
  BY ZenonT(30), <1>1

----------------------------------------------------------------------------
(* The invariant holds when aoecmd_init has returned.                      *)

\* No frame is anywhere, and thread 0 runs.
LEMMA InitKtio == Init => KtioInv
<1> SUFFICES ASSUME Init PROVE KtioInv
  OBVIOUS
<1>0. /\ 0 \in Cpu /\ \A k \in Cpu : iocq[k] = <<>> /\ Len(iocq[k]) = 0
      /\ \A s \in Softirq : irq[s] = IrqIdle
  BY KtioAssumption DEF Init, Cpu
<1>1. TypeOK
  <2>1. <<>> \in Seq(Frame)
    OBVIOUS
  <2>2. IrqIdle \in [pc : {"idle", "delegate", "wake"}, f : Frame \cup {None}, id : Cpu]
    BY <1>0 DEF IrqIdle
  <2>3. iocq \in [Cpu -> Seq(Frame)]
    BY ZenonT(30), <2>1 DEF Init
  <2>4. irq \in [Softirq -> [pc : {"idle", "delegate", "wake"}, f : Frame \cup {None}, id : Cpu]]
    BY ZenonT(30), <2>2 DEF Init
  <2> QED
    BY <1>0, <2>3, <2>4 DEF Init, TypeOK
<1>2. Hands /\ Life
  BY <1>0, KtioAssumption DEF Init, Hands, Life, IrqIdle
<1>3. Homes /\ Sleeps /\ Unload
  BY <1>0 DEF Init, Homes, Sleeps, NoSleepOnWork, Unload
<1>4. Apart /\ Somewhere
  <2>1. \A k \in Cpu : 1..Len(iocq[k]) = {}
    BY <1>0
  <2> QED
    BY <1>0, <2>1 DEF Init, Apart, Answered, AloneInIrq, AloneInHand, AloneInQueue,
                       Somewhere, IrqIdle
<1> QED
  BY <1>1, <1>2, <1>3, <1>4 DEF KtioInv

----------------------------------------------------------------------------
(* A step keeps the types.                                                 *)

IrqType == [pc : {"idle", "delegate", "wake"}, f : Frame \cup {None}, id : Cpu]
KPc == {"none", "born", "loop", "complete", "active", "BUG_ON", "spawn", "rendez",
        "relock", "schedule", "should_stop", "exited"}
ExitType == [pc : {"loaded", "stop", "join", "flush", "unloaded"}, k : Cpu]

\* The type invariant in parts.
QueueType == iocq \in [Cpu -> Seq(Frame)] /\ active \in [Cpu -> BOOLEAN]
ThreadType ==
    /\ rendez \in [Cpu -> 0..1] /\ kpc \in [Cpu -> KPc]
    /\ kf \in [Cpu -> Frame \cup {None}] /\ ki \in [Cpu -> Nat]
WakeType ==
    /\ runnable \in [Cpu -> BOOLEAN] /\ onwaitq \in [Cpu -> BOOLEAN]
    /\ stop \in [Cpu -> BOOLEAN]
OtherType ==
    /\ irq \in [Softirq -> IrqType]
    /\ fstate \in [Frame -> {"out", "answered", "failed"}]
    /\ exit \in ExitType

\* The parts make the whole.
LEMMA TypeParts ==
    /\ TypeOK => QueueType /\ ThreadType /\ WakeType /\ OtherType
    /\ (QueueType /\ ThreadType /\ WakeType /\ OtherType)' => TypeOK'
BY ZenonT(30) DEF TypeOK, QueueType, ThreadType, WakeType, OtherType, IrqType, KPc, ExitType

\* What the section of ktio that holds the lock does to the thread k.
LEMMA KtioType ==
    ASSUME TypeOK, NEW k \in Cpu, NEW i \in Nat, Ktio(k, i), UNCHANGED <<active, rendez, stop>>
    PROVE  QueueType' /\ ThreadType' /\ WakeType'
<1>0. QueueType /\ ThreadType /\ WakeType
  BY TypeParts
<1>1. iocq' = iocq \/ (iocq[k] # <<>> /\ iocq' = [iocq EXCEPT ![k] = Taken(@)])
  BY ZenonT(30) DEF Ktio
<1>2. QueueType'
  BY ZenonT(30), <1>0, <1>1, Shortened DEF QueueType
<1>3. iocq[k] # <<>> => Head(iocq[k]) \in Frame
  BY <1>0 DEF QueueType
<1>4. ThreadType'
  <2>1. kf' \in [Cpu -> Frame \cup {None}]
    BY ZenonT(30), <1>0, <1>3 DEF Ktio, ThreadType
  <2>2. 0 \in Nat /\ (IF MaxIoc = 0 THEN 0 ELSE i) \in Nat
    OBVIOUS
  <2>3. ki' \in [Cpu -> Nat]
    BY ZenonT(30), <1>0, <2>2 DEF Ktio, ThreadType
  <2>4. kpc' \in [Cpu -> KPc]
    BY ZenonT(30), <1>0 DEF Ktio, ThreadType, KPc
  <2> QED
    BY <1>0, <2>1, <2>3, <2>4 DEF ThreadType
<1>5. WakeType'
  BY ZenonT(30), <1>0 DEF Ktio, Sleep, WakeType
<1> QED
  BY <1>2, <1>4, <1>5

\* The loops of aoecmd_exit stay within the CPUs.
LEMMA NextCpuType ==
    ASSUME TypeOK, NEW pc \in {"stop", "flush"}, NEW after \in {"flush", "unloaded"},
           NextCpu(pc, after)
    PROVE  exit' \in ExitType
<1>1. exit.k \in Cpu
  BY TypeParts DEF OtherType, ExitType
<1>2. 0 \in Cpu /\ (exit.k + 1 < NCpus => exit.k + 1 \in Cpu)
  BY <1>1, KtioAssumption DEF Cpu
<1> QED
  BY ZenonT(30), <1>2 DEF NextCpu, ExitType

\* Every variable keeps its type.
LEMMA TypeStep ==
    ASSUME KtioInv, [Next]_vars
    PROVE  TypeOK'
<1>0. TypeOK /\ Hands /\ Life /\ QueueType /\ ThreadType /\ WakeType /\ OtherType
  BY TypeParts DEF KtioInv
<1>a. 0 \in Cpu
  BY KtioAssumption DEF Cpu
<1>1. ASSUME NEW s \in Softirq, NEW f \in Frame, Ktcomplete(s, f)
      PROVE  TypeOK'
  <2>1. Home[f] \in Cpu
    BY KtioAssumption
  <2>2. QueueType'
    BY ZenonT(30), <1>0, <1>1, <2>1, Appended DEF Ktcomplete, Hash, QueueType
  <2>3. /\ [pc |-> "wake", f |-> None, id |-> Home[f]] \in IrqType
        /\ [pc |-> "delegate", f |-> f, id |-> 0] \in IrqType
    BY <1>a, <2>1 DEF IrqType
  <2>4. OtherType'
    BY ZenonT(30), <1>0, <1>1, <2>3 DEF Ktcomplete, Hash, OtherType
  <2>5. ThreadType' /\ WakeType'
    BY ZenonT(30), <1>0, <1>1 DEF Ktcomplete, threadVars, ThreadType, WakeType
  <2> QED
    BY <2>2, <2>4, <2>5, TypeParts
<1>2. ASSUME NEW s \in Softirq, KtcompleteDelegate(s)
      PROVE  TypeOK'
  <2>1. irq[s].f \in Frame /\ [pc |-> "wake", f |-> None, id |-> 0] \in IrqType
    BY <1>0, <1>a, <1>2 DEF KtcompleteDelegate, Hands, OtherType, IrqType
  <2>2. QueueType'
    BY ZenonT(30), <1>0, <1>a, <1>2, <2>1, Appended DEF KtcompleteDelegate, QueueType
  <2>3. OtherType' /\ ThreadType' /\ WakeType'
    BY ZenonT(30), <1>0, <1>2, <2>1
    DEF KtcompleteDelegate, OtherType, threadVars, ThreadType, WakeType
  <2> QED
    BY <2>2, <2>3, TypeParts
<1>3. ASSUME NEW s \in Softirq, KtcompleteWake(s)
      PROVE  TypeOK'
  <2>1. IrqIdle \in IrqType
    BY <1>a DEF IrqIdle, IrqType
  <2>2. irq[s].id \in Cpu
    BY <1>0 DEF OtherType, IrqType
  <2>3. OtherType' /\ ThreadType' /\ QueueType'
    BY ZenonT(30), <1>0, <1>3, <2>1
    DEF KtcompleteWake, OtherType, ThreadType, QueueType, queueVars
  <2>4. WakeType'
    BY <1>0, <1>3, <2>2 DEF KtcompleteWake, WakeType
  <2> QED
    BY <2>3, <2>4, TypeParts
<1>4. ASSUME NEW k \in Cpu, KthreadStart(k)
      PROVE  TypeOK'
  <2>1. ThreadType'
    BY <1>0, <1>4 DEF KthreadStart, Life, ThreadType, KPc
  <2>2. OtherType' /\ QueueType' /\ WakeType'
    BY ZenonT(30), <1>0, <1>4
    DEF KthreadStart, OtherType, WakeType, QueueType, queueVars
  <2> QED
    BY <2>1, <2>2, TypeParts
<1>5. ASSUME NEW k \in Cpu, KthreadLoop(k) \/ KtioRelock(k)
      PROVE  TypeOK'
  <2>1. ki[k] + 1 \in Nat
    BY <1>0 DEF ThreadType
  <2>2. PICK i \in Nat : Ktio(k, i)
    BY <1>5, <2>1 DEF KthreadLoop, KtioRelock
  <2>3. QueueType' /\ ThreadType' /\ WakeType'
    BY ZenonT(30), <1>0, <1>5, <2>2, KtioType DEF KthreadLoop, KtioRelock
  <2>4. OtherType'
    BY ZenonT(30), <1>0, <1>5 DEF KthreadLoop, KtioRelock, OtherType
  <2> QED
    BY <2>3, <2>4, TypeParts
<1>6. ASSUME NEW k \in Cpu, KtioComplete(k) \/ KtioActive(k)
      PROVE  TypeOK'
  <2>1. QueueType' /\ WakeType'
    BY ZenonT(30), <1>0, <1>6 DEF KtioComplete, KtioActive, QueueType, WakeType, queueVars
  <2>2. ThreadType'
    BY <1>0, <1>6 DEF KtioComplete, KtioActive, ThreadType, KPc
  <2>3. OtherType'
    BY ZenonT(30), <1>0, <1>6 DEF KtioComplete, KtioActive, OtherType
  <2> QED
    BY <2>1, <2>2, <2>3, TypeParts
<1>7. ASSUME NEW k \in Cpu, KtioSpawn(k) \/ KtioSpawned(k)
      PROVE  TypeOK'
  <2>1. Home[kf[k]] \in Cpu
    BY <1>0, <1>7, KtioAssumption DEF KtioSpawn, KtioSpawned, Hands
  <2>2. QueueType' /\ WakeType' /\ OtherType'
    BY ZenonT(30), <1>0, <1>7, <2>1
    DEF KtioSpawn, KtioSpawned, QueueType, WakeType, OtherType, queueVars
  <2>3. ThreadType'
    BY <1>0, <1>7, <2>1 DEF KtioSpawn, KtioSpawned, ThreadType, KPc
  <2> QED
    BY <2>2, <2>3, TypeParts
<1>8. ASSUME NEW k \in Cpu, KthreadSchedule(k)
      PROVE  TypeOK'
  <2>1. ThreadType'
    BY <1>0, <1>8 DEF KthreadSchedule, ThreadType, KPc
  <2>2. QueueType' /\ WakeType' /\ OtherType'
    BY ZenonT(30), <1>0, <1>8 DEF KthreadSchedule, QueueType, WakeType, OtherType, queueVars
  <2> QED
    BY <2>1, <2>2, TypeParts
<1>9. ASSUME NEW k \in Cpu, KthreadShouldStop(k)
      PROVE  TypeOK'
  <2>1. ThreadType'
    <3>1. stop[k] => rendez[k] = 0
      BY <1>0, <1>9 DEF KthreadShouldStop, Life
    <3>2. rendez' \in [Cpu -> 0..1]
      BY <1>0, <1>9, <3>1 DEF KthreadShouldStop, Tell, ThreadType
    <3>3. kpc' \in [Cpu -> KPc]
      BY ZenonT(30), <1>0, <1>9 DEF KthreadShouldStop, ThreadType, KPc
    <3> QED
      BY <1>0, <1>9, <3>2, <3>3 DEF KthreadShouldStop, ThreadType
  <2>2. QueueType' /\ WakeType' /\ OtherType'
    BY ZenonT(30), <1>0, <1>9 DEF KthreadShouldStop, QueueType, WakeType, OtherType, queueVars
  <2> QED
    BY <2>1, <2>2, TypeParts
<1>10. CASE ExitStart
  <2>1. [pc |-> "stop", k |-> 0] \in ExitType
    BY <1>a DEF ExitType
  <2> QED
    BY ZenonT(30), <1>0, <1>10, <2>1, TypeParts
    DEF ExitStart, QueueType, ThreadType, WakeType, OtherType, queueVars, threadVars
<1>11. CASE ExitStop
  <2>1. exit.k \in Cpu /\ [exit EXCEPT !.pc = "join"] \in ExitType
    BY <1>0 DEF OtherType, ExitType
  <2>2. exit' \in ExitType
    BY ZenonT(30), <1>0, <1>11, <2>1, NextCpuType DEF ExitStop
  <2> QED
    BY ZenonT(30), <1>0, <1>11, <2>1, <2>2, TypeParts
    DEF ExitStop, QueueType, ThreadType, WakeType, OtherType, queueVars
<1>12. CASE ExitJoin
  <2>1. exit.k \in Cpu /\ exit' \in ExitType
    BY <1>0, <1>12, NextCpuType DEF ExitJoin, OtherType, ExitType
  <2>2. ThreadType'
    BY <1>0, <1>12, <2>1 DEF ExitJoin, ThreadType
  <2>3. QueueType' /\ WakeType' /\ OtherType'
    BY ZenonT(30), <1>0, <1>12, <2>1 DEF ExitJoin, QueueType, WakeType, OtherType, queueVars
  <2> QED
    BY <2>2, <2>3, TypeParts
<1>13. CASE ExitFlush
  <2>1. exit.k \in Cpu /\ exit' \in ExitType
    BY <1>0, <1>13, NextCpuType DEF ExitFlush, OtherType, ExitType
  <2>2. QueueType'
    BY ZenonT(30), <1>0, <1>13, <2>1, Emptied DEF ExitFlush, QueueType
  <2>3. fstate' \in [Frame -> {"out", "answered", "failed"}]
    BY ZenonT(30), <1>0, <1>13 DEF ExitFlush, OtherType
  <2> QED
    BY ZenonT(30), <1>0, <1>13, <2>1, <2>2, <2>3, TypeParts
    DEF ExitFlush, ThreadType, WakeType, OtherType, threadVars
<1>14. CASE UNCHANGED vars
  BY ZenonT(30), <1>0, <1>14, TypeParts
  DEF vars, queueVars, threadVars, QueueType, ThreadType, WakeType, OtherType
<1> QED
  BY ZenonT(60), <1>1, <1>2, <1>3, <1>4, <1>5, <1>6, <1>7, <1>8, <1>9, <1>10, <1>11,
     <1>12, <1>13, <1>14
  DEF Next, ThreadStep, ExitStep

----------------------------------------------------------------------------
(* A step keeps the life of the threads.                                   *)

\* A thread changes its own state: what the others are in does not change.
LEMMA HandsStep ==
    ASSUME KtioInv, [Next]_vars
    PROVE  Hands'
<1>0. Hands /\ QueueType /\ ThreadType /\ OtherType /\ None \notin Frame
  BY TypeParts, KtioAssumption DEF KtioInv
<1>1. \A s \in Softirq : irq'[s].pc = "delegate" <=> irq'[s].f # None
  <2>1. ASSUME NEW s \in Softirq, NEW f \in Frame, Ktcomplete(s, f)
        PROVE  \A u \in Softirq : irq'[u].pc = "delegate" <=> irq'[u].f # None
    BY <1>0, <2>1 DEF Ktcomplete, Hands, OtherType
  <2>2. ASSUME NEW s \in Softirq, KtcompleteDelegate(s) \/ KtcompleteWake(s)
        PROVE  \A u \in Softirq : irq'[u].pc = "delegate" <=> irq'[u].f # None
    BY <1>0, <2>2 DEF KtcompleteDelegate, KtcompleteWake, Hands, OtherType, IrqIdle
  <2>3. CASE UNCHANGED irq
    BY <1>0, <2>3 DEF Hands
  <2> QED
    BY ZenonT(60), <2>1, <2>2, <2>3
    DEF Next, vars, ThreadStep, ExitStep, KthreadStart, KthreadLoop, KtioComplete,
        KtioActive, KtioSpawn, KtioSpawned, KtioRelock, KthreadSchedule,
        KthreadShouldStop, ExitStart, ExitStop, ExitJoin, ExitFlush
<1>2. \A k \in Cpu :
        kpc'[k] \in {"complete", "active", "spawn", "rendez"} => kf'[k] \in Frame
  <2> DEFINE Good == \A k \in Cpu : kpc'[k] \in {"complete", "active", "spawn", "rendez"}
                                     => kf'[k] \in Frame
  <2>1. ASSUME NEW k \in Cpu, NEW i, Ktio(k, i)
        PROVE  Good
    <3>1. iocq[k] # <<>> => Head(iocq[k]) \in Frame
      BY <1>0 DEF QueueType
    <3> QED
      BY <1>0, <2>1, <3>1 DEF Ktio, Hands, ThreadType
  <2>a. ASSUME NEW k \in Cpu, KthreadLoop(k) \/ KtioRelock(k)
        PROVE  Good
    BY <2>1, <2>a DEF KthreadLoop, KtioRelock
  <2>2. ASSUME NEW k \in Cpu, KtioSpawn(k)
        PROVE  Good
    <3>1. Home[kf[k]] \in Cpu
      BY <1>0, <2>2, KtioAssumption DEF KtioSpawn, Hands
    <3> QED
      BY <1>0, <2>2, <3>1 DEF KtioSpawn, Hands, ThreadType
  <2>3. ASSUME NEW k \in Cpu,
               \/ KthreadStart(k) \/ KtioComplete(k) \/ KtioActive(k) \/ KtioSpawned(k)
               \/ KthreadSchedule(k) \/ KthreadShouldStop(k)
        PROVE  Good
    BY <1>0, <2>3
    DEF KthreadStart, KtioComplete, KtioActive, KtioSpawned, KthreadSchedule,
        KthreadShouldStop, Hands, ThreadType
  <2>4. ASSUME UNCHANGED <<kpc, kf>> PROVE Good
    BY <1>0, <2>4 DEF Hands
  <2> HIDE DEF Good
  <2>5. Good
    <3>1. ASSUME NEW k \in Cpu, ThreadStep(k)
          PROVE  Good
      BY ZenonT(60), <3>1, <2>a, <2>2, <2>3 DEF ThreadStep
    <3> QED
      BY ZenonT(60), <3>1, <2>4
      DEF Next, vars, threadVars, ExitStep, Ktcomplete, KtcompleteDelegate,
          KtcompleteWake, ExitStart, ExitStop, ExitJoin, ExitFlush
  <2> QED
    BY <2>5 DEF Good
<1> QED
  BY <1>1, <1>2 DEF Hands

\* Only thread 0 spawns, a thread that is not active has not been spawned or is
\* being spawned, and a completion is waited for before it is used again.
LEMMA LifeStep ==
    ASSUME KtioInv, [Next]_vars
    PROVE  Life'
<1>0. /\ Life /\ Hands /\ Homes /\ QueueType /\ ThreadType /\ WakeType
      /\ 0 \in Cpu
  BY TypeParts, KtioAssumption DEF KtioInv, Cpu
<1>1. CASE UNCHANGED <<active, rendez, kpc, kf, stop>>
  BY <1>0, <1>1 DEF Life
<1>2. ASSUME NEW k \in Cpu, KthreadStart(k)
      PROVE  Life'
  BY <1>0, <1>2 DEF KthreadStart, Life, ThreadType, queueVars
<1>3. ASSUME NEW k \in Cpu, NEW i, Ktio(k, i), kpc[k] \in {"loop", "relock"},
             UNCHANGED <<active, rendez, stop>>
      PROVE  Life'
  BY <1>0, <1>3 DEF Ktio, Life, ThreadType
<1>4. ASSUME NEW k \in Cpu, KtioComplete(k) \/ KthreadSchedule(k)
      PROVE  Life'
  BY <1>0, <1>4 DEF KtioComplete, KthreadSchedule, Life, ThreadType, queueVars
<1>5. ASSUME NEW k \in Cpu, KtioActive(k)
      PROVE  Life'
  BY <1>0, <1>5 DEF KtioActive, Life, ThreadType, queueVars
<1>6. ASSUME NEW k \in Cpu, KtioSpawn(k)
      PROVE  Life'
  <2>1. Home[kf[k]] \in Cpu /\ k = 0
    BY <1>0, <1>6, KtioAssumption DEF KtioSpawn, Hands, Life
  <2> QED
    BY <1>0, <1>6, <2>1 DEF KtioSpawn, Life, ThreadType, queueVars
<1>7. ASSUME NEW k \in Cpu, KtioSpawned(k)
      PROVE  Life'
  <2>1. Home[kf[k]] \in Cpu /\ k = 0
    BY <1>0, <1>7, KtioAssumption DEF KtioSpawned, Hands, Life
  <2> QED
    BY <1>0, <1>7, <2>1 DEF KtioSpawned, Life, ThreadType, QueueType
<1>8. ASSUME NEW k \in Cpu, KthreadShouldStop(k)
      PROVE  Life'
  BY <1>0, <1>8 DEF KthreadShouldStop, Tell, Life, ThreadType, queueVars
<1>9. CASE ExitStop
  BY <1>0, <1>9 DEF ExitStop, Life, WakeType, queueVars
<1>10. CASE ExitJoin
  BY <1>0, <1>10 DEF ExitJoin, Life, ThreadType, queueVars
<1> QED
  BY ZenonT(60), <1>1, <1>2, <1>3, <1>4, <1>5, <1>6, <1>7, <1>8, <1>9, <1>10
  DEF Next, vars, queueVars, threadVars, ThreadStep, ExitStep, KthreadLoop, KtioRelock,
      Ktcomplete, KtcompleteDelegate, KtcompleteWake, ExitStart, ExitFlush

----------------------------------------------------------------------------
(* A step keeps the frames where their thread is, and wakes it.            *)

\* A frame is queued with a thread that is active; active is never reset.
LEMMA HomesStep ==
    ASSUME KtioInv, [Next]_vars
    PROVE  Homes'
<1>0. /\ Life /\ Hands /\ Homes /\ QueueType /\ ThreadType /\ OtherType
      /\ 0 \in Cpu /\ Home \in [Frame -> Cpu]
  BY TypeParts, KtioAssumption DEF KtioInv, Cpu
<1>1. ASSUME NEW f \in Frame, NEW id \in Cpu, active[id], id = 0 \/ Home[f] = id,
             iocq' = [iocq EXCEPT ![id] = Append(@, f)],
             UNCHANGED <<active, kpc, kf>>
      PROVE  Homes'
  BY <1>0, <1>1, Appended DEF Homes, QueueType
<1>2. CASE UNCHANGED <<iocq, active, kpc, kf>>
  BY <1>0, <1>2 DEF Homes
<1>3. ASSUME NEW s \in Softirq, NEW f \in Frame, Ktcomplete(s, f)
      PROVE  Homes'
  BY ZenonT(30), <1>0, <1>1, <1>2, <1>3 DEF Ktcomplete, OwnQueue, Hash, threadVars
<1>4. ASSUME NEW s \in Softirq, KtcompleteDelegate(s)
      PROVE  Homes'
  <2>1. irq[s].f \in Frame
    BY <1>0, <1>4 DEF KtcompleteDelegate, Hands, OtherType, IrqType
  <2>2. active[0]
    BY <1>0 DEF Life
  <2> QED
    BY ZenonT(30), <1>0, <1>1, <1>4, <2>1, <2>2 DEF KtcompleteDelegate, threadVars
<1>5. ASSUME NEW k \in Cpu, KthreadLoop(k) \/ KtioRelock(k)
      PROVE  Homes'
  <2>1. PICK n : Ktio(k, n) /\ UNCHANGED active
    BY <1>5 DEF KthreadLoop, KtioRelock
  <2>2. CASE iocq' = iocq /\ kpc' = [kpc EXCEPT ![k] = "should_stop"]
    BY <1>0, <2>1, <2>2 DEF Ktio, Homes, ThreadType
  <2>3. CASE iocq' = iocq /\ kpc' = [kpc EXCEPT ![k] = "schedule"]
    BY <1>0, <2>1, <2>3 DEF Ktio, Homes, ThreadType
  <2>4. CASE /\ iocq[k] # <<>> /\ iocq' = [iocq EXCEPT ![k] = Taken(@)]
             /\ kpc' = [kpc EXCEPT ![k] = "complete"]
             /\ kf' = [kf EXCEPT ![k] = Head(iocq[k])]
    <3>1. /\ \A j \in Cpu : j # k => iocq'[j] = iocq[j]
          /\ Len(iocq[k]) \in Nat /\ Len(iocq'[k]) = Len(iocq[k]) - 1
          /\ \A i \in 1..(Len(iocq[k]) - 1) : iocq'[k][i] = iocq[k][i + 1]
          /\ Head(iocq[k]) = iocq[k][1] /\ Len(iocq[k]) > 0
      BY ZenonT(30), <1>0, <2>4, Shortened DEF QueueType
    <3>2. ASSUME k # 0, NEW i \in 1..Len(iocq'[k]) PROVE Home[iocq'[k][i]] = k
      <4>1. iocq'[k][i] = iocq[k][i + 1] /\ i + 1 \in 1..Len(iocq[k])
        BY <3>1, <3>2
      <4> QED
        BY <1>0, <3>2, <4>1 DEF Homes
    <3>3. k # 0 => Home[Head(iocq[k])] = k
      BY <1>0, <3>1 DEF Homes
    <3> QED
      BY <1>0, <2>1, <2>4, <3>1, <3>2, <3>3 DEF Homes, ThreadType
  <2> QED
    BY ZenonT(30), <2>1, <2>2, <2>3, <2>4 DEF Ktio
<1>6. ASSUME NEW k \in Cpu,
             \/ KthreadStart(k) \/ KtioComplete(k) \/ KtioActive(k)
             \/ KthreadSchedule(k) \/ KthreadShouldStop(k)
      PROVE  Homes'
  BY <1>0, <1>6
  DEF KthreadStart, KtioComplete, KtioActive, KthreadSchedule, KthreadShouldStop,
      queueVars, Homes, ThreadType
<1>7. ASSUME NEW k \in Cpu, KtioSpawn(k) \/ KtioSpawned(k)
      PROVE  Homes'
  <2>1. Home[kf[k]] \in Cpu
    BY <1>0, <1>7 DEF KtioSpawn, KtioSpawned, Hands
  <2> QED
    <3>1. CASE KtioSpawn(k)
      BY <1>0, <2>1, <3>1 DEF KtioSpawn, queueVars, Homes, ThreadType
    <3>2. CASE KtioSpawned(k)
      BY <1>0, <2>1, <3>2 DEF KtioSpawned, Homes, ThreadType, QueueType
    <3> QED
      BY <1>7, <3>1, <3>2
<1>8. CASE ExitFlush
  <2>1. exit.k \in Cpu
    BY <1>0 DEF OtherType, ExitType
  <2>2. CASE iocq' = [iocq EXCEPT ![exit.k] = <<>>]
    BY <1>0, <1>8, <2>1, <2>2, Emptied DEF ExitFlush, threadVars, Homes, QueueType
  <2> QED
    BY <1>0, <1>2, <1>8, <2>2 DEF ExitFlush, threadVars
<1> QED
  BY ZenonT(60), <1>2, <1>3, <1>4, <1>5, <1>6, <1>7, <1>8
  DEF Next, vars, queueVars, threadVars, ThreadStep, ExitStep, KtcompleteWake,
      ExitStart, ExitStop, ExitJoin

\* A thread goes to sleep only beside an empty queue and on the wait queue, and
\* who adds a frame wakes it afterwards.
LEMMA SleepsStep ==
    ASSUME KtioInv, [Next]_vars
    PROVE  Sleeps'
<1>0. /\ Life /\ Hands /\ Sleeps
      /\ QueueType /\ ThreadType /\ WakeType /\ OtherType
      /\ 0 \in Cpu /\ Home \in [Frame -> Cpu]
  BY TypeParts, KtioAssumption DEF KtioInv, Cpu
<1>1. ASSUME NEW s \in Softirq, NEW f \in Frame, NEW id \in Cpu, irq[s].pc # "wake",
             iocq' = [iocq EXCEPT ![id] = Append(@, f)],
             irq' = [irq EXCEPT ![s] = [pc |-> "wake", f |-> None, id |-> id]],
             UNCHANGED <<kpc, runnable, onwaitq>>
      PROVE  Sleeps'
  BY <1>0, <1>1, Appended DEF Sleeps, NoSleepOnWork, QueueType, OtherType
<1>2. ASSUME UNCHANGED <<iocq, kpc, runnable, onwaitq>>,
             \A s \in Softirq : irq[s].pc = "wake" => irq'[s] = irq[s]
      PROVE  Sleeps'
  BY <1>0, <1>2 DEF Sleeps, NoSleepOnWork
<1>3. ASSUME NEW s \in Softirq, NEW f \in Frame, Ktcomplete(s, f)
      PROVE  Sleeps'
  <2>1. CASE OwnQueue(Home[f])
    BY ZenonT(30), <1>0, <1>1, <1>3, <2>1 DEF Ktcomplete, Hash, threadVars
  <2>2. CASE ~OwnQueue(Home[f])
    <3>1. \A u \in Softirq : irq[u].pc = "wake" => irq'[u] = irq[u]
      BY <1>0, <1>3, <2>2 DEF Ktcomplete, Hash, OtherType
    <3> QED
      BY ZenonT(30), <1>2, <1>3, <2>2, <3>1 DEF Ktcomplete, Hash, threadVars
  <2> QED
    BY <2>1, <2>2
<1>4. ASSUME NEW s \in Softirq, KtcompleteDelegate(s)
      PROVE  Sleeps'
  <2>1. irq[s].f \in Frame
    BY <1>0, <1>4 DEF KtcompleteDelegate, Hands, OtherType, IrqType
  <2> QED
    BY ZenonT(30), <1>0, <1>1, <1>4, <2>1 DEF KtcompleteDelegate, threadVars
<1>5. ASSUME NEW s \in Softirq, KtcompleteWake(s)
      PROVE  Sleeps'
  BY <1>0, <1>5
  DEF KtcompleteWake, queueVars, Sleeps, NoSleepOnWork, WakeType, OtherType, IrqIdle
<1>6. ASSUME NEW k \in Cpu, KthreadLoop(k) \/ KtioRelock(k)
      PROVE  Sleeps'
  <2>1. PICK i : Ktio(k, i) /\ UNCHANGED irq
    BY <1>6 DEF KthreadLoop, KtioRelock
  <2>2. CASE kpc' = [kpc EXCEPT ![k] = "should_stop"] /\ UNCHANGED <<iocq, runnable, onwaitq>>
    BY <1>0, <2>1, <2>2 DEF Sleeps, NoSleepOnWork, ThreadType
  <2>3. CASE /\ iocq[k] = <<>> /\ Sleep(k) /\ UNCHANGED iocq
             /\ kpc' = [kpc EXCEPT ![k] = "schedule"]
    BY <1>0, <2>1, <2>3 DEF Sleep, Sleeps, NoSleepOnWork, ThreadType, WakeType
  <2>4. CASE /\ iocq[k] # <<>> /\ iocq' = [iocq EXCEPT ![k] = Taken(@)]
             /\ kpc' = [kpc EXCEPT ![k] = "complete"]
             /\ UNCHANGED <<runnable, onwaitq>>
    BY <1>0, <2>1, <2>4, Shortened DEF Sleeps, NoSleepOnWork, ThreadType, QueueType
  <2> QED
    BY ZenonT(30), <2>1, <2>2, <2>3, <2>4 DEF Ktio
<1>a. ASSUME NEW k \in Cpu, NEW j \in Cpu, NEW p, NEW q, p # "schedule", q # "schedule",
             kpc' = [kpc EXCEPT ![k] = p, ![j] = q], UNCHANGED <<iocq, runnable, irq>>,
             onwaitq' = onwaitq \/ onwaitq' = [onwaitq EXCEPT ![k] = FALSE]
      PROVE  Sleeps'
  BY <1>0, <1>a DEF Sleeps, NoSleepOnWork, ThreadType, WakeType
<1>b. ASSUME NEW k \in Cpu, NEW p, p # "schedule",
             kpc' = [kpc EXCEPT ![k] = p], UNCHANGED <<iocq, runnable, irq>>,
             onwaitq' = onwaitq \/ onwaitq' = [onwaitq EXCEPT ![k] = FALSE]
      PROVE  Sleeps'
  BY <1>0, <1>b DEF Sleeps, NoSleepOnWork, ThreadType, WakeType
<1>7. ASSUME NEW k \in Cpu,
             \/ KthreadStart(k) \/ KtioComplete(k) \/ KthreadSchedule(k)
             \/ KthreadShouldStop(k)
      PROVE  Sleeps'
  BY ZenonT(30), <1>b, <1>7
  DEF KthreadStart, KtioComplete, KthreadSchedule, KthreadShouldStop, queueVars
<1>c. ASSUME NEW k \in Cpu, KtioActive(k)
      PROVE  Sleeps'
  <2> DEFINE p == IF active[Home[kf[k]]] THEN "relock" ELSE IF k # 0 THEN "BUG_ON" ELSE "spawn"
  <2>1. p # "schedule"
    OBVIOUS
  <2>2. kpc' = [kpc EXCEPT ![k] = p]
    BY <1>c DEF KtioActive
  <2>3. UNCHANGED <<iocq, runnable, irq>> /\ onwaitq' = onwaitq
    BY <1>c DEF KtioActive, queueVars
  <2> HIDE DEF p
  <2> QED
    BY ZenonT(30), <1>b, <2>1, <2>2, <2>3
<1>8. ASSUME NEW k \in Cpu, KtioSpawn(k) \/ KtioSpawned(k)
      PROVE  Sleeps'
  <2>1. Home[kf[k]] \in Cpu
    BY <1>0, <1>8 DEF KtioSpawn, KtioSpawned, Hands
  <2> QED
    <3>1. UNCHANGED <<iocq, runnable, onwaitq, irq>>
      BY ZenonT(30), <1>8 DEF KtioSpawn, KtioSpawned, queueVars
    <3>2. \/ kpc' = [kpc EXCEPT ![k] = "relock"]
          \/ kpc' = [kpc EXCEPT ![k] = "rendez", ![Home[kf[k]]] = "born"]
      BY ZenonT(30), <1>8 DEF KtioSpawn, KtioSpawned
    <3> QED
      BY ZenonT(30), <1>a, <1>b, <2>1, <3>1, <3>2
<1>9. CASE ExitStop
  BY <1>0, <1>9 DEF ExitStop, queueVars, Sleeps, NoSleepOnWork, WakeType
<1>10. CASE ExitFlush
  <2>1. exit.k \in Cpu
    BY <1>0 DEF OtherType, ExitType
  <2>2. CASE iocq' = [iocq EXCEPT ![exit.k] = <<>>]
    BY <1>0, <1>10, <2>1, <2>2, Emptied
    DEF ExitFlush, threadVars, Sleeps, NoSleepOnWork, QueueType
  <2> QED
    BY ZenonT(30), <1>2, <1>10, <2>2 DEF ExitFlush, threadVars
<1> QED
  BY ZenonT(60), <1>2, <1>3, <1>4, <1>5, <1>6, <1>7, <1>8, <1>9, <1>10, <1>c
  DEF Next, vars, queueVars, threadVars, ThreadStep, ExitStep, ExitStart, ExitJoin

----------------------------------------------------------------------------
(* A step of the unload.                                                   *)

\* A thread that is stopped does not come back: thread 0 is stopped first, and
\* afterwards nobody spawns.
LEMMA UnloadStep ==
    ASSUME KtioInv, [Next]_vars
    PROVE  Unload'
<1>0. /\ Life /\ Hands /\ Homes /\ Unload
      /\ QueueType /\ ThreadType /\ OtherType
      /\ 0 \in Cpu /\ Home \in [Frame -> Cpu] /\ NCpus \in Nat \ {0}
  BY TypeParts, KtioAssumption DEF KtioInv, Cpu
<1>1. exit.k \in Cpu /\ exit.k \in Nat
  BY <1>0 DEF OtherType, ExitType, Cpu
<1>2. ASSUME UNCHANGED <<iocq, irq, exit>>,
             \A k \in Cpu : kpc[k] \in {"none", "exited"} => kpc'[k] = kpc[k]
      PROVE  Unload'
  BY <1>0, <1>2 DEF Unload
<1>3. ASSUME NEW s \in Softirq, \E f \in Frame : Ktcomplete(s, f)
      PROVE  Unload'
  BY <1>3 DEF Ktcomplete, Unload
<1>4. ASSUME NEW s \in Softirq, KtcompleteDelegate(s) \/ KtcompleteWake(s)
      PROVE  Unload'
  <2>1. exit.pc = "loaded"
    BY <1>0, <1>4 DEF KtcompleteDelegate, KtcompleteWake, Unload
  <2> QED
    BY <1>4, <2>1 DEF KtcompleteDelegate, KtcompleteWake, Unload
<1>5. ASSUME NEW k \in Cpu, KthreadLoop(k) \/ KtioRelock(k)
      PROVE  Unload'
  <2>1. exit.pc \notin {"flush", "unloaded"}
    BY <1>0, <1>5 DEF KthreadLoop, KtioRelock, Unload
  <2>2. \A j \in Cpu : kpc[j] \in {"none", "exited"} => kpc'[j] = kpc[j]
    BY <1>0, <1>5 DEF KthreadLoop, KtioRelock, Ktio, ThreadType
  <2> QED
    BY <1>0, <1>5, <2>1, <2>2 DEF KthreadLoop, KtioRelock, Unload
<1>6. ASSUME NEW k \in Cpu, KtioSpawn(k)
      PROVE  Unload'
  <2>1. Home[kf[k]] \in Cpu /\ k = 0
    BY ZenonT(30), <1>0, <1>6 DEF KtioSpawn, Hands, Life
  <2>2. exit.pc \notin {"flush", "unloaded"} /\ (exit.pc # "loaded" => ~(0 < exit.k))
    BY <1>0, <1>6, <2>1, <1>1 DEF KtioSpawn, Unload, OtherType, ExitType
  <2>3. exit.k = 0 \/ exit.pc = "loaded"
    BY <1>1, <2>2
  <2>4. \A j \in Cpu : ~(j < 0)
    BY <1>0 DEF Cpu
  <2>5. UNCHANGED <<irq, exit>>
    BY ZenonT(30), <1>6 DEF KtioSpawn
  <2> QED
    BY ZenonT(30), <1>0, <2>2, <2>3, <2>4, <2>5 DEF Unload
<1>7. ASSUME NEW k \in Cpu,
             \/ KthreadStart(k) \/ KtioComplete(k) \/ KtioActive(k) \/ KtioSpawned(k)
             \/ KthreadSchedule(k) \/ KthreadShouldStop(k)
      PROVE  Unload'
  <2>1. \A j \in Cpu : kpc[j] \in {"none", "exited"} => kpc'[j] = kpc[j]
    BY <1>0, <1>7
    DEF KthreadStart, KtioComplete, KtioActive, KtioSpawned, KthreadSchedule,
        KthreadShouldStop, ThreadType
  <2>2. UNCHANGED <<iocq, irq, exit>>
    BY ZenonT(30), <1>7
    DEF KthreadStart, KtioComplete, KtioActive, KtioSpawned, KthreadSchedule,
        KthreadShouldStop, queueVars
  <2> QED
    BY <1>2, <2>1, <2>2
<1>8. CASE ExitStart
  <2>1. exit' = [pc |-> "stop", k |-> 0] /\ UNCHANGED <<irq, kpc, iocq>>
    BY ZenonT(30), <1>8 DEF ExitStart, queueVars, threadVars
  <2>2. \A s \in Softirq : irq[s].pc = "idle"
    BY ZenonT(30), <1>8 DEF ExitStart
  <2>3. exit'.pc = "stop" /\ exit'.k = 0
    BY <2>1
  <2>4. \A k \in Cpu : ~(k < 0)
    BY DEF Cpu
  <2> QED
    BY <2>1, <2>2, <2>3, <2>4 DEF Unload
<1>9. ASSUME exit.pc \in {"stop", "join"}, kpc[exit.k] \in {"none", "exited"},
             NextCpu("stop", "flush"), UNCHANGED <<iocq, irq, kpc>>
      PROVE  Unload'
  <2>1. \A k \in Cpu : k < exit.k + 1 => kpc[k] \in {"none", "exited"}
    BY <1>0, <1>1, <1>9 DEF Unload, Cpu
  <2>2. exit.k + 1 < NCpus \/ \A k \in Cpu : k < exit.k + 1
    BY <1>0, <1>1 DEF Cpu
  <2>3. \A s \in Softirq : irq[s].pc = "idle"
    BY <1>0, <1>9 DEF Unload
  <2>4. \A k \in Cpu : ~(k < 0)
    BY <1>0 DEF Cpu
  <2> QED
    BY <1>9, <2>1, <2>2, <2>3, <2>4 DEF NextCpu, Unload
<1>10. CASE ExitStop
  <2>1. CASE active[exit.k]
    BY <1>0, <1>1, <1>10, <2>1 DEF ExitStop, Unload, OtherType, ExitType, queueVars
  <2>2. CASE ~active[exit.k]
    <3>1. kpc[exit.k] = "none"
      <4>1. exit.k # 0 /\ 0 < exit.k
        BY <1>0, <1>1, <2>2 DEF Life, Cpu
      <4>2. kpc[0] \in {"none", "exited"}
        BY <1>0, <1>10, <4>1 DEF ExitStop, Unload
      <4> QED
        BY <1>0, <1>1, <2>2, <4>2 DEF Life
    <3> QED
      BY <1>9, <1>10, <2>2, <3>1 DEF ExitStop, queueVars
  <2> QED
    BY <2>1, <2>2
<1>11. CASE ExitJoin
  BY <1>9, <1>11 DEF ExitJoin, queueVars
<1>12. CASE ExitFlush
  <2>1. iocq'[exit.k] = <<>> /\ \A k \in Cpu : iocq[k] = <<>> => iocq'[k] = <<>>
    BY <1>0, <1>1, <1>12, Emptied DEF ExitFlush, Flushes, Homes, QueueType
  <2>2. \A k \in Cpu : k < exit.k + 1 => iocq'[k] = <<>>
    BY <1>0, <1>1, <1>12, <2>1 DEF ExitFlush, Unload, Cpu
  <2>3. exit.k + 1 < NCpus \/ \A k \in Cpu : k < exit.k + 1
    BY <1>0, <1>1 DEF Cpu
  <2>4. /\ \A s \in Softirq : irq'[s].pc = "idle"
        /\ \A k \in Cpu : kpc'[k] \in {"none", "exited"}
    BY <1>0, <1>12 DEF ExitFlush, Unload, threadVars
  <2>5. NextCpu("flush", "unloaded")
    BY <1>12 DEF ExitFlush
  <2> QED
    BY <2>2, <2>3, <2>4, <2>5 DEF NextCpu, Unload
<1>13. CASE UNCHANGED vars
  BY <1>2, <1>13 DEF vars, queueVars, threadVars
<1> QED
  BY ZenonT(60), <1>3, <1>4, <1>5, <1>6, <1>7, <1>8, <1>10, <1>11, <1>12, <1>13
  DEF Next, ThreadStep, ExitStep

----------------------------------------------------------------------------
(* A step keeps a frame in one place.                                      *)

\* A frame that is in no queue and in no hand is put on a queue.
LEMMA ApartAppend ==
    ASSUME KtioInv, NEW f \in Frame, NEW id \in Cpu,
           iocq' = [iocq EXCEPT ![id] = Append(@, f)],
           \A k \in Cpu : \A i \in 1..Len(iocq[k]) : iocq[k][i] # f,
           \A k \in Cpu : kpc[k] = "complete" => kf[k] # f,
           \A u \in Softirq : irq'[u].f # f /\ irq'[u].f \in {irq[u].f, None},
           fstate'[f] = "answered", \A g \in Frame : g # f => fstate'[g] = fstate[g],
           UNCHANGED <<kpc, kf>>
    PROVE  Apart'
<1>0. Apart /\ Hands /\ QueueType /\ ThreadType /\ OtherType /\ None \notin Frame
  BY TypeParts, KtioAssumption DEF KtioInv
<1>1. ASSUME NEW k \in Cpu, NEW i \in 1..Len(iocq'[k])
      PROVE  \/ i \in 1..Len(iocq[k]) /\ iocq'[k][i] = iocq[k][i] /\ iocq[k][i] \in Frame
             \/ k = id /\ i = Len(iocq[id]) + 1 /\ iocq'[k][i] = f
  <2>1. /\ \A j \in Cpu : j # id => iocq'[j] = iocq[j]
        /\ Len(iocq[id]) \in Nat /\ Len(iocq'[id]) = Len(iocq[id]) + 1
        /\ \A j \in 1..Len(iocq[id]) : iocq'[id][j] = iocq[id][j]
        /\ iocq'[id][Len(iocq[id]) + 1] = f
    BY ZenonT(30), <1>0, Appended DEF QueueType
  <2>2. iocq[k] \in Seq(Frame)
    BY <1>0 DEF QueueType
  <2>3. \A j \in 1..Len(iocq[k]) : iocq[k][j] \in Frame
    BY <2>2
  <2> QED
    BY <2>1, <2>3
<1>2. \A k \in Cpu : kpc[k] = "complete" => kf[k] \in Frame
  BY <1>0 DEF Hands
<1>3. \A u \in Softirq : irq[u].f # None => irq[u].f \in Frame
  BY <1>0 DEF OtherType, IrqType
<1>4. Answered'
  <2>1. ASSUME NEW u \in Softirq, irq'[u].f # None PROVE fstate'[irq'[u].f] = "answered"
    BY <1>0, <1>3, <2>1 DEF Apart, Answered
  <2>2. ASSUME NEW k \in Cpu, NEW i \in 1..Len(iocq'[k])
        PROVE  fstate'[iocq'[k][i]] = "answered"
    BY <1>0, <1>1 DEF Apart, Answered
  <2>3. ASSUME NEW k \in Cpu, kpc[k] = "complete" PROVE fstate'[kf[k]] = "answered"
    BY <1>0, <1>2, <2>3 DEF Apart, Answered
  <2> QED
    BY ZenonT(30), <2>1, <2>2, <2>3 DEF Answered
<1>5. AloneInIrq' /\ AloneInHand'
  BY <1>0, <1>2 DEF Apart, AloneInIrq, AloneInHand
<1>6. AloneInQueue'
  <2>1. ASSUME NEW k \in Cpu, NEW l \in Cpu, NEW i \in 1..Len(iocq'[k]),
               NEW j \in 1..Len(iocq'[l]), iocq'[k][i] = iocq'[l][j]
        PROVE  k = l /\ i = j
    BY <1>0, <1>1, <2>1 DEF Apart, AloneInQueue
  <2>2. ASSUME NEW u \in Softirq, NEW k \in Cpu, NEW i \in 1..Len(iocq'[k])
        PROVE  irq'[u].f # iocq'[k][i]
    BY <1>0, <1>1 DEF Apart, AloneInQueue
  <2>3. ASSUME NEW k \in Cpu, NEW l \in Cpu, NEW i \in 1..Len(iocq'[l]), kpc[k] = "complete"
        PROVE  kf[k] # iocq'[l][i]
    BY <1>0, <1>1, <2>3 DEF Apart, AloneInQueue
  <2> QED
    BY <2>1, <2>2, <2>3 DEF AloneInQueue
<1> QED
  BY <1>4, <1>5, <1>6 DEF Apart

\* A thread takes the first frame of its queue.
LEMMA ApartTake ==
    ASSUME KtioInv, NEW k \in Cpu, iocq[k] # <<>>, kpc[k] # "complete",
           iocq' = [iocq EXCEPT ![k] = Taken(@)],
           kpc' = [kpc EXCEPT ![k] = "complete"], kf' = [kf EXCEPT ![k] = Head(iocq[k])],
           UNCHANGED <<irq, fstate>>
    PROVE  Apart'
<1>0. Apart /\ Hands /\ QueueType /\ ThreadType /\ OtherType /\ None \notin Frame
  BY TypeParts, KtioAssumption DEF KtioInv
<1>1. /\ \A j \in Cpu : j # k => iocq'[j] = iocq[j]
      /\ Len(iocq[k]) \in Nat /\ Len(iocq[k]) > 0 /\ Len(iocq'[k]) = Len(iocq[k]) - 1
      /\ \A i \in 1..(Len(iocq[k]) - 1) : iocq'[k][i] = iocq[k][i + 1]
      /\ Head(iocq[k]) = iocq[k][1]
  BY ZenonT(30), <1>0, Shortened DEF QueueType
<1>2. /\ 1 \in 1..Len(iocq[k]) /\ kf'[k] = iocq[k][1] /\ kpc'[k] = "complete"
      /\ \A j \in Cpu : j # k => kf'[j] = kf[j] /\ kpc'[j] = kpc[j]
  BY <1>0, <1>1 DEF ThreadType
<1>3. ASSUME NEW j \in Cpu, NEW i \in 1..Len(iocq'[j])
      PROVE  \/ j # k /\ i \in 1..Len(iocq[j]) /\ iocq'[j][i] = iocq[j][i]
             \/ j = k /\ i + 1 \in 1..Len(iocq[k]) /\ i + 1 # 1 /\ iocq'[j][i] = iocq[k][i + 1]
  BY <1>1
<1>4. Answered'
  BY <1>0, <1>2, <1>3 DEF Apart, Answered
<1>5. AloneInIrq'
  BY <1>0, <1>2 DEF Apart, AloneInIrq, AloneInQueue
<1>6. AloneInHand'
  BY <1>0, <1>2 DEF Apart, AloneInHand, AloneInQueue
<1>7. AloneInQueue'
  <2>1. ASSUME NEW j \in Cpu, NEW l \in Cpu, NEW i \in 1..Len(iocq'[j]),
               NEW n \in 1..Len(iocq'[l]), iocq'[j][i] = iocq'[l][n]
        PROVE  j = l /\ i = n
    BY <1>0, <1>3, <2>1 DEF Apart, AloneInQueue
  <2>2. ASSUME NEW u \in Softirq, NEW j \in Cpu, NEW i \in 1..Len(iocq'[j])
        PROVE  irq[u].f # iocq'[j][i]
    BY <1>0, <1>3 DEF Apart, AloneInQueue
  <2>3. ASSUME NEW j \in Cpu, NEW l \in Cpu, NEW i \in 1..Len(iocq'[l]), kpc'[j] = "complete"
        PROVE  kf'[j] # iocq'[l][i]
    BY <1>0, <1>2, <1>3, <2>3 DEF Apart, AloneInQueue
  <2> QED
    BY <2>1, <2>2, <2>3 DEF AloneInQueue
<1> QED
  BY <1>4, <1>5, <1>6, <1>7 DEF Apart

\* A step keeps the places apart.
LEMMA ApartStep ==
    ASSUME KtioInv, [Next]_vars
    PROVE  Apart'
<1>0. /\ Apart /\ Hands /\ QueueType /\ ThreadType /\ OtherType
      /\ None \notin Frame /\ 0 \in Cpu /\ Home \in [Frame -> Cpu]
  BY TypeParts, KtioAssumption DEF KtioInv, Cpu
<1>1. ASSUME UNCHANGED <<iocq, fstate>>,
             \A u \in Softirq : irq'[u].f = irq[u].f,
             \A k \in Cpu : kpc'[k] = "complete" => kpc[k] = "complete" /\ kf'[k] = kf[k]
      PROVE  Apart'
  <2>1. Answered'
    BY ZenonT(30), <1>0, <1>1 DEF Apart, Answered
  <2>2. AloneInIrq' /\ AloneInHand'
    BY <1>0, <1>1 DEF Apart, AloneInIrq, AloneInHand
  <2>3. AloneInQueue'
    BY <1>0, <1>1 DEF Apart, AloneInQueue
  <2> QED
    BY <2>1, <2>2, <2>3 DEF Apart
<1>2. ASSUME NEW s \in Softirq, NEW f \in Frame, Ktcomplete(s, f)
      PROVE  Apart'
  <2>1. /\ \A u \in Softirq : irq[u].f # f
        /\ \A k \in Cpu : \A i \in 1..Len(iocq[k]) : iocq[k][i] # f
        /\ \A k \in Cpu : kpc[k] = "complete" => kf[k] # f
    BY ZenonT(30), <1>0, <1>2 DEF Ktcomplete, Apart, Answered
  <2>2. fstate'[f] = "answered" /\ \A g \in Frame : g # f => fstate'[g] = fstate[g]
    BY ZenonT(30), <1>0, <1>2 DEF Ktcomplete, OtherType
  <2>3. CASE OwnQueue(Home[f])
    <3>1. \A u \in Softirq : irq'[u].f # f /\ irq'[u].f \in {irq[u].f, None}
      <4> DEFINE w == [pc |-> "wake", f |-> None, id |-> Home[f]]
      <4>1. irq' = [irq EXCEPT ![s] = w]
        BY ZenonT(30), <1>2, <2>3 DEF Ktcomplete, Hash
      <4>2. w.f = None
        OBVIOUS
      <4> HIDE DEF w
      <4>3. \A u \in Softirq : irq'[u] = IF u = s THEN w ELSE irq[u]
        BY ZenonT(30), <1>0, <4>1 DEF OtherType
      <4> QED
        BY ZenonT(30), <1>0, <2>1, <4>2, <4>3
    <3>2. Home[f] \in Cpu /\ iocq' = [iocq EXCEPT ![Home[f]] = Append(@, f)]
      BY ZenonT(30), <1>0, <1>2, <2>3 DEF Ktcomplete, Hash
    <3>3. UNCHANGED <<kpc, kf>>
      BY ZenonT(30), <1>2 DEF Ktcomplete, threadVars
    <3> QED
      BY ZenonT(30), <2>1, <2>2, <3>1, <3>2, <3>3, ApartAppend
  <2>4. CASE ~OwnQueue(Home[f])
    <3>1. /\ irq'[s].f = f /\ \A u \in Softirq : u # s => irq'[u].f = irq[u].f
          /\ UNCHANGED <<iocq, kpc, kf>>
      BY <1>0, <1>2, <2>4 DEF Ktcomplete, Hash, OtherType, threadVars
    <3>2. \A k \in Cpu : kpc[k] = "complete" => kf[k] \in Frame
      BY <1>0 DEF Hands
    <3>3. \A k \in Cpu : \A i \in 1..Len(iocq[k]) : iocq[k][i] \in Frame
      <4>1. ASSUME NEW k \in Cpu PROVE \A i \in 1..Len(iocq[k]) : iocq[k][i] \in Frame
        <5>1. iocq[k] \in Seq(Frame)
          BY <1>0 DEF QueueType
        <5> QED
          BY <5>1
      <4> QED
        BY <4>1
    <3>4. \A u \in Softirq : irq[u].f # None => irq[u].f \in Frame
      BY <1>0 DEF OtherType, IrqType
    <3>5. Answered'
      BY ZenonT(30), <1>0, <2>1, <2>2, <3>1, <3>2, <3>3, <3>4 DEF Apart, Answered
    <3>6. AloneInIrq' /\ AloneInHand'
      BY <1>0, <2>1, <3>1 DEF Apart, AloneInIrq, AloneInHand
    <3>7. AloneInQueue'
      BY <1>0, <2>1, <3>1 DEF Apart, AloneInQueue
    <3> QED
      BY <3>5, <3>6, <3>7 DEF Apart
  <2> QED
    BY <2>3, <2>4
<1>3. ASSUME NEW s \in Softirq, KtcompleteDelegate(s)
      PROVE  Apart'
  <2> DEFINE f == irq[s].f
  <2>1. f \in Frame /\ f # None
    BY <1>0, <1>3 DEF KtcompleteDelegate, Hands, OtherType, IrqType
  <2>2. /\ \A k \in Cpu : \A i \in 1..Len(iocq[k]) : iocq[k][i] # f
        /\ \A k \in Cpu : kpc[k] = "complete" => kf[k] # f
        /\ \A u \in Softirq : u # s => irq[u].f # f
        /\ fstate[f] = "answered"
    BY ZenonT(30), <1>0, <2>1 DEF Apart, Answered, AloneInIrq, AloneInQueue
  <2>3. \A u \in Softirq : irq'[u].f # f /\ irq'[u].f \in {irq[u].f, None}
    BY <1>0, <1>3, <2>1, <2>2 DEF KtcompleteDelegate, OtherType
  <2>4. iocq' = [iocq EXCEPT ![0] = Append(@, f)] /\ UNCHANGED <<kpc, kf, fstate>>
    BY <1>3 DEF KtcompleteDelegate, threadVars
  <2>5. fstate'[f] = "answered" /\ \A g \in Frame : g # f => fstate'[g] = fstate[g]
    BY <2>2, <2>4
  <2> HIDE DEF f
  <2> QED
    BY ZenonT(30), <1>0, <2>1, <2>2, <2>3, <2>4, <2>5, ApartAppend
<1>4. ASSUME NEW s \in Softirq, KtcompleteWake(s)
      PROVE  Apart'
  <2>1. \A u \in Softirq : irq'[u].f = irq[u].f
    BY ZenonT(30), <1>0, <1>4 DEF KtcompleteWake, IrqIdle, Hands, OtherType
  <2> QED
    BY <1>1, <1>4, <2>1 DEF KtcompleteWake, queueVars
<1>5. ASSUME NEW k \in Cpu, KthreadLoop(k) \/ KtioRelock(k)
      PROVE  Apart'
  <2>1. PICK i : Ktio(k, i) /\ UNCHANGED <<irq, fstate>> /\ kpc[k] # "complete"
    BY <1>5 DEF KthreadLoop, KtioRelock
  <2>2. CASE /\ iocq' = iocq /\ kf' = [kf EXCEPT ![k] = None]
             /\ \/ kpc' = [kpc EXCEPT ![k] = "should_stop"]
                \/ kpc' = [kpc EXCEPT ![k] = "schedule"]
    <3>1. \A j \in Cpu : kpc'[j] = "complete" => kpc[j] = "complete" /\ kf'[j] = kf[j]
      BY <1>0, <2>2 DEF ThreadType
    <3> QED
      BY <1>1, <2>1, <2>2, <3>1
  <2>3. CASE /\ iocq[k] # <<>> /\ iocq' = [iocq EXCEPT ![k] = Taken(@)]
             /\ kpc' = [kpc EXCEPT ![k] = "complete"]
             /\ kf' = [kf EXCEPT ![k] = Head(iocq[k])]
    BY ZenonT(30), <2>1, <2>3, ApartTake
  <2> QED
    BY ZenonT(30), <2>1, <2>2, <2>3 DEF Ktio
<1>6. ASSUME NEW k \in Cpu, KtioComplete(k)
      PROVE  Apart'
  <2> DEFINE f == kf[k]
  <2>1. f \in Frame /\ kpc[k] = "complete"
    BY <1>0, <1>6 DEF KtioComplete, Hands
  <2>2. /\ \A j \in Cpu : \A i \in 1..Len(iocq[j]) : iocq[j][i] # f
        /\ \A j \in Cpu : kpc[j] = "complete" /\ j # k => kf[j] # f
        /\ \A u \in Softirq : irq[u].f # f
    BY ZenonT(30), <1>0, <2>1 DEF Apart, AloneInIrq, AloneInHand, AloneInQueue
  <2>3. /\ \A g : g # f => fstate'[g] = fstate[g]
        /\ kpc'[k] # "complete" /\ \A j \in Cpu : j # k => kpc'[j] = kpc[j]
        /\ UNCHANGED <<iocq, irq, kf>>
    BY <1>0, <1>6, <2>1 DEF KtioComplete, OtherType, ThreadType, queueVars
  <2> HIDE DEF f
  <2>4. Answered'
    BY <1>0, <2>2, <2>3 DEF Apart, Answered
  <2>5. AloneInIrq' /\ AloneInHand'
    BY ZenonT(30), <1>0, <2>3 DEF Apart, AloneInIrq, AloneInHand
  <2>6. AloneInQueue'
    BY <1>0, <2>3 DEF Apart, AloneInQueue
  <2> QED
    BY <2>4, <2>5, <2>6 DEF Apart
<1>7. ASSUME NEW k \in Cpu,
             \/ KthreadStart(k) \/ KtioActive(k) \/ KtioSpawned(k)
             \/ KthreadSchedule(k) \/ KthreadShouldStop(k)
      PROVE  Apart'
  <2>1. \A j \in Cpu : kpc'[j] = "complete" => kpc[j] = "complete" /\ kf'[j] = kf[j]
    BY ZenonT(30), <1>0, <1>7
    DEF KthreadStart, KtioActive, KtioSpawned, KthreadSchedule, KthreadShouldStop, ThreadType
  <2>2. UNCHANGED <<iocq, irq, fstate>>
    BY ZenonT(30), <1>7
    DEF KthreadStart, KtioActive, KtioSpawned, KthreadSchedule, KthreadShouldStop, queueVars
  <2> QED
    BY <1>1, <2>1, <2>2
<1>8. ASSUME NEW k \in Cpu, KtioSpawn(k)
      PROVE  Apart'
  <2>1. Home[kf[k]] \in Cpu
    <3>1. kpc[k] = "spawn"
      BY ZenonT(30), <1>8 DEF KtioSpawn
    <3>2. kf[k] \in Frame
      BY ZenonT(30), <1>0, <3>1 DEF Hands
    <3> QED
      BY <1>0, <3>2
  <2>2. \A j \in Cpu : kpc'[j] = "complete" => kpc[j] = "complete" /\ kf'[j] = kf[j]
    BY <1>0, <1>8, <2>1 DEF KtioSpawn, ThreadType
  <2>3. UNCHANGED <<iocq, irq, fstate>>
    BY ZenonT(30), <1>8 DEF KtioSpawn, queueVars
  <2> QED
    BY <1>1, <2>2, <2>3
<1>9. CASE ExitFlush
  <2> DEFINE k == exit.k
             left == {iocq[k][i] : i \in 1..Len(iocq[k])}
  <2>1. k \in Cpu
    BY <1>0 DEF OtherType, ExitType
  <2>2. UNCHANGED <<irq, kpc, kf>>
    BY ZenonT(30), <1>9 DEF ExitFlush, threadVars
  <2>3. CASE Flushes(k)
    <3>1. /\ \A j \in Cpu : j # k => iocq'[j] = iocq[j]
          /\ Len(iocq'[k]) = 0
      BY ZenonT(30), <1>0, <1>9, <2>1, <2>3, Emptied DEF ExitFlush, QueueType
    <3>2. \A g \in Frame : g \notin left => fstate'[g] = fstate[g]
      BY <1>9, <2>3 DEF ExitFlush
    <3>3. ASSUME NEW j \in Cpu, NEW i \in 1..Len(iocq'[j])
          PROVE  /\ j # k /\ i \in 1..Len(iocq[j]) /\ iocq'[j][i] = iocq[j][i]
                 /\ iocq[j][i] \in Frame /\ iocq[j][i] \notin left
      <4>1. j # k
        BY <3>1
      <4>2. iocq[j] \in Seq(Frame)
        BY <1>0 DEF QueueType
      <4>3. i \in 1..Len(iocq[j]) /\ iocq'[j][i] = iocq[j][i]
        BY <3>1, <4>1
      <4>4. iocq[j][i] \in Frame
        BY <4>2, <4>3
      <4> QED
        BY ZenonT(30), <1>0, <2>1, <4>1, <4>3, <4>4 DEF Apart, AloneInQueue
    <3>4. /\ \A u \in Softirq : irq[u].f # None => irq[u].f \in Frame /\ irq[u].f \notin left
          /\ \A j \in Cpu : kpc[j] = "complete" => kf[j] \in Frame /\ kf[j] \notin left
      BY <1>0, <2>1 DEF Hands, OtherType, IrqType, Apart, AloneInQueue
    <3> HIDE DEF left, k
    <3>5. Answered'
      BY <1>0, <2>2, <3>2, <3>3, <3>4 DEF Apart, Answered
    <3>6. AloneInIrq' /\ AloneInHand'
      BY <1>0, <2>2 DEF Apart, AloneInIrq, AloneInHand
    <3>7. AloneInQueue'
      <4>0. AloneInQueue
        BY ZenonT(30), <1>0 DEF Apart
      <4>1. ASSUME NEW j \in Cpu, NEW l \in Cpu, NEW i \in 1..Len(iocq'[j]),
                   NEW m \in 1..Len(iocq'[l]), iocq'[j][i] = iocq'[l][m]
            PROVE  j = l /\ i = m
        <5>1. /\ i \in 1..Len(iocq[j]) /\ iocq'[j][i] = iocq[j][i]
              /\ m \in 1..Len(iocq[l]) /\ iocq'[l][m] = iocq[l][m]
          BY ZenonT(30), <3>3
        <5>2. iocq[j][i] = iocq[l][m]
          BY ZenonT(30), <4>1, <5>1
        <5> QED
          BY <4>0, <5>1, <5>2 DEF AloneInQueue
      <4>2. ASSUME NEW j \in Cpu, NEW i \in 1..Len(iocq'[j])
            PROVE  /\ \A u \in Softirq : irq'[u].f # iocq'[j][i]
                   /\ \A l \in Cpu : kpc'[l] = "complete" => kf'[l] # iocq'[j][i]
        <5>1. i \in 1..Len(iocq[j]) /\ iocq'[j][i] = iocq[j][i]
          BY ZenonT(30), <3>3
        <5>2. /\ \A u \in Softirq : irq[u].f # iocq[j][i]
              /\ \A l \in Cpu : kpc[l] = "complete" => kf[l] # iocq[j][i]
          BY ZenonT(30), <4>0, <5>1 DEF AloneInQueue
        <5> QED
          BY ZenonT(30), <2>2, <5>1, <5>2
      <4> QED
        BY ZenonT(30), <4>1, <4>2 DEF AloneInQueue
    <3> QED
      BY <3>5, <3>6, <3>7 DEF Apart
  <2>4. CASE ~Flushes(k)
    BY ZenonT(30), <1>1, <1>9, <2>2, <2>4 DEF ExitFlush
  <2> QED
    BY <2>3, <2>4
<1>10. CASE UNCHANGED <<iocq, irq, fstate, kpc, kf>>
  BY <1>1, <1>10
<1> QED
  BY ZenonT(60), <1>2, <1>3, <1>4, <1>5, <1>6, <1>7, <1>8, <1>9, <1>10
  DEF Next, vars, queueVars, threadVars, ThreadStep, ExitStep, ExitStart, ExitStop, ExitJoin

\* A step loses no frame.
LEMMA SomewhereStep ==
    ASSUME KtioInv, [Next]_vars
    PROVE  Somewhere'
<1>0. /\ Somewhere /\ Hands /\ QueueType /\ ThreadType /\ OtherType
      /\ None \notin Frame /\ 0 \in Cpu /\ Home \in [Frame -> Cpu]
  BY TypeParts, KtioAssumption DEF KtioInv, Cpu
<1>1. ASSUME UNCHANGED <<iocq, fstate>>,
             \A u \in Softirq : irq'[u].f = irq[u].f,
             \A k \in Cpu : kpc[k] = "complete" => kpc'[k] = "complete" /\ kf'[k] = kf[k]
      PROVE  Somewhere'
  <2> SUFFICES ASSUME NEW f \in Frame, fstate'[f] = "answered"
               PROVE  InIrq(f)' \/ InQueue(f)' \/ InHand(f)'
    BY DEF Somewhere
  <2>1. InIrq(f) \/ InQueue(f) \/ InHand(f)
    BY ZenonT(30), <1>0, <1>1 DEF Somewhere
  <2>2. InIrq(f) => InIrq(f)'
    BY ZenonT(30), <1>1 DEF InIrq
  <2>3. InQueue(f) => InQueue(f)'
    BY <1>1 DEF InQueue
  <2>4. InHand(f) => InHand(f)'
    BY <1>1 DEF InHand
  <2> QED
    BY <2>1, <2>2, <2>3, <2>4
<1>2. ASSUME NEW f \in Frame, NEW id \in Cpu,
             iocq' = [iocq EXCEPT ![id] = Append(@, f)],
             \A u \in Softirq : irq[u].f \in {irq'[u].f, f, None},
             \A g \in Frame : g # f => fstate'[g] = fstate[g],
             UNCHANGED <<kpc, kf>>
      PROVE  Somewhere'
  <2>1. /\ \A k \in Cpu : k # id => iocq'[k] = iocq[k]
        /\ Len(iocq[id]) \in Nat /\ Len(iocq'[id]) = Len(iocq[id]) + 1
        /\ \A i \in 1..Len(iocq[id]) : iocq'[id][i] = iocq[id][i]
        /\ iocq'[id][Len(iocq[id]) + 1] = f
    BY ZenonT(30), <1>0, <1>2, Appended DEF QueueType
  <2>2. InQueue(f)'
    <3>1. Len(iocq[id]) + 1 \in 1..Len(iocq'[id])
      BY <2>1
    <3> QED
      BY <2>1, <3>1 DEF InQueue
  <2>3. ASSUME NEW g \in Frame, g # f, fstate'[g] = "answered"
        PROVE  InIrq(g)' \/ InQueue(g)' \/ InHand(g)'
    <3>1. InIrq(g) \/ InQueue(g) \/ InHand(g)
      BY <1>0, <1>2, <2>3 DEF Somewhere
    <3>2. CASE InIrq(g)
      BY <1>0, <1>2, <2>3, <3>2 DEF InIrq
    <3>3. CASE InQueue(g)
      <4>0. PICK k \in Cpu : \E m \in 1..Len(iocq[k]) : iocq[k][m] = g
        BY <3>3 DEF InQueue
      <4>1. PICK i \in 1..Len(iocq[k]) : iocq[k][i] = g
        BY <4>0
      <4>2. i \in 1..Len(iocq'[k]) /\ iocq'[k][i] = g
        BY <2>1, <4>1
      <4> QED
        BY <4>2 DEF InQueue
    <3>4. CASE InHand(g)
      BY <1>2, <3>4 DEF InHand
    <3> QED
      BY <3>1, <3>2, <3>3, <3>4
  <2> QED
    BY <2>2, <2>3 DEF Somewhere
<1>3. ASSUME NEW s \in Softirq, NEW f \in Frame, Ktcomplete(s, f)
      PROVE  Somewhere'
  <2>1. irq[s].f = None /\ \A g \in Frame : g # f => fstate'[g] = fstate[g]
    BY ZenonT(30), <1>0, <1>3 DEF Ktcomplete, Hands, OtherType
  <2>2. UNCHANGED <<kpc, kf>>
    BY ZenonT(30), <1>3 DEF Ktcomplete, threadVars
  <2>3. CASE OwnQueue(Home[f])
    <3>1. \A u \in Softirq : irq[u].f \in {irq'[u].f, f, None}
      <4> DEFINE w == [pc |-> "wake", f |-> None, id |-> Home[f]]
      <4>1. irq' = [irq EXCEPT ![s] = w]
        BY ZenonT(30), <1>3, <2>3 DEF Ktcomplete, Hash
      <4>2. w.f = None
        OBVIOUS
      <4> HIDE DEF w
      <4>3. \A u \in Softirq : irq'[u] = IF u = s THEN w ELSE irq[u]
        BY ZenonT(30), <1>0, <4>1 DEF OtherType
      <4> QED
        BY ZenonT(30), <2>1, <4>2, <4>3
    <3>2. Home[f] \in Cpu /\ iocq' = [iocq EXCEPT ![Home[f]] = Append(@, f)]
      BY <1>0, <1>3, <2>3 DEF Ktcomplete, Hash
    <3> QED
      BY ZenonT(30), <1>2, <2>1, <2>2, <3>1, <3>2
  <2>4. CASE ~OwnQueue(Home[f])
    <3>1. /\ irq'[s].f = f /\ \A u \in Softirq : u # s => irq'[u].f = irq[u].f
          /\ UNCHANGED iocq
      BY <1>0, <1>3, <2>4 DEF Ktcomplete, Hash, OtherType
    <3>2. InIrq(f)'
      BY <3>1 DEF InIrq
    <3>3. \A g \in Frame : InIrq(g) => InIrq(g)'
      BY <1>0, <2>1, <3>1 DEF InIrq
    <3>4. \A g \in Frame : (InQueue(g) => InQueue(g)') /\ (InHand(g) => InHand(g)')
      BY ZenonT(30), <2>2, <3>1 DEF InQueue, InHand
    <3> QED
      BY ZenonT(30), <1>0, <2>1, <3>2, <3>3, <3>4 DEF Somewhere
  <2> QED
    BY <2>3, <2>4
<1>4. ASSUME NEW s \in Softirq, KtcompleteDelegate(s)
      PROVE  Somewhere'
  <2>1. irq[s].f \in Frame
    BY ZenonT(30), <1>0, <1>4 DEF KtcompleteDelegate, Hands, OtherType, IrqType
  <2>2. \A u \in Softirq : irq[u].f \in {irq'[u].f, irq[s].f, None}
    BY <1>0, <1>4 DEF KtcompleteDelegate, OtherType
  <2>3. /\ iocq' = [iocq EXCEPT ![0] = Append(@, irq[s].f)]
        /\ UNCHANGED <<kpc, kf>> /\ \A g \in Frame : g # irq[s].f => fstate'[g] = fstate[g]
    BY <1>4 DEF KtcompleteDelegate, threadVars
  <2> QED
    BY ZenonT(30), <1>0, <1>2, <2>1, <2>2, <2>3
<1>5. ASSUME NEW s \in Softirq, KtcompleteWake(s)
      PROVE  Somewhere'
  <2>1. \A u \in Softirq : irq'[u].f = irq[u].f
    BY <1>0, <1>5 DEF KtcompleteWake, IrqIdle, Hands, OtherType
  <2>2. UNCHANGED <<iocq, fstate, kpc, kf>>
    BY ZenonT(30), <1>5 DEF KtcompleteWake, queueVars
  <2> QED
    BY ZenonT(30), <1>1, <2>1, <2>2
<1>6. ASSUME NEW k \in Cpu, KthreadLoop(k) \/ KtioRelock(k)
      PROVE  Somewhere'
  <2>1. PICK i : Ktio(k, i) /\ UNCHANGED <<irq, fstate>> /\ kpc[k] # "complete"
    BY <1>6 DEF KthreadLoop, KtioRelock
  <2>2. \A j \in Cpu : kpc[j] = "complete" => kpc'[j] = "complete" /\ kf'[j] = kf[j]
    BY <1>0, <2>1 DEF Ktio, ThreadType
  <2>3. CASE iocq' = iocq
    BY <1>1, <2>1, <2>2, <2>3
  <2>4. CASE /\ iocq[k] # <<>> /\ iocq' = [iocq EXCEPT ![k] = Taken(@)]
             /\ kpc' = [kpc EXCEPT ![k] = "complete"]
             /\ kf' = [kf EXCEPT ![k] = Head(iocq[k])]
    <3>1. /\ \A j \in Cpu : j # k => iocq'[j] = iocq[j]
          /\ Len(iocq[k]) \in Nat /\ Len(iocq[k]) > 0 /\ Len(iocq'[k]) = Len(iocq[k]) - 1
          /\ \A n \in 1..(Len(iocq[k]) - 1) : iocq'[k][n] = iocq[k][n + 1]
          /\ Head(iocq[k]) = iocq[k][1]
      BY ZenonT(30), <1>0, <2>4, Shortened DEF QueueType
    <3>2. kpc'[k] = "complete" /\ kf'[k] = iocq[k][1]
      BY <1>0, <2>4, <3>1 DEF ThreadType
    <3>3. ASSUME NEW g \in Frame, InQueue(g) PROVE InQueue(g)' \/ InHand(g)'
      <4>0. PICK j \in Cpu : \E m \in 1..Len(iocq[j]) : iocq[j][m] = g
        BY <3>3 DEF InQueue
      <4>1. PICK n \in 1..Len(iocq[j]) : iocq[j][n] = g
        BY <4>0
      <4>2. CASE j # k
        BY <3>1, <4>1, <4>2 DEF InQueue
      <4>3. CASE j = k /\ n = 1
        BY <3>2, <4>1, <4>3 DEF InHand
      <4>4. CASE j = k /\ n # 1
        <5>1. n - 1 \in 1..Len(iocq'[k]) /\ iocq'[k][n - 1] = g
          <6>1. n - 1 \in 1..(Len(iocq[k]) - 1) /\ (n - 1) + 1 = n
            BY <3>1, <4>1, <4>4
          <6> QED
            BY <3>1, <4>1, <4>4, <6>1
        <5> QED
          BY <5>1 DEF InQueue
      <4> QED
        BY <4>2, <4>3, <4>4
    <3>4. \A g \in Frame : (InIrq(g) => InIrq(g)') /\ (InHand(g) => InHand(g)')
      BY <2>1, <2>2 DEF InIrq, InHand
    <3> QED
      BY <1>0, <2>1, <3>3, <3>4 DEF Somewhere
  <2> QED
    BY ZenonT(30), <2>1, <2>3, <2>4 DEF Ktio
<1>7. ASSUME NEW k \in Cpu, KtioComplete(k)
      PROVE  Somewhere'
  <2>1. kf[k] \in Frame /\ fstate'[kf[k]] = "out"
    BY <1>0, <1>7 DEF KtioComplete, Hands, OtherType
  <2>2. /\ \A g \in Frame : g # kf[k] => fstate'[g] = fstate[g]
        /\ \A j \in Cpu : j # k => kpc'[j] = kpc[j]
        /\ UNCHANGED <<iocq, irq, kf>>
    BY <1>0, <1>7, <2>1 DEF KtioComplete, OtherType, ThreadType, queueVars
  <2> QED
    BY <1>0, <2>1, <2>2 DEF Somewhere, InIrq, InQueue, InHand
<1>8. ASSUME NEW k \in Cpu,
             \/ KthreadStart(k) \/ KtioActive(k) \/ KtioSpawned(k)
             \/ KthreadSchedule(k) \/ KthreadShouldStop(k)
      PROVE  Somewhere'
  <2>1. \A j \in Cpu : kpc[j] = "complete" => kpc'[j] = "complete" /\ kf'[j] = kf[j]
    BY ZenonT(30), <1>0, <1>8
    DEF KthreadStart, KtioActive, KtioSpawned, KthreadSchedule, KthreadShouldStop, ThreadType
  <2>2. UNCHANGED <<iocq, irq, fstate>>
    BY ZenonT(30), <1>8
    DEF KthreadStart, KtioActive, KtioSpawned, KthreadSchedule, KthreadShouldStop, queueVars
  <2> QED
    BY <1>1, <2>1, <2>2
<1>9. ASSUME NEW k \in Cpu, KtioSpawn(k)
      PROVE  Somewhere'
  <2>1. Home[kf[k]] \in Cpu /\ k = 0 /\ Life
    BY ZenonT(30), <1>0, <1>9 DEF KtioSpawn, Hands, KtioInv, Life
  <2>2. \A j \in Cpu : kpc[j] = "complete" => kpc'[j] = "complete" /\ kf'[j] = kf[j]
    BY <1>0, <1>9, <2>1 DEF KtioSpawn, ThreadType, Life
  <2>3. UNCHANGED <<iocq, irq, fstate>>
    BY ZenonT(30), <1>9 DEF KtioSpawn, queueVars
  <2> QED
    BY <1>1, <2>2, <2>3
<1>10. CASE ExitFlush
  <2>1. UNCHANGED <<irq, kpc, kf>> /\ exit.k \in Cpu
    BY <1>0, <1>10 DEF ExitFlush, threadVars, OtherType, ExitType
  <2>2. CASE Flushes(exit.k)
    <3>1. /\ \A j \in Cpu : j # exit.k => iocq'[j] = iocq[j]
          /\ Len(iocq'[exit.k]) = 0
      BY ZenonT(30), <1>0, <1>10, <2>1, <2>2, Emptied DEF ExitFlush, QueueType
    <3>2. \A g \in Frame :
            IF \E i \in 1..Len(iocq[exit.k]) : iocq[exit.k][i] = g
            THEN fstate'[g] = "failed" ELSE fstate'[g] = fstate[g]
      BY <1>10, <2>2 DEF ExitFlush
    <3>3. ASSUME NEW g \in Frame, InQueue(g), fstate'[g] = "answered" PROVE InQueue(g)'
      <4>0. PICK j \in Cpu : \E m \in 1..Len(iocq[j]) : iocq[j][m] = g
        BY <3>3 DEF InQueue
      <4>1. PICK n \in 1..Len(iocq[j]) : iocq[j][n] = g
        BY <4>0
      <4>2. j # exit.k
        BY <3>2, <3>3, <4>1
      <4> QED
        BY <3>1, <4>1, <4>2 DEF InQueue
    <3>4. \A g \in Frame : (InIrq(g) => InIrq(g)') /\ (InHand(g) => InHand(g)')
      BY <2>1 DEF InIrq, InHand
    <3>5. \A g \in Frame : fstate'[g] = "answered" => fstate[g] = "answered"
      BY <3>2
    <3> QED
      BY ZenonT(30), <1>0, <3>3, <3>4, <3>5 DEF Somewhere
  <2>3. CASE ~Flushes(exit.k)
    BY <1>1, <1>10, <2>1, <2>3 DEF ExitFlush
  <2> QED
    BY <2>2, <2>3
<1>11. CASE UNCHANGED <<iocq, irq, fstate, kpc, kf>>
  BY <1>1, <1>11
<1> QED
  BY ZenonT(60), <1>3, <1>4, <1>5, <1>6, <1>7, <1>8, <1>9, <1>10, <1>11
  DEF Next, vars, queueVars, threadVars, ThreadStep, ExitStep, ExitStart, ExitStop, ExitJoin

----------------------------------------------------------------------------
(* Theorems.                                                               *)

\* The invariant holds always.
LEMMA KtioInvariant == Spec => []KtioInv
<1>1. KtioInv /\ [Next]_vars => KtioInv'
  BY TypeStep, HandsStep, LifeStep, HomesStep, SleepsStep, UnloadStep, ApartStep,
     SomewhereStep
  DEF KtioInv
<1> QED
  BY InitKtio, <1>1, PTL DEF Spec

\* A place, in the words of the invariant.
LEMMA PlacesOf ==
    ASSUME NEW f \in Frame, NEW p
    PROVE  p \in Places(f) <=>
             \/ \E s \in Softirq : p = <<"irq", s, 0>> /\ irq[s].f = f
             \/ \E k \in Cpu : \E i \in 1..Len(iocq[k]) :
                  p = <<"iocq", k, i>> /\ iocq[k][i] = f
             \/ \E k \in Cpu : p = <<"ktio", k, 0>> /\ kpc[k] = "complete" /\ kf[k] = f
<1> DEFINE A == {<<"irq", s, 0>> : s \in {s \in Softirq : irq[s].f = f}}
           Q(k) == {<<"iocq", k, i>> : i \in {i \in 1..Len(iocq[k]) : iocq[k][i] = f}}
           B == UNION {Q(k) : k \in Cpu}
           C == {<<"ktio", k, 0>> : k \in {k \in Cpu : kpc[k] = "complete" /\ kf[k] = f}}
<1>1. p \in A <=> \E s \in Softirq : p = <<"irq", s, 0>> /\ irq[s].f = f
  OBVIOUS
<1>2. p \in B <=> \E k \in Cpu : \E i \in 1..Len(iocq[k]) :
                     p = <<"iocq", k, i>> /\ iocq[k][i] = f
  <2>1. \A k \in Cpu : p \in Q(k) <=> \E i \in 1..Len(iocq[k]) :
                                         p = <<"iocq", k, i>> /\ iocq[k][i] = f
    OBVIOUS
  <2>2. p \in B <=> \E k \in Cpu : p \in Q(k)
    BY ZenonT(30)
  <2> QED
    BY ZenonT(30), <2>1, <2>2
<1>3. p \in C <=> \E k \in Cpu : p = <<"ktio", k, 0>> /\ kpc[k] = "complete" /\ kf[k] = f
  OBVIOUS
<1>4. p \in Places(f) <=> p \in A \/ p \in B \/ p \in C
  BY ZenonT(30) DEF Places
<1> HIDE DEF A, B, C
<1> QED
  BY ZenonT(30), <1>1, <1>2, <1>3, <1>4

\* Every variable of the threads, queues and softirqs keeps its type; a
\* completion is never completed twice before somebody waits for it.
THEOREM KtioTypes == Spec => []TypeOK
BY KtioInvariant, PTL DEF KtioInv

\* An answered frame is in exactly one place, so that it is completed once,
\* however ktcomplete delegated it and threads were spawned.
THEOREM FrameInOnePlace == Spec => []OnePlace
<1>1. ASSUME KtioInv, NEW f \in Frame
      PROVE  IF fstate[f] = "answered"
             THEN \E p \in Places(f) : Places(f) = {p} ELSE Places(f) = {}
  <2>0. Apart /\ Somewhere /\ f # None
    BY <1>1, KtioAssumption DEF KtioInv
  <2>1. CASE fstate[f] # "answered"
    BY <2>0, <2>1, PlacesOf DEF Apart, Answered
  <2>2. CASE fstate[f] = "answered"
    <3>1. InIrq(f) \/ InQueue(f) \/ InHand(f)
      BY <2>0, <2>2 DEF Somewhere
    <3>2. ASSUME NEW p, NEW q, p \in Places(f), q \in Places(f) PROVE p = q
      <4> DEFINE I(x, s) == x = <<"irq", s, 0>> /\ irq[s].f = f
                 Q(x, k, i) == x = <<"iocq", k, i>> /\ iocq[k][i] = f
                 H(x, k) == x = <<"ktio", k, 0>> /\ kpc[k] = "complete" /\ kf[k] = f
      <4>1. \A x \in {p, q} :
              \/ \E s \in Softirq : I(x, s)
              \/ \E k \in Cpu : \E i \in 1..Len(iocq[k]) : Q(x, k, i)
              \/ \E k \in Cpu : H(x, k)
        BY ZenonT(30), <3>2, PlacesOf
      <4>2. CASE \E s \in Softirq : I(p, s)
        BY <2>0, <4>1, <4>2 DEF Apart, AloneInIrq, AloneInQueue
      <4>3. CASE \E k \in Cpu : \E i \in 1..Len(iocq[k]) : Q(p, k, i)
        BY <2>0, <4>1, <4>3 DEF Apart, AloneInQueue
      <4>4. CASE \E k \in Cpu : H(p, k)
        BY <2>0, <4>1, <4>4 DEF Apart, AloneInIrq, AloneInHand, AloneInQueue
      <4> QED
        BY ZenonT(30), <4>1, <4>2, <4>3, <4>4
    <3>3. \E p : p \in Places(f)
      <4>1. CASE InIrq(f)
        <5>1. PICK s \in Softirq : irq[s].f = f
          BY <4>1 DEF InIrq
        <5>2. <<"irq", s, 0>> \in Places(f)
          BY <5>1, PlacesOf
        <5> QED
          BY <5>2
      <4>2. CASE InQueue(f)
        <5>1. PICK k \in Cpu : \E i \in 1..Len(iocq[k]) : iocq[k][i] = f
          BY <4>2 DEF InQueue
        <5>2. PICK i \in 1..Len(iocq[k]) : iocq[k][i] = f
          BY <5>1
        <5>3. <<"iocq", k, i>> \in Places(f)
          BY <5>2, PlacesOf
        <5> QED
          BY <5>3
      <4>3. CASE InHand(f)
        <5>1. PICK k \in Cpu : kpc[k] = "complete" /\ kf[k] = f
          BY <4>3 DEF InHand
        <5>2. <<"ktio", k, 0>> \in Places(f)
          BY <5>1, PlacesOf
        <5> QED
          BY <5>2
      <4> QED
        BY <3>1, <4>1, <4>2, <4>3
    <3> QED
      BY ZenonT(30), <2>2, <3>2, <3>3
  <2> QED
    BY <2>1, <2>2
<1>2. KtioInv => OnePlace
  BY <1>1 DEF OnePlace
<1> QED
  BY <1>2, KtioInvariant, PTL

\* No thread sleeps beside a frame unless its wake-up is on the way (ktcomplete
\* and kthread).
THEOREM NoMissedWakeup == Spec => []NoSleepOnWork
BY KtioInvariant, PTL DEF KtioInv, Sleeps

\* BUG_ON(id != 0) of ktio does not fire.
THEOREM BugNeverFires == Spec => []NoBug
<1>1. KtioInv => NoBug
  BY ZenonT(30) DEF KtioInv, Homes, NoBug
<1> QED
  BY <1>1, KtioInvariant, PTL

\* aoecmd_exit leaves neither a thread nor an answered frame.
THEOREM UnloadLeavesNothing == Spec => []NothingLeft
<1>1. ASSUME KtioInv, exit.pc = "unloaded"
      PROVE  /\ \A k \in Cpu : kpc[k] \in {"none", "exited"}
             /\ \A f \in Frame : fstate[f] # "answered"
  <2>1. /\ \A k \in Cpu : kpc[k] \in {"none", "exited"}
        /\ \A s \in Softirq : irq[s].pc = "idle"
        /\ \A k \in Cpu : iocq[k] = <<>>
    BY ZenonT(30), <1>1 DEF KtioInv, Unload
  <2>2. \A f \in Frame : ~InIrq(f)
    BY <1>1, <2>1, KtioAssumption DEF KtioInv, Hands, InIrq
  <2>3. \A f \in Frame : ~InQueue(f)
    <3>1. \A k \in Cpu : 1..Len(iocq[k]) = {}
      BY <2>1
    <3> QED
      BY <3>1 DEF InQueue
  <2>4. \A f \in Frame : ~InHand(f)
    BY <2>1 DEF InHand
  <2> QED
    BY <1>1, <2>1, <2>2, <2>3, <2>4 DEF KtioInv, Somewhere
<1>2. KtioInv => NothingLeft
  BY <1>1 DEF NothingLeft
<1> QED
  BY <1>2, KtioInvariant, PTL
=============================================================================
