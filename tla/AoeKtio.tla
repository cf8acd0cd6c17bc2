------------------------------ MODULE AoeKtio -------------------------------
(***************************************************************************)
(* The threads that complete I/O (aoecmd.c: ktcomplete, kthread, ktio,     *)
(* aoe_ktstart, aoe_ktstop, aoe_flush_iocq, aoecmd_init, aoecmd_exit).  A  *)
(* softirq puts an answered frame on the queue of the CPU that its device  *)
(* hashes to, if the thread of that CPU has been spawned, else on queue 0; *)
(* thread 0 spawns the missing ones.  On unload the threads are stopped    *)
(* and what they left behind is failed.                                    *)
(*                                                                         *)
(* Each step is one section under iocq[id].lock or one access without it.  *)
(* A thread sleeps as kernel threads do: it puts itself on a wait queue    *)
(* with the state TASK_INTERRUPTIBLE and calls schedule(), which returns   *)
(* at once if somebody has made it runnable in the meantime.               *)
(*                                                                         *)
(* Abstractions.  ktiocomplete is one step (AoeIo has the details); a      *)
(* frame that was completed is sent and answered again.                    *)
(***************************************************************************)
EXTENDS Integers, Sequences

CONSTANTS
    NCpus,      \* ncpus
    Frame,      \* frames that may be answered
    Home,       \* f->t->d->aoeminor % ncpus
    Softirq,    \* contexts in ktcomplete
    MaxIoc,     \* aoe_maxioc, zero for no limit
    Exits,      \* whether the module is unloaded
    None

Cpu == 0..(NCpus - 1)

ASSUME KtioAssumption ==
    /\ NCpus \in Nat \ {0}
    /\ Home \in [Frame -> Cpu]
    /\ MaxIoc \in Nat
    /\ Exits \in BOOLEAN
    /\ None \notin Frame

VARIABLES
    iocq,       \* the queues
    active,     \* kts[id].active
    rendez,     \* the count of the completion kts[id].rendez
    kpc,        \* where a thread is
    kf,         \* the frame that it took
    ki,         \* i in ktio
    runnable,   \* FALSE while its state is TASK_INTERRUPTIBLE
    onwaitq,    \* it is on ktiowq[id]
    stop,       \* what kthread_should_stop tells it
    irq,        \* what a softirq does, with which frame and queue
    fstate,     \* a frame is "out", "answered", or "failed" by aoecmd_exit
    exit        \* where aoecmd_exit is, and with which CPU

queueVars == <<iocq, active>>
threadVars == <<rendez, kpc, kf, ki, runnable, onwaitq, stop>>
vars == <<queueVars, threadVars, irq, fstate, exit>>

IrqIdle == [pc |-> "idle", f |-> None, id |-> 0]

\* aoecmd_init has returned: thread 0 runs.
Init ==
    /\ iocq = [k \in Cpu |-> <<>>]
    /\ active = [k \in Cpu |-> k = 0]
    /\ rendez = [k \in Cpu |-> 0]
    /\ kpc = [k \in Cpu |-> IF k = 0 THEN "loop" ELSE "none"]
    /\ kf = [k \in Cpu |-> None] /\ ki = [k \in Cpu |-> 0]
    /\ runnable = [k \in Cpu |-> TRUE] /\ onwaitq = [k \in Cpu |-> FALSE]
    /\ stop = [k \in Cpu |-> FALSE]
    /\ irq = [s \in Softirq |-> IrqIdle]
    /\ fstate = [f \in Frame |-> "out"]
    /\ exit = [pc |-> "loaded", k |-> 0]

----------------------------------------------------------------------------
(* ktcomplete, in a softirq.                                               *)

\* f->t->d->aoeminor % ncpus
HashShifted(f) == (Home[f] + 1) % NCpus
Hash(f) == Home[f]

\* The test of active under the lock of the frame's own queue, which is used
\* if the thread is there.
OwnQueueIgnoresActive(k) == TRUE
OwnQueue(k) == active[k]

Ktcomplete(s, f) ==
    LET id == Hash(f)
    IN /\ irq[s].pc = "idle"
       /\ exit.pc = "loaded"
       /\ fstate[f] = "out"
       /\ \/ /\ OwnQueue(id)
             /\ iocq' = [iocq EXCEPT ![id] = Append(@, f)]
             /\ irq' = [irq EXCEPT ![s] = [pc |-> "wake", f |-> None, id |-> id]]
          \/ /\ ~OwnQueue(id)
             /\ irq' = [irq EXCEPT ![s] = [pc |-> "delegate", f |-> f, id |-> 0]]
             /\ UNCHANGED iocq
       /\ fstate' = [fstate EXCEPT ![f] = "answered"]
       /\ UNCHANGED <<active, threadVars, exit>>

\* The main thread gets the work.
KtcompleteDelegate(s) ==
    /\ irq[s].pc = "delegate"
    /\ iocq' = [iocq EXCEPT ![0] = Append(@, irq[s].f)]
    /\ irq' = [irq EXCEPT ![s] = [pc |-> "wake", f |-> None, id |-> 0]]
    /\ UNCHANGED <<active, threadVars, fstate, exit>>

\* wake_up(&ktiowq[id])
KtcompleteWake(s) ==
    /\ irq[s].pc = "wake"
    /\ runnable' = [runnable EXCEPT ![irq[s].id] = @ \/ onwaitq[irq[s].id]]
    /\ irq' = [irq EXCEPT ![s] = IrqIdle]
    /\ UNCHANGED <<queueVars, rendez, kpc, kf, ki, onwaitq, stop, fstate, exit>>

----------------------------------------------------------------------------
(* kthread and ktio.                                                       *)

\* complete(&k->rendez) in a new thread
KthreadStart(k) ==
    /\ kpc[k] = "born"
    /\ rendez' = [rendez EXCEPT ![k] = @ + 1]
    /\ kpc' = [kpc EXCEPT ![k] = "loop"]
    /\ UNCHANGED <<queueVars, kf, ki, runnable, onwaitq, stop, irq, fstate, exit>>

\* add_wait_queue and __set_current_state, still under the lock
SleepUnqueued(k) ==
    /\ runnable' = [runnable EXCEPT ![k] = FALSE]
    /\ UNCHANGED onwaitq
Sleep(k) ==
    /\ runnable' = [runnable EXCEPT ![k] = FALSE]
    /\ onwaitq' = [onwaitq EXCEPT ![k] = TRUE]

\* list_del(pos)
TakenNot(q) == q
Taken(q) == Tail(q)

\* The section of ktio that holds the lock, as the i-th time around: enough has
\* been fstate, there is nothing to do, or a frame is taken.
Ktio(k, i) ==
    \/ /\ MaxIoc # 0 /\ i >= MaxIoc
       /\ kpc' = [kpc EXCEPT ![k] = "should_stop"]
       /\ kf' = [kf EXCEPT ![k] = None] /\ ki' = [ki EXCEPT ![k] = 0]
       /\ UNCHANGED <<iocq, runnable, onwaitq>>
    \/ /\ MaxIoc = 0 \/ i < MaxIoc
       /\ iocq[k] = <<>>
       /\ Sleep(k)
       /\ kpc' = [kpc EXCEPT ![k] = "schedule"]
       /\ kf' = [kf EXCEPT ![k] = None] /\ ki' = [ki EXCEPT ![k] = 0]
       /\ UNCHANGED iocq
    \/ /\ MaxIoc = 0 \/ i < MaxIoc
       /\ iocq[k] # <<>>
       /\ kf' = [kf EXCEPT ![k] = Head(iocq[k])]
       /\ iocq' = [iocq EXCEPT ![k] = Taken(@)]
       /\ ki' = [ki EXCEPT ![k] = IF MaxIoc = 0 THEN 0 ELSE i]
       /\ kpc' = [kpc EXCEPT ![k] = "complete"]
       /\ UNCHANGED <<runnable, onwaitq>>

KthreadLoop(k) ==
    /\ kpc[k] = "loop"
    /\ Ktio(k, 0)
    /\ UNCHANGED <<active, rendez, stop, irq, fstate, exit>>

\* ktiocomplete(f)
KtioComplete(k) ==
    /\ kpc[k] = "complete"
    /\ fstate' = [fstate EXCEPT ![kf[k]] = "out"]
    /\ kpc' = [kpc EXCEPT ![k] = "active"]
    /\ UNCHANGED <<queueVars, rendez, kf, ki, runnable, onwaitq, stop, irq, exit>>

\* The test of active without a lock.
KtioActive(k) ==
    /\ kpc[k] = "active"
    /\ kpc' = [kpc EXCEPT ![k] = IF active[Home[kf[k]]] THEN "relock"
                                 ELSE IF k # 0 THEN "BUG_ON" ELSE "spawn"]
    /\ UNCHANGED <<queueVars, rendez, kf, ki, runnable, onwaitq, stop, irq, fstate, exit>>

\* Under ktio_spawn_lock: aoe_ktstart, whose kthread_run may fail.
KtioSpawn(k) ==
    LET j == Home[kf[k]]
    IN /\ kpc[k] = "spawn"
       /\ \/ /\ ~active[j]
             /\ kpc' = [kpc EXCEPT ![k] = "rendez", ![j] = "born"]
             /\ rendez' = [rendez EXCEPT ![j] = 0]
          \/ /\ kpc' = [kpc EXCEPT ![k] = "relock"]
             /\ UNCHANGED rendez
       /\ UNCHANGED <<queueVars, kf, ki, runnable, onwaitq, stop, irq, fstate, exit>>

\* aoe_ktstart has waited for the new thread, and init_completion follows.
KtioSpawned(k) ==
    LET j == Home[kf[k]]
    IN /\ kpc[k] = "rendez"
       /\ rendez[j] > 0
       /\ rendez' = [rendez EXCEPT ![j] = 0]
       /\ active' = [active EXCEPT ![j] = TRUE]
       /\ kpc' = [kpc EXCEPT ![k] = "relock"]
       /\ UNCHANGED <<iocq, kf, ki, runnable, onwaitq, stop, irq, fstate, exit>>

\* The next time around.
KtioRelock(k) ==
    /\ kpc[k] = "relock"
    /\ Ktio(k, ki[k] + 1)
    /\ UNCHANGED <<active, rendez, stop, irq, fstate, exit>>

\* schedule() returns when somebody has made the thread runnable.
KthreadSchedule(k) ==
    /\ kpc[k] = "schedule"
    /\ runnable[k]
    /\ onwaitq' = [onwaitq EXCEPT ![k] = FALSE]
    /\ kpc' = [kpc EXCEPT ![k] = "should_stop"]
    /\ UNCHANGED <<queueVars, rendez, kf, ki, runnable, stop, irq, fstate, exit>>

\* complete(&k->rendez), the last that a thread does
TellNot(n) == n
Tell(n) == n + 1

\* kthread_should_stop()
KthreadShouldStop(k) ==
    /\ kpc[k] = "should_stop"
    /\ \/ /\ stop[k]
          /\ rendez' = [rendez EXCEPT ![k] = Tell(@)]
          /\ kpc' = [kpc EXCEPT ![k] = "exited"]
       \/ /\ ~stop[k]
          /\ kpc' = [kpc EXCEPT ![k] = "loop"]
          /\ UNCHANGED rendez
    /\ UNCHANGED <<queueVars, kf, ki, runnable, onwaitq, stop, irq, fstate, exit>>

----------------------------------------------------------------------------
(* aoecmd_exit.  Before it, aoenet_exit has removed the packet handler and *)
(* waited for the softirqs that were in it.                                *)

ExitStart ==
    /\ Exits
    /\ exit.pc = "loaded"
    /\ \A s \in Softirq : irq[s].pc = "idle"
    /\ exit' = [pc |-> "stop", k |-> 0]
    /\ UNCHANGED <<queueVars, threadVars, irq, fstate>>

\* The next CPU, and after the last one the next loop.
NextCpu(pc, after) ==
    exit' = IF exit.k + 1 < NCpus THEN [pc |-> pc, k |-> exit.k + 1]
                                  ELSE [pc |-> after, k |-> 0]

\* aoe_ktstop: kthread_stop sets the flag, makes the thread runnable and waits.
ExitStop ==
    LET k == exit.k
    IN /\ exit.pc = "stop"
       /\ \/ /\ active[k]
             /\ stop' = [stop EXCEPT ![k] = TRUE]
             /\ runnable' = [runnable EXCEPT ![k] = TRUE]
             /\ exit' = [exit EXCEPT !.pc = "join"]
          \/ /\ ~active[k]
             /\ NextCpu("stop", "flush")
             /\ UNCHANGED <<stop, runnable>>
       /\ UNCHANGED <<queueVars, rendez, kpc, kf, ki, onwaitq, irq, fstate>>

\* The thread is gone: wait_for_completion(&k->rendez).
ExitJoin ==
    LET k == exit.k
    IN /\ exit.pc = "join"
       /\ kpc[k] = "exited" /\ rendez[k] > 0
       /\ rendez' = [rendez EXCEPT ![k] = @ - 1]
       /\ NextCpu("stop", "flush")
       /\ UNCHANGED <<queueVars, kpc, kf, ki, runnable, onwaitq, stop, irq, fstate>>

\* The queues that aoe_flush_iocq empties.
FlushesMain(k) == k = 0
Flushes(k) == active[k]

\* aoe_flush_iocq: the frames of a queue are failed.
ExitFlush ==
    LET k == exit.k
        left == {iocq[k][i] : i \in 1..Len(iocq[k])}
    IN /\ exit.pc = "flush"
       /\ \/ /\ Flushes(k)
             /\ iocq' = [iocq EXCEPT ![k] = <<>>]
             /\ fstate' = [f \in Frame |-> IF f \in left THEN "failed" ELSE fstate[f]]
          \/ /\ ~Flushes(k)
             /\ UNCHANGED <<iocq, fstate>>
       /\ NextCpu("flush", "unloaded")
       /\ UNCHANGED <<active, threadVars, irq>>

----------------------------------------------------------------------------

ThreadStep(k) ==
    \/ KthreadStart(k) \/ KthreadLoop(k) \/ KtioComplete(k) \/ KtioActive(k)
    \/ KtioSpawn(k) \/ KtioSpawned(k) \/ KtioRelock(k)
    \/ KthreadSchedule(k) \/ KthreadShouldStop(k)

ExitStep == ExitStop \/ ExitJoin \/ ExitFlush

Next ==
    \/ \E s \in Softirq :
         \/ \E f \in Frame : Ktcomplete(s, f)
         \/ KtcompleteDelegate(s) \/ KtcompleteWake(s)
    \/ \E k \in Cpu : ThreadStep(k)
    \/ ExitStart \/ ExitStep

Spec == Init /\ [][Next]_vars

\* Threads, softirqs and the unload go on; no answer has to come, and
\* kthread_run may fail forever.
Fairness ==
    /\ \A s \in Softirq : WF_vars(KtcompleteDelegate(s) \/ KtcompleteWake(s))
    /\ \A k \in Cpu : WF_vars(ThreadStep(k))
    /\ WF_vars(ExitStep)

FairSpec == Spec /\ Fairness

----------------------------------------------------------------------------
(* Correctness.                                                            *)

\* Every variable has its type; a completion is never completed twice before
\* somebody has waited for it.
TypeOK ==
    /\ iocq \in [Cpu -> Seq(Frame)] /\ active \in [Cpu -> BOOLEAN]
    /\ rendez \in [Cpu -> 0..1]
    /\ kpc \in [Cpu -> {"none", "born", "loop", "complete", "active", "BUG_ON", "spawn",
                        "rendez", "relock", "schedule", "should_stop", "exited"}]
    /\ kf \in [Cpu -> Frame \cup {None}] /\ ki \in [Cpu -> Nat]
    /\ runnable \in [Cpu -> BOOLEAN] /\ onwaitq \in [Cpu -> BOOLEAN]
    /\ stop \in [Cpu -> BOOLEAN]
    /\ irq \in [Softirq -> [pc : {"idle", "delegate", "wake"},
                            f : Frame \cup {None}, id : Cpu]]
    /\ fstate \in [Frame -> {"out", "answered", "failed"}]
    /\ exit \in [pc : {"loaded", "stop", "join", "flush", "unloaded"}, k : Cpu]

\* The places of an answered frame.
Places(f) ==
    {<<"irq", s, 0>> : s \in {s \in Softirq : irq[s].f = f}}
    \cup (UNION {{<<"iocq", k, i>> : i \in {i \in 1..Len(iocq[k]) : iocq[k][i] = f}} : k \in Cpu})
    \cup {<<"ktio", k, 0>> : k \in {k \in Cpu : kpc[k] = "complete" /\ kf[k] = f}}

\* An answered frame is in exactly one place, and no other frame is in any: it
\* is completed once, however it was delegated.
OnePlace ==
    \A f \in Frame :
        IF fstate[f] = "answered"
        THEN \E p \in Places(f) : Places(f) = {p}
        ELSE Places(f) = {}

\* A thread does not sleep beside a frame in its queue, unless the softirq that
\* put it there is about to wake it, although wake_up comes after the unlock and
\* schedule() too.
NoSleepOnWork ==
    \A k \in Cpu :
        iocq[k] # <<>> /\ kpc[k] = "schedule" /\ ~runnable[k]
        => \E s \in Softirq : irq[s].pc = "wake" /\ irq[s].id = k

\* BUG_ON(id != 0) of ktio does not fire: only thread 0 gets frames of CPUs
\* without a thread, although active changes while frames are queued.
NoBug == \A k \in Cpu : kpc[k] # "BUG_ON"

\* When the module is gone, no thread is left, also none that thread 0 was
\* about to spawn, and no answered frame.
NothingLeft ==
    exit.pc = "unloaded" =>
        /\ \A k \in Cpu : kpc[k] \in {"none", "exited"}
        /\ \A f \in Frame : fstate[f] # "answered"

\* Until the module is unloaded every answered frame is completed, also those of
\* CPUs whose thread cannot be spawned and those above aoe_maxioc.
EveryFrameCompletes ==
    \A f \in Frame :
        fstate[f] = "answered" ~> fstate[f] # "answered" \/ exit.pc # "loaded"

\* aoe_ktstop ends ("tell spawner we're stopping"), unless kthread_stop came
\* between the thread's test of kthread_should_stop and its going to sleep: then
\* the wake-up is lost, and no softirq is left to wake the thread.
StopEnds ==
    exit.pc = "join" ~>
        \/ exit.pc # "join"
        \/ kpc[exit.k] = "schedule" /\ ~runnable[exit.k]
=============================================================================
