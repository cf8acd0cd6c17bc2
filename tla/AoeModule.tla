----------------------------- MODULE AoeModule -----------------------------
(***************************************************************************)
(* Loading and unloading the driver (aoemain.c and the init and exit       *)
(* routines of its parts), while the rest of the driver already, or still, *)
(* runs: the discovery timer, the packet handler, the transmit thread, the *)
(* completion thread, the timer and the work item of a device, and a user  *)
(* of the character devices.                                               *)
(*                                                                         *)
(* What a part sets up and takes down is a resource.  An actor that uses a *)
(* resource that is not there, or not any more, is recorded in bad.        *)
(*                                                                         *)
(* Abstractions.  One device and one command; their details are in AoeDev  *)
(* and AoeIo, and the threads of other CPUs than 0 in AoeKtio.  An actor's *)
(* use of the resources is one step, but for the callback of the discovery *)
(* timer.  The transmit queue is empty or not.                             *)
(* A file that is open (character or block) keeps the module loaded.       *)
(***************************************************************************)
EXTENDS Integers, Sequences

VARIABLES
    phase,      \* "out", "loading", "failing", "live" or "unloading"
    run,        \* what aoe_init or aoe_exit has still to do
    failed,     \* history: the step at which the last load failed, or "none"
    have,       \* the resources that are there
    die,        \* discover_timer: die
    dpend,      \* the discovery timer is pending
    drun,       \* where its callback is: "no", "lock" or "send"
    user,       \* a file of the driver is open
    dev,        \* "none", "known" or "tkill"
    timer,      \* timer of the device: "off", "dummy" or "rexmit"
    pool,       \* the device has its bufpool
    frame,      \* its command: "none", "out" or "iocq"
    work,       \* its work item is scheduled
    kt,         \* where a thread is: "none", "loop", "asleep", "test" or "exited"
    told,       \* where it was when kthread_stop told it to stop, or "no"
    queued,     \* skbtxq is not empty
    bad         \* history: the last uses of what is not there: <<phase, actor, resource>>

loadVars == <<phase, run, failed>>
discVars == <<die, dpend, drun>>
devVars == <<dev, timer, pool, frame, work>>
threadVars == <<kt, told, queued>>
vars == <<loadVars, have, discVars, user, devVars, threadVars, bad>>

Thread == {"tx", "ktio"}

Resource == {"chr", "cache", "txthread", "txq", "pack", "page", "iocq", "ktio", "major"}

\* aoe_init: the steps in order.  Each may fail but for "pack" and "disc".
InitSteps == <<"chr", "cache", "tx", "pack", "page", "iocq", "ktio", "major", "disc">>
Fallible == {"chr", "cache", "tx", "page", "iocq", "ktio", "major"}

\* aoedev_exit, and with it flush: flush_scheduled_work, downdev, freedev.
DevExit == <<"flush_work", "downdev", "freedev">>
\* aoenet_exit and aoecmd_exit
NetExit == <<"stop_tx", "join_tx", "purge", "remove_pack">>
CmdExit == <<"stop_ktio", "join_ktio", "flush_iocq", "free_cmd">>

ExitSteps == <<"die", "del_timer">> \o NetExit \o <<"unregister_major">> \o CmdExit
             \o <<"unregister_chr">> \o DevExit \o <<"destroy_cache">>

FailSteps(s) ==
    LET chr_fail == DevExit
        blk_fail == <<"unregister_chr">> \o chr_fail
        net_fail == <<"destroy_cache">> \o blk_fail
        cmd_fail == NetExit \o net_fail
        blkreg_fail == CmdExit \o cmd_fail
    IN CASE s = "chr" -> chr_fail
         [] s = "cache" -> blk_fail
         [] s = "tx" -> net_fail
         [] s \in {"page", "iocq", "ktio"} -> cmd_fail
         [] s = "major" -> blkreg_fail

Init ==
    /\ phase = "out" /\ run = <<>> /\ failed = "none" /\ have = {}
    /\ die = FALSE /\ dpend = FALSE /\ drun = "no" /\ user = FALSE
    /\ dev = "none" /\ timer = "off" /\ pool = FALSE /\ frame = "none" /\ work = FALSE
    /\ kt = [t \in Thread |-> "none"] /\ told = [t \in Thread |-> "no"] /\ queued = FALSE
    /\ bad = {}

\* The actor a uses the resources R.
Uses(a, R) == bad' = IF R \subseteq have THEN bad
                     ELSE {<<phase, a, r>> : r \in R \ have}

\* wake_up on the wait queue of a thread
Wake(t) == kt' = [kt EXCEPT ![t] = IF @ = "asleep" THEN "test" ELSE @]

\* aoenet_xmit needs the queue, from its initialisation until it is purged.
Xmit == {"txq"}

\* The actor a calls aoenet_xmit, and uses R besides.
Sends(a, R) ==
    /\ Uses(a, Xmit \cup R)
    /\ queued' = (queued \/ Xmit \subseteq have)
    /\ Wake("tx") /\ UNCHANGED told

\* ktcomplete, called by the actor a
KtComplete(a) ==
    /\ Uses(a, {"iocq"})
    /\ frame' = IF "iocq" \in have THEN "iocq" ELSE "none"
    /\ Wake("ktio") /\ UNCHANGED <<told, queued>>

----------------------------------------------------------------------------
(* aoe_init                                                                *)

Insmod ==
    /\ phase = "out"
    /\ phase' = "loading" /\ run' = InitSteps /\ failed' = "none"
    /\ bad' = {}
    /\ UNCHANGED <<have, discVars, user, devVars, threadVars>>

\* A step succeeds.  "tx" initialises the queue and starts the thread.
InitStep ==
    /\ phase = "loading" /\ run # <<>> /\ Head(run) # "disc"
    /\ run' = Tail(run)
    /\ have' = have \cup (IF Head(run) = "tx" THEN {"txq", "txthread"} ELSE {Head(run)})
    /\ kt' = [t \in Thread |-> IF Head(run) = t THEN "loop" ELSE kt[t]]
    /\ UNCHANGED <<phase, failed, discVars, user, devVars, told, queued, bad>>

\* The queues are freed, whatever is on them.
FreeIocq ==
    /\ frame' = IF frame = "iocq" THEN "none" ELSE frame
    /\ bad' = IF frame = "iocq" THEN {<<phase, "iocq", "frame">>} ELSE bad

\* A step fails.  aoecmd_init takes back its arrays, but not the empty page.
InitFails ==
    /\ phase = "loading" /\ run # <<>> /\ Head(run) \in Fallible
    /\ phase' = "failing" /\ failed' = Head(run) /\ run' = FailSteps(Head(run))
    /\ IF Head(run) = "ktio" THEN FreeIocq /\ have' = have \ {"iocq"}
                              ELSE UNCHANGED <<have, frame, bad>>
    /\ UNCHANGED <<discVars, user, dev, timer, pool, work, threadVars>>

\* discover_timer(TINIT): the timer starts, and the first query leaves.
DiscoverInit ==
    /\ phase = "loading" /\ run = <<"disc">>
    /\ phase' = "live" /\ run' = <<>>
    /\ die' = FALSE /\ dpend' = TRUE
    /\ Sends("init", {})
    /\ UNCHANGED <<failed, have, drun, user, devVars>>

----------------------------------------------------------------------------
(* aoe_exit, and the way out of a load that fails                          *)

Rmmod ==
    /\ phase = "live" /\ ~user
    /\ phase' = "unloading" /\ run' = ExitSteps
    /\ UNCHANGED <<failed, have, discVars, user, devVars, threadVars, bad>>

\* The exit routine does the step s and goes on.
Step(s) ==
    /\ phase \in {"failing", "unloading"} /\ run # <<>> /\ Head(run) = s
    /\ run' = Tail(run)
    /\ phase' = IF run' = <<>> THEN "out" ELSE phase
    /\ UNCHANGED <<failed, user>>

\* Steps that take a resource down and touch nothing else.
TakesDown == [remove_pack |-> {"pack"}, unregister_major |-> {"major"},
              unregister_chr |-> {"chr"}, destroy_cache |-> {"cache"}]

TakeDown ==
    /\ \E s \in DOMAIN TakesDown : Step(s) /\ have' = have \ TakesDown[s]
    /\ UNCHANGED <<discVars, devVars, threadVars, bad>>

\* aoe_ktstop: kthread_stop tells a thread to stop and makes it runnable, which
\* changes nothing for one that runs; then the caller waits for its end.
KtstopQuiet(t) ==
    /\ Step([tx |-> "stop_tx", ktio |-> "stop_ktio"][t])
    /\ told' = [told EXCEPT ![t] = kt[t]]
    /\ UNCHANGED <<have, discVars, devVars, kt, queued, bad>>
Ktstop(t) ==
    /\ Step([tx |-> "stop_tx", ktio |-> "stop_ktio"][t])
    /\ told' = [told EXCEPT ![t] = kt[t]] /\ Wake(t)
    /\ UNCHANGED <<have, discVars, devVars, queued, bad>>

Joining(t) == run # <<>> /\ Head(run) = [tx |-> "join_tx", ktio |-> "join_ktio"][t]
Ktjoin(t) ==
    /\ Joining(t) /\ Step(Head(run)) /\ kt[t] = "exited"
    /\ kt' = [kt EXCEPT ![t] = "none"] /\ told' = [told EXCEPT ![t] = "no"]
    /\ have' = have \ {[tx |-> "txthread", ktio |-> "ktio"][t]}
    /\ UNCHANGED <<discVars, devVars, queued, bad>>

\* skb_queue_purge
Purge ==
    /\ Step("purge") /\ have' = have \ {"txq"} /\ queued' = FALSE
    /\ UNCHANGED <<discVars, devVars, kt, told, bad>>

\* discover_timer(TKILL): die is set, then del_timer_sync waits for a callback
\* that runs.
DieStep ==
    /\ Step("die") /\ die' = TRUE
    /\ UNCHANGED <<have, dpend, drun, devVars, threadVars, bad>>

DelTimer ==
    /\ Step("del_timer") /\ drun = "no" /\ dpend' = FALSE
    /\ UNCHANGED <<have, die, drun, devVars, threadVars, bad>>

\* aoe_flush_iocq: commands that no thread has completed are failed.
FlushIocq ==
    /\ Step("flush_iocq")
    /\ frame' = IF frame = "iocq" THEN "none" ELSE frame
    /\ UNCHANGED <<have, discVars, dev, timer, pool, work, threadVars, bad>>

FreeCmd ==
    /\ Step("free_cmd") /\ have' = have \ {"iocq", "page"}
    /\ FreeIocq
    /\ UNCHANGED <<discVars, dev, timer, pool, work, threadVars>>

\* flush_scheduled_work waits for the work item.
FlushWork ==
    /\ Step("flush_work") /\ ~work
    /\ UNCHANGED <<have, discVars, devVars, threadVars, bad>>

\* flush, pass one: every device is taken down.
FlushDown ==
    /\ Step("downdev")
    /\ dev' = IF dev = "known" THEN "tkill" ELSE dev
    /\ frame' = IF frame = "out" THEN "none" ELSE frame
    /\ UNCHANGED <<have, discVars, timer, pool, work, threadVars, bad>>

\* flush, passes two and three: freedev stops the timer and gives the bufs back
\* to the cache.
FlushFree ==
    /\ Step("freedev")
    /\ IF pool THEN Uses("exit", {"cache"}) ELSE UNCHANGED bad
    /\ dev' = "none" /\ timer' = "off" /\ pool' = FALSE
    /\ UNCHANGED <<have, discVars, frame, work, threadVars>>

----------------------------------------------------------------------------
(* The other actors                                                        *)

\* The callback of the discovery timer starts, re-arms the timer unless die is
\* set, and sends its query.
DiscoverFires ==
    /\ dpend /\ drun = "no"
    /\ dpend' = FALSE /\ drun' = "lock"
    /\ UNCHANGED <<loadVars, have, die, user, devVars, threadVars, bad>>

DiscoverRearm ==
    /\ drun = "lock"
    /\ dpend' = ~die /\ drun' = "send"
    /\ UNCHANGED <<loadVars, have, die, user, devVars, threadVars, bad>>

DiscoverSend ==
    /\ drun = "send" /\ drun' = "no"
    /\ Sends("discover", {})
    /\ UNCHANGED <<loadVars, have, die, dpend, user, devVars>>

\* A file is opened; a module on its way out gives no new reference.  A write
\* asks for discovery.
Open ==
    /\ ~user /\ "chr" \in have /\ phase # "unloading" /\ user' = TRUE
    /\ UNCHANGED <<loadVars, have, discVars, devVars, threadVars, bad>>
Discover ==
    /\ user /\ Sends("chr", {})
    /\ UNCHANGED <<loadVars, have, discVars, user, devVars>>
Close ==
    /\ user /\ user' = FALSE
    /\ UNCHANGED <<loadVars, have, discVars, devVars, threadVars, bad>>

\* aoecmd_cfg_rsp, in the packet handler: the device is made known, and it is
\* sent an identify command unless it has no frame for it.
CfgRsp ==
    /\ "pack" \in have /\ dev # "tkill"
    /\ dev' = "known"
    /\ \/ /\ frame = "none"
          /\ frame' = "out" /\ timer' = "rexmit"
          /\ Sends("rcv", {})
       \/ /\ timer' = IF dev = "none" THEN "dummy" ELSE timer
          /\ UNCHANGED <<frame, threadVars, bad>>
    /\ UNCHANGED <<loadVars, have, discVars, user, pool, work>>

\* aoecmd_ata_rsp: the answer is queued for the completion thread.
AtaRsp ==
    /\ "pack" \in have /\ dev = "known" /\ frame = "out"
    /\ KtComplete("rcv")
    /\ UNCHANGED <<loadVars, have, discVars, user, dev, timer, pool, work>>

\* tx sends a packet.
Tx ==
    /\ kt["tx"] = "loop" /\ queued /\ queued' = FALSE
    /\ UNCHANGED <<loadVars, have, discVars, user, devVars, kt, told, bad>>

\* ktio: the identify data is taken, and the work item makes the disk of it.
\* After aoe_maxioc commands it returns, else it looks for the next.
Ktio ==
    /\ kt["ktio"] = "loop" /\ frame = "iocq"
    /\ frame' = "none" /\ work' = ~pool
    /\ \E at \in {"loop", "test"} : kt' = [kt EXCEPT !["ktio"] = at]
    /\ UNCHANGED <<loadVars, have, discVars, user, dev, timer, pool, told, queued, bad>>

\* kthread: a thread that finds nothing to do sleeps until somebody wakes it.
KthreadSleep(t) ==
    /\ kt[t] = "loop" /\ ~[tx |-> queued, ktio |-> frame = "iocq"][t]
    /\ kt' = [kt EXCEPT ![t] = "asleep"]
    /\ UNCHANGED <<loadVars, have, discVars, user, devVars, told, queued, bad>>

\* kthread_should_stop
KthreadShouldStop(t) ==
    /\ kt[t] = "test"
    /\ kt' = [kt EXCEPT ![t] = IF told[t] = "no" THEN "loop" ELSE "exited"]
    /\ UNCHANGED <<loadVars, have, discVars, user, devVars, told, queued, bad>>

\* aoecmd_sleepwork: aoeblk_gdalloc takes the bufpool from the cache.
Sleepwork ==
    /\ work /\ work' = FALSE /\ pool' = TRUE
    /\ Uses("work", {"cache"})
    /\ UNCHANGED <<loadVars, have, discVars, user, dev, timer, frame, threadVars>>

\* rexmit_timer: nothing to do, or the command is sent again, perhaps with a
\* probe of the empty page, or it is failed because no interface is left.
RexmitTimer ==
    /\ timer = "rexmit" /\ dev = "known" /\ frame = "out"
    /\ \/ \E R \in {{}, {"page"}} : Sends("timer", R) /\ UNCHANGED frame
       \/ KtComplete("timer")
    /\ UNCHANGED <<loadVars, have, discVars, user, dev, timer, pool, work>>

Main ==
    \/ Insmod \/ InitStep \/ InitFails \/ DiscoverInit
    \/ Rmmod \/ TakeDown \/ DieStep \/ DelTimer \/ Purge
    \/ \E t \in Thread : Ktstop(t) \/ Ktjoin(t)
    \/ FlushIocq \/ FreeCmd \/ FlushWork \/ FlushDown \/ FlushFree
Next ==
    \/ Main
    \/ DiscoverFires \/ DiscoverRearm \/ DiscoverSend
    \/ Open \/ Discover \/ Close
    \/ CfgRsp \/ AtaRsp \/ Sleepwork \/ RexmitTimer
    \/ Tx \/ Ktio \/ \E t \in Thread : KthreadSleep(t) \/ KthreadShouldStop(t)

Spec == Init /\ [][Next]_vars

\* The routines go on, and so do callbacks, work items and threads that have
\* started; and ktio, which does at most aoe_maxioc commands, returns.
FairSpec ==
    /\ Spec
    /\ WF_vars(InitStep \/ InitFails \/ DiscoverInit)
    /\ WF_vars(TakeDown) /\ WF_vars(DieStep) /\ WF_vars(DelTimer) /\ WF_vars(Purge)
    /\ WF_vars(\E t \in Thread : Ktstop(t)) /\ WF_vars(\E t \in Thread : Ktjoin(t))
    /\ WF_vars(FlushIocq) /\ WF_vars(FreeCmd)
    /\ WF_vars(FlushWork) /\ WF_vars(FlushDown) /\ WF_vars(FlushFree)
    /\ WF_vars(DiscoverRearm) /\ WF_vars(DiscoverSend) /\ WF_vars(Sleepwork)
    /\ WF_vars(Tx) /\ WF_vars(Ktio) /\ SF_vars(Ktio /\ kt'["ktio"] = "test")
    /\ \A t \in Thread : WF_vars(KthreadSleep(t)) /\ WF_vars(KthreadShouldStop(t))

----------------------------------------------------------------------------
(* Correctness.                                                            *)

\* The uses outside a resource's life that the order of the routines admits.
\* A load makes the character devices and the packet handler reachable before
\* what they use, and a load that fails takes the latter down first; and the
\* timers of the devices run until aoedev_exit, which comes late; and each of the
\* last two can queue a command that is then lost with the queue.
KnownUses ==
    {<<p, "chr", r>> : p \in {"loading", "failing", "out"}, r \in Xmit}
    \cup {<<p, "rcv", r>> : p \in {"loading", "failing"}, r \in {"iocq"}}
    \cup {<<p, "rcv", r>> : p \in {"failing", "unloading"}, r \in Xmit}
    \cup {<<p, "timer", r>> : p \in {"loading", "failing"}, r \in {"iocq", "page"}}
    \cup {<<p, "timer", r>> : p \in {"failing", "unloading"}, r \in Xmit \cup {"iocq", "page"}}
    \cup {<<"failing", a, "cache">> : a \in {"work", "exit"}}
    \cup {<<p, "iocq", "frame">> : p \in {"loading", "failing", "unloading"}}


\* When the driver is out, nothing of it is left: no timer is pending or runs,
\* no device, work item or handler exists, and every resource is given back,
\* but for the empty page when a later step of aoecmd_init failed.
NothingLeft ==
    phase = "out" =>
        /\ ~dpend /\ drun = "no"
        /\ dev = "none" /\ timer = "off" /\ ~pool /\ ~work
        /\ ~queued /\ \A t \in Thread : kt[t] = "none"
        /\ have = {} \/ have = {"page"}

\* The thread that aoe_ktstop waits for sleeps: it had tested kthread_should_stop
\* for the last time, and not yet gone to sleep, when kthread_stop came.
Missed == \E t \in Thread : Joining(t) /\ told[t] = "loop" /\ kt[t] = "asleep"

\* tx, which goes on until the queue is empty, is given another packet to send
\* whenever it looks.
Flooded == Joining("tx") /\ kt["tx"] = "loop" /\ queued

\* A load and an unload come to their end, although they wait for callbacks, work
\* items and threads that other actors start and keep busy, unless aoe_ktstop waits
\* for a thread that has missed the wake-up of kthread_stop and that nobody wakes
\* any more, or for a transmit thread that the others never let come to rest.
RoutinesEnd ==
    phase \in {"loading", "failing", "unloading"}
        ~> (phase \in {"live", "out"} \/ []Missed \/ []<>Flooded)
=============================================================================
