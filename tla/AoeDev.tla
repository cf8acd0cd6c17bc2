------------------------------- MODULE AoeDev -------------------------------
(***************************************************************************)
(* The life of an aoedev: aoedev.c with the parts of aoecmd.c, aoeblk.c    *)
(* and aoechr.c that create, install, open, take down and forget devices.  *)
(* Config responses create a device; the answer to an identify command     *)
(* makes a worker install a disk for it; users open the disk; the timer    *)
(* takes a device down; a write to /dev/etherd/flush removes devices in    *)
(* three passes.                                                           *)
(*                                                                         *)
(* Each step is one section under d->lock or devlist_lock, or one read     *)
(* without a lock.  An object of Dev is the memory of one aoedev: it is    *)
(* never reused, so that whoever touches it after kfree is found out.      *)
(* `oops' then names the offender and nothing happens any more.            *)
(*                                                                         *)
(* Abstractions.  I/O is left out; of the commands only the identify       *)
(* command is kept, because its answer installs the device.  A context is  *)
(* the softirq, thread or process that got the device from                 *)
(* aoedev_by_aoeaddr.                                                      *)
(***************************************************************************)
EXTENDS Integers, FiniteSets

CONSTANTS
    Dev,        \* the aoedevs that can be allocated
    Addr,       \* the AoE addresses, shelf and slot
    Minor,      \* the numbers of used_minors, 0..N_DEVS-1
    Dyn,        \* aoe_dyndevs
    StaticMinor,\* the number that minor_get_static computes, if any
    Ctx,        \* contexts of aoedev_by_aoeaddr
    Worker,     \* threads that run aoecmd_sleepwork
    Flusher,    \* processes that write to /dev/etherd/flush
    Opener,     \* processes that open the disk
    Modes,      \* how they flush: "down" (the default), "all", "specified"
    None

ASSUME DevAssumption ==
    /\ IsFiniteSet(Dev) /\ IsFiniteSet(Ctx) /\ IsFiniteSet(Opener)
    /\ Minor \subseteq Nat
    /\ Dyn \in BOOLEAN
    /\ StaticMinor \in [Addr -> Minor \cup {None}]
    /\ Modes \subseteq {"down", "all", "specified"}
    /\ None \notin Dev /\ None \notin Nat
    /\ None \notin {"cfg_rsp", "ata_rsp", "revalidate", "ktio", "put", "ktio_id", "sleepwork",
                     "gdalloc", "open", "release", "freedev"}   \* the names in oops

VARIABLES
    devlist,    \* the devices on devlist
    gone,       \* the devices that were freed with kfree
    addr,       \* d->aoemajor, d->aoeminor
    sysminor,   \* d->sysminor
    used,       \* used_minors
    flags,      \* d->flags
    gd,         \* d->gd
    nopen,      \* d->nopen
    ref,        \* d->ref
    ident,      \* an identify command is outstanding
    work,       \* d->work is queued
    ctx,        \* what a context is doing, and with which device
    worker,     \* the same for a worker,
    flusher,    \*   a flusher
    opener,     \*   and an opener
    oops        \* who touched freed memory

memVars == <<devlist, gone, addr, sysminor, used>>
devVars == <<flags, gd, nopen, ref, ident, work>>
pcVars == <<ctx, worker, flusher, opener>>
vars == <<memVars, devVars, pcVars, oops>>

Flag == {"UP", "TKILL", "GDALLOC", "GD_NOW", "NEWSIZE", "FREEING", "FREED"}

CtxPc == {"cfg_rsp", "ata_rsp", "revalidate", "iocq", "put", "ktio_put", "ktio_id"}
WorkerPc == {"gdalloc", "alloc", "add_disk", "added", "newsize", "i_size"}
FlusherPc == {"idle", "pass_one", "pass_two", "freedev", "freeing", "minor", "freed"}

Idle == [pc |-> "idle", d |-> None]
At(pc, d) == [pc |-> pc, d |-> d]

Init ==
    /\ devlist = {} /\ gone = {} /\ used = {}
    /\ addr = [d \in Dev |-> None] /\ sysminor = [d \in Dev |-> None]
    /\ flags = [d \in Dev |-> {}] /\ gd = [d \in Dev |-> "null"]
    /\ nopen = [d \in Dev |-> 0] /\ ref = [d \in Dev |-> 0]
    /\ ident = [d \in Dev |-> FALSE] /\ work = [d \in Dev |-> FALSE]
    /\ ctx = [c \in Ctx |-> Idle] /\ worker = [w \in Worker |-> Idle]
    /\ flusher = [p \in Flusher |-> Idle] /\ opener = [o \in Opener |-> Idle]
    /\ oops = None

\* Who touches a device that was freed is found out; else A happens.
Touch(d, who, A) ==
    /\ oops = None
    /\ \/ /\ d \in gone
          /\ oops' = who
          /\ UNCHANGED <<memVars, devVars, pcVars>>
       \/ /\ d \notin gone
          /\ UNCHANGED oops
          /\ A

SetFlags(d, on, off) == flags' = [flags EXCEPT ![d] = (@ \cup on) \ off]

\* aoedev_downdev
Downdev(d) ==
    /\ flags' = [flags EXCEPT ![d] = @ \ {"UP"}]
    /\ ident' = [ident EXCEPT ![d] = FALSE]

----------------------------------------------------------------------------
(* Finding and creating devices.                                           *)

\* minor_get: the minors that it may return.
MinorGetShared(a) == Minor
MinorGet(a) ==
    IF Dyn
    THEN {n \in Minor \ used : \A k \in Minor \ used : n <= k}
    ELSE {StaticMinor[a]} \ (used \cup {None})

\* A device that is being forgotten is not found.
Findable(d) == "TKILL" \notin flags[d]

\* aoedev_by_aoeaddr when the device exists.
Found(c, a, pc) ==
    \E d \in devlist :
        /\ addr[d] = a
        /\ Findable(d)
        /\ ref' = [ref EXCEPT ![d] = @ + 1]
        /\ ctx' = [ctx EXCEPT ![c] = At(pc, d)]
        /\ UNCHANGED <<memVars, flags, gd, nopen, ident, work>>

\* aoedev_by_aoeaddr when it does not exist: it is allocated, or the memory
\* for it is not and the minor stays in use.
Alloc(c, a, pc) ==
    /\ \A d \in devlist : addr[d] # a
    /\ \E n \in MinorGet(a) :
         /\ used' = used \cup {n}
         /\ \/ UNCHANGED <<devlist, gone, addr, sysminor, devVars, ctx>>
            \/ \E d \in Dev \ (devlist \cup gone) :
                 /\ devlist' = devlist \cup {d}
                 /\ addr' = [addr EXCEPT ![d] = a]
                 /\ sysminor' = [sysminor EXCEPT ![d] = n]
                 /\ ref' = [ref EXCEPT ![d] = 1]
                 /\ ctx' = [ctx EXCEPT ![c] = At(pc, d)]
                 /\ UNCHANGED <<gone, flags, gd, nopen, ident, work>>

\* A config response, an ATA response or a revalidation looks up its device.
Lookup(c, a) ==
    /\ oops = None /\ ctx[c] = Idle
    /\ \/ Found(c, a, "cfg_rsp")
       \/ Alloc(c, a, "cfg_rsp")
       \/ Found(c, a, "ata_rsp")
       \/ Found(c, a, "revalidate")
    /\ UNCHANGED <<worker, flusher, opener, oops>>

\* aoecmd_cfg_rsp under d->lock: a device that is not open is identified, if
\* there is a frame.
CfgRsp(c) ==
    /\ ctx[c].pc = "cfg_rsp"
    /\ Touch(ctx[c].d, "cfg_rsp",
         /\ \/ /\ nopen[ctx[c].d] = 0
               /\ ident' = [ident EXCEPT ![ctx[c].d] = TRUE]
            \/ UNCHANGED ident
         /\ ctx' = [ctx EXCEPT ![c].pc = "put"]
         /\ UNCHANGED <<memVars, flags, gd, nopen, ref, work, worker, flusher, opener>>)

\* revalidate under d->lock, which tries again until there is a frame or a
\* signal.
Revalidate(c) ==
    /\ ctx[c].pc = "revalidate"
    /\ Touch(ctx[c].d, "revalidate",
         /\ \/ /\ ident' = [ident EXCEPT ![ctx[c].d] = TRUE]
               /\ ctx' = [ctx EXCEPT ![c].pc = "put"]
            \/ /\ UNCHANGED ident
               /\ \/ UNCHANGED ctx
                  \/ ctx' = [ctx EXCEPT ![c].pc = "put"]
         /\ UNCHANGED <<memVars, flags, gd, nopen, ref, work, worker, flusher, opener>>)

\* aoecmd_ata_rsp under d->lock: the frame is put on the iocq with the
\* reference, or the response is unexpected.
AtaRsp(c) ==
    /\ ctx[c].pc = "ata_rsp"
    /\ Touch(ctx[c].d, "ata_rsp",
         /\ \/ /\ ident[ctx[c].d]
               /\ ident' = [ident EXCEPT ![ctx[c].d] = FALSE]
               /\ ctx' = [ctx EXCEPT ![c].pc = "iocq"]
            \/ /\ ~ident[ctx[c].d]
               /\ UNCHANGED ident
               /\ ctx' = [ctx EXCEPT ![c].pc = "put"]
         /\ UNCHANGED <<memVars, flags, gd, nopen, ref, work, worker, flusher, opener>>)

\* ktiocomplete and ataid_complete: what the identify answer asks for.
AtaidComplete(d) ==
    IF flags[d] \cap {"GDALLOC", "NEWSIZE"} # {}
    THEN UNCHANGED <<flags, work>>
    ELSE /\ SetFlags(d, IF gd[d] = "null" THEN {"GDALLOC"} ELSE {"NEWSIZE"}, {})
         /\ work' = [work EXCEPT ![d] = TRUE]

Ktio(c) ==
    /\ ctx[c].pc = "iocq"
    /\ Touch(ctx[c].d, "ktio",
         /\ \/ AtaidComplete(ctx[c].d)
            \/ UNCHANGED <<flags, work>>        \* an ATA error or a runt
         /\ ctx' = [ctx EXCEPT ![c].pc = "ktio_put"]
         /\ UNCHANGED <<memVars, gd, nopen, ref, ident, worker, flusher, opener>>)

PutRefTwice(d) == ref' = [ref EXCEPT ![d] = @ - 2]
PutRef(d) == ref' = [ref EXCEPT ![d] = @ - 1]

\* aoedev_put; ktio still looks at f->t->d after it.
Put(c) ==
    /\ ctx[c].pc \in {"put", "ktio_put"}
    /\ Touch(ctx[c].d, "put",
         /\ PutRef(ctx[c].d)
         /\ ctx' = [ctx EXCEPT ![c] = IF @.pc = "put" THEN Idle ELSE At("ktio_id", @.d)]
         /\ UNCHANGED <<memVars, flags, gd, nopen, ident, work, worker, flusher, opener>>)

\* ktio: actual_id = f->t->d->aoeminor % ncpus
KtioId(c) ==
    /\ ctx[c].pc = "ktio_id"
    /\ Touch(ctx[c].d, "ktio_id",
         /\ ctx' = [ctx EXCEPT ![c] = Idle]
         /\ UNCHANGED <<memVars, devVars, worker, flusher, opener>>)

\* rexmit_timer: a command has been outstanding for longer than aoe_deadsecs.
\* A device that is open may have any command out.
TimerDead(d) ==
    /\ oops = None
    /\ d \in devlist
    /\ "TKILL" \notin flags[d]
    /\ ident[d] \/ nopen[d] > 0
    /\ Downdev(d)
    /\ UNCHANGED <<memVars, gd, nopen, ref, work, pcVars, oops>>

----------------------------------------------------------------------------
(* aoecmd_sleepwork and aoeblk_gdalloc.                                    *)

\* The workqueue calls aoecmd_sleepwork, which reads d->flags.
WorkStart(w, d) ==
    /\ worker[w] = Idle
    /\ work[d]
    /\ Touch(d, "sleepwork",
         /\ work' = [work EXCEPT ![d] = FALSE]
         /\ worker' = [worker EXCEPT ![w] =
              At(IF "GDALLOC" \in flags[d] THEN "gdalloc" ELSE "newsize", d)]
         /\ UNCHANGED <<memVars, flags, gd, nopen, ref, ident, ctx, flusher, opener>>)

\* The first section of aoeblk_gdalloc: is there something to do, and is nobody
\* else doing it?
MayGdalloc(d) == "GDALLOC" \in flags[d] /\ flags[d] \cap {"TKILL", "GD_NOW"} = {}

Gdalloc(w) ==
    LET d == worker[w].d
    IN /\ worker[w].pc = "gdalloc"
       /\ Touch(d, "gdalloc",
            /\ \/ /\ MayGdalloc(d)
                  /\ SetFlags(d, {"GD_NOW"}, {})
                  /\ worker' = [worker EXCEPT ![w].pc = "alloc"]
               \/ /\ ~MayGdalloc(d)
                  /\ worker' = [worker EXCEPT ![w].pc = "newsize"]
                  /\ UNCHANGED flags
            /\ UNCHANGED <<memVars, gd, nopen, ref, ident, work, ctx, flusher, opener>>)

ScheduleWorkMissing(d) == UNCHANGED work
ScheduleWork(d) == work' = [work EXCEPT ![d] = TRUE]

\* gderr: the disk, the mempool or the queue was not allocated.
GdallocFail(w) ==
    LET d == worker[w].d
    IN /\ worker[w].pc = "alloc"
       /\ Touch(d, "gdalloc",
            /\ SetFlags(d, {}, {"GD_NOW"})
            /\ ScheduleWork(d)
            /\ worker' = [worker EXCEPT ![w].pc = "newsize"]
            /\ UNCHANGED <<memVars, gd, nopen, ref, ident, ctx, flusher, opener>>)

\* The second section: the disk is there and the device is up.
GdallocInstall(w) ==
    LET d == worker[w].d
    IN /\ worker[w].pc = "alloc"
       /\ Touch(d, "gdalloc",
            /\ gd' = [gd EXCEPT ![d] = "installed"]
            /\ SetFlags(d, {"UP"}, {"GDALLOC"})
            /\ worker' = [worker EXCEPT ![w].pc = "add_disk"]
            /\ UNCHANGED <<memVars, nopen, ref, ident, work, ctx, flusher, opener>>)

\* add_disk, without a lock and whatever has become of the disk, and the entries
\* in sysfs and debugfs: users see the disk.  One that freedev has deleted and put
\* meanwhile is freed memory: it is registered once more, or that is the end.
AddDisk(w) ==
    LET d == worker[w].d
    IN /\ worker[w].pc = "add_disk"
       /\ \/ Touch(d, "gdalloc",
               /\ \/ gd[d] = "installed" /\ gd' = [gd EXCEPT ![d] = "added"]
                  \/ gd[d] = "deleted" /\ gd' = [gd EXCEPT ![d] = "readded"]
               /\ worker' = [worker EXCEPT ![w].pc = "added"]
               /\ UNCHANGED <<memVars, flags, nopen, ref, ident, work, ctx, flusher, opener>>)
          \/ /\ oops = None /\ gd[d] = "deleted"
             /\ oops' = "gdalloc"
             /\ UNCHANGED <<memVars, devVars, pcVars>>

\* The third section.
GdallocDone(w) ==
    LET d == worker[w].d
    IN /\ worker[w].pc = "added"
       /\ Touch(d, "gdalloc",
            /\ SetFlags(d, {}, {"GD_NOW"})
            /\ worker' = [worker EXCEPT ![w].pc = "newsize"]
            /\ UNCHANGED <<memVars, gd, nopen, ref, ident, work, ctx, flusher, opener>>)

\* The test of DEVFL_NEWSIZE, without the lock.
NewsizeTest(w) ==
    LET d == worker[w].d
    IN /\ worker[w].pc = "newsize"
       /\ Touch(d, "sleepwork",
            /\ worker' = [worker EXCEPT ![w] =
                 IF "NEWSIZE" \in flags[d] THEN At("i_size", d) ELSE Idle]
            /\ UNCHANGED <<memVars, devVars, ctx, flusher, opener>>)

\* The size has been written and the device is up.
Newsize(w) ==
    LET d == worker[w].d
    IN /\ worker[w].pc = "i_size"
       /\ Touch(d, "sleepwork",
            /\ SetFlags(d, {"UP"}, {"NEWSIZE"})
            /\ worker' = [worker EXCEPT ![w] = Idle]
            /\ UNCHANGED <<memVars, gd, nopen, ref, ident, work, ctx, flusher, opener>>)

----------------------------------------------------------------------------
(* Users of the disk.                                                      *)

MayOpen(d) == "UP" \in flags[d] /\ "TKILL" \notin flags[d]

\* aoeblk_open of a disk that is registered, up to its first test.
OpenTest(o) ==
    /\ opener[o] = Idle
    /\ \E d \in Dev :
         /\ gd[d] \in {"added", "readded"}
         /\ Touch(d, "open",
              /\ MayOpen(d)
              /\ opener' = [opener EXCEPT ![o] = At("opening", d)]
              /\ UNCHANGED <<memVars, devVars, ctx, worker, flusher>>)

\* aoeblk_open under d->lock.
Open(o) ==
    LET d == opener[o].d
    IN /\ opener[o].pc = "opening"
       /\ Touch(d, "open",
            /\ \/ /\ MayOpen(d)
                  /\ nopen' = [nopen EXCEPT ![d] = @ + 1]
                  /\ opener' = [opener EXCEPT ![o].pc = "open"]
               \/ /\ ~MayOpen(d)
                  /\ UNCHANGED nopen
                  /\ opener' = [opener EXCEPT ![o] = Idle]
            /\ UNCHANGED <<memVars, flags, gd, ref, ident, work, ctx, worker, flusher>>)

\* aoeblk_release under d->lock.
Release(o) ==
    LET d == opener[o].d
    IN /\ opener[o].pc = "open"
       /\ Touch(d, "release",
            /\ nopen' = [nopen EXCEPT ![d] = @ - 1]
            /\ opener' = [opener EXCEPT ![o] = IF nopen[d] = 1 THEN At("cfg", d) ELSE Idle]
            /\ UNCHANGED <<memVars, flags, gd, ref, ident, work, ctx, worker, flusher>>)

\* The last one out reads the device's address and sends a config query, which
\* is answered or not.
ReleaseCfg(o) ==
    /\ opener[o].pc = "cfg"
    /\ Touch(opener[o].d, "release",
         /\ opener' = [opener EXCEPT ![o] = Idle]
         /\ UNCHANGED <<memVars, devVars, ctx, worker, flusher>>)

----------------------------------------------------------------------------
(* flush: three passes.                                                    *)

\* A device that an unspecific flush leaves alone.
SparedInstalled(d, mode) ==
    \/ mode = "down" /\ "UP" \in flags[d]
    \/ flags[d] \cap {"NEWSIZE", "TKILL"} # {}
    \/ nopen[d] > 0
    \/ ref[d] > 0
SparedUnopened(d, mode) ==
    \/ mode = "down" /\ "UP" \in flags[d]
    \/ flags[d] \cap {"GDALLOC", "NEWSIZE", "TKILL"} # {}
    \/ ref[d] > 0
SparedUnreferenced(d, mode) ==
    \/ mode = "down" /\ "UP" \in flags[d]
    \/ flags[d] \cap {"GDALLOC", "NEWSIZE", "TKILL"} # {}
    \/ nopen[d] > 0
Spared(d, mode) ==
    \/ mode = "down" /\ "UP" \in flags[d]
    \/ flags[d] \cap {"GDALLOC", "NEWSIZE", "TKILL"} # {}
    \/ nopen[d] > 0
    \/ ref[d] > 0

\* flush_scheduled_work: everything that was queued has run.
FlushStart(p) ==
    /\ oops = None
    /\ flusher[p] = Idle
    /\ \A d \in Dev : ~work[d]
    /\ \A w \in Worker : worker[w] = Idle
    /\ flusher' = [flusher EXCEPT ![p] = At("pass_one", None)]
    /\ UNCHANGED <<memVars, devVars, ctx, worker, opener, oops>>

\* user_req: the user names a device by the name of its disk, so that one without
\* a disk is never meant; what is written may be the beginning of several names.
UserReq(d, named) == addr[d] \in named /\ gd[d] # "null"

\* Pass one under devlist_lock: take devices down.
PassOne(p, mode, named) ==
    LET doomed == {d \in devlist : IF mode = "specified"
                                   THEN UserReq(d, named)
                                   ELSE ~Spared(d, mode)}
    IN /\ oops = None
       /\ flusher[p].pc = "pass_one"
       /\ flags' = [d \in Dev |-> IF d \in doomed
                                  THEN (flags[d] \ {"UP"}) \cup {"TKILL"}
                                  ELSE flags[d]]
       /\ ident' = [d \in Dev |-> ident[d] /\ d \notin doomed]
       /\ flusher' = [flusher EXCEPT ![p].pc = "pass_two"]
       /\ UNCHANGED <<memVars, gd, nopen, ref, work, ctx, worker, opener, oops>>

ToFree(d) == "TKILL" \in flags[d] /\ "FREEING" \notin flags[d]

\* Pass two under devlist_lock: find a device to free, and unlock.
PassTwo(p) ==
    /\ oops = None
    /\ flusher[p].pc = "pass_two"
    /\ \E d \in devlist :
         /\ ToFree(d)
         /\ flusher' = [flusher EXCEPT ![p] = At("freedev", d)]
    /\ UNCHANGED <<memVars, devVars, ctx, worker, opener, oops>>

\* goto restart
RestartMissing == Idle
Restart == At("pass_two", None)

\* freedev: the first section.
FreedevMark(p) ==
    LET d == flusher[p].d
    IN /\ flusher[p].pc = "freedev"
       /\ Touch(d, "freedev",
            /\ \/ /\ ToFree(d)
                  /\ SetFlags(d, {"FREEING"}, {})
                  /\ flusher' = [flusher EXCEPT ![p].pc = "freeing"]
               \/ /\ ~ToFree(d)
                  /\ UNCHANGED flags
                  /\ flusher' = [flusher EXCEPT ![p] = Restart]
            /\ UNCHANGED <<memVars, gd, nopen, ref, ident, work, ctx, worker, opener>>)

\* freedev: the timer and the disk.
FreedevDisk(p) ==
    LET d == flusher[p].d
    IN /\ flusher[p].pc = "freeing"
       /\ Touch(d, "freedev",
            /\ gd' = [gd EXCEPT ![d] = IF @ = "null" THEN @ ELSE "deleted"]
            /\ flusher' = [flusher EXCEPT ![p].pc = "minor"]
            /\ UNCHANGED <<memVars, flags, nopen, ref, ident, work, ctx, worker, opener>>)

\* freedev: the targets, the pools and the minor.
FreedevMinor(p) ==
    LET d == flusher[p].d
    IN /\ flusher[p].pc = "minor"
       /\ Touch(d, "freedev",
            /\ used' = used \ {sysminor[d]}
            /\ flusher' = [flusher EXCEPT ![p].pc = "freed"]
            /\ UNCHANGED <<devlist, gone, addr, sysminor, devVars, ctx, worker, opener>>)

\* freedev: the last section.
FreedevDone(p) ==
    LET d == flusher[p].d
    IN /\ flusher[p].pc = "freed"
       /\ Touch(d, "freedev",
            /\ SetFlags(d, {"FREED"}, {})
            /\ flusher' = [flusher EXCEPT ![p] = Restart]
            /\ UNCHANGED <<memVars, gd, nopen, ref, ident, work, ctx, worker, opener>>)

\* Pass two finds nothing and, under the same lock, pass three removes what is
\* freed.
PassThree(p) ==
    LET doomed == {d \in devlist : "FREED" \in flags[d]}
    IN /\ oops = None
       /\ flusher[p].pc = "pass_two"
       /\ \A d \in devlist : ~ToFree(d)
       /\ devlist' = devlist \ doomed
       /\ gone' = gone \cup doomed
       /\ flusher' = [flusher EXCEPT ![p] = Idle]
       /\ UNCHANGED <<addr, sysminor, used, devVars, ctx, worker, opener, oops>>

----------------------------------------------------------------------------

Halted == oops # None /\ UNCHANGED vars

FlushStep(p) ==
    \/ FlushStart(p)
    \/ \E mode \in Modes, named \in SUBSET Addr : PassOne(p, mode, named)
    \/ PassTwo(p) \/ FreedevMark(p) \/ FreedevDisk(p) \/ FreedevMinor(p)
    \/ FreedevDone(p) \/ PassThree(p)

WorkerStep(w) ==
    \/ Gdalloc(w) \/ GdallocFail(w) \/ GdallocInstall(w)
    \/ AddDisk(w) \/ GdallocDone(w) \/ NewsizeTest(w) \/ Newsize(w)

Next ==
    \/ \E c \in Ctx :
         \/ \E a \in Addr : Lookup(c, a)
         \/ CfgRsp(c) \/ Revalidate(c) \/ AtaRsp(c) \/ Ktio(c) \/ Put(c) \/ KtioId(c)
    \/ \E d \in Dev : TimerDead(d)
    \/ \E w \in Worker : WorkerStep(w) \/ \E d \in Dev : WorkStart(w, d)
    \/ \E o \in Opener : OpenTest(o) \/ Open(o) \/ Release(o) \/ ReleaseCfg(o)
    \/ \E p \in Flusher : FlushStep(p)
    \/ Halted

Spec == Init /\ [][Next]_vars

\* A flush that has begun goes on, a queued work is run, and memory is not
\* short forever.
Fairness ==
    /\ \A p \in Flusher : WF_vars(flusher[p] # Idle /\ FlushStep(p))
    /\ \A w \in Worker : WF_vars(WorkerStep(w))
    /\ SF_vars(\E w \in Worker : GdallocInstall(w))
    /\ WF_vars(\E w \in Worker, d \in Dev : WorkStart(w, d))

FairSpec == Spec /\ Fairness

----------------------------------------------------------------------------
(* Correctness, up to the first use of freed memory.                       *)

\* Every variable has its type.
TypeOK ==
    /\ devlist \subseteq Dev /\ gone \subseteq Dev \ devlist /\ used \subseteq Minor
    /\ addr \in [Dev -> Addr \cup {None}]
    /\ sysminor \in [Dev -> Minor \cup {None}]
    /\ flags \in [Dev -> SUBSET Flag]
    /\ gd \in [Dev -> {"null", "installed", "added", "deleted", "readded"}]
    /\ nopen \in [Dev -> Nat] /\ ref \in [Dev -> Nat]
    /\ ident \in [Dev -> BOOLEAN] /\ work \in [Dev -> BOOLEAN]
    /\ \A c \in Ctx : ctx[c] = Idle \/ ctx[c] \in [pc : CtxPc, d : Dev]
    /\ \A w \in Worker : worker[w] = Idle \/ worker[w] \in [pc : WorkerPc, d : Dev]
    /\ \A p \in Flusher : flusher[p] \in [pc : FlusherPc, d : Dev \cup {None}]
    /\ \A o \in Opener :
         opener[o] = Idle \/ opener[o] \in [pc : {"opening", "open", "cfg"}, d : Dev]

\* The reference of a context that has not given it back keeps the device from
\* an unspecific flush: a config response, an ATA response, a revalidation or
\* ktio never meets a device that was freed, and d->ref counts exactly them.
RefProtects ==
    /\ oops \notin {"cfg_rsp", "ata_rsp", "revalidate", "ktio", "put"}
    /\ \A d \in devlist :
         ref[d] = Cardinality({c \in Ctx : ctx[c].d = d /\ ctx[c].pc # "ktio_id"})

\* An unspecific flush never takes a device that is open: aoeblk_open and pass
\* one agree on d->nopen although open tests the flags twice and pass one frees
\* nothing itself.
OpenProtects ==
    \A o \in Opener : opener[o].pc = "open" =>
        LET d == opener[o].d
        IN d \notin gone /\ "TKILL" \notin flags[d] /\ nopen[d] > 0

\* Whoever holds a device that an unspecific flush has freed is past the point
\* that keeps it: ktio after its put, a worker after aoeblk_gdalloc has installed
\* the disk, an open between its two tests, and a release that has closed the
\* disk and still sends its query.  A flush that runs alone is not left with one,
\* and a work that is left has nothing to do: another one has served the flags
\* that it was queued for.
OnlyLateUses ==
    /\ \A c \in Ctx : ctx[c].d \in gone => ctx[c].pc = "ktio_id"
    /\ \A w \in Worker : worker[w].d \in gone => worker[w].pc \in {"add_disk", "added", "newsize"}
    /\ \A o \in Opener : opener[o].d \in gone => opener[o].pc \in {"opening", "cfg"}
    /\ \A p \in Flusher : flusher[p].d \notin gone
    /\ \A d \in gone : work[d] => flags[d] \cap {"GDALLOC", "NEWSIZE"} = {}

\* What aoeblk_gdalloc warns about never happens: between its sections nobody
\* kills, installs or brings up the device.
GdallocAsserts ==
    \A w \in Worker :
        LET d == worker[w].d
        IN /\ worker[w].pc = "alloc" =>
                /\ {"GD_NOW", "GDALLOC"} \subseteq flags[d]
                /\ flags[d] \cap {"TKILL", "UP"} = {}
                /\ gd[d] = "null"
           /\ worker[w].pc \in {"add_disk", "added"} => "GD_NOW" \in flags[d]

\* Two disks that exist at the same time have different minors and different
\* names, over devices that are flushed and discovered again; the one exception is
\* a disk that a flush deletes between the sections of aoeblk_gdalloc and that
\* add_disk then registers again, with a minor and a name that may be another's by
\* now.  The device of such a disk is marked for good, so that aoeblk_open refuses
\* it, and nobody had it open before.
DisksDistinct ==
    /\ \A d \in Dev, e \in Dev :
         /\ {gd[d], gd[e]} \subseteq {"installed", "added", "readded"} /\ d # e
         => \/ sysminor[d] # sysminor[e] /\ addr[d] # addr[e]
            \/ "readded" \in {gd[d], gd[e]}
    /\ \A d \in Dev : gd[d] = "readded" =>
         {"TKILL", "FREEING"} \subseteq flags[d] /\ \A o \in Opener : opener[o].d # d

\* A device that was marked DEVFL_TKILL is forgotten: some flush frees it and
\* removes it from devlist, so that its address can be used again.
KilledForgotten ==
    \A d \in Dev : "TKILL" \in flags[d] ~> d \in gone \/ oops # None

\* A device that was identified is installed, however often memory is short
\* (gderr schedules the work again).
Installed ==
    \A d \in Dev : "GDALLOC" \in flags[d] ~> gd[d] # "null" \/ oops # None
=============================================================================
