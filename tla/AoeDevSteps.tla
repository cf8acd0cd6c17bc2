---------------------------- MODULE AoeDevSteps ----------------------------
(***************************************************************************)
(* The invariant of AoeDev, what each of its steps does to the state once  *)
(* the tests for freed memory are taken out, and the proof that every step *)
(* keeps the types, the counts d->ref and d->nopen, and the order in which *)
(* a device is killed, freed and gone.                                     *)
(***************************************************************************)
EXTENDS AoeDev, FiniteSetTheorems, TLAPS

USE SMTT(60), Z3T(60), ZenonT(30)

----------------------------------------------------------------------------
(* The invariant.                                                          *)

\* Nobody flushes a device by its name.
Unspecific == "specified" \notin Modes

CtxRec == [pc : CtxPc \cup {"idle"}, d : Dev \cup {None}]
WorkerRec == [pc : WorkerPc \cup {"idle"}, d : Dev \cup {None}]
FlusherRec == [pc : FlusherPc, d : Dev \cup {None}]
OpenerPc == {"idle", "opening", "open", "cfg"}
OpenerRec == [pc : OpenerPc, d : Dev \cup {None}]

MemType ==
    /\ devlist \subseteq Dev /\ gone \subseteq Dev \ devlist /\ used \subseteq Minor
    /\ addr \in [Dev -> Addr \cup {None}]
    /\ sysminor \in [Dev -> Minor \cup {None}]
DevType ==
    /\ flags \in [Dev -> SUBSET Flag]
    /\ gd \in [Dev -> {"null", "installed", "added", "deleted", "readded"}]
    /\ nopen \in [Dev -> Int] /\ ref \in [Dev -> Int]
    /\ ident \in [Dev -> BOOLEAN] /\ work \in [Dev -> BOOLEAN]
PcType ==
    /\ ctx \in [Ctx -> CtxRec] /\ worker \in [Worker -> WorkerRec]
    /\ flusher \in [Flusher -> FlusherRec] /\ opener \in [Opener -> OpenerRec]

\* Whoever is not idle has a device; a flush may have none.
Busy ==
    /\ \A c \in Ctx : ctx[c].pc = "idle" <=> ctx[c].d = None
    /\ \A w \in Worker : worker[w].pc = "idle" <=> worker[w].d = None
    /\ \A o \in Opener : opener[o].pc = "idle" <=> opener[o].d = None
    /\ \A p \in Flusher : flusher[p].pc \in {"idle", "pass_one", "pass_two"} <=> flusher[p].d = None

Types == MemType /\ DevType /\ PcType /\ Busy

\* The devices that were allocated; nobody knows of another one.
Known == devlist \cup gone

KnownInv ==
    /\ \A c \in Ctx : ctx[c].d \in Known \cup {None}
    /\ \A w \in Worker : worker[w].d \in Known \cup {None}
    /\ \A o \in Opener : opener[o].d \in Known \cup {None}
    /\ \A p \in Flusher : flusher[p].d \in Known \cup {None}
    /\ \A d \in Dev \ Known : ~work[d] /\ flags[d] = {} /\ gd[d] = "null"

\* The references and the users that d->ref and d->nopen count.
Holders(d) == {c \in Ctx : ctx[c].d = d /\ ctx[c].pc # "ktio_id"}
Users(d) == {o \in Opener : opener[o].d = d /\ opener[o].pc = "open"}

CountInv == \A d \in Dev : ref[d] = Cardinality(Holders(d)) /\ nopen[d] = Cardinality(Users(d))

\* The life of a device: a device that is killed is not going to be installed,
\* and unless it was named nobody has it.
LifeInv ==
    /\ \A d \in Dev :
         /\ "FREED" \in flags[d] => "FREEING" \in flags[d]
         /\ "FREEING" \in flags[d] => "TKILL" \in flags[d]
         /\ "TKILL" \in flags[d] =>
              /\ "GDALLOC" \notin flags[d]
              /\ gd[d] = "null" \/ Unspecific => ref[d] = 0
              /\ Unspecific => nopen[d] = 0
    /\ \A d \in gone : "FREED" \in flags[d]

\* The installation of a disk: GD_NOW keeps the workers apart.
Installing == {"alloc", "add_disk", "added"}
GdInv ==
    /\ \A d \in Dev :
         /\ "GDALLOC" \in flags[d] => gd[d] = "null"
         /\ "UP" \in flags[d] => gd[d] # "null"
         /\ "NEWSIZE" \in flags[d] => gd[d] # "null"
    /\ \A w \in Worker :
         /\ worker[w].pc \in Installing => "GD_NOW" \in flags[worker[w].d]
         /\ worker[w].pc = "alloc" => "GDALLOC" \in flags[worker[w].d]
         /\ worker[w].pc = "i_size" => gd[worker[w].d] # "null"
    /\ \A v, w \in Worker :
         /\ worker[v].pc \in Installing /\ worker[w].pc \in Installing
         /\ worker[v].d = worker[w].d
         => v = w

\* The end of a device: FREEING keeps the flushes apart, and the disk goes before
\* the minor.
Freeing == {"freeing", "minor", "freed"}
NoDisk(d) == gd[d] \notin {"installed", "added"}
FreeInv ==
    /\ \A p \in Flusher : flusher[p].pc \in Freeing =>
         /\ "FREEING" \in flags[flusher[p].d] /\ "FREED" \notin flags[flusher[p].d]
         /\ flusher[p].pc # "freeing" => NoDisk(flusher[p].d)
    /\ \A p, q \in Flusher :
         /\ flusher[p].pc \in Freeing /\ flusher[q].pc \in Freeing
         /\ flusher[p].d = flusher[q].d
         => p = q
    /\ \A d \in Dev : "FREED" \in flags[d] => NoDisk(d)

\* A device has its minor for itself until freedev gives it back.
Keeps(d) ==
    /\ d \in devlist /\ "FREED" \notin flags[d]
    /\ \A p \in Flusher : flusher[p].d = d => flusher[p].pc # "freed"
MinorInv ==
    /\ \A d \in Dev : Keeps(d) => sysminor[d] \in used
    /\ \A d, e \in Dev : Keeps(d) /\ Keeps(e) /\ sysminor[d] = sysminor[e] => d = e

\* And its address until it is removed from devlist.
AddrInv == \A d, e \in devlist : addr[d] = addr[e] => d = e

\* Who has a reference never meets a device that is gone.
OopsInv == Unspecific => oops \notin {"cfg_rsp", "ata_rsp", "revalidate", "ktio", "put"}

DevInv ==
    /\ Types /\ KnownInv /\ CountInv /\ LifeInv /\ GdInv /\ FreeInv
    /\ MinorInv /\ AddrInv /\ OopsInv

----------------------------------------------------------------------------
(* What a step does, freed of where it is in the program and of the tests  *)
(* for freed memory.                                                       *)

Quiet == UNCHANGED <<memVars, devVars, pcVars>>

\* Contexts.
GetRef(c, d, pc) ==
    /\ d \in devlist /\ "TKILL" \notin flags[d] /\ ctx[c] = Idle
    /\ pc \in {"cfg_rsp", "ata_rsp", "revalidate"}
    /\ ref' = [ref EXCEPT ![d] = @ + 1] /\ ctx' = [ctx EXCEPT ![c] = At(pc, d)]
    /\ UNCHANGED <<memVars, flags, gd, nopen, ident, work, worker, flusher, opener>>

NewDev(c, d, a, n) ==
    /\ d \in Dev \ Known /\ ctx[c] = Idle
    /\ \A e \in devlist : addr[e] # a
    /\ n \in Minor \ used
    /\ devlist' = devlist \cup {d} /\ used' = used \cup {n}
    /\ addr' = [addr EXCEPT ![d] = a] /\ sysminor' = [sysminor EXCEPT ![d] = n]
    /\ ref' = [ref EXCEPT ![d] = 1] /\ ctx' = [ctx EXCEPT ![c] = At("cfg_rsp", d)]
    /\ UNCHANGED <<gone, flags, gd, nopen, ident, work, worker, flusher, opener>>

LeakMinor(n) ==
    /\ n \in Minor /\ used' = used \cup {n}
    /\ UNCHANGED <<devlist, gone, addr, sysminor, devVars, pcVars>>

CtxGoes(c, pc) ==
    /\ ctx[c].pc \in {"cfg_rsp", "ata_rsp", "revalidate", "iocq"}
    /\ pc \in {"iocq", "put", "ktio_put"}
    /\ ctx' = [ctx EXCEPT ![c] = At(pc, ctx[c].d)]
    /\ ident' \in [Dev -> BOOLEAN]
    /\ UNCHANGED <<memVars, flags, gd, nopen, ref, work, worker, flusher, opener>>

Identified(c) ==
    LET d == ctx[c].d
    IN /\ ctx[c].pc = "iocq"
       /\ flags[d] \cap {"GDALLOC", "NEWSIZE"} = {}
       /\ SetFlags(d, IF gd[d] = "null" THEN {"GDALLOC"} ELSE {"NEWSIZE"}, {})
       /\ work' = [work EXCEPT ![d] = TRUE]
       /\ ctx' = [ctx EXCEPT ![c] = At("ktio_put", d)]
       /\ UNCHANGED <<memVars, gd, nopen, ref, ident, worker, flusher, opener>>

PutBack(c, x) ==
    /\ ctx[c].pc \in {"put", "ktio_put"}
    /\ x \in {Idle, At("ktio_id", ctx[c].d)}
    /\ ref' = [ref EXCEPT ![ctx[c].d] = @ - 1] /\ ctx' = [ctx EXCEPT ![c] = x]
    /\ UNCHANGED <<memVars, flags, gd, nopen, ident, work, worker, flusher, opener>>

Leaves(c) ==
    /\ ctx[c].pc = "ktio_id" /\ ctx' = [ctx EXCEPT ![c] = Idle]
    /\ UNCHANGED <<memVars, devVars, worker, flusher, opener>>

TimerDowns(d) ==
    /\ flags' = [flags EXCEPT ![d] = @ \ {"UP"}]
    /\ ident' \in [Dev -> BOOLEAN]
    /\ UNCHANGED <<memVars, gd, nopen, ref, work, pcVars>>

\* Workers.
WorkStarts(w, d, pc) ==
    /\ worker[w] = Idle /\ work[d] /\ pc \in {"gdalloc", "newsize"}
    /\ pc = "gdalloc" => "GDALLOC" \in flags[d]
    /\ work' = [work EXCEPT ![d] = FALSE] /\ worker' = [worker EXCEPT ![w] = At(pc, d)]
    /\ UNCHANGED <<memVars, flags, gd, nopen, ref, ident, ctx, flusher, opener>>

TakesGd(w, d) ==
    /\ worker[w] = At("gdalloc", d) /\ MayGdalloc(d)
    /\ SetFlags(d, {"GD_NOW"}, {})
    /\ worker' = [worker EXCEPT ![w] = At("alloc", d)]
    /\ UNCHANGED <<memVars, gd, nopen, ref, ident, work, ctx, flusher, opener>>

WorkerGoes(w, d, x) ==
    /\ worker[w] \in {At("gdalloc", d), At("newsize", d)}
    /\ x \in {Idle, At("newsize", d)} \/ (x = At("i_size", d) /\ "NEWSIZE" \in flags[d])
    /\ worker' = [worker EXCEPT ![w] = x]
    /\ UNCHANGED <<memVars, devVars, ctx, flusher, opener>>

FailsGd(w, d) ==
    /\ worker[w] = At("alloc", d)
    /\ SetFlags(d, {}, {"GD_NOW"}) /\ work' = [work EXCEPT ![d] = TRUE]
    /\ worker' = [worker EXCEPT ![w] = At("newsize", d)]
    /\ UNCHANGED <<memVars, gd, nopen, ref, ident, ctx, flusher, opener>>

InstallsGd(w, d) ==
    /\ worker[w] = At("alloc", d) /\ d \notin gone
    /\ gd' = [gd EXCEPT ![d] = "installed"] /\ SetFlags(d, {"UP"}, {"GDALLOC"})
    /\ worker' = [worker EXCEPT ![w] = At("add_disk", d)]
    /\ UNCHANGED <<memVars, nopen, ref, ident, work, ctx, flusher, opener>>

AddsDisk(w, d) ==
    /\ worker[w] = At("add_disk", d)
    /\ \/ gd[d] = "installed" /\ gd' = [gd EXCEPT ![d] = "added"]
       \/ gd[d] = "deleted" /\ gd' = [gd EXCEPT ![d] = "readded"]
    /\ worker' = [worker EXCEPT ![w] = At("added", d)]
    /\ UNCHANGED <<memVars, flags, nopen, ref, ident, work, ctx, flusher, opener>>

DoneGd(w, d) ==
    /\ worker[w] = At("added", d)
    /\ SetFlags(d, {}, {"GD_NOW"})
    /\ worker' = [worker EXCEPT ![w] = At("newsize", d)]
    /\ UNCHANGED <<memVars, gd, nopen, ref, ident, work, ctx, flusher, opener>>

DoneSize(w, d) ==
    /\ worker[w] = At("i_size", d)
    /\ SetFlags(d, {"UP"}, {"NEWSIZE"})
    /\ worker' = [worker EXCEPT ![w] = Idle]
    /\ UNCHANGED <<memVars, gd, nopen, ref, ident, work, ctx, flusher, opener>>

\* Users.
OpenerGoes(o, x) ==
    /\ opener[o].pc # "open"
    /\ \/ x = Idle
       \/ \E d \in Dev :
            /\ gd[d] \in {"added", "readded"} /\ "TKILL" \notin flags[d]
            /\ x = At("opening", d)
    /\ opener' = [opener EXCEPT ![o] = x]
    /\ UNCHANGED <<memVars, devVars, ctx, worker, flusher>>

Opens(o, d) ==
    /\ opener[o] = At("opening", d) /\ "TKILL" \notin flags[d]
    /\ nopen' = [nopen EXCEPT ![d] = @ + 1] /\ opener' = [opener EXCEPT ![o] = At("open", d)]
    /\ UNCHANGED <<memVars, flags, gd, ref, ident, work, ctx, worker, flusher>>

Releases(o, d, x) ==
    /\ opener[o] = At("open", d) /\ x \in {Idle, At("cfg", d)}
    /\ nopen' = [nopen EXCEPT ![d] = @ - 1] /\ opener' = [opener EXCEPT ![o] = x]
    /\ UNCHANGED <<memVars, flags, gd, ref, ident, work, ctx, worker, flusher>>

\* Flushes.
FlusherGoes(p, x) ==
    /\ flusher[p].pc \notin Freeing
    /\ x = At("pass_one", None) \/ x = At("pass_two", None)
       \/ \E d \in devlist : x = At("freedev", d)
    /\ flusher' = [flusher EXCEPT ![p] = x]
    /\ UNCHANGED <<memVars, devVars, ctx, worker, opener>>

Dooms(p, D) ==
    /\ flusher[p] = At("pass_one", None) /\ D \subseteq devlist
    /\ \A d \in D :
         \/ gd[d] # "null" /\ ~Unspecific
         \/ /\ "GDALLOC" \notin flags[d] /\ "NEWSIZE" \notin flags[d]
            /\ ~(nopen[d] > 0) /\ ~(ref[d] > 0)
    /\ flags' = [d \in Dev |-> IF d \in D THEN (flags[d] \ {"UP"}) \cup {"TKILL"} ELSE flags[d]]
    /\ ident' \in [Dev -> BOOLEAN]
    /\ flusher' = [flusher EXCEPT ![p] = At("pass_two", None)]
    /\ UNCHANGED <<memVars, gd, nopen, ref, work, ctx, worker, opener>>

StartsFree(p, d) ==
    /\ flusher[p] = At("freedev", d) /\ ToFree(d)
    /\ SetFlags(d, {"FREEING"}, {})
    /\ flusher' = [flusher EXCEPT ![p] = At("freeing", d)]
    /\ UNCHANGED <<memVars, gd, nopen, ref, ident, work, ctx, worker, opener>>

FreesDisk(p, d) ==
    /\ flusher[p] = At("freeing", d)
    /\ gd' = [gd EXCEPT ![d] = IF @ = "null" THEN @ ELSE "deleted"]
    /\ flusher' = [flusher EXCEPT ![p] = At("minor", d)]
    /\ UNCHANGED <<memVars, flags, nopen, ref, ident, work, ctx, worker, opener>>

FreesMinor(p, d) ==
    /\ flusher[p] = At("minor", d)
    /\ used' = used \ {sysminor[d]}
    /\ flusher' = [flusher EXCEPT ![p] = At("freed", d)]
    /\ UNCHANGED <<devlist, gone, addr, sysminor, devVars, ctx, worker, opener>>

DoneFree(p, d) ==
    /\ flusher[p] = At("freed", d)
    /\ SetFlags(d, {"FREED"}, {})
    /\ flusher' = [flusher EXCEPT ![p] = At("pass_two", None)]
    /\ UNCHANGED <<memVars, gd, nopen, ref, ident, work, ctx, worker, opener>>

Removes(p) ==
    LET doomed == {d \in devlist : "FREED" \in flags[d]}
    IN /\ flusher[p].pc = "pass_two"
       /\ devlist' = devlist \ doomed /\ gone' = gone \cup doomed
       /\ flusher' = [flusher EXCEPT ![p] = Idle]
       /\ UNCHANGED <<addr, sysminor, used, devVars, ctx, worker, opener>>

CtxEffect ==
    \/ \E c \in Ctx :
         \/ \E d \in Dev, pc \in CtxPc : GetRef(c, d, pc)
         \/ \E d \in Dev, a \in Addr, n \in Minor : NewDev(c, d, a, n)
         \/ \E pc \in CtxPc : CtxGoes(c, pc)
         \/ Identified(c)
         \/ \E x \in CtxRec : PutBack(c, x)
         \/ Leaves(c)
    \/ \E n \in Minor : LeakMinor(n)
    \/ \E d \in Dev : TimerDowns(d)
WorkerEffect ==
    \E w \in Worker, d \in Dev :
        \/ \E pc \in WorkerPc : WorkStarts(w, d, pc)
        \/ TakesGd(w, d)
        \/ \E x \in WorkerRec : WorkerGoes(w, d, x)
        \/ FailsGd(w, d) \/ InstallsGd(w, d) \/ AddsDisk(w, d) \/ DoneGd(w, d)
        \/ DoneSize(w, d)
OpenerEffect ==
    \E o \in Opener :
        \/ \E x \in OpenerRec : OpenerGoes(o, x)
        \/ \E d \in Dev : Opens(o, d) \/ \E x \in OpenerRec : Releases(o, d, x)
FlusherEffect ==
    \E p \in Flusher :
        \/ \E x \in FlusherRec : FlusherGoes(p, x)
        \/ \E D \in SUBSET Dev : Dooms(p, D)
        \/ \E d \in Dev :
             StartsFree(p, d) \/ FreesDisk(p, d) \/ FreesMinor(p, d) \/ DoneFree(p, d)
        \/ Removes(p)
Effect == Quiet \/ CtxEffect \/ WorkerEffect \/ OpenerEffect \/ FlusherEffect

\* A record of a place and a device.
LEMMA AtFacts ==
    ASSUME NEW pc, NEW d
    PROVE  At(pc, d).pc = pc /\ At(pc, d).d = d
BY DEF At

\* To change the place in it is to make a new one.
LEMMA MovePc ==
    ASSUME NEW A, NEW B, NEW r \in [pc : A, d : B], NEW x
    PROVE  [r EXCEPT !.pc = x] = At(x, r.d)
BY DEF At

\* It is made of its place and its device.
LEMMA IsAt ==
    ASSUME NEW A, NEW B, NEW r \in [pc : A, d : B]
    PROVE  r = At(r.pc, r.d)
BY DEF At

\* What a context is doing.
LEMMA CtxFacts ==
    ASSUME Types, NEW c \in Ctx
    PROVE  /\ ctx[c] = At(ctx[c].pc, ctx[c].d)
           /\ ctx[c].pc # "idle" => ctx[c].d \in Dev
           /\ \A x : [ctx EXCEPT ![c].pc = x] = [ctx EXCEPT ![c] = At(x, ctx[c].d)]
<1>1. ctx \in [Ctx -> [pc : CtxPc \cup {"idle"}, d : Dev \cup {None}]]
  BY ZenonT(30) DEF Types, PcType, CtxRec
<1>2. ctx[c] \in [pc : CtxPc \cup {"idle"}, d : Dev \cup {None}]
  BY <1>1
<1>3. ctx[c].pc # "idle" => ctx[c].d \in Dev
  <2>1. ctx[c].d \in Dev \cup {None}
    BY <1>2
  <2>2. ctx[c].pc = "idle" <=> ctx[c].d = None
    BY ZenonT(30) DEF Types, Busy
  <2> QED
    BY ZenonT(30), <2>1, <2>2
<1>4. ctx[c] = At(ctx[c].pc, ctx[c].d)
  BY ZenonT(30), <1>2, IsAt
<1>5. ASSUME NEW x PROVE [ctx EXCEPT ![c].pc = x] = [ctx EXCEPT ![c] = At(x, ctx[c].d)]
  <2>1. [ctx[c] EXCEPT !.pc = x] = At(x, ctx[c].d)
    BY ZenonT(30), <1>2, MovePc
  <2>2. [ctx EXCEPT ![c].pc = x] = [ctx EXCEPT ![c] = [ctx[c] EXCEPT !.pc = x]]
    BY ZenonT(30)
  <2> QED
    BY ZenonT(30), <2>1, <2>2
<1> QED
  BY ZenonT(30), <1>3, <1>4, <1>5

\* What a worker is doing.
LEMMA WorkerFacts ==
    ASSUME Types, NEW w \in Worker
    PROVE  /\ worker[w] = At(worker[w].pc, worker[w].d)
           /\ worker[w].pc # "idle" => worker[w].d \in Dev
           /\ \A x : [worker EXCEPT ![w].pc = x] = [worker EXCEPT ![w] = At(x, worker[w].d)]
<1>1. worker \in [Worker -> [pc : WorkerPc \cup {"idle"}, d : Dev \cup {None}]]
  BY ZenonT(30) DEF Types, PcType, WorkerRec
<1>2. worker[w] \in [pc : WorkerPc \cup {"idle"}, d : Dev \cup {None}]
  BY <1>1
<1>3. worker[w].pc # "idle" => worker[w].d \in Dev
  <2>1. worker[w].d \in Dev \cup {None}
    BY <1>2
  <2>2. worker[w].pc = "idle" <=> worker[w].d = None
    BY ZenonT(30) DEF Types, Busy
  <2> QED
    BY ZenonT(30), <2>1, <2>2
<1>4. worker[w] = At(worker[w].pc, worker[w].d)
  BY ZenonT(30), <1>2, IsAt
<1>5. ASSUME NEW x PROVE [worker EXCEPT ![w].pc = x] = [worker EXCEPT ![w] = At(x, worker[w].d)]
  <2>1. [worker[w] EXCEPT !.pc = x] = At(x, worker[w].d)
    BY ZenonT(30), <1>2, MovePc
  <2>2. [worker EXCEPT ![w].pc = x] = [worker EXCEPT ![w] = [worker[w] EXCEPT !.pc = x]]
    BY ZenonT(30)
  <2> QED
    BY ZenonT(30), <2>1, <2>2
<1> QED
  BY ZenonT(30), <1>3, <1>4, <1>5

\* What a user is doing.
LEMMA OpenerFacts ==
    ASSUME Types, NEW o \in Opener
    PROVE  /\ opener[o] = At(opener[o].pc, opener[o].d)
           /\ opener[o].pc # "idle" => opener[o].d \in Dev
           /\ \A x : [opener EXCEPT ![o].pc = x] = [opener EXCEPT ![o] = At(x, opener[o].d)]
<1>1. opener \in [Opener -> [pc : OpenerPc, d : Dev \cup {None}]]
  BY ZenonT(30) DEF Types, PcType, OpenerRec
<1>2. opener[o] \in [pc : OpenerPc, d : Dev \cup {None}]
  BY <1>1
<1>3. opener[o].pc # "idle" => opener[o].d \in Dev
  <2>1. opener[o].d \in Dev \cup {None}
    BY <1>2
  <2>2. opener[o].pc = "idle" <=> opener[o].d = None
    BY ZenonT(30) DEF Types, Busy
  <2> QED
    BY ZenonT(30), <2>1, <2>2
<1>4. opener[o] = At(opener[o].pc, opener[o].d)
  BY ZenonT(30), <1>2, IsAt
<1>5. ASSUME NEW x PROVE [opener EXCEPT ![o].pc = x] = [opener EXCEPT ![o] = At(x, opener[o].d)]
  <2>1. [opener[o] EXCEPT !.pc = x] = At(x, opener[o].d)
    BY ZenonT(30), <1>2, MovePc
  <2>2. [opener EXCEPT ![o].pc = x] = [opener EXCEPT ![o] = [opener[o] EXCEPT !.pc = x]]
    BY ZenonT(30)
  <2> QED
    BY ZenonT(30), <2>1, <2>2
<1> QED
  BY ZenonT(30), <1>3, <1>4, <1>5

\* What a flush is doing.
LEMMA FlusherFacts ==
    ASSUME Types, NEW p \in Flusher
    PROVE  /\ flusher[p] = At(flusher[p].pc, flusher[p].d)
           /\ flusher[p].pc \notin {"idle", "pass_one", "pass_two"} => flusher[p].d \in Dev
           /\ flusher[p].pc \in {"idle", "pass_one", "pass_two"} => flusher[p].d = None
           /\ \A x : [flusher EXCEPT ![p].pc = x] = [flusher EXCEPT ![p] = At(x, flusher[p].d)]
<1>1. flusher \in [Flusher -> [pc : FlusherPc, d : Dev \cup {None}]]
  BY ZenonT(30) DEF Types, PcType, FlusherRec
<1>2. flusher[p] \in [pc : FlusherPc, d : Dev \cup {None}]
  BY <1>1
<1>3. /\ flusher[p].pc \notin {"idle", "pass_one", "pass_two"} => flusher[p].d \in Dev
      /\ flusher[p].pc \in {"idle", "pass_one", "pass_two"} => flusher[p].d = None
  <2>1. flusher[p].d \in Dev \cup {None}
    BY <1>2
  <2>2. flusher[p].pc \in {"idle", "pass_one", "pass_two"} <=> flusher[p].d = None
    BY ZenonT(30) DEF Types, Busy
  <2> QED
    BY ZenonT(30), <2>1, <2>2
<1>4. flusher[p] = At(flusher[p].pc, flusher[p].d)
  BY ZenonT(30), <1>2, IsAt
<1>5. ASSUME NEW x PROVE [flusher EXCEPT ![p].pc = x] = [flusher EXCEPT ![p] = At(x, flusher[p].d)]
  <2>1. [flusher[p] EXCEPT !.pc = x] = At(x, flusher[p].d)
    BY ZenonT(30), <1>2, MovePc
  <2>2. [flusher EXCEPT ![p].pc = x] = [flusher EXCEPT ![p] = [flusher[p] EXCEPT !.pc = x]]
    BY ZenonT(30)
  <2> QED
    BY ZenonT(30), <2>1, <2>2
<1> QED
  BY ZenonT(30), <1>3, <1>4, <1>5

\* The records that the effects range over.
LEMMA RecFacts ==
    /\ Idle \in CtxRec /\ \A d \in Dev : At("ktio_id", d) \in CtxRec
    /\ Idle \in WorkerRec
    /\ \A d \in Dev : At("newsize", d) \in WorkerRec /\ At("i_size", d) \in WorkerRec
    /\ Idle \in OpenerRec
    /\ \A d \in Dev : At("opening", d) \in OpenerRec /\ At("cfg", d) \in OpenerRec
    /\ At("pass_one", None) \in FlusherRec /\ At("pass_two", None) \in FlusherRec
    /\ \A d \in Dev : At("freedev", d) \in FlusherRec
    /\ Idle = At("idle", None)
BY DEF At, Idle, CtxRec, WorkerRec, OpenerRec, FlusherRec, CtxPc, WorkerPc, FlusherPc, OpenerPc

\* The identify flag is a Boolean.
LEMMA IdentType ==
    ASSUME Types, NEW d \in Dev
    PROVE  /\ ident \in [Dev -> BOOLEAN]
           /\ [ident EXCEPT ![d] = TRUE] \in [Dev -> BOOLEAN]
           /\ [ident EXCEPT ![d] = FALSE] \in [Dev -> BOOLEAN]
<1>1. ident \in [Dev -> BOOLEAN]
  BY ZenonT(30) DEF Types, DevType
<1> QED
  BY ZenonT(30), <1>1

\* A minor that minor_get returns is free.
LEMMA MinorGetFree ==
    ASSUME NEW a \in Addr, NEW n \in MinorGet(a)
    PROVE  n \in Minor \ used
BY DevAssumption DEF MinorGet

\* The steps of contexts.
LEMMA CtxSteps ==
    ASSUME Types, NEW c \in Ctx
    PROVE  /\ \A a \in Addr : Lookup(c, a) => Effect
           /\ CfgRsp(c) \/ Revalidate(c) \/ AtaRsp(c) \/ Ktio(c) \/ Put(c) \/ KtioId(c) => Effect
<1> DEFINE d == ctx[c].d
<1>f. /\ ctx[c].pc # "idle" => d \in Dev
      /\ \A x : [ctx EXCEPT ![c].pc = x] = [ctx EXCEPT ![c] = At(x, d)]
  BY ZenonT(30), CtxFacts
<1>q. Quiet => Effect
  BY ZenonT(30) DEF Effect
<1>e. CtxEffect => Effect
  BY ZenonT(30) DEF Effect
<1>p. {"cfg_rsp", "ata_rsp", "revalidate", "iocq", "put", "ktio_put", "ktio_id"} \subseteq CtxPc
  BY DEF CtxPc
<1>0. ASSUME NEW x \in {"iocq", "put", "ktio_put"}, CtxGoes(c, x) PROVE Effect
  <2>1. x \in CtxPc
    BY DEF CtxPc
  <2> QED
    BY ZenonT(30), <1>0, <1>e, <2>1 DEF CtxEffect
<1>1. ASSUME NEW a \in Addr, NEW x \in {"cfg_rsp", "ata_rsp", "revalidate"}, ctx[c] = Idle,
             Found(c, a, x), UNCHANGED <<worker, flusher, opener>>
      PROVE  Effect
  <2>1. PICK e \in devlist : GetRef(c, e, x)
    BY ZenonT(30), <1>1 DEF Found, Findable, GetRef
  <2>2. e \in Dev /\ x \in CtxPc
    BY DEF Types, MemType, CtxPc
  <2> QED
    BY ZenonT(30), <2>1, <2>2, <1>e DEF CtxEffect
<1>2. ASSUME NEW a \in Addr, ctx[c] = Idle, Alloc(c, a, "cfg_rsp"),
             UNCHANGED <<worker, flusher, opener>>
      PROVE  Effect
  <2>1. PICK n \in MinorGet(a) :
          /\ used' = used \cup {n}
          /\ \/ UNCHANGED <<devlist, gone, addr, sysminor, devVars, ctx>>
             \/ \E e \in Dev \ (devlist \cup gone) :
                  /\ devlist' = devlist \cup {e}
                  /\ addr' = [addr EXCEPT ![e] = a]
                  /\ sysminor' = [sysminor EXCEPT ![e] = n]
                  /\ ref' = [ref EXCEPT ![e] = 1]
                  /\ ctx' = [ctx EXCEPT ![c] = At("cfg_rsp", e)]
                  /\ UNCHANGED <<gone, flags, gd, nopen, ident, work>>
    BY ZenonT(30), <1>2 DEF Alloc
  <2>2. n \in Minor \ used
    BY ZenonT(30), MinorGetFree
  <2>3. n \in Minor
    BY ZenonT(30), <2>2
  <2>4. \A e \in devlist : addr[e] # a
    BY ZenonT(30), <1>2 DEF Alloc
  <2>5. CASE UNCHANGED <<devlist, gone, addr, sysminor, devVars, ctx>>
    <3>1. LeakMinor(n)
      BY ZenonT(30), <1>2, <2>1, <2>3, <2>5 DEF LeakMinor, pcVars
    <3> QED
      BY ZenonT(30), <3>1, <2>3, <1>e DEF CtxEffect
  <2>6. ASSUME NEW e \in Dev \ (devlist \cup gone),
               devlist' = devlist \cup {e}, addr' = [addr EXCEPT ![e] = a],
               sysminor' = [sysminor EXCEPT ![e] = n], ref' = [ref EXCEPT ![e] = 1],
               ctx' = [ctx EXCEPT ![c] = At("cfg_rsp", e)],
               UNCHANGED <<gone, flags, gd, nopen, ident, work>>
        PROVE  Effect
    <3>1. NewDev(c, e, a, n)
      BY ZenonT(30), <1>2, <2>1, <2>2, <2>4, <2>6 DEF NewDev, Known
    <3>2. e \in Dev
      BY ZenonT(30)
    <3> QED
      BY ZenonT(30), <3>1, <3>2, <2>3, <1>e DEF CtxEffect
  <2> QED
    BY ZenonT(30), <2>1, <2>5, <2>6
<1>3. ASSUME NEW a \in Addr, Lookup(c, a) PROVE Effect
  BY ZenonT(30), <1>1, <1>2, <1>3 DEF Lookup
<1>4. ASSUME CfgRsp(c) PROVE Effect
  <2>1. ctx[c].pc = "cfg_rsp" /\ d \in Dev
    BY <1>f, <1>4 DEF CfgRsp
  <2>2. CASE Quiet
    BY ZenonT(30), <2>2, <1>q
  <2>3. CASE /\ ident' = [ident EXCEPT ![d] = TRUE] \/ UNCHANGED ident
             /\ ctx' = [ctx EXCEPT ![c].pc = "put"]
             /\ UNCHANGED <<memVars, flags, gd, nopen, ref, work, worker, flusher, opener>>
    <3>1. ident' \in [Dev -> BOOLEAN]
      BY ZenonT(30), <2>1, <2>3, IdentType
    <3>2. CtxGoes(c, "put")
      BY ZenonT(30), <1>f, <2>1, <2>3, <3>1 DEF CtxGoes
    <3> QED
      BY ZenonT(30), <3>2, <1>0
  <2> QED
    BY ZenonT(30), <1>4, <2>2, <2>3 DEF CfgRsp, Touch, Quiet
<1>5. ASSUME Revalidate(c) PROVE Effect
  <2>1. ctx[c].pc = "revalidate" /\ d \in Dev
    BY <1>f, <1>5 DEF Revalidate
  <2>2. CASE Quiet
    BY ZenonT(30), <2>2, <1>q
  <2>3. CASE /\ ident' = [ident EXCEPT ![d] = TRUE] \/ UNCHANGED ident
             /\ ctx' = [ctx EXCEPT ![c].pc = "put"]
             /\ UNCHANGED <<memVars, flags, gd, nopen, ref, work, worker, flusher, opener>>
    <3>1. ident' \in [Dev -> BOOLEAN]
      BY ZenonT(30), <2>1, <2>3, IdentType
    <3>2. CtxGoes(c, "put")
      BY ZenonT(30), <1>f, <2>1, <2>3, <3>1 DEF CtxGoes
    <3> QED
      BY ZenonT(30), <3>2, <1>0
  <2> QED
    BY ZenonT(30), <1>5, <2>2, <2>3 DEF Revalidate, Touch, Quiet, devVars, pcVars
<1>6. ASSUME AtaRsp(c) PROVE Effect
  <2>1. ctx[c].pc = "ata_rsp" /\ d \in Dev
    BY <1>f, <1>6 DEF AtaRsp
  <2>2. CASE Quiet
    BY ZenonT(30), <2>2, <1>q
  <2>3. ASSUME NEW x \in {"iocq", "put"},
               ident' = [ident EXCEPT ![d] = FALSE] \/ UNCHANGED ident,
               ctx' = [ctx EXCEPT ![c].pc = x],
               UNCHANGED <<memVars, flags, gd, nopen, ref, work, worker, flusher, opener>>
        PROVE  Effect
    <3>1. ident' \in [Dev -> BOOLEAN]
      BY ZenonT(30), <2>1, <2>3, IdentType
    <3>2. CtxGoes(c, x)
      BY ZenonT(30), <1>f, <2>1, <2>3, <3>1 DEF CtxGoes
    <3> QED
      BY ZenonT(30), <3>2, <1>0
  <2> QED
    BY ZenonT(30), <1>6, <2>2, <2>3 DEF AtaRsp, Touch, Quiet
<1>7. ASSUME Ktio(c) PROVE Effect
  <2>1. ctx[c].pc = "iocq" /\ d \in Dev
    BY <1>f, <1>7 DEF Ktio
  <2>2. CASE Quiet
    BY ZenonT(30), <2>2, <1>q
  <2>3. CASE /\ UNCHANGED <<flags, work>> /\ ctx' = [ctx EXCEPT ![c].pc = "ktio_put"]
             /\ UNCHANGED <<memVars, gd, nopen, ref, ident, worker, flusher, opener>>
    <3>1. ident' \in [Dev -> BOOLEAN]
      BY ZenonT(30), <2>1, <2>3, IdentType
    <3>2. CtxGoes(c, "ktio_put")
      BY ZenonT(30), <1>f, <2>1, <2>3, <3>1 DEF CtxGoes
    <3> QED
      BY ZenonT(30), <3>2, <1>0
  <2>4. CASE /\ flags[d] \cap {"GDALLOC", "NEWSIZE"} = {}
             /\ SetFlags(d, IF gd[d] = "null" THEN {"GDALLOC"} ELSE {"NEWSIZE"}, {})
             /\ work' = [work EXCEPT ![d] = TRUE]
             /\ ctx' = [ctx EXCEPT ![c].pc = "ktio_put"]
             /\ UNCHANGED <<memVars, gd, nopen, ref, ident, worker, flusher, opener>>
    <3>1. Identified(c)
      BY ZenonT(30), <1>f, <2>1, <2>4 DEF Identified
    <3> QED
      BY ZenonT(30), <3>1, <1>e DEF CtxEffect
  <2> QED
    BY ZenonT(30), <1>7, <2>2, <2>3, <2>4 DEF Ktio, Touch, Quiet, AtaidComplete
<1>8. ASSUME Put(c) PROVE Effect
  <2>1. ctx[c].pc \in {"put", "ktio_put"} /\ d \in Dev
    BY <1>f, <1>8 DEF Put
  <2>2. CASE Quiet
    BY ZenonT(30), <2>2, <1>q
  <2>3. CASE /\ PutRef(d)
             /\ ctx' = [ctx EXCEPT ![c] = IF @.pc = "put" THEN Idle ELSE At("ktio_id", @.d)]
             /\ UNCHANGED <<memVars, flags, gd, nopen, ident, work, worker, flusher, opener>>
    <3>1. PICK x \in {Idle, At("ktio_id", d)} : ctx' = [ctx EXCEPT ![c] = x]
      BY ZenonT(30), <2>3
    <3>2. PutBack(c, x)
      BY ZenonT(30), <2>1, <2>3, <3>1 DEF PutBack, PutRef
    <3>3. x \in CtxRec
      BY ZenonT(30), <2>1, RecFacts
    <3> QED
      BY ZenonT(30), <3>2, <3>3, <1>e DEF CtxEffect
  <2> QED
    BY ZenonT(30), <1>8, <2>2, <2>3 DEF Put, Touch, Quiet
<1>9. ASSUME KtioId(c) PROVE Effect
  <2>1. Quiet \/ Leaves(c)
    BY ZenonT(30), <1>9 DEF KtioId, Touch, Quiet, Leaves
  <2> QED
    BY ZenonT(30), <2>1, <1>q, <1>e DEF CtxEffect
<1> QED
  BY ZenonT(30), <1>3, <1>4, <1>5, <1>6, <1>7, <1>8, <1>9

\* The steps of workers.
LEMMA WorkerSteps ==
    ASSUME Types, NEW w \in Worker
    PROVE  /\ \A d \in Dev : WorkStart(w, d) => Effect
           /\ WorkerStep(w) => Effect
<1> DEFINE d == worker[w].d
<1>f. /\ worker[w].pc # "idle" => d \in Dev
      /\ worker[w] = At(worker[w].pc, d)
      /\ \A x : [worker EXCEPT ![w].pc = x] = [worker EXCEPT ![w] = At(x, d)]
  BY ZenonT(30), WorkerFacts
<1>q. Quiet => Effect
  BY ZenonT(30) DEF Effect
<1>e. WorkerEffect => Effect
  BY ZenonT(30) DEF Effect
<1> HIDE DEF d
<1>g. ASSUME d \in Dev, NEW x \in {Idle, At("newsize", d), At("i_size", d)}, WorkerGoes(w, d, x)
      PROVE  Effect
  <2>1. x \in WorkerRec
    BY ZenonT(30), <1>g, RecFacts
  <2> QED
    BY ZenonT(30), <1>g, <2>1, <1>e DEF WorkerEffect
<1>0. ASSUME NEW e \in Dev, WorkStart(w, e) PROVE Effect
  <2>1. Quiet \/ \E pc \in {"gdalloc", "newsize"} : WorkStarts(w, e, pc)
    BY ZenonT(30), <1>0 DEF WorkStart, Touch, Quiet, WorkStarts
  <2>2. {"gdalloc", "newsize"} \subseteq WorkerPc
    BY DEF WorkerPc
  <2> QED
    BY ZenonT(30), <2>1, <2>2, <1>q, <1>e DEF WorkerEffect
<1>1. ASSUME Gdalloc(w) PROVE Effect
  <2>1. worker[w] = At("gdalloc", d) /\ d \in Dev
    BY ZenonT(30), <1>f, <1>1 DEF Gdalloc
  <2>2. Quiet \/ TakesGd(w, d) \/ WorkerGoes(w, d, At("newsize", d))
    BY ZenonT(30), <1>f, <1>1, <2>1 DEF Gdalloc, Touch, Quiet, TakesGd, WorkerGoes, devVars, d
  <2> QED
    BY ZenonT(30), <2>1, <2>2, <1>q, <1>e, <1>g DEF WorkerEffect
<1>2. ASSUME GdallocFail(w) PROVE Effect
  <2>1. worker[w] = At("alloc", d) /\ d \in Dev
    BY ZenonT(30), <1>f, <1>2 DEF GdallocFail
  <2>2. Quiet \/ FailsGd(w, d)
    BY ZenonT(30), <1>f, <1>2, <2>1 DEF GdallocFail, Touch, Quiet, FailsGd, ScheduleWork, d
  <2> QED
    BY ZenonT(30), <2>1, <2>2, <1>q, <1>e DEF WorkerEffect
<1>3. ASSUME GdallocInstall(w) PROVE Effect
  <2>1. worker[w] = At("alloc", d) /\ d \in Dev
    BY ZenonT(30), <1>f, <1>3 DEF GdallocInstall
  <2>2. Quiet \/ InstallsGd(w, d)
    BY ZenonT(30), <1>f, <1>3, <2>1 DEF GdallocInstall, Touch, Quiet, InstallsGd, d
  <2> QED
    BY ZenonT(30), <2>1, <2>2, <1>q, <1>e DEF WorkerEffect
<1>4. ASSUME AddDisk(w) PROVE Effect
  <2>1. worker[w] = At("add_disk", d) /\ d \in Dev
    BY ZenonT(30), <1>f, <1>4 DEF AddDisk
  <2>2. Quiet \/ AddsDisk(w, d)
    BY ZenonT(30), <1>f, <1>4, <2>1 DEF AddDisk, Touch, Quiet, AddsDisk, d
  <2> QED
    BY ZenonT(30), <2>1, <2>2, <1>q, <1>e DEF WorkerEffect
<1>5. ASSUME GdallocDone(w) PROVE Effect
  <2>1. worker[w] = At("added", d) /\ d \in Dev
    BY ZenonT(30), <1>f, <1>5 DEF GdallocDone
  <2>2. Quiet \/ DoneGd(w, d)
    BY ZenonT(30), <1>f, <1>5, <2>1 DEF GdallocDone, Touch, Quiet, DoneGd, d
  <2> QED
    BY ZenonT(30), <2>1, <2>2, <1>q, <1>e DEF WorkerEffect
<1>6. ASSUME NewsizeTest(w) PROVE Effect
  <2>1. worker[w] = At("newsize", d) /\ d \in Dev
    BY ZenonT(30), <1>f, <1>6 DEF NewsizeTest
  <2>2. Quiet \/ WorkerGoes(w, d, Idle) \/ WorkerGoes(w, d, At("i_size", d))
    BY ZenonT(30), <1>f, <1>6, <2>1 DEF NewsizeTest, Touch, Quiet, WorkerGoes, d
  <2> QED
    BY ZenonT(30), <2>1, <2>2, <1>q, <1>g
<1>7. ASSUME Newsize(w) PROVE Effect
  <2>1. worker[w] = At("i_size", d) /\ d \in Dev
    BY ZenonT(30), <1>f, <1>7 DEF Newsize
  <2>2. Quiet \/ DoneSize(w, d)
    BY ZenonT(30), <1>f, <1>7, <2>1 DEF Newsize, Touch, Quiet, DoneSize, d
  <2> QED
    BY ZenonT(30), <2>1, <2>2, <1>q, <1>e DEF WorkerEffect
<1> QED
  BY ZenonT(30), <1>0, <1>1, <1>2, <1>3, <1>4, <1>5, <1>6, <1>7 DEF WorkerStep

\* The steps of users.
LEMMA OpenerSteps ==
    ASSUME Types, NEW o \in Opener,
           OpenTest(o) \/ Open(o) \/ Release(o) \/ ReleaseCfg(o)
    PROVE  Effect
<1> DEFINE d == opener[o].d
<1>f. /\ opener[o].pc # "idle" => d \in Dev
      /\ opener[o] = At(opener[o].pc, d)
      /\ \A x : [opener EXCEPT ![o].pc = x] = [opener EXCEPT ![o] = At(x, d)]
  BY ZenonT(30), OpenerFacts
<1>q. Quiet => Effect
  BY ZenonT(30) DEF Effect
<1>e. OpenerEffect => Effect
  BY ZenonT(30) DEF Effect
<1>i. Idle.pc = "idle" /\ Idle \in OpenerRec
  BY RecFacts DEF Idle
<1> HIDE DEF d
<1>1. ASSUME OpenTest(o) PROVE Effect
  <2>1. PICK e \in Dev :
          /\ gd[e] \in {"added", "readded"}
          /\ Touch(e, "open",
               /\ MayOpen(e)
               /\ opener' = [opener EXCEPT ![o] = At("opening", e)]
               /\ UNCHANGED <<memVars, devVars, ctx, worker, flusher>>)
    BY ZenonT(30), <1>1 DEF OpenTest
  <2>2. opener[o].pc # "open"
    BY <1>1, <1>i DEF OpenTest
  <2>3. Quiet \/ OpenerGoes(o, At("opening", e))
    BY ZenonT(30), <2>1, <2>2 DEF Touch, Quiet, MayOpen, OpenerGoes
  <2>4. At("opening", e) \in OpenerRec
    BY ZenonT(30), RecFacts
  <2> QED
    BY ZenonT(30), <2>3, <2>4, <1>q, <1>e DEF OpenerEffect
<1>2. ASSUME Open(o) PROVE Effect
  <2>1. opener[o] = At("opening", d) /\ d \in Dev /\ opener[o].pc = "opening"
    BY ZenonT(30), <1>f, <1>2 DEF Open
  <2>0. opener[o].pc # "open"
    BY <2>1
  <2>2. Quiet \/ Opens(o, d) \/ OpenerGoes(o, Idle)
    BY ZenonT(30), <1>f, <1>2, <2>1, <2>0 DEF Open, Touch, Quiet, Opens, OpenerGoes, MayOpen, devVars, d
  <2> QED
    BY ZenonT(30), <2>1, <2>2, <1>i, <1>q, <1>e DEF OpenerEffect
<1>3. ASSUME Release(o) PROVE Effect
  <2>1. opener[o] = At("open", d) /\ d \in Dev
    BY ZenonT(30), <1>f, <1>3 DEF Release
  <2>2. Quiet \/ Releases(o, d, Idle) \/ Releases(o, d, At("cfg", d))
    BY ZenonT(30), <1>3, <2>1 DEF Release, Touch, Quiet, Releases, d
  <2>3. At("cfg", d) \in OpenerRec
    BY ZenonT(30), <2>1, RecFacts
  <2> QED
    BY ZenonT(30), <2>1, <2>2, <2>3, <1>i, <1>q, <1>e DEF OpenerEffect
<1>4. ASSUME ReleaseCfg(o) PROVE Effect
  <2>1. opener[o].pc # "open"
    BY <1>4 DEF ReleaseCfg
  <2>2. Quiet \/ OpenerGoes(o, Idle)
    BY ZenonT(30), <1>4, <2>1 DEF ReleaseCfg, Touch, Quiet, OpenerGoes
  <2> QED
    BY ZenonT(30), <2>2, <1>i, <1>q, <1>e DEF OpenerEffect
<1> QED
  BY ZenonT(30), <1>1, <1>2, <1>3, <1>4

\* The steps of flushes.
LEMMA FlusherSteps ==
    ASSUME Types, NEW p \in Flusher, FlushStep(p)
    PROVE  Effect
<1> DEFINE d == flusher[p].d
<1>f. /\ flusher[p].pc \notin {"idle", "pass_one", "pass_two"} => d \in Dev
      /\ flusher[p].pc \in {"idle", "pass_one", "pass_two"} => d = None
      /\ flusher[p] = At(flusher[p].pc, d)
      /\ \A x : [flusher EXCEPT ![p].pc = x] = [flusher EXCEPT ![p] = At(x, d)]
  BY ZenonT(30), FlusherFacts
<1>q. Quiet => Effect
  BY ZenonT(30) DEF Effect
<1>e. FlusherEffect => Effect
  BY ZenonT(30) DEF Effect
<1> HIDE DEF d
<1>g. ASSUME NEW x \in FlusherRec, FlusherGoes(p, x) PROVE Effect
  BY ZenonT(30), <1>g, <1>e DEF FlusherEffect
<1>1. ASSUME FlushStart(p) PROVE Effect
  <2>1. flusher[p].pc \notin Freeing
    BY <1>1 DEF FlushStart, Idle, Freeing
  <2>2. FlusherGoes(p, At("pass_one", None))
    BY ZenonT(30), <1>1, <2>1 DEF FlushStart, FlusherGoes
  <2> QED
    BY ZenonT(30), <1>g, <2>2, RecFacts
<1>2. ASSUME NEW mode \in Modes, NEW named \in SUBSET Addr, PassOne(p, mode, named) PROVE Effect
  <2> DEFINE D == {e \in devlist : IF mode = "specified" THEN UserReq(e, named)
                                                      ELSE ~Spared(e, mode)}
  <2>1. /\ flusher[p].pc = "pass_one"
        /\ flags' = [e \in Dev |-> IF e \in D THEN (flags[e] \ {"UP"}) \cup {"TKILL"} ELSE flags[e]]
        /\ ident' = [e \in Dev |-> ident[e] /\ e \notin D]
        /\ flusher' = [flusher EXCEPT ![p].pc = "pass_two"]
        /\ UNCHANGED <<memVars, gd, nopen, ref, work, ctx, worker, opener>>
    BY ZenonT(30), <1>2 DEF PassOne
  <2>2. flusher[p] = At("pass_one", None) /\ flusher' = [flusher EXCEPT ![p] = At("pass_two", None)]
    BY ZenonT(30), <1>f, <2>1
  <2>3. ident' \in [Dev -> BOOLEAN]
    BY ZenonT(30), <2>1
  <2>4. ASSUME NEW e \in D
        PROVE  \/ gd[e] # "null" /\ ~Unspecific
               \/ /\ "GDALLOC" \notin flags[e] /\ "NEWSIZE" \notin flags[e]
                  /\ ~(nopen[e] > 0) /\ ~(ref[e] > 0)
    <3>1. CASE mode = "specified"
      BY ZenonT(30), <3>1 DEF UserReq, Unspecific
    <3>2. CASE mode # "specified"
      <4>1. ~Spared(e, mode)
        BY ZenonT(30), <3>2
      <4>2. flags[e] \cap {"GDALLOC", "NEWSIZE", "TKILL"} = {} /\ ~(nopen[e] > 0) /\ ~(ref[e] > 0)
        BY ZenonT(30), <4>1 DEF Spared
      <4> QED
        BY ZenonT(30), <4>2
    <3> QED
      BY ZenonT(30), <3>1, <3>2
  <2>5. D \subseteq devlist
    BY ZenonT(30)
  <2> HIDE DEF D
  <2>c. \A e \in D :
          \/ gd[e] # "null" /\ ~Unspecific
          \/ /\ "GDALLOC" \notin flags[e] /\ "NEWSIZE" \notin flags[e]
             /\ ~(nopen[e] > 0) /\ ~(ref[e] > 0)
    BY ZenonT(30), <2>4
  <2>6. Dooms(p, D)
    BY ZenonT(30), <2>1, <2>2, <2>3, <2>c, <2>5 DEF Dooms
  <2>7. D \in SUBSET Dev
    BY <2>5 DEF Types, MemType
  <2> QED
    BY ZenonT(30), <2>6, <2>7, <1>e DEF FlusherEffect
<1>3. ASSUME PassTwo(p) PROVE Effect
  <2>1. flusher[p].pc \notin Freeing
    BY <1>3 DEF PassTwo, Freeing
  <2>2. PICK e \in devlist : flusher' = [flusher EXCEPT ![p] = At("freedev", e)]
    BY ZenonT(30), <1>3 DEF PassTwo
  <2>3. FlusherGoes(p, At("freedev", e))
    BY ZenonT(30), <1>3, <2>1, <2>2 DEF PassTwo, FlusherGoes
  <2>4. e \in Dev
    BY DEF Types, MemType
  <2> QED
    BY ZenonT(30), <1>g, <2>3, <2>4, RecFacts
<1>4. ASSUME FreedevMark(p) PROVE Effect
  <2>1. flusher[p].pc = "freedev"
    BY ZenonT(30), <1>4 DEF FreedevMark
  <2>2. flusher[p].pc \notin {"idle", "pass_one", "pass_two"} /\ flusher[p].pc \notin Freeing
    BY <2>1 DEF Freeing
  <2>3. flusher[p] = At("freedev", d) /\ d \in Dev
    BY ZenonT(30), <1>f, <2>1, <2>2
  <2>4. Quiet \/ StartsFree(p, d) \/ FlusherGoes(p, At("pass_two", None))
    BY ZenonT(30), <1>f, <1>4, <2>2, <2>3
       DEF FreedevMark, Touch, Quiet, StartsFree, FlusherGoes, Restart, devVars, d
  <2> QED
    BY ZenonT(30), <2>3, <2>4, <1>q, <1>e, <1>g, RecFacts DEF FlusherEffect
<1>5. ASSUME FreedevDisk(p) PROVE Effect
  <2>1. flusher[p].pc = "freeing"
    BY ZenonT(30), <1>5 DEF FreedevDisk
  <2>2. flusher[p].pc \notin {"idle", "pass_one", "pass_two"}
    BY <2>1
  <2>3. flusher[p] = At("freeing", d) /\ d \in Dev
    BY ZenonT(30), <1>f, <2>1, <2>2
  <2>4. Quiet \/ FreesDisk(p, d)
    BY ZenonT(30), <1>f, <1>5, <2>3 DEF FreedevDisk, Touch, Quiet, FreesDisk, Restart, d
  <2> QED
    BY ZenonT(30), <2>3, <2>4, <1>q, <1>e DEF FlusherEffect
<1>6. ASSUME FreedevMinor(p) PROVE Effect
  <2>1. flusher[p].pc = "minor"
    BY ZenonT(30), <1>6 DEF FreedevMinor
  <2>2. flusher[p].pc \notin {"idle", "pass_one", "pass_two"}
    BY <2>1
  <2>3. flusher[p] = At("minor", d) /\ d \in Dev
    BY ZenonT(30), <1>f, <2>1, <2>2
  <2>4. Quiet \/ FreesMinor(p, d)
    BY ZenonT(30), <1>f, <1>6, <2>3 DEF FreedevMinor, Touch, Quiet, FreesMinor, Restart, d
  <2> QED
    BY ZenonT(30), <2>3, <2>4, <1>q, <1>e DEF FlusherEffect
<1>7. ASSUME FreedevDone(p) PROVE Effect
  <2>1. flusher[p].pc = "freed"
    BY ZenonT(30), <1>7 DEF FreedevDone
  <2>2. flusher[p].pc \notin {"idle", "pass_one", "pass_two"}
    BY <2>1
  <2>3. flusher[p] = At("freed", d) /\ d \in Dev
    BY ZenonT(30), <1>f, <2>1, <2>2
  <2>4. Quiet \/ DoneFree(p, d)
    BY ZenonT(30), <1>f, <1>7, <2>3 DEF FreedevDone, Touch, Quiet, DoneFree, Restart, d
  <2> QED
    BY ZenonT(30), <2>3, <2>4, <1>q, <1>e DEF FlusherEffect
<1>8. ASSUME PassThree(p) PROVE Effect
  <2>1. Removes(p)
    BY ZenonT(30), <1>8 DEF PassThree, Removes
  <2> QED
    BY ZenonT(30), <2>1, <1>e DEF FlusherEffect
<1> QED
  BY ZenonT(30), <1>1, <1>2, <1>3, <1>4, <1>5, <1>6, <1>7, <1>8 DEF FlushStep

\* Every step has one of the effects.
LEMMA Steps ==
    ASSUME Types, [Next]_vars
    PROVE  Effect
<1>1. ASSUME NEW d \in Dev, TimerDead(d) PROVE Effect
  <2>1. /\ flags' = [flags EXCEPT ![d] = @ \ {"UP"}]
        /\ ident' = [ident EXCEPT ![d] = FALSE]
        /\ UNCHANGED <<memVars, gd, nopen, ref, work, pcVars>>
    BY ZenonT(30), <1>1 DEF TimerDead, Downdev
  <2>2. TimerDowns(d)
    BY ZenonT(30), <2>1, IdentType DEF TimerDowns
  <2> QED
    BY ZenonT(30), <2>2 DEF Effect, CtxEffect
<1>2. ASSUME UNCHANGED vars PROVE Effect
  BY ZenonT(30), <1>2 DEF vars, Effect, Quiet
<1> QED
  BY ZenonT(30), <1>1, <1>2, CtxSteps, WorkerSteps, OpenerSteps, FlusherSteps DEF Next, Halted

----------------------------------------------------------------------------
(* Types, and who knows which device.                                      *)

\* What the effects do to the memory of devices.
LEMMA MemFrame ==
    ASSUME Effect
    PROVE  \/ UNCHANGED memVars
           \/ \E c \in Ctx, d \in Dev, a \in Addr, n \in Minor : NewDev(c, d, a, n)
           \/ \E n \in Minor : LeakMinor(n)
           \/ \E p \in Flusher, d \in Dev : FreesMinor(p, d)
           \/ \E p \in Flusher : Removes(p)
<1>1. CtxEffect \/ Quiet =>
        \/ UNCHANGED memVars
        \/ \E c \in Ctx, d \in Dev, a \in Addr, n \in Minor : NewDev(c, d, a, n)
        \/ \E n \in Minor : LeakMinor(n)
  BY ZenonT(30) DEF CtxEffect, GetRef, CtxGoes, Identified, PutBack, Leaves, TimerDowns, Quiet
<1>2. WorkerEffect \/ OpenerEffect => UNCHANGED memVars
  BY ZenonT(30) DEF WorkerEffect, OpenerEffect, WorkStarts, TakesGd, WorkerGoes, FailsGd,
     InstallsGd, AddsDisk, DoneGd, DoneSize, OpenerGoes, Opens, Releases
<1>3. FlusherEffect =>
        \/ UNCHANGED memVars
        \/ \E p \in Flusher, d \in Dev : FreesMinor(p, d)
        \/ \E p \in Flusher : Removes(p)
  BY ZenonT(30) DEF FlusherEffect, FlusherGoes, Dooms, StartsFree, FreesDisk, DoneFree
<1> QED
  BY ZenonT(30), <1>1, <1>2, <1>3 DEF Effect

\* The memory of devices keeps its type, and no device is unknown again.
LEMMA MemStep ==
    ASSUME Types, Effect
    PROVE  MemType' /\ Known \subseteq Known'
<1> DEFINE Good == MemType' /\ Known \subseteq Known'
<1>t. MemType
  BY DEF Types
<1>1. CASE UNCHANGED memVars
  BY ZenonT(30), <1>1, <1>t DEF memVars, MemType, Known
<1>2. ASSUME NEW c \in Ctx, NEW d \in Dev, NEW a \in Addr, NEW n \in Minor, NewDev(c, d, a, n)
      PROVE  Good
  <2>1. /\ d \in Dev \ Known /\ devlist' = devlist \cup {d} /\ used' = used \cup {n}
        /\ addr' = [addr EXCEPT ![d] = a] /\ sysminor' = [sysminor EXCEPT ![d] = n]
        /\ gone' = gone
    BY ZenonT(30), <1>2 DEF NewDev
  <2> QED
    BY <2>1, <1>t DEF MemType, Known
<1>3. ASSUME NEW n \in Minor, LeakMinor(n) PROVE Good
  <2>1. used' = used \cup {n} /\ UNCHANGED <<devlist, gone, addr, sysminor>>
    BY ZenonT(30), <1>3 DEF LeakMinor
  <2> QED
    BY <2>1, <1>t DEF MemType, Known
<1>4. ASSUME NEW p \in Flusher, NEW d \in Dev, FreesMinor(p, d) PROVE Good
  <2>1. used' = used \ {sysminor[d]} /\ UNCHANGED <<devlist, gone, addr, sysminor>>
    BY ZenonT(30), <1>4 DEF FreesMinor
  <2> QED
    BY <2>1, <1>t DEF MemType, Known
<1>5. ASSUME NEW p \in Flusher, Removes(p) PROVE Good
  <2> DEFINE D == {d \in devlist : "FREED" \in flags[d]}
  <2>1. devlist' = devlist \ D /\ gone' = gone \cup D /\ UNCHANGED <<addr, sysminor, used>>
    BY ZenonT(30), <1>5 DEF Removes
  <2>2. D \subseteq devlist
    BY ZenonT(30)
  <2> HIDE DEF D
  <2> QED
    BY <2>1, <2>2, <1>t DEF MemType, Known
<1> HIDE DEF Good
<1>6. Good
  <2>1. CASE UNCHANGED memVars
    BY ZenonT(30), <1>1, <2>1 DEF Good
  <2> QED
    BY ZenonT(30), <2>1, <1>2, <1>3, <1>4, <1>5, MemFrame
<1> QED
  BY ZenonT(30), <1>6 DEF Good

\* How the flags of devices change, and with them the disk.
LEMMA FlagFrame ==
    ASSUME Effect
    PROVE  \/ UNCHANGED <<flags, gd>>
           \/ \E c \in Ctx : Identified(c)
           \/ \E d \in Dev : TimerDowns(d)
           \/ \E w \in Worker, d \in Dev :
                \/ TakesGd(w, d) \/ FailsGd(w, d) \/ InstallsGd(w, d) \/ AddsDisk(w, d)
                \/ DoneGd(w, d) \/ DoneSize(w, d)
           \/ \E p \in Flusher :
                \/ \E D \in SUBSET Dev : Dooms(p, D)
                \/ \E d \in Dev : StartsFree(p, d) \/ FreesDisk(p, d) \/ DoneFree(p, d)
<1>1. CtxEffect \/ Quiet =>
        UNCHANGED <<flags, gd>> \/ (\E c \in Ctx : Identified(c)) \/ (\E d \in Dev : TimerDowns(d))
  BY ZenonT(30) DEF CtxEffect, GetRef, NewDev, LeakMinor, CtxGoes, PutBack, Leaves, Quiet, devVars
<1>2. WorkerEffect =>
        \/ UNCHANGED <<flags, gd>>
        \/ \E w \in Worker, d \in Dev :
             \/ TakesGd(w, d) \/ FailsGd(w, d) \/ InstallsGd(w, d) \/ AddsDisk(w, d)
             \/ DoneGd(w, d) \/ DoneSize(w, d)
  BY ZenonT(30) DEF WorkerEffect, WorkStarts, WorkerGoes, devVars
<1>3. OpenerEffect => UNCHANGED <<flags, gd>>
  BY ZenonT(30) DEF OpenerEffect, OpenerGoes, Opens, Releases, devVars
<1>4. FlusherEffect =>
        \/ UNCHANGED <<flags, gd>>
        \/ \E p \in Flusher :
             \/ \E D \in SUBSET Dev : Dooms(p, D)
             \/ \E d \in Dev : StartsFree(p, d) \/ FreesDisk(p, d) \/ DoneFree(p, d)
  BY ZenonT(30) DEF FlusherEffect, FlusherGoes, FreesMinor, Removes, devVars
<1> QED
  BY ZenonT(30), <1>1, <1>2, <1>3, <1>4 DEF Effect

\* SetFlags changes the flags of one device.
LEMMA SetFlagsType ==
    ASSUME Types, NEW d \in Dev, NEW on \in SUBSET Flag, NEW off, SetFlags(d, on, off)
    PROVE  /\ flags' \in [Dev -> SUBSET Flag]
           /\ flags'[d] = (flags[d] \cup on) \ off
           /\ \A e \in Dev : e # d => flags'[e] = flags[e]
<1>1. flags \in [Dev -> SUBSET Flag]
  BY ZenonT(30) DEF Types, DevType
<1>2. flags' = [flags EXCEPT ![d] = (@ \cup on) \ off]
  BY ZenonT(30) DEF SetFlags
<1>3. (flags[d] \cup on) \ off \in SUBSET Flag
  BY <1>1
<1> QED
  BY ZenonT(30), <1>1, <1>2, <1>3

\* The flags and disks of devices keep their types.
LEMMA FlagType ==
    ASSUME Types, Effect
    PROVE  /\ flags' \in [Dev -> SUBSET Flag]
           /\ gd' \in [Dev -> {"null", "installed", "added", "deleted", "readded"}]
<1> DEFINE Good == /\ flags' \in [Dev -> SUBSET Flag]
                   /\ gd' \in [Dev -> {"null", "installed", "added", "deleted", "readded"}]
<1>t. /\ flags \in [Dev -> SUBSET Flag]
      /\ gd \in [Dev -> {"null", "installed", "added", "deleted", "readded"}]
  BY ZenonT(30) DEF Types, DevType
<1>f. /\ {} \in SUBSET Flag /\ {"GDALLOC"} \in SUBSET Flag /\ {"NEWSIZE"} \in SUBSET Flag
      /\ {"GD_NOW"} \in SUBSET Flag /\ {"UP"} \in SUBSET Flag /\ {"FREEING"} \in SUBSET Flag
      /\ {"FREED"} \in SUBSET Flag
  BY DEF Flag
<1>s. ASSUME NEW d \in Dev, NEW on \in SUBSET Flag, NEW off, SetFlags(d, on, off)
      PROVE  flags' \in [Dev -> SUBSET Flag]
  BY ZenonT(30), <1>s, SetFlagsType
<1>1. ASSUME UNCHANGED <<flags, gd>> PROVE Good
  BY ZenonT(30), <1>1, <1>t
<1>2. ASSUME NEW c \in Ctx, Identified(c) PROVE Good
  <2> DEFINE d == ctx[c].d
             on == IF gd[d] = "null" THEN {"GDALLOC"} ELSE {"NEWSIZE"}
  <2>1. SetFlags(d, on, {}) /\ gd' = gd /\ ctx[c].pc = "iocq"
    BY ZenonT(30), <1>2 DEF Identified
  <2>2. d \in Dev
    <3>1. ctx[c].pc # "idle"
      BY <2>1
    <3> QED
      BY ZenonT(30), <3>1, CtxFacts
  <2>3. on \in SUBSET Flag
    BY ZenonT(30), <1>f
  <2> HIDE DEF on, d
  <2> QED
    BY ZenonT(30), <2>1, <2>2, <2>3, <1>s, <1>t
<1>3. ASSUME NEW d \in Dev, TimerDowns(d) PROVE Good
  <2>1. flags' = [flags EXCEPT ![d] = @ \ {"UP"}] /\ gd' = gd
    BY ZenonT(30), <1>3 DEF TimerDowns
  <2>2. flags[d] \ {"UP"} \in SUBSET Flag
    BY <1>t
  <2> QED
    BY ZenonT(30), <2>1, <2>2, <1>t
<1>4. ASSUME NEW w \in Worker, NEW d \in Dev,
             \/ TakesGd(w, d) \/ FailsGd(w, d) \/ DoneGd(w, d) \/ DoneSize(w, d)
      PROVE  Good
  <2>1. gd' = gd /\ \E on \in {{}, {"GD_NOW"}, {"UP"}}, off \in {{}, {"GD_NOW"}, {"NEWSIZE"}} :
                       SetFlags(d, on, off)
    BY ZenonT(30), <1>4 DEF TakesGd, FailsGd, DoneGd, DoneSize
  <2>2. flags' \in [Dev -> SUBSET Flag]
    BY ZenonT(30), <2>1, <1>f, <1>s
  <2> QED
    BY ZenonT(30), <2>1, <2>2, <1>t
<1>5. ASSUME NEW w \in Worker, NEW d \in Dev, InstallsGd(w, d) PROVE Good
  <2>1. gd' = [gd EXCEPT ![d] = "installed"] /\ SetFlags(d, {"UP"}, {"GDALLOC"})
    BY ZenonT(30), <1>5 DEF InstallsGd
  <2>2. flags' \in [Dev -> SUBSET Flag]
    BY ZenonT(30), <2>1, <1>f, <1>s
  <2> QED
    BY ZenonT(30), <2>1, <2>2, <1>t
<1>6. ASSUME NEW w \in Worker, NEW d \in Dev, AddsDisk(w, d) PROVE Good
  <2>1. /\ gd' = [gd EXCEPT ![d] = "added"] \/ gd' = [gd EXCEPT ![d] = "readded"]
        /\ flags' = flags
    BY ZenonT(30), <1>6 DEF AddsDisk
  <2> QED
    BY <2>1, <1>t
<1>7. ASSUME NEW p \in Flusher, NEW D \in SUBSET Dev, Dooms(p, D) PROVE Good
  <2>1. /\ flags' = [d \in Dev |-> IF d \in D THEN (flags[d] \ {"UP"}) \cup {"TKILL"} ELSE flags[d]]
        /\ gd' = gd
    BY ZenonT(30), <1>7 DEF Dooms
  <2>2. \A d \in Dev : (flags[d] \ {"UP"}) \cup {"TKILL"} \in SUBSET Flag
    BY <1>t DEF Flag
  <2> QED
    BY ZenonT(30), <2>1, <2>2, <1>t
<1>8. ASSUME NEW p \in Flusher, NEW d \in Dev, StartsFree(p, d) \/ DoneFree(p, d) PROVE Good
  <2>1. gd' = gd /\ \E on \in {{"FREEING"}, {"FREED"}} : SetFlags(d, on, {})
    BY ZenonT(30), <1>8 DEF StartsFree, DoneFree
  <2>2. flags' \in [Dev -> SUBSET Flag]
    BY ZenonT(30), <2>1, <1>f, <1>s
  <2> QED
    BY ZenonT(30), <2>1, <2>2, <1>t
<1>9. ASSUME NEW p \in Flusher, NEW d \in Dev, FreesDisk(p, d) PROVE Good
  <2>1. gd' = [gd EXCEPT ![d] = IF @ = "null" THEN @ ELSE "deleted"] /\ flags' = flags
    BY ZenonT(30), <1>9 DEF FreesDisk
  <2> QED
    BY <2>1, <1>t
<1> HIDE DEF Good
<1>10. Good
  BY ZenonT(30), <1>1, <1>2, <1>3, <1>4, <1>5, <1>6, <1>7, <1>8, <1>9, FlagFrame
<1> QED
  BY ZenonT(30), <1>10 DEF Good

\* The counts, the identify flags and the queued works keep their types.
LEMMA CountTypes ==
    ASSUME Types, Effect
    PROVE  /\ nopen' \in [Dev -> Int] /\ ref' \in [Dev -> Int]
           /\ ident' \in [Dev -> BOOLEAN] /\ work' \in [Dev -> BOOLEAN]
<1>t. /\ nopen \in [Dev -> Int] /\ ref \in [Dev -> Int]
      /\ ident \in [Dev -> BOOLEAN] /\ work \in [Dev -> BOOLEAN]
  BY ZenonT(30) DEF Types, DevType
<1>d. \A c \in Ctx : ctx[c].pc \in {"iocq", "put", "ktio_put"} => ctx[c].d \in Dev
  <2> TAKE c \in Ctx
  <2>1. ctx[c].pc \in {"iocq", "put", "ktio_put"} => ctx[c].pc # "idle"
    OBVIOUS
  <2> QED
    BY ZenonT(30), <2>1, CtxFacts
<1>1. nopen' = nopen \/ \E d \in Dev : nopen' = [nopen EXCEPT ![d] = @ + 1] \/ nopen' = [nopen EXCEPT ![d] = @ - 1]
  BY ZenonT(60) DEF Effect, CtxEffect, WorkerEffect, OpenerEffect, FlusherEffect,
     Quiet, GetRef, NewDev, LeakMinor, CtxGoes, Identified, PutBack, Leaves, TimerDowns,
     WorkStarts, TakesGd, WorkerGoes, FailsGd, InstallsGd, AddsDisk, DoneGd, DoneSize,
     OpenerGoes, Opens, Releases, FlusherGoes, Dooms, StartsFree, FreesDisk, FreesMinor, DoneFree,
     Removes, devVars
<1>2. ref' = ref \/ \E d \in Dev : \E k \in {ref[d] + 1, 1, ref[d] - 1} : ref' = [ref EXCEPT ![d] = k]
  <2>1. CtxEffect \/ Quiet => \/ ref' = ref
                            \/ \E d \in Dev : \E k \in {ref[d] + 1, 1, ref[d] - 1} : ref' = [ref EXCEPT ![d] = k]
    BY ZenonT(60), <1>d DEF CtxEffect, Quiet, GetRef, NewDev, LeakMinor, CtxGoes, Identified,
       PutBack, Leaves, TimerDowns, devVars
  <2>2. WorkerEffect \/ OpenerEffect \/ FlusherEffect => ref' = ref
    BY ZenonT(60) DEF WorkerEffect, OpenerEffect, FlusherEffect,
     WorkStarts, TakesGd, WorkerGoes, FailsGd, InstallsGd, AddsDisk, DoneGd, DoneSize,
     OpenerGoes, Opens, Releases, FlusherGoes, Dooms, StartsFree, FreesDisk, FreesMinor, DoneFree,
     Removes, devVars
  <2> QED
    BY ZenonT(30), <2>1, <2>2 DEF Effect
<1>3. ident' = ident \/ ident' \in [Dev -> BOOLEAN]
  BY ZenonT(60) DEF Effect, CtxEffect, WorkerEffect, OpenerEffect, FlusherEffect,
     Quiet, GetRef, NewDev, LeakMinor, CtxGoes, Identified, PutBack, Leaves, TimerDowns,
     WorkStarts, TakesGd, WorkerGoes, FailsGd, InstallsGd, AddsDisk, DoneGd, DoneSize,
     OpenerGoes, Opens, Releases, FlusherGoes, Dooms, StartsFree, FreesDisk, FreesMinor, DoneFree,
     Removes, devVars
<1>4. work' = work \/ \E d \in Dev : \E b \in BOOLEAN : work' = [work EXCEPT ![d] = b]
  <2>1. CtxEffect \/ Quiet => work' = work \/ \E d \in Dev : work' = [work EXCEPT ![d] = TRUE]
    BY ZenonT(60), <1>d DEF CtxEffect, Quiet, GetRef, NewDev, LeakMinor, CtxGoes, Identified,
       PutBack, Leaves, TimerDowns, devVars
  <2>2. WorkerEffect => work' = work \/ \E d \in Dev : \E b \in {TRUE, FALSE} : work' = [work EXCEPT ![d] = b]
    BY ZenonT(60) DEF WorkerEffect,
     WorkStarts, TakesGd, WorkerGoes, FailsGd, InstallsGd, AddsDisk, DoneGd, DoneSize, devVars
  <2>3. OpenerEffect \/ FlusherEffect => work' = work
    BY ZenonT(60) DEF OpenerEffect, FlusherEffect,
     OpenerGoes, Opens, Releases, FlusherGoes, Dooms, StartsFree, FreesDisk, FreesMinor, DoneFree,
     Removes, devVars
  <2> QED
    BY ZenonT(30), <2>1, <2>2, <2>3 DEF Effect
<1>5. nopen' \in [Dev -> Int]
  BY <1>1, <1>t
<1>6. ref' \in [Dev -> Int]
  BY <1>2, <1>t
<1>7. ident' \in [Dev -> BOOLEAN]
  BY ZenonT(30), <1>3, <1>t
<1>8. work' \in [Dev -> BOOLEAN]
  BY ZenonT(30), <1>4, <1>t
<1> QED
  BY ZenonT(30), <1>5, <1>6, <1>7, <1>8

\* Where a context goes, it has a device that is known, or it is idle.
Sane(x, rec, idle) ==
    /\ x \in rec
    /\ x.pc \in idle <=> x.d = None
    /\ x.d \in Known' \cup {None}

\* A record of a known device is sane.
LEMMA SaneAt ==
    ASSUME NEW Pc, NEW d \in Dev, d \in Known', NEW idle, NEW pc \in Pc, pc \notin idle
    PROVE  Sane(At(pc, d), [pc : Pc, d : Dev \cup {None}], idle)
<1>1. d # None
  BY DevAssumption
<1> QED
  BY <1>1 DEF Sane, At

\* A record of no device is sane.
LEMMA SaneNone ==
    ASSUME NEW Pc, NEW idle, NEW pc \in Pc, pc \in idle
    PROVE  Sane(At(pc, None), [pc : Pc, d : Dev \cup {None}], idle)
BY DEF Sane, At

\* Being idle is being at no device.
LEMMA IdleAt == Idle = At("idle", None)
BY DEF Idle, At

\* A context moves to a device that is known.
LEMMA CtxPlaces ==
    ASSUME Types, KnownInv, Effect
    PROVE  /\ ctx' \in [Ctx -> CtxRec]
           /\ \A c \in Ctx : ctx'[c].pc = "idle" <=> ctx'[c].d = None
           /\ \A c \in Ctx : ctx'[c].d \in Known' \cup {None}
<1> DEFINE Moves == \E c \in Ctx : \E x : Sane(x, CtxRec, {"idle"}) /\ ctx' = [ctx EXCEPT ![c] = x]
<1>k. Known \subseteq Known'
  BY ZenonT(30), MemStep
<1>a. ASSUME NEW d \in Dev, d \in Known', NEW pc \in CtxPc
      PROVE  Sane(At(pc, d), CtxRec, {"idle"})
  <2>1. pc \in CtxPc \cup {"idle"} /\ pc \notin {"idle"}
    BY <1>a DEF CtxPc
  <2> QED
    BY ZenonT(30), <1>a, <2>1, SaneAt DEF CtxRec
<1>b. Sane(Idle, CtxRec, {"idle"})
  <2>1. "idle" \in CtxPc \cup {"idle"} /\ "idle" \in {"idle"}
    OBVIOUS
  <2> QED
    BY ZenonT(30), <2>1, SaneNone, IdleAt DEF CtxRec
<1>c. ASSUME NEW c \in Ctx, ctx[c].pc # "idle" PROVE ctx[c].d \in Dev /\ ctx[c].d \in Known'
  <2>1. ctx[c].d \in Dev
    BY ZenonT(30), <1>c, CtxFacts
  <2>2. ctx[c].d \in Known \cup {None}
    BY ZenonT(30) DEF KnownInv
  <2>3. ctx[c].d # None
    BY ZenonT(30), <2>1, DevAssumption
  <2> QED
    BY ZenonT(30), <2>1, <2>2, <2>3, <1>k
<1>1. ASSUME NEW c \in Ctx, NEW d \in Dev, NEW pc \in CtxPc, GetRef(c, d, pc) PROVE Moves
  <2>1. d \in devlist /\ ctx' = [ctx EXCEPT ![c] = At(pc, d)]
    BY ZenonT(30), <1>1 DEF GetRef
  <2>2. d \in Known'
    BY ZenonT(30), <2>1, <1>k DEF Known
  <2> QED
    BY ZenonT(30), <2>1, <2>2, <1>a
<1>2. ASSUME NEW c \in Ctx, NEW d \in Dev, NEW a \in Addr, NEW n \in Minor, NewDev(c, d, a, n)
      PROVE  Moves
  <2>1. devlist' = devlist \cup {d} /\ ctx' = [ctx EXCEPT ![c] = At("cfg_rsp", d)]
    BY ZenonT(30), <1>2 DEF NewDev
  <2>2. d \in Known'
    BY ZenonT(30), <2>1 DEF Known
  <2>3. "cfg_rsp" \in CtxPc
    BY DEF CtxPc
  <2> QED
    BY ZenonT(30), <2>1, <2>2, <2>3, <1>a
<1>3. ASSUME NEW c \in Ctx, NEW pc \in CtxPc, CtxGoes(c, pc) PROVE Moves
  <2>1. ctx[c].pc \in {"cfg_rsp", "ata_rsp", "revalidate", "iocq"}
    BY ZenonT(30), <1>3 DEF CtxGoes
  <2>2. ctx[c].pc # "idle"
    BY <2>1
  <2>3. ctx' = [ctx EXCEPT ![c] = At(pc, ctx[c].d)]
    BY ZenonT(30), <1>3 DEF CtxGoes
  <2> QED
    BY ZenonT(30), <2>2, <2>3, <1>a, <1>c
<1>4. ASSUME NEW c \in Ctx, Identified(c) PROVE Moves
  <2>1. ctx[c].pc = "iocq" /\ ctx' = [ctx EXCEPT ![c] = At("ktio_put", ctx[c].d)]
    BY ZenonT(30), <1>4 DEF Identified
  <2>2. ctx[c].pc # "idle" /\ "ktio_put" \in CtxPc
    BY <2>1 DEF CtxPc
  <2> QED
    BY ZenonT(30), <2>1, <2>2, <1>a, <1>c
<1>5. ASSUME NEW c \in Ctx, NEW x \in CtxRec, PutBack(c, x) PROVE Moves
  <2>1. ctx[c].pc \in {"put", "ktio_put"} /\ ctx' = [ctx EXCEPT ![c] = x]
    BY ZenonT(30), <1>5 DEF PutBack
  <2>2. ctx[c].pc # "idle" /\ "ktio_id" \in CtxPc
    BY <2>1 DEF CtxPc
  <2>3. x \in {Idle, At("ktio_id", ctx[c].d)}
    BY ZenonT(30), <1>5 DEF PutBack
  <2>4. Sane(x, CtxRec, {"idle"})
    BY ZenonT(30), <2>2, <2>3, <1>a, <1>b, <1>c
  <2> QED
    BY ZenonT(30), <2>1, <2>4
<1>6. ASSUME NEW c \in Ctx, Leaves(c) PROVE Moves
  <2>1. ctx' = [ctx EXCEPT ![c] = Idle]
    BY ZenonT(30), <1>6 DEF Leaves
  <2> QED
    BY ZenonT(30), <2>1, <1>b
<1>7. (Quiet \/ WorkerEffect \/ OpenerEffect \/ FlusherEffect) => ctx' = ctx
  BY ZenonT(60) DEF Quiet, WorkerEffect, OpenerEffect, FlusherEffect,
     WorkStarts, TakesGd, WorkerGoes, FailsGd, InstallsGd, AddsDisk, DoneGd, DoneSize,
     OpenerGoes, Opens, Releases, FlusherGoes, Dooms, StartsFree, FreesDisk, FreesMinor, DoneFree,
     Removes, pcVars
<1>8. \A n \in Minor : LeakMinor(n) => ctx' = ctx
  BY ZenonT(30) DEF LeakMinor, pcVars
<1>9. \A d \in Dev : TimerDowns(d) => ctx' = ctx
  BY ZenonT(30) DEF TimerDowns, pcVars
<1> HIDE DEF Moves
<1>10. ctx' = ctx \/ Moves
  BY ZenonT(30), <1>1, <1>2, <1>3, <1>4, <1>5, <1>6, <1>7, <1>8, <1>9 DEF Effect, CtxEffect
<1>11. /\ ctx \in [Ctx -> CtxRec]
       /\ \A c \in Ctx : ctx[c].pc \in {"idle"} <=> ctx[c].d = None
       /\ \A c \in Ctx : ctx[c].d \in Known \cup {None}
  BY ZenonT(30) DEF Types, PcType, Busy, KnownInv
<1>12. /\ ctx' \in [Ctx -> CtxRec]
       /\ \A c \in Ctx : ctx'[c].pc \in {"idle"} <=> ctx'[c].d = None
       /\ \A c \in Ctx : ctx'[c].d \in Known' \cup {None}
  <2>1. CASE ctx' = ctx
    BY ZenonT(30), <2>1, <1>11, <1>k
  <2>2. ASSUME NEW t \in Ctx, NEW x, Sane(x, CtxRec, {"idle"}), ctx' = [ctx EXCEPT ![t] = x]
        PROVE  /\ ctx' \in [Ctx -> CtxRec]
               /\ \A c \in Ctx : ctx'[c].pc \in {"idle"} <=> ctx'[c].d = None
               /\ \A c \in Ctx : ctx'[c].d \in Known' \cup {None}
    <3>1. x \in CtxRec /\ (x.pc \in {"idle"} <=> x.d = None) /\ x.d \in Known' \cup {None}
      BY ZenonT(30), <2>2 DEF Sane
    <3>2. ctx' \in [Ctx -> CtxRec]
      BY ZenonT(30), <2>2, <3>1, <1>11
    <3>3. \A c \in Ctx : ctx'[c] = IF c = t THEN x ELSE ctx[c]
      BY ZenonT(30), <2>2, <1>11
    <3> QED
      BY ZenonT(30), <3>1, <3>2, <3>3, <1>11, <1>k
  <2> QED
    BY ZenonT(30), <2>1, <2>2, <1>10 DEF Moves
<1> QED
  BY ZenonT(30), <1>12

\* A worker moves to a device that is known.
LEMMA WorkerPlaces ==
    ASSUME Types, KnownInv, Effect
    PROVE  /\ worker' \in [Worker -> WorkerRec]
           /\ \A w \in Worker : worker'[w].pc = "idle" <=> worker'[w].d = None
           /\ \A w \in Worker : worker'[w].d \in Known' \cup {None}
<1> DEFINE Moves == \E w \in Worker : \E x : Sane(x, WorkerRec, {"idle"}) /\ worker' = [worker EXCEPT ![w] = x]
<1>k. Known \subseteq Known'
  BY ZenonT(30), MemStep
<1>a. ASSUME NEW d \in Dev, d \in Known', NEW pc \in WorkerPc
      PROVE  Sane(At(pc, d), WorkerRec, {"idle"})
  <2>1. pc \in WorkerPc \cup {"idle"} /\ pc \notin {"idle"}
    BY <1>a DEF WorkerPc
  <2> QED
    BY ZenonT(30), <1>a, <2>1, SaneAt DEF WorkerRec
<1>b. Sane(Idle, WorkerRec, {"idle"})
  <2>1. "idle" \in WorkerPc \cup {"idle"} /\ "idle" \in {"idle"}
    OBVIOUS
  <2> QED
    BY ZenonT(30), <2>1, SaneNone, IdleAt DEF WorkerRec
<1>c. ASSUME NEW w \in Worker, NEW d \in Dev, NEW pc \in WorkerPc, worker[w] = At(pc, d)
      PROVE  d \in Known'
  <2>1. worker[w].d = d
    BY ZenonT(30), <1>c, AtFacts
  <2>2. worker[w].d \in Known \cup {None}
    BY ZenonT(30) DEF KnownInv
  <2> QED
    BY ZenonT(30), <2>1, <2>2, <1>k, DevAssumption
<1>p. {"gdalloc", "alloc", "add_disk", "added", "newsize", "i_size"} \subseteq WorkerPc
  BY DEF WorkerPc
<1>m. ASSUME NEW w \in Worker, NEW d \in Dev, NEW pc \in WorkerPc, NEW qc \in WorkerPc,
             worker[w] = At(pc, d), worker' = [worker EXCEPT ![w] = At(qc, d)]
      PROVE  Moves
  BY ZenonT(30), <1>m, <1>a, <1>c
<1>1. ASSUME NEW w \in Worker, NEW d \in Dev, NEW pc \in WorkerPc, WorkStarts(w, d, pc) PROVE Moves
  <2>1. work[d] /\ worker' = [worker EXCEPT ![w] = At(pc, d)]
    BY ZenonT(30), <1>1 DEF WorkStarts
  <2>2. d \in Known'
    BY ZenonT(30), <2>1, <1>k DEF KnownInv
  <2> QED
    BY ZenonT(30), <2>1, <2>2, <1>a
<1>2. ASSUME NEW w \in Worker, NEW d \in Dev,
             TakesGd(w, d) \/ FailsGd(w, d) \/ InstallsGd(w, d) \/ AddsDisk(w, d) \/ DoneGd(w, d)
      PROVE  Moves
  BY ZenonT(30), <1>2, <1>m, <1>p DEF TakesGd, FailsGd, InstallsGd, AddsDisk, DoneGd
<1>3. ASSUME NEW w \in Worker, NEW d \in Dev, NEW x \in WorkerRec, WorkerGoes(w, d, x) PROVE Moves
  <2>1. /\ worker[w] \in {At("gdalloc", d), At("newsize", d)}
        /\ x \in {Idle, At("newsize", d), At("i_size", d)} /\ worker' = [worker EXCEPT ![w] = x]
    BY ZenonT(30), <1>3 DEF WorkerGoes
  <2>2. d \in Known'
    BY ZenonT(30), <2>1, <1>c, <1>p
  <2>3. Sane(x, WorkerRec, {"idle"})
    BY ZenonT(30), <2>1, <2>2, <1>a, <1>b, <1>p
  <2> QED
    BY ZenonT(30), <2>1, <2>3
<1>4. ASSUME NEW w \in Worker, NEW d \in Dev, DoneSize(w, d) PROVE Moves
  <2>1. worker' = [worker EXCEPT ![w] = Idle]
    BY ZenonT(30), <1>4 DEF DoneSize
  <2> QED
    BY ZenonT(30), <2>1, <1>b
<1>7. (Quiet \/ CtxEffect \/ OpenerEffect \/ FlusherEffect) => worker' = worker
  BY ZenonT(60) DEF Quiet, CtxEffect, OpenerEffect, FlusherEffect,
     GetRef, NewDev, LeakMinor, CtxGoes, Identified, PutBack, Leaves, TimerDowns,
     OpenerGoes, Opens, Releases, FlusherGoes, Dooms, StartsFree, FreesDisk, FreesMinor, DoneFree,
     Removes, pcVars
<1> HIDE DEF Moves
<1>10. worker' = worker \/ Moves
  BY ZenonT(30), <1>1, <1>2, <1>3, <1>4, <1>7 DEF Effect, WorkerEffect
<1>11. /\ worker \in [Worker -> WorkerRec]
       /\ \A w \in Worker : worker[w].pc \in {"idle"} <=> worker[w].d = None
       /\ \A w \in Worker : worker[w].d \in Known \cup {None}
  BY ZenonT(30) DEF Types, PcType, Busy, KnownInv
<1>12. /\ worker' \in [Worker -> WorkerRec]
       /\ \A w \in Worker : worker'[w].pc \in {"idle"} <=> worker'[w].d = None
       /\ \A w \in Worker : worker'[w].d \in Known' \cup {None}
  <2>1. CASE worker' = worker
    BY ZenonT(30), <2>1, <1>11, <1>k
  <2>2. ASSUME NEW t \in Worker, NEW x, Sane(x, WorkerRec, {"idle"}), worker' = [worker EXCEPT ![t] = x]
        PROVE  /\ worker' \in [Worker -> WorkerRec]
               /\ \A w \in Worker : worker'[w].pc \in {"idle"} <=> worker'[w].d = None
               /\ \A w \in Worker : worker'[w].d \in Known' \cup {None}
    <3>1. x \in WorkerRec /\ (x.pc \in {"idle"} <=> x.d = None) /\ x.d \in Known' \cup {None}
      BY ZenonT(30), <2>2 DEF Sane
    <3>2. worker' \in [Worker -> WorkerRec]
      BY ZenonT(30), <2>2, <3>1, <1>11
    <3>3. \A w \in Worker : worker'[w] = IF w = t THEN x ELSE worker[w]
      BY ZenonT(30), <2>2, <1>11
    <3> QED
      BY ZenonT(30), <3>1, <3>2, <3>3, <1>11, <1>k
  <2> QED
    BY ZenonT(30), <2>1, <2>2, <1>10 DEF Moves
<1> QED
  BY ZenonT(30), <1>12

\* A user moves to a device that is known.
LEMMA OpenerPlaces ==
    ASSUME Types, KnownInv, Effect
    PROVE  /\ opener' \in [Opener -> OpenerRec]
           /\ \A o \in Opener : opener'[o].pc = "idle" <=> opener'[o].d = None
           /\ \A o \in Opener : opener'[o].d \in Known' \cup {None}
<1> DEFINE Moves == \E o \in Opener : \E x : Sane(x, OpenerRec, {"idle"}) /\ opener' = [opener EXCEPT ![o] = x]
<1>k. Known \subseteq Known'
  BY ZenonT(30), MemStep
<1>a. ASSUME NEW d \in Dev, d \in Known', NEW pc \in {"opening", "open", "cfg"}
      PROVE  Sane(At(pc, d), OpenerRec, {"idle"})
  <2>1. pc \in OpenerPc /\ pc \notin {"idle"}
    BY <1>a DEF OpenerPc
  <2> QED
    BY ZenonT(30), <1>a, <2>1, SaneAt DEF OpenerRec
<1>b. Sane(Idle, OpenerRec, {"idle"})
  <2>1. "idle" \in OpenerPc /\ "idle" \in {"idle"}
    BY DEF OpenerPc
  <2> QED
    BY ZenonT(30), <2>1, SaneNone, IdleAt DEF OpenerRec
<1>c. ASSUME NEW o \in Opener, NEW d \in Dev, NEW pc, opener[o] = At(pc, d)
      PROVE  d \in Known'
  <2>1. opener[o].d = d
    BY ZenonT(30), <1>c, AtFacts
  <2>2. opener[o].d \in Known \cup {None}
    BY ZenonT(30) DEF KnownInv
  <2> QED
    BY ZenonT(30), <2>1, <2>2, <1>k, DevAssumption
<1>1. ASSUME NEW o \in Opener, NEW x \in OpenerRec, OpenerGoes(o, x) PROVE Moves
  <2>1. opener' = [opener EXCEPT ![o] = x]
    BY ZenonT(30), <1>1 DEF OpenerGoes
  <2>2. x = Idle \/ \E d \in Dev : gd[d] \in {"added", "readded"} /\ x = At("opening", d)
    BY ZenonT(30), <1>1 DEF OpenerGoes
  <2>3. \A d \in Dev : gd[d] \in {"added", "readded"} => gd[d] # "null"
    OBVIOUS
  <2>4. \A d \in Dev : gd[d] \in {"added", "readded"} => d \in Known'
    BY ZenonT(30), <2>3, <1>k DEF KnownInv
  <2>5. Sane(x, OpenerRec, {"idle"})
    BY ZenonT(30), <2>2, <2>4, <1>a, <1>b
  <2> QED
    BY ZenonT(30), <2>1, <2>5
<1>2. ASSUME NEW o \in Opener, NEW d \in Dev, Opens(o, d) PROVE Moves
  <2>1. opener[o] = At("opening", d) /\ opener' = [opener EXCEPT ![o] = At("open", d)]
    BY ZenonT(30), <1>2 DEF Opens
  <2>2. Sane(At("open", d), OpenerRec, {"idle"})
    BY ZenonT(30), <2>1, <1>a, <1>c
  <2> QED
    BY ZenonT(30), <2>1, <2>2
<1>3. ASSUME NEW o \in Opener, NEW d \in Dev, NEW x \in OpenerRec, Releases(o, d, x) PROVE Moves
  <2>1. opener[o] = At("open", d) /\ opener' = [opener EXCEPT ![o] = x] /\ x \in {Idle, At("cfg", d)}
    BY ZenonT(30), <1>3 DEF Releases
  <2>2. Sane(x, OpenerRec, {"idle"})
    BY ZenonT(30), <2>1, <1>a, <1>b, <1>c
  <2> QED
    BY ZenonT(30), <2>1, <2>2
<1>7. (Quiet \/ CtxEffect \/ WorkerEffect \/ FlusherEffect) => opener' = opener
  BY ZenonT(60) DEF Quiet, CtxEffect, WorkerEffect, FlusherEffect,
     GetRef, NewDev, LeakMinor, CtxGoes, Identified, PutBack, Leaves, TimerDowns,
     WorkStarts, TakesGd, WorkerGoes, FailsGd, InstallsGd, AddsDisk, DoneGd, DoneSize,
     FlusherGoes, Dooms, StartsFree, FreesDisk, FreesMinor, DoneFree, Removes, pcVars
<1> HIDE DEF Moves
<1>10. opener' = opener \/ Moves
  BY ZenonT(30), <1>1, <1>2, <1>3, <1>7 DEF Effect, OpenerEffect
<1>11. /\ opener \in [Opener -> OpenerRec]
       /\ \A o \in Opener : opener[o].pc \in {"idle"} <=> opener[o].d = None
       /\ \A o \in Opener : opener[o].d \in Known \cup {None}
  BY ZenonT(30) DEF Types, PcType, Busy, KnownInv
<1>12. /\ opener' \in [Opener -> OpenerRec]
       /\ \A o \in Opener : opener'[o].pc \in {"idle"} <=> opener'[o].d = None
       /\ \A o \in Opener : opener'[o].d \in Known' \cup {None}
  <2>1. CASE opener' = opener
    BY ZenonT(30), <2>1, <1>11, <1>k
  <2>2. ASSUME NEW t \in Opener, NEW x, Sane(x, OpenerRec, {"idle"}), opener' = [opener EXCEPT ![t] = x]
        PROVE  /\ opener' \in [Opener -> OpenerRec]
               /\ \A o \in Opener : opener'[o].pc \in {"idle"} <=> opener'[o].d = None
               /\ \A o \in Opener : opener'[o].d \in Known' \cup {None}
    <3>1. x \in OpenerRec /\ (x.pc \in {"idle"} <=> x.d = None) /\ x.d \in Known' \cup {None}
      BY ZenonT(30), <2>2 DEF Sane
    <3>2. opener' \in [Opener -> OpenerRec]
      BY ZenonT(30), <2>2, <3>1, <1>11
    <3>3. \A o \in Opener : opener'[o] = IF o = t THEN x ELSE opener[o]
      BY ZenonT(30), <2>2, <1>11
    <3> QED
      BY ZenonT(30), <3>1, <3>2, <3>3, <1>11, <1>k
  <2> QED
    BY ZenonT(30), <2>1, <2>2, <1>10 DEF Moves
<1> QED
  BY ZenonT(30), <1>12

\* A flush moves to a device that is known.
LEMMA FlusherPlaces ==
    ASSUME Types, KnownInv, Effect
    PROVE  /\ flusher' \in [Flusher -> FlusherRec]
           /\ \A p \in Flusher : flusher'[p].pc \in {"idle", "pass_one", "pass_two"} <=> flusher'[p].d = None
           /\ \A p \in Flusher : flusher'[p].d \in Known' \cup {None}
<1> DEFINE Moves == \E p \in Flusher : \E x : /\ Sane(x, FlusherRec, {"idle", "pass_one", "pass_two"})
                                             /\ flusher' = [flusher EXCEPT ![p] = x]
<1>k. Known \subseteq Known'
  BY ZenonT(30), MemStep
<1>a. ASSUME NEW d \in Dev, d \in Known', NEW pc \in {"freedev", "freeing", "minor", "freed"}
      PROVE  Sane(At(pc, d), FlusherRec, {"idle", "pass_one", "pass_two"})
  <2>1. pc \in FlusherPc /\ pc \notin {"idle", "pass_one", "pass_two"}
    BY <1>a DEF FlusherPc
  <2> QED
    BY ZenonT(30), <1>a, <2>1, SaneAt DEF FlusherRec
<1>b. ASSUME NEW pc \in {"idle", "pass_one", "pass_two"}
      PROVE  Sane(At(pc, None), FlusherRec, {"idle", "pass_one", "pass_two"})
  <2>1. pc \in FlusherPc
    BY <1>b DEF FlusherPc
  <2> QED
    BY ZenonT(30), <2>1, <1>b, SaneNone DEF FlusherRec
<1>c. ASSUME NEW p \in Flusher, NEW d \in Dev, NEW pc, flusher[p] = At(pc, d)
      PROVE  d \in Known'
  <2>1. flusher[p].d = d
    BY ZenonT(30), <1>c, AtFacts
  <2>2. flusher[p].d \in Known \cup {None}
    BY ZenonT(30) DEF KnownInv
  <2> QED
    BY ZenonT(30), <2>1, <2>2, <1>k, DevAssumption
<1>1. ASSUME NEW p \in Flusher, NEW x \in FlusherRec, FlusherGoes(p, x) PROVE Moves
  <2>1. /\ flusher' = [flusher EXCEPT ![p] = x]
        /\ x = At("pass_one", None) \/ x = At("pass_two", None) \/ (\E d \in devlist : x = At("freedev", d))
    BY ZenonT(30), <1>1 DEF FlusherGoes
  <2>2. \A d \in devlist : d \in Dev /\ d \in Known'
    BY ZenonT(30), <1>k DEF Known, Types, MemType
  <2>3. Sane(x, FlusherRec, {"idle", "pass_one", "pass_two"})
    BY ZenonT(30), <2>1, <2>2, <1>a, <1>b
  <2> QED
    BY ZenonT(30), <2>1, <2>3
<1>2. ASSUME NEW p \in Flusher, NEW D \in SUBSET Dev, Dooms(p, D) PROVE Moves
  <2>1. flusher' = [flusher EXCEPT ![p] = At("pass_two", None)]
    BY ZenonT(30), <1>2 DEF Dooms
  <2> QED
    BY ZenonT(30), <2>1, <1>b
<1>3. ASSUME NEW p \in Flusher, NEW d \in Dev,
             StartsFree(p, d) \/ FreesDisk(p, d) \/ FreesMinor(p, d) \/ DoneFree(p, d)
      PROVE  Moves
  <2>1. \E pc : flusher[p] = At(pc, d)
    BY ZenonT(30), <1>3 DEF StartsFree, FreesDisk, FreesMinor, DoneFree
  <2>2. \E x : /\ flusher' = [flusher EXCEPT ![p] = x]
              /\ x \in {At("freeing", d), At("minor", d), At("freed", d), At("pass_two", None)}
    BY ZenonT(30), <1>3 DEF StartsFree, FreesDisk, FreesMinor, DoneFree
  <2>3. d \in Known'
    BY ZenonT(30), <2>1, <1>c
  <2> QED
    BY ZenonT(30), <2>2, <2>3, <1>a, <1>b
<1>4. ASSUME NEW p \in Flusher, Removes(p) PROVE Moves
  <2>1. flusher' = [flusher EXCEPT ![p] = Idle]
    BY ZenonT(30), <1>4 DEF Removes
  <2> QED
    BY ZenonT(30), <2>1, <1>b, IdleAt
<1>7. (Quiet \/ CtxEffect \/ WorkerEffect \/ OpenerEffect) => flusher' = flusher
  BY ZenonT(60) DEF Quiet, CtxEffect, WorkerEffect, OpenerEffect,
     GetRef, NewDev, LeakMinor, CtxGoes, Identified, PutBack, Leaves, TimerDowns,
     WorkStarts, TakesGd, WorkerGoes, FailsGd, InstallsGd, AddsDisk, DoneGd, DoneSize,
     OpenerGoes, Opens, Releases, pcVars
<1> HIDE DEF Moves
<1>10. flusher' = flusher \/ Moves
  BY ZenonT(30), <1>1, <1>2, <1>3, <1>4, <1>7 DEF Effect, FlusherEffect
<1>11. /\ flusher \in [Flusher -> FlusherRec]
       /\ \A p \in Flusher : flusher[p].pc \in {"idle", "pass_one", "pass_two"} <=> flusher[p].d = None
       /\ \A p \in Flusher : flusher[p].d \in Known \cup {None}
  BY ZenonT(30) DEF Types, PcType, Busy, KnownInv
<1>12. /\ flusher' \in [Flusher -> FlusherRec]
       /\ \A p \in Flusher : flusher'[p].pc \in {"idle", "pass_one", "pass_two"} <=> flusher'[p].d = None
       /\ \A p \in Flusher : flusher'[p].d \in Known' \cup {None}
  <2>1. CASE flusher' = flusher
    BY ZenonT(30), <2>1, <1>11, <1>k
  <2>2. ASSUME NEW t \in Flusher, NEW x, Sane(x, FlusherRec, {"idle", "pass_one", "pass_two"}), flusher' = [flusher EXCEPT ![t] = x]
        PROVE  /\ flusher' \in [Flusher -> FlusherRec]
               /\ \A p \in Flusher : flusher'[p].pc \in {"idle", "pass_one", "pass_two"} <=> flusher'[p].d = None
               /\ \A p \in Flusher : flusher'[p].d \in Known' \cup {None}
    <3>1. x \in FlusherRec /\ (x.pc \in {"idle", "pass_one", "pass_two"} <=> x.d = None) /\ x.d \in Known' \cup {None}
      BY ZenonT(30), <2>2 DEF Sane
    <3>2. flusher' \in [Flusher -> FlusherRec]
      BY ZenonT(30), <2>2, <3>1, <1>11
    <3>3. \A p \in Flusher : flusher'[p] = IF p = t THEN x ELSE flusher[p]
      BY ZenonT(30), <2>2, <1>11
    <3> QED
      BY ZenonT(30), <3>1, <3>2, <3>3, <1>11, <1>k
  <2> QED
    BY ZenonT(30), <2>1, <2>2, <1>10 DEF Moves
<1> QED
  BY ZenonT(30), <1>12

\* Every step keeps the types.
LEMMA TypesStep ==
    ASSUME Types, KnownInv, Effect
    PROVE  Types'
<1>1. PcType' /\ Busy'
  BY ZenonT(30), CtxPlaces, WorkerPlaces, OpenerPlaces, FlusherPlaces DEF PcType, Busy
<1>2. DevType'
  BY ZenonT(30), FlagType, CountTypes DEF DevType
<1>3. MemType'
  BY ZenonT(30), MemStep
<1> QED
  BY ZenonT(30), <1>1, <1>2, <1>3 DEF Types

\* SetFlags, device by device.
FlagsSet(d, on, off) ==
    /\ flags'[d] = (flags[d] \cup on) \ off
    /\ \A e \in Dev : e # d => flags'[e] = flags[e]

\* What SetFlags does.
LEMMA SetFlagsAt ==
    ASSUME Types, NEW d \in Dev, NEW on, NEW off, SetFlags(d, on, off)
    PROVE  FlagsSet(d, on, off)
<1>1. flags \in [Dev -> SUBSET Flag]
  BY ZenonT(30) DEF Types, DevType
<1> QED
  BY ZenonT(30), <1>1 DEF SetFlags, FlagsSet

\* Nothing happens to a device that nobody knows.
LEMMA UnknownStep ==
    ASSUME Types, KnownInv, Effect, NEW e \in Dev, e \notin Known'
    PROVE  ~work'[e] /\ flags'[e] = {} /\ gd'[e] = "null"
<1>k. e \notin Known
  BY ZenonT(30), MemStep
<1>0. ~work[e] /\ flags[e] = {} /\ gd[e] = "null"
  BY ZenonT(30), <1>k DEF KnownInv
<1>n. e # None
  BY ZenonT(30), DevAssumption
<1>c. \A c \in Ctx : ctx[c].d # e
  BY ZenonT(30), <1>k, <1>n DEF KnownInv
<1>w. ASSUME NEW w \in Worker, NEW pc \in WorkerPc, NEW d \in Dev, worker[w] = At(pc, d)
      PROVE  d # e
  <2>1. worker[w].d = d
    BY ZenonT(30), <1>w, AtFacts
  <2>2. worker[w].d \in Known \cup {None}
    BY ZenonT(30) DEF KnownInv
  <2> QED
    BY ZenonT(30), <2>1, <2>2, <1>k, <1>n
<1>p. ASSUME NEW p \in Flusher, NEW pc \in FlusherPc, NEW d \in Dev, flusher[p] = At(pc, d)
      PROVE  d # e
  <2>1. flusher[p].d = d
    BY ZenonT(30), <1>p, AtFacts
  <2>2. flusher[p].d \in Known \cup {None}
    BY ZenonT(30) DEF KnownInv
  <2> QED
    BY ZenonT(30), <2>1, <2>2, <1>k, <1>n
<1>q. /\ {"gdalloc", "alloc", "add_disk", "added", "newsize", "i_size"} \subseteq WorkerPc
      /\ {"freedev", "freeing", "minor", "freed"} \subseteq FlusherPc
  BY DEF WorkerPc, FlusherPc
<1>t. gd \in [Dev -> {"null", "installed", "added", "deleted", "readded"}] /\ work \in [Dev -> BOOLEAN]
      /\ flags \in [Dev -> SUBSET Flag]
  BY ZenonT(30) DEF Types, DevType
<1> DEFINE Good == flags'[e] = {} /\ gd'[e] = "null"
<1>1. ASSUME UNCHANGED <<flags, gd>> PROVE Good
  BY ZenonT(30), <1>1, <1>0
<1>2. ASSUME NEW c \in Ctx, Identified(c) PROVE Good
  <2> DEFINE d == ctx[c].d
             on == IF gd[d] = "null" THEN {"GDALLOC"} ELSE {"NEWSIZE"}
  <2>1. SetFlags(d, on, {}) /\ gd' = gd /\ ctx[c].pc = "iocq"
    BY ZenonT(30), <1>2 DEF Identified
  <2>2. d \in Dev
    <3>1. ctx[c].pc # "idle"
      BY <2>1
    <3> QED
      BY ZenonT(30), <3>1, CtxFacts
  <2>3. d # e
    BY ZenonT(30), <1>c
  <2> HIDE DEF d, on
  <2> QED
    BY ZenonT(30), <2>1, <2>2, <2>3, <1>0, SetFlagsAt DEF FlagsSet
<1>3. ASSUME NEW d \in Dev, TimerDowns(d) PROVE Good
  <2>1. flags' = [flags EXCEPT ![d] = @ \ {"UP"}] /\ gd' = gd
    BY ZenonT(30), <1>3 DEF TimerDowns
  <2> QED
    BY <2>1, <1>0, <1>t
<1>4. ASSUME NEW w \in Worker, NEW d \in Dev,
             TakesGd(w, d) \/ FailsGd(w, d) \/ DoneGd(w, d) \/ DoneSize(w, d)
      PROVE  Good
  <2>1. \E on, off : SetFlags(d, on, off)
    BY ZenonT(30), <1>4 DEF TakesGd, FailsGd, DoneGd, DoneSize
  <2>2. gd' = gd
    BY ZenonT(30), <1>4 DEF TakesGd, FailsGd, DoneGd, DoneSize
  <2>3. d # e
    BY ZenonT(30), <1>4, <1>w, <1>q DEF TakesGd, FailsGd, DoneGd, DoneSize
  <2> QED
    BY ZenonT(30), <2>1, <2>2, <2>3, <1>0, SetFlagsAt DEF FlagsSet
<1>5. ASSUME NEW w \in Worker, NEW d \in Dev, InstallsGd(w, d) \/ AddsDisk(w, d) PROVE Good
  <2>1. flags' = flags \/ \E on, off : SetFlags(d, on, off)
    BY ZenonT(30), <1>5 DEF InstallsGd, AddsDisk
  <2>2. \E x : gd' = [gd EXCEPT ![d] = x]
    BY ZenonT(30), <1>5 DEF InstallsGd, AddsDisk
  <2>3. d # e
    BY ZenonT(30), <1>5, <1>w, <1>q DEF InstallsGd, AddsDisk
  <2>4. flags'[e] = flags[e]
    BY ZenonT(30), <2>1, <2>3, SetFlagsAt DEF FlagsSet
  <2> QED
    BY ZenonT(30), <2>2, <2>3, <2>4, <1>0, <1>t
<1>6. ASSUME NEW p \in Flusher, NEW d \in Dev, StartsFree(p, d) \/ FreesDisk(p, d) \/ DoneFree(p, d)
      PROVE  Good
  <2>1. flags' = flags \/ \E on, off : SetFlags(d, on, off)
    BY ZenonT(30), <1>6 DEF StartsFree, FreesDisk, DoneFree
  <2>2. gd' = gd \/ \E x : gd' = [gd EXCEPT ![d] = x]
    BY ZenonT(30), <1>6 DEF StartsFree, FreesDisk, DoneFree
  <2>3. d # e
    BY ZenonT(30), <1>6, <1>p, <1>q DEF StartsFree, FreesDisk, DoneFree
  <2>4. flags'[e] = flags[e]
    BY ZenonT(30), <2>1, <2>3, SetFlagsAt DEF FlagsSet
  <2> QED
    BY ZenonT(30), <2>2, <2>3, <2>4, <1>0, <1>t
<1>7. ASSUME NEW p \in Flusher, NEW D \in SUBSET Dev, Dooms(p, D) PROVE Good
  <2>1. /\ flags' = [d \in Dev |-> IF d \in D THEN (flags[d] \ {"UP"}) \cup {"TKILL"} ELSE flags[d]]
        /\ gd' = gd /\ D \subseteq devlist
    BY ZenonT(30), <1>7 DEF Dooms
  <2>2. e \notin D
    BY ZenonT(30), <2>1, <1>k DEF Known
  <2> QED
    BY ZenonT(30), <2>1, <2>2, <1>0
<1> HIDE DEF Good
<1>8. Good
  BY ZenonT(30), <1>1, <1>2, <1>3, <1>4, <1>5, <1>6, <1>7, FlagFrame
<1>9. work' = work \/ \E d \in Dev, b \in BOOLEAN : d # e /\ work' = [work EXCEPT ![d] = b]
  <2>1. ASSUME NEW c \in Ctx, Identified(c) PROVE \E d \in Dev : d # e /\ work' = [work EXCEPT ![d] = TRUE]
    <3>1. ctx[c].pc = "iocq" /\ work' = [work EXCEPT ![ctx[c].d] = TRUE]
      BY ZenonT(30), <2>1 DEF Identified
    <3>2. ctx[c].pc # "idle"
      BY <3>1
    <3> QED
      BY ZenonT(30), <3>1, <3>2, <1>c, CtxFacts
  <2>2. CtxEffect \/ Quiet => work' = work \/ \E c \in Ctx : Identified(c)
    BY ZenonT(60) DEF CtxEffect, Quiet, GetRef, NewDev, LeakMinor, CtxGoes, PutBack, Leaves,
       TimerDowns, devVars
  <2>3. ASSUME NEW w \in Worker, NEW d \in Dev, NEW pc \in WorkerPc, WorkStarts(w, d, pc)
        PROVE  d # e /\ work' = [work EXCEPT ![d] = FALSE]
    BY ZenonT(30), <2>3, <1>0 DEF WorkStarts
  <2>4. ASSUME NEW w \in Worker, NEW d \in Dev, FailsGd(w, d)
        PROVE  d # e /\ work' = [work EXCEPT ![d] = TRUE]
    BY ZenonT(30), <2>4, <1>w, <1>q DEF FailsGd
  <2>5. WorkerEffect =>
          \/ work' = work
          \/ \E w \in Worker, d \in Dev : FailsGd(w, d) \/ \E pc \in WorkerPc : WorkStarts(w, d, pc)
    BY ZenonT(60) DEF WorkerEffect, TakesGd, WorkerGoes, InstallsGd, AddsDisk, DoneGd, DoneSize, devVars
  <2>6. OpenerEffect \/ FlusherEffect => work' = work
    BY ZenonT(60) DEF OpenerEffect, FlusherEffect,
     OpenerGoes, Opens, Releases, FlusherGoes, Dooms, StartsFree, FreesDisk, FreesMinor, DoneFree,
     Removes, devVars
  <2> QED
    BY ZenonT(30), <2>1, <2>2, <2>3, <2>4, <2>5, <2>6 DEF Effect
<1>10. ~work'[e]
  BY ZenonT(30), <1>9, <1>0, <1>t
<1> QED
  BY ZenonT(30), <1>8, <1>10 DEF Good

\* Nobody knows a device that was not allocated.
LEMMA KnownStep ==
    ASSUME Types, KnownInv, Effect
    PROVE  KnownInv'
BY ZenonT(30), CtxPlaces, WorkerPlaces, OpenerPlaces, FlusherPlaces, UnknownStep DEF KnownInv

----------------------------------------------------------------------------
(* What d->ref and d->nopen count.                                         *)

\* An element more.
LEMMA OneMore ==
    ASSUME NEW S, IsFiniteSet(S), NEW T, NEW x, x \notin S, T = S \cup {x}
    PROVE  Cardinality(T) = Cardinality(S) + 1
BY FS_AddElement

\* An element less.
LEMMA OneLess ==
    ASSUME NEW S, IsFiniteSet(S), NEW T, NEW x \in S, T = S \ {x}
    PROVE  Cardinality(T) = Cardinality(S) - 1
BY FS_RemoveElement

\* There are finitely many contexts and users.
LEMMA FiniteUsers ==
    ASSUME NEW d
    PROVE  /\ IsFiniteSet(Holders(d)) /\ Cardinality(Holders(d)) \in Nat
           /\ IsFiniteSet(Users(d)) /\ Cardinality(Users(d)) \in Nat
<1>1. Holders(d) \subseteq Ctx /\ Users(d) \subseteq Opener
  BY ZenonT(30) DEF Holders, Users
<1>2. IsFiniteSet(Holders(d)) /\ IsFiniteSet(Users(d))
  BY ZenonT(30), <1>1, FS_Subset, DevAssumption
<1> QED
  BY ZenonT(30), <1>2, FS_CardinalityType

\* A place at which a context counts for d->ref, and a user for d->nopen.
Holds(x, d) == x.d = d /\ x.pc # "ktio_id"
Uses(x, d) == x.d = d /\ x.pc = "open"

\* Who holds a device after one context has moved.
LEMMA HoldersMove ==
    ASSUME Types, NEW e \in Dev, NEW c \in Ctx, NEW x, ctx' = [ctx EXCEPT ![c] = x]
    PROVE  /\ (Holds(x, e) <=> Holds(ctx[c], e)) => Holders(e)' = Holders(e)
           /\ Holds(x, e) /\ ~Holds(ctx[c], e) => c \notin Holders(e) /\ Holders(e)' = Holders(e) \cup {c}
           /\ ~Holds(x, e) /\ Holds(ctx[c], e) => c \in Holders(e) /\ Holders(e)' = Holders(e) \ {c}
<1>1. ctx \in [Ctx -> CtxRec]
  BY ZenonT(30) DEF Types, PcType
<1>2. \A b \in Ctx : ctx'[b] = IF b = c THEN x ELSE ctx[b]
  BY ZenonT(30), <1>1
<1>3. Holders(e) = {b \in Ctx : Holds(ctx[b], e)} /\ Holders(e)' = {b \in Ctx : Holds(ctx'[b], e)}
  BY ZenonT(30) DEF Holders, Holds
<1> QED
  BY <1>2, <1>3

\* Who uses a disk after one user has moved.
LEMMA UsersMove ==
    ASSUME Types, NEW e \in Dev, NEW o \in Opener, NEW x, opener' = [opener EXCEPT ![o] = x]
    PROVE  /\ (Uses(x, e) <=> Uses(opener[o], e)) => Users(e)' = Users(e)
           /\ Uses(x, e) /\ ~Uses(opener[o], e) => o \notin Users(e) /\ Users(e)' = Users(e) \cup {o}
           /\ ~Uses(x, e) /\ Uses(opener[o], e) => o \in Users(e) /\ Users(e)' = Users(e) \ {o}
<1>1. opener \in [Opener -> OpenerRec]
  BY ZenonT(30) DEF Types, PcType
<1>2. \A b \in Opener : opener'[b] = IF b = o THEN x ELSE opener[b]
  BY ZenonT(30), <1>1
<1>3. Users(e) = {b \in Opener : Uses(opener[b], e)} /\ Users(e)' = {b \in Opener : Uses(opener'[b], e)}
  BY ZenonT(30) DEF Users, Uses
<1> QED
  BY <1>2, <1>3

\* d->ref counts the contexts that have not given the device back.
LEMMA RefStep ==
    ASSUME Types, KnownInv, CountInv, Effect, NEW e \in Dev
    PROVE  ref'[e] = Cardinality(Holders(e)')
<1> DEFINE Good == ref'[e] = Cardinality(Holders(e)')
<1>t. ref \in [Dev -> Int]
  BY ZenonT(30) DEF Types, DevType
<1>c. ref[e] = Cardinality(Holders(e))
  BY ZenonT(30) DEF CountInv
<1>n. e # None
  BY ZenonT(30), DevAssumption
<1>s. ASSUME ref'[e] = ref[e], Holders(e)' = Holders(e) PROVE Good
  BY ZenonT(30), <1>s, <1>c
<1>d. \A d \in Dev : d # e => ~Holds(Idle, e) /\ \A pc : ~Holds(At(pc, d), e)
  BY <1>n DEF Holds, Idle, At
<1>e. /\ ~Holds(Idle, e) /\ ~Holds(At("ktio_id", e), e)
      /\ \A pc : pc # "ktio_id" => Holds(At(pc, e), e)
  BY <1>n DEF Holds, Idle, At
<1>1. ASSUME NEW c \in Ctx, NEW d \in Dev, NEW pc \in CtxPc, GetRef(c, d, pc) PROVE Good
  <2>1. /\ ctx[c] = Idle /\ ctx' = [ctx EXCEPT ![c] = At(pc, d)] /\ ref' = [ref EXCEPT ![d] = @ + 1]
        /\ pc \in {"cfg_rsp", "ata_rsp", "revalidate"}
    BY ZenonT(30), <1>1 DEF GetRef
  <2>2. pc # "ktio_id"
    BY <2>1
  <2>3. CASE d = e
    <3>1. e \in Dev /\ c \notin Holders(e) /\ Holders(e)' = Holders(e) \cup {c}
      BY ZenonT(30), <2>1, <2>2, <2>3, <1>e, HoldersMove
    <3>2. Cardinality(Holders(e)') = Cardinality(Holders(e)) + 1
      BY ZenonT(30), <3>1, FiniteUsers, OneMore
    <3>3. ref'[e] = ref[e] + 1
      BY ZenonT(30), <2>1, <2>3, <1>t
    <3> QED
      BY ZenonT(30), <3>2, <3>3, <1>c
  <2>4. CASE d # e
    <3>1. Holders(e)' = Holders(e)
      BY ZenonT(30), <2>1, <2>4, <1>d, HoldersMove
    <3>2. ref'[e] = ref[e]
      BY ZenonT(30), <2>1, <2>4, <1>t
    <3> QED
      BY ZenonT(30), <3>1, <3>2, <1>s
  <2> QED
    BY ZenonT(30), <2>3, <2>4
<1>2. ASSUME NEW c \in Ctx, NEW d \in Dev, NEW a \in Addr, NEW n \in Minor, NewDev(c, d, a, n) PROVE Good
  <2>1. /\ ctx[c] = Idle /\ ctx' = [ctx EXCEPT ![c] = At("cfg_rsp", d)] /\ ref' = [ref EXCEPT ![d] = 1]
        /\ d \notin Known
    BY ZenonT(30), <1>2 DEF NewDev
  <2>2. "cfg_rsp" # "ktio_id"
    OBVIOUS
  <2>3. CASE d = e
    <3>1. e \in Dev /\ c \notin Holders(e) /\ Holders(e)' = Holders(e) \cup {c}
      BY ZenonT(30), <2>1, <2>2, <2>3, <1>e, HoldersMove
    <3>2. Cardinality(Holders(e)') = Cardinality(Holders(e)) + 1
      BY ZenonT(30), <3>1, FiniteUsers, OneMore
    <3>3. Holders(e) = {}
      BY ZenonT(30), <2>1, <2>3, <1>n DEF Holders, KnownInv
    <3>4. Cardinality(Holders(e)') = 0 + 1
      BY ZenonT(30), <3>2, <3>3, FS_EmptySet
    <3>5. ref'[e] = 1
      BY ZenonT(30), <2>1, <2>3, <1>t
    <3> QED
      BY <3>4, <3>5
  <2>4. CASE d # e
    <3>1. Holders(e)' = Holders(e)
      BY ZenonT(30), <2>1, <2>4, <1>d, HoldersMove
    <3>2. ref'[e] = ref[e]
      BY ZenonT(30), <2>1, <2>4, <1>t
    <3> QED
      BY ZenonT(30), <3>1, <3>2, <1>s
  <2> QED
    BY ZenonT(30), <2>3, <2>4
<1>3. ASSUME NEW c \in Ctx, NEW pc, pc # "ktio_id", ctx[c].pc # "ktio_id",
             ctx' = [ctx EXCEPT ![c] = At(pc, ctx[c].d)], ref' = ref
      PROVE  Good
  <2>1. Holds(At(pc, ctx[c].d), e) <=> Holds(ctx[c], e)
    BY <1>3 DEF Holds, At
  <2>2. Holders(e)' = Holders(e)
    BY ZenonT(30), <1>3, <2>1, HoldersMove
  <2> QED
    BY ZenonT(30), <2>2, <1>3, <1>s
<1>4. ASSUME NEW c \in Ctx, NEW pc \in CtxPc, CtxGoes(c, pc) PROVE Good
  <2>1. /\ ctx[c].pc \in {"cfg_rsp", "ata_rsp", "revalidate", "iocq"} /\ pc \in {"iocq", "put", "ktio_put"}
        /\ ctx' = [ctx EXCEPT ![c] = At(pc, ctx[c].d)] /\ ref' = ref
    BY ZenonT(30), <1>4 DEF CtxGoes
  <2>2. pc # "ktio_id" /\ ctx[c].pc # "ktio_id"
    BY <2>1
  <2> HIDE DEF Good
  <2> QED
    BY ZenonT(30), <2>1, <2>2, <1>3
<1>5. ASSUME NEW c \in Ctx, Identified(c) PROVE Good
  <2>1. ctx[c].pc = "iocq" /\ ctx' = [ctx EXCEPT ![c] = At("ktio_put", ctx[c].d)] /\ ref' = ref
    BY ZenonT(30), <1>5 DEF Identified
  <2>2. "ktio_put" # "ktio_id" /\ ctx[c].pc # "ktio_id"
    BY <2>1
  <2> HIDE DEF Good
  <2> QED
    BY ZenonT(30), <2>1, <2>2, <1>3
<1>6. ASSUME NEW c \in Ctx, NEW x \in CtxRec, PutBack(c, x) PROVE Good
  <2> DEFINE d == ctx[c].d
  <2>1. /\ ctx[c].pc \in {"put", "ktio_put"} /\ ctx' = [ctx EXCEPT ![c] = x]
        /\ ref' = [ref EXCEPT ![d] = @ - 1] /\ x \in {Idle, At("ktio_id", d)}
    BY ZenonT(30), <1>6 DEF PutBack
  <2>2. ctx[c].pc # "ktio_id" /\ ctx[c].pc # "idle"
    BY <2>1
  <2>3. d \in Dev /\ ctx[c] = At(ctx[c].pc, d)
    BY ZenonT(30), <2>2, CtxFacts
  <2> HIDE DEF d
  <2>4. CASE d = e
    <3>1. ~Holds(x, e) /\ Holds(ctx[c], e)
      BY ZenonT(30), <2>1, <2>2, <2>3, <2>4, <1>e
    <3>2. c \in Holders(e) /\ Holders(e)' = Holders(e) \ {c}
      BY ZenonT(30), <2>1, <3>1, HoldersMove
    <3>3. Cardinality(Holders(e)') = Cardinality(Holders(e)) - 1
      BY ZenonT(30), <3>2, FiniteUsers, OneLess
    <3>4. ref'[e] = ref[e] - 1
      BY ZenonT(30), <2>1, <2>4, <1>t
    <3> QED
      BY ZenonT(30), <3>3, <3>4, <1>c
  <2>5. CASE d # e
    <3>1. ~Holds(x, e) /\ ~Holds(ctx[c], e)
      BY ZenonT(30), <2>1, <2>3, <2>5, <1>d
    <3>2. Holders(e)' = Holders(e)
      BY ZenonT(30), <2>1, <3>1, HoldersMove
    <3>3. ref'[e] = ref[e]
      BY ZenonT(30), <2>1, <2>3, <2>5, <1>t
    <3> QED
      BY ZenonT(30), <3>2, <3>3, <1>s
  <2> QED
    BY ZenonT(30), <2>4, <2>5
<1>7. ASSUME NEW c \in Ctx, Leaves(c) PROVE Good
  <2>1. ctx[c].pc = "ktio_id" /\ ctx' = [ctx EXCEPT ![c] = Idle] /\ ref' = ref
    BY ZenonT(30), <1>7 DEF Leaves, devVars
  <2>2. ~Holds(ctx[c], e)
    BY ZenonT(30), <2>1 DEF Holds
  <2>3. Holders(e)' = Holders(e)
    BY ZenonT(30), <2>1, <2>2, <1>e, HoldersMove
  <2> QED
    BY ZenonT(30), <2>1, <2>3, <1>s
<1>8. ASSUME UNCHANGED <<ctx, ref>> PROVE Good
  <2>1. Holders(e)' = Holders(e)
    BY ZenonT(30), <1>8 DEF Holders
  <2> QED
    BY ZenonT(30), <1>8, <2>1, <1>s
<1>9. (Quiet \/ WorkerEffect \/ OpenerEffect \/ FlusherEffect) => UNCHANGED <<ctx, ref>>
  BY ZenonT(60) DEF Quiet, WorkerEffect, OpenerEffect, FlusherEffect,
     WorkStarts, TakesGd, WorkerGoes, FailsGd, InstallsGd, AddsDisk, DoneGd, DoneSize,
     OpenerGoes, Opens, Releases, FlusherGoes, Dooms, StartsFree, FreesDisk, FreesMinor, DoneFree,
     Removes, pcVars, devVars
<1>10. /\ \A n \in Minor : LeakMinor(n) => UNCHANGED <<ctx, ref>>
       /\ \A d \in Dev : TimerDowns(d) => UNCHANGED <<ctx, ref>>
  BY ZenonT(30) DEF LeakMinor, TimerDowns, pcVars, devVars
<1> HIDE DEF Good
<1>11. Good
  BY ZenonT(30), <1>1, <1>2, <1>4, <1>5, <1>6, <1>7, <1>8, <1>9, <1>10 DEF Effect, CtxEffect
<1> QED
  BY ZenonT(30), <1>11 DEF Good

\* d->nopen counts the users that have the disk open.
LEMMA NopenStep ==
    ASSUME Types, CountInv, Effect, NEW e \in Dev
    PROVE  nopen'[e] = Cardinality(Users(e)')
<1> DEFINE Good == nopen'[e] = Cardinality(Users(e)')
<1>t. nopen \in [Dev -> Int]
  BY ZenonT(30) DEF Types, DevType
<1>c. nopen[e] = Cardinality(Users(e))
  BY ZenonT(30) DEF CountInv
<1>n. e # None
  BY ZenonT(30), DevAssumption
<1>s. ASSUME nopen'[e] = nopen[e], Users(e)' = Users(e) PROVE Good
  BY ZenonT(30), <1>s, <1>c
<1>d. \A d \in Dev : d # e => \A pc : ~Uses(At(pc, d), e)
  BY <1>n DEF Uses, At
<1>e. /\ ~Uses(Idle, e) /\ Uses(At("open", e), e)
      /\ \A pc, d : pc # "open" => ~Uses(At(pc, d), e)
  BY <1>n DEF Uses, Idle, At
<1>q. "opening" # "open" /\ "cfg" # "open"
  OBVIOUS
<1>1. ASSUME NEW o \in Opener, NEW x \in OpenerRec, OpenerGoes(o, x) PROVE Good
  <2>1. opener[o].pc # "open" /\ opener' = [opener EXCEPT ![o] = x] /\ nopen' = nopen
    BY ZenonT(30), <1>1 DEF OpenerGoes, devVars
  <2>2. x = Idle \/ \E d \in Dev : x = At("opening", d)
    BY ZenonT(30), <1>1 DEF OpenerGoes
  <2>3. ~Uses(opener[o], e)
    BY ZenonT(30), <2>1 DEF Uses
  <2>4. ~Uses(x, e)
    BY ZenonT(30), <2>2, <1>e, <1>q
  <2>5. Users(e)' = Users(e)
    BY ZenonT(30), <2>1, <2>3, <2>4, UsersMove
  <2> QED
    BY ZenonT(30), <2>1, <2>5, <1>s
<1>2. ASSUME NEW o \in Opener, NEW d \in Dev, Opens(o, d) PROVE Good
  <2>1. /\ opener[o] = At("opening", d) /\ opener' = [opener EXCEPT ![o] = At("open", d)]
        /\ nopen' = [nopen EXCEPT ![d] = @ + 1]
    BY ZenonT(30), <1>2 DEF Opens
  <2>2. ~Uses(opener[o], e)
    BY ZenonT(30), <2>1, <1>e, <1>q
  <2>3. CASE d = e
    <3>1. o \notin Users(e) /\ Users(e)' = Users(e) \cup {o}
      BY ZenonT(30), <2>1, <2>2, <2>3, <1>e, UsersMove
    <3>2. Cardinality(Users(e)') = Cardinality(Users(e)) + 1
      BY ZenonT(30), <3>1, FiniteUsers, OneMore
    <3>3. nopen'[e] = nopen[e] + 1
      BY ZenonT(30), <2>1, <2>3, <1>t
    <3> QED
      BY ZenonT(30), <3>2, <3>3, <1>c
  <2>4. CASE d # e
    <3>1. Users(e)' = Users(e)
      BY ZenonT(30), <2>1, <2>2, <2>4, <1>d, UsersMove
    <3>2. nopen'[e] = nopen[e]
      BY ZenonT(30), <2>1, <2>4, <1>t
    <3> QED
      BY ZenonT(30), <3>1, <3>2, <1>s
  <2> QED
    BY ZenonT(30), <2>3, <2>4
<1>3. ASSUME NEW o \in Opener, NEW d \in Dev, NEW x \in OpenerRec, Releases(o, d, x) PROVE Good
  <2>1. /\ opener[o] = At("open", d) /\ opener' = [opener EXCEPT ![o] = x]
        /\ nopen' = [nopen EXCEPT ![d] = @ - 1] /\ x \in {Idle, At("cfg", d)}
    BY ZenonT(30), <1>3 DEF Releases
  <2>2. ~Uses(x, e)
    BY ZenonT(30), <2>1, <1>e, <1>q
  <2>3. CASE d = e
    <3>0. Uses(opener[o], e)
      BY ZenonT(30), <2>1, <2>3, <1>e
    <3>1. o \in Users(e) /\ Users(e)' = Users(e) \ {o}
      BY ZenonT(30), <2>1, <2>2, <3>0, UsersMove
    <3>2. Cardinality(Users(e)') = Cardinality(Users(e)) - 1
      BY ZenonT(30), <3>1, FiniteUsers, OneLess
    <3>3. nopen'[e] = nopen[e] - 1
      BY ZenonT(30), <2>1, <2>3, <1>t
    <3> QED
      BY ZenonT(30), <3>2, <3>3, <1>c
  <2>4. CASE d # e
    <3>0. ~Uses(opener[o], e)
      BY ZenonT(30), <2>1, <2>4, <1>d
    <3>1. Users(e)' = Users(e)
      BY ZenonT(30), <2>1, <2>2, <3>0, UsersMove
    <3>2. nopen'[e] = nopen[e]
      BY ZenonT(30), <2>1, <2>4, <1>t
    <3> QED
      BY ZenonT(30), <3>1, <3>2, <1>s
  <2> QED
    BY ZenonT(30), <2>3, <2>4
<1>8. ASSUME UNCHANGED <<opener, nopen>> PROVE Good
  <2>1. Users(e)' = Users(e)
    BY ZenonT(30), <1>8 DEF Users
  <2> QED
    BY ZenonT(30), <1>8, <2>1, <1>s
<1>9. (Quiet \/ CtxEffect \/ WorkerEffect \/ FlusherEffect) => UNCHANGED <<opener, nopen>>
  BY ZenonT(60) DEF Quiet, CtxEffect, WorkerEffect, FlusherEffect,
     GetRef, NewDev, LeakMinor, CtxGoes, Identified, PutBack, Leaves, TimerDowns,
     WorkStarts, TakesGd, WorkerGoes, FailsGd, InstallsGd, AddsDisk, DoneGd, DoneSize,
     FlusherGoes, Dooms, StartsFree, FreesDisk, FreesMinor, DoneFree, Removes, pcVars, devVars
<1> HIDE DEF Good
<1>11. Good
  BY ZenonT(30), <1>1, <1>2, <1>3, <1>8, <1>9 DEF Effect, OpenerEffect
<1> QED
  BY ZenonT(30), <1>11 DEF Good

\* Both count exactly.
LEMMA CountStep ==
    ASSUME Types, KnownInv, CountInv, Effect
    PROVE  CountInv'
<1>1. \A d \in Dev : ref'[d] = Cardinality(Holders(d)') /\ nopen'[d] = Cardinality(Users(d)')
  BY ZenonT(30), RefStep, NopenStep
<1> QED
  BY ZenonT(30), <1>1 DEF CountInv, Holders, Users

----------------------------------------------------------------------------
(* What can happen to the flags and to the disk of a device.               *)

\* A context that has not given its device back is counted.
LEMMA HolderCounts ==
    ASSUME CountInv, NEW d \in Dev, NEW c \in Ctx, ctx[c].d = d, ctx[c].pc # "ktio_id"
    PROVE  ref[d] \in Nat /\ ref[d] > 0
<1>1. c \in Holders(d)
  BY ZenonT(30) DEF Holders
<1>2. Cardinality(Holders(d)) # 0
  <2>1. Holders(d) # {}
    BY ZenonT(30), <1>1
  <2> QED
    BY ZenonT(30), <2>1, FiniteUsers, FS_EmptySet
<1>3. Cardinality(Holders(d)) \in Nat /\ ref[d] = Cardinality(Holders(d))
  BY ZenonT(30), FiniteUsers DEF CountInv
<1> QED
  BY <1>2, <1>3

\* And so is a user of its disk.
LEMMA UserCounts ==
    ASSUME CountInv, NEW d \in Dev, NEW o \in Opener, opener[o].d = d, opener[o].pc = "open"
    PROVE  nopen[d] \in Nat /\ nopen[d] > 0
<1>1. o \in Users(d)
  BY ZenonT(30) DEF Users
<1>2. Cardinality(Users(d)) # 0
  <2>1. Users(d) # {}
    BY ZenonT(30), <1>1
  <2> QED
    BY ZenonT(30), <2>1, FiniteUsers, FS_EmptySet
<1>3. Cardinality(Users(d)) \in Nat /\ nopen[d] = Cardinality(Users(d))
  BY ZenonT(30), FiniteUsers DEF CountInv
<1> QED
  BY <1>2, <1>3

\* The flags of device e become f.
To(e, f) == flags'[e] = f /\ gd'[e] = gd[e]

DevMove(e) ==
    \/ To(e, flags[e])
    \/ To(e, flags[e] \cup {"GDALLOC"}) /\ gd[e] = "null" /\ "TKILL" \notin flags[e]
    \/ /\ To(e, flags[e] \cup {"NEWSIZE"}) /\ gd[e] # "null"
       /\ Unspecific => "TKILL" \notin flags[e]
    \/ To(e, flags[e] \ {"UP"})
    \/ To(e, flags[e] \cup {"GD_NOW"})
    \/ To(e, flags[e] \ {"GD_NOW"})
    \/ /\ flags'[e] = (flags[e] \cup {"UP"}) \ {"GDALLOC"} /\ gd'[e] = "installed"
       /\ gd[e] = "null" /\ "GDALLOC" \in flags[e]
    \/ flags'[e] = flags[e] /\ gd[e] = "installed" /\ gd'[e] = "added"
    \/ flags'[e] = flags[e] /\ gd[e] = "deleted" /\ gd'[e] = "readded"
    \/ To(e, (flags[e] \cup {"UP"}) \ {"NEWSIZE"}) /\ gd[e] # "null"
    \/ /\ To(e, (flags[e] \ {"UP"}) \cup {"TKILL"}) /\ "GDALLOC" \notin flags[e]
       /\ \/ gd[e] # "null" /\ ~Unspecific
          \/ nopen[e] = 0 /\ ref[e] = 0 /\ "NEWSIZE" \notin flags[e]
    \/ To(e, flags[e] \cup {"FREEING"}) /\ "TKILL" \in flags[e]
    \/ flags'[e] = flags[e] /\ gd[e] # "null" /\ gd'[e] = "deleted" /\ "FREEING" \in flags[e]
    \/ To(e, flags[e] \cup {"FREED"}) /\ "FREEING" \in flags[e] /\ NoDisk(e)

\* Nothing else happens to them.
LEMMA DevMoves ==
    ASSUME DevInv, Effect, NEW e \in Dev
    PROVE  DevMove(e)
<1>i. Types /\ KnownInv /\ CountInv /\ LifeInv /\ GdInv /\ FreeInv
  BY ZenonT(30) DEF DevInv
<1>t. /\ gd \in [Dev -> {"null", "installed", "added", "deleted", "readded"}] /\ flags \in [Dev -> SUBSET Flag]
      /\ nopen[e] \in Nat /\ ref[e] \in Nat
  <2>1. gd \in [Dev -> {"null", "installed", "added", "deleted", "readded"}] /\ flags \in [Dev -> SUBSET Flag]
    BY ZenonT(30), <1>i DEF Types, DevType
  <2>2. nopen[e] \in Nat /\ ref[e] \in Nat
    BY ZenonT(30), <1>i, FiniteUsers DEF CountInv
  <2> QED
    BY ZenonT(30), <2>1, <2>2
<1>s. ASSUME flags'[e] = flags[e], gd'[e] = gd[e] PROVE DevMove(e)
  BY ZenonT(30), <1>s DEF DevMove, To
<1>w. ASSUME NEW w \in Worker, NEW d, NEW pc, worker[w] = At(pc, d) PROVE worker[w].pc = pc /\ worker[w].d = d
  BY <1>w DEF At
<1>p. ASSUME NEW p \in Flusher, NEW d, NEW pc, flusher[p] = At(pc, d) PROVE flusher[p].pc = pc /\ flusher[p].d = d
  BY <1>p DEF At
<1>1. ASSUME UNCHANGED <<flags, gd>> PROVE DevMove(e)
  BY ZenonT(30), <1>1, <1>s
<1>2. ASSUME NEW c \in Ctx, Identified(c) PROVE DevMove(e)
  <2> DEFINE d == ctx[c].d
             on == IF gd[d] = "null" THEN {"GDALLOC"} ELSE {"NEWSIZE"}
  <2>1. SetFlags(d, on, {}) /\ gd' = gd /\ ctx[c].pc = "iocq"
    BY ZenonT(30), <1>2 DEF Identified
  <2>2. ctx[c].pc # "idle" /\ ctx[c].pc # "ktio_id"
    BY <2>1
  <2>3. d \in Dev
    BY ZenonT(30), <2>2, <1>i, CtxFacts
  <2>4. ref[d] \in Nat /\ ref[d] > 0
    BY ZenonT(30), <2>2, <2>3, <1>i, HolderCounts
  <2>5. FlagsSet(d, on, {})
    BY ZenonT(30), <2>1, <2>3, <1>i, SetFlagsAt
  <2>6. CASE d # e
    BY ZenonT(30), <2>1, <2>5, <2>6, <1>s DEF FlagsSet
  <2>7. CASE d = e
    <3>1. flags'[e] = (flags[e] \cup on) \ {}
      BY ZenonT(30), <2>5, <2>7 DEF FlagsSet
    <3>2. CASE gd[e] = "null"
      <4>1. flags'[e] = flags[e] \cup {"GDALLOC"}
        BY <3>1, <3>2, <2>7
      <4>2. "TKILL" \notin flags[e]
        BY <2>4, <2>7, <3>2, <1>i DEF LifeInv
      <4> QED
        BY ZenonT(30), <4>1, <4>2, <3>2, <2>1 DEF DevMove, To
    <3>3. CASE gd[e] # "null"
      <4>1. flags'[e] = flags[e] \cup {"NEWSIZE"}
        BY <3>1, <3>3, <2>7
      <4>2. Unspecific => "TKILL" \notin flags[e]
        BY <2>4, <2>7, <1>i DEF LifeInv
      <4> QED
        BY ZenonT(30), <4>1, <4>2, <3>3, <2>1 DEF DevMove, To
    <3> QED
      BY ZenonT(30), <3>2, <3>3
  <2> QED
    BY ZenonT(30), <2>6, <2>7
<1>3. ASSUME NEW d \in Dev, TimerDowns(d) PROVE DevMove(e)
  <2>1. flags' = [flags EXCEPT ![d] = @ \ {"UP"}] /\ gd' = gd
    BY ZenonT(30), <1>3 DEF TimerDowns
  <2>2. flags'[e] = flags[e] \/ flags'[e] = flags[e] \ {"UP"}
    BY ZenonT(30), <2>1, <1>t
  <2> QED
    BY ZenonT(30), <2>1, <2>2 DEF DevMove, To
<1>4. ASSUME NEW w \in Worker, NEW d \in Dev, TakesGd(w, d) PROVE DevMove(e)
  <2>1. FlagsSet(d, {"GD_NOW"}, {}) /\ gd' = gd
    BY ZenonT(30), <1>4, <1>i, SetFlagsAt DEF TakesGd
  <2>2. flags'[e] = flags[e] \/ flags'[e] = flags[e] \cup {"GD_NOW"}
    BY <2>1 DEF FlagsSet
  <2> QED
    BY ZenonT(30), <2>1, <2>2 DEF DevMove, To
<1>5. ASSUME NEW w \in Worker, NEW d \in Dev, FailsGd(w, d) \/ DoneGd(w, d) PROVE DevMove(e)
  <2>1. FlagsSet(d, {}, {"GD_NOW"}) /\ gd' = gd
    BY ZenonT(30), <1>5, <1>i, SetFlagsAt DEF FailsGd, DoneGd
  <2>2. flags'[e] = flags[e] \/ flags'[e] = flags[e] \ {"GD_NOW"}
    BY <2>1 DEF FlagsSet
  <2> QED
    BY ZenonT(30), <2>1, <2>2 DEF DevMove, To
<1>6. ASSUME NEW w \in Worker, NEW d \in Dev, InstallsGd(w, d) PROVE DevMove(e)
  <2>1. FlagsSet(d, {"UP"}, {"GDALLOC"}) /\ gd' = [gd EXCEPT ![d] = "installed"]
    BY ZenonT(30), <1>6, <1>i, SetFlagsAt DEF InstallsGd
  <2>2. worker[w].pc = "alloc" /\ worker[w].d = d
    BY ZenonT(30), <1>6, <1>w DEF InstallsGd
  <2>3. "GDALLOC" \in flags[d] /\ gd[d] = "null"
    BY ZenonT(30), <2>2, <1>i DEF GdInv
  <2>4. CASE d # e
    BY ZenonT(30), <2>1, <2>4, <1>s, <1>t DEF FlagsSet
  <2>5. CASE d = e
    <3>1. flags'[e] = (flags[e] \cup {"UP"}) \ {"GDALLOC"} /\ gd'[e] = "installed"
      BY ZenonT(30), <2>1, <2>5, <1>t DEF FlagsSet
    <3> QED
      BY ZenonT(30), <3>1, <2>3, <2>5 DEF DevMove, To
  <2> QED
    BY ZenonT(30), <2>4, <2>5
<1>7. ASSUME NEW w \in Worker, NEW d \in Dev, AddsDisk(w, d) PROVE DevMove(e)
  <2>1. /\ flags' = flags
        /\ \/ gd[d] = "installed" /\ gd' = [gd EXCEPT ![d] = "added"]
           \/ gd[d] = "deleted" /\ gd' = [gd EXCEPT ![d] = "readded"]
    BY ZenonT(30), <1>7 DEF AddsDisk
  <2>2. \/ gd'[e] = gd[e] \/ (gd[e] = "installed" /\ gd'[e] = "added")
        \/ gd[e] = "deleted" /\ gd'[e] = "readded"
    BY <2>1, <1>t
  <2> QED
    BY ZenonT(30), <2>1, <2>2 DEF DevMove, To
<1>8. ASSUME NEW w \in Worker, NEW d \in Dev, DoneSize(w, d) PROVE DevMove(e)
  <2>1. FlagsSet(d, {"UP"}, {"NEWSIZE"}) /\ gd' = gd
    BY ZenonT(30), <1>8, <1>i, SetFlagsAt DEF DoneSize
  <2>2. worker[w].pc = "i_size" /\ worker[w].d = d
    BY ZenonT(30), <1>8, <1>w DEF DoneSize
  <2>3. gd[d] # "null"
    BY ZenonT(30), <2>2, <1>i DEF GdInv
  <2> QED
    BY ZenonT(30), <2>1, <2>3 DEF DevMove, To, FlagsSet
<1>9. ASSUME NEW p \in Flusher, NEW D \in SUBSET Dev, Dooms(p, D) PROVE DevMove(e)
  <2>1. /\ flags' = [d \in Dev |-> IF d \in D THEN (flags[d] \ {"UP"}) \cup {"TKILL"} ELSE flags[d]]
        /\ gd' = gd
        /\ \A d \in D :
             \/ gd[d] # "null" /\ ~Unspecific
             \/ /\ "GDALLOC" \notin flags[d] /\ "NEWSIZE" \notin flags[d]
                /\ ~(nopen[d] > 0) /\ ~(ref[d] > 0)
    BY ZenonT(30), <1>9 DEF Dooms
  <2>2. CASE e \notin D
    BY ZenonT(30), <2>1, <2>2, <1>s
  <2>3. CASE e \in D
    <3>1. flags'[e] = (flags[e] \ {"UP"}) \cup {"TKILL"}
      BY ZenonT(30), <2>1, <2>3
    <3>2. "GDALLOC" \notin flags[e]
      BY ZenonT(30), <2>1, <2>3, <1>i DEF GdInv
    <3>3. \/ gd[e] # "null" /\ ~Unspecific
          \/ ~(nopen[e] > 0) /\ ~(ref[e] > 0) /\ "NEWSIZE" \notin flags[e]
      BY ZenonT(30), <2>1, <2>3
    <3>4. \/ gd[e] # "null" /\ ~Unspecific
          \/ nopen[e] = 0 /\ ref[e] = 0 /\ "NEWSIZE" \notin flags[e]
      BY <3>3, <1>t
    <3> QED
      BY ZenonT(30), <3>1, <3>2, <3>4, <2>1 DEF DevMove, To
  <2> QED
    BY ZenonT(30), <2>2, <2>3
<1>10. ASSUME NEW p \in Flusher, NEW d \in Dev, StartsFree(p, d) PROVE DevMove(e)
  <2>1. FlagsSet(d, {"FREEING"}, {}) /\ gd' = gd /\ "TKILL" \in flags[d]
    BY ZenonT(30), <1>10, <1>i, SetFlagsAt DEF StartsFree, ToFree
  <2>2. flags'[e] = flags[e] \/ (flags'[e] = flags[e] \cup {"FREEING"} /\ "TKILL" \in flags[e])
    BY <2>1 DEF FlagsSet
  <2> QED
    BY ZenonT(30), <2>1, <2>2 DEF DevMove, To
<1>11. ASSUME NEW p \in Flusher, NEW d \in Dev, FreesDisk(p, d) PROVE DevMove(e)
  <2>1. flags' = flags /\ gd' = [gd EXCEPT ![d] = IF @ = "null" THEN @ ELSE "deleted"]
    BY ZenonT(30), <1>11 DEF FreesDisk
  <2>2. flusher[p].pc = "freeing" /\ flusher[p].d = d
    BY ZenonT(30), <1>11, <1>p DEF FreesDisk
  <2>3. "FREEING" \in flags[d]
    <3>1. flusher[p].pc \in Freeing
      BY <2>2 DEF Freeing
    <3> QED
      BY ZenonT(30), <3>1, <2>2, <1>i DEF FreeInv
  <2>4. gd'[e] = gd[e] \/ (gd[e] # "null" /\ gd'[e] = "deleted" /\ "FREEING" \in flags[e])
    BY <2>1, <2>3, <1>t
  <2> QED
    BY ZenonT(30), <2>1, <2>4 DEF DevMove, To
<1>12. ASSUME NEW p \in Flusher, NEW d \in Dev, DoneFree(p, d) PROVE DevMove(e)
  <2>1. FlagsSet(d, {"FREED"}, {}) /\ gd' = gd
    BY ZenonT(30), <1>12, <1>i, SetFlagsAt DEF DoneFree
  <2>2. flusher[p].pc = "freed" /\ flusher[p].d = d
    BY ZenonT(30), <1>12, <1>p DEF DoneFree
  <2>3. "FREEING" \in flags[d] /\ NoDisk(d)
    <3>1. flusher[p].pc \in Freeing /\ flusher[p].pc # "freeing"
      BY <2>2 DEF Freeing
    <3> QED
      BY ZenonT(30), <3>1, <2>2, <1>i DEF FreeInv
  <2>4. flags'[e] = flags[e] \/ (flags'[e] = flags[e] \cup {"FREED"} /\ e = d)
    BY <2>1 DEF FlagsSet
  <2> QED
    BY ZenonT(30), <2>1, <2>3, <2>4 DEF DevMove, To
<1> QED
  BY ZenonT(30), <1>1, <1>2, <1>3, <1>4, <1>5, <1>6, <1>7, <1>8, <1>9, <1>10, <1>11, <1>12, FlagFrame

\* The counts of a device that is killed do not change, unless it was named.
LEMMA CountsStay ==
    ASSUME DevInv, Effect, NEW e \in Dev, "TKILL" \in flags[e]
    PROVE  /\ gd[e] = "null" \/ Unspecific => ref'[e] = ref[e]
           /\ Unspecific => nopen'[e] = nopen[e]
<1> DEFINE Good == /\ gd[e] = "null" \/ Unspecific => ref'[e] = ref[e]
                   /\ Unspecific => nopen'[e] = nopen[e]
<1>i. Types /\ KnownInv /\ CountInv /\ LifeInv
  BY ZenonT(30) DEF DevInv
<1>t. ref \in [Dev -> Int] /\ nopen \in [Dev -> Int]
  BY ZenonT(30), <1>i DEF Types, DevType
<1>l. (gd[e] = "null" \/ Unspecific => ref[e] = 0) /\ (Unspecific => nopen[e] = 0)
  BY ZenonT(30), <1>i DEF LifeInv
<1>1. ASSUME UNCHANGED <<ref, nopen>> PROVE Good
  BY ZenonT(30), <1>1
<1>2. ASSUME NEW c \in Ctx, NEW d \in Dev, NEW pc \in CtxPc, GetRef(c, d, pc) PROVE Good
  <2>1. "TKILL" \notin flags[d] /\ ref' = [ref EXCEPT ![d] = @ + 1] /\ nopen' = nopen
    BY ZenonT(30), <1>2 DEF GetRef
  <2>2. d # e
    BY ZenonT(30), <2>1
  <2> QED
    BY ZenonT(30), <2>1, <2>2, <1>t
<1>3. ASSUME NEW c \in Ctx, NEW d \in Dev, NEW a \in Addr, NEW n \in Minor, NewDev(c, d, a, n) PROVE Good
  <2>1. d \notin Known /\ ref' = [ref EXCEPT ![d] = 1] /\ nopen' = nopen
    BY ZenonT(30), <1>3 DEF NewDev
  <2>2. d # e
    BY ZenonT(30), <2>1, <1>i DEF KnownInv
  <2> QED
    BY ZenonT(30), <2>1, <2>2, <1>t
<1>4. ASSUME NEW c \in Ctx, NEW x \in CtxRec, PutBack(c, x) PROVE Good
  <2> DEFINE d == ctx[c].d
  <2>1. ctx[c].pc \in {"put", "ktio_put"} /\ ref' = [ref EXCEPT ![d] = @ - 1] /\ nopen' = nopen
    BY ZenonT(30), <1>4 DEF PutBack
  <2>2. ctx[c].pc # "ktio_id" /\ ctx[c].pc # "idle"
    BY <2>1
  <2>3. d \in Dev
    BY ZenonT(30), <2>2, <1>i, CtxFacts
  <2>4. ref[d] \in Nat /\ ref[d] > 0
    BY ZenonT(30), <2>2, <2>3, <1>i, HolderCounts
  <2> HIDE DEF d
  <2>5. CASE d = e
    BY <2>1, <2>4, <2>5, <1>l
  <2>6. CASE d # e
    BY ZenonT(30), <2>1, <2>3, <2>6, <1>t
  <2> QED
    BY ZenonT(30), <2>5, <2>6
<1>5. ASSUME NEW o \in Opener, NEW d \in Dev, Opens(o, d) PROVE Good
  <2>1. "TKILL" \notin flags[d] /\ nopen' = [nopen EXCEPT ![d] = @ + 1] /\ ref' = ref
    BY ZenonT(30), <1>5 DEF Opens
  <2>2. d # e
    BY ZenonT(30), <2>1
  <2> QED
    BY ZenonT(30), <2>1, <2>2, <1>t
<1>6. ASSUME NEW o \in Opener, NEW d \in Dev, NEW x \in OpenerRec, Releases(o, d, x) PROVE Good
  <2>1. opener[o] = At("open", d) /\ nopen' = [nopen EXCEPT ![d] = @ - 1] /\ ref' = ref
    BY ZenonT(30), <1>6 DEF Releases
  <2>2. opener[o].d = d /\ opener[o].pc = "open"
    BY <2>1 DEF At
  <2>3. nopen[d] \in Nat /\ nopen[d] > 0
    BY ZenonT(30), <2>2, <1>i, UserCounts
  <2>5. CASE d = e
    BY <2>1, <2>3, <2>5, <1>l
  <2>6. CASE d # e
    BY ZenonT(30), <2>1, <2>6, <1>t
  <2> QED
    BY ZenonT(30), <2>5, <2>6
<1>7. CtxEffect \/ Quiet =>
        \/ UNCHANGED <<ref, nopen>>
        \/ \E c \in Ctx :
             \/ \E d \in Dev, pc \in CtxPc : GetRef(c, d, pc)
             \/ \E d \in Dev, a \in Addr, n \in Minor : NewDev(c, d, a, n)
             \/ \E x \in CtxRec : PutBack(c, x)
  BY ZenonT(60) DEF CtxEffect, Quiet, LeakMinor, CtxGoes, Identified, Leaves, TimerDowns, devVars
<1>8. OpenerEffect =>
        \/ UNCHANGED <<ref, nopen>>
        \/ \E o \in Opener, d \in Dev : Opens(o, d) \/ \E x \in OpenerRec : Releases(o, d, x)
  BY ZenonT(60) DEF OpenerEffect, OpenerGoes, devVars
<1>9. WorkerEffect \/ FlusherEffect => UNCHANGED <<ref, nopen>>
  BY ZenonT(60) DEF WorkerEffect, FlusherEffect,
     WorkStarts, TakesGd, WorkerGoes, FailsGd, InstallsGd, AddsDisk, DoneGd, DoneSize,
     FlusherGoes, Dooms, StartsFree, FreesDisk, FreesMinor, DoneFree, Removes, devVars
<1> HIDE DEF Good
<1>10. Good
  BY ZenonT(30), <1>1, <1>2, <1>3, <1>4, <1>5, <1>6, <1>7, <1>8, <1>9 DEF Effect
<1> QED
  BY ZenonT(30), <1>10 DEF Good

\* And neither do they when it is killed.
LEMMA CountsFrame ==
    ASSUME Effect, NEW e \in Dev, "TKILL" \notin flags[e], "TKILL" \in flags'[e]
    PROVE  ref'[e] = ref[e] /\ nopen'[e] = nopen[e]
<1>1. flags' # flags
  BY ZenonT(30)
<1>2. CtxEffect \/ Quiet => UNCHANGED <<ref, nopen>>
  BY ZenonT(60), <1>1 DEF CtxEffect, Quiet, GetRef, NewDev, LeakMinor, CtxGoes, Identified,
     PutBack, Leaves, TimerDowns, devVars
<1>3. OpenerEffect => UNCHANGED <<ref, nopen>>
  BY ZenonT(60), <1>1 DEF OpenerEffect, OpenerGoes, Opens, Releases, devVars
<1>4. WorkerEffect \/ FlusherEffect => UNCHANGED <<ref, nopen>>
  BY ZenonT(60) DEF WorkerEffect, FlusherEffect,
     WorkStarts, TakesGd, WorkerGoes, FailsGd, InstallsGd, AddsDisk, DoneGd, DoneSize,
     FlusherGoes, Dooms, StartsFree, FreesDisk, FreesMinor, DoneFree, Removes, devVars
<1> QED
  BY ZenonT(30), <1>2, <1>3, <1>4 DEF Effect

\* The life of every device goes on as it should.
LEMMA LifeStep ==
    ASSUME DevInv, Effect
    PROVE  LifeInv'
<1>i. Types /\ LifeInv /\ GdInv /\ FreeInv /\ KnownInv
  BY ZenonT(30) DEF DevInv
<1>1. ASSUME NEW e \in Dev
      PROVE  /\ "FREED" \in flags'[e] => "FREEING" \in flags'[e]
             /\ "FREEING" \in flags'[e] => "TKILL" \in flags'[e]
             /\ "TKILL" \in flags'[e] => "GDALLOC" \notin flags'[e]
             /\ "TKILL" \in flags[e] => "TKILL" \in flags'[e]
             /\ "FREED" \in flags[e] => "FREED" \in flags'[e]
             /\ gd'[e] = "null" => gd[e] = "null"
  <2>1. DevMove(e)
    BY ZenonT(30), DevMoves
  <2>2. /\ "FREED" \in flags[e] => "FREEING" \in flags[e]
        /\ "FREEING" \in flags[e] => "TKILL" \in flags[e]
        /\ "TKILL" \in flags[e] => "GDALLOC" \notin flags[e]
    BY ZenonT(30), <1>i DEF LifeInv
  <2> QED
    BY <2>1, <2>2 DEF DevMove, To
<1>2. ASSUME NEW e \in Dev, "TKILL" \in flags'[e]
      PROVE  /\ gd'[e] = "null" \/ Unspecific => ref'[e] = 0
             /\ Unspecific => nopen'[e] = 0
  <2>1. CASE "TKILL" \in flags[e]
    <3>1. /\ gd[e] = "null" \/ Unspecific => ref[e] = 0
          /\ Unspecific => nopen[e] = 0
      BY ZenonT(30), <2>1, <1>i DEF LifeInv
    <3> QED
      BY ZenonT(30), <3>1, <2>1, <1>1, CountsStay
  <2>2. CASE "TKILL" \notin flags[e]
    <3>1. DevMove(e)
      BY ZenonT(30), DevMoves
    <3>2. /\ gd'[e] = gd[e]
          /\ (gd[e] # "null" /\ ~Unspecific) \/ (nopen[e] = 0 /\ ref[e] = 0)
      BY <3>1, <2>2, <1>2 DEF DevMove, To
    <3>3. ref'[e] = ref[e] /\ nopen'[e] = nopen[e]
      BY ZenonT(30), <2>2, <1>2, CountsFrame
    <3> QED
      BY ZenonT(30), <3>2, <3>3
  <2> QED
    BY ZenonT(30), <2>1, <2>2
<1>3. ASSUME NEW d \in gone' PROVE "FREED" \in flags'[d]
  <2>1. ASSUME NEW p \in Flusher, Removes(p), d \notin gone PROVE "FREED" \in flags[d] /\ d \in Dev
    <3>1. gone' = gone \cup {b \in devlist : "FREED" \in flags[b]}
      BY ZenonT(30), <2>1 DEF Removes
    <3>2. d \in devlist /\ "FREED" \in flags[d]
      BY ZenonT(30), <3>1, <2>1
    <3> QED
      BY ZenonT(30), <3>2, <1>i DEF Types, MemType
  <2>2. (\A p \in Flusher : ~Removes(p)) => gone' = gone
    BY ZenonT(30), MemFrame DEF memVars, NewDev, LeakMinor, FreesMinor
  <2>3. d \in gone => "FREED" \in flags[d] /\ d \in Dev
    BY ZenonT(30), <1>i DEF LifeInv, Types, MemType
  <2>4. "FREED" \in flags[d] /\ d \in Dev
    BY ZenonT(30), <2>1, <2>2, <2>3
  <2> QED
    BY ZenonT(30), <2>4, <1>1
<1> QED
  BY ZenonT(30), <1>1, <1>2, <1>3 DEF LifeInv
=============================================================================
