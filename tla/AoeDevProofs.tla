---------------------------- MODULE AoeDevProofs ----------------------------
(***************************************************************************)
(* Proofs about AoeDev, for any devices, contexts, workers, users and      *)
(* flushes at the same time: what d->ref, d->nopen, the flags and the      *)
(* minors guarantee while devices are found, installed, opened and freed.  *)
(***************************************************************************)
EXTENDS AoeDevSteps

\* The provers of the leaves that name none, tried in this order.
USE SMTT(60), Z3T(60), ZenonT(30)

----------------------------------------------------------------------------
(* The installation of disks.                                              *)

\* What a worker at x relies on, with flags f and disk g.
Relies(x, f, g) ==
    /\ x.pc \in Installing => "GD_NOW" \in f
    /\ x.pc = "alloc" => "GDALLOC" \in f
    /\ x.pc = "i_size" => g # "null"

\* Only workers take GD_NOW, GDALLOC and NEWSIZE away.
LEMMA GdNowStays ==
    ASSUME Types, Effect, worker' = worker, NEW e \in Dev
    PROVE  \A g \in {"GD_NOW", "GDALLOC", "NEWSIZE"} : g \in flags[e] => g \in flags'[e]
<1> DEFINE Good == \A g \in {"GD_NOW", "GDALLOC", "NEWSIZE"} : g \in flags[e] => g \in flags'[e]
<1>t. flags \in [Dev -> SUBSET Flag] /\ worker \in [Worker -> WorkerRec]
  BY ZenonT(30) DEF Types, DevType, PcType
<1>1. ASSUME UNCHANGED <<flags, gd>> PROVE Good
  BY ZenonT(30), <1>1
<1>2. ASSUME NEW d \in Dev, NEW on, SetFlags(d, on, {}) PROVE Good
  <2>1. FlagsSet(d, on, {})
    BY ZenonT(30), <1>2, SetFlagsAt
  <2> QED
    BY <2>1 DEF FlagsSet
<1>3. ASSUME NEW c \in Ctx, Identified(c) PROVE Good
  <2>1. ctx[c].pc = "iocq" /\ \E on : SetFlags(ctx[c].d, on, {})
    BY ZenonT(30), <1>3 DEF Identified
  <2>2. ctx[c].pc # "idle"
    BY <2>1
  <2> QED
    BY ZenonT(30), <2>1, <2>2, <1>2, CtxFacts
<1>4. ASSUME NEW d \in Dev, TimerDowns(d) PROVE Good
  <2>1. flags' = [flags EXCEPT ![d] = @ \ {"UP"}]
    BY ZenonT(30), <1>4 DEF TimerDowns
  <2> QED
    BY <2>1, <1>t
<1>5. ASSUME NEW p \in Flusher, NEW D \in SUBSET Dev, Dooms(p, D) PROVE Good
  <2>1. flags' = [d \in Dev |-> IF d \in D THEN (flags[d] \ {"UP"}) \cup {"TKILL"} ELSE flags[d]]
    BY ZenonT(30), <1>5 DEF Dooms
  <2> QED
    BY <2>1
<1>6. ASSUME NEW p \in Flusher, NEW d \in Dev, StartsFree(p, d) \/ FreesDisk(p, d) \/ DoneFree(p, d)
      PROVE  Good
  <2>1. flags' = flags \/ \E on : SetFlags(d, on, {})
    BY ZenonT(30), <1>6 DEF StartsFree, FreesDisk, DoneFree
  <2> QED
    BY ZenonT(30), <2>1, <1>2
<1>7. ASSUME NEW w \in Worker, NEW d \in Dev,
             \/ TakesGd(w, d) \/ FailsGd(w, d) \/ InstallsGd(w, d) \/ AddsDisk(w, d)
             \/ DoneGd(w, d) \/ DoneSize(w, d)
      PROVE  FALSE
  <2>1. \E x \in WorkerRec : x # worker[w] /\ worker' = [worker EXCEPT ![w] = x]
    <3>1. /\ \A pc \in WorkerPc : At(pc, d) \in WorkerRec
          /\ Idle \in WorkerRec /\ Idle # At("i_size", d)
          /\ At("gdalloc", d) # At("alloc", d) /\ At("alloc", d) # At("newsize", d)
          /\ At("alloc", d) # At("add_disk", d) /\ At("add_disk", d) # At("added", d)
          /\ At("added", d) # At("newsize", d)
      BY DEF At, Idle, WorkerRec
    <3>2. {"alloc", "newsize", "add_disk", "added"} \subseteq WorkerPc
      BY DEF WorkerPc
    <3> QED
      BY ZenonT(30), <3>1, <3>2, <1>7 DEF TakesGd, FailsGd, InstallsGd, AddsDisk, DoneGd, DoneSize
  <2> QED
    BY ZenonT(30), <2>1, <1>t
<1> HIDE DEF Good
<1>8. Good
  BY ZenonT(30), <1>1, <1>3, <1>4, <1>5, <1>6, <1>7, FlagFrame
<1> QED
  BY ZenonT(30), <1>8 DEF Good

\* What happens when worker w moves to x: what it relies on there, what the
\* others rely on, and that it has the device for itself.
LEMMA InstallMove ==
    ASSUME DevInv, \A e \in Dev : gd[e] # "null" => gd'[e] # "null",
           NEW w \in Worker, NEW x \in WorkerRec, NEW d \in Dev,
           worker' = [worker EXCEPT ![w] = x], x.d \in {d, None}, x.d = None => x.pc = "idle",
           Relies(x, flags'[d], gd'[d]),
           \A e \in Dev : e # d => {"GD_NOW", "GDALLOC"} \cap flags[e] \subseteq flags'[e],
           \/ {"GD_NOW", "GDALLOC"} \cap flags[d] \subseteq flags'[d]
           \/ worker[w].pc \in Installing /\ worker[w].d = d,
           \/ x.pc \notin Installing
           \/ worker[w].pc \in Installing /\ worker[w].d = d
           \/ "GD_NOW" \notin flags[d]
    PROVE  /\ \A v \in Worker : worker'[v].pc # "idle" => Relies(worker'[v], flags'[worker'[v].d], gd'[worker'[v].d])
           /\ \A u, v \in Worker :
                /\ worker'[u].pc \in Installing /\ worker'[v].pc \in Installing
                /\ worker'[u].d = worker'[v].d
                => u = v
<1>i. Types /\ GdInv
  BY ZenonT(30) DEF DevInv
<1>t. worker \in [Worker -> WorkerRec]
  BY ZenonT(30), <1>i DEF Types, PcType
<1>w. \A v \in Worker : worker'[v] = IF v = w THEN x ELSE worker[v]
  BY ZenonT(30), <1>t
<1>n. "idle" \notin Installing /\ "i_size" \notin Installing /\ "alloc" \in Installing
  BY DEF Installing
<1>d. \A v \in Worker : worker[v].pc # "idle" => worker[v].d \in Dev
  BY ZenonT(30), <1>i, WorkerFacts
<1>g. \A v \in Worker : /\ worker[v].pc \in Installing => "GD_NOW" \in flags[worker[v].d]
                        /\ worker[v].pc = "alloc" => "GDALLOC" \in flags[worker[v].d]
                        /\ worker[v].pc = "i_size" => gd[worker[v].d] # "null"
  BY ZenonT(30), <1>i DEF GdInv
<1>u. \A u, v \in Worker :
        /\ worker[u].pc \in Installing /\ worker[v].pc \in Installing
        /\ worker[u].d = worker[v].d
        => u = v
  BY ZenonT(30), <1>i DEF GdInv
<1>h. \A e \in Dev : gd[e] # "null" => gd'[e] # "null"
  BY ZenonT(30)
<1>1. ASSUME NEW v \in Worker, worker'[v].pc # "idle"
      PROVE  Relies(worker'[v], flags'[worker'[v].d], gd'[worker'[v].d])
  <2>1. CASE v = w
    <3>1. worker'[v] = x
      BY ZenonT(30), <1>w, <2>1
    <3>2. x.d = d
      BY ZenonT(30), <3>1, <1>1
    <3> QED
      BY ZenonT(30), <3>1, <3>2
  <2>2. CASE v # w
    <3>1. worker'[v] = worker[v]
      BY ZenonT(30), <1>w, <2>2
    <3> DEFINE e == worker[v].d
    <3>2. e \in Dev
      BY ZenonT(30), <3>1, <1>1, <1>d
    <3>3. worker[v].pc \in Installing => {"GD_NOW", "GDALLOC"} \cap flags[e] \subseteq flags'[e]
      <4>1. CASE e # d
        BY ZenonT(30), <4>1, <3>2
      <4>2. CASE e = d
        BY ZenonT(30), <4>2, <2>2, <1>u
      <4> QED
        BY ZenonT(30), <4>1, <4>2
    <3>4. gd[e] # "null" => gd'[e] # "null"
      BY ZenonT(30), <3>2, <1>h
    <3>5. Relies(worker[v], flags'[e], gd'[e])
      BY <3>3, <3>4, <1>g, <1>n DEF Relies
    <3> QED
      BY ZenonT(30), <3>1, <3>5
  <2> QED
    BY ZenonT(30), <2>1, <2>2
<1>2. ASSUME NEW v \in Worker, v # w, worker[v].pc \in Installing, x.pc \in Installing, worker[v].d = x.d
      PROVE  FALSE
  <2>1. x.d = d
    BY <1>2, <1>n
  <2>2. "GD_NOW" \in flags[d]
    BY ZenonT(30), <2>1, <1>2, <1>g
  <2>3. worker[w].pc \in Installing /\ worker[w].d = d
    BY ZenonT(30), <2>2, <1>2
  <2> QED
    BY ZenonT(30), <2>1, <2>3, <1>2, <1>u
<1>3. ASSUME NEW u \in Worker, NEW v \in Worker,
             worker'[u].pc \in Installing, worker'[v].pc \in Installing, worker'[u].d = worker'[v].d
      PROVE  u = v
  <2>1. CASE u = w /\ v # w
    BY ZenonT(30), <1>2, <1>3, <2>1, <1>w
  <2>2. CASE u # w /\ v = w
    BY ZenonT(30), <1>2, <1>3, <2>2, <1>w
  <2>3. CASE u # w /\ v # w
    BY ZenonT(30), <1>3, <2>3, <1>w, <1>u
  <2> QED
    BY ZenonT(30), <2>1, <2>2, <2>3
<1> QED
  BY ZenonT(30), <1>1, <1>3

\* GD_NOW keeps the workers apart, and the flags agree with the disk.
LEMMA GdStep ==
    ASSUME DevInv, Effect
    PROVE  GdInv'
<1> DEFINE Apart == \A u, v \in Worker :
                       /\ worker'[u].pc \in Installing /\ worker'[v].pc \in Installing
                       /\ worker'[u].d = worker'[v].d
                       => u = v
           All == \A v \in Worker : worker'[v].pc # "idle" => Relies(worker'[v], flags'[worker'[v].d], gd'[worker'[v].d])
           Good == All /\ Apart
<1>i. Types /\ GdInv /\ KnownInv
  BY ZenonT(30) DEF DevInv
<1>1. ASSUME NEW e \in Dev
      PROVE  /\ "GDALLOC" \in flags'[e] => gd'[e] = "null"
             /\ "UP" \in flags'[e] => gd'[e] # "null"
             /\ "NEWSIZE" \in flags'[e] => gd'[e] # "null"
             /\ gd[e] # "null" => gd'[e] # "null"
  <2>1. DevMove(e)
    BY ZenonT(30), DevMoves
  <2>2. /\ "GDALLOC" \in flags[e] => gd[e] = "null"
        /\ "UP" \in flags[e] => gd[e] # "null"
        /\ "NEWSIZE" \in flags[e] => gd[e] # "null"
    BY ZenonT(30), <1>i DEF GdInv
  <2> QED
    BY <2>1, <2>2 DEF DevMove, To
<1>h. \A e \in Dev : gd[e] # "null" => gd'[e] # "null"
  BY ZenonT(30), <1>1
<1>n. /\ "idle" \notin Installing /\ "i_size" \notin Installing /\ "newsize" \notin Installing
      /\ "gdalloc" \notin Installing /\ {"alloc", "add_disk", "added"} = Installing
  BY DEF Installing
<1>r. /\ \A pc \in WorkerPc, d \in Dev : At(pc, d) \in WorkerRec
      /\ Idle \in WorkerRec
  BY DEF At, Idle, WorkerRec
<1>q. {"alloc", "newsize", "add_disk", "added", "i_size", "gdalloc"} = WorkerPc
  BY DEF WorkerPc
<1>m. ASSUME NEW w \in Worker, NEW d \in Dev, NEW x,
             x = Idle \/ \E pc \in WorkerPc : x = At(pc, d),
             worker' = [worker EXCEPT ![w] = x],
             Relies(x, flags'[d], gd'[d]),
             \A e \in Dev : e # d => {"GD_NOW", "GDALLOC"} \cap flags[e] \subseteq flags'[e],
             \/ {"GD_NOW", "GDALLOC"} \cap flags[d] \subseteq flags'[d]
             \/ worker[w].pc \in Installing /\ worker[w].d = d,
             \/ x.pc \notin Installing
             \/ worker[w].pc \in Installing /\ worker[w].d = d
             \/ "GD_NOW" \notin flags[d]
      PROVE  Good
  <2>1. x \in WorkerRec
    BY ZenonT(30), <1>m, <1>r
  <2>2. x.d \in {d, None} /\ (x.d = None => x.pc = "idle")
    <3>1. d # None
      BY ZenonT(30), DevAssumption
    <3>2. (x.d = None /\ x.pc = "idle") \/ x.d = d
      BY <1>m DEF At, Idle
    <3> QED
      BY ZenonT(30), <3>1, <3>2
  <2> QED
    BY ZenonT(30), <1>m, <1>h, <2>1, <2>2, InstallMove
<1> HIDE DEF All, Apart, Good
<1>2. ASSUME worker' = worker PROVE Good
  <2>1. ASSUME NEW v \in Worker, worker'[v].pc # "idle"
        PROVE  Relies(worker'[v], flags'[worker'[v].d], gd'[worker'[v].d])
    <3> DEFINE e == worker[v].d
    <3>1. e \in Dev
      BY ZenonT(30), <2>1, <1>2, <1>i, WorkerFacts
    <3>2. /\ worker[v].pc \in Installing => "GD_NOW" \in flags[e]
          /\ worker[v].pc = "alloc" => "GDALLOC" \in flags[e]
          /\ worker[v].pc = "i_size" => gd[e] # "null"
      BY ZenonT(30), <1>i DEF GdInv
    <3>3. \A g \in {"GD_NOW", "GDALLOC"} : g \in flags[e] => g \in flags'[e]
      BY ZenonT(30), <3>1, <1>2, <1>i, GdNowStays
    <3>4. gd[e] # "null" => gd'[e] # "null"
      BY ZenonT(30), <3>1, <1>h
    <3>5. Relies(worker[v], flags'[e], gd'[e])
      BY <3>2, <3>3, <3>4 DEF Relies
    <3> QED
      BY ZenonT(30), <3>5, <1>2
  <2>2. Apart
    BY ZenonT(30), <1>2, <1>i DEF GdInv, Apart
  <2> QED
    BY ZenonT(30), <2>1, <2>2 DEF Good, All
<1>3. ASSUME NEW w \in Worker, NEW d \in Dev, NEW x, x = Idle \/ \E pc \in WorkerPc : x = At(pc, d),
             worker' = [worker EXCEPT ![w] = x], flags' = flags,
             x.pc \notin Installing, x.pc = "i_size" => gd'[d] # "null"
      PROVE  Good
  <2>1. Relies(x, flags'[d], gd'[d])
    BY <1>3, <1>n DEF Relies
  <2>2. \A e \in Dev : {"GD_NOW", "GDALLOC"} \cap flags[e] \subseteq flags'[e]
    BY <1>3
  <2> QED
    BY ZenonT(30), <1>3, <2>1, <2>2, <1>m
<1>4. ASSUME NEW w \in Worker, NEW d \in Dev, NEW pc \in WorkerPc, WorkStarts(w, d, pc) PROVE Good
  <2>1. worker' = [worker EXCEPT ![w] = At(pc, d)] /\ flags' = flags /\ pc \in {"gdalloc", "newsize"}
    BY ZenonT(30), <1>4 DEF WorkStarts
  <2>2. At(pc, d).pc \notin Installing /\ At(pc, d).pc # "i_size"
    BY <2>1 DEF Installing, At
  <2>3. \E qc \in WorkerPc : At(pc, d) = At(qc, d)
    OBVIOUS
  <2> QED
    BY ZenonT(30), <2>1, <2>2, <2>3, <1>3
<1>5. ASSUME NEW w \in Worker, NEW d \in Dev, NEW x \in WorkerRec, WorkerGoes(w, d, x) PROVE Good
  <2>1. /\ worker' = [worker EXCEPT ![w] = x] /\ flags' = flags
        /\ x \in {Idle, At("newsize", d)} \/ (x = At("i_size", d) /\ "NEWSIZE" \in flags[d])
    BY ZenonT(30), <1>5 DEF WorkerGoes, devVars
  <2>2. x = Idle \/ \E pc \in WorkerPc : x = At(pc, d)
    BY ZenonT(30), <2>1, <1>q
  <2>3. x.pc \in {"idle", "newsize", "i_size"} /\ (x.pc = "i_size" => "NEWSIZE" \in flags[d])
    BY <2>1 DEF At, Idle
  <2>4. x.pc \notin Installing /\ (x.pc = "i_size" => gd'[d] # "null")
    <3>1. "NEWSIZE" \in flags[d] => gd'[d] # "null"
      BY ZenonT(30), <1>i, <1>h DEF GdInv
    <3> QED
      BY <2>3, <3>1 DEF Installing
  <2> QED
    BY ZenonT(30), <2>1, <2>2, <2>4, <1>3
<1>6. ASSUME NEW w \in Worker, NEW d \in Dev, TakesGd(w, d) PROVE Good
  <2>1. FlagsSet(d, {"GD_NOW"}, {}) /\ worker' = [worker EXCEPT ![w] = At("alloc", d)] /\ MayGdalloc(d)
    BY ZenonT(30), <1>6, <1>i, SetFlagsAt DEF TakesGd
  <2>2. "GDALLOC" \in flags[d] /\ "GD_NOW" \notin flags[d]
    BY <2>1 DEF MayGdalloc
  <2>3. \A e \in Dev : {"GD_NOW", "GDALLOC"} \cap flags[e] \subseteq flags'[e]
    BY <2>1 DEF FlagsSet
  <2>4. Relies(At("alloc", d), flags'[d], gd'[d])
    BY <2>1, <2>2 DEF Relies, At, FlagsSet
  <2> QED
    BY ZenonT(30), <2>1, <2>2, <2>3, <2>4, <1>m, <1>q
<1>7. ASSUME NEW w \in Worker, NEW d \in Dev, FailsGd(w, d) \/ DoneGd(w, d) PROVE Good
  <2>1. /\ FlagsSet(d, {}, {"GD_NOW"}) /\ worker' = [worker EXCEPT ![w] = At("newsize", d)]
        /\ worker[w] = At("alloc", d) \/ worker[w] = At("added", d)
    BY ZenonT(30), <1>7, <1>i, SetFlagsAt DEF FailsGd, DoneGd
  <2>2. worker[w].pc \in Installing /\ worker[w].d = d
    BY <2>1 DEF At, Installing
  <2>3. \A e \in Dev : e # d => {"GD_NOW", "GDALLOC"} \cap flags[e] \subseteq flags'[e]
    BY <2>1 DEF FlagsSet
  <2>4. Relies(At("newsize", d), flags'[d], gd'[d])
    BY DEF Relies, At, Installing
  <2> QED
    BY ZenonT(30), <2>1, <2>2, <2>3, <2>4, <1>m, <1>q
<1>8. ASSUME NEW w \in Worker, NEW d \in Dev, InstallsGd(w, d) PROVE Good
  <2>1. /\ FlagsSet(d, {"UP"}, {"GDALLOC"}) /\ worker' = [worker EXCEPT ![w] = At("add_disk", d)]
        /\ worker[w] = At("alloc", d)
    BY ZenonT(30), <1>8, <1>i, SetFlagsAt DEF InstallsGd
  <2>2. worker[w].pc \in Installing /\ worker[w].d = d
    BY <2>1 DEF At, Installing
  <2>3. \A e \in Dev : e # d => {"GD_NOW", "GDALLOC"} \cap flags[e] \subseteq flags'[e]
    BY <2>1 DEF FlagsSet
  <2>4. "GD_NOW" \in flags[d]
    BY ZenonT(30), <2>2, <1>i DEF GdInv
  <2>5. Relies(At("add_disk", d), flags'[d], gd'[d])
    BY <2>1, <2>4 DEF Relies, At, Installing, FlagsSet
  <2> QED
    BY ZenonT(30), <2>1, <2>2, <2>3, <2>5, <1>m, <1>q
<1>9. ASSUME NEW w \in Worker, NEW d \in Dev, AddsDisk(w, d) PROVE Good
  <2>1. /\ flags' = flags /\ worker' = [worker EXCEPT ![w] = At("added", d)]
        /\ worker[w] = At("add_disk", d)
    BY ZenonT(30), <1>9 DEF AddsDisk
  <2>2. worker[w].pc \in Installing /\ worker[w].d = d
    BY <2>1 DEF At, Installing
  <2>3. \A e \in Dev : {"GD_NOW", "GDALLOC"} \cap flags[e] \subseteq flags'[e]
    BY <2>1
  <2>4. "GD_NOW" \in flags[d]
    BY ZenonT(30), <2>2, <1>i DEF GdInv
  <2>5. Relies(At("added", d), flags'[d], gd'[d])
    BY <2>1, <2>4 DEF Relies, At, Installing
  <2> QED
    BY ZenonT(30), <2>1, <2>2, <2>3, <2>5, <1>m, <1>q
<1>10. ASSUME NEW w \in Worker, NEW d \in Dev, DoneSize(w, d) PROVE Good
  <2>1. FlagsSet(d, {"UP"}, {"NEWSIZE"}) /\ worker' = [worker EXCEPT ![w] = Idle]
    BY ZenonT(30), <1>10, <1>i, SetFlagsAt DEF DoneSize
  <2>2. \A e \in Dev : {"GD_NOW", "GDALLOC"} \cap flags[e] \subseteq flags'[e]
    BY <2>1 DEF FlagsSet
  <2>3. Relies(Idle, flags'[d], gd'[d]) /\ Idle.pc \notin Installing
    BY DEF Relies, Idle, Installing
  <2> QED
    BY ZenonT(30), <2>1, <2>2, <2>3, <1>m
<1>11. (Quiet \/ CtxEffect \/ OpenerEffect \/ FlusherEffect) => worker' = worker
  BY ZenonT(60) DEF Quiet, CtxEffect, OpenerEffect, FlusherEffect,
     GetRef, NewDev, LeakMinor, CtxGoes, Identified, PutBack, Leaves, TimerDowns,
     OpenerGoes, Opens, Releases, FlusherGoes, Dooms, StartsFree, FreesDisk, FreesMinor, DoneFree,
     Removes, pcVars
<1>12. Good
  BY ZenonT(30), <1>2, <1>4, <1>5, <1>6, <1>7, <1>8, <1>9, <1>10, <1>11 DEF Effect, WorkerEffect
<1>13. \A v \in Worker :
         /\ worker'[v].pc \in Installing => "GD_NOW" \in flags'[worker'[v].d]
         /\ worker'[v].pc = "alloc" => "GDALLOC" \in flags'[worker'[v].d]
         /\ worker'[v].pc = "i_size" => gd'[worker'[v].d] # "null"
  <2> TAKE v \in Worker
  <2>1. worker'[v].pc # "idle" => Relies(worker'[v], flags'[worker'[v].d], gd'[worker'[v].d])
    BY ZenonT(30), <1>12 DEF Good, All
  <2> QED
    BY <2>1, <1>n DEF Relies
<1> QED
  BY ZenonT(30), <1>1, <1>12, <1>13 DEF GdInv, Good, Apart

----------------------------------------------------------------------------
(* The end of devices.                                                     *)

\* Only the end of freedev marks a device FREED.
LEMMA FreedBy ==
    ASSUME Types, Effect, NEW e \in Dev, "FREED" \notin flags[e], "FREED" \in flags'[e]
    PROVE  \E p \in Flusher : DoneFree(p, e)
<1>t. flags \in [Dev -> SUBSET Flag]
  BY ZenonT(30) DEF Types, DevType
<1>1. ASSUME NEW d \in Dev, NEW on, NEW off, "FREED" \notin on, SetFlags(d, on, off) PROVE FALSE
  <2>1. FlagsSet(d, on, off)
    BY ZenonT(30), <1>1, SetFlagsAt
  <2> QED
    BY <2>1, <1>1 DEF FlagsSet
<1>n. "FREED" \notin {"GDALLOC"} /\ "FREED" \notin {"NEWSIZE"} /\ "FREED" \notin {"GD_NOW"}
      /\ "FREED" \notin {} /\ "FREED" \notin {"UP"} /\ "FREED" \notin {"FREEING"}
  OBVIOUS
<1>2. ASSUME NEW c \in Ctx, Identified(c) PROVE FALSE
  <2> DEFINE d == ctx[c].d
             on == IF gd[d] = "null" THEN {"GDALLOC"} ELSE {"NEWSIZE"}
  <2>1. SetFlags(d, on, {}) /\ ctx[c].pc = "iocq"
    BY ZenonT(30), <1>2 DEF Identified
  <2>2. ctx[c].pc # "idle" /\ "FREED" \notin on
    BY <2>1
  <2>3. d \in Dev
    BY ZenonT(30), <2>2, CtxFacts
  <2> HIDE DEF d, on
  <2> QED
    BY ZenonT(30), <2>1, <2>2, <2>3, <1>1
<1>3. ASSUME NEW d \in Dev, TimerDowns(d) PROVE FALSE
  <2>1. flags' = [flags EXCEPT ![d] = @ \ {"UP"}]
    BY ZenonT(30), <1>3 DEF TimerDowns
  <2> QED
    BY <2>1, <1>t
<1>4. ASSUME NEW p \in Flusher, NEW D \in SUBSET Dev, Dooms(p, D) PROVE FALSE
  <2>1. flags' = [d \in Dev |-> IF d \in D THEN (flags[d] \ {"UP"}) \cup {"TKILL"} ELSE flags[d]]
    BY ZenonT(30), <1>4 DEF Dooms
  <2> QED
    BY <2>1
<1>5. ASSUME NEW w \in Worker, NEW d \in Dev,
             \/ TakesGd(w, d) \/ FailsGd(w, d) \/ InstallsGd(w, d) \/ AddsDisk(w, d)
             \/ DoneGd(w, d) \/ DoneSize(w, d)
      PROVE  FALSE
  BY ZenonT(30), <1>5, <1>1, <1>n DEF TakesGd, FailsGd, InstallsGd, AddsDisk, DoneGd, DoneSize
<1>6. ASSUME NEW p \in Flusher, NEW d \in Dev, StartsFree(p, d) \/ FreesDisk(p, d) PROVE FALSE
  BY ZenonT(30), <1>6, <1>1, <1>n DEF StartsFree, FreesDisk
<1>7. ASSUME NEW p \in Flusher, NEW d \in Dev, DoneFree(p, d) PROVE d = e
  <2>1. FlagsSet(d, {"FREED"}, {})
    BY ZenonT(30), <1>7, SetFlagsAt DEF DoneFree
  <2> QED
    BY ZenonT(30), <2>1 DEF FlagsSet
<1>8. \E p \in Flusher, d \in Dev : DoneFree(p, d)
  BY ZenonT(30), <1>2, <1>3, <1>4, <1>5, <1>6, FlagFrame
<1> QED
  BY ZenonT(30), <1>7, <1>8

\* A device that is being freed gets no disk.
LEMMA EndStays ==
    ASSUME DevInv, Effect, NEW e \in Dev, "FREEING" \in flags[e]
    PROVE  "FREEING" \in flags'[e] /\ (NoDisk(e) => gd'[e] \notin {"installed", "added"})
<1>1. DevMove(e)
  BY ZenonT(30), DevMoves
<1>2. "GDALLOC" \notin flags[e]
  BY ZenonT(30) DEF DevInv, LifeInv
<1> QED
  BY <1>1, <1>2 DEF DevMove, To, NoDisk

\* What a flush in freedev relies on.
Ends(x, d) ==
    x.pc \in Freeing =>
        /\ x.d = d
        /\ "FREEING" \in flags'[d] /\ "FREED" \notin flags'[d]
        /\ x.pc # "freeing" => gd'[d] \notin {"installed", "added"}

\* A flush in freedev has a device.
LEMMA FreeingDev ==
    ASSUME Types, NEW q \in Flusher, flusher[q].pc \in Freeing
    PROVE  flusher[q].d \in Dev
<1>1. flusher[q].pc \notin {"idle", "pass_one", "pass_two"}
  BY DEF Freeing
<1>2. flusher[q] \in FlusherRec /\ (flusher[q].pc \in {"idle", "pass_one", "pass_two"} <=> flusher[q].d = None)
  BY ZenonT(30) DEF Types, Busy, PcType
<1>3. flusher[q].d \in Dev \cup {None}
  BY <1>2 DEF FlusherRec
<1> QED
  BY ZenonT(30), <1>1, <1>2, <1>3

\* What happens when flush p moves to x: the others keep their devices.
LEMMA FreeMove ==
    ASSUME DevInv, Effect, NEW p \in Flusher, NEW x, NEW d,
           flusher' = [flusher EXCEPT ![p] = x], Ends(x, d),
           \A e \in Dev : "FREED" \in flags'[e] =>
              "FREED" \in flags[e] \/ (flusher[p].pc \in Freeing /\ flusher[p].d = e),
           \/ x.pc \notin Freeing
           \/ flusher[p].pc \in Freeing /\ flusher[p].d = d
           \/ "FREEING" \notin flags[d]
    PROVE  /\ \A q \in Flusher : flusher'[q].pc \in Freeing => Ends(flusher'[q], flusher'[q].d)
           /\ \A q, r \in Flusher :
                /\ flusher'[q].pc \in Freeing /\ flusher'[r].pc \in Freeing
                /\ flusher'[q].d = flusher'[r].d
                => q = r
<1>i. Types /\ FreeInv /\ LifeInv
  BY ZenonT(30) DEF DevInv
<1>t. flusher \in [Flusher -> FlusherRec]
  BY ZenonT(30), <1>i DEF Types, PcType
<1>w. \A q \in Flusher : flusher'[q] = IF q = p THEN x ELSE flusher[q]
  BY ZenonT(30), <1>t
<1>f. \A q \in Flusher : flusher[q].pc \in Freeing =>
        /\ "FREEING" \in flags[flusher[q].d] /\ "FREED" \notin flags[flusher[q].d]
        /\ flusher[q].pc # "freeing" => NoDisk(flusher[q].d)
  BY ZenonT(30), <1>i DEF FreeInv
<1>u. \A q, r \in Flusher :
        /\ flusher[q].pc \in Freeing /\ flusher[r].pc \in Freeing
        /\ flusher[q].d = flusher[r].d
        => q = r
  BY ZenonT(30), <1>i DEF FreeInv
<1>d. \A q \in Flusher : flusher[q].pc \in Freeing => flusher[q].d \in Dev
  BY ZenonT(30), <1>i, FreeingDev
<1>1. ASSUME NEW q \in Flusher, flusher'[q].pc \in Freeing PROVE Ends(flusher'[q], flusher'[q].d)
  <2>1. CASE q = p
    <3>1. flusher'[q] = x
      BY ZenonT(30), <1>w, <2>1
    <3>2. x.d = d
      BY ZenonT(30), <3>1, <1>1 DEF Ends
    <3> QED
      BY ZenonT(30), <3>1, <3>2
  <2>2. CASE q # p
    <3> DEFINE e == flusher[q].d
    <3>1. flusher'[q] = flusher[q] /\ flusher[q].pc \in Freeing
      BY ZenonT(30), <1>w, <1>1, <2>2
    <3>2. e \in Dev
      BY ZenonT(30), <3>1, <1>d
    <3>3. "FREEING" \in flags[e] /\ "FREED" \notin flags[e] /\ (flusher[q].pc # "freeing" => NoDisk(e))
      BY ZenonT(30), <3>1, <1>f
    <3>4. "FREED" \notin flags'[e]
      BY ZenonT(30), <3>1, <3>2, <3>3, <2>2, <1>u
    <3>7. "FREEING" \in flags'[e] /\ (NoDisk(e) => gd'[e] \notin {"installed", "added"})
      BY ZenonT(30), <3>2, <3>3, EndStays
    <3>8. Ends(flusher[q], e)
      BY <3>3, <3>4, <3>7 DEF Ends
    <3> QED
      BY ZenonT(30), <3>1, <3>8
  <2> QED
    BY ZenonT(30), <2>1, <2>2
<1>2. ASSUME NEW q \in Flusher, q # p, flusher[q].pc \in Freeing, x.pc \in Freeing, flusher[q].d = x.d
      PROVE  FALSE
  <2>1. x.d = d
    BY ZenonT(30), <1>2 DEF Ends
  <2>2. "FREEING" \in flags[d]
    BY ZenonT(30), <2>1, <1>2, <1>f
  <2> QED
    BY ZenonT(30), <2>1, <2>2, <1>2, <1>u
<1>3. ASSUME NEW q \in Flusher, NEW r \in Flusher,
             flusher'[q].pc \in Freeing, flusher'[r].pc \in Freeing, flusher'[q].d = flusher'[r].d
      PROVE  q = r
  <2>1. CASE q = p /\ r # p
    BY ZenonT(30), <1>2, <1>3, <2>1, <1>w
  <2>2. CASE q # p /\ r = p
    BY ZenonT(30), <1>2, <1>3, <2>2, <1>w
  <2>3. CASE q # p /\ r # p
    BY ZenonT(30), <1>3, <2>3, <1>w, <1>u
  <2> QED
    BY ZenonT(30), <2>1, <2>2, <2>3
<1> QED
  BY ZenonT(30), <1>1, <1>3

\* FREEING keeps the flushes apart, and the disk goes first.
LEMMA FreeStep ==
    ASSUME DevInv, Effect
    PROVE  FreeInv'
<1> DEFINE Apart == \A q, r \in Flusher :
                       /\ flusher'[q].pc \in Freeing /\ flusher'[r].pc \in Freeing
                       /\ flusher'[q].d = flusher'[r].d
                       => q = r
           All == \A q \in Flusher : flusher'[q].pc \in Freeing => Ends(flusher'[q], flusher'[q].d)
           Good == All /\ Apart
<1>i. Types /\ FreeInv /\ LifeInv
  BY ZenonT(30) DEF DevInv
<1>t. flusher \in [Flusher -> FlusherRec] /\ gd \in [Dev -> {"null", "installed", "added", "deleted", "readded"}]
  BY ZenonT(30), <1>i DEF Types, PcType, DevType
<1>1. ASSUME NEW e \in Dev, "FREED" \in flags'[e] PROVE gd'[e] \notin {"installed", "added"}
  <2>1. DevMove(e)
    BY ZenonT(30), DevMoves
  <2>2. /\ "FREED" \in flags[e] => NoDisk(e) /\ "FREEING" \in flags[e]
        /\ "FREEING" \in flags[e] => "TKILL" \in flags[e]
        /\ "TKILL" \in flags[e] => "GDALLOC" \notin flags[e]
    BY ZenonT(30), <1>i DEF LifeInv, FreeInv
  <2> QED
    BY <2>1, <2>2, <1>1 DEF DevMove, To, NoDisk
<1>f. ASSUME NEW e \in Dev, "FREED" \in flags'[e], \A q \in Flusher : ~DoneFree(q, e) PROVE "FREED" \in flags[e]
  BY ZenonT(30), <1>f, <1>i, FreedBy
<1>p. /\ At("pass_two", None).pc \notin Freeing /\ At("pass_one", None).pc \notin Freeing
      /\ Idle.pc \notin Freeing /\ \A d : At("freedev", d).pc \notin Freeing
  BY DEF Freeing, At, Idle
<1>m. ASSUME NEW p \in Flusher, NEW x, x.pc \notin Freeing, flusher' = [flusher EXCEPT ![p] = x],
             \A e \in Dev : "FREED" \in flags'[e] => "FREED" \in flags[e]
      PROVE  Good
  <2>1. Ends(x, None)
    BY ZenonT(30), <1>m DEF Ends
  <2> QED
    BY ZenonT(30), <1>m, <2>1, FreeMove
<1> HIDE DEF All, Apart, Good
<1>2. ASSUME flusher' = flusher PROVE Good
  <2>1. ASSUME NEW e \in Dev, NEW q \in Flusher, DoneFree(q, e) PROVE FALSE
    <3>1. flusher[q] = At("freed", e) /\ flusher' = [flusher EXCEPT ![q] = At("pass_two", None)]
      BY ZenonT(30), <2>1 DEF DoneFree
    <3>2. At("freed", e) # At("pass_two", None)
      BY DEF At
    <3> QED
      BY ZenonT(30), <3>1, <3>2, <1>2, <1>t
  <2>2. \A e \in Dev : "FREED" \in flags'[e] => "FREED" \in flags[e]
    BY ZenonT(30), <2>1, <1>f
  <2>3. ASSUME NEW q \in Flusher PROVE Good
    <3> DEFINE x == flusher[q]
    <3>1. flusher' = [flusher EXCEPT ![q] = x]
      BY ZenonT(30), <1>2, <1>t
    <3>2. CASE x.pc \notin Freeing
      BY ZenonT(30), <3>1, <3>2, <2>2, <1>m
    <3>3. CASE x.pc \in Freeing
      <4> DEFINE e == x.d
      <4>1. "FREEING" \in flags[e] /\ "FREED" \notin flags[e] /\ (x.pc # "freeing" => NoDisk(e))
        BY ZenonT(30), <3>3, <1>i DEF FreeInv
      <4>2. e \in Dev
        BY ZenonT(30), <3>3, <1>i, FreeingDev
      <4>5. "FREEING" \in flags'[e] /\ (NoDisk(e) => gd'[e] \notin {"installed", "added"})
        BY ZenonT(30), <4>1, <4>2, EndStays
      <4>6. Ends(x, e)
        BY ZenonT(30), <4>1, <4>2, <4>5, <2>2 DEF Ends
      <4> HIDE DEF e
      <4> QED
        BY ZenonT(30), <3>1, <3>3, <4>6, <2>2, FreeMove DEF Good, All, Apart, e
    <3> QED
      BY ZenonT(30), <3>2, <3>3
  <2>4. (\A q \in Flusher : FALSE) => Good
    BY ZenonT(30) DEF Good, All, Apart
  <2> QED
    BY ZenonT(30), <2>3, <2>4
<1>3. ASSUME NEW p \in Flusher, NEW x \in FlusherRec, FlusherGoes(p, x) PROVE Good
  <2>1. /\ flusher' = [flusher EXCEPT ![p] = x] /\ flags' = flags
        /\ x = At("pass_one", None) \/ x = At("pass_two", None) \/ (\E d \in devlist : x = At("freedev", d))
    BY ZenonT(30), <1>3 DEF FlusherGoes, devVars
  <2> QED
    BY ZenonT(30), <2>1, <1>m, <1>p
<1>4. ASSUME NEW p \in Flusher, NEW D \in SUBSET Dev, Dooms(p, D) PROVE Good
  <2>1. /\ flusher' = [flusher EXCEPT ![p] = At("pass_two", None)]
        /\ flags' = [d \in Dev |-> IF d \in D THEN (flags[d] \ {"UP"}) \cup {"TKILL"} ELSE flags[d]]
    BY ZenonT(30), <1>4 DEF Dooms
  <2>2. \A e \in Dev : "FREED" \in flags'[e] => "FREED" \in flags[e]
    BY <2>1
  <2> QED
    BY ZenonT(30), <2>1, <2>2, <1>m, <1>p
<1>5. ASSUME NEW p \in Flusher, NEW d \in Dev, StartsFree(p, d) PROVE Good
  <2>1. /\ FlagsSet(d, {"FREEING"}, {}) /\ flusher' = [flusher EXCEPT ![p] = At("freeing", d)]
        /\ "FREEING" \notin flags[d]
    BY ZenonT(30), <1>5, <1>i, SetFlagsAt DEF StartsFree, ToFree
  <2>2. \A e \in Dev : "FREED" \in flags'[e] => "FREED" \in flags[e]
    BY <2>1 DEF FlagsSet
  <2>3. "FREED" \notin flags[d]
    BY ZenonT(30), <2>1, <1>i DEF LifeInv
  <2>4. Ends(At("freeing", d), d)
    BY <2>1, <2>2, <2>3 DEF Ends, At, FlagsSet
  <2> QED
    BY ZenonT(30), <2>1, <2>2, <2>4, FreeMove DEF Good, All, Apart
<1>6. ASSUME NEW p \in Flusher, NEW d \in Dev, FreesDisk(p, d) \/ FreesMinor(p, d) PROVE Good
  <2>1. /\ flags' = flags
        /\ flusher[p] = At("freeing", d) \/ flusher[p] = At("minor", d)
        /\ flusher' = [flusher EXCEPT ![p] = At("minor", d)] \/ flusher' = [flusher EXCEPT ![p] = At("freed", d)]
    BY ZenonT(30), <1>6 DEF FreesDisk, FreesMinor, devVars
  <2>2. flusher[p].pc \in Freeing /\ flusher[p].d = d
    BY <2>1 DEF At, Freeing
  <2>3. "FREEING" \in flags'[d] /\ "FREED" \notin flags'[d]
    BY ZenonT(30), <2>1, <2>2, <1>i DEF FreeInv
  <2>4. gd'[d] \notin {"installed", "added"}
    <3>1. CASE FreesDisk(p, d)
      <4>1. gd' = [gd EXCEPT ![d] = IF @ = "null" THEN @ ELSE "deleted"]
        BY ZenonT(30), <3>1 DEF FreesDisk
      <4> QED
        BY <4>1, <1>t
    <3>2. CASE FreesMinor(p, d)
      <4>1. flusher[p] = At("minor", d) /\ gd' = gd
        BY ZenonT(30), <3>2 DEF FreesMinor, devVars
      <4>2. flusher[p].pc # "freeing"
        BY <4>1 DEF At
      <4> QED
        BY ZenonT(30), <4>1, <4>2, <2>2, <1>i DEF FreeInv, NoDisk
    <3> QED
      BY ZenonT(30), <3>1, <3>2, <1>6
  <2>5. Ends(At("minor", d), d) /\ Ends(At("freed", d), d)
    BY <2>3, <2>4 DEF Ends, At
  <2> QED
    BY ZenonT(30), <2>1, <2>2, <2>5, FreeMove DEF Good, All, Apart
<1>7. ASSUME NEW p \in Flusher, NEW d \in Dev, DoneFree(p, d) PROVE Good
  <2>1. /\ FlagsSet(d, {"FREED"}, {}) /\ flusher' = [flusher EXCEPT ![p] = At("pass_two", None)]
        /\ flusher[p] = At("freed", d)
    BY ZenonT(30), <1>7, <1>i, SetFlagsAt DEF DoneFree
  <2>2. flusher[p].pc \in Freeing /\ flusher[p].d = d
    BY <2>1 DEF At, Freeing
  <2>3. \A e \in Dev : "FREED" \in flags'[e] => "FREED" \in flags[e] \/ e = d
    BY ZenonT(30), <2>1 DEF FlagsSet
  <2>4. Ends(At("pass_two", None), None)
    BY ZenonT(30), <1>p DEF Ends
  <2> QED
    BY ZenonT(30), <2>1, <2>2, <2>3, <2>4, <1>p, FreeMove DEF Good, All, Apart
<1>8. ASSUME NEW p \in Flusher, Removes(p) PROVE Good
  <2>1. flusher' = [flusher EXCEPT ![p] = Idle] /\ flags' = flags
    BY ZenonT(30), <1>8 DEF Removes, devVars
  <2> QED
    BY ZenonT(30), <2>1, <1>m, <1>p
<1>9. (Quiet \/ CtxEffect \/ WorkerEffect \/ OpenerEffect) => flusher' = flusher
  BY ZenonT(60) DEF Quiet, CtxEffect, WorkerEffect, OpenerEffect,
     GetRef, NewDev, LeakMinor, CtxGoes, Identified, PutBack, Leaves, TimerDowns,
     WorkStarts, TakesGd, WorkerGoes, FailsGd, InstallsGd, AddsDisk, DoneGd, DoneSize,
     OpenerGoes, Opens, Releases, pcVars
<1>10. Good
  BY ZenonT(30), <1>2, <1>3, <1>4, <1>5, <1>6, <1>7, <1>8, <1>9 DEF Effect, FlusherEffect
<1>11. \A q \in Flusher : flusher'[q].pc \in Freeing =>
         /\ "FREEING" \in flags'[flusher'[q].d] /\ "FREED" \notin flags'[flusher'[q].d]
         /\ flusher'[q].pc # "freeing" => gd'[flusher'[q].d] \notin {"installed", "added"}
  BY ZenonT(30), <1>10 DEF Good, All, Ends
<1> QED
  BY ZenonT(30), <1>1, <1>10, <1>11 DEF FreeInv, NoDisk, Good, Apart

----------------------------------------------------------------------------
(* Minors and addresses.                                                   *)

\* A flush that has given a minor back stays there until it marks the device.
LEMMA FreedStays ==
    ASSUME Types, Effect, NEW p \in Flusher, NEW e \in Dev, flusher[p].d = e, flusher[p].pc = "freed",
           "FREED" \notin flags'[e]
    PROVE  flusher'[p] = flusher[p]
<1>t. flusher \in [Flusher -> FlusherRec]
  BY ZenonT(30) DEF Types, PcType
<1>f. flusher[p].pc \in Freeing
  BY DEF Freeing
<1>a. ASSUME NEW pc, NEW d, flusher[p] = At(pc, d) PROVE pc = "freed" /\ d = e
  BY <1>a DEF At
<1>n. "pass_one" # "freed" /\ "freedev" # "freed" /\ "freeing" # "freed" /\ "minor" # "freed" /\ "pass_two" # "freed"
  OBVIOUS
<1>0. ASSUME NEW q \in Flusher, q # p, NEW x, flusher' = [flusher EXCEPT ![q] = x] PROVE flusher'[p] = flusher[p]
  BY ZenonT(30), <1>0, <1>t
<1>1. ASSUME NEW q \in Flusher, NEW x \in FlusherRec, FlusherGoes(q, x) PROVE flusher'[p] = flusher[p]
  BY ZenonT(30), <1>1, <1>0, <1>f DEF FlusherGoes
<1>2. ASSUME NEW q \in Flusher, NEW D \in SUBSET Dev, Dooms(q, D) PROVE flusher'[p] = flusher[p]
  <2>1. flusher[q] = At("pass_one", None) /\ flusher' = [flusher EXCEPT ![q] = At("pass_two", None)]
    BY ZenonT(30), <1>2 DEF Dooms
  <2> QED
    BY ZenonT(30), <2>1, <1>0, <1>a, <1>n
<1>3. ASSUME NEW q \in Flusher, NEW d \in Dev, StartsFree(q, d) \/ FreesDisk(q, d) \/ FreesMinor(q, d)
      PROVE  flusher'[p] = flusher[p]
  <2>1. flusher[q] = At("freedev", d) \/ flusher[q] = At("freeing", d) \/ flusher[q] = At("minor", d)
    BY ZenonT(30), <1>3 DEF StartsFree, FreesDisk, FreesMinor
  <2>2. \E x : flusher' = [flusher EXCEPT ![q] = x]
    BY ZenonT(30), <1>3 DEF StartsFree, FreesDisk, FreesMinor
  <2>3. q # p
    BY ZenonT(30), <2>1, <1>a, <1>n
  <2> QED
    BY ZenonT(30), <2>2, <2>3, <1>0
<1>4. ASSUME NEW q \in Flusher, NEW d \in Dev, DoneFree(q, d) PROVE flusher'[p] = flusher[p]
  <2>1. /\ FlagsSet(d, {"FREED"}, {}) /\ flusher[q] = At("freed", d)
        /\ flusher' = [flusher EXCEPT ![q] = At("pass_two", None)]
    BY ZenonT(30), <1>4, SetFlagsAt DEF DoneFree
  <2>2. "FREED" \in flags'[d]
    BY <2>1 DEF FlagsSet
  <2>3. q # p
    BY ZenonT(30), <2>1, <2>2, <1>a
  <2> QED
    BY ZenonT(30), <2>1, <2>3, <1>0
<1>5. ASSUME NEW q \in Flusher, Removes(q) PROVE flusher'[p] = flusher[p]
  BY ZenonT(30), <1>5, <1>0, <1>n DEF Removes
<1>6. (Quiet \/ CtxEffect \/ WorkerEffect \/ OpenerEffect) => flusher' = flusher
  BY ZenonT(60) DEF Quiet, CtxEffect, WorkerEffect, OpenerEffect,
     GetRef, NewDev, LeakMinor, CtxGoes, Identified, PutBack, Leaves, TimerDowns,
     WorkStarts, TakesGd, WorkerGoes, FailsGd, InstallsGd, AddsDisk, DoneGd, DoneSize,
     OpenerGoes, Opens, Releases, pcVars
<1> QED
  BY ZenonT(30), <1>1, <1>2, <1>3, <1>4, <1>5, <1>6 DEF Effect, FlusherEffect

\* A device that has its minor after a step had it before.
LEMMA KeepsBefore ==
    ASSUME DevInv, Effect, NEW e \in Dev, e \in devlist, Keeps(e)'
    PROVE  Keeps(e)
<1>i. Types
  BY ZenonT(30) DEF DevInv
<1>1. "FREED" \notin flags'[e] /\ \A p \in Flusher : flusher'[p].d = e => flusher'[p].pc # "freed"
  BY ZenonT(30) DEF Keeps
<1>2. "FREED" \notin flags[e]
  <2>1. DevMove(e)
    BY ZenonT(30), DevMoves
  <2> QED
    BY <2>1, <1>1 DEF DevMove, To
<1>3. ASSUME NEW p \in Flusher, flusher[p].d = e, flusher[p].pc = "freed" PROVE FALSE
  BY ZenonT(30), <1>1, <1>3, <1>i, FreedStays
<1> QED
  BY ZenonT(30), <1>2, <1>3 DEF Keeps

\* Two devices never have the same minor.
LEMMA MinorStep ==
    ASSUME DevInv, Effect
    PROVE  MinorInv'
<1> DEFINE Good == MinorInv'
<1>i. Types /\ MinorInv /\ KnownInv /\ FreeInv /\ LifeInv
  BY ZenonT(30) DEF DevInv
<1>t. /\ devlist \subseteq Dev /\ gone \subseteq Dev \ devlist
      /\ sysminor \in [Dev -> Minor \cup {None}]
  BY ZenonT(30), <1>i DEF Types, MemType
<1>k. \A e \in Dev : Keeps(e) => sysminor[e] \in used
  BY ZenonT(30), <1>i DEF MinorInv
<1>u. \A d, e \in Dev : Keeps(d) /\ Keeps(e) /\ sysminor[d] = sysminor[e] => d = e
  BY ZenonT(30), <1>i DEF MinorInv
<1>b. \A e \in Dev : Keeps(e)' => e \in devlist'
  BY ZenonT(30) DEF Keeps
<1>c. \A e \in Dev : Keeps(e)' /\ e \in devlist => Keeps(e)
  BY ZenonT(30), KeepsBefore
<1>g. ASSUME \A e \in Dev : Keeps(e)' => sysminor'[e] \in used',
             \A d, e \in Dev : Keeps(d)' /\ Keeps(e)' /\ sysminor'[d] = sysminor'[e] => d = e
      PROVE  Good
  BY ZenonT(30), <1>g DEF MinorInv
<1>s. ASSUME devlist' \subseteq devlist, sysminor' = sysminor,
             \A e \in Dev : Keeps(e)' /\ sysminor[e] \in used => sysminor[e] \in used'
      PROVE  Good
  <2>1. \A e \in Dev : Keeps(e)' => Keeps(e)
    BY ZenonT(30), <1>s, <1>b, <1>c
  <2> QED
    BY ZenonT(30), <2>1, <1>s, <1>k, <1>u, <1>g
<1> HIDE DEF Good
<1>1. ASSUME UNCHANGED memVars PROVE Good
  <2>1. devlist' \subseteq devlist /\ sysminor' = sysminor /\ used' = used
    BY ZenonT(30), <1>1 DEF memVars
  <2> QED
    BY ZenonT(30), <2>1, <1>s
<1>2. ASSUME NEW c \in Ctx, NEW d \in Dev, NEW a \in Addr, NEW n \in Minor, NewDev(c, d, a, n) PROVE Good
  <2>1. /\ d \notin Known /\ n \notin used /\ used' = used \cup {n} /\ devlist' = devlist \cup {d}
        /\ sysminor' = [sysminor EXCEPT ![d] = n]
    BY ZenonT(30), <1>2 DEF NewDev
  <2>2. d \notin devlist
    BY ZenonT(30), <2>1 DEF Known
  <2>3. \A e \in Dev : Keeps(e)' => e = d \/ Keeps(e)
    BY ZenonT(30), <2>1, <1>b, <1>c
  <2>4. sysminor'[d] = n /\ \A e \in Dev : e # d => sysminor'[e] = sysminor[e]
    BY <2>1, <1>t
  <2>u. n \notin used /\ used' = used \cup {n}
    BY ZenonT(30), <2>1
  <2>5. \A e \in Dev : Keeps(e)' => sysminor'[e] \in used'
    BY ZenonT(30), <2>u, <2>3, <2>4, <1>k
  <2>6. ASSUME NEW b \in Dev, NEW e \in Dev, Keeps(b)', Keeps(e)', sysminor'[b] = sysminor'[e] PROVE b = e
    <3>1. CASE b # d /\ e # d
      BY ZenonT(30), <2>3, <2>4, <2>6, <3>1, <1>u
    <3>2. CASE b = d /\ e # d
      BY ZenonT(30), <2>u, <2>3, <2>4, <2>6, <3>2, <1>k
    <3>3. CASE b # d /\ e = d
      BY ZenonT(30), <2>u, <2>3, <2>4, <2>6, <3>3, <1>k
    <3> QED
      BY ZenonT(30), <3>1, <3>2, <3>3
  <2> QED
    BY ZenonT(30), <2>5, <2>6, <1>g
<1>3. ASSUME NEW n \in Minor, LeakMinor(n) PROVE Good
  <2>1. devlist' \subseteq devlist /\ sysminor' = sysminor /\ used' = used \cup {n}
    BY ZenonT(30), <1>3 DEF LeakMinor
  <2> QED
    BY ZenonT(30), <2>1, <1>s
<1>4. ASSUME NEW p \in Flusher, NEW d \in Dev, FreesMinor(p, d) PROVE Good
  <2>1. /\ devlist' \subseteq devlist /\ sysminor' = sysminor /\ used' = used \ {sysminor[d]}
        /\ flusher[p] = At("minor", d) /\ flusher' = [flusher EXCEPT ![p] = At("freed", d)]
    BY ZenonT(30), <1>4 DEF FreesMinor
  <2>2. flusher[p].d = d /\ flusher[p].pc = "minor" /\ flusher[p].pc \in Freeing
    BY <2>1 DEF At, Freeing
  <2>3. "FREED" \notin flags[d]
    BY ZenonT(30), <2>2, <1>i DEF FreeInv
  <2>4. d \in devlist
    BY ZenonT(30), <2>2, <2>3, <1>i, DevAssumption DEF KnownInv, Known, LifeInv
  <2>5. ASSUME NEW q \in Flusher, flusher[q].d = d, flusher[q].pc = "freed" PROVE FALSE
    <3>1. flusher[q].pc \in Freeing /\ flusher[q].pc # "minor"
      BY <2>5 DEF Freeing
    <3> QED
      BY ZenonT(30), <3>1, <2>2, <2>5, <1>i DEF FreeInv
  <2>6. Keeps(d)
    BY ZenonT(30), <2>3, <2>4, <2>5 DEF Keeps
  <2>7. ~Keeps(d)'
    <3>1. flusher'[p] = At("freed", d)
      BY ZenonT(30), <2>1, <1>i DEF Types, PcType
    <3>2. flusher'[p].d = d /\ flusher'[p].pc = "freed"
      BY <3>1 DEF At
    <3> QED
      BY ZenonT(30), <3>2 DEF Keeps
  <2>8. \A e \in Dev : Keeps(e)' /\ sysminor[e] \in used => sysminor[e] \in used'
    BY ZenonT(30), <2>1, <2>6, <2>7, <1>b, <1>c, <1>u
  <2> QED
    BY ZenonT(30), <2>1, <2>8, <1>s
<1>5. ASSUME NEW p \in Flusher, Removes(p) PROVE Good
  <2>1. devlist' \subseteq devlist /\ sysminor' = sysminor /\ used' = used
    BY ZenonT(30), <1>5 DEF Removes
  <2> QED
    BY ZenonT(30), <2>1, <1>s
<1>6. Good
  BY ZenonT(30), <1>1, <1>2, <1>3, <1>4, <1>5, MemFrame
<1> QED
  BY ZenonT(30), <1>6 DEF Good

\* Two devices on devlist never have the same address.
LEMMA AddrStep ==
    ASSUME DevInv, Effect
    PROVE  AddrInv'
<1>i. Types /\ AddrInv
  BY ZenonT(30) DEF DevInv
<1>t. devlist \subseteq Dev /\ addr \in [Dev -> Addr \cup {None}]
  BY ZenonT(30), <1>i DEF Types, MemType
<1>s. ASSUME devlist' \subseteq devlist, addr' = addr PROVE AddrInv'
  BY ZenonT(30), <1>s, <1>i DEF AddrInv
<1>1. ASSUME NEW c \in Ctx, NEW d \in Dev, NEW a \in Addr, NEW n \in Minor, NewDev(c, d, a, n) PROVE AddrInv'
  <2>1. /\ d \notin Known /\ (\A e \in devlist : addr[e] # a) /\ devlist' = devlist \cup {d}
        /\ addr' = [addr EXCEPT ![d] = a]
    BY ZenonT(30), <1>1 DEF NewDev
  <2>2. addr'[d] = a /\ \A e \in devlist : addr'[e] = addr[e]
    BY <2>1, <1>t DEF Known
  <2>u. (\A e \in devlist : addr[e] # a) /\ devlist' = devlist \cup {d}
    BY ZenonT(30), <2>1
  <2>3. ASSUME NEW b \in devlist', NEW e \in devlist', addr'[b] = addr'[e] PROVE b = e
    <3>1. CASE b # d /\ e # d
      BY ZenonT(30), <2>u, <2>2, <2>3, <3>1, <1>i DEF AddrInv
    <3>2. CASE b = d /\ e # d
      BY ZenonT(30), <2>u, <2>2, <2>3, <3>2
    <3>3. CASE b # d /\ e = d
      BY ZenonT(30), <2>u, <2>2, <2>3, <3>3
    <3> QED
      BY ZenonT(30), <3>1, <3>2, <3>3
  <2> QED
    BY ZenonT(30), <2>3 DEF AddrInv
<1>2. (\A c \in Ctx, d \in Dev, a \in Addr, n \in Minor : ~NewDev(c, d, a, n)) =>
        devlist' \subseteq devlist /\ addr' = addr
  BY ZenonT(30), MemFrame DEF memVars, LeakMinor, FreesMinor, Removes
<1> QED
  BY ZenonT(30), <1>1, <1>2, <1>s

----------------------------------------------------------------------------
(* Freed memory.                                                           *)

\* A context that has not given its device back has one that is there.
LEMMA HolderSafe ==
    ASSUME DevInv, Unspecific, NEW c \in Ctx, ctx[c].pc # "idle", ctx[c].pc # "ktio_id"
    PROVE  ctx[c].d \notin gone
<1> DEFINE d == ctx[c].d
<1>i. Types /\ CountInv /\ LifeInv
  BY ZenonT(30) DEF DevInv
<1>1. d \in Dev
  BY ZenonT(30), <1>i, CtxFacts
<1>2. ref[d] \in Nat /\ ref[d] > 0
  BY ZenonT(30), <1>1, <1>i, HolderCounts
<1>3. ref[d] # 0
  BY <1>2
<1> QED
  BY ZenonT(30), <1>1, <1>3, <1>i DEF LifeInv

\* So it is not the one that touches freed memory.
LEMMA OopsStep ==
    ASSUME DevInv, [Next]_vars
    PROVE  OopsInv'
<1> DEFINE Bad == {"cfg_rsp", "ata_rsp", "revalidate", "ktio", "put"}
<1> SUFFICES ASSUME Unspecific PROVE oops' \notin Bad
  BY ZenonT(30) DEF OopsInv
<1>0. oops \notin Bad
  BY ZenonT(30) DEF DevInv, OopsInv
<1>n. /\ \A pc \in {"cfg_rsp", "ata_rsp", "revalidate", "iocq", "put", "ktio_put"} : pc # "idle" /\ pc # "ktio_id"
      /\ {"ktio_id", "sleepwork", "gdalloc", "open", "release", "freedev"} \cap Bad = {}
  OBVIOUS
<1>h. ASSUME NEW c \in Ctx, ctx[c].pc \in {"cfg_rsp", "ata_rsp", "revalidate", "iocq", "put", "ktio_put"}
      PROVE  ctx[c].d \notin gone
  BY ZenonT(30), <1>h, <1>n, HolderSafe
<1> HIDE DEF Bad
<1>s. ASSUME UNCHANGED oops PROVE oops' \notin Bad
  BY ZenonT(30), <1>s, <1>0
<1>g. ASSUME oops' \in {"ktio_id", "sleepwork", "gdalloc", "open", "release", "freedev"} PROVE oops' \notin Bad
  BY ZenonT(30), <1>g, <1>n
<1>1. ASSUME NEW c \in Ctx, NEW a \in Addr, Lookup(c, a) PROVE oops' \notin Bad
  BY ZenonT(30), <1>1, <1>s DEF Lookup
<1>2. ASSUME NEW c \in Ctx, CfgRsp(c) PROVE oops' \notin Bad
  BY ZenonT(30), <1>2, <1>s, <1>h DEF CfgRsp, Touch
<1>3. ASSUME NEW c \in Ctx, Revalidate(c) PROVE oops' \notin Bad
  BY ZenonT(30), <1>3, <1>s, <1>h DEF Revalidate, Touch
<1>4. ASSUME NEW c \in Ctx, AtaRsp(c) PROVE oops' \notin Bad
  BY ZenonT(30), <1>4, <1>s, <1>h DEF AtaRsp, Touch
<1>5. ASSUME NEW c \in Ctx, Ktio(c) PROVE oops' \notin Bad
  BY ZenonT(30), <1>5, <1>s, <1>h DEF Ktio, Touch
<1>6. ASSUME NEW c \in Ctx, Put(c) PROVE oops' \notin Bad
  BY ZenonT(30), <1>6, <1>s, <1>h DEF Put, Touch
<1>7. ASSUME NEW c \in Ctx, KtioId(c) PROVE oops' \notin Bad
  BY ZenonT(30), <1>7, <1>s, <1>g DEF KtioId, Touch
<1>8. ASSUME NEW w \in Worker, WorkerStep(w) \/ \E d \in Dev : WorkStart(w, d) PROVE oops' \notin Bad
  BY ZenonT(60), <1>8, <1>s, <1>g DEF WorkerStep, Gdalloc, GdallocFail, GdallocInstall, AddDisk,
     GdallocDone, NewsizeTest, Newsize, WorkStart, Touch
<1>9. ASSUME NEW o \in Opener, OpenTest(o) \/ Open(o) \/ Release(o) \/ ReleaseCfg(o) PROVE oops' \notin Bad
  BY ZenonT(60), <1>9, <1>s, <1>g DEF OpenTest, Open, Release, ReleaseCfg, Touch
<1>10. ASSUME NEW p \in Flusher, FlushStep(p) PROVE oops' \notin Bad
  BY ZenonT(60), <1>10, <1>s, <1>g DEF FlushStep, FlushStart, PassOne, PassTwo, FreedevMark,
     FreedevDisk, FreedevMinor, FreedevDone, PassThree, Touch
<1>11. ASSUME NEW d \in Dev, TimerDead(d) PROVE oops' \notin Bad
  BY ZenonT(30), <1>11, <1>s DEF TimerDead
<1>12. ASSUME UNCHANGED vars PROVE oops' \notin Bad
  BY ZenonT(30), <1>12, <1>s DEF vars
<1> QED
  BY ZenonT(30), <1>1, <1>2, <1>3, <1>4, <1>5, <1>6, <1>7, <1>8, <1>9, <1>10, <1>11, <1>12
     DEF Next, Halted

----------------------------------------------------------------------------
(* The theorems.                                                           *)

\* The driver starts with no device.
LEMMA DevInit ==
    ASSUME Init
    PROVE  DevInv
<1>i. Idle.pc = "idle" /\ Idle.d = None
  BY DEF Idle
<1>c. \A c \in Ctx : ctx[c].pc = "idle" /\ ctx[c].d = None
  BY ZenonT(30), <1>i DEF Init
<1>w. \A w \in Worker : worker[w].pc = "idle" /\ worker[w].d = None
  BY ZenonT(30), <1>i DEF Init
<1>p. \A p \in Flusher : flusher[p].pc = "idle" /\ flusher[p].d = None
  BY ZenonT(30), <1>i DEF Init
<1>o. \A o \in Opener : opener[o].pc = "idle" /\ opener[o].d = None
  BY ZenonT(30), <1>i DEF Init
<1>1. MemType /\ DevType
  <2>1. /\ devlist = {} /\ gone = {} /\ used = {}
        /\ addr = [d \in Dev |-> None] /\ sysminor = [d \in Dev |-> None]
        /\ flags = [d \in Dev |-> {}] /\ gd = [d \in Dev |-> "null"]
        /\ nopen = [d \in Dev |-> 0] /\ ref = [d \in Dev |-> 0]
        /\ ident = [d \in Dev |-> FALSE] /\ work = [d \in Dev |-> FALSE]
    BY ZenonT(30) DEF Init
  <2>2. MemType
    BY <2>1 DEF MemType
  <2>3. flags \in [Dev -> SUBSET Flag] /\ gd \in [Dev -> {"null", "installed", "added", "deleted", "readded"}]
    BY <2>1
  <2>4. nopen \in [Dev -> Int] /\ ref \in [Dev -> Int]
    BY <2>1
  <2>5. ident \in [Dev -> BOOLEAN] /\ work \in [Dev -> BOOLEAN]
    BY ZenonT(30), <2>1
  <2> QED
    BY ZenonT(30), <2>2, <2>3, <2>4, <2>5 DEF DevType
<1>2. PcType
  <2>1. Idle \in CtxRec /\ Idle \in WorkerRec /\ Idle \in FlusherRec /\ Idle \in OpenerRec
    BY DEF Idle, CtxRec, WorkerRec, FlusherRec, OpenerRec, FlusherPc, OpenerPc
  <2> QED
    BY ZenonT(30), <2>1 DEF PcType, Init
<1>3. Busy
  <2>1. "idle" \in {"idle", "pass_one", "pass_two"}
    OBVIOUS
  <2> QED
    BY ZenonT(30), <2>1, <1>c, <1>w, <1>p, <1>o DEF Busy
<1>4. KnownInv
  BY ZenonT(30), <1>c, <1>w, <1>p, <1>o DEF KnownInv, Init
<1>5. CountInv
  <2>1. \A d \in Dev : Holders(d) = {} /\ Users(d) = {}
    BY ZenonT(30), <1>c, <1>o, DevAssumption DEF Holders, Users
  <2>2. \A d \in Dev : ref[d] = 0 /\ nopen[d] = 0
    BY ZenonT(30) DEF Init
  <2> QED
    BY ZenonT(30), <2>1, <2>2, FS_EmptySet DEF CountInv
<1>f. \A d \in Dev : flags[d] = {}
  BY ZenonT(30) DEF Init
<1>6. LifeInv
  BY ZenonT(30), <1>f DEF LifeInv, Init
<1>7. GdInv
  <2>1. "idle" \notin Installing /\ "idle" # "alloc" /\ "idle" # "i_size"
    BY DEF Installing
  <2> QED
    BY ZenonT(30), <2>1, <1>f, <1>w DEF GdInv
<1>8. FreeInv
  <2>1. "idle" \notin Freeing
    BY DEF Freeing
  <2> QED
    BY ZenonT(30), <2>1, <1>f, <1>p DEF FreeInv
<1>9. MinorInv /\ AddrInv
  BY ZenonT(30) DEF MinorInv, Keeps, AddrInv, Init
<1>10. OopsInv
  <2>1. oops = None
    BY ZenonT(30) DEF Init
  <2> QED
    BY <2>1, DevAssumption DEF OopsInv
<1> QED
  BY ZenonT(30), <1>1, <1>2, <1>3, <1>4, <1>5, <1>6, <1>7, <1>8, <1>9, <1>10 DEF DevInv, Types

\* DevInv is an invariant of the driver.
LEMMA DevInvariant == Spec => []DevInv
<1>1. Init => DevInv
  BY ZenonT(30), DevInit
<1>2. DevInv /\ [Next]_vars => DevInv'
  <2> SUFFICES ASSUME DevInv, [Next]_vars PROVE DevInv'
    BY ZenonT(30)
  <2>1. Types /\ KnownInv /\ CountInv
    BY ZenonT(30) DEF DevInv
  <2>2. Effect
    BY ZenonT(30), <2>1, Steps
  <2>3. Types' /\ KnownInv' /\ CountInv'
    BY ZenonT(30), <2>1, <2>2, TypesStep, KnownStep, CountStep
  <2>4. LifeInv' /\ GdInv' /\ FreeInv' /\ MinorInv' /\ AddrInv' /\ OopsInv'
    BY ZenonT(30), <2>2, LifeStep, GdStep, FreeStep, MinorStep, AddrStep, OopsStep
  <2> QED
    BY ZenonT(30), <2>3, <2>4 DEF DevInv
<1> QED
  BY <1>1, <1>2, PTL DEF Spec

\* Every variable of the driver keeps its type; in particular d->ref and
\* d->nopen, which are decremented without a test, are never negative.
THEOREM DevTypes == Spec => []TypeOK
<1>1. DevInv => TypeOK
  <2> SUFFICES ASSUME DevInv PROVE TypeOK
    BY ZenonT(30)
  <2>1. MemType /\ DevType /\ PcType /\ Types /\ CountInv
    BY ZenonT(30) DEF DevInv, Types
  <2>2. nopen \in [Dev -> Nat] /\ ref \in [Dev -> Nat]
    <3>1. \A d \in Dev : nopen[d] \in Nat /\ ref[d] \in Nat
      BY ZenonT(30), <2>1, FiniteUsers DEF CountInv
    <3>2. nopen \in [Dev -> Int] /\ ref \in [Dev -> Int]
      BY ZenonT(30), <2>1 DEF DevType
    <3> QED
      BY <3>1, <3>2
  <2>3. \A c \in Ctx : ctx[c] = Idle \/ ctx[c] \in [pc : CtxPc, d : Dev]
    <3> TAKE c \in Ctx
    <3>1. ctx[c] \in CtxRec /\ (ctx[c].pc = "idle" <=> ctx[c].d = None)
      BY ZenonT(30), <2>1 DEF PcType, Types, Busy
    <3> QED
      BY <3>1 DEF CtxRec, Idle
  <2>4. \A w \in Worker : worker[w] = Idle \/ worker[w] \in [pc : WorkerPc, d : Dev]
    <3> TAKE w \in Worker
    <3>1. worker[w] \in WorkerRec /\ (worker[w].pc = "idle" <=> worker[w].d = None)
      BY ZenonT(30), <2>1 DEF PcType, Types, Busy
    <3> QED
      BY <3>1 DEF WorkerRec, Idle
  <2>5. \A p \in Flusher : flusher[p] \in [pc : FlusherPc, d : Dev \cup {None}]
    BY ZenonT(30), <2>1 DEF PcType, FlusherRec
  <2>6. \A o \in Opener : opener[o] = Idle \/ opener[o] \in [pc : {"opening", "open", "cfg"}, d : Dev]
    <3> TAKE o \in Opener
    <3>1. opener[o] \in OpenerRec /\ (opener[o].pc = "idle" <=> opener[o].d = None)
      BY ZenonT(30), <2>1 DEF PcType, Types, Busy
    <3> QED
      BY <3>1 DEF OpenerRec, OpenerPc, Idle
  <2> QED
    BY ZenonT(30), <2>1, <2>2, <2>3, <2>4, <2>5, <2>6 DEF TypeOK, MemType, DevType
<1> QED
  BY <1>1, DevInvariant, PTL

\* As long as nobody flushes a device by its name, a context that has not given
\* its reference back never meets freed memory, and d->ref counts exactly the
\* contexts that have one.
THEOREM ReferenceProtects == Spec => [](Unspecific => RefProtects)
<1>1. DevInv => (Unspecific => RefProtects)
  <2> SUFFICES ASSUME DevInv, Unspecific PROVE RefProtects
    BY ZenonT(30)
  <2>1. oops \notin {"cfg_rsp", "ata_rsp", "revalidate", "ktio", "put"}
    BY ZenonT(30) DEF DevInv, OopsInv
  <2>2. \A d \in devlist : ref[d] = Cardinality(Holders(d))
    BY ZenonT(30) DEF DevInv, CountInv, Types, MemType
  <2> QED
    BY ZenonT(30), <2>1, <2>2 DEF RefProtects, Holders
<1> QED
  BY <1>1, DevInvariant, PTL

\* As long as nobody flushes a device by its name, a device whose disk is open is
\* neither killed nor freed, and d->nopen says so.
THEOREM OpenDeviceStays == Spec => [](Unspecific => OpenProtects)
<1>1. DevInv => (Unspecific => OpenProtects)
  <2> SUFFICES ASSUME DevInv, Unspecific, NEW o \in Opener, opener[o].pc = "open"
               PROVE  /\ opener[o].d \notin gone /\ "TKILL" \notin flags[opener[o].d]
                      /\ nopen[opener[o].d] > 0
    BY ZenonT(30) DEF OpenProtects
  <2> DEFINE d == opener[o].d
  <2>i. Types /\ CountInv /\ LifeInv
    BY ZenonT(30) DEF DevInv
  <2>1. opener[o].pc # "idle"
    OBVIOUS
  <2>2. d \in Dev
    BY ZenonT(30), <2>1, <2>i, OpenerFacts
  <2>3. nopen[d] \in Nat /\ nopen[d] > 0
    BY ZenonT(30), <2>2, <2>i, UserCounts
  <2>4. nopen[d] # 0
    BY <2>3
  <2>5. "TKILL" \notin flags[d]
    BY ZenonT(30), <2>2, <2>4, <2>i DEF LifeInv
  <2>6. d \notin gone
    BY ZenonT(30), <2>2, <2>5, <2>i DEF LifeInv
  <2> QED
    BY ZenonT(30), <2>3, <2>5, <2>6
<1> QED
  BY <1>1, DevInvariant, PTL

\* What aoeblk_gdalloc warns about never happens, with any number of workers and
\* flushes: between its sections nobody kills, installs or brings up the device.
THEOREM GdallocNeverWarns == Spec => []GdallocAsserts
<1>1. DevInv => GdallocAsserts
  <2> SUFFICES ASSUME DevInv, NEW w \in Worker
               PROVE  /\ worker[w].pc = "alloc" =>
                           /\ {"GD_NOW", "GDALLOC"} \subseteq flags[worker[w].d]
                           /\ flags[worker[w].d] \cap {"TKILL", "UP"} = {}
                           /\ gd[worker[w].d] = "null"
                      /\ worker[w].pc \in {"add_disk", "added"} => "GD_NOW" \in flags[worker[w].d]
    BY ZenonT(30) DEF GdallocAsserts
  <2> DEFINE d == worker[w].d
  <2>i. Types /\ GdInv /\ LifeInv
    BY ZenonT(30) DEF DevInv
  <2>1. worker[w].pc \in {"alloc", "add_disk", "added"} => "GD_NOW" \in flags[d]
    BY ZenonT(30), <2>i DEF GdInv, Installing
  <2>2. ASSUME worker[w].pc = "alloc"
        PROVE  /\ "GDALLOC" \in flags[d] /\ "TKILL" \notin flags[d] /\ "UP" \notin flags[d]
               /\ gd[d] = "null"
    <3>1. worker[w].pc # "idle"
      BY <2>2
    <3>2. d \in Dev
      BY ZenonT(30), <3>1, <2>i, WorkerFacts
    <3>3. "GDALLOC" \in flags[d]
      BY ZenonT(30), <2>2, <2>i DEF GdInv
    <3> HIDE DEF d
    <3>4. gd[d] = "null" /\ "UP" \notin flags[d]
      BY ZenonT(30), <3>2, <3>3, <2>i DEF GdInv
    <3>5. "TKILL" \notin flags[d]
      BY ZenonT(30), <3>2, <3>3, <2>i DEF LifeInv
    <3> QED
      BY ZenonT(30), <3>3, <3>4, <3>5
  <2> HIDE DEF d
  <2>3. worker[w].pc = "alloc" =>
          /\ {"GD_NOW", "GDALLOC"} \subseteq flags[d]
          /\ flags[d] \cap {"TKILL", "UP"} = {}
    BY <2>1, <2>2
  <2>4. worker[w].pc \in {"add_disk", "added"} => "GD_NOW" \in flags[d]
    BY <2>1
  <2> QED
    BY ZenonT(30), <2>2, <2>3, <2>4 DEF d
<1> QED
  BY <1>1, DevInvariant, PTL

----------------------------------------------------------------------------
(* Disks that are registered again.                                        *)

\* A disk that was deleted belongs to a device that is being freed; who is about
\* to call add_disk finds the disk as it was installed or deleted; and what a user
\* has is a disk that was added once, for which nobody calls add_disk any more.
AgainInv ==
    /\ \A d \in Dev : gd[d] \in {"deleted", "readded"} => "FREEING" \in flags[d]
    /\ \A w \in Worker, d \in Dev :
         worker[w] = At("add_disk", d) => gd[d] \in {"installed", "deleted"}
    /\ \A o \in Opener, d \in Dev : opener[o].d = d =>
         /\ gd[d] \in {"added", "deleted"}
         /\ \A w \in Worker : worker[w] # At("add_disk", d)

\* A worker gets to add_disk only from the section that installs the disk.
LEMMA AddDiskFrom ==
    ASSUME Types, Effect, NEW v \in Worker, NEW e \in Dev, worker'[v] = At("add_disk", e)
    PROVE  worker[v] = At("add_disk", e) \/ InstallsGd(v, e)
<1>t. worker \in [Worker -> WorkerRec]
  BY ZenonT(30) DEF Types, PcType
<1> DEFINE Good == worker[v] = At("add_disk", e) \/ InstallsGd(v, e)
<1>1. ASSUME worker' = worker PROVE Good
  BY ZenonT(30), <1>1
<1>2. ASSUME NEW w \in Worker, NEW x, worker' = [worker EXCEPT ![w] = x], x.pc # "add_disk" PROVE Good
  <2>1. CASE w = v
    <3>1. x = At("add_disk", e)
      BY ZenonT(30), <1>2, <2>1, <1>t
    <3> QED
      BY <3>1, <1>2 DEF At
  <2>2. CASE w # v
    BY ZenonT(30), <1>2, <2>2, <1>t
  <2> QED
    BY ZenonT(30), <2>1, <2>2
<1>3. ASSUME NEW w \in Worker, NEW d \in Dev, InstallsGd(w, d) PROVE Good
  <2>1. worker' = [worker EXCEPT ![w] = At("add_disk", d)]
    BY ZenonT(30), <1>3 DEF InstallsGd
  <2>2. CASE w = v
    <3>1. At("add_disk", d) = At("add_disk", e)
      BY ZenonT(30), <2>1, <2>2, <1>t
    <3>2. d = e
      BY <3>1 DEF At
    <3> QED
      BY ZenonT(30), <3>2, <2>2, <1>3
  <2>3. CASE w # v
    BY ZenonT(30), <2>1, <2>3, <1>t
  <2> QED
    BY ZenonT(30), <2>2, <2>3
<1> HIDE DEF Good
<1>4. ASSUME NEW w \in Worker, NEW d \in Dev, NEW pc \in WorkerPc, WorkStarts(w, d, pc) PROVE Good
  <2>1. worker' = [worker EXCEPT ![w] = At(pc, d)] /\ pc \in {"gdalloc", "newsize"}
    BY ZenonT(30), <1>4 DEF WorkStarts
  <2>2. At(pc, d).pc # "add_disk"
    BY <2>1 DEF At
  <2> QED
    BY ZenonT(30), <2>1, <2>2, <1>2
<1>5. ASSUME NEW w \in Worker, NEW d \in Dev,
             \/ TakesGd(w, d) \/ FailsGd(w, d) \/ AddsDisk(w, d) \/ DoneGd(w, d) \/ DoneSize(w, d)
             \/ \E x \in WorkerRec : WorkerGoes(w, d, x)
      PROVE  Good
  <2>1. PICK x \in {Idle, At("alloc", d), At("newsize", d), At("added", d), At("i_size", d)} :
          worker' = [worker EXCEPT ![w] = x]
    BY ZenonT(30), <1>5 DEF TakesGd, FailsGd, AddsDisk, DoneGd, DoneSize, WorkerGoes
  <2>2. x.pc # "add_disk"
    BY <2>1 DEF At, Idle
  <2> QED
    BY ZenonT(30), <2>1, <2>2, <1>2
<1>6. (Quiet \/ CtxEffect \/ OpenerEffect \/ FlusherEffect) => worker' = worker
  BY ZenonT(60) DEF Quiet, CtxEffect, OpenerEffect, FlusherEffect,
     GetRef, NewDev, LeakMinor, CtxGoes, Identified, PutBack, Leaves, TimerDowns,
     OpenerGoes, Opens, Releases, FlusherGoes, Dooms, StartsFree, FreesDisk, FreesMinor, DoneFree,
     Removes, pcVars
<1>7. Good
  BY ZenonT(30), <1>1, <1>3, <1>4, <1>5, <1>6 DEF Effect, WorkerEffect
<1> QED
  BY ZenonT(30), <1>7 DEF Good

\* A user gets a device only by opening a disk of one that is not killed.
LEMMA OpenerFrom ==
    ASSUME Types, Effect, NEW o \in Opener, NEW e \in Dev, opener'[o].d = e
    PROVE  \/ opener[o].d = e
           \/ /\ gd[e] \in {"added", "readded"} /\ "TKILL" \notin flags[e]
              /\ gd' = gd /\ worker' = worker
<1>t. opener \in [Opener -> OpenerRec]
  BY ZenonT(30) DEF Types, PcType
<1>n. Idle.d # e
  BY DevAssumption DEF Idle
<1> DEFINE New == /\ gd[e] \in {"added", "readded"} /\ "TKILL" \notin flags[e]
                  /\ gd' = gd /\ worker' = worker
           Good == opener[o].d = e \/ New
<1>1. ASSUME opener' = opener PROVE Good
  BY ZenonT(30), <1>1
<1>2. ASSUME NEW q \in Opener, NEW x, opener' = [opener EXCEPT ![q] = x],
             x.d = e => opener[q].d = e \/ New
      PROVE  Good
  <2>1. CASE q = o
    <3>1. opener'[o] = x
      BY ZenonT(30), <1>2, <2>1, <1>t
    <3> QED
      BY ZenonT(30), <3>1, <1>2, <2>1
  <2>2. CASE q # o
    <3>1. opener'[o] = opener[o]
      BY ZenonT(30), <1>2, <2>2, <1>t
    <3> QED
      BY ZenonT(30), <3>1
  <2> QED
    BY ZenonT(30), <2>1, <2>2
<1>3. ASSUME NEW q \in Opener, NEW x \in OpenerRec, OpenerGoes(q, x) PROVE Good
  <2>1. /\ opener' = [opener EXCEPT ![q] = x] /\ gd' = gd /\ worker' = worker
        /\ \/ x = Idle
           \/ \E d \in Dev :
                /\ gd[d] \in {"added", "readded"} /\ "TKILL" \notin flags[d]
                /\ x = At("opening", d)
    BY ZenonT(30), <1>3 DEF OpenerGoes, devVars
  <2>2. \A d : At("opening", d).d = d
    BY ZenonT(30), AtFacts
  <2>3. x.d = e => New
    BY ZenonT(30), <2>1, <2>2, <1>n
  <2> HIDE DEF New
  <2> QED
    BY ZenonT(30), <2>1, <2>3, <1>2
<1>4. ASSUME NEW q \in Opener, NEW d \in Dev, Opens(q, d) \/ \E x \in OpenerRec : Releases(q, d, x)
      PROVE  Good
  <2>1. PICK x \in {Idle, At("open", d), At("cfg", d)} :
          /\ opener' = [opener EXCEPT ![q] = x]
          /\ opener[q] = At("opening", d) \/ opener[q] = At("open", d)
    BY ZenonT(30), <1>4 DEF Opens, Releases
  <2>2. opener[q].d = d /\ (x = Idle \/ x.d = d)
    BY <2>1 DEF At
  <2>3. x.d = e => opener[q].d = e
    BY ZenonT(30), <2>2, <1>n
  <2> HIDE DEF New
  <2> QED
    BY ZenonT(30), <2>1, <2>3, <1>2
<1> HIDE DEF Good
<1>5. (Quiet \/ CtxEffect \/ WorkerEffect \/ FlusherEffect) => opener' = opener
  BY ZenonT(60) DEF Quiet, CtxEffect, WorkerEffect, FlusherEffect,
     GetRef, NewDev, LeakMinor, CtxGoes, Identified, PutBack, Leaves, TimerDowns,
     WorkStarts, TakesGd, WorkerGoes, FailsGd, InstallsGd, AddsDisk, DoneGd, DoneSize,
     FlusherGoes, Dooms, StartsFree, FreesDisk, FreesMinor, DoneFree, Removes, pcVars
<1>6. Good
  BY ZenonT(30), <1>1, <1>3, <1>4, <1>5 DEF Effect, OpenerEffect
<1> QED
  BY ZenonT(30), <1>6 DEF Good, New

\* What changes the disk of a device, and how.
LEMMA DiskFrom ==
    ASSUME Types, Effect, NEW e \in Dev, gd'[e] # gd[e]
    PROVE  \/ \E w \in Worker : InstallsGd(w, e) /\ gd'[e] = "installed"
           \/ \E w \in Worker : AddsDisk(w, e)
           \/ gd[e] # "null" /\ gd'[e] = "deleted"
<1>t. gd \in [Dev -> {"null", "installed", "added", "deleted", "readded"}]
  BY ZenonT(30) DEF Types, DevType
<1> DEFINE Good == \/ \E w \in Worker : InstallsGd(w, e) /\ gd'[e] = "installed"
                   \/ \E w \in Worker : AddsDisk(w, e)
                   \/ gd[e] # "null" /\ gd'[e] = "deleted"
<1>1. ASSUME NEW d \in Dev, NEW x, gd' = [gd EXCEPT ![d] = x] PROVE d = e /\ gd'[e] = x
  BY ZenonT(30), <1>1, <1>t
<1>2. ASSUME NEW w \in Worker, NEW d \in Dev, InstallsGd(w, d) PROVE Good
  <2>1. gd' = [gd EXCEPT ![d] = "installed"]
    BY ZenonT(30), <1>2 DEF InstallsGd
  <2> QED
    BY ZenonT(30), <2>1, <1>1, <1>2
<1>3. ASSUME NEW w \in Worker, NEW d \in Dev, AddsDisk(w, d) PROVE Good
  <2>1. gd' = [gd EXCEPT ![d] = "added"] \/ gd' = [gd EXCEPT ![d] = "readded"]
    BY ZenonT(30), <1>3 DEF AddsDisk
  <2> QED
    BY ZenonT(30), <2>1, <1>1, <1>3
<1>4. ASSUME NEW p \in Flusher, NEW d \in Dev, FreesDisk(p, d) PROVE Good
  <2>1. gd' = [gd EXCEPT ![d] = IF @ = "null" THEN @ ELSE "deleted"]
    BY ZenonT(30), <1>4 DEF FreesDisk
  <2> QED
    BY <2>1, <1>t
<1> HIDE DEF Good
<1>5. Good
  BY ZenonT(60), <1>2, <1>3, <1>4, FlagFrame
     DEF Identified, TimerDowns, TakesGd, FailsGd, DoneGd, DoneSize, Dooms, StartsFree, DoneFree
<1> QED
  BY ZenonT(30), <1>5 DEF Good

\* AgainInv is kept by every step.
LEMMA AgainStep ==
    ASSUME DevInv, AgainInv, Effect
    PROVE  AgainInv'
<1>i. Types /\ GdInv /\ LifeInv
  BY ZenonT(30) DEF DevInv
<1>f. ASSUME NEW d \in Dev, gd[d] \in {"deleted", "readded"} PROVE "FREEING" \in flags[d]
  BY ZenonT(30), <1>f DEF AgainInv
<1>a. ASSUME NEW w \in Worker, NEW d \in Dev, worker[w] = At("add_disk", d)
      PROVE  gd[d] \in {"installed", "deleted"}
  BY ZenonT(30), <1>a DEF AgainInv
<1>b. ASSUME NEW o \in Opener, NEW d \in Dev, opener[o].d = d
      PROVE  gd[d] \in {"added", "deleted"} /\ \A w \in Worker : worker[w] # At("add_disk", d)
  BY ZenonT(30), <1>b DEF AgainInv
<1>n. ASSUME NEW w \in Worker, NEW d \in Dev, InstallsGd(w, d) PROVE gd[d] = "null" /\ gd'[d] = "installed"
  <2>0. worker[w] = At("alloc", d)
    BY ZenonT(30), <1>n DEF InstallsGd
  <2>1. worker[w].pc = "alloc" /\ worker[w].d = d
    BY <2>0 DEF At
  <2>2. gd' = [gd EXCEPT ![d] = "installed"]
    BY ZenonT(30), <1>n DEF InstallsGd
  <2> QED
    BY ZenonT(30), <2>1, <2>2, <1>i DEF GdInv, Types, DevType
<1>1. ASSUME NEW d \in Dev, gd'[d] \in {"deleted", "readded"} PROVE "FREEING" \in flags'[d]
  <2>1. DevMove(d)
    BY ZenonT(30), DevMoves
  <2>2. gd[d] = "deleted" \/ gd[d] = "readded" => "FREEING" \in flags[d]
    BY <1>f
  <2> QED
    BY <1>1, <2>1, <2>2 DEF DevMove, To
<1>2. ASSUME NEW w \in Worker, NEW d \in Dev, worker'[w] = At("add_disk", d)
      PROVE  gd'[d] \in {"installed", "deleted"}
  <2>1. CASE InstallsGd(w, d)
    BY ZenonT(30), <2>1, <1>n
  <2>2. CASE worker[w] = At("add_disk", d)
    <3>1. CASE gd'[d] = gd[d]
      BY ZenonT(30), <3>1, <2>2, <1>a
    <3>2. ASSUME NEW v \in Worker, AddsDisk(v, d) PROVE FALSE
      <4>1. worker[v] = At("add_disk", d) /\ worker' = [worker EXCEPT ![v] = At("added", d)]
        BY ZenonT(30), <3>2 DEF AddsDisk
      <4>2. At("add_disk", d).pc \in Installing /\ At("add_disk", d).d = d
        BY DEF At, Installing
      <4>3. v = w
        BY ZenonT(30), <4>1, <4>2, <2>2, <1>i DEF GdInv
      <4>4. worker'[w] = At("added", d)
        BY ZenonT(30), <4>1, <4>3, <1>i DEF Types, PcType
      <4> QED
        BY <4>4, <1>2 DEF At
    <3> QED
      BY ZenonT(30), <3>1, <3>2, <1>i, DiskFrom
  <2> QED
    BY ZenonT(30), <2>1, <2>2, <1>2, <1>i, AddDiskFrom
<1>3. ASSUME NEW o \in Opener, NEW d \in Dev, opener'[o].d = d
      PROVE  gd'[d] \in {"added", "deleted"} /\ \A w \in Worker : worker'[w] # At("add_disk", d)
  <2>1. CASE opener[o].d = d
    <3>1. gd[d] \in {"added", "deleted"} /\ \A w \in Worker : worker[w] # At("add_disk", d)
      BY ZenonT(30), <2>1, <1>b
    <3>2. ASSUME NEW w \in Worker, InstallsGd(w, d) PROVE FALSE
      BY <3>2, <3>1, <1>n
    <3>3. ASSUME NEW w \in Worker, AddsDisk(w, d) PROVE FALSE
      BY ZenonT(30), <3>3, <3>1 DEF AddsDisk
    <3>4. gd'[d] \in {"added", "deleted"}
      BY ZenonT(30), <3>1, <3>2, <3>3, <1>i, DiskFrom
    <3> QED
      BY ZenonT(30), <3>1, <3>2, <3>4, <1>i, AddDiskFrom
  <2>2. CASE /\ gd[d] \in {"added", "readded"} /\ "TKILL" \notin flags[d]
             /\ gd' = gd /\ worker' = worker
    <3>1. gd[d] # "readded"
      BY ZenonT(30), <2>2, <1>f, <1>i DEF LifeInv
    <3>2. gd[d] = "added"
      BY <2>2, <3>1
    <3>3. gd[d] \notin {"installed", "deleted"}
      BY <3>2
    <3> QED
      BY ZenonT(30), <2>2, <3>2, <3>3, <1>a
  <2> QED
    BY ZenonT(30), <2>1, <2>2, <1>3, <1>i, OpenerFrom
<1> QED
  BY ZenonT(30), <1>1, <1>2, <1>3 DEF AgainInv

\* AgainInv is an invariant of the driver.
LEMMA AgainInvariant == Spec => []AgainInv
<1>1. Init => AgainInv
  <2> SUFFICES ASSUME Init PROVE AgainInv
    BY ZenonT(30)
  <2>1. "null" \notin {"deleted", "readded"}
    OBVIOUS
  <2>2. \A d \in Dev : Idle # At("add_disk", d) /\ Idle.d # d
    BY DevAssumption DEF Idle, At
  <2> QED
    BY ZenonT(30), <2>1, <2>2 DEF Init, AgainInv
<1>2. DevInv /\ AgainInv /\ [Next]_vars => AgainInv'
  <2> SUFFICES ASSUME DevInv, AgainInv, [Next]_vars PROVE AgainInv'
    BY ZenonT(30)
  <2>1. Effect
    BY ZenonT(30), Steps DEF DevInv
  <2> QED
    BY ZenonT(30), <2>1, AgainStep
<1> QED
  BY <1>1, <1>2, DevInvariant, PTL DEF Spec

\* Two disks that exist at the same time have different minors and different
\* names, whatever was flushed and discovered again before, unless one of them was
\* deleted by freedev before aoeblk_gdalloc called add_disk for it; and such a
\* disk is never open, nor can it be opened.
THEOREM DisksDiffer == Spec => []DisksDistinct
<1>1. DevInv /\ AgainInv => DisksDistinct
  <2> SUFFICES ASSUME DevInv, AgainInv PROVE DisksDistinct
    BY ZenonT(30)
  <2>i. KnownInv /\ LifeInv /\ FreeInv /\ MinorInv /\ AddrInv
    BY ZenonT(30) DEF DevInv
  <2>1. ASSUME NEW d \in Dev, gd[d] \in {"installed", "added"} PROVE Keeps(d) /\ d \in devlist
    <3>1. gd[d] # "null"
      BY <2>1
    <3>2. d \in Known
      BY ZenonT(30), <3>1, <2>i DEF KnownInv
    <3>3. "FREED" \notin flags[d]
      BY ZenonT(30), <2>1, <2>i DEF FreeInv, NoDisk
    <3>4. d \in devlist
      BY ZenonT(30), <3>2, <3>3, <2>i DEF Known, LifeInv
    <3>5. ASSUME NEW p \in Flusher, flusher[p].d = d, flusher[p].pc = "freed" PROVE FALSE
      <4>1. flusher[p].pc \in Freeing /\ flusher[p].pc # "freeing"
        BY <3>5 DEF Freeing
      <4> QED
        BY ZenonT(30), <4>1, <3>5, <2>1, <2>i DEF FreeInv, NoDisk
    <3> QED
      BY ZenonT(30), <3>3, <3>4, <3>5 DEF Keeps
  <2>2. ASSUME NEW d \in Dev, NEW e \in Dev, d # e,
               {gd[d], gd[e]} \subseteq {"installed", "added", "readded"}, "readded" \notin {gd[d], gd[e]}
        PROVE  sysminor[d] # sysminor[e] /\ addr[d] # addr[e]
    <3>1. gd[d] \in {"installed", "added"} /\ gd[e] \in {"installed", "added"}
      BY <2>2
    <3> QED
      BY ZenonT(30), <3>1, <2>1, <2>2, <2>i DEF MinorInv, AddrInv
  <2>3. ASSUME NEW d \in Dev, gd[d] = "readded"
        PROVE  {"TKILL", "FREEING"} \subseteq flags[d] /\ \A o \in Opener : opener[o].d # d
    <3>1. gd[d] \in {"deleted", "readded"} /\ gd[d] \notin {"added", "deleted"}
      BY <2>3
    <3>2. "FREEING" \in flags[d] /\ "TKILL" \in flags[d]
      BY ZenonT(30), <3>1, <2>i DEF AgainInv, LifeInv
    <3>3. \A o \in Opener : opener[o].d # d
      BY ZenonT(30), <3>1 DEF AgainInv
    <3> QED
      BY <3>2, <3>3
  <2> QED
    BY ZenonT(30), <2>2, <2>3 DEF DisksDistinct
<1> QED
  BY <1>1, DevInvariant, AgainInvariant, PTL

----------------------------------------------------------------------------
(* Who may still hold a device that is gone.                               *)

\* There is one thread for d->work and nobody else flushes.
Alone ==
    /\ \A v, w \in Worker : v = w
    /\ \A p, q \in Flusher : p = q

\* What a worker at x finds in the flags f that it has yet to serve.
Serves(x, f) ==
    /\ x.pc = "gdalloc" => "GDALLOC" \in f
    /\ x.pc = "i_size" => "NEWSIZE" \in f

\* The flags that a worker is going to serve are still there, they keep the
\* device from being killed, and the flush has a device of devlist.
LateInv ==
    /\ \A d \in Dev : "TKILL" \in flags[d] => "NEWSIZE" \notin flags[d]
    /\ \A w \in Worker : worker[w].pc # "idle" => Serves(worker[w], flags[worker[w].d])
    /\ \A p \in Flusher : flusher[p].d \notin gone

\* A worker that goes to x, where its flags are as they should be.
LEMMA ServesMove ==
    ASSUME Alone, worker \in [Worker -> WorkerRec], NEW w \in Worker, NEW x, NEW d,
           worker' = [worker EXCEPT ![w] = x], x.pc = "idle" \/ x.d = d, Serves(x, flags'[d])
    PROVE  \A v \in Worker : worker'[v].pc # "idle" => Serves(worker'[v], flags'[worker'[v].d])
<1> TAKE v \in Worker
<1>1. v = w
  BY ZenonT(30) DEF Alone
<1>2. worker'[v] = x
  BY ZenonT(30), <1>1
<1> QED
  BY ZenonT(30), <1>2

\* The worker's flags stay until it has served them.
LEMMA ServesStep ==
    ASSUME DevInv, Alone, LateInv, Effect
    PROVE  \A v \in Worker : worker'[v].pc # "idle" => Serves(worker'[v], flags'[worker'[v].d])
<1> DEFINE Good == \A v \in Worker : worker'[v].pc # "idle" => Serves(worker'[v], flags'[worker'[v].d])
<1>i. Types
  BY ZenonT(30) DEF DevInv
<1>t. worker \in [Worker -> WorkerRec]
  BY ZenonT(30), <1>i DEF Types, PcType
<1>1. ASSUME worker' = worker PROVE Good
  <2> SUFFICES ASSUME NEW v \in Worker, worker[v].pc # "idle"
               PROVE  Serves(worker[v], flags'[worker[v].d])
    BY ZenonT(30), <1>1
  <2>1. worker[v].d \in Dev
    BY ZenonT(30), <1>i, WorkerFacts
  <2>2. \A g \in {"GD_NOW", "GDALLOC", "NEWSIZE"} :
          g \in flags[worker[v].d] => g \in flags'[worker[v].d]
    BY ZenonT(30), <2>1, <1>1, <1>i, GdNowStays
  <2>3. Serves(worker[v], flags[worker[v].d])
    BY ZenonT(30) DEF LateInv
  <2> QED
    BY ZenonT(30), <2>2, <2>3 DEF Serves
<1>2. ASSUME NEW w \in Worker, NEW x, NEW d, worker' = [worker EXCEPT ![w] = x],
             x.pc = "idle" \/ x.d = d, Serves(x, flags'[d])
      PROVE  Good
  BY ZenonT(30), <1>2, <1>t, ServesMove
<1> HIDE DEF Good
<1>3. ASSUME NEW w \in Worker, NEW d \in Dev, NEW pc \in WorkerPc, WorkStarts(w, d, pc) PROVE Good
  <2>1. /\ worker' = [worker EXCEPT ![w] = At(pc, d)] /\ flags' = flags
        /\ pc \in {"gdalloc", "newsize"} /\ (pc = "gdalloc" => "GDALLOC" \in flags[d])
    BY ZenonT(30), <1>3 DEF WorkStarts
  <2>2. At(pc, d).pc = pc /\ At(pc, d).d = d
    BY ZenonT(30), AtFacts
  <2>3. Serves(At(pc, d), flags'[d])
    BY <2>1, <2>2 DEF Serves
  <2> QED
    BY ZenonT(30), <2>1, <2>2, <2>3, <1>2
<1>4. ASSUME NEW w \in Worker, NEW d \in Dev, NEW x \in WorkerRec, WorkerGoes(w, d, x) PROVE Good
  <2>1. /\ worker' = [worker EXCEPT ![w] = x] /\ flags' = flags
        /\ x \in {Idle, At("newsize", d)} \/ (x = At("i_size", d) /\ "NEWSIZE" \in flags[d])
    BY ZenonT(30), <1>4 DEF WorkerGoes, devVars
  <2>2. x.pc = "idle" \/ x.d = d
    BY <2>1 DEF At, Idle
  <2>3. Serves(x, flags'[d])
    BY <2>1 DEF At, Idle, Serves
  <2> QED
    BY ZenonT(30), <2>1, <2>2, <2>3, <1>2
<1>5. ASSUME NEW w \in Worker, NEW d \in Dev,
             \/ TakesGd(w, d) \/ FailsGd(w, d) \/ InstallsGd(w, d) \/ AddsDisk(w, d)
             \/ DoneGd(w, d) \/ DoneSize(w, d)
      PROVE  Good
  <2>1. PICK x \in {Idle, At("alloc", d), At("newsize", d), At("add_disk", d), At("added", d)} :
          worker' = [worker EXCEPT ![w] = x]
    BY ZenonT(30), <1>5 DEF TakesGd, FailsGd, InstallsGd, AddsDisk, DoneGd, DoneSize
  <2>2. x.pc = "idle" \/ x.d = d
    BY <2>1 DEF At, Idle
  <2>3. x.pc # "gdalloc" /\ x.pc # "i_size"
    BY <2>1 DEF At, Idle
  <2>4. Serves(x, flags'[d])
    BY ZenonT(30), <2>3 DEF Serves
  <2> QED
    BY ZenonT(30), <2>1, <2>2, <2>4, <1>2
<1>6. (Quiet \/ CtxEffect \/ OpenerEffect \/ FlusherEffect) => worker' = worker
  BY ZenonT(60) DEF Quiet, CtxEffect, OpenerEffect, FlusherEffect,
     GetRef, NewDev, LeakMinor, CtxGoes, Identified, PutBack, Leaves, TimerDowns,
     OpenerGoes, Opens, Releases, FlusherGoes, Dooms, StartsFree, FreesDisk, FreesMinor, DoneFree,
     Removes, pcVars
<1>7. Good
  BY ZenonT(30), <1>1, <1>3, <1>4, <1>5, <1>6 DEF Effect, WorkerEffect
<1> QED
  BY ZenonT(30), <1>7 DEF Good

\* The flush that runs alone keeps its device on devlist until it forgets it.
LEMMA FlusherStays ==
    ASSUME DevInv, Types', Alone, LateInv, Effect, NEW p \in Flusher
    PROVE  flusher'[p].d \notin gone'
<1>i. Types
  BY ZenonT(30) DEF DevInv
<1>t. flusher \in [Flusher -> FlusherRec] /\ gone \subseteq Dev \ devlist /\ devlist \subseteq Dev
  BY ZenonT(30), <1>i DEF Types, PcType, MemType
<1>n. None \notin gone' /\ None \notin gone
  BY ZenonT(30), <1>t, DevAssumption DEF Types, MemType
<1>o. \A q \in Flusher : q = p
  BY ZenonT(30) DEF Alone
<1>d. flusher[p].d \notin gone
  BY ZenonT(30) DEF LateInv
<1>x. ASSUME NEW q \in Flusher, NEW x, flusher' = [flusher EXCEPT ![q] = x], x.d \notin gone'
      PROVE  flusher'[p].d \notin gone'
  <2>1. flusher'[p] = x
    BY ZenonT(30), <1>x, <1>t, <1>o
  <2> QED
    BY ZenonT(30), <2>1, <1>x
<1>1. ASSUME NEW q \in Flusher, Removes(q) PROVE flusher'[p].d \notin gone'
  <2>1. flusher' = [flusher EXCEPT ![q] = Idle]
    BY ZenonT(30), <1>1 DEF Removes
  <2>2. Idle.d = None
    BY DEF Idle
  <2> QED
    BY ZenonT(30), <2>1, <2>2, <1>n, <1>x
<1>2. ASSUME \A q \in Flusher : ~Removes(q) PROVE gone' = gone
  BY ZenonT(30), <1>2, MemFrame DEF memVars, NewDev, LeakMinor, FreesMinor
<1>3. ASSUME gone' = gone, NEW q \in Flusher, NEW x \in FlusherRec, FlusherGoes(q, x)
      PROVE  flusher'[p].d \notin gone'
  <2>1. /\ flusher' = [flusher EXCEPT ![q] = x]
        /\ x = At("pass_one", None) \/ x = At("pass_two", None) \/ \E d \in devlist : x = At("freedev", d)
    BY ZenonT(30), <1>3 DEF FlusherGoes
  <2>2. x.d = None \/ x.d \in devlist
    BY <2>1 DEF At
  <2>3. x.d \notin gone'
    BY ZenonT(30), <2>2, <1>3, <1>n, <1>t
  <2> QED
    BY ZenonT(30), <2>1, <2>3, <1>x
<1>4. ASSUME gone' = gone, NEW q \in Flusher, NEW d \in Dev,
             StartsFree(q, d) \/ FreesDisk(q, d) \/ FreesMinor(q, d)
      PROVE  flusher'[p].d \notin gone'
  <2>1. PICK pc, qc : flusher[q] = At(pc, d) /\ flusher' = [flusher EXCEPT ![q] = At(qc, d)]
    BY ZenonT(30), <1>4 DEF StartsFree, FreesDisk, FreesMinor
  <2>2. flusher[q].d = d /\ At(qc, d).d = d
    BY ZenonT(30), <2>1, AtFacts
  <2>3. d \notin gone'
    BY ZenonT(30), <2>2, <1>4, <1>o, <1>d
  <2> QED
    BY ZenonT(30), <2>1, <2>2, <2>3, <1>x
<1>5. ASSUME NEW q \in Flusher, NEW x, flusher' = [flusher EXCEPT ![q] = At(x, None)]
      PROVE  flusher'[p].d \notin gone'
  <2>1. At(x, None).d = None
    BY ZenonT(30), AtFacts
  <2>2. At(x, None).d \notin gone'
    BY ZenonT(30), <2>1, <1>n
  <2> QED
    BY ZenonT(30), <2>2, <1>5, <1>x
<1>6. (Quiet \/ CtxEffect \/ OpenerEffect \/ WorkerEffect) => flusher' = flusher
  BY ZenonT(60) DEF Quiet, CtxEffect, OpenerEffect, WorkerEffect,
     GetRef, NewDev, LeakMinor, CtxGoes, Identified, PutBack, Leaves, TimerDowns,
     OpenerGoes, Opens, Releases, WorkStarts, TakesGd, WorkerGoes, FailsGd, InstallsGd, AddsDisk,
     DoneGd, DoneSize, pcVars
<1>7. ASSUME NEW q \in Flusher, NEW D \in SUBSET Dev, Dooms(q, D) PROVE flusher'[p].d \notin gone'
  BY ZenonT(30), <1>7, <1>5 DEF Dooms
<1>8. ASSUME NEW q \in Flusher, NEW d \in Dev, DoneFree(q, d) PROVE flusher'[p].d \notin gone'
  BY ZenonT(30), <1>8, <1>5 DEF DoneFree
<1>9. ASSUME flusher' = flusher, gone' = gone PROVE flusher'[p].d \notin gone'
  BY ZenonT(30), <1>9, <1>d
<1> QED
  BY ZenonT(30), <1>1, <1>2, <1>3, <1>4, <1>6, <1>7, <1>8, <1>9 DEF Effect, FlusherEffect

\* LateInv is kept by every step, unless a device is flushed by its name.
LEMMA LateStep ==
    ASSUME DevInv, Types', Unspecific, Alone, LateInv, Effect
    PROVE  LateInv'
<1>1. ASSUME NEW d \in Dev, "TKILL" \in flags'[d] PROVE "NEWSIZE" \notin flags'[d]
  <2>1. DevMove(d)
    BY ZenonT(30), DevMoves
  <2>2. "TKILL" \in flags[d] => "NEWSIZE" \notin flags[d]
    BY ZenonT(30) DEF LateInv
  <2> QED
    BY <1>1, <2>1, <2>2 DEF DevMove, To
<1>2. \A v \in Worker : worker'[v].pc # "idle" => Serves(worker'[v], flags'[worker'[v].d])
  BY ZenonT(30), ServesStep
<1>3. \A p \in Flusher : flusher'[p].d \notin gone'
  BY ZenonT(30), FlusherStays
<1> QED
  BY ZenonT(30), <1>1, <1>2, <1>3 DEF LateInv

\* It holds of every behaviour of the driver with one worker and one flush.
LateIf == Unspecific /\ Alone => LateInv

LEMMA LateInvariant == Spec => []LateIf
<1>1. Init => LateIf
  <2> SUFFICES ASSUME Init PROVE LateInv
    BY ZenonT(30) DEF LateIf
  <2>1. /\ \A d \in Dev : flags[d] = {}
        /\ \A w \in Worker : worker[w] = Idle
        /\ gone = {}
    BY ZenonT(30) DEF Init
  <2>2. Idle.pc = "idle"
    BY DEF Idle
  <2> QED
    BY ZenonT(30), <2>1, <2>2 DEF LateInv
<1>2. DevInv /\ DevInv' /\ LateIf /\ [Next]_vars => LateIf'
  <2> SUFFICES ASSUME DevInv, DevInv', LateIf, [Next]_vars, Unspecific, Alone PROVE LateInv'
    BY ZenonT(30) DEF LateIf, Unspecific, Alone
  <2>1. LateInv
    BY ZenonT(30) DEF LateIf
  <2>2. Types /\ KnownInv /\ CountInv /\ Types'
    BY ZenonT(30) DEF DevInv
  <2>3. Effect
    BY ZenonT(30), <2>2, Steps
  <2> QED
    BY ZenonT(30), <2>1, <2>2, <2>3, LateStep
<1> QED
  BY <1>1, <1>2, DevInvariant, PTL DEF Spec

\* As long as nobody flushes a device by its name, and there is one thread for
\* d->work and one flush at a time, whoever still holds a device that was freed is
\* past the point that keeps it: ktio after its put, a worker after it has
\* installed the disk, an open between its two tests, a release after it has
\* closed the disk; and a work that is left finds no flag to serve.
THEOREM OnlyLateUsers == Spec => [](Unspecific /\ Alone => OnlyLateUses)
<1>1. DevInv /\ LateIf => (Unspecific /\ Alone => OnlyLateUses)
  <2> SUFFICES ASSUME DevInv, LateIf, Unspecific, Alone PROVE OnlyLateUses
    BY ZenonT(30)
  <2>i. Types /\ CountInv /\ LifeInv /\ LateInv
    BY ZenonT(30) DEF DevInv, LateIf
  <2>g. ASSUME NEW d \in gone
        PROVE  /\ d \in Dev /\ d # None
               /\ "GDALLOC" \notin flags[d] /\ "NEWSIZE" \notin flags[d]
               /\ ref[d] = 0 /\ nopen[d] = 0
    <3>1. d \in Dev
      BY ZenonT(30), <2>i DEF Types, MemType
    <3>2. "TKILL" \in flags[d]
      BY ZenonT(30), <3>1, <2>i DEF LifeInv
    <3>3. "NEWSIZE" \notin flags[d]
      BY ZenonT(30), <3>1, <3>2, <2>i DEF LateInv
    <3> QED
      BY ZenonT(30), <3>1, <3>2, <3>3, <2>i, DevAssumption DEF LifeInv
  <2>1. ASSUME NEW c \in Ctx, ctx[c].d \in gone PROVE ctx[c].pc = "ktio_id"
    <3>1. ctx[c].d \in Dev /\ ref[ctx[c].d] = 0
      BY ZenonT(30), <2>g, <2>1
    <3>2. ctx[c].pc # "ktio_id" => ref[ctx[c].d] > 0
      BY ZenonT(30), <3>1, <2>i, HolderCounts
    <3> QED
      BY <3>1, <3>2
  <2>2. ASSUME NEW w \in Worker, worker[w].d \in gone
        PROVE  worker[w].pc \in {"add_disk", "added", "newsize"}
    <3> DEFINE d == worker[w].d
    <3>1. d # None /\ "GDALLOC" \notin flags[d] /\ "NEWSIZE" \notin flags[d] /\ d \in Dev
      BY ZenonT(30), <2>g, <2>2
    <3>2. worker[w] \in WorkerRec /\ (worker[w].pc = "idle" <=> worker[w].d = None)
      BY ZenonT(30), <2>i DEF Types, PcType, Busy
    <3>3. worker[w].pc # "idle"
      BY ZenonT(30), <3>1, <3>2
    <3>4. Serves(worker[w], flags[d])
      BY ZenonT(30), <3>3, <2>i DEF LateInv
    <3>5. worker[w].pc = "alloc" => "GDALLOC" \in flags[d]
      BY ZenonT(30) DEF DevInv, GdInv
    <3>6. worker[w].pc \in WorkerPc \cup {"idle"}
      BY <3>2 DEF WorkerRec
    <3> QED
      BY <3>1, <3>3, <3>4, <3>5, <3>6 DEF Serves, WorkerPc
  <2>3. ASSUME NEW o \in Opener, opener[o].d \in gone PROVE opener[o].pc \in {"opening", "cfg"}
    <3>1. opener[o].d \in Dev /\ opener[o].d # None /\ nopen[opener[o].d] = 0
      BY ZenonT(30), <2>g, <2>3
    <3>2. opener[o].pc = "open" => nopen[opener[o].d] > 0
      BY ZenonT(30), <3>1, <2>i, UserCounts
    <3>3. opener[o] \in OpenerRec /\ (opener[o].pc = "idle" <=> opener[o].d = None)
      BY ZenonT(30), <2>i DEF Types, PcType, Busy
    <3>4. opener[o].pc \in OpenerPc
      BY <3>3 DEF OpenerRec
    <3> QED
      BY <3>1, <3>2, <3>3, <3>4 DEF OpenerPc
  <2>4. \A p \in Flusher : flusher[p].d \notin gone
    BY ZenonT(30), <2>i DEF LateInv
  <2>5. \A d \in gone : flags[d] \cap {"GDALLOC", "NEWSIZE"} = {}
    BY ZenonT(30), <2>g
  <2> QED
    BY ZenonT(30), <2>1, <2>2, <2>3, <2>4, <2>5 DEF OnlyLateUses
<1> QED
  BY <1>1, DevInvariant, LateInvariant, PTL
=============================================================================
