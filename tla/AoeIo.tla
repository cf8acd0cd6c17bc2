------------------------------- MODULE AoeIo -------------------------------
(***************************************************************************)
(* The I/O engine of one AoE device: aoecmd.c with the parts of aoedev.c   *)
(* and aoeblk.c that it calls.  The block layer hands the driver requests; *)
(* a request is a chain of bios; each bio is carried by a buf that is sent *)
(* in frames; a frame belongs for life to one target (a remote MAC         *)
(* address).  Responses, the retransmission timer, the ktio threads, the   *)
(* block layer and revalidation all work on this state under d->lock.      *)
(*                                                                         *)
(* Loops that run with the lock held are modelled one iteration per step:  *)
(* `lock' names the loop the holder is in, and no other holder can start   *)
(* before it is "free" again.                                              *)
(*                                                                         *)
(* Abstractions.  Sizes are counted in frames (units of d->maxbcnt).  A    *)
(* tag is never reused, so a response either finds its frame, active or    *)
(* deferred, or is unexpected and changes nothing modelled here.  Time is  *)
(* a choice: any set of active frames may have expired, any expired frame  *)
(* may have waited for longer than aoe_deadsecs.  Lists are sets, except   *)
(* that a frame has one place.  Unallocated frames count as free ones, and *)
(* an allocation with GFP_ATOMIC may always fail.                          *)
(***************************************************************************)
EXTENDS Integers, FiniteSets

CONSTANTS
    Tgt,        \* the targets of the device (d->targets)
    Frame,      \* the frames that can ever be allocated (t->falloc is capped)
    TgtOf,      \* f->t
    Req,        \* requests the block layer may submit, each once
    Bio,        \* the bios of all requests; a bio and its buf are one
    RqOf,       \* the request of a bio
    Size,       \* bi_size of a bio, in frames
    NFrames,    \* t->nframes, the cap on the window of a target
    NIf,        \* interfaces through which each target was discovered
    MaxTaint,   \* MAX_TAINT
    MinBufs,    \* MIN_BUFS, the bufs that the mempool guarantees
    MaxReval,   \* bound: how often the user revalidates the device
    None        \* NULL

ASSUME IoAssumption ==
    /\ IsFiniteSet(Tgt) /\ IsFiniteSet(Frame) /\ IsFiniteSet(Bio)
    /\ TgtOf \in [Frame -> Tgt]
    /\ RqOf \in [Bio -> Req]
    /\ \A r \in Req : \E b \in Bio : RqOf[b] = r
    /\ Size \in [Bio -> Nat \ {0}]
    /\ NFrames \in Nat \ {0}
    /\ NIf \in Nat \ {0}
    /\ MaxTaint \in Nat \ {0}
    /\ MinBufs \in Nat \ {0}
    /\ MaxReval \in Nat
    /\ None \notin Bio /\ None \notin Req

VARIABLES
    up,         \* DEVFL_UP
    kickme,     \* DEVFL_KICKME
    newsize,    \* DEVFL_NEWSIZE: aoecmd_sleepwork is scheduled
    plugged,    \* the block layer is about to call the request function
    rqs,        \* what has become of each request
    special,    \* rq->special: bios of the request that have not ended
    iprq,       \* d->ip.rq
    nxbio,      \* the bios from d->ip.nxbio to the end of the chain
    ipbuf,      \* d->ip.buf
    live,       \* the bufs allocated from d->bufpool
    left,       \* buf->iter.bi_size
    nframesout, \* buf->nframesout
    err,        \* the bios with bi_error set
    acked,      \* history: good responses that ktio has taken for a bio
    place,      \* the list that a frame is on
    fbuf,       \* f->buf
    probing,    \* the frames with FFL_PROBE
    nout,       \* t->nout
    maxout,     \* t->maxout
    taint,      \* t->taint
    nout_probes,\* t->nout_probes
    nifs,       \* interfaces in t->ifs
    ifp,        \* index in t->ifs of t->ifp
    lock,       \* which loop the holder of d->lock is in
    todo,       \* what rexmit_deferred has not visited yet
    nreval,     \* revalidations so far
    reval       \* a revalidation is waiting for a frame

flagVars == <<up, kickme, newsize>>
rqVars == <<plugged, rqs, special, iprq, nxbio>>
bufVars == <<ipbuf, live, left, nframesout, err, acked>>
frameVars == <<place, fbuf, probing>>
winVars == <<nout, maxout, taint, nout_probes>>
ifVars == <<nifs, ifp>>
ctlVars == <<lock, todo, nreval, reval>>
vars == <<flagVars, rqVars, bufVars, frameVars, winVars, ifVars, ctlVars>>

Place == {"free", "active", "flist", "rexmitq", "iocq", "ktio"}
Lock == {"free", "flist", "rexmit_timer", "rexmit_work", "ata_rw", "oops"}

Bios(r) == {b \in Bio : RqOf[b] = r}
Queued == {r \in Req : rqs[r] = "queued"}
FramesOf(b) == {f \in Frame : fbuf[f] = b}
On(p) == {f \in Frame : place[f] = p}
Out == On("active") \cup On("flist")    \* the frames that await an answer
Of(S, t) == {f \in S : TgtOf[f] = t}

\* A device that has been discovered, identified and installed, its windows
\* as earlier traffic has left them.
Init ==
    /\ up = TRUE /\ kickme = FALSE /\ newsize = FALSE
    /\ plugged = FALSE
    /\ rqs = [r \in Req |-> "new"] /\ special = [r \in Req |-> 0]
    /\ iprq = None /\ nxbio = {} /\ ipbuf = None
    /\ live = {} /\ err = {}
    /\ left = [b \in Bio |-> 0] /\ nframesout = [b \in Bio |-> 0]
    /\ acked = [b \in Bio |-> 0]
    /\ place = [f \in Frame |-> "free"]
    /\ fbuf = [f \in Frame |-> None] /\ probing = {}
    /\ nout = [t \in Tgt |-> 0]
    /\ maxout \in [Tgt -> 1..NFrames]
    /\ taint = [t \in Tgt |-> 0] /\ nout_probes = [t \in Tgt |-> 0]
    /\ nifs = [t \in Tgt |-> NIf] /\ ifp = [t \in Tgt |-> 1]
    /\ lock = "free" /\ todo = {} /\ nreval = 0 /\ reval = FALSE

----------------------------------------------------------------------------
(* Targets: the choice of a frame to send with.                            *)

Untainted == {t \in Tgt : taint[t] = 0}

\* ifrotate: the next interface of the target, or the first one.
Rotate(i, t) == [i EXCEPT ![t] = IF i[t] < nifs[t] THEN i[t] + 1 ELSE 1]

\* The window of a target has room; window is t->maxout.
RoomUnchecked(t, window) == TRUE
Room(t, window) == nout[t] < window[t]

\* newframe: the frames it may return.  A tainted target serves only when
\* there is no other, and t->ifp->nd must not be NULL.  The round-robin
\* position d->tgt is left out: a target whose turn it is may fail to allocate.
NewFrames(window) ==
    {f \in On("free") :
        LET t == TgtOf[f]
        IN /\ Room(t, window)
           /\ taint[t] = 0 \/ Untainted = {}
           /\ ifp[t] <= nifs[t]}

\* newframe returns NULL: ask the timer to call the request function, unless
\* a response on an untainted target is still to come.
NoFrameSilent == UNCHANGED kickme
NoFrame == kickme' = (kickme \/ \A t \in Untainted : nout[t] = 0)

\* t->nout_probes++
CountProbeSkipped(np, t) == np
CountProbe(np, t) == [np EXCEPT ![t] = @ + 1]

\* probe and the count that follows it: a probe leaves outside the window if
\* newtframe finds a frame, and is counted whether or not it left.  The other
\* arguments are the caller's own changes.
Probe(t, pl, pb, no, ip) ==
    /\ nout_probes' = CountProbe(nout_probes, t)
    /\ \/ place' = pl /\ probing' = pb /\ nout' = no /\ ifp' = ip
       \/ \E g \in On("free") :
            /\ TgtOf[g] = t /\ pl[g] = "free"
            /\ place' = [pl EXCEPT ![g] = "active"]
            /\ probing' = pb \cup {g}
            /\ nout' = [no EXCEPT ![t] = @ + 1]
            /\ ifp' = Rotate(ip, t)

NoProbe(pl, pb, no, ip) ==
    place' = pl /\ probing' = pb /\ nout' = no /\ ifp' = ip /\ UNCHANGED nout_probes

----------------------------------------------------------------------------
(* Ending bufs and requests.                                               *)

\* The last frame of a buf that is sent or failed in full is done.
LastFrameIgnoresOthers(b) == left[b] = 0
LastFrameSparesFailed(b) == nframesout[b] = 1 /\ left[b] = 0 /\ b \notin err
LastFrame(b) == nframesout[b] = 1 /\ left[b] = 0

\* The requests that have no unfinished bio left when those of fin end.
EndedBy(fin) ==
    {r \in {RqOf[b] : b \in fin} :
        special[r] = Cardinality({b \in fin : RqOf[b] = r})}

\* aoe_end_buf for the bios of fin and aoe_end_request for the requests that
\* end with them; drain tells whether the block queue is failed as well.
EndBios(fin, drain) ==
    /\ special' = [r \in Req |->
                     special[r] - Cardinality({b \in fin : RqOf[b] = r})]
    /\ rqs' = [r \in Req |->
                 IF r \in EndedBy(fin) \/ (drain /\ r \in Queued)
                 THEN "done" ELSE rqs[r]]
    /\ iprq' = IF iprq \in EndedBy(fin) THEN None ELSE iprq
    /\ live' = live \ fin
    /\ ipbuf' = IF ipbuf \in fin THEN None ELSE ipbuf

\* The bios that a drain of the block queue fails.
DrainedAsGood == {}
Drained == {b \in Bio : RqOf[b] \in Queued}

\* aoecmd_work begins with rexmit_deferred.
StartWork == lock' = "rexmit_work" /\ todo' = On("rexmitq")
Unlock == lock' = "free" /\ UNCHANGED todo

----------------------------------------------------------------------------
(* The block layer.                                                        *)

\* A request enters the block queue, which d->lock protects.
Submit(r) ==
    /\ lock = "free"
    /\ rqs[r] = "new"
    /\ rqs' = [rqs EXCEPT ![r] = "queued"]
    /\ plugged' = TRUE
    /\ UNCHANGED <<flagVars, special, iprq, nxbio, bufVars, frameVars, winVars,
                   ifVars, ctlVars>>

\* aoeblk_request, called by the block layer once after it has added to the
\* queue: a device that is down fails all of it.
Request ==
    /\ lock = "free"
    /\ plugged
    /\ plugged' = FALSE
    /\ \/ /\ up
          /\ StartWork
          /\ UNCHANGED <<rqs, err>>
       \/ /\ ~up
          /\ rqs' = [r \in Req |-> IF r \in Queued THEN "done" ELSE rqs[r]]
          /\ err' = err \cup Drained
          /\ UNCHANGED <<lock, todo>>
    /\ UNCHANGED <<flagVars, special, iprq, nxbio, ipbuf, live, left, nframesout,
                   acked, frameVars, winVars, ifVars, nreval, reval>>

----------------------------------------------------------------------------
(* rexmit_deferred: one visit per frame of d->rexmitq.                     *)

InRexmit == lock \in {"rexmit_timer", "rexmit_work"}

\* reassign_frame is not called, or returns NULL because newframe did or
\* because newframe chose the frame's own target, whose interface has then
\* been rotated to ip.
NotReassigned(f, ip) ==
    LET t == TgtOf[f]
    IN \/ /\ taint[t] = 0 \/ f \in probing
          /\ ip = ifp /\ UNCHANGED kickme
       \/ /\ taint[t] > 0 /\ f \notin probing
          /\ ip = ifp /\ NoFrame
       \/ /\ taint[t] > 0 /\ f \notin probing
          /\ \E g \in NewFrames(maxout) : TgtOf[g] = t
          /\ ip = Rotate(ifp, t) /\ UNCHANGED kickme

\* A probe serves only a tainted target beside an untainted one.
UselessProbe(f) == f \in probing /\ (taint[TgtOf[f]] = 0 \/ Untainted = {})

\* stop_probe
RexmitStopProbe(f) ==
    /\ InRexmit /\ f \in todo
    /\ UselessProbe(f)
    /\ todo' = todo \ {f}
    /\ place' = [place EXCEPT ![f] = "free"]
    /\ probing' = probing \ {f}
    /\ kickme' = TRUE
    /\ UNCHANGED <<up, newsize, rqVars, bufVars, fbuf, winVars, ifVars, lock,
                   nreval, reval>>

\* The frame stays deferred: the window is full, or it is too early to probe.
RexmitDefer(f) ==
    /\ InRexmit /\ f \in todo
    /\ ~UselessProbe(f)
    /\ ~Room(TgtOf[f], maxout) \/ f \in probing
    /\ \E ip \in {ifp, Rotate(ifp, TgtOf[f])} :
         NotReassigned(f, ip) /\ ifp' = ip
    /\ todo' = todo \ {f}
    /\ UNCHANGED <<up, newsize, rqVars, bufVars, frameVars, winVars, nifs, lock,
                   nreval, reval>>

\* The frame is sent again on its own target.
RexmitResend(f) ==
    LET t == TgtOf[f]
    IN /\ InRexmit /\ f \in todo
       /\ ~UselessProbe(f)
       /\ Room(t, maxout)
       /\ \E ip \in {ifp, Rotate(ifp, t)} :
            NotReassigned(f, ip) /\ ifp' = Rotate(ip, t)
       /\ todo' = todo \ {f}
       /\ place' = [place EXCEPT ![f] = "active"]
       /\ nout' = [nout EXCEPT ![t] = @ + 1]
       /\ nout_probes' = IF f \in probing
                         THEN CountProbe(nout_probes, t)
                         ELSE nout_probes
       /\ UNCHANGED <<up, newsize, rqVars, bufVars, fbuf, probing, maxout, taint,
                      nifs, lock, nreval, reval>>

\* The frame of a tainted target hands its buf to nf of another target, which
\* is sent at once; the tainted target is probed if it is not being probed.
RexmitReassign(f, nf) ==
    LET t == TgtOf[f]
        u == TgtOf[nf]
        pl == [place EXCEPT ![f] = "free", ![nf] = "active"]
        no == [nout EXCEPT ![u] = @ + 1]
        ip == Rotate(Rotate(ifp, u), u)
    IN /\ InRexmit /\ f \in todo
       /\ taint[t] > 0 /\ f \notin probing
       /\ nf \in NewFrames(maxout) /\ u # t
       /\ IF nout_probes[t] = 0 /\ Untainted # {}
          THEN Probe(t, pl, probing, no, ip)
          ELSE NoProbe(pl, probing, no, ip)
       /\ fbuf' = [fbuf EXCEPT ![nf] = fbuf[f], ![f] = None]
       /\ todo' = todo \ {f}
       /\ UNCHANGED <<flagVars, rqVars, bufVars, maxout, taint, nifs, lock,
                      nreval, reval>>

\* aoecmd_work goes on to send; the timer calls the request function if it
\* was asked to.
RexmitDone ==
    /\ InRexmit /\ todo = {}
    /\ \/ /\ lock = "rexmit_work"
          /\ lock' = "ata_rw"
          /\ UNCHANGED <<kickme, todo, rqs, err>>
       \/ /\ lock = "rexmit_timer" /\ ~kickme
          /\ Unlock
          /\ UNCHANGED <<kickme, rqs, err>>
       \/ /\ lock = "rexmit_timer" /\ kickme /\ up
          /\ StartWork
          /\ kickme' = FALSE
          /\ UNCHANGED <<rqs, err>>
       \/ /\ lock = "rexmit_timer" /\ kickme /\ ~up
          /\ Unlock
          /\ kickme' = FALSE
          /\ rqs' = [r \in Req |-> IF r \in Queued THEN "done" ELSE rqs[r]]
          /\ err' = err \cup Drained
    /\ UNCHANGED <<up, newsize, plugged, special, iprq, nxbio, ipbuf, live,
                   left, nframesout, acked, frameVars, winVars, ifVars, nreval,
                   reval>>

----------------------------------------------------------------------------
(* aoecmd_ata_rw, called until it returns 0.                               *)

RqBioCntFromNext(r) == Cardinality(Bios(r)) - 1
RqBioCnt(r) == Cardinality(Bios(r))

\* nextbuf: take a request from the block queue.
NextRequest(r) ==
    /\ lock = "ata_rw"
    /\ ipbuf = None /\ iprq = None
    /\ rqs[r] = "queued"
    /\ rqs' = [rqs EXCEPT ![r] = "started"]
    /\ special' = [special EXCEPT ![r] = RqBioCnt(r)]
    /\ iprq' = r
    /\ nxbio' = Bios(r)
    /\ UNCHANGED <<flagVars, plugged, bufVars, frameVars, winVars, ifVars, ctlVars>>

\* nextbuf: take the next bio of the request.
NextBuf(b) ==
    /\ lock = "ata_rw"
    /\ ipbuf = None /\ iprq # None
    /\ b \in nxbio
    /\ ipbuf' = b
    /\ live' = live \cup {b}
    /\ left' = [left EXCEPT ![b] = Size[b]]
    /\ nframesout' = [nframesout EXCEPT ![b] = 0]
    /\ nxbio' = nxbio \ {b}
    /\ iprq' = IF nxbio = {b} THEN None ELSE iprq
    /\ UNCHANGED <<flagVars, plugged, rqs, special, err, acked, frameVars, winVars,
                   ifVars, ctlVars>>

\* nextbuf with d->ip.rq set and d->ip.nxbio NULL: bufinit follows the NULL.
NextBufNull ==
    /\ lock = "ata_rw"
    /\ ipbuf = None /\ iprq # None /\ nxbio = {}
    /\ lock' = "oops"
    /\ UNCHANGED <<flagVars, rqVars, bufVars, frameVars, winVars, ifVars, todo,
                   nreval, reval>>

\* nextbuf returns NULL: there is nothing to do, or no buf to do it with.
NoNextBuf ==
    /\ lock = "ata_rw"
    /\ ipbuf = None
    /\ \/ iprq = None /\ Queued = {}
       \/ iprq # None /\ Cardinality(live) >= MinBufs
    /\ Unlock
    /\ UNCHANGED <<flagVars, rqVars, bufVars, frameVars, winVars, ifVars, nreval,
                   reval>>

\* newframe returns NULL.
NoNewFrame ==
    /\ lock = "ata_rw"
    /\ ipbuf # None
    /\ NoFrame
    /\ Unlock
    /\ UNCHANGED <<up, newsize, rqVars, bufVars, frameVars, winVars, ifVars,
                   nreval, reval>>

\* A frame leaves with the next piece of the buf.
SendFrame(f) ==
    LET t == TgtOf[f]
        b == ipbuf
        n == IF left[b] = 0 THEN 0 ELSE left[b] - 1
    IN /\ lock = "ata_rw"
       /\ ipbuf # None
       /\ f \in NewFrames(maxout)
       /\ place' = [place EXCEPT ![f] = "active"]
       /\ fbuf' = [fbuf EXCEPT ![f] = b]
       /\ left' = [left EXCEPT ![b] = n]
       /\ ipbuf' = IF n = 0 THEN None ELSE b
       /\ nframesout' = [nframesout EXCEPT ![b] = @ + 1]
       /\ nout' = [nout EXCEPT ![t] = @ + 1]
       /\ ifp' = Rotate(ifp, t)
       /\ UNCHANGED <<flagVars, rqVars, live, err, acked, probing, maxout, taint,
                      nout_probes, nifs, ctlVars>>

----------------------------------------------------------------------------
(* Responses.                                                              *)

\* calc_rttavg may open the window of an active frame's target; ssthresh and
\* next_cwnd, which decide, are left out.
CalcRttavg(t) ==
    \/ UNCHANGED maxout
    \/ /\ maxout[t] < NFrames
       /\ maxout' = [maxout EXCEPT ![t] = @ + 1]

\* aoecmd_ata_rsp finds the frame, active or deferred, does more work and
\* hands the frame to ktio.
AtaRsp(f) ==
    LET t == TgtOf[f]
    IN /\ lock = "free"
       /\ \/ /\ place[f] = "active"
             /\ nout' = [nout EXCEPT ![t] = @ - 1]
             /\ nout_probes' = IF f \in probing
                               THEN [nout_probes EXCEPT ![t] = @ - 1]
                               ELSE nout_probes
             /\ CalcRttavg(t)
          \/ /\ place[f] = "rexmitq"
             /\ UNCHANGED <<nout, nout_probes, maxout>>
       /\ place' = [place EXCEPT ![f] = "iocq"]
       /\ lock' = "rexmit_work" /\ todo' = On("rexmitq") \ {f}
       /\ UNCHANGED <<flagVars, rqVars, bufVars, fbuf, probing, taint, ifVars,
                      nreval, reval>>

\* ataid_complete: the answer to an identify command announces a new size and
\* schedules aoecmd_sleepwork.
AtaidComplete(f) == fbuf[f] = None /\ f \notin probing

\* ktiocomplete up to the label out: the response is good or not, and an error
\* fails the bio.
KtioTake(f, good) ==
    /\ lock = "free"
    /\ place[f] = "iocq"
    /\ place' = [place EXCEPT ![f] = "ktio"]
    /\ err' = IF good \/ fbuf[f] = None THEN err ELSE err \cup {fbuf[f]}
    /\ newsize' = (newsize \/ (good /\ AtaidComplete(f)))
    /\ UNCHANGED <<up, kickme, rqVars, ipbuf, live, left, nframesout, acked, fbuf,
                   probing, winVars, ifVars, ctlVars>>

\* ktiocomplete from out: redeem the target a little, probe it if it is still
\* tainted, free the frame, and end the buf with its last frame.
KtioComplete(f) ==
    LET t == TgtOf[f]
        b == fbuf[f]
        fin == IF b # None /\ LastFrame(b) THEN {b} ELSE {}
        run == EndedBy(fin) # {}    \* aoe_end_request runs the block queue
        pl == [place EXCEPT ![f] = "free"]
    IN /\ lock = "free"
       /\ place[f] = "ktio"
       /\ taint' = [taint EXCEPT ![t] = IF @ > 0 THEN @ - 1 ELSE 0]
       /\ IF taint[t] > 1 /\ nout_probes[t] = 0 /\ Untainted # {}
          THEN Probe(t, pl, probing \ {f}, nout, ifp)
          ELSE NoProbe(pl, probing \ {f}, nout, ifp)
       /\ fbuf' = [fbuf EXCEPT ![f] = None]
       /\ nframesout' = IF b = None THEN nframesout
                        ELSE [nframesout EXCEPT ![b] = @ - 1]
       /\ acked' = IF b = None \/ b \in err THEN acked
                   ELSE [acked EXCEPT ![b] = @ + 1]
       /\ EndBios(fin, run /\ ~up)
       /\ err' = IF run /\ ~up THEN err \cup Drained ELSE err
       /\ IF run /\ up THEN StartWork ELSE Unlock
       /\ UNCHANGED <<flagVars, plugged, nxbio, left, maxout, nifs, nreval, reval>>

----------------------------------------------------------------------------
(* rexmit_timer.                                                           *)

\* The frames that have waited for longer than rto are collected.
TimerFires(E) ==
    /\ lock = "free"
    /\ E \subseteq On("active")
    /\ place' = [f \in Frame |-> IF f \in E THEN "flist" ELSE place[f]]
    /\ lock' = "flist"
    /\ UNCHANGED <<flagVars, rqVars, bufVars, fbuf, probing, winVars, ifVars,
                   todo, nreval, reval>>

ScornedUncapped(n) == 3 * (n + 1)
Scorned(n) == IF 3 * (n + 1) > MaxTaint THEN MaxTaint ELSE 3 * (n + 1)

\* aoecmd_wreset of every target, in aoedev_downdev and aoecmd_cleanslate.
Wreset == [t \in Tgt |-> 1]

\* ejectif: a target loses an interface, never the last one.
Ejectif(t) ==
    /\ nifs[t] > 1
    /\ nifs' = [nifs EXCEPT ![t] = @ - 1]

\* An expired frame is deferred; its target shrinks its window, may be
\* scorned, and may lose an interface.
TimerDefer(f) ==
    LET t == TgtOf[f]
    IN /\ lock = "flist"
       /\ place[f] = "flist"
       /\ place' = [place EXCEPT ![f] = "rexmitq"]
       /\ \/ UNCHANGED taint
          \/ taint' = [taint EXCEPT ![t] = Scorned(@)]
       /\ maxout' = [maxout EXCEPT ![t] = 1]
       /\ nout' = [nout EXCEPT ![t] = @ - 1]
       /\ \/ /\ f \in probing
             /\ nout_probes' = [nout_probes EXCEPT ![t] = @ - 1]
             /\ UNCHANGED nifs
          \/ /\ f \notin probing
             /\ UNCHANGED nifs \/ Ejectif(t)
             /\ UNCHANGED nout_probes
       /\ UNCHANGED <<flagVars, rqVars, bufVars, fbuf, probing, ifp, ctlVars>>

\* The frames that aoedev_downdev takes back: all that are not with ktio.
DownFramesDeferred == On("flist") \cup On("rexmitq")
DownFrames == On("active") \cup On("flist") \cup On("rexmitq")

\* The bufs that fail when the frames of mine are taken back: those that they
\* carry, and the one in progress.
FailedBufsInProcess(mine) == {ipbuf} \ {None}
FailedBufs(mine) == ({fbuf[f] : f \in mine} \cup {ipbuf}) \ {None}

\* aoedev_downdev and the rest of the timer, when a frame has waited for
\* longer than aoe_deadsecs: every frame that is not with ktio is taken back
\* and its buf failed (downdev_frame, aoe_failbuf), the request in progress is
\* failed (aoe_failip) and so is the block queue.
Downdev ==
    LET mine == DownFrames
        hit == FailedBufs(mine)
        lost(b) == Cardinality(FramesOf(b) \cap mine)
        fin == {b \in hit : nframesout[b] = lost(b)} \cup nxbio
    IN /\ up' = FALSE /\ kickme' = FALSE
       /\ place' = [f \in Frame |-> IF f \in mine THEN "free" ELSE place[f]]
       /\ fbuf' = [f \in Frame |-> IF f \in mine THEN None ELSE fbuf[f]]
       /\ probing' = probing \ mine
       /\ nframesout' = [b \in Bio |-> nframesout[b] - lost(b)]
       /\ left' = [b \in Bio |-> IF b \in hit THEN 0 ELSE left[b]]
       /\ err' = err \cup hit \cup nxbio \cup Drained
       /\ EndBios(fin, TRUE)
       /\ nxbio' = {}
       /\ maxout' = Wreset
       /\ nout' = [t \in Tgt |-> 0]
       /\ Unlock
       /\ UNCHANGED <<newsize, plugged, acked, taint, nout_probes, ifVars, nreval,
                      reval>>

TimerDead(f) ==
    /\ lock = "flist"
    /\ place[f] = "flist" /\ f \notin probing
    /\ Downdev

TimerDeferred ==
    /\ lock = "flist"
    /\ On("flist") = {}
    /\ lock' = "rexmit_timer" /\ todo' = On("rexmitq")
    /\ UNCHANGED <<flagVars, rqVars, bufVars, frameVars, winVars, ifVars, nreval,
                   reval>>

----------------------------------------------------------------------------
(* Identification of the device.                                           *)

\* aoecmd_ata_id: a frame leaves with an identify command, or there is none.
\* The clone of the packet may fail after that; the caller then sees NULL too.
AtaId(window, sent) ==
    \/ \E f \in NewFrames(window) :
         LET t == TgtOf[f]
         IN /\ place' = [place EXCEPT ![f] = "active"]
            /\ nout' = [nout EXCEPT ![t] = @ + 1]
            /\ ifp' = Rotate(ifp, t)
            /\ UNCHANGED kickme
    \/ /\ ~sent
       /\ NoFrame
       /\ UNCHANGED <<place, nout, ifp>>

\* revalidate: aoecmd_cleanslate, then the first attempt to identify.
Revalidate ==
    /\ lock = "free"
    /\ ~reval /\ nreval < MaxReval
    /\ nreval' = nreval + 1
    /\ maxout' = Wreset
    /\ \E sent \in BOOLEAN :
         AtaId(Wreset, sent) /\ reval' = ~sent
    /\ UNCHANGED <<up, newsize, rqVars, bufVars, fbuf, probing, taint, nout_probes,
                   nifs, lock, todo>>

\* revalidate after its sleep, which a signal may interrupt.
RevalidateAgain ==
    /\ lock = "free"
    /\ reval
    /\ \/ \E sent \in BOOLEAN : AtaId(maxout, sent) /\ reval' = ~sent
       \/ reval' = FALSE /\ UNCHANGED <<kickme, place, nout, ifp>>
    /\ UNCHANGED <<up, newsize, rqVars, bufVars, fbuf, probing, maxout, taint,
                   nout_probes, nifs, lock, todo, nreval>>

\* aoecmd_cfg_rsp for a device that is open: a config response arrives on an
\* interface that had been ejected, and setifbcnt adds it behind the others.
\* The target announces the buffer count and the size that it announced before.
CfgRsp(t) ==
    /\ lock = "free"
    /\ nifs[t] < NIf
    /\ nifs' = [nifs EXCEPT ![t] = @ + 1]
    /\ UNCHANGED <<flagVars, rqVars, bufVars, frameVars, winVars, ifp, ctlVars>>

\* aoecmd_sleepwork for a device with DEVFL_NEWSIZE.
Sleepwork ==
    /\ lock = "free"
    /\ newsize
    /\ up' = TRUE /\ newsize' = FALSE
    /\ UNCHANGED <<kickme, rqVars, bufVars, frameVars, winVars, ifVars, ctlVars>>

----------------------------------------------------------------------------

\* A driver that followed a NULL pointer with the lock held does nothing more.
Halted == lock = "oops" /\ UNCHANGED vars

Next ==
    \/ \E r \in Req : Submit(r) \/ NextRequest(r)
    \/ Request
    \/ \E f \in Frame :
         \/ RexmitStopProbe(f) \/ RexmitDefer(f) \/ RexmitResend(f)
         \/ \E nf \in Frame : RexmitReassign(f, nf)
         \/ SendFrame(f) \/ AtaRsp(f)
         \/ \E good \in BOOLEAN : KtioTake(f, good)
         \/ KtioComplete(f) \/ TimerDefer(f) \/ TimerDead(f)
    \/ RexmitDone
    \/ \E b \in Bio : NextBuf(b)
    \/ NextBufNull \/ NoNextBuf \/ NoNewFrame
    \/ \E E \in SUBSET Frame : TimerFires(E)
    \/ TimerDeferred
    \/ Revalidate \/ RevalidateAgain \/ Sleepwork
    \/ \E t \in Tgt : CfgRsp(t)
    \/ Halted

Spec == Init /\ [][Next]_vars

\* What makes I/O go on.  Whoever holds d->lock runs to the end of its loops,
\* and nobody waits for a spinlock forever.  The block layer calls the request
\* function after adding to the queue; the timer is re-armed on every tick; it
\* finds a frame that stays unanswered, and the ktio threads, which are first
\* in first out, get to one that was answered; a command that is never answered
\* has at some time waited for longer than aoe_deadsecs, which is not zero; and
\* an atomic allocation does not fail forever.  That a target answers is not
\* assumed.
Holder ==
    \/ \E f \in Frame :
         \/ RexmitStopProbe(f) \/ RexmitDefer(f) \/ RexmitResend(f)
         \/ \E nf \in Frame : RexmitReassign(f, nf)
         \/ SendFrame(f) \/ TimerDefer(f) \/ TimerDead(f)
    \/ RexmitDone
    \/ \E r \in Req : NextRequest(r)
    \/ \E b \in Bio : NextBuf(b)
    \/ NextBufNull \/ NoNextBuf \/ NoNewFrame \/ TimerDeferred

FrameProgress(f) ==
    \/ \E E \in SUBSET Frame : f \in E /\ TimerFires(E)
    \/ \E good \in BOOLEAN : KtioTake(f, good)
    \/ KtioComplete(f)

Fairness ==
    /\ WF_vars(Holder)
    /\ SF_vars(Request)
    /\ SF_vars(\E E \in SUBSET Frame : TimerFires(E))
    /\ \A f \in Frame : SF_vars(FrameProgress(f))
    /\ SF_vars(\E f \in Frame : TimerDead(f))
    /\ SF_vars(\E f \in Frame : SendFrame(f))

FairSpec == Spec /\ Fairness

----------------------------------------------------------------------------
(* Correctness.                                                            *)

\* Every variable has its type; in particular the unsigned counters nout,
\* nframesout and special of the code never go below zero.
TypeOK ==
    /\ up \in BOOLEAN /\ kickme \in BOOLEAN /\ newsize \in BOOLEAN
    /\ plugged \in BOOLEAN
    /\ rqs \in [Req -> {"new", "queued", "started", "done"}]
    /\ special \in [Req -> Nat]
    /\ iprq \in Req \cup {None} /\ nxbio \subseteq Bio
    /\ ipbuf \in Bio \cup {None}
    /\ live \subseteq Bio /\ err \subseteq Bio
    /\ left \in [Bio -> Nat] /\ nframesout \in [Bio -> Nat]
    /\ acked \in [Bio -> Nat]
    /\ place \in [Frame -> Place]
    /\ fbuf \in [Frame -> Bio \cup {None}]
    /\ probing \subseteq Frame
    /\ nout \in [Tgt -> Nat] /\ maxout \in [Tgt -> 1..NFrames]
    /\ taint \in [Tgt -> 0..MaxTaint] /\ nout_probes \in [Tgt -> Nat]
    /\ nifs \in [Tgt -> 1..NIf] /\ ifp \in [Tgt -> 1..NIf]
    /\ lock \in Lock /\ todo \subseteq Frame
    /\ nreval \in 0..MaxReval /\ reval \in BOOLEAN

\* A frame that is out, deferred or with ktio never points to a buf that went
\* back to the mempool, nor a buf to a request that was given back to the
\* block layer (aoe_end_buf, aoe_end_request against every other holder).
NoDanglingBuf ==
    /\ \A f \in Frame : fbuf[f] # None => place[f] # "free" /\ fbuf[f] \in live
    /\ ipbuf # None => ipbuf \in live
    /\ \A b \in live \cup nxbio : rqs[RqOf[b]] = "started"

\* buf->nframesout counts the frames that carry the buf, wherever they are,
\* and rq->special the bios of the request that are not finished: so the last
\* of them to finish, and only it, ends the buf or the request.
CountsExact ==
    /\ \A b \in live : nframesout[b] = Cardinality(FramesOf(b))
    /\ \A r \in Req : rqs[r] = "started" =>
         special[r] = Cardinality({b \in live \cup nxbio : RqOf[b] = r})

\* No buf is stranded: one that has neither a frame out nor the attention of
\* aoecmd_ata_rw would never end, and its request would never be completed.
NoStrandedBuf ==
    /\ \A b \in live : nframesout[b] > 0 \/ b = ipbuf
    /\ \A b \in live : left[b] > 0 => b = ipbuf
    /\ \A r \in Req : rqs[r] = "started" => \E b \in live \cup nxbio : RqOf[b] = r

\* A bio is reported as successful to the block layer only after ktio took a
\* good response for every frame of it, whatever was retransmitted, moved to
\* another target, answered late or failed in between.
NoFalseSuccess ==
    \A b \in Bio : rqs[RqOf[b]] = "done" /\ b \notin err => acked[b] = Size[b]

\* t->nout is the number of commands of the target that await an answer.
NoutExact ==
    \A t \in Tgt : nout[t] = Cardinality(Of(Out, t))

\* A target is sent at most one command more than its window can ever allow:
\* only a probe ignores the window, and only when no probe is outstanding.
WindowBound == \A t \in Tgt : nout[t] <= NFrames + 1

\* t->nout_probes covers every probe of the target that awaits an answer, over
\* lost probes, late answers and a device that goes down with probes out: so
\* the count, a char, never runs below zero, and a target that is counted as
\* not being probed is not.
ProbesCounted ==
    \A t \in Tgt : nout_probes[t] >= Cardinality(Of(Out \cap probing, t))

\* The request in progress has bios left, but the mempool had no buf for the next
\* one, none is out any more, and nobody was asked to try again.
Starved ==
    /\ lock = "free" /\ up /\ ~kickme /\ ~plugged
    /\ iprq # None /\ ipbuf = None /\ nxbio # {} /\ live = {}

\* Every request that the block layer submits is given back to it, whether or
\* not any target answers and whatever is lost: a response, a failed
\* allocation (DEVFL_KICKME) or the end of a request lets I/O go on, and
\* aoe_deadsecs ends what is never answered.  The one exception is a mempool that
\* runs empty within a request: nextbuf does not ask for a kick then.
EveryRequestEnds == \A r \in Req : rqs[r] = "queued" ~> rqs[r] = "done" \/ Starved

\* The driver is a block device (AoeBlk): whatever is resent, moved, answered late
\* or failed, a request is given back once and not too early, and after that no
\* answer or error changes its bios any more.
Blk == INSTANCE AoeBlk WITH
    st <- [r \in Req |-> IF rqs[r] \in {"queued", "started"} THEN "pending" ELSE rqs[r]],
    xfer <- acked,
    bad <- err
IsBlockDevice == Blk!Spec

----------------------------------------------------------------------------
(* What the comments and documents say, where the code does otherwise.     *)

\* aoedev_downdev "clean[s] out the in-process request": what aoecmd_work finds
\* in d->ip afterwards is not half of a failed request.
InProcessCleaned == lock # "oops"
=============================================================================
