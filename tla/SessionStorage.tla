--------------------------- MODULE SessionStorage ---------------------------
(***************************************************************************)
(* The write path of one stored session in                                 *)
(* packages/session/session-persistence-jsonl/src: the write handle with   *)
(* its routed write-behind buffer, single-flight drain and mutation chain  *)
(* (storage.ts), the per-id route and claim of JsonlBackendTracker, the    *)
(* kernel write lock (lease.ts) and the file append with its rollback      *)
(* (index.ts).                                                             *)
(*                                                                         *)
(* A session is opened, published, closed and opened again; handles are    *)
(* numbered in that order and every handle has its own session object.     *)
(* Events are abstracted to their seq.  The artifact exists and is         *)
(* materialized, so flush() after a drain writes nothing.                  *)
(***************************************************************************)
EXTENDS Naturals, Sequences

CONSTANTS
    Opens,       \* bound: write opens of the session
    MaxSeq,      \* bound: events of the session
    MaxFailures, \* bound: failed file writes
    MaxCrashes,  \* bound: process crashes
    LateCalls    \* whether events and flushes arrive after close's last look at the buffer

ASSUME StorageAssumption ==
    /\ Opens \in Nat /\ MaxSeq \in Nat /\ MaxFailures \in Nat /\ MaxCrashes \in Nat /\ LateCalls \in BOOLEAN

Handles == 1..Opens
NoHandle == 0

VARIABLES
    \* shared
    file,        \* seqs in the artifact, in file order
    torn,        \* the artifact ends in a partial record
    lock,        \* handle holding the kernel lock
    writer,      \* handle that claims the id and receives its live events
    failures, crashes,
    \* per handle
    st,          \* "new", "open", "closed", or "dead" after a crash
    nextSeq,     \* events in the log of the handle's session
    cursor,      \* stored next-seq the handle knows
    tornTail,    \* the open found a torn tail the first append truncates
    buffered,    \* routed live events awaiting a drain
    drain,       \* the single-flight drain: "idle", "queued", "writing", "loop", "ended"
    batch,       \* events spliced for the write in progress
    drainFailed, \* the ended drain rejected
    timer, paused,
    flush,       \* one session/flush caller
    close,       \* the memoized close()
    \* history variable, read by properties only
    stray        \* what may still write after close() released the lock: "none", "retained" or "late"

sharedVars == <<file, torn, lock, writer, failures, crashes>>
drainVars  == <<buffered, drain, batch, drainFailed, timer, paused>>
vars == <<sharedVars, st, nextSeq, cursor, tornTail, drainVars, flush, close, stray>>

NoFlush == [at |-> "none", upto |-> 0, gap |-> FALSE]
CloseStages == {"none", "draining", "check", "waiting", "releasing", "unlocked", "done"}

Init ==
    /\ file = <<>> /\ torn = FALSE /\ lock = NoHandle /\ writer = NoHandle
    /\ failures = 0 /\ crashes = 0
    /\ st = [h \in Handles |-> "new"]
    /\ nextSeq = [h \in Handles |-> 0] /\ cursor = [h \in Handles |-> 0]
    /\ tornTail = [h \in Handles |-> FALSE]
    /\ buffered = [h \in Handles |-> <<>>] /\ drain = [h \in Handles |-> "idle"]
    /\ batch = [h \in Handles |-> <<>>] /\ drainFailed = [h \in Handles |-> FALSE]
    /\ timer = [h \in Handles |-> FALSE] /\ paused = [h \in Handles |-> FALSE]
    /\ flush = [h \in Handles |-> NoFlush] /\ close = [h \in Handles |-> "none"]
    /\ stray = [h \in Handles |-> "none"]
-----------------------------------------------------------------------------
\* Mutant of Open: the torn tail found at open is not remembered.
OpenForgetsTorn(h) ==
    /\ st[h] = "new" /\ writer = NoHandle /\ lock = NoHandle
    /\ \A g \in Handles : g < h => st[g] \in {"closed", "dead"}
    /\ st' = [st EXCEPT ![h] = "open"]
    /\ writer' = h /\ lock' = h
    /\ cursor' = [cursor EXCEPT ![h] = Len(file)]
    /\ nextSeq' = [nextSeq EXCEPT ![h] = Len(file)]
    /\ UNCHANGED <<file, torn, failures, crashes, tornTail, drainVars, flush, close, stray>>

\* open(id, "write"): claim, lock, read; the session is seeded with the log.
Open(h) ==
    /\ st[h] = "new" /\ writer = NoHandle /\ lock = NoHandle
    /\ \A g \in Handles : g < h => st[g] \in {"closed", "dead"}
    /\ st' = [st EXCEPT ![h] = "open"]
    /\ writer' = h /\ lock' = h
    /\ cursor' = [cursor EXCEPT ![h] = Len(file)]
    /\ nextSeq' = [nextSeq EXCEPT ![h] = Len(file)]
    /\ tornTail' = [tornTail EXCEPT ![h] = torn]
    /\ UNCHANGED <<file, torn, failures, crashes, drainVars, flush, close, stray>>

\* close() will not look at the buffer again.
LastLook(h) == close[h] \in {"waiting", "releasing", "unlocked"}

\* A live event or a flush arrives.
Called(h) ==
    /\ LateCalls \/ ~LastLook(h)
    /\ stray' = IF LastLook(h) THEN [stray EXCEPT ![h] = "late"] ELSE stray

\* Mutant of Emit: an event that finds a drain in flight arms no timer.
EmitWithoutTimer(h) ==
    /\ writer = h /\ nextSeq[h] < MaxSeq
    /\ Called(h)
    /\ nextSeq' = [nextSeq EXCEPT ![h] = @ + 1]
    /\ buffered' = [buffered EXCEPT ![h] = Append(@, nextSeq[h])]
    /\ timer' = [timer EXCEPT ![h] = @ \/ (~paused[h] /\ drain[h] = "idle")]
    /\ UNCHANGED <<sharedVars, st, cursor, tornTail, drain, batch, drainFailed, paused, flush, close>>

\* A published session appended an event: enqueueLive on the routed handle.
Emit(h) ==
    /\ writer = h /\ nextSeq[h] < MaxSeq
    /\ Called(h)
    /\ nextSeq' = [nextSeq EXCEPT ![h] = @ + 1]
    /\ buffered' = [buffered EXCEPT ![h] = Append(@, nextSeq[h])]
    /\ timer' = [timer EXCEPT ![h] = @ \/ ~paused[h]]
    /\ UNCHANGED <<sharedVars, st, cursor, tornTail, drain, batch, drainFailed, paused, flush, close>>

-----------------------------------------------------------------------------
(* drainLive *)

\* Mutant of LoopHead: the drain writes one batch and never looks again.
LoopOnce(h) ==
    drain' = [drain EXCEPT ![h] = IF buffered[h] # <<>> /\ drain[h] = "idle" THEN "queued" ELSE "ended"]

\* The loop head of drainBuffered: queue a write, or end.
LoopHead(h) == drain' = [drain EXCEPT ![h] = IF buffered[h] # <<>> THEN "queued" ELSE "ended"]

\* Continuations that run before the next timer or I/O callback.
MicrotaskPending(h) ==
    \/ drain[h] \in {"loop", "ended"} \/ flush[h].at = "drained"
    \/ close[h] = "check" /\ drain[h] \notin {"queued", "writing"}

\* drainLive(): start a drain unless one is in flight.
JoinOrStart(h) ==
    IF drain[h] # "idle"
    THEN UNCHANGED <<drain, timer, paused, drainFailed>>
    ELSE /\ timer' = [timer EXCEPT ![h] = FALSE] /\ paused' = [paused EXCEPT ![h] = FALSE]
         /\ drainFailed' = [drainFailed EXCEPT ![h] = FALSE]
         /\ LoopHead(h)

TimerFires(h) ==
    /\ timer[h] /\ ~MicrotaskPending(h)
    /\ IF drain[h] = "idle" THEN JoinOrStart(h)
       ELSE timer' = [timer EXCEPT ![h] = FALSE] /\ UNCHANGED <<drain, paused, drainFailed>>
    /\ UNCHANGED <<sharedVars, st, nextSeq, cursor, tornTail, buffered, batch, flush, close, stray>>

\* The chained turn splices the whole buffer and starts the write.
Splice(h) ==
    /\ drain[h] = "queued"
    /\ batch' = [batch EXCEPT ![h] = buffered[h]]
    /\ buffered' = [buffered EXCEPT ![h] = <<>>]
    /\ drain' = [drain EXCEPT ![h] = "writing"]
    /\ UNCHANGED <<sharedVars, st, nextSeq, cursor, tornTail, drainFailed, timer, paused, flush, close, stray>>

\* assertContiguous: the batch continues the stored log.
Contiguous(h) == Head(batch[h]) = cursor[h]

\* truncateTornTail(): the torn bytes the open found are cut off.
TruncateTorn(h) == torn' = (torn /\ ~tornTail[h]) /\ tornTail' = [tornTail EXCEPT ![h] = FALSE]

\* persistContiguous succeeded: a pending torn tail is truncated first, then
\* the batch is appended and synced.
Written(h) ==
    /\ drain[h] = "writing" /\ Contiguous(h) /\ ~MicrotaskPending(h)
    /\ file' = file \o batch[h]
    /\ TruncateTorn(h)
    /\ cursor' = [cursor EXCEPT ![h] = @ + Len(batch[h])]
    /\ batch' = [batch EXCEPT ![h] = <<>>]
    /\ drain' = [drain EXCEPT ![h] = "loop"]
    /\ UNCHANGED <<lock, writer, failures, crashes, st, nextSeq, buffered, drainFailed, timer, paused,
                   flush, close, stray>>

\* Mutant of RetainBatch: the failed batch goes behind the events that arrived
\* during the write.
RetainBehind(h) ==
    /\ buffered' = [buffered EXCEPT ![h] = @ \o batch[h]]
    /\ batch' = [batch EXCEPT ![h] = <<>>]
    /\ paused' = [paused EXCEPT ![h] = TRUE]
    /\ drainFailed' = [drainFailed EXCEPT ![h] = TRUE]
    /\ drain' = [drain EXCEPT ![h] = "ended"]

\* The catch of drainBuffered: the batch goes back in front of what arrived
\* meanwhile, the automatic timer is paused and the drain rejects.
RetainBatch(h) ==
    /\ buffered' = [buffered EXCEPT ![h] = batch[h] \o @]
    /\ batch' = [batch EXCEPT ![h] = <<>>]
    /\ paused' = [paused EXCEPT ![h] = TRUE]
    /\ drainFailed' = [drainFailed EXCEPT ![h] = TRUE]
    /\ drain' = [drain EXCEPT ![h] = "ended"]

\* The contiguity check failed, or the truncation or the write did and a
\* partial write was rolled back.
WriteFails(h) ==
    /\ drain[h] = "writing" /\ ~MicrotaskPending(h)
    /\ \/ ~Contiguous(h) /\ UNCHANGED failures
       \/ failures < MaxFailures /\ failures' = failures + 1
    /\ RetainBatch(h)
    /\ UNCHANGED <<torn, tornTail>> \/ (tornTail[h] /\ TruncateTorn(h))
    /\ UNCHANGED <<file, lock, writer, crashes, st, nextSeq, cursor, timer, flush, close, stray>>

Looped(h) ==
    /\ drain[h] = "loop" /\ LoopHead(h)
    /\ UNCHANGED <<sharedVars, st, nextSeq, cursor, tornTail, buffered, batch, drainFailed, timer,
                   paused, flush, close, stray>>

\* The finally of drainLive, one microtask after drainBuffered settled: the
\* drain is cleared and its callers continue.
Settled(h) ==
    /\ drain[h] = "ended"
    /\ drain' = [drain EXCEPT ![h] = "idle"]
    /\ flush' = [flush EXCEPT ![h].at = IF @ # "draining" THEN @
                                        ELSE IF drainFailed[h] THEN "failed" ELSE "drained"]
    /\ close' = [close EXCEPT ![h] = IF @ # "draining" THEN @
                                     ELSE IF drainFailed[h] THEN "waiting" ELSE "check"]
    /\ UNCHANGED <<sharedVars, st, nextSeq, cursor, tornTail, buffered, batch, drainFailed, timer, paused,
                   stray>>
-----------------------------------------------------------------------------
(* session/flush *)

Flush(h) ==
    /\ writer = h /\ flush[h].at = "none"
    /\ Called(h)
    /\ flush' = [flush EXCEPT ![h] = [at |-> "draining", upto |-> nextSeq[h], gap |-> drain[h] = "ended"]]
    /\ JoinOrStart(h)
    /\ UNCHANGED <<sharedVars, st, nextSeq, cursor, tornTail, buffered, batch, close>>

\* writer.flush() after the drain: refused once the handle is closing.
FlushReturns(h) ==
    /\ flush[h].at = "drained"
    /\ flush' = [flush EXCEPT ![h].at = IF close[h] = "none" THEN "done" ELSE "failed"]
    /\ UNCHANGED <<sharedVars, st, nextSeq, cursor, tornTail, drainVars, close, stray>>
-----------------------------------------------------------------------------
(* close() *)

Close(h) ==
    /\ st[h] = "open" /\ close[h] = "none"
    /\ close' = [close EXCEPT ![h] = "draining"]
    /\ JoinOrStart(h)
    /\ UNCHANGED <<sharedVars, st, nextSeq, cursor, tornTail, buffered, batch, flush, stray>>

\* Mutant of CloseChecks: close drains once and does not look at the buffer.
CloseDrainsOnce(h) ==
    /\ close[h] = "check" /\ drain[h] # "writing"
    /\ close' = [close EXCEPT ![h] = "waiting"]
    /\ UNCHANGED <<drain, timer, paused, drainFailed>>
    /\ UNCHANGED <<sharedVars, st, nextSeq, cursor, tornTail, buffered, batch, flush, stray>>

\* The look at the buffer after the drain and the chain: another pass, or the
\* final wait.
CloseChecks(h) ==
    /\ close[h] = "check" /\ drain[h] # "writing"
    /\ IF buffered[h] # <<>>
       THEN close' = [close EXCEPT ![h] = "draining"] /\ JoinOrStart(h)
       ELSE close' = [close EXCEPT ![h] = "waiting"] /\ UNCHANGED <<drain, timer, paused, drainFailed>>
    /\ UNCHANGED <<sharedVars, st, nextSeq, cursor, tornTail, buffered, batch, flush, stray>>

\* close() lets go of a batch that a failed write retained, with the timer
\* armed that will drain it.
Retained(h) == paused[h] /\ timer[h] /\ buffered[h] # <<>>

\* What close() leaves behind when it releases the lock.
NoteRelease(h) ==
    stray' = IF stray[h] = "none" /\ Retained(h) THEN [stray EXCEPT ![h] = "retained"] ELSE stray

\* Mutant of CloseWaited: mutations in flight are not waited for.
CloseWaitsNot(h) ==
    /\ close[h] = "waiting"
    /\ close' = [close EXCEPT ![h] = "releasing"]
    /\ NoteRelease(h)
    /\ UNCHANGED <<sharedVars, st, nextSeq, cursor, tornTail, drainVars, flush>>

\* Mutations in flight finish; then the kernel lock is released ...
CloseWaited(h) ==
    /\ close[h] = "waiting" /\ drain[h] \notin {"queued", "writing"}
    /\ close' = [close EXCEPT ![h] = "releasing"]
    /\ NoteRelease(h)
    /\ UNCHANGED <<sharedVars, st, nextSeq, cursor, tornTail, drainVars, flush>>

Unlock(h) ==
    /\ close[h] = "releasing" /\ ~MicrotaskPending(h)
    /\ close' = [close EXCEPT ![h] = "unlocked"]
    /\ lock' = NoHandle
    /\ UNCHANGED <<file, torn, writer, failures, crashes, st, nextSeq, cursor, tornTail, drainVars, flush, stray>>

\* ... and the claim and the live route are dropped.
Release(h) ==
    /\ close[h] = "unlocked"
    /\ close' = [close EXCEPT ![h] = "done"]
    /\ st' = [st EXCEPT ![h] = "closed"]
    /\ writer' = NoHandle
    /\ UNCHANGED <<file, torn, lock, failures, crashes, nextSeq, cursor, tornTail, drainVars, flush, stray>>
-----------------------------------------------------------------------------
\* The process dies: a write in progress leaves any prefix of its batch and
\* possibly a partial record; the kernel drops the lock.
Crash ==
    /\ crashes < MaxCrashes /\ crashes' = crashes + 1
    /\ \E h \in Handles : st[h] = "open"
    /\ \/ UNCHANGED <<file, torn>>
       \/ \E h \in Handles : /\ drain[h] = "writing" /\ Contiguous(h)
                             /\ \E k \in 0..Len(batch[h]) :
                                    /\ file' = file \o SubSeq(batch[h], 1, k)
                                    /\ torn' \in IF k < Len(batch[h]) THEN BOOLEAN ELSE {FALSE}
    /\ lock' = NoHandle /\ writer' = NoHandle
    /\ st' = [h \in Handles |-> IF st[h] = "new" THEN "new" ELSE "dead"]
    /\ buffered' = [h \in Handles |-> <<>>] /\ drain' = [h \in Handles |-> "idle"]
    /\ batch' = [h \in Handles |-> <<>>] /\ timer' = [h \in Handles |-> FALSE]
    /\ flush' = [h \in Handles |-> IF st[h] = "new" THEN flush[h]
                                  ELSE [flush[h] EXCEPT !.at = IF @ \in {"none", "done"} THEN @ ELSE "failed"]]
    /\ close' = [h \in Handles |-> IF st[h] = "new" THEN "none" ELSE "done"]
    /\ UNCHANGED <<failures, nextSeq, cursor, tornTail, drainFailed, paused, stray>>

Drain(h) == TimerFires(h) \/ Splice(h) \/ Written(h) \/ WriteFails(h) \/ Looped(h) \/ Settled(h)
Closing(h) == CloseChecks(h) \/ CloseWaited(h) \/ Unlock(h) \/ Release(h)

Next ==
    \/ \E h \in Handles :
         Open(h) \/ Emit(h) \/ Drain(h) \/ Flush(h) \/ FlushReturns(h) \/ Close(h) \/ Closing(h)
    \/ Crash

Spec == Init /\ [][Next]_vars

\* Timers fire, I/O settles and continuations run.
FairSpec == Spec /\ \A h \in Handles : WF_vars(Drain(h)) /\ WF_vars(Closing(h)) /\ WF_vars(FlushReturns(h))
-----------------------------------------------------------------------------
(* Safety *)

Seqs(n) == [i \in 1..n |-> i - 1]

\* Every variable has its type.
TypeOK ==
    /\ file \in Seq(0..MaxSeq) /\ torn \in BOOLEAN
    /\ lock \in Handles \cup {NoHandle} /\ writer \in Handles \cup {NoHandle}
    /\ failures \in 0..MaxFailures /\ crashes \in 0..MaxCrashes
    /\ st \in [Handles -> {"new", "open", "closed", "dead"}]
    /\ nextSeq \in [Handles -> 0..MaxSeq] /\ cursor \in [Handles -> 0..MaxSeq]
    /\ tornTail \in [Handles -> BOOLEAN]
    /\ buffered \in [Handles -> Seq(0..MaxSeq)] /\ batch \in [Handles -> Seq(0..MaxSeq)]
    /\ drain \in [Handles -> {"idle", "queued", "writing", "loop", "ended"}]
    /\ drainFailed \in [Handles -> BOOLEAN] /\ timer \in [Handles -> BOOLEAN]
    /\ paused \in [Handles -> BOOLEAN]
    /\ flush \in [Handles -> [at : {"none", "draining", "drained", "done", "failed"},
                              upto : 0..MaxSeq, gap : BOOLEAN]]
    /\ close \in [Handles -> CloseStages]
    /\ stray \in [Handles -> {"none", "retained", "late"}]

\* The artifact holds each seq once and in order, over failed writes, retries,
\* crashes and reopening by a writer that must truncate a torn tail first.
ContiguousFile == TypeOK /\ file = Seqs(Len(file))

\* What the open session emitted is, in order, on disk, being written or
\* buffered: no failure, retry or race drops or reorders a live event.
NothingDropped ==
    \A h \in Handles : st[h] = "open" => file \o batch[h] \o buffered[h] = Seqs(nextSeq[h])

\* The kernel lock covers every write, however writes fail and whenever timers
\* fire and callers flush, with two exceptions: a close that gave up on a failing
\* write and left its batch behind with the timer armed, and a call that came
\* after the close's last look at the buffer.
LockCoversWrites == \A h \in Handles : drain[h] = "writing" /\ lock # h => stray[h] # "none"

\* The file is written only by the holder of the kernel lock.
WriterHoldsLock == \A h \in Handles : drain[h] = "writing" => lock = h

\* session/flush is a durability barrier for everything emitted before it,
\* when it starts a drain or joins one that looks at the buffer again.
FlushBarrierOutsideGap ==
    \A h \in Handles : flush[h].at = "done" /\ ~flush[h].gap => flush[h].upto <= Len(file)

\* session/flush is a durability barrier, whenever it is called.
FlushBarrier == \A h \in Handles : flush[h].at = "done" => flush[h].upto <= Len(file)

\* A closed handle whose writes all succeeded stored its whole session.
CloseLosesNothing ==
    \A h \in Handles : st[h] = "closed" /\ failures = 0 => nextSeq[h] <= Len(file)

\* A torn tail is truncated before anything is appended behind it.
TornTailNeverBuried == [][file' # file /\ crashes' = crashes => ~torn']_vars
-----------------------------------------------------------------------------
(* Liveness, under FairSpec *)

\* Buffered events reach the disk, unless a failed write parked them for the
\* next flush or the process died.
BufferDrains == \A h \in Handles : buffered[h] # <<>> ~> (buffered[h] = <<>> \/ paused[h])

\* A flush that started a drain or joined one returns, answered or failed.
FlushReturned == \A h \in Handles : flush[h].at = "draining" ~> flush[h].at \in {"done", "failed"}

\* A close returns, with or without a failing drain.
CloseReturns == \A h \in Handles : close[h] = "draining" ~> close[h] = "done"

\* The buffer is never left with events that nothing will write, and nobody who
\* waits for the drain waits forever: neither a flush nor a close.
DrainProgress == BufferDrains /\ FlushReturned /\ CloseReturns
=============================================================================
