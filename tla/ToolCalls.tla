----------------------------- MODULE ToolCalls -----------------------------
(***************************************************************************)
(* The scheduler of one assistant step's tool calls                        *)
(* (packages/core/agent-loop/src/tool-calls.ts): exclusive calls are       *)
(* barriers, parallel calls share a bounded rolling pool, and results are  *)
(* committed in model order.  Calls are numbered in model order.           *)
(*                                                                         *)
(* pc names the await the scheduler is suspended at; "ready" is the middle *)
(* of a synchronous segment, during which neither a dispatch settles nor   *)
(* the signal aborts.  The tools subsystem (prepare, dispatch, finalize)   *)
(* and the abort signal are the environment.                               *)
(***************************************************************************)
EXTENDS Naturals, FiniteSets, Sequences

CONSTANTS
    N,             \* tool calls of the assistant message
    MaxParallel    \* config.maxParallelToolCalls

ASSUME SchedulerAssumption == N \in Nat \ {0} /\ MaxParallel \in Nat \ {0}

Calls == 1..N

VARIABLES
    pc,
    next,          \* first call of the current group
    last,          \* last call the current group may start
    nextToStart, committed,
    inFlight,      \* dispatched calls not yet taken from the race
    slots,         \* calls whose outcome awaits its ordered commit
    failed,        \* schedulerFailure is set
    signal,        \* the step's signal is aborted
    aborted,       \* the group observed the abort
    trace, event,  \* the session log
    class,         \* history: the mode each call was started under
    logged         \* history: tool/call and tool/result events, in log order

vars == <<pc, next, last, nextToStart, committed, inFlight, slots, failed, signal, aborted,
          trace, event, class, logged>>
logVars == <<trace, event, logged>>
groupVars == <<next, last>>

Log == INSTANCE SessionLog WITH FirstTurn <- 1, CallIds <- Calls

\* Dispatched calls whose promise is pending.
Executing == inFlight \ slots

Modes == {"parallel", "exclusive"}

Append1(type, i) ==
    /\ event' = Log!Event(type, 1, 1, i)
    /\ trace' = Log!Fold(trace, event')
    /\ logged' = Append(logged, <<type, i>>)

Init ==
    /\ pc = "classify" /\ next = 1 /\ last = 0 /\ nextToStart = 1 /\ committed = 1
    /\ inFlight = {} /\ slots = {} /\ failed = FALSE /\ signal = FALSE /\ aborted = FALSE
    /\ trace = [Log!FreshTrace(1) EXCEPT !.openTurn = 1, !.openStep = 1]
    /\ event = Log!Event("assistant/message", 1, 1, 1)
    /\ class = [i \in Calls |-> "none"] /\ logged = <<>>

-----------------------------------------------------------------------------
\* startCall() up to the await of prepare.
StartCall(i, mode) ==
    /\ Append1("tool/call", i)
    /\ class' = [class EXCEPT ![i] = mode]
    /\ pc' = "prepare"

\* Mutant of Classify: an exclusive call opens a pool like a parallel one.
ClassifyIgnoresMode(mode) ==
    /\ pc = "classify" /\ next <= N
    /\ last' = N
    /\ aborted' = signal
    /\ IF signal THEN pc' = "skip" /\ UNCHANGED <<logVars, class>> ELSE StartCall(next, mode)
    /\ UNCHANGED <<next, nextToStart, committed, inFlight, slots, failed, signal>>

\* executeToolCalls' loop head and runGroup's first start: the first call's
\* live mode chooses an exclusive barrier or a pool over everything left.
Classify(mode) ==
    /\ pc = "classify" /\ next <= N
    /\ last' = IF mode = "parallel" THEN N ELSE next
    /\ aborted' = signal
    /\ IF signal THEN pc' = "skip" /\ UNCHANGED <<logVars, class>> ELSE StartCall(next, mode)
    /\ UNCHANGED <<next, nextToStart, committed, inFlight, slots, failed, signal>>

Return ==
    /\ pc = "classify" /\ next > N
    /\ pc' = "done"
    /\ UNCHANGED <<next, last, nextToStart, committed, inFlight, slots, failed, signal, aborted,
                   logVars, class>>

\* The catch clause: a scheduler failure waits for every dispatch to settle.
Fail ==
    /\ failed' = TRUE /\ pc' = "drain"
    /\ UNCHANGED <<groupVars, nextToStart, committed, inFlight, slots, signal, aborted, logVars, class>>

\* prepare() resolved: dispatch the call, or keep the outcome it already has.
Prepared ==
    /\ pc = "prepare" /\ ~failed
    /\ \/ inFlight' = inFlight \cup {nextToStart} /\ UNCHANGED slots
       \/ slots' = slots \cup {nextToStart} /\ UNCHANGED inFlight
    /\ nextToStart' = nextToStart + 1
    /\ pc' = "ready"
    /\ UNCHANGED <<groupVars, committed, failed, signal, aborted, logVars, class>>

\* prepare() rejected, or a dispatch had failed meanwhile.
PrepareFails == pc = "prepare" /\ Fail

\* commitReady(): the next slot in model order is finalized ...
FinalizeNext ==
    /\ pc = "ready" /\ committed <= last /\ committed \in slots
    /\ pc' = "finalize"
    /\ UNCHANGED <<groupVars, nextToStart, committed, inFlight, slots, failed, signal, aborted,
                   logVars, class>>

\* ... and its result logged.
CommitResult ==
    /\ pc = "finalize"
    /\ Append1("tool/result", committed)
    /\ committed' = committed + 1
    /\ pc' = "ready"
    /\ UNCHANGED <<groupVars, nextToStart, inFlight, slots, failed, signal, aborted, class>>

FinalizeFails == pc = "finalize" /\ Fail

\* commitReady() is done; fillPool and the race loop decide what comes next.
CommitsDone == pc = "ready" /\ ~(committed <= last /\ committed \in slots)
\* Mutant of Stop: the signal is not read again after an await.
StopStale == aborted

Stop == aborted \/ signal

MayStart == ~Stop /\ nextToStart <= last /\ Cardinality(inFlight) < MaxParallel

ThrowFailure == CommitsDone /\ failed /\ Fail

StartNext ==
    /\ CommitsDone /\ ~failed /\ MayStart
    /\ StartCall(nextToStart, "parallel")
    /\ UNCHANGED <<groupVars, nextToStart, committed, inFlight, slots, failed, signal, aborted>>

\* Mutant of PoolWaits: after an abort the whole group is skipped again.
PoolSkipsGroup ==
    /\ CommitsDone /\ ~failed
    /\ aborted' = Stop
    /\ \/ inFlight # {} /\ pc' = "race" /\ UNCHANGED next
       \/ inFlight = {} /\ (IF Stop THEN next' = next /\ pc' = "skip"
                                    ELSE next' = nextToStart /\ pc' = "classify")
    /\ UNCHANGED <<last, nextToStart, committed, inFlight, slots, failed, signal, logVars, class>>

\* The pool is full, exhausted or stopped, or the next call was reclassified
\* as exclusive: wait for a dispatch, or end the group.
PoolWaits ==
    /\ CommitsDone /\ ~failed
    /\ aborted' = Stop
    /\ \/ inFlight # {} /\ pc' = "race" /\ UNCHANGED next
       \/ inFlight = {} /\ next' = nextToStart /\ pc' = IF Stop THEN "skip" ELSE "classify"
    /\ UNCHANGED <<last, nextToStart, committed, inFlight, slots, failed, signal, logVars, class>>

\* Mutant of RaceWon: a settled dispatch stays in the race.
RaceWonAgain(i) ==
    /\ pc = "race" /\ i \in inFlight \ Executing
    /\ pc' = "ready"
    /\ UNCHANGED <<groupVars, nextToStart, committed, inFlight, slots, failed, signal, aborted, logVars, class>>

\* Promise.race delivered one settled dispatch.
RaceWon(i) ==
    /\ pc = "race" /\ i \in inFlight \ Executing
    /\ inFlight' = inFlight \ {i}
    /\ pc' = "ready"
    /\ UNCHANGED <<groupVars, nextToStart, committed, slots, failed, signal, aborted, logVars, class>>

\* Mutant of SkipCall: a skipped call's result has no tool/call before it.
SkipCallUnlogged ==
    /\ pc = "skip" /\ next <= N
    /\ pc' = "skipResult"
    /\ UNCHANGED <<groupVars, nextToStart, committed, inFlight, slots, failed, signal, aborted,
                   logVars, class>>

\* After an abort every remaining call gets its synthetic call/result pair.
SkipCall ==
    /\ pc = "skip" /\ next <= N
    /\ Append1("tool/call", next)
    /\ pc' = "skipResult"
    /\ UNCHANGED <<groupVars, nextToStart, committed, inFlight, slots, failed, signal, aborted, class>>

SkipResult ==
    /\ pc = "skipResult"
    /\ Append1("tool/result", next)
    /\ next' = next + 1 /\ nextToStart' = next' /\ committed' = next'
    /\ pc' = "skip"
    /\ UNCHANGED <<last, inFlight, slots, failed, signal, aborted, class>>

SkipDone ==
    /\ pc = "skip" /\ next > N /\ pc' = "done"
    /\ UNCHANGED <<groupVars, nextToStart, committed, inFlight, slots, failed, signal, aborted,
                   logVars, class>>

Throw ==
    /\ pc = "drain" /\ Executing = {}
    /\ pc' = "threw"
    /\ UNCHANGED <<groupVars, nextToStart, committed, inFlight, slots, failed, signal, aborted,
                   logVars, class>>
-----------------------------------------------------------------------------
\* A dispatched tool settles, or its dispatch rejects.
Running == pc \notin {"ready", "done", "threw"}

Settle(i) ==
    /\ Running /\ i \in Executing
    /\ slots' = slots \cup {i}
    /\ UNCHANGED <<pc, groupVars, nextToStart, committed, inFlight, failed, signal, aborted, logVars, class>>

\* A rejected dispatch fills no slot; its entry in the race still settles.
Reject(i) ==
    /\ Running /\ i \in Executing
    /\ failed' = TRUE
    /\ inFlight' = inFlight \ {i}
    /\ pc' = IF pc = "race" THEN "drain" ELSE pc
    /\ UNCHANGED <<groupVars, nextToStart, committed, slots, signal, aborted, logVars, class>>

Abort ==
    /\ Running /\ ~signal /\ signal' = TRUE
    /\ UNCHANGED <<pc, groupVars, nextToStart, committed, inFlight, slots, failed, aborted, logVars, class>>

Scheduler ==
    \/ \E mode \in Modes : Classify(mode)
    \/ Return \/ Prepared \/ PrepareFails \/ FinalizeNext \/ CommitResult \/ FinalizeFails
    \/ ThrowFailure \/ StartNext \/ PoolWaits \/ \E i \in Calls : RaceWon(i)
    \/ SkipCall \/ SkipResult \/ SkipDone \/ Throw

Tools == \E i \in Calls : Settle(i) \/ Reject(i)

Next == Scheduler \/ Tools \/ Abort

Spec == Init /\ [][Next]_vars

\* Prepared and dispatched calls settle; the scheduler's continuations run.
FairSpec == Spec /\ WF_vars(Scheduler) /\ WF_vars(Tools)
-----------------------------------------------------------------------------
\* Every variable has its type.
TypeOK ==
    /\ pc \in {"classify", "prepare", "ready", "finalize", "race", "drain", "skip", "skipResult",
               "done", "threw"}
    /\ next \in 1..(N + 1) /\ last \in 0..N
    /\ nextToStart \in 1..(N + 1) /\ committed \in 1..(N + 1)
    /\ inFlight \subseteq Calls /\ slots \subseteq Calls
    /\ failed \in BOOLEAN /\ signal \in BOOLEAN /\ aborted \in BOOLEAN
    /\ trace \in Log!Traces /\ event \in [type : Log!EventTypes, turn : {1}, step : {1}, call : Calls]
    /\ class \in [Calls -> Modes \cup {"none"}] /\ logged \in Seq({"tool/call", "tool/result"} \X Calls)

IsLogged(type, i) == \E k \in DOMAIN logged : logged[k] = <<type, i>>
CallLogged(i) == IsLogged("tool/call", i)
ResultLogged(i) == IsLogged("tool/result", i)

\* Dispatches overlap, yet the log holds calls and results in model order,
\* each once and none left out.
InModelOrder ==
    \A k \in DOMAIN logged :
        LET type == logged[k][1]
            i == logged[k][2]
        IN  /\ \A m \in 1..(k - 1) : logged[m][1] = type => logged[m][2] < i
            /\ i > 1 => \E m \in 1..(k - 1) : logged[m] = <<type, i - 1>>

\* A scheduler that returned has logged every call and a result for it.
EveryCallAnswered == pc = "done" => \A i \in Calls : CallLogged(i) /\ ResultLogged(i)

\* A result is the outcome of its own dispatch; only a call that cancellation
\* kept from starting gets a synthetic one, and a scheduler failure gets none.
NothingFabricated ==
    \A i \in Calls : ResultLogged(i) => i \in slots \/ (signal /\ ~failed /\ class[i] = "none")

\* However dispatches overlap, settle out of order, fail or are cut short by an
\* abort, a scheduler that returns leaves every model call with one result, in
\* model order, and each result is its own dispatch's, so the next request can
\* replay the assistant message.
Answers == InModelOrder /\ EveryCallAnswered /\ NothingFabricated

\* An exclusive call runs alone: from its tool/call to its result everything
\* before it is committed and nothing after it has started.
Barrier ==
    \A i \in Calls : class[i] = "exclusive" /\ CallLogged(i) /\ ~ResultLogged(i) =>
        /\ \A j \in 1..(i - 1) : ResultLogged(j)
        /\ \A j \in (i + 1)..N : ~CallLogged(j)

\* Never more than maxParallelToolCalls bodies run at once.
PoolBound == Cardinality(Executing) <= MaxParallel

\* Control leaves the scheduler only when no dispatched body is running.
Drained == pc \in {"done", "threw"} => Executing = {}

\* The pool is well typed and bounded, exclusive calls run alone although a call
\* may be reclassified while the pool runs, and no body outlives the batch.
PoolDiscipline == TypeOK /\ Barrier /\ PoolBound /\ Drained

\* An abort stops new calls at once, wherever it lands, and once a dispatch
\* failed no further body starts.
StartDiscipline ==
    [][/\ class' # class => ~signal
       /\ ~(inFlight' \subseteq inFlight) => ~failed]_vars

\* Every tool/result follows its tool/call inside the open step.
ToolLogContract == [][Log!Commit]_<<trace, event>>

\* The tool batch ends: normally, drained by an abort, or by a failure.
BatchEnds == <>(pc \in {"done", "threw"})
=============================================================================
