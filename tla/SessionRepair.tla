--------------------------- MODULE SessionRepair ---------------------------
(***************************************************************************)
(* Crash recovery of a session log: the synthetic closers of               *)
(* packages/core/session/src/repair.ts, the resume path of                 *)
(* packages/core/agent-loop/src/index.ts that appends them, fork seeds cut *)
(* inside an open turn (fork.ts), and the durability checkpoints of        *)
(* session-checkpoint-policy that decide what a crash can lose.            *)
(*                                                                         *)
(* The writer is any driver that keeps the log contract and the model      *)
(* order of the tool scheduler (modules AgentLoop and ToolCalls).  A crash *)
(* keeps the durable prefix and any further prefix of what was written.    *)
(***************************************************************************)
EXTENDS SessionTrace, SequencesExt

CONSTANTS
    MaxLog,      \* bound: events written by the driver
    MaxCrashes   \* bound: crashes

ASSUME BoundsAssumption == MaxLog \in Nat /\ MaxCrashes \in Nat

VARIABLES
    mode,        \* "live", "down" after a crash, "repairing" while closers are written
    log,         \* the session's events, in seq order
    trace,       \* the companion's trace of the live log
    durable,     \* length of the prefix known to survive a crash
    ran,         \* history: tool bodies that ran, as <<turn, step, call>>
    crashes      \* history: crashes so far

vars == <<mode, log, trace, durable, ran, crashes>>

-----------------------------------------------------------------------------
(* Repair *)

\* The fold of openTurnClosers: open turn, open step and the step's calls
\* without a result, in transcript order.
Scanned == [openTurn |-> None, openStep |-> None, calls |-> <<>>]

\* pendingCalls.delete: a call is pending once.
Without(calls, call) ==
    IF \E i \in DOMAIN calls : calls[i].call = call
    THEN RemoveAt(calls, CHOOSE i \in DOMAIN calls : calls[i].call = call)
    ELSE calls

ScanEvent(s, e) ==
    CASE e.type = "turn/start"        -> [Scanned EXCEPT !.openTurn = e.turn]
      [] e.type = "turn/end"          -> Scanned
      [] e.type = "step/start"        -> [s EXCEPT !.openStep = e.step]
      [] e.type = "step/end"          -> [s EXCEPT !.openStep = None, !.calls = <<>>]
      [] e.type = "assistant/message" ->
            [s EXCEPT !.calls = @ \o [i \in DOMAIN e.call |-> [call |-> e.call[i], step |-> e.step,
                                                               started |-> FALSE]]]
      [] e.type = "tool/call"         ->
            [s EXCEPT !.calls = [i \in DOMAIN @ |-> IF @[i].call = e.call
                                                    THEN [@[i] EXCEPT !.started = TRUE] ELSE @[i]]]
      [] e.type \in {"tool/result", "tool/not-started"} ->
            [s EXCEPT !.calls = Without(@, e.call)]
      [] OTHER                        -> s

Scans(events) ==
    LET upTo[n \in 0..Len(events)] ==
            IF n = 0 THEN Scanned ELSE ScanEvent(upTo[n - 1], events[n])
    IN  upTo
Scan(events) == Scans(events)[Len(events)]

\* The error result of an unmatched call: TOOL_OUTCOME_UNKNOWN once its
\* tool/call was recorded, TOOL_NOT_STARTED otherwise.
ResultType(c) == IF c.started THEN "tool/result" ELSE "tool/not-started"

\* Mutant of Closers: an open step is not closed before its turn.
ClosersWithoutStepEnd(events) ==
    LET s == Scan(events)
        results == [i \in DOMAIN s.calls |->
                      Event(ResultType(s.calls[i]), s.openTurn, s.calls[i].step, s.calls[i].call)]
    IN  IF s.openTurn = None THEN <<>>
        ELSE results \o <<Event("turn/end", s.openTurn, None, 0)>>

\* Mutant of Closers: the boundaries are closed before the results are written.
ClosersResultsLast(events) ==
    LET s == Scan(events)
        results == [i \in DOMAIN s.calls |->
                      Event(ResultType(s.calls[i]), s.openTurn, s.calls[i].step, s.calls[i].call)]
        stepEnd == IF s.openStep = None THEN <<>> ELSE <<Event("step/end", s.openTurn, s.openStep, 0)>>
    IN  IF s.openTurn = None THEN <<>>
        ELSE stepEnd \o results \o <<Event("turn/end", s.openTurn, None, 0)>>

Closers(events) ==
    LET s == Scan(events)
        results == [i \in DOMAIN s.calls |->
                      Event(ResultType(s.calls[i]), s.openTurn, s.calls[i].step, s.calls[i].call)]
        stepEnd == IF s.openStep = None THEN <<>> ELSE <<Event("step/end", s.openTurn, s.openStep, 0)>>
    IN  IF s.openTurn = None THEN <<>>
        ELSE results \o stepEnd \o <<Event("turn/end", s.openTurn, None, 0)>>

\* Mutant of ForkSeed: the prefix is cut without its closers.
ForkSeedUnclosed(events, boundary) ==
    Append(SubSeq(events, 1, boundary), Event("session/end-seed", None, None, 0))

\* buildForkSeed: an inclusive prefix, the inherited cut, and its closers.
ForkSeed(events, boundary) ==
    LET prefix == Append(SubSeq(events, 1, boundary), Event("session/end-seed", None, None, 0))
    IN  prefix \o Closers(prefix)

\* The companion seeding its trace from a complete log, event by event.
Unseeded == [ok |-> TRUE, trace |-> FreshTrace(FirstTurn)]
Checked(s, e) == [ok |-> s.ok /\ Valid(s.trace, e), trace |-> Fold(s.trace, e)]

Replays(events) ==
    LET upTo[n \in 0..Len(events)] ==
            IF n = 0 THEN Unseeded ELSE Checked(upTo[n - 1], events[n])
    IN  upTo
Replay(events) == Replays(events)[Len(events)]
-----------------------------------------------------------------------------
(* The live session *)

Init ==
    /\ mode = "live" /\ log = <<>> /\ trace = FreshTrace(FirstTurn)
    /\ durable = 0 /\ ran = {} /\ crashes = 0

Write(e) ==
    /\ mode = "live" /\ Len(log) < MaxLog
    /\ Valid(trace, e)
    /\ log' = Append(log, e) /\ trace' = Fold(trace, e)
    /\ UNCHANGED <<mode, durable, ran, crashes>>

\* Tool calls of the open step that still need a result.
Unmatched == Scan(log).calls

Bracket ==
    \/ Write(Event("turn/start", trace.nextTurn, None, 0))
    \/ Write(Event("step/start", trace.openTurn, trace.nextStep, 0))
    \/ Write(Event("step/end", trace.openTurn, trace.openStep, 0))
    \/ Write(Event("turn/end", trace.openTurn, None, 0))

\* The response of a request whose logged prefix was checkpointed first.
Messages == {m \in UNION {[1..n -> CallIds] : n \in 0..Cardinality(CallIds)} : \A i, j \in DOMAIN m : m[i] = m[j] => i = j}

Respond(m) ==
    /\ log # <<>> /\ Last(log).type = "step/start" /\ durable = Len(log)
    /\ Write(Event("assistant/message", trace.openTurn, trace.openStep, m))

\* appendToolCall, in model order.
RecordCall(i) ==
    /\ i \in DOMAIN Unmatched /\ ~Unmatched[i].started
    /\ \A j \in 1..(i - 1) : Unmatched[j].started
    /\ Write(Event("tool/call", trace.openTurn, trace.openStep, Unmatched[i].call))

\* appendToolResult, in model order: from the body, or without running it.
RecordResult ==
    /\ Unmatched # <<>> /\ Head(Unmatched).started
    /\ Write(Event("tool/result", trace.openTurn, trace.openStep, Head(Unmatched).call))

\* A tools/execute checkpoint resolved: the dispatched body runs.
Recorded(type, call) ==
    \E k \in 1..durable : log[k].type = type /\ <<log[k].turn, log[k].step, log[k].call>> = call

\* Mutant of RunBody: the body runs without waiting for the checkpoint.
RunUncheckpointed(i) ==
    /\ mode = "live" /\ i \in DOMAIN Unmatched /\ Unmatched[i].started
    /\ ran' = ran \cup {<<trace.openTurn, trace.openStep, Unmatched[i].call>>}
    /\ UNCHANGED <<mode, log, trace, durable, crashes>>

RunBody(i) ==
    /\ mode = "live" /\ i \in DOMAIN Unmatched
    /\ LET call == <<trace.openTurn, trace.openStep, Unmatched[i].call>>
       IN  Recorded("tool/call", call) /\ ran' = ran \cup {call}
    /\ UNCHANGED <<mode, log, trace, durable, crashes>>

\* A checkpoint or the background batch reached the disk.
Checkpoint ==
    /\ mode = "live" /\ durable < Len(log)
    /\ durable' = Len(log)
    /\ UNCHANGED <<mode, log, trace, ran, crashes>>
-----------------------------------------------------------------------------
(* Crash and resume *)

Crash ==
    /\ mode # "down" /\ crashes < MaxCrashes
    /\ crashes' = crashes + 1
    /\ mode' = "down"
    /\ \E n \in durable..Len(log) : log' = SubSeq(log, 1, n) /\ durable' = n
    /\ UNCHANGED <<trace, ran>>

\* resumeWith: read the stored log and append its closers.
Repair ==
    /\ mode = "down"
    /\ mode' = "repairing"
    /\ log' = log \o Closers(log)
    /\ UNCHANGED <<trace, durable, ran, crashes>>

\* The closers are stored: the session is prepared from the repaired log.
Resume ==
    /\ mode = "repairing"
    /\ mode' = "live" /\ durable' = Len(log)
    /\ trace' = Replay(log).trace
    /\ UNCHANGED <<log, ran, crashes>>

Next ==
    \/ Bracket \/ (\E m \in Messages : Respond(m))
    \/ \E i \in 1..Cardinality(CallIds) : RecordCall(i) \/ RunBody(i)
    \/ RecordResult \/ Checkpoint \/ Crash \/ Repair \/ Resume

Spec == Init /\ [][Next]_vars
-----------------------------------------------------------------------------
(* Properties *)

\* Every variable has its type.
TypeOK ==
    /\ mode \in {"live", "down", "repairing"}
    /\ \A k \in DOMAIN log : log[k].type \in EventTypes
    /\ trace \in Traces
    /\ durable \in 0..Len(log) /\ crashes \in 0..MaxCrashes
    /\ ran \subseteq Nat \X Nat \X CallIds

\* The log satisfies the companion's contract at every moment: as written, as
\* cut by a crash, with its closers, and in what a later turn adds to it.
LogValid == TypeOK /\ Replay(log).ok /\ (mode = "live" => trace = Replay(log).trace)

\* A resumed session starts between turns, and every call of the interrupted
\* step has exactly one result; closed steps are left as they were.
InStep(type, k) == {j \in DOMAIN log : log[j].type = type /\ log[j].turn = log[k].turn /\ log[j].step = log[k].step}
Results(k) == InStep("tool/result", k) \cup InStep("tool/not-started", k)
InterruptedStepAnswered ==
    mode = "repairing" =>
        /\ Replay(log).trace.openTurn = None
        /\ \A k \in (durable + 1)..Len(log) : log[k].type = "step/end" =>
             \A j \in InStep("assistant/message", k) :
                 /\ {log[l].call : l \in Results(k)} = ToSet(log[j].call)
                 /\ Cardinality(Results(k)) = Len(log[j].call)

\* Repair converges: a crash that keeps only part of the closers leads the
\* next resume to the same log.
RepairConverges ==
    LET closers == Closers(log)
    IN  \A k \in 0..Len(closers) :
            LET part == log \o SubSeq(closers, 1, k)
            IN  part \o Closers(part) = log \o closers

\* A call reported as never started had no side effect: its body did not run.
NotStartedNeverRan ==
    \A k \in DOMAIN log :
        log[k].type = "tool/not-started" => <<log[k].turn, log[k].step, log[k].call>> \notin ran

\* No crash loses the record of a body that ran.
SideEffectsRecorded == \A call \in ran : Recorded("tool/call", call)

\* What a resumed session tells the model about calls that a crash interrupted
\* is complete and true: each has one result, one reported as never started had
\* no side effect, and no crash loses the record of a body that ran.
RepairTellsTruth == InterruptedStepAnswered /\ NotStartedNeverRan /\ SideEffectsRecorded

\* A fork seed cut at any event is itself a balanced, contract-abiding log.
ForkSeedsValid ==
    \A b \in DOMAIN log :
        LET seed == Replay(ForkSeed(log, b))
        IN  seed.ok /\ seed.trace.openTurn = None /\ seed.trace.pendingCalls = {}
=============================================================================
