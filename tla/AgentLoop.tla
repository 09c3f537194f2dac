----------------------------- MODULE AgentLoop -----------------------------
(***************************************************************************)
(* One ReactLoopAgent (packages/core/agent-loop/src/agent.ts): the phase   *)
(* machine, its inbox and the driver coroutine that turns queued messages  *)
(* into turns and steps of the session log.                                *)
(*                                                                         *)
(* The program is single-threaded.  A driver action is one synchronous     *)
(* segment of the coroutine; pc names the await, or the synchronous        *)
(* notification, at which the segment ended and other code may run.  Hosts *)
(* and listeners (send, cancel, maintenance, queue edits) are the          *)
(* environment.  Two kinds of interruption are distinguished:              *)
(*   - at an await or an agent notification anything may be called; a call *)
(*     that notifies half way (send, cancel, the first segment of a driver)*)
(*     stays on the call stack `calls` while its listeners run and goes on *)
(*     when their calls have returned;                                     *)
(*   - inside the publication of the driver's own append (Publishing) a    *)
(*     nested append is rejected, so only a cancel that leaves the inbox   *)
(*     alone can succeed.                                                  *)
(***************************************************************************)
EXTENDS Naturals, Sequences, FiniteSets

CONSTANTS
    Msgs,          \* message identities; each is submitted at most once
    LastTurn,      \* last turn already in the session log at attachment
    MaxSteps,      \* bound: steps per turn that may end in tool calls
    MaxRetries,    \* bound: request retries per step
    NoMsg          \* the frame belongs to no message

ASSUME ConstantsAssumption ==
    /\ LastTurn \in Nat /\ MaxSteps \in Nat \ {0} /\ MaxRetries \in Nat
    /\ NoMsg \notin Msgs

VARIABLES
    \* Phase
    kind,          \* "idle", "maintenance" or "running"
    turn, step,    \* phase.turn (lastTurn when idle) and phase.step
    cause,         \* cause that aborted the phase's controller, or "none"
    wakeRequested, \* the wake latch of a maintenance or running phase
    \* inbox
    nextTurn, nextStep,
    \* driver coroutine
    pc, target, batch, decision, turnEnds, stepEnd, attempt,
    replay,        \* kick's finally published idle and has yet to replay its latch
    calls,         \* calls interrupted by their own listeners, innermost first
    \* the session log
    trace, event,
    \* history variables, read by properties only
    fate,          \* what became of each message
    owed,          \* latched waking messages that no turn has honoured yet
    swept,         \* those of them that a listener of a cancel's own clear sent
    live,          \* waking messages accepted by a live driver before its last check
    ordinary,      \* next-turn messages claimed by the current turn
    parked,        \* a running activity was cancelled and nothing woke it since
    disposing,     \* a disposed-cause cancel was issued
    late           \* waking messages submitted to an aborted activity under disposal

phaseVars == <<kind, turn, step, cause, wakeRequested>>
inboxVars == <<nextTurn, nextStep>>
localVars == <<target, batch, decision, turnEnds, stepEnd, attempt>>
logVars   == <<trace, event>>
vars == <<phaseVars, inboxVars, localVars, pc, replay, calls, logVars,
          fate, owed, swept, live, ordinary, parked, disposing, late>>

Log == INSTANCE SessionLog WITH FirstTurn <- LastTurn + 1, CallIds <- {}

Kinds   == {"idle", "maintenance", "running"}
Causes  == {"user", "disposed"}
Targets == {"next-turn", "next-step"}
PCs == {"off", "kicked", "opened", "assembling", "preStepping", "decided", "requesting",
        "prepared", "streaming", "failed", "tools", "stepDone", "stepThrew", "stepped",
        "stopping", "caught", "failing", "closed", "exiting"}

\* A frame of the call stack, named for the point at which its call resumes:
\* send at wakeDriver(), cancel at clear()'s second splice or behind clear(),
\* wakeDriver inside the first synchronous segment of the driver it started.
SendFrame(m, afterAbort) ==
    [at |-> "wake", msg |-> m, afterAbort |-> afterAbort, cause |-> "none"]
CancelFrame(at, c) == [at |-> at, msg |-> NoMsg, afterAbort |-> FALSE, cause |-> c]
KickFrame == [at |-> "kick", msg |-> NoMsg, afterAbort |-> FALSE, cause |-> "none"]

SeqSet(s) == {s[i] : i \in DOMAIN s}
Pending == SeqSet(nextTurn) \cup SeqSet(nextStep)
HasPending == nextTurn # <<>> \/ nextStep # <<>>
Aborted == cause # "none"

\* No call is in the middle of its synchronous segment, so an awaited
\* continuation may run.
Quiet == calls = <<>> /\ ~replay

\* The innermost interrupted call resumes at the given point.
Resumes(at) == calls # <<>> /\ Head(calls).at = at

\* A cancel is between its clear of the inbox and its reset of the latch.
Clearing == \E f \in SeqSet(calls) : f.at \in {"clearTurn", "abort"}

\* Listeners that run here run inside the driver's own append.
Publishing == pc \in {"opened", "stepped", "caught", "closed"}

Init ==
    /\ kind = "idle" /\ turn = LastTurn /\ step = 0 /\ cause = "none" /\ wakeRequested = FALSE
    /\ nextTurn \in {<<>>} \cup {<<m>> : m \in Msgs} /\ nextStep = <<>>
    /\ pc = "off" /\ target = "next-turn" /\ batch = <<>> /\ decision = "none"
    /\ turnEnds = "null" /\ stepEnd = "null" /\ attempt = 0
    /\ replay = FALSE /\ calls = <<>>
    /\ trace = Log!FreshTrace(LastTurn + 1)
    /\ event = Log!Event("session/end-seed", 0, 0, "none")
    /\ fate = [m \in Msgs |-> IF nextTurn = <<m>> THEN "pending" ELSE "new"]
    /\ owed = {} /\ swept = {} /\ live = {} /\ ordinary = 0 /\ parked = FALSE /\ disposing = FALSE
    /\ late = {}

-----------------------------------------------------------------------------
(* Shared pieces *)

\* Session.append of one core execution event by the driver.
AppendEvent(type, t, s) ==
    /\ event' = Log!Event(type, t, s, "none")
    /\ trace' = Log!Fold(trace, event')

\* A new running phase with a fresh controller, and the kicked coroutine, whose
\* first segment runs before the calls it was started from go on.
StartDriver(outer) ==
    /\ kind' = "running" /\ step' = 0 /\ cause' = "none" /\ wakeRequested' = FALSE
    /\ pc' = "kicked"
    /\ calls' = <<KickFrame>> \o outer

\* Mutant of Latches: a disposed activity latches wakes like any other.
LatchesAlways(afterAbort) == kind # "idle" /\ (kind = "maintenance" \/ afterAbort)

\* Whether wakeDriver latches instead of starting a driver.
Latches(afterAbort) ==
    /\ kind # "idle" /\ cause # "disposed"
    /\ kind = "maintenance" \/ afterAbort

\* wakeDriver(): start a driver, latch behind an activity that cannot deliver
\* the wake, or rely on the live driver.
WakeDriver(afterAbort, outer) ==
    \/ kind = "idle" /\ StartDriver(outer) /\ UNCHANGED turn
    \/ /\ kind # "idle"
       /\ wakeRequested' = (wakeRequested \/ Latches(afterAbort))
       /\ calls' = outer
       /\ UNCHANGED <<kind, turn, step, cause, pc>>

\* Bookkeeping of a waking send of m for the properties.
NoteWake(m, afterAbort) ==
    /\ LET latched == IF Latches(afterAbort) /\ m \in Pending' THEN {m} ELSE {}
       IN  IF Clearing THEN swept' = swept \cup latched /\ UNCHANGED owed
                       ELSE owed' = owed \cup latched /\ UNCHANGED swept
    /\ live' = IF kind # "maintenance" /\ ~Aborted /\ pc \notin {"failing", "exiting"} /\ m \in Pending'
               THEN live \cup {m} ELSE live
    /\ late' = IF disposing /\ afterAbort THEN late \cup {m} ELSE late
    /\ parked' = FALSE

WakeAfterAbort == kind # "idle" /\ Aborted

\* splice(resolvedTarget, Infinity, 0, [message])
Insert(m, tgt) ==
    /\ fate[m] = "new"
    /\ fate' = [fate EXCEPT ![m] = "pending"]
    /\ IF tgt = "next-turn"
       THEN nextTurn' = Append(nextTurn, m) /\ UNCHANGED nextStep
       ELSE nextStep' = Append(nextStep, m) /\ UNCHANGED nextTurn

\* Waking input cannot join an aborted activity: it starts the next turn.
Resolved(tgt) == IF WakeAfterAbort THEN "next-turn" ELSE tgt

\* Callers hold the agent until its registries drop it: after disposal began,
\* only while the last activity still converges.
Reachable == disposing => kind # "idle"
-----------------------------------------------------------------------------
(* Callers: send, cancel, runMaintenance, inbox edits *)

\* inject(m): next-step input that wakes nobody.
Inject(m) ==
    /\ Reachable /\ ~Publishing
    /\ Insert(m, "next-step")
    /\ UNCHANGED <<phaseVars, localVars, pc, replay, calls, logVars, owed, swept, live, ordinary,
                   parked, disposing, late>>

\* followup(m) and steer(m) up to the listeners of agent/inbox/inserted, which
\* run between the insertion and wakeDriver().
SendInsert(m, tgt) ==
    /\ Reachable /\ ~Publishing
    /\ Insert(m, Resolved(tgt))
    /\ calls' = <<SendFrame(m, WakeAfterAbort)>> \o calls
    /\ UNCHANGED <<phaseVars, localVars, pc, replay, logVars, owed, swept, live, ordinary, parked,
                   disposing, late>>

SendWake ==
    /\ Resumes("wake")
    /\ UNCHANGED inboxVars
    /\ WakeDriver(Head(calls).afterAbort, Tail(calls))
    /\ NoteWake(Head(calls).msg, Head(calls).afterAbort)
    /\ UNCHANGED <<localVars, replay, logVars, fate, ordinary, disposing>>

\* Drop the messages of ms from the history sets.
Forget(ms) == owed' = owed \ ms /\ swept' = swept \ ms /\ live' = live \ ms

\* The wakes latched so far need no turn any more.
Settled == owed' = {} /\ swept' = {}

\* abort.abort(cause), the end of every cancel: the first cause wins.
Abort(c) ==
    /\ cause' = IF kind # "idle" /\ ~Aborted THEN c ELSE cause
    /\ IF kind = "running" /\ ~Aborted THEN Settled ELSE UNCHANGED <<owed, swept>>
    /\ live' = IF kind = "idle" THEN live ELSE {}
    /\ parked' = (parked \/ (kind = "running" /\ ~Aborted))
    /\ disposing' = (disposing \/ c = "disposed")
    /\ UNCHANGED <<kind, turn, step, inboxVars, localVars, pc, replay, logVars, fate, ordinary,
                   late>>

\* cancel(cause, { keepInbox }) that discards no message is never interrupted.
Cancel(c, keepInbox) ==
    /\ keepInbox \/ ~HasPending
    /\ wakeRequested' = (wakeRequested /\ keepInbox)
    /\ Abort(c)
    /\ UNCHANGED calls

\* inbox.clear() splices a list that holds messages; listeners of
\* agent/inbox/discarded run before the cancel goes on at the given point.
Discard(ms, at, c, outer) ==
    /\ fate' = [m \in Msgs |-> IF m \in ms THEN "discarded" ELSE fate[m]]
    /\ Forget(ms) /\ late' = late \ ms
    /\ calls' = <<CancelFrame(at, c)>> \o outer
    /\ UNCHANGED <<phaseVars, localVars, pc, replay, logVars, ordinary, parked, disposing>>

ClearNextStep(c) ==
    /\ nextStep # <<>> /\ nextStep' = <<>> /\ UNCHANGED nextTurn
    /\ Discard(SeqSet(nextStep), "clearTurn", c, calls)

ClearNextTurn(c, outer) ==
    /\ nextTurn # <<>> /\ nextTurn' = <<>> /\ UNCHANGED nextStep
    /\ Discard(SeqSet(nextTurn), "abort", c, outer)

\* cancel(cause) up to the first list it empties.
CancelClears(c) ==
    /\ ~Publishing
    /\ ClearNextStep(c) \/ (nextStep = <<>> /\ ClearNextTurn(c, calls))

\* The rest of clear(): the next-turn list as the listeners left it.
CancelClearsTurn == Resumes("clearTurn") /\ ClearNextTurn(Head(calls).cause, Tail(calls))

\* The rest of cancel(): the latch is reset, whoever set it, and the phase aborted.
CancelAborts ==
    /\ Resumes("abort") \/ (Resumes("clearTurn") /\ nextTurn = <<>>)
    /\ wakeRequested' = FALSE
    /\ Abort(Head(calls).cause)
    /\ calls' = Tail(calls)

\* locate(messageId): the message in one of the two lists, spliced out.
Without(s, i) == SubSeq(s, 1, i - 1) \o SubSeq(s, i + 1, Len(s))

\* inbox.remove(messageId): a host withdraws one pending message.
Remove(m) ==
    /\ Reachable /\ ~Publishing
    /\ \/ /\ UNCHANGED nextStep
          /\ \E i \in DOMAIN nextTurn : nextTurn[i] = m /\ nextTurn' = Without(nextTurn, i)
       \/ /\ UNCHANGED nextTurn
          /\ \E i \in DOMAIN nextStep : nextStep[i] = m /\ nextStep' = Without(nextStep, i)
    /\ fate' = [fate EXCEPT ![m] = "discarded"]
    /\ Forget({m}) /\ late' = late \ {m}
    /\ UNCHANGED <<phaseVars, localVars, pc, replay, calls, logVars, ordinary, parked,
                   disposing>>

RunMaintenance ==
    /\ Reachable /\ kind = "idle"
    /\ kind' = "maintenance" /\ cause' = "none" /\ wakeRequested' = FALSE
    /\ UNCHANGED <<turn, step, inboxVars, localVars, pc, replay, calls, logVars, fate, owed,
                   swept, live, ordinary, parked, disposing, late>>

\* Mutant of MaintenanceEnd: the latch is cleared without being replayed.
MaintenanceForgetsWake ==
    /\ kind = "maintenance" /\ Quiet
    /\ kind' = "idle" /\ cause' = "none" /\ wakeRequested' = FALSE
    /\ UNCHANGED <<step, pc, calls>>
    /\ IF cause = "disposed" THEN Settled ELSE UNCHANGED <<owed, swept>>
    /\ UNCHANGED <<turn, inboxVars, localVars, replay, logVars, fate, live, ordinary,
                   parked, disposing, late>>

\* The maintenance job settled: publish idle and replay the latch.
MaintenanceEnd ==
    /\ kind = "maintenance" /\ Quiet
    /\ IF cause # "disposed" /\ wakeRequested /\ HasPending
       THEN StartDriver(calls)
       ELSE /\ kind' = "idle" /\ cause' = "none" /\ wakeRequested' = FALSE
            /\ UNCHANGED <<step, pc, calls>>
    /\ IF cause = "disposed" THEN Settled ELSE UNCHANGED <<owed, swept>>
    /\ UNCHANGED <<turn, inboxVars, localVars, replay, logVars, fate, live, ordinary,
                   parked, disposing, late>>
-----------------------------------------------------------------------------
(* The driver coroutine: kick, turn, preStep, step *)

\* A driver segment may run: a continuation once the call stack is empty, the
\* first segment of a driver inside the call that started it.
Driver(at) ==
    /\ kind = "running" /\ pc = at
    /\ Quiet \/ (at \in {"kicked", "opened"} /\ Resumes("kick"))

\* What a driver segment leaves alone unless it says otherwise.
PhaseUnchanged == UNCHANGED <<kind, cause, wakeRequested, replay, parked, disposing, late>>
HostUnchanged == PhaseUnchanged /\ UNCHANGED calls
QueueUnchanged == UNCHANGED <<inboxVars, owed, swept, live, ordinary>>

\* The segment ends, with it the call of the driver's first segment.
Returns == calls' = IF calls = <<>> THEN calls ELSE Tail(calls)

\* Mutant of Claim: the claimed next-step input stays queued.
ClaimCopies(tgt) ==
    LET prompts == IF tgt = "next-turn" /\ nextTurn # <<>> THEN <<Head(nextTurn)>> ELSE <<>>
        claimed == nextStep \o prompts
    IN  /\ batch' = claimed
        /\ UNCHANGED nextStep
        /\ nextTurn' = IF prompts = <<>> THEN nextTurn ELSE Tail(nextTurn)
        /\ fate' = [m \in Msgs |-> IF m \in SeqSet(claimed) THEN "claimed" ELSE fate[m]]
        /\ Forget(SeqSet(claimed))
        /\ ordinary' = ordinary + Len(prompts)

\* claim(target): all next-step input and, at a turn boundary, one prompt.
Claim(tgt) ==
    LET prompts == IF tgt = "next-turn" /\ nextTurn # <<>> THEN <<Head(nextTurn)>> ELSE <<>>
        claimed == nextStep \o prompts
    IN  /\ batch' = claimed
        /\ nextStep' = <<>>
        /\ nextTurn' = IF prompts = <<>> THEN nextTurn ELSE Tail(nextTurn)
        /\ fate' = [m \in Msgs |-> IF m \in SeqSet(claimed) THEN "claimed" ELSE fate[m]]
        /\ Forget(SeqSet(claimed))
        /\ ordinary' = ordinary + Len(prompts)

\* The claimed batch ends here: it never becomes a user/message.
DropBatch ==
    /\ batch' = <<>>
    /\ fate' = [m \in Msgs |-> IF m \in SeqSet(batch) THEN "dropped" ELSE fate[m]]

\* turn/end with a reason, kept in turnEnds.
AppendTurnEnd(reason) ==
    /\ turnEnds' = reason
    /\ AppendEvent("turn/end", turn, 0)

\* The catch clause of turn(): an aborted turn closes at once, a failed turn
\* first reports agent/error.
CatchThrow ==
    /\ \/ Aborted /\ AppendTurnEnd("aborted") /\ pc' = "exiting" /\ UNCHANGED live
       \/ ~Aborted /\ turnEnds' = "error" /\ pc' = "failing" /\ live' = {} /\ UNCHANGED logVars
    /\ DropBatch
    /\ UNCHANGED <<turn, step, inboxVars, target, decision, stepEnd, attempt, owed, swept,
                   ordinary>>
    /\ PhaseUnchanged /\ Returns

\* turn() up to the publication of turn/start.
TurnStart ==
    /\ Driver("kicked") /\ ~Aborted
    /\ turn' = turn + 1
    /\ AppendEvent("turn/start", turn', 0)
    /\ turnEnds' = "null" /\ target' = "next-turn" /\ ordinary' = 0 /\ Settled
    /\ pc' = "opened"
    /\ UNCHANGED <<step, inboxVars, batch, decision, stepEnd, attempt, fate, live>>
    /\ HostUnchanged

\* Mutant of TurnNotStarted: the driver retries while the inbox holds messages.
TurnNotStartedRetries ==
    /\ Driver("kicked")
    /\ pc' = (IF HasPending THEN "kicked" ELSE "exiting") /\ live' = {}
    /\ IF Aborted THEN UNCHANGED <<owed, swept>> ELSE Settled
    /\ UNCHANGED <<turn, step, inboxVars, localVars, logVars, fate, ordinary>>
    /\ PhaseUnchanged /\ Returns

\* Aborted before turn/start, or turn/start was vetoed: no turn opens.
TurnNotStarted ==
    /\ Driver("kicked")
    /\ pc' = "exiting" /\ live' = {}
    /\ IF Aborted THEN UNCHANGED <<owed, swept>> ELSE Settled
    /\ UNCHANGED <<turn, step, inboxVars, localVars, logVars, fate, ordinary>>
    /\ PhaseUnchanged /\ Returns

\* The loop head of turn(): the abort check, then preStep's claim.
ClaimStep ==
    /\ Driver("opened") /\ ~Aborted
    /\ Claim(target)
    /\ pc' = "assembling"
    /\ UNCHANGED <<turn, step, target, decision, turnEnds, stepEnd, attempt, logVars>>
    /\ PhaseUnchanged /\ Returns

OpenedAborted == Driver("opened") /\ Aborted /\ CatchThrow

\* systemPrompt.assemble() resolved.
Assembled ==
    /\ Driver("assembling") /\ ~Aborted
    /\ pc' = "preStepping"
    /\ UNCHANGED <<turn, step, localVars, logVars, fate>>
    /\ QueueUnchanged /\ HostUnchanged

\* The agent/pre-step waterfall decided: "reject", "enter" with messages (the
\* batch, or runtime context and listener messages alone), or "empty", an enter
\* decision that carries no message.
PreStepDecided(d) ==
    /\ Driver("preStepping") /\ ~Aborted
    /\ decision' = d
    /\ IF d = "enter" THEN UNCHANGED <<batch, fate>> ELSE DropBatch
    /\ pc' = "decided"
    /\ UNCHANGED <<turn, step, target, turnEnds, stepEnd, attempt, logVars>>
    /\ QueueUnchanged /\ HostUnchanged

\* An await of turn() or preStep() rejected, or resolved under an abort.
AwaitThrows ==
    /\ \E at \in {"assembling", "preStepping", "stopping"} : Driver(at)
    /\ CatchThrow

\* Mutant of TurnWithoutStep: the turn ends with the decision, not its reason.
TurnEndsWithDecision ==
    /\ Driver("decided")
    /\ decision = "reject" \/ (decision = "empty" /\ turnEnds = "null" /\ step = 0)
    /\ AppendTurnEnd(decision) /\ live' = {}
    /\ pc' = "exiting"
    /\ UNCHANGED <<turn, step, inboxVars, target, batch, decision, stepEnd, attempt, fate, owed,
                   swept, ordinary>>
    /\ HostUnchanged

\* A rejected step, or an empty first batch, closes the turn without a step;
\* turn() returns false without looking at the inbox.
TurnWithoutStep ==
    /\ Driver("decided")
    /\ \/ decision = "reject" /\ AppendTurnEnd("blocked") /\ live' = {}
       \/ /\ decision = "empty" /\ turnEnds = "null" /\ step = 0
          /\ AppendTurnEnd("completed") /\ UNCHANGED live
    /\ pc' = "exiting"
    /\ UNCHANGED <<turn, step, inboxVars, target, batch, decision, stepEnd, attempt, fate, owed,
                   swept, ordinary>>
    /\ HostUnchanged

\* A continuation whose batch was rewritten to nothing ends the turn.
TurnBreak ==
    /\ Driver("decided") /\ decision = "empty" /\ turnEnds # "null"
    /\ AppendTurnEnd(turnEnds)
    /\ pc' = "closed"
    /\ UNCHANGED <<turn, step, target, batch, decision, stepEnd, attempt, fate>>
    /\ QueueUnchanged /\ HostUnchanged

\* A step opens.
EntersStep == decision = "enter" \/ (decision = "empty" /\ turnEnds = "null" /\ step > 0)

StepStart ==
    /\ Driver("decided") /\ EntersStep /\ ~Aborted
    /\ step' = step + 1
    /\ AppendEvent("step/start", turn, step')
    /\ attempt' = 0 /\ stepEnd' = "null" /\ decision' = "none"
    /\ pc' = "requesting"
    /\ UNCHANGED <<turn, target, batch, turnEnds, fate>>
    /\ QueueUnchanged /\ HostUnchanged

DecidedAborted == Driver("decided") /\ EntersStep /\ Aborted /\ CatchThrow

\* A throw inside step() reaches turn()'s finally one microtask later.
StepThrows(at) ==
    /\ Driver(at)
    /\ pc' = "stepThrew"
    /\ UNCHANGED <<turn, step, localVars, fate>>
    /\ QueueUnchanged /\ HostUnchanged

\* agent/request or prepareCall rejected or resolved under an abort; or
\* buildRequest found the abort after admission; or the request-error
\* waterfall gave up; or the tool batch failed.
StepAwaitThrows ==
    /\ \E at \in {"requesting", "failed", "tools"} : StepThrows(at)
    /\ UNCHANGED logVars

\* prepareRequest() resolved with a live signal.
RequestPrepared ==
    /\ Driver("requesting") /\ ~Aborted
    /\ pc' = "prepared"
    /\ UNCHANGED <<turn, step, localVars, logVars, fate>>
    /\ QueueUnchanged /\ HostUnchanged

\* buildRequest(): the request is logged before the abort is observed, so an
\* admitted request is recorded even when no stream starts.
BuildRequest == pc' = IF Aborted THEN "stepThrew" ELSE "streaming"

\* One synchronous segment: system and user messages are committed, the users
\* on the first attempt only, and the request is built.
Admit ==
    /\ Driver("prepared")
    /\ AppendEvent("system/message", turn, step)
    /\ IF attempt = 0
       THEN /\ fate' = [m \in Msgs |-> IF m \in SeqSet(batch) THEN "logged" ELSE fate[m]]
            /\ batch' = <<>>
       ELSE UNCHANGED <<batch, fate>>
    /\ BuildRequest
    /\ UNCHANGED <<turn, step, target, decision, turnEnds, stepEnd, attempt>>
    /\ QueueUnchanged /\ HostUnchanged

\* The stream threw or was aborted: its prefix is settled durably first.
StreamThrows ==
    /\ StepThrows("streaming")
    /\ \/ AppendEvent("assistant/attempt", turn, step)
       \/ Aborted /\ AppendEvent("assistant/message", turn, step)

\* The stream finished with an error: settle the attempt and ask for a retry.
RequestFailed ==
    /\ Driver("streaming") /\ ~Aborted
    /\ AppendEvent("assistant/attempt", turn, step)
    /\ pc' = "failed"
    /\ UNCHANGED <<turn, step, localVars, fate>>
    /\ QueueUnchanged /\ HostUnchanged

Retry ==
    /\ Driver("failed") /\ ~Aborted /\ attempt < MaxRetries
    /\ attempt' = attempt + 1
    /\ pc' = "requesting"
    /\ UNCHANGED <<turn, step, target, batch, decision, turnEnds, stepEnd, logVars, fate>>
    /\ QueueUnchanged /\ HostUnchanged

\* The stream finished: without tool calls the step is over, with them the
\* batch runs.
Responded(end) ==
    /\ Driver("streaming") /\ ~Aborted
    /\ AppendEvent("assistant/message", turn, step)
    /\ IF end = "tools" THEN step < MaxSteps /\ pc' = "tools" /\ UNCHANGED stepEnd
                        ELSE pc' = "stepDone" /\ stepEnd' = end
    /\ UNCHANGED <<turn, step, target, batch, decision, turnEnds, attempt, fate>>
    /\ QueueUnchanged /\ HostUnchanged

\* executeToolCalls() returned, also when an abort drained it: a concluding
\* result ends the turn, otherwise the turn continues (null).
ToolsReturned ==
    /\ Driver("tools")
    /\ stepEnd' \in {"completed", "null"}
    /\ pc' = "stepDone"
    /\ UNCHANGED <<turn, step, target, batch, decision, turnEnds, attempt, logVars, fate>>
    /\ QueueUnchanged /\ HostUnchanged

\* A committed tool result stages its context in the next-step list.
ToolContext(m) ==
    /\ Driver("tools") /\ Insert(m, "next-step")
    /\ UNCHANGED <<turn, step, localVars, pc, logVars, owed, swept, live, ordinary>>
    /\ HostUnchanged

\* Mutant of Sticky: the last step's outcome replaces an earlier max-tokens.
NotSticky(end) == end

\* turnEnds after a step returned: max-tokens is sticky.
Sticky(end) == IF turnEnds = "max-tokens" THEN turnEnds ELSE end

\* step() settled: turn() records its outcome and appends step/end.
StepEnd ==
    /\ \E at \in {"stepDone", "stepThrew"} :
         /\ Driver(at)
         /\ turnEnds' = IF at = "stepDone" THEN Sticky(stepEnd) ELSE turnEnds
         /\ pc' = IF at = "stepDone" THEN "stepped" ELSE "caught"
    /\ AppendEvent("step/end", turn, step)
    /\ UNCHANGED <<turn, step, target, batch, decision, stepEnd, attempt, fate>>
    /\ QueueUnchanged /\ HostUnchanged

CaughtThrow == Driver("caught") /\ CatchThrow
SteppedAborted == Driver("stepped") /\ Aborted /\ CatchThrow

\* Mutant of NextStepClaim: a later step claims a prompt as well.
NextStepClaimsPrompt ==
    /\ target' = "next-step"
    /\ Claim("next-turn")
    /\ pc' = "assembling"
    /\ UNCHANGED <<turn, step, decision, turnEnds, stepEnd, attempt, logVars>>
    /\ HostUnchanged

\* The loop's back edge: the next step claims next-step input only.
NextStepClaim ==
    /\ target' = "next-step"
    /\ Claim("next-step")
    /\ pc' = "assembling"
    /\ UNCHANGED <<turn, step, decision, turnEnds, stepEnd, attempt, logVars>>
    /\ HostUnchanged

\* A step that ended the turn offers agent/turn-stopping when no steering waits.
StepSettled ==
    /\ Driver("stepped") /\ ~Aborted
    /\ \/ turnEnds # "null" /\ nextStep = <<>> /\ pc' = "stopping"
          /\ UNCHANGED <<turn, step, localVars, logVars, fate>> /\ QueueUnchanged /\ HostUnchanged
       \/ (turnEnds = "null" \/ nextStep # <<>>) /\ NextStepClaim

\* The turn-stopping listeners settled: steering they queued keeps the turn.
TurnStopped ==
    /\ Driver("stopping") /\ ~Aborted
    /\ \/ /\ nextStep = <<>> /\ AppendTurnEnd(turnEnds) /\ pc' = "closed"
          /\ UNCHANGED <<turn, step, target, batch, decision, stepEnd, attempt, fate>>
          /\ QueueUnchanged /\ HostUnchanged
       \/ nextStep # <<>> /\ NextStepClaim

\* agent/error was reported: the failed turn closes.
FailClose ==
    /\ Driver("failing")
    /\ AppendTurnEnd(turnEnds) /\ pc' = "exiting"
    /\ UNCHANGED <<turn, step, target, batch, decision, stepEnd, attempt, fate>>
    /\ QueueUnchanged /\ HostUnchanged

\* Mutant of TurnClosed: the step counter survives into the next turn.
TurnClosedKeepsStep ==
    /\ Driver("closed")
    /\ IF HasPending
       THEN /\ cause' = "none" /\ wakeRequested' = FALSE /\ pc' = "kicked" /\ UNCHANGED step
       ELSE pc' = "exiting" /\ UNCHANGED <<cause, wakeRequested, step>>
    /\ UNCHANGED <<kind, turn, replay, calls, localVars, logVars, fate, parked, disposing, late>>
    /\ QueueUnchanged

\* turn() after its turn/end: hand over to the next turn or return false.
TurnClosed ==
    /\ Driver("closed")
    /\ IF HasPending
       THEN /\ cause' = "none" /\ wakeRequested' = FALSE /\ step' = 0 /\ pc' = "kicked"
       ELSE pc' = "exiting" /\ UNCHANGED <<cause, wakeRequested, step>>
    /\ UNCHANGED <<kind, turn, replay, calls, localVars, logVars, fate, parked, disposing, late>>
    /\ QueueUnchanged

\* kick()'s finally, up to the publication of the idle status.
KickFinally ==
    /\ Driver("exiting")
    /\ kind' = "idle" /\ step' = 0 /\ cause' = "none" /\ wakeRequested' = FALSE
    /\ pc' = "off" /\ replay' = wakeRequested
    /\ UNCHANGED <<turn, localVars, calls, logVars, fate, parked, disposing, late>>
    /\ QueueUnchanged

\* The rest of kick()'s finally, after the listeners of the idle status ran.
ReplayLatch ==
    /\ replay /\ calls = <<>>
    /\ replay' = FALSE
    /\ IF HasPending THEN WakeDriver(FALSE, calls) ELSE UNCHANGED <<phaseVars, pc, calls>>
    /\ UNCHANGED <<inboxVars, localVars, logVars, fate, owed, swept, live, ordinary, parked,
                   disposing, late>>
-----------------------------------------------------------------------------
(* Specification *)

TurnStep ==
    \/ TurnStart \/ TurnNotStarted \/ OpenedAborted \/ ClaimStep \/ Assembled
    \/ \E d \in {"reject", "enter", "empty"} : PreStepDecided(d)
    \/ AwaitThrows \/ TurnWithoutStep \/ TurnBreak \/ StepStart \/ DecidedAborted
    \/ StepEnd \/ CaughtThrow \/ SteppedAborted \/ StepSettled \/ TurnStopped
    \/ FailClose \/ TurnClosed \/ KickFinally

RequestStep ==
    \/ RequestPrepared \/ Admit \/ StreamThrows \/ RequestFailed \/ Retry \/ StepAwaitThrows
    \/ \E end \in {"completed", "max-tokens", "tools"} : Responded(end)
    \/ ToolsReturned

\* The activity's own progress, including the synchronous tails of send, cancel
\* and kick.
Progress ==
    \/ TurnStep \/ RequestStep \/ MaintenanceEnd \/ ReplayLatch
    \/ SendWake \/ CancelClearsTurn \/ CancelAborts

Environment ==
    \/ \E m \in Msgs : \/ Inject(m) \/ \E tgt \in Targets : SendInsert(m, tgt)
                       \/ Remove(m) \/ ToolContext(m)
    \/ \E c \in Causes : CancelClears(c) \/ \E keep \in BOOLEAN : Cancel(c, keep)
    \/ RunMaintenance

Next == Progress \/ Environment

Spec == Init /\ [][Next]_vars

\* Every await of the loop settles: adapters, tools and listeners answer or
\* observe the abort signal.
FairSpec == Spec /\ WF_vars(Progress)
-----------------------------------------------------------------------------
(* Type correctness *)

MsgSeq == Seq(Msgs)

Frames == {SendFrame(m, afterAbort) : m \in Msgs, afterAbort \in BOOLEAN}
          \cup {CancelFrame(at, c) : at \in {"clearTurn", "abort"}, c \in Causes}
          \cup {KickFrame}

\* Every variable has its type.
TypeOK ==
    /\ kind \in Kinds /\ turn \in Nat /\ step \in Nat /\ cause \in Causes \cup {"none"}
    /\ wakeRequested \in BOOLEAN
    /\ nextTurn \in MsgSeq /\ nextStep \in MsgSeq
    /\ pc \in PCs /\ target \in Targets /\ batch \in MsgSeq
    /\ decision \in {"none", "reject", "enter", "empty"}
    /\ turnEnds \in {"null", "completed", "max-tokens", "blocked", "aborted", "error"}
    /\ stepEnd \in {"null", "completed", "max-tokens"} /\ attempt \in Nat
    /\ replay \in BOOLEAN
    /\ calls \in Seq(Frames)
    /\ trace \in Log!Traces /\ event \in [type : Log!EventTypes, turn : Nat, step : Nat, call : {"none"}]
    /\ fate \in [Msgs -> {"new", "pending", "claimed", "logged", "discarded", "dropped"}]
    /\ owed \subseteq Msgs /\ swept \subseteq Msgs /\ live \subseteq Msgs /\ ordinary \in Nat
    /\ parked \in BOOLEAN /\ disposing \in BOOLEAN /\ late \subseteq Msgs

-----------------------------------------------------------------------------
(* Safety *)

\* Program counters at which no turn is open in the log.
Between == {"off", "kicked", "exiting"}
\* Program counters at which a step is open in the log.
Inside == {"requesting", "prepared", "streaming", "failed", "tools", "stepDone", "stepThrew"}

\* The brackets of the log follow the driver: whatever throws or aborts, a turn
\* and a step that were opened are closed before the driver lets go.
Brackets ==
    /\ trace.openTurn = IF pc \in Between \cup {"closed"} THEN 0 ELSE turn
    /\ trace.openStep = IF pc \in Inside THEN step ELSE 0
    /\ trace.nextTurn = IF trace.openTurn = 0 THEN turn + 1 ELSE turn
    /\ pc \in Inside => step > 0
    /\ (trace.openTurn # 0 /\ pc \notin Inside) => trace.nextStep = step + 1

\* The driver implements the session log contract of the invariant companion.
LogContract == Log!Spec

\* A message lives in exactly one place: it is queued once, or in the claimed
\* batch once, or gone; a submitted message never disappears from the inbox
\* without an outcome and no driver exits holding a claimed message.
OneHome ==
    LET places == nextTurn \o nextStep \o batch
    IN  /\ Cardinality(SeqSet(places)) = Len(places)
        /\ \A m \in Msgs : /\ fate[m] = "pending" <=> m \in Pending
                           /\ fate[m] = "claimed" <=> m \in SeqSet(batch)
        /\ pc \in Between \cup {"closed"} => batch = <<>>
        /\ TypeOK

\* A waking message submitted while the activity could not deliver it
\* (maintenance, or a turn already aborted by anything but disposal) is not
\* forgotten: an agent at rest owes no wake.  Excepted are the wakes sent from
\* inside a cancel's own clear (swept).
NoWakeLost == (kind = "idle" /\ Quiet) => owed = {}

\* The same of a message that a listener of the discarded messages sends while
\* cancel() is still clearing the inbox: it outlives the clear, but cancel() then
\* drops its latch.
WakeOutlivesClear == (kind = "idle" /\ Quiet) => swept = {}

\* A live driver claims the waking messages it accepted before it stops, unless
\* a cancellation, a rejected step or a failed turn parked them.
LiveWakesClaimed == (kind = "idle" /\ Quiet) => live = {}

\* followup(): a prompt is the sole ordinary message of its own turn.
SoleOrdinary == ordinary <= 1

\* Waking input submitted to a cancelled activity once disposal began stays
\* parked: no driver ever claims it.
DisposalParksWakes == \A m \in late : fate[m] \in {"pending", "discarded"}

TurnStarts == event'.type = "turn/start" /\ event' # event

\* A cancelled turn is the driver's last until something wakes the agent again.
CancelParksQueue == [][TurnStarts => ~parked]_vars

\* Disposal is final for the activity it aborts: no latch survives it.
DisposalNeverLatches == (kind = "running" /\ cause = "disposed") => ~wakeRequested

\* A turn that hit the token ceiling never reports a clean completion.
MaxTokensSticky == [][turnEnds = "max-tokens" => turnEnds' \notin {"null", "completed"} \/ pc = "kicked"]_vars

-----------------------------------------------------------------------------
(* Liveness, under FairSpec *)

\* A cancelled activity converges: the driver goes idle or serves later input
\* under a fresh controller.
CancelConverges == Aborted ~> ~Aborted

\* A latched wake, sent outside a cancel's own clear, is honoured by a new turn,
\* or its message is withdrawn.
WakeHonoured == owed # {} ~> owed = {}

\* Every driver run ends: kick() cannot spin on an inbox nobody refills.
DriverRests == kind = "running" ~> kind = "idle"
=============================================================================
