# TLA+ specifications of the agent runtime

This directory holds TLA+ models of the core of the agent runtime in `src/packages`: the loop that
turns queued messages into turns of a session log, the factory that creates, resumes and disposes of
agents, the scheduler of a step's tool calls, the repair of a log after a crash, the write path of stored
sessions, and the three services that keep an agent busy in the background: jobs, goals and reminders.
`PROJECT.json` maps every definition to the source lines it stands for and lists the runs, the theorems,
the hazards and the findings.

Run from this directory:

    tlasany AgentLoop.tla                                   # parse
    tlc -workers 2 -config AgentLoop.cfg AgentLoop.tla      # model-check one run
    tlapm AgentLoop_proofs.tla                              # check the proofs

## 1. Inventory

The runtime is TypeScript on one JavaScript thread. Its components are services of a plugin framework;
they interact by synchronous calls, by synchronous notifications (`agent/*`, `session/*` events whose
listeners may call back), by awaited waterfalls (`agent/pre-step`, `agent/request`, `tools/execute`,
`session/flush`) and by shared state read before an `await` and used after it. Concurrency is
interleaving at awaits and re-entry through listeners; parallelism exists only in I/O, timers and tools.

| Component | State it keeps | Operations | What must hold |
|---|---|---|---|
| Turn driver (`core/agent-loop/src/agent.ts`) | phase (idle, maintenance, running), abort controller and cause, wake latch, turn and step counters, the driver coroutine | send, steer, inject, followup, cancel, runMaintenance; kick, turn, preStep, step | every bracket opened in the log is closed; a wake is not lost; a prompt is the only one of its turn; a cancelled activity converges |
| Inbox (`agent-loop/src/inbox.ts`) | next-turn and next-step lists | insert, claim, remove, clear | a message is in one place and leaves with an outcome |
| Tool scheduler (`agent-loop/src/tool-calls.ts`) | pool, settled slots, commit index, failure, abort flag | executeToolCalls, runGroup, startCall, fillPool, commitReady | model order, exclusive barriers, pool bound, each call answered once, no body outlives the step |
| Session log contract (`core/session/src/invariant.ts`) | bounded trace of a session | validate, fold, seed | which event may follow which |
| Repair and fork (`core/session/src/repair.ts`, `fork.ts`) | none | openTurnClosers, buildForkSeed | an interrupted turn becomes a balanced log; repairing twice is repairing once |
| Checkpoint policy (`session/session-checkpoint-policy`) | none | flush before a request, a tool body, a step | no side effect without a durable record |
| Stored sessions (`session/session-persistence-jsonl`) | write handle: buffer, drain, timer, cursor; lock; route and claim per id; the file | open, append, drain, flush, close | contiguous file, one writer, durability barrier, closing loses nothing |
| Agent lifecycle (`agent-loop/src/index.ts`) | each attempt's stage, driver, scope, handle, memoized disposal; the factory's set of owned teardowns | createAgent, resume, prepareAgent, publish, dispose; unload of an owner and of the factory | one agent per session id, whoever fails leaves nothing, unloads end |
| Session store and agent registry (`core/session/src/index.ts`, `core/agent/src/index.ts`) | the occupant of each id, announcements, reentrancy marks | prepare, enter, announce, detach, append, flush | one occupant, announcements are paired, a veto leaves the log unchanged |
| Scope (`core/scope`) | registrations, by fiber | mint, dispose | unwound once |
| Status dispatch (`core/agent/src/dispatch.ts`, `invariant.ts`) | queued notifications | emit status | listeners see statuses in order |
| Tool registry and runtime (`core/tools`) | registered tools | prepare, dispatch, finalize | environment of the scheduler |
| Jobs (`jobs/jobs-local`, `jobs/tool-jobs`, `shell/tool-bash`) | the job table, output rings and the model's cursor in them, pumps, waits, teardown snapshots | register, append, settle, wait, kill, dispose of an owner or of the registry | the model learns of every completion, output arrives before the settlement, teardown leaves no record |
| Goals and rounds (`goal/goal`, `goal/goal-round-driver`) | the goal's projection and activation, the reserved round, queued checkpoints | set, edit, pause, resume, block; reserve, fence, admit, settle a round | a stale round never enters the history, an armed goal keeps going |
| Schedule (`schedule/schedule`) | the fold of schedule changes, the transaction queue, the timer, the idle wait | create, delete, list, drive, stop for an archive, dispose | what was reported survives a crash, an occurrence is delivered once per life, a due reminder is delivered |
| Subagents, agent teams | mailboxes | spawn, deliver, cancel | a result is delivered once |
| Interaction (commands, approvals, questions) | pending requests | ask, answer, abort | each question is answered once or aborted |
| Gateway and controllers (`api/*`) | subscriptions, cursors | subscribe, replay | no event missed or repeated |
| Storage domains (`storage/*`) | cached documents, queued writes | read, replace | atomic replacement |
| Compaction, language-model service and retry | attempts, back-off | run as maintenance, retry | environment of the driver |
| Hot reload and plugin manager (`boot`), scope | fibers and registrations | install, reload, dispose | ownership is released once |
| Everything else | see `components` in `PROJECT.json` | | prompts and policies, I/O, numerics (`aerospace`), user interfaces, vendored code |

Hard behaviours: listeners that cancel or send inside a notification; a cancel at any await; wakes that
arrive while an activity converges; overlapping tools settling out of order; a crash between any two
appends, during repair too; a timer or a late event racing a failing or closing drain. `hazards` in
`PROJECT.json` lists them at their lines, with the properties that cover them.

## 2. Modules

    SessionTrace ── SessionLog            the log contract, and the abstract log it allows
        │              │ implemented by
        │              ├── AgentLoop ── MCAgentLoop, AgentLoop_proofs
        │              └── ToolCalls ── ToolCalls_proofs
        └── SessionRepair ── MCSessionRepair, SessionRepair_proofs
    AgentLifecycle ── AgentLifecycle_proofs
    SessionStorage ── SessionStorage_proofs
    JobRing ── Jobs ── Jobs_proofs
    GoalRounds ── GoalRounds_proofs
    Schedule ── Schedule_proofs

**SessionTrace** is the invariant companion: `Traces` is its `SessionTrace` record, `Valid` its
`validateEvent`, `Fold` its `applyTransition`. A `tool/result` whose error code is `TOOL_NOT_STARTED` is
the event type `tool/not-started`, because the companion exempts it from the pending-call rule.

**SessionLog** is the abstract specification: a log that grows by one valid event at a time. The turn
driver and the tool scheduler implement it (`LogContract`, `ToolLogContract`): the log they append to
never has to veto them.

**AgentLoop** is one `ReactLoopAgent` with its inbox. `kind`, `turn`, `step`, `cause`, `wakeRequested`
are the fields of `Phase`; `nextTurn` and `nextStep` the inbox; `trace` and `event` the session log, seen
through the companion. The driver coroutine is `pc` with its local variables: an action is one
synchronous segment, and `pc` names the await or the notification at which it ended.

| `pc` | where the code is |
|---|---|
| `kicked` | in `kick()`, before `turn()` appends turn/start |
| `opened`, `stepped`, `caught`, `closed` | inside the publication of turn/start, step/end, step/end after a throw, turn/end |
| `assembling`, `preStepping`, `decided` | awaiting the system prompt, awaiting `agent/pre-step`, one microtask later |
| `requesting`, `prepared`, `streaming`, `failed` | awaiting `agent/request` and `prepareCall`, about to log the request, awaiting the stream, awaiting `agent/request-error` |
| `tools` | awaiting `executeToolCalls` |
| `stepDone`, `stepThrew`, `stopping` | `step()` returned, threw; awaiting `agent/turn-stopping` |
| `failing`, `exiting` | reporting `agent/error`; back in `kick()` |

At an await and at an agent notification any caller may run. Inside the publication of the driver's own
append (`Publishing`) the session rejects a nested append, so only a cancel that does not touch the inbox
succeeds. A call that notifies half way stays on the call stack `calls` while its listeners run, and goes on
when theirs have returned; a listener may make such a call itself. A waking send is `SendInsert`, the
listeners of `agent/inbox/inserted`, and `SendWake`. A cancel that discards messages is `CancelClears` (the
first list it empties), the listeners of `agent/inbox/discarded`, `CancelClearsTurn` (the other list, as they
left it), their listeners again, and `CancelAborts`, which resets the latch whoever set it and aborts the phase
as it is by then; `Cancel` is a cancel with nothing to discard, which nobody interrupts. The first segment of
a driver runs inside the call that started it, so `Driver` lets `kicked` and `opened` run on top of the stack,
and every other segment when it is empty. `ReplayLatch` is the tail of `kick()`'s `finally`, after the
listeners of the idle status. `fate`, `owed`, `swept`, `live`, `ordinary`, `parked`, `disposing`, `late` are
history variables that only properties read: `owed` holds the messages whose wake was latched and not yet
honoured, except those in `swept`, whose wake was latched while a cancel was still clearing.

**ToolCalls** is `executeToolCalls` for one assistant message. Calls are numbered in model order, and the
mode of a call is chosen when the scheduler looks at it: a registry may reclassify a tool while the pool
runs. `inFlight` and `slots` are the promises in the race and the settled outcomes, `failed` is
`schedulerFailure`, `signal` the step's abort signal and `aborted` the group's memory of it.

**AgentLifecycle** is the agent factory for one session id: calls of `createAgent` and `resume` that race
for it. `life[a]` is one attempt from its call to the end of its teardown.

| `pc` | where the call is |
|---|---|
| `opening`, `reading`, `repairing` | awaiting the backend's open, the cold read of a resume, the appends of its closers |
| `opened`, `closing` | has its session and is about to be prepared; is closing the handle it cannot use |
| `setup`, `storing` | prepared: awaiting the setup callback, awaiting the store of the suffix |
| `announcing`, `ready` | published: awaiting the `agent/created` listeners, returned |
| `rollback`, `failed` | awaiting its own disposal, thrown |

`machine` is the driver's phase, `scope` the agent's scope, `handle` the write handle (`pending` is an
open whose caller has stopped waiting), `disposal` the memoized `dispose` from its start to its end,
`owner` and `waits` the owner's fiber and what its unload awaits. `sessions` and `agents` are the occupants
of the id in the two registries, `claim` is the backend's write claim. The initial state chooses whether a
backend is mounted. `Dispose`, `Unwind` and `Close` are the memoized operations; every action that calls
them may find them begun by somebody else.

**SessionRepair** has any writer that keeps the contract, the model order and the checkpoints; a crash
that keeps the durable prefix and any part of the rest; and the resume path, which appends the closers and
may crash before all of them are stored. `Scan`, `Closers` and `ForkSeed` are the pure functions of
`repair.ts` and `fork.ts`, and `Replay` is the companion seeding its trace from a log. Both loops over the
events are recursive functions on the prefixes (`Scans`, `Replays`), about which the provers can reason.

**SessionStorage** is the write path of one session: handles one after the other, each with its
write-behind buffer, the 200 ms timer, the single-flight drain, the mutation chain, `flush()` and
`close()`; the claim of the id; the kernel lock; the file. Events are their sequence numbers. A drain is
`idle`, `queued` on the chain, `writing`, back at its `loop` head, or `ended` with its `finally` still one
microtask away. Timers and I/O callbacks wait for pending microtasks (`MicrotaskPending`). `close()` looks at
the buffer again when the drain it joined and the chain have settled, so not while a write is in flight.
`stray` is a history variable that only a property reads: it marks a handle whose close released the lock
over a batch that a failed write had retained with the timer armed, or that was called after its close had
looked at the buffer for the last time.

**JobRing** is the bounded output ring (`ring.ts`) as pure operators: `Put` appends a chunk and trims,
`Trim` drops whole chunks from the head and keeps the tail of a single one that is too large.

**Jobs** is the registry of one agent's jobs with those who use it: the model's `job_output` and
`job_kill`, the settlement listener that queues a notice, the foreground `bash` call that registers its
command and takes the record back or promotes it, a person who kills, and the two teardowns (of the owner,
of the registry). `status`, `ring`, `modelCursor`, `resultDelivered`, `settleCause` are fields of a job's
record, `waitResolvers` the promises its settlement resolves; `pump` and `pumped` are the pull loop of
`pump.ts`; `call[c]` is a tool call at its await. A timer or another process waits while a settlement or
a returning call is half way (`Quiet`).

**GoalRounds** is the goal service of one session, its strict fold and the driver that continues an armed
goal, with as much of the agent's turn driver as a round passes through. Listeners run inside the call that
emits their event, so an action is a synchronous span composed from operators on the record
`[goal, driver, agent, log]`. A round is `queued`, `claimed` at the claim of its message and `admitted` once
the request went out; `FenceFirst` and `FenceAgain` are the two looks at the goal before that.

**Schedule** is the durable reminders of one root agent: `log` holds the schedule changes and the queued
reminders, `durable` how much of it a finished flush covers, `Fold` the strict fold (`Replay` holds the folds of all
prefixes, `InOrder` is the sort of the reminders that are due or listed). `owner.queue` is the
FIFO of transactions (tools, drives, the stop of an archive), `owner.phase` the await of its head, `timer`
and `idleWait` what the owner has armed, `stalled` that its last drive gave up, `faulted` that the fold
failed. A `Crash` may come between any two appends, keeps the durable prefix and any part of the rest, and
is followed by a `Resume`; the clock ticks by itself.

Definitions whose comment begins with "Mutant of" are not part of the specifications: each is a plausible
bug of the definition it names, and replacing that definition by it makes the property it is listed with
fail.

## 3. Runs

| Run | Instance | States | Shows |
|---|---|---|---|
| `loop` | 2 messages, 2 tool steps a turn, 1 retry, fair | 299 thousand | one home per message, no wake lost but to a cancel's own clear, one prompt a turn, disposal latches nothing, the driver implements the abstract log, those wakes are honoured, every driver run ends |
| `tools` | 4 calls, pool of 2, fair | 10 thousand | each call answered once and in order, barriers, pool bound, no start after an abort or a failure, contract implemented, the batch ends |
| `repair` | 2 calls, 9 events, 2 crashes, symmetric calls | 51 thousand | logs stay valid, repair tells truly which calls ran, repair converges, fork seeds are valid |
| `storage` | 2 handles, 4 events, 1 crash | 398 thousand | contiguous file, torn tails truncated first, close loses nothing |
| `storage_drain` | 1 handle, 4 events, 2 failed writes, 1 crash, fair | 19 thousand | nothing dropped, flush is a barrier outside one gap, the lock covers every write but that of a batch which a failing close let go of, buffer, drains, flushes and close get on |
| `jobs` | 2 jobs (one that is polled and also pushes), 1 call, 2 bytes, fair | 779 thousand | no completion swallowed, settlement after the last output, no unread output dropped by a settlement, teardown leaves nothing and ends |
| `goals` | 1 round, 3 goal changes, 1 prompt, 1 cancel, 1 failure, 1 maintenance job, fair | 282 thousand | the running round is the driver's own, stale rounds stop at the fences, no trigger is lost |
| `schedule` | 2 reminders, 1 deletion, list or stop, 2 disturbances, 2 ticks | 2.7 million | reports survive crashes, duplicates only across a crash, a timer is kept, a disposed owner is quiet |
| `schedule_live` | 1 reminder, 2 disturbances, 3 ticks, fair | 193 thousand | a due reminder is delivered, no transaction waits for the turn that waits for it |
| `lifecycle` | 2 calls among two creates and a resume, fair | 162 thousand | the published attempt keeps its place and its log, what fails leaves nothing, unloads end |
| `storage_flush_gap`, `goal_fence` | small | | disagreements between the code and its documentation, section 5 |

The longest runs (`jobs`, `schedule`, `lifecycle`) take about two minutes. Beside the runs,
`AgentLoopThree.cfg` checks the safety of the loop with three messages (module `MCAgentLoop`, 3.3 million
states), and fourteen configurations show further disagreements, section 5.

Why these bounds are enough to be interesting. Two messages are one to be served and one that arrives
while it is served or cancelled; the third of `AgentLoopThree` arrives while that activity converges. Two
tool steps give a turn a first, a middle and a last step; one retry makes the second attempt, which must
not log its users again. Four calls in a pool of two give a full pool, a queued call, a reclassification
in the middle of the pool and a barrier behind it. Nine events hold a step with two calls, its results and
a second turn after a repair; two crashes put the second one inside the repair of the first. Four events
and two handles give a write in flight, events that arrive during it, a torn tail and a successor that must
truncate it. Two jobs put one in a teardown's snapshot while the other registers; two bytes over a settled
cap of one make settlement trim. Three goal changes set a goal, edit it and resume it around one round, which
is also the last one it has. Two reminders share a timer, and two disturbances are a crash
and a failure after it. Two of three attempts race for the id as two creates, or as a create and a resume
whose open may never return; all three at once (6.7 million states, safety only) show nothing else, and the
theorems hold for any number.

Bounds in guards: `Msgs` (each message is submitted once), `MaxSteps` (`Responded`), `MaxRetries`
(`Retry`), `MaxLog` and `MaxCrashes` (`SessionRepair`), `MaxSeq`, `MaxFailures`, `MaxCrashes`, `Opens`
(`SessionStorage`), `MaxBytes`, `MaxChunk` (`Jobs`), the `Max` constants of `GoalRounds` and `Schedule`
(through `Uses`), `MaxTime` (`Tick`), `MaxCalls` (`AgentLifecycle`). `MaxActive`, `LiveCap`, `SettledCap`,
`MaxDelay`, `MaxParallel` are parameters of the code. `LateCalls` is not a bound but a choice: with `FALSE`,
events and flushes that arrive after `close()` looked at its buffer for the last time are left out, and
`SessionStorageLate.cfg` shows what they do. Deadlock is not checked, since every one of these systems may
rest: an idle agent, a finished batch, a closed session. That they do not rest too early is what the
liveness properties say. Symmetry is used only where no liveness is checked.

### Fairness

- `AgentLoop`: weak fairness of the activity's own progress. There is one coroutine and one microtask
  queue: an await that settles is continued. That awaits settle is the adapters' and tools' obligation to
  answer or to observe the abort signal, which the loop passes to each of them. Callers are not fair:
  nobody has to send, cancel or withdraw anything. `DriverRests` also rests on the bounds: the code sets
  no limit of its own on the steps of a turn, and the retry policy decides how often a request is retried.
- `ToolCalls`: weak fairness of the scheduler and of the tools as a whole: something that runs settles.
- `SessionStorage`: weak fairness of each handle's drain (timers fire, I/O settles), of its `close()` and
  of a returning flush. Nobody has to emit, flush or close.
- `Jobs`: for each job its pump, its settlement and, once it was asked to stop, its producer (the contract
  of a producer: a cancelled command ends); for each call its timer and its continuation; for the teardowns
  their own steps. A producer nobody cancelled may run for ever.
- `GoalRounds`: turns, flushes and maintenance jobs end. Nobody has to prompt, cancel or unload.
- `Schedule`: the head transaction, timers, waits, turns, maintenance, disposal and resumption, and the
  clock. Nobody has to call a tool or archive the session.
- `AgentLifecycle`: for each attempt its continuations (`Progress`), the end of a turn that runs, and the
  end of the factory's unload. A create's open settles; the open of a resume and every setup callback may
  stay pending for ever, and are given up on the abort signal only, which is what `UnloadsEnd` is about.

## 4. Properties and proofs

| Theorem | Module | Statement |
|---|---|---|
| `TypeCorrect` | `AgentLoop_proofs` | `Spec => []TypeOK` |
| `BracketsHold` | | `Spec => []Brackets`: `pc` and the log agree on which turn and step is open |
| `DisposalLatchesNothing` | | `Spec => []DisposalNeverLatches` |
| `ImplementsLog` | | `Spec => LogContract`: refinement of `SessionLog` |
| `OnePromptPerTurn` | | `Spec => []SoleOrdinary` |
| `TokenCeilingSticks` | | `Spec => MaxTokensSticky` |
| `OneHomeEach` | | `Spec => []OneHome` |
| `WakesLostToClearsOnly` | | `Spec => []NoWakeLost`: an agent at rest owes no wake, but for those a cancel's own clear swept |
| `CallsAnswered` | `ToolCalls_proofs` | `Spec => []Answers` |
| `PoolIsDisciplined` | | `Spec => []PoolDiscipline` |
| `StartsAreDisciplined` | | `Spec => StartDiscipline` |
| `LogContractKept` | | `Spec => ToolLogContract`: refinement of `SessionLog` |
| `NoRecordLeft` | `Jobs_proofs` | `Spec => []TeardownLeavesNothing` |
| `CompletionsTold` | | `Spec => []EveryCompletionTold` |
| `OutputIsComplete` | | `Spec => []OutputComplete` |
| `UnreadIsKept` | | `Spec => UnreadKept` |
| `LogAlwaysValid` | `SessionRepair_proofs` | `Spec => []LogValid` |
| `ToldTheTruth` | | `Spec => []RepairTellsTruth` |
| `Converges` | | `Spec => []RepairConverges` |
| `ForksAreValid` | | `Spec => []ForkSeedsValid` |
| `PlaceHeld` | `AgentLifecycle_proofs` | `Spec => []PlaceIsHeld` |
| `NothingIsLeft` | | `Spec => []NothingLeft` |
| `FileContiguous` | `SessionStorage_proofs` | `Spec => []ContiguousFile`, one handle or an undisturbed close |
| `EveryEventKept` | | `Spec => []NothingDropped`, likewise |
| `TornTailCutFirst` | | `Spec => TornTailNeverBuried`, likewise |
| `ClosedIsStored` | | `Spec => []CloseLosesNothing`, without late calls |
| `LockOverWrites` | | `Spec => []LockCoversWrites`: the lock covers the writes of every unmarked handle, over failed writes and late calls |
| `BatchContinuesLog` | | a batch always continues the handle's stored log |
| `FlushIsBarrier` | | `Spec => []FlushBarrierOutsideGap` |
| `RoundIsAdmitted` | `GoalRounds_proofs` | `Spec => []AdmittedIsOwn` |
| `StaleRoundsAreFenced` | | `Spec => FencesHold` |
| `ReportsAreKept` | `Schedule_proofs` | `Spec => []ReportsSurvive` |
| `DeliveriesAreExplained` | | `Spec => []DeliveredOnce` |
| `TimersAreKept` | | `Spec => []TimerKept` |
| `DisposalIsQuiet` | | `Spec => DisposedIsQuiet` |

They hold for every value of the constants that meets the assumptions: the bounds are numbers and `NoMsg`
is no message (`AgentLoop`), the pool has a place (`ToolCalls`), jobs exist, producers are of the known
kinds and the caps are positive (`Jobs`), the first turn is a positive number and the bounds are numbers
(`SessionRepair`), resumes and signalled calls are attempts and `NoOne` is not
(`AgentLifecycle`), bounds are numbers (`GoalRounds`), and delays are a finite set of positive numbers,
like the interval and the longest timer (`Schedule`). Nothing else is assumed finite. Where a theorem of `SessionStorage` has a hypothesis,
the table names it, and disagreements 7 and 8 below show it to be needed.

**AgentLoop.** `Brackets` ties the open turn and step of the log to `pc`, but is not inductive: a
`turn/start` needs the number the log expects next, and a `step/end` needs to know that the counter of the
phase is the step the log has open. `Control` adds what the code maintains for that: the program counter
is `off` exactly when no driver runs (only an idle agent starts one), a driver enters `turn()` with the
step counter at zero (a fresh phase, and the reset at the hand-over to the next turn), a turn that is open
has a positive number, and inside a step the log's next step is still the current one. `WakeLatch` adds,
for disposal, that a running phase latches only when it is aborted, and that a `send` which found it
aborted before its listeners ran still finds it aborted, and not idle, when it goes on. `IInv` is the
conjunction with `TypeOK`; one lemma per part shows that every action keeps it (`TypeStep`,
`ControlStep`, `LatchStep`), each with one step per action. `ImplementsLog` then shows that every append
is valid in the state `IInv` describes. The lemmas on `Fold` (`FoldCases`, `FoldFields`, `Appends`) reduce
an append to equations on the fields of the trace, so no later proof expands it.
`OnePromptPerTurn` needs one more fact, that a turn has claimed no prompt when its first step claims.
`OneHomeEach` rests on `Homes`: the two inbox lists and the claimed batch repeat nothing and share nothing,
and the fate of a message says which of them it is in, so that each move of a message is a move between
three sets. That no driver leaves with a batch (`HeldBatch`) follows from the places where it may hold one
(`Holding`): the way out of a step that threw before its request was admitted passes through one of them.
`WakesLostToClearsOnly` rests on `Honoured`: while a wake is owed there is a latch, a replay of one, or a driver
about to open a turn; only a maintenance job that disposal aborted forgets its latches. What could break it is
the reset of the latch at the end of a cancel, after the listeners of its clear have run. `Cleared` says of each
cancel on the call stack that the lists it has emptied hold no message that is owed a wake: none in the
next-step list before the second splice, none at all behind it. What listeners queue after a splice carries no
wake or has its wake in `swept`, and the messages a splice discards are owed nothing from then on (`OwedQueued`:
owed messages are queued ones). So the reset drops no owed wake; it drops the swept ones.

**ToolCalls.** The invariant `Pool` says where each call is: before the frontier `nextToStart` everything was
dispatched or passed over, before `committed` everything is answered on the log, and between the two lie
the bodies in the race, the settled slots and the calls of the group (`Frontier`, `Rolling`, `Groups`,
`Pending`, `Origins`); `InModelOrder` orders the log and `Bounded` counts the pool. The log is not a set
but a sequence, so each append gets a lemma that says what the longer log holds.

**Jobs.** `Ledger` is the teardown: while the owner unwinds nothing can be registered, an owner without an
attached cleanup has no record, and the snapshots of the two teardowns cover what is left. For
`EveryCompletionTold` the invariant `Telling` ties the resolvers of a job to the calls that wait for it,
keeps a foreground call's job unknown to the model until it is promoted, and keeps what the model knows
of on record, unmarked by any teardown, while agent and registry live. `OutputComplete` rests on `Feed`: a
pump that is done has drained a source that produces no more, unless a teardown cut it short. `UnreadKept`
rests on the lemmas about `JobRing`, which stand before it in `Jobs_proofs`: `Put` and `Trim` keep a ring
contiguous and end where they ended, and a trim to the reader's cursor drops nothing behind it.

**AgentLifecycle.** The invariant `Inv` is local: `Fits` says of one attempt which stages of its call,
driver, scope, handle and teardown go together, and ties them to its place in the registries and to its
claim. An action moves one attempt and gives or takes no place and no claim but its own, so it suffices to
look at that attempt (`OneMoves`); only the factory's unload moves all of them. A place is taken by
`Publish` alone, which looks whether it is free in the same synchronous span, and that is the whole reason
why attempts that prepared side by side do not collide. `Settled` carries what the factory waited for over
to the state `down`, in which no call can begin.

**SessionStorage.** `Books` holds for every handle, whatever the others do to the file and however writes
fail: behind its cursor its batch, and behind that its buffer, are the next sequence numbers of its session,
and both moves of events, splicing the buffer and putting a failed batch back in front of it, keep that. So
the contiguity check of a write never refuses a batch (`BatchContinuesLog`). What is in the file needs that
the cursor of whoever writes is its end (`Contents`), hence that one handle at a time writes it
(`OneWriter`): either there is one handle, over any failed writes, retries and late calls, or no write has
failed and nobody emits behind a close. In the second case `Orderly` follows the close step by step: after
the last look at the buffer it stays empty, so a drain that is joined or started later ends at once, no
write is in flight when the lock is released, and the timer that may still fire finds nothing to write. The
condition is on the state (`failures = 0`), so `ClosedIsStored` also speaks of the closes before the first
failure. With two handles and a failed write the statements are false, and TLC finds `NothingDropped`
violated in a behaviour of fifteen states: see 7 below. `FlushIsBarrier` needs none of this: a flush that did
not fall into the gap waits for a drain that will look at the buffer again or has written what the flush
waits for (`Barrier`), and whoever joins or starts a drain leaves it such a drain. Nor does `LockOverWrites`
need a hypothesis. `Locked` follows each handle from its open to its release: an open handle holds the lock until
its close lets go of it, and after the last look of that close an unmarked handle holds events only in the
chain that the close waits for, or because a write failed and paused the drain. Only its
timer or a flush starts a paused drain again, and the release marks the handle whose timer is armed (`stray`),
as every later call does. So with the lock gone an unmarked handle has nothing that could start
a write.

**GoalRounds.** A step is a synchronous span of calls, and so is the proof. `Leads(w, v)` says what any part
of a span may do to the record it is handed: it makes no goal unreadable, forgets no logged change, and what
it leaves behind the first fence was there before, with its reservation, and with its goal unless a change
was logged. Each operator of the driver has its lemma, `LeadsOn` composes them, and `LeadsKeeps` takes a whole
span to the invariant. That invariant has three parts: a reservation names an earlier revision, or a round
within the cap of this one (`Recent`, without which a look at the cap is missing at the second fence);
behind the first fence a round still has its reservation (`Held`); behind the second it is admissible unless
its goal changed since (`Prepared`). Only the steps through the fences and the step that logs the message are
proved apart. `AdmittedIsOwn` is an instance of `Held`, and `FencesHold` follows because nothing but a logged
message can make a goal unreadable.

**Schedule.** A crash keeps any prefix that covers the durable one, so the invariant speaks of every prefix of
the log (`LogOK`): each can be folded (`WellFolded`), what a deletion names stays gone (`Gone`), a dispatch has
its message before it and no other dispatch between (`Recorded`), a message names an occurrence that its
reminder had not passed (`Advanced`), and two messages of one occurrence belong to two lives without its
dispatch between them (`Once`). A prefix of such a log is such a log, which is the crash; each append and each
whole delivery, a message and the dispatches after it, keeps it. Beside it stand `Settled` (a life that may
still deliver has no message without its dispatches, which is why it queues no occurrence twice), `Bounded`
(ids are bounded by the calls that asked for them), `ToldOK` (what was reported is on the durable part) and
`Fits` (a live owner at rest has its timer). `Replay` is a recursive function on the numbers. That its equations hold, and that a
property passes along the log, is an induction, and the induction theorems of the library cannot be used
here; `ByInduction` states induction over sets of numbers and is proved from the well-foundedness of `<`
(`LeastOf`). The same step shows that a delivery sorts its reminders: `InOrder` exists for every finite set
of records with distinct ids.

**SessionRepair.** A crash may cut the log at any event and a fork at any boundary, so the invariant is about
every prefix (`GoodLog`): each is `Good`. That has six parts. The companion accepts the log (`Replay(s).ok`).
What `openTurnClosers` scans agrees with what the companion replays (`Balanced`): the same open turn and
step, and the companion's pending calls are the ones the scan holds as started. `LogValid` alone is not
inductive, since the closers are computed from the scan and judged by the companion. The work of a step lies
in a step that was open before or is open now (`Placed`), so that an event of a new step cannot be taken for
one of an old step. In the open step the calls of the response are the unanswered ones of the scan and
the ones with a result, which are disjoint (`Answered`), so that answering what is unanswered gives every call
one result. A step that has just started holds no work (`Opened`). No call of a step is both recorded and
reported as not started (`Exclusive`). Each kind of event has a lemma that appending it keeps a log good,
provided the companion accepts it and the writer kept what the scheduler guarantees: one response per step,
records and results for its calls only. `CloserStep` shows that the first closer of a good log is such an
event and that the closers of the longer log are the remaining ones; by induction any part of the closers
keeps the log good (`ClosersPart`) and repairing again leads to the same log (`Convergence`), in the end to
one with nothing left to close. With the trace of the live session tied to the log, the durable prefix to what a
repair started from, and every body that ran to a record on the durable prefix, this is inductive (`IInv`).
`ToldTheTruth` then says of a repair in progress that the results within the closed step and the calls of
its response are equally many, because `Answered` makes them correspond one to one, and that a body that ran is not
reported as not started, because its record is on the log and `Exclusive` forbids both. The loops over events
are taken apart with `ByInduction`, as in `Schedule`.

Only model-checked are the liveness properties: `WakeHonoured`, `DriverRests`, `BatchEnds`, `DrainProgress`,
`TeardownEnds`, `GoalRunsOut`, `DueIsDelivered`, `QueueDrains`, `UnloadsEnd`. The proof system does not reason
about fairness and `ENABLED`. Every invariant and every action property of the runs is stated by a
theorem; where the theorem has a hypothesis (`FileContiguous`, `EveryEventKept`, `TornTailCutFirst` and
`ClosedIsStored` of `SessionStorage`), the instance of the run meets it.

Which properties carry the most weight:

- `OneHome`: a submitted message is in exactly one of the lists, the claimed batch or a final outcome, and
  no driver exits holding a batch. A retry neither logs its users twice nor drops them.
- `NoWakeLost`, `WakeHonoured`: waking input sent to maintenance or to a cancelled turn is served, unless
  withdrawn, discarded or parked by a later cancel or by disposal. `NoWakeLost` says that no agent rests
  owing a wake, `WakeHonoured` that the debt is paid. Neither counts a wake that a listener sends while a
  cancel is clearing the inbox: the code loses it (disagreement 3).
- `Answers`, `PoolDiscipline`: what the scheduler promises the model and its caller, under every order of
  settling, failing and aborting.
- `PlaceIsHeld`, `NothingLeft`: what racing creates and resumes of one session may do to each other, and
  that every way to fail is undone.
- `RepairTellsTruth`, `RepairConverges`: what a resumed session may tell the model about calls that a
  crash interrupted.
- `NothingDropped`, `FlushBarrierOutsideGap`: what the write-behind buffer owes to the session while
  writes fail.
- `LockCoversWrites`: a write after the lock was released may land in the file of the next writer. It comes
  only from the timer that a failing close leaves armed, or from a call behind the last look of a close
  (disagreements 7 and 8).
- `EveryCompletionTold`: the listener stays silent when somebody waits for the job, or the model killed it;
  a timeout or an abort between the settlement and the wait must not make that silence a lost completion.
- `FencesHold`, `GoalRunsOut`: a round reserved for one revision of a goal meets another, and the driver
  must neither admit it nor forget to try again.
- `ReportsSurvive`, `DeliveredOnce`, `DueIsDelivered`: what reminders promise across crashes.

The type invariant of a module is the first conjunct of one of its invariants: of `OneHome`,
`PoolDiscipline`, `LogValid`, `ContiguousFile`, `OutputComplete`, `AdmittedIsOwn`, `TimerKept` and
`PlaceIsHeld`. `MaxTokensSticky` is proved and in no run.

## 5. Where the code and its documentation disagree

Two are runs, whose counterexample is a behaviour of the code; `findings` in `PROJECT.json` quotes the text.

1. `storage_flush_gap`: a flush in the microtask between the end of a drain's loop and its `finally` joins
   the finished drain and resolves with its event still buffered.
2. `goal_fence`: the goal changes while the request of a round is prepared, behind both fences; the stale
   round enters the history, and the strict fold refuses it for good.

The others are configurations kept beside the runs, each of which TLC finds violated (the module is the
one the file is named after, `MCAgentLoop` for those of the loop):

3. `AgentLoopClear.cfg` (`WakeOutlivesClear`): `cancel()` clears the inbox, then resets the latch
   (`agent.ts:176-177`), and the listeners of `agent/inbox/discarded` run between the two. A prompt that such a
   listener sends to a maintenance phase is queued and latched, survives the clear and loses its latch: the
   maintenance ends and the agent rests with the prompt queued. `agent.ts:205` says that only a latched replay
   is suppressed, "when the queue no longer holds the wake", and
   `.agents/notes/implemented/bug-fix/2026-08-07-cancel-convergence-wake-latch.md` that `cancel()` clears the
   latch alongside the inbox; here the queue still holds the wake and the latch is gone.
4. `AgentLoopDisposal.cfg` (`DisposalParksWakes`): the first cancel cause wins, so disposal after a user
   cancel leaves a latch that starts a turn.
5. `AgentLoopPark.cfg` (`CancelParksQueue`): a cancel with `keepInbox` from a listener of turn/end aborts
   the controller that the same segment replaces; queued work runs on.
6. `AgentLoopLiveWake.cfg` (`LiveWakesClaimed`): a first batch rewritten to nothing ends the driver without
   a look at the inbox. The property is about waking input accepted by a driver that is still going to
   look; the gap between the driver's last look and its exit is left out, since
   `.agents/notes/implemented/bug-fix/2026-08-07-cancel-convergence-wake-latch.md:29` documents it as
   deliberate.
7. `SessionStorageLock.cfg` (`WriterHoldsLock`, with a failing write): a timer armed during a failing write
   is neither stopped by the failure that pauses the drain nor by a close that fails with it, and writes
   after the lock was released. `LockCoversWrites`, which the runs check and `LockOverWrites` proves, excepts
   this and the calls of 8. If the session has been opened again by then, its late write lands in the
   file of the next writer, which breaks `NothingDropped` too.
8. `SessionStorageLate.cfg` (`CloseLosesNothing`, with late calls): events published after the last look of
   `close()` at the buffer are never written.
9. `AgentLifecycleScope.cfg` (`ScopeOutlivesDriver`): `agent.ts:102` says that the lifecycle owner unwinds
   the scope after the driver exits. The scope is minted on the fiber of the loop, so an unload of the loop
   unwinds it beside `FactoryOwnership.dispose`, and so does an owner that unloads behind a disposal already
   begun.
10. `AgentLifecycleOwner.cfg` (`OwnersAwaitQuiescence`): `agent-loop/src/index.ts:523` says that every racing
   owner awaits one quiescence. The owner's effect (`index.ts:582`) returns at once when the disposal has
   begun and awaits the scope only.
11. `JobsTeardown.cfg` (`TeardownAnnounced`): `jobs/jobs/src/index.ts:56` says that a job which a teardown
    stops announces that cause. A kill between the teardown's cancel and the settlement overwrites it
    (`jobs-local/src/index.ts:465`).
12. `JobsForeground.cfg` (`ForegroundLeavesNoTrace`): `shell/tool-bash/src/index.ts:329` says that a stopped
    foreground call stays on its job until it settles, so that no completion notice follows. The wait of
    `stop` has the call's timeout; when it expires the job settles later, unawaited, with a notice about an
    id the model never got.
13. `GoalRoundsCheckpoint.cfg` (`CheckpointBeforeRound`): the driver's README says that it awaits a flush
    for every goal change before it queues work. A pass that blocks the goal at its limit emits a change
    before `state.run` is assigned, so a second loop starts beside the first; the pass of one then finds
    the obligation taken by the other, whose flush is still under way.
14. `GoalRoundsDistinct.cfg` (`DistinctRounds`) and `GoalRoundsPause.cfg` (`FenceNeverPauses`): the README
    says that the driver reserves at idle, and that an edit only invalidates the round. An agent in
    maintenance reports `idle`, so a trigger settles a round that is still queued and reserves it again;
    after an edit the fence then rejects the older one, and the idle event pauses the goal for the newer.
15. `GoalRoundsUnload.cfg` (`UnloadEndsRounds`): the README says that unloading the plugin ensures no later
    round starts. A round queued behind maintenance and kept there outlives the fences and starts.

Without a configuration: the documentation of `AgentHandle` (`core/agent/src/index.ts:150`) puts the
unwinding of the scope last, and the code unwinds it before it leaves the registries.

## 6. What is not modelled

The repository has some 2750 implementation files; the models stand for the files in which state meets concurrency and
failure, a small part of its 460 thousand lines. The rest is user interfaces, generated catalogues, numerics,
protocol adapters, editors' and build tooling and vendored code: code without a state machine of its own, or
whose correctness lies in the data. Of the modelled components these parts are left out:

- Message contents, prompts, request headers and context, tool arguments and results, timing of back-off.
- `prepend` and `replace` of the inbox, and vetoes of driver appends other than turn/start.
- Agent lifecycle: the starts a configuration asks for, parents of agents, and work sent to an agent that
  is being disposed of, which the code calls the sender's bug. `AgentLoop` is not composed with it:
  `Reachable` stands for the holder, callers lose the agent once disposal is done, and `AgentLifecycle`
  keeps three phases of the driver.
- The order in which nested status notifications reach listeners (`core/agent/src/dispatch.ts`).
- The checkpoint policy is assumed to be loaded in `SessionRepair`.
- Storage: a rollback that fails as well, recovered tails of compressed artifacts, lazy creation of the
  artifact, read handles, several sessions. The file system keeps what was synced.
- Jobs: labels, details, progress, spill files, channels of output; several agents; characters that are
  wider than a byte.
- Goals: objectives and prompts, reload of the driver, next-step messages.
- Schedule: absolute and zoned times, argument validation, the client's projection, several agents, the
  activity report of an archive. A flush that finishes is taken for a perfect barrier: the gap of disagreement
  1, in which the storage backend resolves a flush with its event still buffered, is not composed in, so
  `ReportsSurvive` and `DeliveredOnce` rest on a backend without it. The checkpoints of `SessionRepair` and the
  flushes of `GoalRounds` are taken in the same way.
- The components with status `not_modelled` in `PROJECT.json`, with their reasons.

## 7. Plan

1. `StatusDispatch`: nested status changes and the order in which listeners see them.
2. `AgentLifecycle` composed with `AgentLoop`'s phases, and with the claim of `SessionStorage`.
3. `SessionStore`: append with veto and reentrancy, flush fan-out; the abstract specification is the
   append-only log.
4. `SessionStorage`, second part: failing rollback, recovered tails, lazy creation; composed with
   `SessionRepair` so that its crash is the crash of the file.
5. `Subagents`, `Approvals`, `Mailbox`, `EventStream`, `StorageDomain`.
6. Proofs: the theorems of `SessionStorage` for several handles once a write has failed, under a hypothesis
   that excludes no more than the late timer of disagreement 7.
