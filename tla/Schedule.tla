------------------------------ MODULE Schedule ------------------------------
(***************************************************************************)
(* Durable reminders of one root agent (packages/schedule/schedule): the    *)
(* strict fold of the session's schedule/change events, the agent's FIFO    *)
(* queue of transactions, the owner that arms a timer and delivers what is  *)
(* due, the tools, the stop of an archive, and a process that crashes       *)
(* between any two appends and resumes the session later.                   *)
(* Prompts, absolute and zoned times, framing, argument validation, the     *)
(* client projection and the archive's activity report are left out.        *)
(***************************************************************************)
EXTENDS Integers, Sequences, FiniteSets, FiniteSetsExt

CONSTANTS Delays,          \* delays of one-shot reminders that are asked for
          Interval,        \* interval of a repeating reminder
          MaxDelay,        \* longest timer segment (MAX_TIMER_DELAY_MS)
          MaxTime,         \* bound: the clock
          MaxCreates,      \* bound: schedule_create calls
          MaxManages,      \* bound: schedule_delete, schedule_list and archive stops
          MaxTurns,        \* bound: turns other than those reminders start
          MaxDisturbances  \* bound: failures, crashes, cancellations, jobs of maintenance

ASSUME ParametersAssumption ==
    /\ Delays \subseteq Nat \ {0} /\ IsFiniteSet(Delays)
    /\ {Interval, MaxDelay} \subseteq Nat \ {0}
    /\ {MaxTime, MaxCreates, MaxManages, MaxTurns, MaxDisturbances} \subseteq Nat

VARIABLES
    log,      \* what the session log holds of schedule changes and queued reminders
    durable,  \* how much of it the last finished flush covers
    now,      \* the wall clock
    agent,    \* what owns the agent's activity, and whether its turn was cancelled
    owner,    \* the schedule runtime and the transaction queue
    told,     \* history: creations and deletions that were reported as done
    used      \* how much of each bound is used up, and the process' lives

vars == <<log, durable, now, agent, owner, told, used>>

NoTimer == -1
Up(o) == o.state = "up"
Works(o) == o.state = "up" /\ ~o.faulted
Calls == {"create", "delete", "list"}
IsKind(o, kinds) == o.queue # << >> /\ Head(o.queue).kind \in kinds
At(kinds, phase) == IsKind(owner, kinds) /\ owner.phase = phase

Uses(what, max) == /\ used[what] < max
                   /\ used' = [used EXCEPT ![what] = @ + 1]
Disturbs == Uses("disturbances", MaxDisturbances)

-----------------------------------------------------------------------------
(* The fold.                                                                 *)

\* resolveEveryOccurrence: the latest occurrence that is due, never the backlog.
Occurrence(r, time) ==
    IF r.kind = "every" THEN r.at + ((time - r.at) \div Interval) * Interval ELSE r.at

\* applyScheduleChanges for one change; a dispatch ends a one-shot and advances
\* a repeating reminder to the first target after the decision.  A reused id and
\* a change of an inactive one make the log corrupt for good.
Apply(folded, e) ==
    LET others == {r \in folded.active : r.id # e.id}
        advanced == {[r EXCEPT !.at = Occurrence(r, e.time) + Interval] :
                       r \in {x \in folded.active : x.id = e.id /\ x.kind = "every"}}
        refused == CASE e.op = "create" -> e.id \in folded.seen
                     [] e.op \in {"delete", "dispatch"} -> others = folded.active
                     [] OTHER -> FALSE
        checked == [folded EXCEPT !.corrupt = @ \/ refused]
    IN  CASE e.op = "create" -> [checked EXCEPT !.active = @ \cup {e.record},
                                                !.seen = @ \cup {e.id}]
          [] e.op = "delete" -> [checked EXCEPT !.active = others]
          [] e.op = "dispatch" -> [checked EXCEPT !.active = others \cup advanced]
          [] OTHER -> folded

\* The folds of all prefixes of a log, and that of the whole of it.
Replay(events) ==
    LET upTo[n \in 0..Len(events)] ==
          IF n = 0 THEN [active |-> {}, seen |-> {}, corrupt |-> FALSE]
          ELSE Apply(upTo[n - 1], events[n])
    IN  upTo
Fold(events) == Replay(events)[Len(events)]

Active(events) == Fold(events).active
IsActive(events, id) == \E r \in Active(events) : r.id = id
\* allocateScheduleId: the next number no create of the log ever had.
FreshId(events) == Cardinality(Fold(events).seen) + 1

ById(r, s) == r.id < s.id
Earlier(r, s) == r.at < s.at \/ (r.at = s.at /\ r.id < s.id)

\* Array.sort of what no two elements of tie.
InOrder(S, Before(_, _)) ==
    CHOOSE s \in [1..Cardinality(S) -> S] :
        \A i, j \in DOMAIN s : i < j => Before(s[i], s[j])

\* dueDecision: the earliest due one-shot alone, else every due repeating
\* reminder in one batch.
Due(events, time) ==
    LET overdue == {r \in Active(events) : r.at <= time}
        oneShots == {r \in overdue : r.kind = "after"}
    IN  IF oneShots # {}
        THEN {r \in oneShots : \A s \in oneShots \ {r} : Earlier(r, s)}
        ELSE overdue

\* The message that is queued for a batch, and the dispatches recorded after it.
Reminder(due) == [op |-> "message", id |-> 0, life |-> used.lives,
                  due |-> {<<r.id, Occurrence(r, now)>> : r \in due}]
Dispatches(due) ==
    LET order == InOrder(due, Earlier)
    IN  [i \in DOMAIN order |-> [op |-> "dispatch", id |-> order[i].id, time |-> now]]

-----------------------------------------------------------------------------
(* The owner.                                                                *)

\* requestDrive: forget the timer and have one more drive; a run in progress
\* takes it up, else a run starts and queues its drive at once.
RequestDrive(o) ==
    IF ~Works(o) THEN o
    ELSE IF o.run THEN [o EXCEPT !.timer = NoTimer, !.requested = TRUE]
    ELSE [o EXCEPT !.timer = NoTimer, !.run = TRUE,
                   !.queue = Append(@, [kind |-> "drive"])]

\* The head transaction ends; the next one waits for its turn to start.
Leaves(o) == [o EXCEPT !.queue = Tail(@), !.phase = "queued", !.pending = {}]

\* Mutant of EndDrive: a trigger that came during the drive is forgotten.
EndDriveAlways(o) == [Leaves(o) EXCEPT !.run = FALSE, !.requested = FALSE]

\* A drive ends: its run takes up a trigger that came meanwhile, or retires.
EndDrive(o) ==
    IF o.requested /\ Works(o)
    THEN [Leaves(o) EXCEPT !.requested = FALSE, !.queue = Append(@, [kind |-> "drive"])]
    ELSE [Leaves(o) EXCEPT !.run = FALSE]

\* A drive gives up without a timer and without a wait; only a later trigger
\* resumes delivery.
GiveUp(o) == EndDrive([o EXCEPT !.stalled = TRUE])

\* arm: one bounded segment towards the earliest target to come.
Arm(o) ==
    LET targets == {r.at : r \in {x \in Active(log) : x.at > now}}
    IN  IF targets = {} THEN o
        ELSE [o EXCEPT !.timer = IF Min(targets) - now < MaxDelay THEN Min(targets)
                                 ELSE now + MaxDelay]

NewOwner == [state |-> "up", queue |-> << >>, phase |-> "queued", pending |-> {}, run |-> FALSE,
             requested |-> FALSE, timer |-> NoTimer, idleWait |-> FALSE, faulted |-> FALSE,
             stalled |-> FALSE]

Init ==
    /\ log = << >> /\ durable = 0 /\ now = 0
    /\ agent = [pc |-> "idle", cancelled |-> FALSE]
    /\ owner = RequestDrive(NewOwner)
    /\ told = [created |-> {}, deleted |-> {}]
    /\ used = [creates |-> 0, manages |-> 0, turns |-> 0, disturbances |-> 0, lives |-> 1]

\* driveOnce up to its preflight.
DriveStarts ==
    /\ At({"drive"}, "queued")
    /\ owner' = IF Up(owner)
                THEN [owner EXCEPT !.timer = NoTimer, !.phase = "preflight", !.stalled = FALSE]
                ELSE EndDrive([owner EXCEPT !.timer = NoTimer])
    /\ UNCHANGED <<log, durable, now, agent, told, used>>

\* The preflight of a runtime that was disposed meanwhile decides nothing.
DriveIsStopped ==
    /\ At({"drive"}, "preflight") /\ ~Up(owner)
    /\ durable' = Len(log)
    /\ owner' = EndDrive(owner)
    /\ UNCHANGED <<log, now, agent, told, used>>

\* Mutant of DriveArms: the flush may have outlived the runtime.
DriveArmsAfterStop ==
    /\ At({"drive"}, "preflight")
    /\ Due(log, now) = {}
    /\ durable' = Len(log)
    /\ owner' = EndDrive(Arm(owner))
    /\ UNCHANGED <<log, now, agent, told, used>>

DriveArms ==
    /\ At({"drive"}, "preflight") /\ Up(owner)
    /\ Due(log, now) = {}
    /\ durable' = Len(log)
    /\ owner' = EndDrive(Arm(owner))
    /\ UNCHANGED <<log, now, agent, told, used>>

\* Mutant of DriveIsBusy: the drive waits for idle inside of its transaction.
DriveHoldsQueue == FALSE /\ UNCHANGED vars

\* Mutant of DriveIsBusy: nobody waits for the end of another's maintenance.
DriveIsBusyUnwaited ==
    /\ At({"drive"}, "preflight") /\ Up(owner)
    /\ Due(log, now) # {} /\ agent.pc # "idle"
    /\ durable' = Len(log)
    /\ owner' = EndDrive(owner)
    /\ UNCHANGED <<log, now, agent, told, used>>

\* runMaintenance refuses: the wait for idle is outside of the transaction, so
\* that the tools of the running turn get theirs.
DriveIsBusy ==
    /\ At({"drive"}, "preflight") /\ Up(owner)
    /\ Due(log, now) # {} /\ agent.pc # "idle"
    /\ durable' = Len(log)
    /\ owner' = EndDrive([owner EXCEPT !.idleWait = TRUE])
    /\ UNCHANGED <<log, now, agent, told, used>>

\* Maintenance is claimed and released in one span: queue the message, record
\* the dispatches, and let the latched wake start the turn.
DriveDelivers ==
    /\ At({"drive"}, "preflight") /\ Up(owner)
    /\ Due(log, now) # {} /\ agent.pc = "idle"
    /\ durable' = Len(log)
    /\ LET due == Due(log, now)
       IN  log' = Append(log, Reminder(due)) \o Dispatches(due)
    /\ agent' = [agent EXCEPT !.pc = "turn", !.cancelled = FALSE]
    /\ owner' = [owner EXCEPT !.phase = "barrier"]
    /\ UNCHANGED <<now, told, used>>

\* The queueing of the message throws: nothing is recorded.
QueueingFails ==
    /\ At({"drive"}, "preflight") /\ Up(owner)
    /\ Due(log, now) # {} /\ agent.pc = "idle"
    /\ Disturbs
    /\ durable' = Len(log)
    /\ owner' = GiveUp(owner)
    /\ UNCHANGED <<log, now, agent, told>>

\* Mutant of DispatchFails: the owner goes on after a failed append.
DispatchFailsUnfaulted ==
    /\ At({"drive"}, "preflight") /\ Up(owner)
    /\ Due(log, now) # {} /\ agent.pc = "idle"
    /\ Disturbs
    /\ durable' = Len(log)
    /\ LET due == Due(log, now)
       IN  \E n \in 0..(Cardinality(due) - 1) :
             log' = Append(log, Reminder(due)) \o SubSeq(Dispatches(due), 1, n)
    /\ agent' = [agent EXCEPT !.pc = "turn", !.cancelled = FALSE]
    /\ owner' = GiveUp(owner)
    /\ UNCHANGED <<now, told>>

\* An append of a dispatch throws with the message already queued: the owner
\* is faulted, and the dispatches before it stay.
DispatchFails ==
    /\ At({"drive"}, "preflight") /\ Up(owner)
    /\ Due(log, now) # {} /\ agent.pc = "idle"
    /\ Disturbs
    /\ durable' = Len(log)
    /\ LET due == Due(log, now)
       IN  \E n \in 0..(Cardinality(due) - 1) :
             log' = Append(log, Reminder(due)) \o SubSeq(Dispatches(due), 1, n)
    /\ agent' = [agent EXCEPT !.pc = "turn", !.cancelled = FALSE]
    /\ owner' = EndDrive([owner EXCEPT !.faulted = TRUE, !.timer = NoTimer])
    /\ UNCHANGED <<now, told>>

DispatchIsDurable ==
    /\ At({"drive"}, "barrier")
    /\ durable' = Len(log)
    /\ owner' = EndDrive(RequestDrive(owner))
    /\ UNCHANGED <<log, now, agent, told, used>>

\* The flush of a drive fails, before its decision or after its dispatches.
DriveFlushFails ==
    /\ At({"drive"}, "preflight") \/ At({"drive"}, "barrier")
    /\ Disturbs
    /\ owner' = GiveUp(owner)
    /\ UNCHANGED <<log, durable, now, agent, told>>

TimerFires ==
    /\ owner.timer # NoTimer /\ owner.timer <= now
    /\ owner' = RequestDrive([owner EXCEPT !.timer = NoTimer])
    /\ UNCHANGED <<log, durable, now, agent, told, used>>

\* waitForIdle's promise settles at idle.
IdleWaitEnds ==
    /\ owner.idleWait /\ agent.pc = "idle"
    /\ owner' = RequestDrive([owner EXCEPT !.idleWait = FALSE])
    /\ UNCHANGED <<log, durable, now, agent, told, used>>

\* dispose: no timer, no wait, no trigger from here on ...
DisposeStarts ==
    /\ Up(owner)
    /\ owner' = [owner EXCEPT !.state = "stopping", !.requested = FALSE, !.timer = NoTimer,
                              !.idleWait = FALSE]
    /\ UNCHANGED <<log, durable, now, agent, told, used>>

\* ... and it returns when the run is over.
DisposeEnds ==
    /\ owner.state = "stopping" /\ ~owner.run
    /\ owner' = [owner EXCEPT !.state = "stopped"]
    /\ UNCHANGED <<log, durable, now, agent, told, used>>

-----------------------------------------------------------------------------
(* The tools, called in a turn, and the stop of an archive.                  *)

Submits(entry) == owner' = [owner EXCEPT !.queue = Append(@, entry)]

\* schedule_create in the two shapes of a rule.
CreateIsCalled ==
    /\ Up(owner) /\ agent.pc = "turn" /\ ~agent.cancelled
    /\ Uses("creates", MaxCreates)
    /\ \/ \E delay \in Delays : Submits([kind |-> "create", rule |-> "after", wait |-> delay])
       \/ Submits([kind |-> "create", rule |-> "every", wait |-> Interval])
    /\ UNCHANGED <<log, durable, now, agent, told>>

DeleteIsCalled ==
    /\ Up(owner) /\ agent.pc = "turn" /\ ~agent.cancelled
    /\ Uses("manages", MaxManages)
    /\ \E id \in 1..MaxCreates : Submits([kind |-> "delete", id |-> id])
    /\ UNCHANGED <<log, durable, now, agent, told>>

ListIsCalled ==
    /\ Up(owner) /\ agent.pc = "turn" /\ ~agent.cancelled
    /\ Uses("manages", MaxManages)
    /\ Submits([kind |-> "list"])
    /\ UNCHANGED <<log, durable, now, agent, told>>

\* workspace/session-stop, which only an owned runtime that works answers.
StopIsCalled ==
    /\ Works(owner)
    /\ Uses("manages", MaxManages)
    /\ Submits([kind |-> "stop"])
    /\ UNCHANGED <<log, durable, now, agent, told>>

\* The head starts; a call whose turn was cancelled returns at once.
ManageStarts ==
    /\ At(Calls \cup {"stop"}, "queued")
    /\ owner' = IF IsKind(owner, Calls) /\ agent.cancelled THEN Leaves(owner)
                ELSE [owner EXCEPT !.phase = "preflight"]
    /\ UNCHANGED <<log, durable, now, agent, told, used>>

\* The preflight succeeds: the owner is notified, then the fold is read.
Create ==
    /\ At({"create"}, "preflight")
    /\ durable' = Len(log)
    /\ LET call == Head(owner.queue)
           record == [id |-> FreshId(log), kind |-> call.rule, at |-> now + call.wait]
       IN  IF agent.cancelled
           THEN log' = log /\ owner' = Leaves(RequestDrive(owner))
           ELSE /\ log' = Append(log, [op |-> "create", id |-> record.id, record |-> record])
                /\ owner' = [RequestDrive(owner) EXCEPT !.phase = "barrier",
                                                        !.pending = {record.id}]
    /\ UNCHANGED <<now, agent, told, used>>

Delete ==
    /\ At({"delete"}, "preflight")
    /\ durable' = Len(log)
    /\ LET id == Head(owner.queue).id
       IN  IF agent.cancelled \/ ~IsActive(log, id)
           THEN log' = log /\ owner' = Leaves(RequestDrive(owner))
           ELSE /\ log' = Append(log, [op |-> "delete", id |-> id])
                /\ owner' = [RequestDrive(owner) EXCEPT !.phase = "barrier", !.pending = {id}]
    /\ UNCHANGED <<now, agent, told, used>>

List ==
    /\ At({"list"}, "preflight")
    /\ durable' = Len(log)
    /\ owner' = Leaves(RequestDrive(owner))
    /\ UNCHANGED <<log, now, agent, told, used>>

\* The stop reads the active reminders after its preflight and deletes them
\* all; the owner is asked to drive before the barrier.
Stop ==
    /\ At({"stop"}, "preflight")
    /\ durable' = Len(log)
    /\ LET order == InOrder(Active(log), ById)
       IN  IF ~Works(owner) \/ order = << >>
           THEN log' = log /\ owner' = Leaves(owner)
           ELSE /\ log' = log \o [i \in DOMAIN order |-> [op |-> "delete", id |-> order[i].id]]
                /\ owner' = [RequestDrive(owner) EXCEPT !.phase = "barrier",
                               !.pending = {r.id : r \in Active(log)}]
    /\ UNCHANGED <<now, agent, told, used>>

\* Mutant of ManageIsDurable: the change is reported without a second flush.
ManageReportsEarly ==
    /\ At(Calls \cup {"stop"}, "barrier")
    /\ told' = IF IsKind(owner, {"create"})
               THEN [told EXCEPT !.created = @ \cup owner.pending]
               ELSE [told EXCEPT !.deleted = @ \cup owner.pending]
    /\ owner' = Leaves(IF IsKind(owner, {"stop"}) THEN owner ELSE RequestDrive(owner))
    /\ UNCHANGED <<log, durable, now, agent, used>>

\* The barrier after the appends: only now is the change reported, and a tool
\* notifies the owner once more.
ManageIsDurable ==
    /\ At(Calls \cup {"stop"}, "barrier")
    /\ durable' = Len(log)
    /\ told' = IF IsKind(owner, {"create"})
               THEN [told EXCEPT !.created = @ \cup owner.pending]
               ELSE [told EXCEPT !.deleted = @ \cup owner.pending]
    /\ owner' = Leaves(IF IsKind(owner, {"stop"}) THEN owner ELSE RequestDrive(owner))
    /\ UNCHANGED <<log, now, agent, used>>

\* persistence_uncertain, or a rejected stop: nothing is promised.
ManageFlushFails ==
    /\ At(Calls \cup {"stop"}, "preflight") \/ At(Calls \cup {"stop"}, "barrier")
    /\ Disturbs
    /\ owner' = Leaves(owner)
    /\ UNCHANGED <<log, durable, now, agent, told>>

-----------------------------------------------------------------------------
(* The agent, the clock and the process.                                     *)

TurnStarts ==
    /\ owner.state # "down" /\ agent.pc = "idle"
    /\ Uses("turns", MaxTurns)
    /\ agent' = [agent EXCEPT !.pc = "turn", !.cancelled = FALSE]
    /\ UNCHANGED <<log, durable, now, owner, told>>

TurnIsCancelled ==
    /\ agent.pc = "turn" /\ ~agent.cancelled
    /\ Disturbs
    /\ agent' = [agent EXCEPT !.cancelled = TRUE]
    /\ UNCHANGED <<log, durable, now, owner, told>>

\* A turn ends when its calls have returned; at idle the owner is asked to
\* drive, once the log holds a schedule change.
TurnEnds ==
    /\ agent.pc = "turn"
    /\ \A i \in DOMAIN owner.queue : owner.queue[i].kind \notin Calls
    /\ agent' = [agent EXCEPT !.pc = "idle"]
    /\ owner' = IF \E i \in DOMAIN log : log[i].op # "message" THEN RequestDrive(owner) ELSE owner
    /\ UNCHANGED <<log, durable, now, told, used>>

MaintenanceStarts ==
    /\ owner.state # "down" /\ agent.pc = "idle"
    /\ Disturbs
    /\ agent' = [agent EXCEPT !.pc = "maintenance"]
    /\ UNCHANGED <<log, durable, now, owner, told>>

\* Maintenance is idle to the outside: no status change asks for a drive.
MaintenanceEnds ==
    /\ agent.pc = "maintenance"
    /\ agent' = [agent EXCEPT !.pc = "idle"]
    /\ UNCHANGED <<log, durable, now, owner, told, used>>

Tick ==
    /\ now < MaxTime
    /\ now' = now + 1
    /\ UNCHANGED <<log, durable, agent, owner, told, used>>

\* What no flush covered may be lost from some point on.
Crash ==
    /\ owner.state # "down"
    /\ used.disturbances < MaxDisturbances
    /\ used' = [used EXCEPT !.disturbances = @ + 1, !.lives = @ + 1]
    /\ \E n \in durable..Len(log) : log' = SubSeq(log, 1, n) /\ durable' = n
    /\ owner' = [NewOwner EXCEPT !.state = "down"]
    /\ agent' = [pc |-> "idle", cancelled |-> FALSE]
    /\ UNCHANGED <<now, told>>

Resume ==
    /\ owner.state = "down"
    /\ owner' = RequestDrive(NewOwner)
    /\ UNCHANGED <<log, durable, now, agent, told, used>>

Transact == \/ DriveStarts \/ DriveIsStopped \/ DriveArms \/ DriveIsBusy \/ DriveDelivers
            \/ DispatchIsDurable
            \/ ManageStarts \/ Create \/ Delete \/ List \/ Stop \/ ManageIsDurable
Requests == CreateIsCalled \/ DeleteIsCalled \/ ListIsCalled \/ StopIsCalled
Fails == QueueingFails \/ DispatchFails \/ DriveFlushFails \/ ManageFlushFails

Next ==
    \/ Transact \/ TimerFires \/ IdleWaitEnds \/ Requests \/ Fails
    \/ DisposeStarts \/ DisposeEnds
    \/ TurnStarts \/ TurnIsCancelled \/ TurnEnds \/ MaintenanceStarts \/ MaintenanceEnds
    \/ Tick \/ Crash \/ Resume

Spec == Init /\ [][Next]_vars

\* What the process starts it finishes: the head transaction, timers and waits,
\* turns and maintenance jobs; time passes and a closed session is resumed.
Fairness ==
    /\ WF_vars(Transact) /\ WF_vars(TimerFires) /\ WF_vars(IdleWaitEnds)
    /\ WF_vars(TurnEnds \/ MaintenanceEnds)
    /\ WF_vars(DisposeEnds \/ Resume)
    /\ WF_vars(Tick)
FairSpec == Spec /\ Fairness

-----------------------------------------------------------------------------
(* Properties.                                                               *)

\* Every variable has its type, the durable part is a prefix of the log, and a run
\* is in progress exactly when its drive is in the queue.
TypeOK ==
    /\ durable \in 0..Len(log) /\ now \in 0..MaxTime
    /\ \A i \in DOMAIN log : log[i].op \in {"create", "delete", "message", "dispatch"}
    /\ agent \in [pc : {"idle", "turn", "maintenance"}, cancelled : BOOLEAN]
    /\ owner.state \in {"up", "stopping", "stopped", "down"}
    /\ owner.phase \in {"queued", "preflight", "barrier"}
    /\ owner.timer \in {NoTimer} \cup 1..(MaxTime + MaxDelay)
    /\ {owner.run, owner.requested, owner.idleWait, owner.faulted, owner.stalled} \subseteq BOOLEAN
    /\ owner.run <=> \E i \in DOMAIN owner.queue : owner.queue[i].kind = "drive"
    /\ told.created \cup told.deleted \subseteq 1..MaxCreates

\* What a tool or a stop reported survives every crash: a confirmed reminder
\* is on the durable log, a confirmed deletion too, and nothing of a deleted
\* one is delivered after it.
ReportsSurvive ==
    /\ \A id \in told.created : \E i \in 1..durable : log[i].op = "create" /\ log[i].id = id
    /\ \A id \in told.deleted : \E i \in 1..durable :
          /\ log[i].op = "delete" /\ log[i].id = id
          /\ \A j \in (i + 1)..Len(log) : log[j].op = "message" =>
                \A d \in log[j].due : d[1] # id

Covers(i, id) == log[i].op = "message" /\ \E d \in log[i].due : d[1] = id

\* The log replays: no id is used twice, nothing inactive is deleted or
\* dispatched, whatever a crash left (the owner would be faulted for good).  At
\* least once, and no more than a crash explains: a recorded dispatch has
\* its message before it, so no crash keeps the one without the other, and one
\* occurrence is queued twice only in two lives of the process with its dispatch
\* lost between them.
DeliveredOnce ==
    /\ ~Fold(log).corrupt
    /\ \A i \in DOMAIN log : log[i].op = "dispatch" =>
          \E j \in 1..(i - 1) : /\ Covers(j, log[i].id)
                                /\ \A k \in (j + 1)..(i - 1) :
                                      ~(log[k].op = "dispatch" /\ log[k].id = log[i].id)
    /\ \A i, j \in DOMAIN log :
          (i < j /\ log[i].op = "message" /\ log[j].op = "message") =>
             \A d \in log[i].due \cap log[j].due :
                /\ log[i].life # log[j].life
                /\ \A k \in i..j : ~(log[k].op = "dispatch" /\ log[k].id = d[1])

\* With every variable of its type, a live owner with nothing under way has a
\* timer that comes no later than its earliest reminder, unless its last drive
\* gave up on a failure: no reminder is left that neither a timer nor a wait
\* will bring.
TimerKept ==
    /\ TypeOK
    /\ (Works(owner) /\ owner.queue = << >> /\ ~owner.idleWait /\ ~owner.stalled
          /\ agent.pc # "turn") =>
          \A r \in Active(log) : owner.timer # NoTimer /\ owner.timer <= r.at

\* From the start of the disposal on, no reminder is queued and no timer armed
\* by the drive that was under way.
DisposedIsQuiet ==
    [][owner.state \in {"stopping", "stopped"} /\ owner'.state # "down" =>
          /\ owner'.timer = NoTimer /\ ~owner'.idleWait
          /\ \A i \in (Len(log) + 1)..Len(log') : log'[i].op # "message"]_vars

\* A reminder that is overdue on a live owner is dispatched, deleted or lost
\* with an unfinished creation, unless the owner gave up on a failure, is
\* faulted or stops.
DueIsDelivered ==
    (Works(owner) /\ \E r \in Active(log) : r.at <= now)
      ~> (owner.stalled \/ ~Works(owner) \/ \A r \in Active(log) : r.at > now)

\* No transaction is stuck: a due drive does not hold the queue against the
\* tools of the turn whose end it waits for, and a disposal returns.
QueueDrains ==
    (owner.queue # << >> \/ owner.state = "stopping")
      ~> (owner.queue = << >> /\ owner.state # "stopping")
=============================================================================
