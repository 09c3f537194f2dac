----------------------------- MODULE GoalRounds -----------------------------
(***************************************************************************)
(* Automatic continuation of a goal: the goal service of one session       *)
(* (packages/goal/goal), its strict fold of the session log, the driver    *)
(* that reserves, fences and settles goal rounds                           *)
(* (packages/goal/goal-round-driver), and as much of the agent's turn      *)
(* driver (core/agent-loop) as a round goes through.                        *)
(* Listeners run inside the call that emits their event, so one action is  *)
(* a whole synchronous span: its parts are operators on the record         *)
(*   w = [goal, driver, agent, log]                                        *)
(* and actions meet where the code awaits.  Objectives, prompts, block     *)
(* reasons, timestamps, next-step messages and a reload of the driver are  *)
(* left out.                                                               *)
(***************************************************************************)
EXTENDS Integers, Sequences

CONSTANTS MaxGoalRounds,   \* bound: round caps a person gives a goal
          MaxChanges,      \* bound: goal changes made by people and the model
          MaxPrompts,      \* bound: messages of people
          MaxMaintenances, \* bound: maintenance jobs
          MaxCancels,      \* bound: cancellations by people
          MaxFailures      \* bound: failing flushes, turns and prompt hooks

ASSUME BoundsAssumption ==
    /\ MaxGoalRounds \in Nat \ {0}
    /\ {MaxChanges, MaxPrompts, MaxMaintenances, MaxCancels, MaxFailures} \subseteq Nat

VARIABLES
    goal,    \* the projection and its activation: id, rev, phase, cap, rounds, armed, failed
    driver,  \* the driver's state for the agent, and whether the plugin is up
    agent,   \* where the turn driver stands, its claimed prompt, signal and inbox
    log,     \* goal changes appended, and how many a finished flush covers
    used,    \* how much of each bound is used up
    changed  \* history: the goal changed while a round's request was prepared

vars == <<goal, driver, agent, log, used, changed>>

W == [goal |-> goal, driver |-> driver, agent |-> agent, log |-> log]
Becomes(w) == /\ goal' = w.goal /\ driver' = w.driver
              /\ agent' = w.agent /\ log' = w.log

None == [kind |-> "none"]
Human == [kind |-> "human"]
\* A round's source, its message, and the reservation that keeps its identity.
Round(g) == [id |-> g.id, rev |-> g.rev, round |-> g.rounds + 1]
Message(round, mid) == [kind |-> "goal", round |-> round, mid |-> mid]
Attempt(msg) == [kind |-> "attempt", round |-> msg.round, mid |-> msg.mid, phase |-> "queued",
                 cancelled |-> FALSE, stale |-> FALSE]

Running == {"claimed", "hooks", "preparing", "stepping"}
IsRunning(w) == w.agent.pc \in Running
Armed(g) == ~g.failed /\ g.phase = "active" /\ g.armed
\* The driver knows its message by content and source, so a copy passes for it.
Own(w, msg) == /\ w.driver.attempt # None /\ msg.kind = "goal"
               /\ msg.round = w.driver.attempt.round
IsLive(round, g) == Armed(g) /\ round.id = g.id /\ round.rev = g.rev

Init ==
    /\ goal = [id |-> 0, rev |-> 0, phase |-> "none", cap |-> 1, rounds |-> 0,
               armed |-> FALSE, failed |-> FALSE]
    /\ driver = [state |-> "up", attempt |-> None, competing |-> FALSE, checkpoint |-> FALSE,
                 requested |-> FALSE, run |-> FALSE, flushes |-> << >>, issued |-> 0]
    /\ agent = [pc |-> "idle", msg |-> None, aborted |-> FALSE, wake |-> FALSE,
                inbox |-> << >>]
    /\ log = [changes |-> 0, durable |-> 0]
    /\ used = [changes |-> 0, prompts |-> 0, maintenances |-> 0, cancels |-> 0, failures |-> 0]
    /\ changed = FALSE

Uses(what, max) == /\ used[what] < max
                   /\ used' = [used EXCEPT ![what] = @ + 1]

-----------------------------------------------------------------------------
(* The agent.  A wake at idle starts the turn and claims its prompt in the   *)
(* same span; maintenance and an aborted turn latch it.                      *)

Claim(w) ==
    [w EXCEPT !.agent.pc = "claimed",
              !.agent.msg = Head(w.agent.inbox),
              !.agent.inbox = Tail(@),
              !.agent.aborted = FALSE,
              !.agent.wake = FALSE,
              !.driver.attempt = IF Own(w, Head(w.agent.inbox))
                                 THEN [@ EXCEPT !.phase = "claimed"] ELSE @]

\* followup: insert in next-turn, then wake.  The driver's listener takes any
\* message but its own for a competing prompt, which makes a queued round stale.
Followup(w, msg) ==
    LET queued == [w EXCEPT !.agent.inbox = Append(@, msg)]
        heard == IF Own(w, msg) \/ w.driver.state = "down" THEN queued
                 ELSE [queued EXCEPT !.driver.competing = TRUE,
                        !.driver.attempt = IF @ # None /\ @.phase = "queued"
                                           THEN [@ EXCEPT !.stale = TRUE] ELSE @]
    IN  IF w.agent.pc = "idle" THEN Claim(heard)
        ELSE IF w.agent.pc = "maintenance" \/ w.agent.aborted
        THEN [heard EXCEPT !.agent.wake = TRUE]
        ELSE heard

\* cancel: the signal of a running turn or maintenance, and the inbox unless it
\* is kept; a discarded round is cancelled.
Cancel(w, keepInbox) ==
    LET aborted == [w EXCEPT !.agent.aborted = (w.agent.pc # "idle")]
    IN  IF keepInbox THEN aborted
        ELSE [aborted EXCEPT !.agent.inbox = << >>, !.agent.wake = FALSE,
                !.driver.attempt = IF \E i \in 1..Len(w.agent.inbox) : Own(w, w.agent.inbox[i])
                                   THEN [@ EXCEPT !.cancelled = TRUE] ELSE @]

-----------------------------------------------------------------------------
(* The driver.                                                               *)

\* disarm: automatic authority goes, phase and revision stay.
Disarm(w) == IF w.goal.failed THEN w ELSE [w EXCEPT !.goal.armed = FALSE]

ReadyToDrive(w) ==
    /\ w.driver.state = "up"
    /\ w.agent.pc \in {"idle", "maintenance"}
    /\ ~w.driver.competing

\* Whether a pass goes into a flush: a change needs its checkpoint, and so does
\* an attempt that is over, which the pass forgets first.
Awaits(w) == ReadyToDrive(w) /\ (w.driver.checkpoint \/ w.driver.attempt # None)

\* sessions.flush: it will cover what the log holds now.
Checkpoint(w) ==
    [w EXCEPT !.driver.checkpoint = FALSE, !.driver.requested = FALSE,
              !.driver.flushes = Append(@, w.log.changes),
              !.driver.attempt = IF w.driver.checkpoint THEN @ ELSE None]

\* The driver's own block.  Its goal/changed event asks for another pass: the
\* loop that blocks goes on when run is set; a pass that never awaited has not
\* set it yet, so the event starts a run of its own.
BlocksAtLimit(w) ==
    LET blocked == [w EXCEPT !.goal.phase = "blocked", !.goal.rev = @ + 1,
                             !.goal.armed = FALSE, !.log.changes = @ + 1,
                             !.driver.checkpoint = TRUE]
    IN  IF w.driver.run THEN [blocked EXCEPT !.driver.requested = TRUE]
        ELSE [Checkpoint(blocked) EXCEPT !.driver.run = TRUE]

\* A pass beyond the checkpoint and without an attempt: at most one next round
\* is reserved.
Pass(w) ==
    IF ~Armed(w.goal) THEN w
    ELSE IF w.goal.rounds >= w.goal.cap THEN BlocksAtLimit(w)
    ELSE LET msg == Message(Round(w.goal), w.driver.issued + 1)
         IN  Followup([w EXCEPT !.driver.attempt = Attempt(msg), !.driver.issued = @ + 1], msg)

\* A run that did not await retires at once, and run with it.
RequestDrive(w) ==
    IF w.driver.state # "up" THEN w
    ELSE IF w.driver.run THEN [w EXCEPT !.driver.requested = TRUE]
    ELSE IF Awaits(w) THEN [Checkpoint(w) EXCEPT !.driver.run = TRUE]
    ELSE IF ReadyToDrive(w) THEN [Pass(w) EXCEPT !.driver.run = FALSE]
    ELSE w

\* Append goal/change and tell the driver; a host's pause stops the live turn.
Change(w, g, hostPauses) ==
    LET edited == [w EXCEPT !.goal = g, !.log.changes = @ + 1]
        stopped == IF hostPauses /\ IsRunning(w) THEN Cancel(edited, TRUE) ELSE edited
    IN  IF w.driver.state = "down" THEN edited
        ELSE RequestDrive([stopped EXCEPT !.driver.checkpoint = TRUE])

NextRev(g, phase, armed) == [g EXCEPT !.rev = @ + 1, !.phase = phase, !.armed = armed]

\* The driver's reaction to whole-agent idle: a round that was dropped pauses
\* the goal it was for.
Dropped(w) ==
    LET a == w.driver.attempt IN
    /\ a # None
    /\ a.phase \in {"queued", "claimed"} \/ a.cancelled
    /\ IsLive(a.round, w.goal)

Wakes(w) == w.agent.wake /\ w.agent.inbox # << >> /\ w.agent.pc = "idle"

\* Mutant of GoesIdle: an idle agent without a dropped round asks for no pass.
GoesIdleUnattended(w) ==
    LET idle == [w EXCEPT !.agent.pc = "idle", !.agent.msg = None, !.agent.aborted = FALSE]
        calm == [idle EXCEPT !.driver.competing = FALSE]
        told == IF w.driver.state = "down" THEN idle
                ELSE IF ~w.goal.failed /\ Dropped(calm)
                THEN RequestDrive(Change([calm EXCEPT !.driver.attempt = None],
                                         NextRev(w.goal, "paused", FALSE), FALSE))
                ELSE calm
    IN  IF Wakes(told) THEN Claim(told) ELSE [told EXCEPT !.agent.wake = FALSE]

GoesIdle(w) ==
    LET idle == [w EXCEPT !.agent.pc = "idle", !.agent.msg = None, !.agent.aborted = FALSE]
        calm == [idle EXCEPT !.driver.competing = FALSE]
        told == IF w.driver.state = "down" THEN idle
                ELSE IF w.goal.failed THEN calm
                ELSE IF Dropped(calm)
                THEN RequestDrive(Change([calm EXCEPT !.driver.attempt = None],
                                         NextRev(w.goal, "paused", FALSE), FALSE))
                ELSE RequestDrive(calm)
    IN  IF Wakes(told) THEN Claim(told) ELSE [told EXCEPT !.agent.wake = FALSE]

\* The turn is over without an error: the next queued prompt opens the next one.
NextTurn(w) == IF w.agent.inbox = << >> THEN GoesIdle(w) ELSE Claim(w)

\* What a user/message of the goal does to the fold.
Admissible(g, msg) ==
    /\ g.phase = "active" /\ msg.round = Round(g) /\ msg.round.round <= g.cap

Fold(g, msg) ==
    IF msg.kind # "goal" \/ g.failed THEN g
    ELSE IF Admissible(g, msg) THEN [g EXCEPT !.rounds = @ + 1]
    ELSE [g EXCEPT !.failed = TRUE]

ValidReservation(w) ==
    LET a == w.driver.attempt IN
    /\ w.driver.state = "up"
    /\ Own(w, w.agent.msg) /\ a.phase = "claimed" /\ ~a.stale
    /\ Armed(w.goal) /\ a.round = Round(w.goal)

-----------------------------------------------------------------------------
(* Actions of people, of the model and of the environment.                   *)

\* Kept by every action.
Remember ==
    changed' = /\ agent'.pc = "preparing"
               /\ changed \/ (agent.pc = "preparing" /\ log'.changes # log.changes)

\* A goal change by a person or by the model in its turn.
Mutates(g, hostPauses) ==
    /\ ~goal.failed
    /\ Uses("changes", MaxChanges)
    /\ Becomes(Change(W, g, hostPauses))
    /\ Remember

Create(cap) ==
    /\ goal.phase \in {"none", "complete"}
    /\ Mutates([id |-> goal.id + 1, rev |-> 1, phase |-> "active", cap |-> cap, rounds |-> 0,
                armed |-> TRUE, failed |-> FALSE], FALSE)

\* An edit keeps phase and activation.
Edit(cap) ==
    /\ goal.phase # "none"
    /\ Mutates([goal EXCEPT !.rev = @ + 1, !.cap = cap], FALSE)

\* hosts: whether a person pauses, or the model inside its own turn.
Pause(host) ==
    /\ goal.phase = "active"
    /\ host \/ agent.pc = "stepping"
    /\ Mutates(NextRev(goal, "paused", FALSE), host)

Resume ==
    /\ goal.phase \in {"active", "paused", "blocked"}
    /\ ~Armed(goal) /\ goal.rounds < goal.cap
    /\ Mutates(NextRev(goal, "active", TRUE), FALSE)

Complete ==
    /\ goal.phase \in {"active", "paused", "blocked"}
    /\ Mutates(NextRev(goal, "complete", FALSE), FALSE)

Block ==
    /\ goal.phase = "active"
    /\ agent.pc = "stepping"
    /\ Mutates(NextRev(goal, "blocked", FALSE), FALSE)

Clear ==
    /\ goal.phase # "none"
    /\ Mutates([NextRev(goal, "none", FALSE) EXCEPT !.rounds = 0], FALSE)

Prompts ==
    /\ Uses("prompts", MaxPrompts)
    /\ Becomes(Followup(W, Human))
    /\ Remember

\* A person cancels, with or without the inbox.
Cancels(keepInbox) ==
    /\ agent.pc # "idle" \/ agent.inbox # << >>
    /\ Uses("cancels", MaxCancels)
    /\ Becomes(Cancel(W, keepInbox))
    /\ Remember

\* Compaction and schedules occupy the idle agent; its status stays idle.
MaintenanceStarts ==
    /\ agent.pc = "idle"
    /\ Uses("maintenances", MaxMaintenances)
    /\ agent' = [agent EXCEPT !.pc = "maintenance", !.wake = FALSE]
    /\ UNCHANGED <<goal, driver, log>>
    /\ Remember

MaintenanceEnds ==
    /\ agent.pc = "maintenance"
    /\ LET idle == [W EXCEPT !.agent.pc = "idle", !.agent.aborted = FALSE]
       IN  Becomes(IF Wakes(idle) THEN Claim(idle) ELSE [idle EXCEPT !.agent.wake = FALSE])
    /\ UNCHANGED used
    /\ Remember

-----------------------------------------------------------------------------
(* The turn.                                                                 *)

Goes(pc) == /\ agent' = [agent EXCEPT !.pc = pc]
            /\ UNCHANGED <<goal, driver, log, used>>

\* A prompt without a step: the turn ends blocked and the activity with it,
\* whatever the inbox holds.
Rejected(w) == GoesIdle(w)

\* The step's proposal reaches the fence: a round that no longer owns the live
\* revision is dropped, and its reservation with it.
FenceFirst ==
    /\ agent.pc = "claimed" /\ ~agent.aborted
    /\ IF agent.msg.kind # "goal" \/ driver.state = "down" \/ ValidReservation(W)
       THEN Goes("hooks")
       ELSE /\ Becomes(Rejected(RequestDrive(
                IF Own(W, agent.msg) THEN [W EXCEPT !.driver.attempt = None] ELSE W)))
            /\ UNCHANGED used
    /\ Remember

\* Mutant of FenceAgain: what the hooks awaited for is not looked at again.
FenceOnce ==
    /\ agent.pc = "hooks" /\ ~agent.aborted
    /\ Goes("preparing")
    /\ Remember

\* After the other hooks the reservation is checked again.
FenceAgain ==
    /\ agent.pc = "hooks" /\ ~agent.aborted
    /\ IF agent.msg.kind # "goal" \/ driver.state = "down" \/ ValidReservation(W)
       THEN Goes("preparing")
       ELSE /\ Becomes(Rejected(RequestDrive([W EXCEPT !.driver.attempt = None])))
            /\ UNCHANGED used
    /\ Remember

\* Another hook rejects the step; a round of the live revision blocks its goal.
HookRejects ==
    /\ agent.pc = "hooks" /\ ~agent.aborted
    /\ Uses("failures", MaxFailures)
    /\ ~goal.failed
    /\ LET fenced == agent.msg.kind = "goal" /\ driver.state # "down"
           freed == IF fenced THEN [W EXCEPT !.driver.attempt = None] ELSE W
       IN  Becomes(Rejected(IF fenced /\ IsLive(agent.msg.round, goal)
                            THEN Change(freed, NextRev(goal, "blocked", FALSE), FALSE)
                            ELSE freed))
    /\ Remember

\* The request is prepared: the step's messages enter the history.
MessagesEnter ==
    /\ agent.pc = "preparing" /\ ~agent.aborted
    /\ agent' = [agent EXCEPT !.pc = "stepping"]
    /\ goal' = Fold(goal, agent.msg)
    /\ driver' = [driver EXCEPT !.attempt = IF @ # None /\ agent.msg.kind = "goal"
                                               /\ @.mid = agent.msg.mid
                                            THEN [@ EXCEPT !.phase = "admitted"] ELSE @]
    /\ UNCHANGED <<log, used>>
    /\ Remember

TurnCompletes ==
    /\ agent.pc = "stepping" /\ ~agent.aborted
    /\ Becomes(NextTurn(W))
    /\ UNCHANGED used
    /\ Remember

\* The step ran into the token ceiling.
TurnHitsCeiling ==
    /\ agent.pc = "stepping" /\ ~agent.aborted
    /\ Uses("failures", MaxFailures)
    /\ Becomes(NextTurn(IF driver.state = "down" THEN W ELSE Disarm(W)))
    /\ Remember

\* A request, a hook or a listener fails: agent/error, and the activity ends.
TurnFails ==
    /\ agent.pc \in Running /\ ~agent.aborted
    /\ Uses("failures", MaxFailures)
    /\ LET fenced == agent.pc = "hooks" /\ agent.msg.kind = "goal" /\ driver.state # "down"
           freed == IF fenced THEN [W EXCEPT !.driver.attempt = None] ELSE W
       IN  Becomes(GoesIdle(IF driver.state = "down" THEN freed ELSE Disarm(freed)))
    /\ Remember

\* The aborted turn converges: the round under way counts as cancelled, and
\* without one the goal is disarmed.
TurnAborts ==
    /\ agent.pc \in Running /\ agent.aborted
    /\ LET a == driver.attempt
           ended == IF driver.state = "down" THEN W
                    ELSE IF a # None /\ a.phase \in {"claimed", "admitted"}
                    THEN [W EXCEPT !.driver.attempt.cancelled = TRUE]
                    ELSE Disarm(W)
       IN  Becomes(GoesIdle(ended))
    /\ UNCHANGED used
    /\ Remember

-----------------------------------------------------------------------------
(* The driver's await.                                                       *)

\* After a pass the loop looks for triggers that arrived meanwhile; at its end
\* run is forgotten, whichever loop set it.
Loop(w) ==
    IF w.driver.requested /\ Awaits(w) THEN Checkpoint(w)
    ELSE [w EXCEPT !.driver.requested = FALSE, !.driver.run = FALSE]

\* Mutant of FlushSucceeds: after the await the agent is taken for idle still.
FlushSucceedsUnchecked ==
    /\ driver.flushes # << >>
    /\ LET w == [W EXCEPT !.driver.flushes = Tail(@),
                          !.log.durable = IF Head(driver.flushes) > @
                                          THEN Head(driver.flushes) ELSE @]
       IN  Becomes(IF w.driver.checkpoint THEN Loop(w)
                   ELSE IF w.driver.attempt # None THEN Checkpoint(w)
                   ELSE Loop(Pass(w)))
    /\ UNCHANGED used
    /\ Remember

FlushSucceeds ==
    /\ driver.flushes # << >>
    /\ LET w == [W EXCEPT !.driver.flushes = Tail(@),
                          !.log.durable = IF Head(driver.flushes) > @
                                          THEN Head(driver.flushes) ELSE @]
       IN  Becomes(IF ~ReadyToDrive(w) \/ w.driver.checkpoint THEN Loop(w)
                   ELSE IF w.driver.attempt # None THEN Checkpoint(w)
                   ELSE Loop(Pass(w)))
    /\ UNCHANGED used
    /\ Remember

FlushFails ==
    /\ driver.flushes # << >>
    /\ Uses("failures", MaxFailures)
    /\ Becomes(Loop(Disarm([W EXCEPT !.driver.flushes = Tail(@)])))
    /\ Remember

\* The plugin unloads: the fence stays until the agent it cancelled is idle and
\* the run it had is over.
UnloadBegins ==
    /\ driver.state = "up"
    /\ LET closed == Disarm([W EXCEPT !.driver.state = "stopping"])
           stale == [closed EXCEPT !.driver.attempt.stale = TRUE]
       IN  Becomes(IF driver.attempt = None THEN closed
                   ELSE IF IsRunning(W) THEN Cancel(stale, FALSE) ELSE stale)
    /\ UNCHANGED used
    /\ Remember

UnloadEnds ==
    /\ driver.state = "stopping"
    /\ driver.attempt = None \/ ~IsRunning(W)
    /\ ~driver.run
    /\ driver' = [driver EXCEPT !.state = "down", !.attempt = None, !.competing = FALSE,
                                !.checkpoint = FALSE, !.requested = FALSE]
    /\ UNCHANGED <<goal, agent, log, used>>
    /\ Remember
-----------------------------------------------------------------------------
GoalStep ==
    \/ \E cap \in 1..MaxGoalRounds : Create(cap) \/ Edit(cap)
    \/ \E host \in BOOLEAN : Pause(host)
    \/ Resume \/ Complete \/ Block \/ Clear

TurnStep ==
    \/ FenceFirst \/ FenceAgain \/ HookRejects \/ MessagesEnter
    \/ TurnCompletes \/ TurnHitsCeiling \/ TurnFails \/ TurnAborts

FlushStep == FlushSucceeds \/ FlushFails

Next ==
    \/ GoalStep
    \/ Prompts
    \/ \E keepInbox \in BOOLEAN : Cancels(keepInbox)
    \/ MaintenanceStarts \/ MaintenanceEnds
    \/ TurnStep
    \/ FlushStep
    \/ UnloadBegins \/ UnloadEnds

Spec == Init /\ [][Next]_vars

\* Turns, flushes and maintenance end; nobody has to prompt, cancel or unload.
FairSpec == Spec /\ WF_vars(TurnStep) /\ WF_vars(FlushStep) /\ WF_vars(MaintenanceEnds)

-----------------------------------------------------------------------------
Rounds == [id : Nat, rev : Nat, round : Nat \ {0}]
Messages == {Human} \cup [kind : {"goal"}, round : Rounds, mid : Nat]
Attempts == [kind : {"attempt"}, round : Rounds, mid : Nat, phase : {"queued", "claimed", "admitted"},
             cancelled : BOOLEAN, stale : BOOLEAN]

\* Every variable has its type; a running turn has its prompt.
TypeOK ==
    /\ goal \in [id : Nat, rev : Nat, cap : Nat, rounds : Nat,
                 phase : {"none", "active", "paused", "blocked", "complete"},
                 armed : BOOLEAN, failed : BOOLEAN]
    /\ driver \in [state : {"up", "stopping", "down"}, attempt : {None} \cup Attempts,
                   competing : BOOLEAN, checkpoint : BOOLEAN, requested : BOOLEAN,
                   run : BOOLEAN, flushes : Seq(Nat), issued : Nat]
    /\ agent \in [pc : {"idle", "maintenance"} \cup Running, msg : {None} \cup Messages,
                  aborted : BOOLEAN, wake : BOOLEAN, inbox : Seq(Messages)]
    /\ agent.msg # None <=> agent.pc \in Running
    /\ log \in [changes : Nat, durable : Nat]
    /\ used \in [changes : 0..MaxChanges, prompts : 0..MaxPrompts,
                 maintenances : 0..MaxMaintenances, cancels : 0..MaxCancels,
                 failures : 0..MaxFailures]
    /\ changed \in BOOLEAN

\* A goal message the fold refuses makes the goal unreadable for good, so none
\* may enter.  With the driver up, the only one that does is a round whose goal
\* changed while its request was being prepared: queued behind maintenance or
\* other prompts, cancelled, edited or resumed meanwhile, every other stale
\* round stops at one of the two fences.
FencesHold ==
    [][~goal.failed /\ goal'.failed => changed \/ driver.state = "down"]_vars

\* No round of a goal's revision is proposed twice: the queued and the claimed
\* prompts all differ.  The code breaks it: maintenance counts as idle, so a
\* trigger settles a round that is still queued and reserves it again.
DistinctRounds ==
    LET pending == IF agent.pc \in Running /\ agent.pc # "stepping"
                   THEN <<agent.msg>> \o agent.inbox ELSE agent.inbox
    IN  \A i, k \in 1..Len(pending) :
            i # k /\ pending[i].kind = "goal" /\ pending[k].kind = "goal" =>
                pending[i].round # pending[k].round

\* The round the model works on is the one the driver has recorded as admitted,
\* so that the driver waits for its end before it reserves another.
AdmittedIsOwn ==
    /\ TypeOK
    /\ driver.state # "down" /\ agent.pc = "stepping" /\ agent.msg.kind = "goal" =>
          /\ driver.attempt # None
          /\ driver.attempt.round = agent.msg.round
          /\ driver.attempt.phase # "queued"

\* The driver rests on a round or a prompt that was discarded during
\* maintenance: no idle event follows until the next turn.
Parked ==
    /\ agent.pc = "idle" /\ driver.flushes = << >>
    /\ driver.competing \/ driver.attempt # None

\* No trigger is lost: left alone, an armed goal does not stay armed; its rounds
\* go on until somebody stops it or the driver blocks it at its limit.
GoalRunsOut == []<>(driver.state # "up" \/ ~Armed(goal) \/ Parked)

\* The projection of the goal never fails: no stale round enters the history.
ProjectionNeverFails == ~goal.failed

\* A round is reserved only when a flush covers every goal change before it, as
\* the README of the driver says ("Durability checkpoint").  The code breaks it:
\* two of its loops may run, and the pass of one takes the obligation of the other.
CheckpointBeforeRound ==
    [][driver'.issued # driver.issued => log'.durable = log.changes]_vars

\* The fence invalidates a round; it does not stop the goal, as the README of the
\* driver says of an edit.  The code breaks it.
FenceNeverPauses ==
    [][FenceFirst \/ FenceAgain => ~(goal.phase = "active" /\ goal'.phase = "paused")]_vars

\* When the plugin has unloaded no round starts, as its README says.  The code
\* breaks it: a round queued behind maintenance outlives the fences.
UnloadEndsRounds ==
    driver.state = "down" => ~(agent.pc = "stepping" /\ agent.msg.kind = "goal")
=============================================================================
