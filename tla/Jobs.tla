-------------------------------- MODULE Jobs --------------------------------
(***************************************************************************)
(* The process-local job registry (packages/jobs/jobs-local), with the     *)
(* callers that wait on it: the model's job_output and job_kill calls and  *)
(* their settlement listener (packages/jobs/tool-jobs), the foreground     *)
(* bash call that registers its command as a job and takes it back         *)
(* (packages/shell/tool-bash), and a person who kills a job                *)
(* (api/job-controller).  All jobs belong to one agent.                     *)
(* Every action is one synchronous span; awaits lie between actions.       *)
(* Labels, kinds, details, progress lines and spill paths are left out,    *)
(* and every outcome carries a result for the first read after it.         *)
(***************************************************************************)
EXTENDS Integers, Sequences, FiniteSets, JobRing

CONSTANTS Jobs,        \* ids the registry may issue
          Calls,       \* tool calls of the agent that may be in progress at once
          PullJobs,    \* those whose producer names a pull source
          PushJobs,    \* those whose producer appends chunks
          Outcomes,    \* the terminal statuses producers report
          MaxActive,   \* maxConcurrentJobsPerOwner
          LiveCap,     \* retainBytes
          SettledCap,  \* settledRetainBytes
          MaxBytes,    \* bound: bytes one job produces
          MaxChunk     \* bound: bytes of one pushed chunk

Live == {"running", "stopping"}
Terminal == {"completed", "killed", "failed"}

ASSUME CapsAssumption == /\ Jobs # {}
                         /\ PullJobs \subseteq Jobs /\ PushJobs \subseteq Jobs
                         /\ Outcomes \subseteq Terminal
                         /\ MaxActive \in Nat \ {0}
                         /\ LiveCap \in Nat \ {0} /\ SettledCap \in Nat \ {0}
                         /\ MaxBytes \in Nat /\ MaxChunk \in Nat

VARIABLES
    agent,         \* the owner: live, unloading, cleaning, unwound, gone
    ownerCleanup,  \* whether the owner's cleanup effect is attached
    agentJobs,     \* the snapshot disposeOwned awaits and drops
    service,       \* the registry: up, draining, down
    serviceJobs,   \* the snapshot disposeAll awaits and drops
    store,         \* ids in the registry's map
    status,        \* "none" before the start
    ring, modelCursor, resultDelivered,
    source,        \* bytes the job's pull source has produced
    pumped,        \* the pump's cursor in that source
    pump,          \* none (no pull source), polling, done
    outcome,       \* what the producer's done promise settled to, or pending
    settleCause,   \* none, kill, teardown
    announced,     \* the cause the settled event carried, none before it
    waitResolvers, \* the calls whose wait the settlement will release
    call,          \* each tool call: what it waits for
    known,         \* jobs whose id the model was given
    killedByModel, \* jobs whose kill the model itself requested
    told           \* how the listener accounted for the settlement: none, kill, notice

jobVars   == <<resultDelivered, source, pumped, pump, outcome>>
agentVars == <<agent, ownerCleanup, agentJobs>>
serviceVars == <<service, serviceJobs>>
lifeVars  == <<store, status, settleCause, announced>>
toolVars  == <<call, known, waitResolvers>>
vars == <<jobVars, agentVars, serviceVars, lifeVars, toolVars, ring, modelCursor,
          killedByModel, told>>

IsLive(j) == status[j] \in Live
IsTerminal(j) == status[j] \in Terminal
NoCall == [pc |-> "idle", kind |-> "output", job |-> CHOOSE j \in Jobs : TRUE]
Larger(a, b) == IF a >= b THEN a ELSE b

\* Timers, processes and a person's cancellation come between the chains of
\* promise continuations: no wait that returned, no settlement, is half way.
NoCallReturning == \A c \in Calls : call[c].pc \notin {"back", "rejected", "stopped"}
Quiet == /\ NoCallReturning
         /\ \A j \in Jobs : ~(outcome[j] # "pending" /\ IsLive(j))

Init ==
    /\ agent = "live" /\ ownerCleanup = FALSE /\ agentJobs = {}
    /\ service = "up" /\ serviceJobs = {}
    /\ store = {}
    /\ status = [j \in Jobs |-> "none"]
    /\ ring = [j \in Jobs |-> EmptyRing]
    /\ modelCursor = [j \in Jobs |-> 0]
    /\ resultDelivered = [j \in Jobs |-> FALSE]
    /\ source = [j \in Jobs |-> 0] /\ pumped = [j \in Jobs |-> 0]
    /\ pump = [j \in Jobs |-> "none"]
    /\ outcome = [j \in Jobs |-> "pending"]
    /\ settleCause = [j \in Jobs |-> "none"]
    /\ announced = [j \in Jobs |-> "none"]
    /\ waitResolvers = [j \in Jobs |-> {}]
    /\ call = [c \in Calls |-> NoCall]
    /\ known = {} /\ killedByModel = {} /\ told = [j \in Jobs |-> "none"]

-----------------------------------------------------------------------------
(* Registration.  A job belongs to an agent the agent registry still knows, *)
(* whose scope takes the cleanup effect unless it is attached already.      *)

\* Mutant of Admitted: the scope is not asked whether it still takes a cleanup.
AdmittedByUnloadingScope ==
    /\ service = "up"
    /\ agent # "gone"
    /\ Cardinality({j \in store : IsLive(j)}) < MaxActive

Admitted ==
    /\ service = "up"
    /\ agent # "gone"
    /\ ownerCleanup \/ agent = "live"
    /\ Cardinality({j \in store : IsLive(j)}) < MaxActive

\* The record is committed after the starter returned; a pull source makes a
\* pump, whose first drain finds nothing yet.
Register(j) ==
    /\ j \notin store /\ status[j] = "none"
    /\ Admitted
    /\ ownerCleanup' = TRUE
    /\ store' = store \cup {j}
    /\ status' = [status EXCEPT ![j] = "running"]
    /\ pump' = [pump EXCEPT ![j] = IF j \in PullJobs THEN "polling" ELSE "none"]
    /\ UNCHANGED <<agent, agentJobs, serviceVars, ring, modelCursor, resultDelivered,
                   source, pumped, outcome, settleCause, announced,
                   killedByModel, told>>

\* A starter that throws leaves nothing but the attached cleanup.
StarterThrows ==
    /\ Admitted
    /\ ownerCleanup' = TRUE
    /\ UNCHANGED <<agent, agentJobs, jobVars, serviceVars, lifeVars, toolVars, ring,
                   modelCursor, killedByModel, told>>

\* A background start hands the id to the model.
StartBackground(j) ==
    /\ agent = "live"
    /\ Register(j)
    /\ known' = known \cup {j}
    /\ UNCHANGED <<call, waitResolvers>>

\* A producer that outlives its agent's turns may register while the owner's
\* scope already unloads.
StartLate(j) ==
    /\ agent \in {"unloading", "cleaning", "unwound"}
    /\ Register(j)
    /\ UNCHANGED toolVars

-----------------------------------------------------------------------------
(* Output and the producer.                                                 *)

\* appendRing: a settled job drops the chunk.
Appended(j, bytes) == IF IsTerminal(j) THEN ring[j] ELSE Put(ring[j], bytes, LiveCap)

Produced(j) == ring[j].total + source[j] - pumped[j]

Push(j, bytes) ==
    /\ IsLive(j) /\ j \in PushJobs /\ outcome[j] = "pending"
    /\ Produced(j) + bytes <= MaxBytes
    /\ ring' = [ring EXCEPT ![j] = Appended(j, bytes)]
    /\ UNCHANGED <<jobVars, agentVars, serviceVars, lifeVars, toolVars, modelCursor,
                   killedByModel, told>>

SourceGrows(j) ==
    /\ status[j] # "none" /\ pump[j] # "none" /\ outcome[j] = "pending"
    /\ Produced(j) < MaxBytes
    /\ source' = [source EXCEPT ![j] = @ + 1]
    /\ UNCHANGED <<resultDelivered, pumped, pump, outcome, agentVars,
                   serviceVars, lifeVars, toolVars, ring, modelCursor, killedByModel, told>>

Drain(j) ==
    /\ ring' = [ring EXCEPT ![j] = Appended(j, source[j] - pumped[j])]
    /\ pumped' = [pumped EXCEPT ![j] = source[j]]

PumpPolls(j) ==
    /\ pump[j] = "polling" /\ outcome[j] = "pending" /\ ~IsTerminal(j)
    /\ pumped[j] < source[j]
    /\ Drain(j)
    /\ UNCHANGED <<resultDelivered, source, pump, outcome, agentVars,
                   serviceVars, lifeVars, toolVars, modelCursor, killedByModel, told>>

\* The producer's outcome, or a forced settlement, ends the pump after one
\* more drain.
PumpFinishes(j) ==
    /\ pump[j] = "polling"
    /\ outcome[j] # "pending" \/ IsTerminal(j)
    /\ Drain(j)
    /\ pump' = [pump EXCEPT ![j] = "done"]
    /\ UNCHANGED <<resultDelivered, source, outcome, agentVars,
                   serviceVars, lifeVars, toolVars, modelCursor, killedByModel, told>>

\* done resolves, or rejects and counts as failed.
ProducerEnds(j, o) ==
    /\ NoCallReturning
    /\ status[j] # "none" /\ outcome[j] = "pending"
    /\ outcome' = [outcome EXCEPT ![j] = o]
    /\ UNCHANGED <<resultDelivered, source, pumped, pump, agentVars,
                   serviceVars, lifeVars, toolVars, ring, modelCursor, killedByModel, told>>

-----------------------------------------------------------------------------
(* Settlement.  The first one wins: the ring is trimmed to the settled cap   *)
(* but never below what the model has not read, the waits are released, and  *)
(* then the settled event reaches the listener of the job tools.             *)

Returned(c) == [call[c] EXCEPT !.pc = IF @ = "stopping" THEN "stopped" ELSE "back"]

\* Mutant of Report: every kill counts as known to the model.
ReportsNoKill(j, cause) ==
    IF j \in killedByModel THEN "kill"
    ELSE IF waitResolvers[j] # {} \/ cause \in {"teardown", "kill"}
            \/ agent = "gone" \/ service # "up"
    THEN "none"
    ELSE "notice"

\* What the listener makes of the event: the model's own kill and an awaited
\* settlement are accounted for; a teardown has no reader; otherwise the agent
\* registered for the session gets a notice.  The listener leaves with the
\* registry it injects.
Report(j, cause) ==
    IF j \in killedByModel THEN "kill"
    ELSE IF waitResolvers[j] # {} \/ cause = "teardown"
            \/ agent = "gone" \/ service # "up"
    THEN "none"
    ELSE "notice"

\* Mutant of Settle: the ring is cut to the settled cap, read or not.
SettleTrimsUnread(S, cause) ==
    /\ ring' = [j \in Jobs |-> IF j \in S THEN Trim(ring[j], SettledCap) ELSE ring[j]]
    /\ call' = [c \in Calls |->
                 IF \E j \in S : c \in waitResolvers[j] THEN Returned(c) ELSE call[c]]
    /\ waitResolvers' = [j \in Jobs |-> IF j \in S THEN {} ELSE waitResolvers[j]]
    /\ announced' = [j \in Jobs |-> IF j \in S THEN cause ELSE announced[j]]
    /\ told' = [j \in Jobs |-> IF j \in S THEN Report(j, cause) ELSE told[j]]
    /\ killedByModel' = killedByModel \ S

Settle(S, cause) ==
    /\ ring' = [j \in Jobs |->
                 IF j \in S
                 THEN Trim(ring[j], Larger(SettledCap, ring[j].total - modelCursor[j]))
                 ELSE ring[j]]
    /\ call' = [c \in Calls |->
                 IF \E j \in S : c \in waitResolvers[j] THEN Returned(c) ELSE call[c]]
    /\ waitResolvers' = [j \in Jobs |-> IF j \in S THEN {} ELSE waitResolvers[j]]
    /\ announced' = [j \in Jobs |-> IF j \in S THEN cause ELSE announced[j]]
    /\ told' = [j \in Jobs |-> IF j \in S THEN Report(j, cause) ELSE told[j]]
    /\ killedByModel' = killedByModel \ S

\* Mutant of SettleByProducer: the settlement does not wait for the last drain.
SettleBeforeDrain(j) ==
    /\ outcome[j] # "pending"
    /\ IsLive(j)
    /\ status' = [status EXCEPT ![j] = outcome[j]]
    /\ Settle({j}, IF settleCause[j] = "none" THEN "producer" ELSE settleCause[j])
    /\ UNCHANGED <<jobVars, agentVars, serviceVars, store, settleCause, modelCursor, known>>

\* The producer's outcome is committed once the pump has drained; it comes too
\* late after a forced failure.
SettleByProducer(j) ==
    /\ outcome[j] # "pending" /\ pump[j] # "polling"
    /\ IsLive(j)
    /\ status' = [status EXCEPT ![j] = outcome[j]]
    /\ Settle({j}, IF settleCause[j] = "none" THEN "producer" ELSE settleCause[j])
    /\ UNCHANGED <<jobVars, agentVars, serviceVars, store, settleCause, modelCursor, known>>

-----------------------------------------------------------------------------
(* Kill: the producer is asked first, so a cancel that throws changes        *)
(* nothing; then the job is stopping and its settlement is a kill's.         *)

KillRecord(j) ==
    /\ status' = [status EXCEPT ![j] = "stopping"]
    /\ settleCause' = [settleCause EXCEPT ![j] = "kill"]

\* job_kill: the tool result is the model's delivery.
ModelKills(j) ==
    /\ agent = "live" /\ service = "up" /\ j \in known /\ j \in store /\ IsLive(j)
    /\ KillRecord(j)
    /\ killedByModel' = killedByModel \cup {j}
    /\ UNCHANGED <<resultDelivered, source, pumped, pump, outcome, agentVars,
                   serviceVars, store, announced, toolVars, ring, modelCursor, told>>

\* A person kills any job of the session's list, and archiving a session kills
\* every job it owns, one after another.
HumanKills(j) ==
    /\ Quiet
    /\ service = "up" /\ j \in store /\ IsLive(j)
    /\ KillRecord(j)
    /\ UNCHANGED <<resultDelivered, source, pumped, pump, outcome, agentVars,
                   serviceVars, store, announced, toolVars, ring, modelCursor,
                   killedByModel, told>>

-----------------------------------------------------------------------------
(* The calls of the agent.  The registry's resolvers and the call's own      *)
(* progress are separate: a wait that timed out or was aborted has left the  *)
(* resolvers, though its call has not continued yet.                         *)

Waits(c, kind, j, pc) ==
    /\ call' = [call EXCEPT ![c] = [pc |-> pc, kind |-> kind, job |-> j]]
    /\ waitResolvers' = [waitResolvers EXCEPT ![j] = @ \cup {c}]

Goes(c, pc) == call' = [call EXCEPT ![c].pc = pc]

\* The consuming read: the cursor moves to the end; the first read of a
\* settled job hands out the result and trims to the settled cap.
Read(j) ==
    /\ modelCursor' = [modelCursor EXCEPT ![j] = ring[j].total]
    /\ resultDelivered' = [resultDelivered EXCEPT ![j] = @ \/ IsTerminal(j)]
    /\ ring' = [ring EXCEPT ![j] = IF IsTerminal(j) THEN Trim(@, SettledCap) ELSE @]

Drop(S) == /\ store' = store \ S
           /\ killedByModel' = killedByModel \ S

\* job_output with wait: a settled job answers without waiting.
OutputWaits(c, j) ==
    /\ agent = "live" /\ service = "up" /\ call[c].pc = "idle" /\ j \in known /\ j \in store
    /\ \/ IsLive(j) /\ Waits(c, "output", j, "waiting")
       \/ /\ IsTerminal(j)
          /\ call' = [call EXCEPT ![c] = [pc |-> "back", kind |-> "output", job |-> j]]
          /\ UNCHANGED waitResolvers
    /\ UNCHANGED <<jobVars, agentVars, serviceVars, lifeVars, known, ring, modelCursor,
                   killedByModel, told>>

\* job_output without wait.
OutputReads(j) ==
    /\ agent = "live" /\ service = "up" /\ j \in known /\ j \in store
    /\ Read(j)
    /\ UNCHANGED <<source, pumped, pump, outcome, agentVars, serviceVars,
                   lifeVars, toolVars, killedByModel, told>>

\* The wait of job_output resolved: the call reads, or fails on a dropped record.
OutputReturns(c) ==
    /\ call[c].pc = "back" /\ call[c].kind = "output"
    /\ Goes(c, "idle")
    /\ IF call[c].job \in store THEN Read(call[c].job)
       ELSE UNCHANGED <<modelCursor, resultDelivered, ring>>
    /\ UNCHANGED <<source, pumped, pump, outcome, agentVars, serviceVars,
                   lifeVars, waitResolvers, known, killedByModel, told>>

LeavesResolvers(c) ==
    waitResolvers' = [waitResolvers EXCEPT ![call[c].job] = @ \ {c}]

\* The deadline of a wait passes.
WaitTimesOut(c) ==
    /\ Quiet
    /\ call[c].pc \in {"waiting", "stopping"}
    /\ call' = [call EXCEPT ![c] = Returned(c)]
    /\ LeavesResolvers(c)
    /\ UNCHANGED <<jobVars, agentVars, serviceVars, lifeVars, known, ring, modelCursor,
                   killedByModel, told>>

\* The call is aborted: job_output throws, bash goes on to stop its job.  The
\* second wait of bash has no signal.
WaitAborts(c) ==
    /\ Quiet
    /\ call[c].pc = "waiting"
    /\ Goes(c, IF call[c].kind = "bash" THEN "rejected" ELSE "idle")
    /\ LeavesResolvers(c)
    /\ UNCHANGED <<jobVars, agentVars, serviceVars, lifeVars, known, ring, modelCursor,
                   killedByModel, told>>

\* A foreground command is a job from its start, and the call waits for it.
BashStarts(c, j) ==
    /\ agent = "live" /\ call[c].pc = "idle"
    /\ Register(j)
    /\ Waits(c, "bash", j, "waiting")
    /\ UNCHANGED known

\* The wait found the job settled: the record leaves with the result.
BashCollects(c) ==
    /\ call[c].kind = "bash" /\ call[c].pc \in {"back", "stopped"}
    /\ IsTerminal(call[c].job)
    /\ Drop({call[c].job})
    /\ Goes(c, "idle")
    /\ UNCHANGED <<jobVars, agentVars, serviceVars, status, settleCause, announced,
                   waitResolvers, known, ring, modelCursor, told>>

\* The wait timed out on a running command: the model gets the output so far
\* and the id.
BashPromotes(c) ==
    LET j == call[c].job IN
    /\ call[c].kind = "bash" /\ call[c].pc = "back" /\ IsLive(j)
    /\ Read(j)
    /\ known' = known \cup {j}
    /\ Goes(c, "idle")
    /\ UNCHANGED <<source, pumped, pump, outcome, agentVars, serviceVars,
                   lifeVars, waitResolvers, killedByModel, told>>

\* The call was aborted, or timed out before a process ran: it kills its job
\* and waits again, as long as the first wait.
BashStops(c) ==
    LET j == call[c].job IN
    /\ call[c].kind = "bash"
    /\ \/ call[c].pc = "rejected"
       \/ call[c].pc = "back" /\ IsLive(j) /\ outcome[j] = "pending" /\ ring[j].total = 0
    /\ IF IsLive(j)
       THEN KillRecord(j) /\ Waits(c, "bash", j, "stopping")
       ELSE /\ Goes(c, IF j \in store THEN "stopped" ELSE "idle")
            /\ UNCHANGED <<status, settleCause, waitResolvers>>
    /\ UNCHANGED <<resultDelivered, source, pumped, pump, outcome, agentVars,
                   serviceVars, store, announced, known, ring, modelCursor,
                   killedByModel, told>>

\* The second wait timed out too: the call ends and leaves the job behind.
BashGivesUp(c) ==
    /\ call[c].kind = "bash" /\ call[c].pc = "stopped" /\ IsLive(call[c].job)
    /\ Goes(c, "idle")
    /\ UNCHANGED <<jobVars, agentVars, serviceVars, lifeVars, waitResolvers, known, ring,
                   modelCursor, killedByModel, told>>

-----------------------------------------------------------------------------
(* Teardown.  The live jobs of a snapshot are cancelled; those whose cancel  *)
(* throws (F) are forced to failed.  The records are dropped when all of the *)
(* snapshot settled.                                                         *)

\* Mutant of CancelForTeardown: a cancel that throws is only logged.
CancelsWithoutForce(S, F) ==
    LET live == {j \in S : IsLive(j)} IN
    /\ F \subseteq live
    /\ status' = [j \in Jobs |-> IF j \in live \ F THEN "stopping" ELSE status[j]]
    /\ settleCause' = [j \in Jobs |-> IF j \in live \ F THEN "teardown" ELSE settleCause[j]]
    /\ Settle({}, "teardown")

CancelForTeardown(S, F) ==
    LET live == {j \in S : IsLive(j)} IN
    /\ F \subseteq live
    /\ status' = [j \in Jobs |-> IF j \in F THEN "failed"
                                 ELSE IF j \in live THEN "stopping" ELSE status[j]]
    /\ settleCause' = [j \in Jobs |-> IF j \in live THEN "teardown" ELSE settleCause[j]]
    /\ Settle(F, "teardown")

\* The agent's disposal waited for its machine to be idle, so none of its calls
\* is in progress when its scope begins to unload.
AgentUnloads ==
    /\ agent = "live"
    /\ \A c \in Calls : call[c].pc = "idle"
    /\ agent' = "unloading"
    /\ UNCHANGED <<ownerCleanup, agentJobs, jobVars, serviceVars, lifeVars, toolVars, ring,
                   modelCursor, killedByModel, told>>

\* The cleanup effect runs disposeOwned; without one there is nothing to do.
AgentCleans(F) ==
    /\ agent = "unloading"
    /\ agentJobs' = IF ownerCleanup THEN store ELSE {}
    /\ agent' = IF ownerCleanup THEN "cleaning" ELSE "unwound"
    /\ ownerCleanup' = FALSE
    /\ CancelForTeardown(agentJobs', F)
    /\ UNCHANGED <<resultDelivered, source, pumped, pump, outcome, serviceVars,
                   store, modelCursor, known>>

AgentDrops ==
    /\ agent = "cleaning"
    /\ \A j \in agentJobs : IsTerminal(j)
    /\ Drop(agentJobs)
    /\ agent' = "unwound"
    /\ agentJobs' = {}
    /\ UNCHANGED <<ownerCleanup, jobVars, serviceVars, status, settleCause, announced,
                   toolVars, ring, modelCursor, told>>

\* The scope is gone; the agent leaves the agent registry.
AgentLeaves ==
    /\ agent = "unwound"
    /\ agent' = "gone"
    /\ UNCHANGED <<ownerCleanup, agentJobs, jobVars, serviceVars, lifeVars, toolVars, ring,
                   modelCursor, killedByModel, told>>

\* disposeAll: nothing can be started any more.
ServiceDrains(F) ==
    /\ service = "up"
    /\ service' = "draining"
    /\ serviceJobs' = store
    /\ CancelForTeardown(store, F)
    /\ UNCHANGED <<agentVars, resultDelivered, source, pumped, pump, outcome, store,
                   modelCursor, known>>

\* Every record dropped, the owners' cleanups are detached; they find no job.
ServiceStops ==
    /\ service = "draining"
    /\ \A j \in serviceJobs : IsTerminal(j)
    /\ Drop(serviceJobs)
    /\ service' = "down"
    /\ serviceJobs' = {}
    /\ ownerCleanup' = FALSE
    /\ UNCHANGED <<agent, agentJobs, jobVars, status, settleCause, announced, toolVars, ring,
                   modelCursor, told>>

-----------------------------------------------------------------------------
JobStep(j) ==
    \/ StartBackground(j) \/ StartLate(j)
    \/ \E bytes \in 1..MaxChunk : Push(j, bytes)
    \/ SourceGrows(j) \/ PumpPolls(j) \/ PumpFinishes(j)
    \/ \E o \in Outcomes : ProducerEnds(j, o)
    \/ SettleByProducer(j)
    \/ ModelKills(j) \/ HumanKills(j) \/ OutputReads(j)

CallStep(c) ==
    \/ \E j \in Jobs : OutputWaits(c, j)
    \/ \E j \in Jobs : BashStarts(c, j)
    \/ OutputReturns(c) \/ WaitTimesOut(c) \/ WaitAborts(c)
    \/ BashCollects(c) \/ BashPromotes(c) \/ BashStops(c) \/ BashGivesUp(c)

Next ==
    \/ StarterThrows
    \/ \E j \in Jobs : JobStep(j)
    \/ \E c \in Calls : CallStep(c)
    \/ AgentUnloads \/ AgentDrops \/ AgentLeaves \/ ServiceStops
    \/ \E F \in SUBSET Jobs : AgentCleans(F) \/ ServiceDrains(F)

Spec == Init /\ [][Next]_vars

-----------------------------------------------------------------------------
(* Fairness: timers fire, microtasks run, and a producer that was cancelled  *)
(* ends (a compliant producer).  Nobody has to start, kill or abort.         *)

JobProgress(j) ==
    \/ PumpFinishes(j) \/ SettleByProducer(j)
    \/ settleCause[j] # "none" /\ IsLive(j) /\ \E o \in Outcomes : ProducerEnds(j, o)

CallProgress(c) ==
    \/ OutputReturns(c) \/ WaitTimesOut(c)
    \/ BashCollects(c) \/ BashPromotes(c) \/ BashStops(c) \/ BashGivesUp(c)

Fairness ==
    /\ \A j \in Jobs : WF_vars(JobProgress(j))
    /\ \A c \in Calls : WF_vars(CallProgress(c))
    /\ WF_vars(AgentCleans({}) \/ AgentDrops \/ ServiceStops)

FairSpec == Spec /\ Fairness

-----------------------------------------------------------------------------
CallRecords == [pc : {"idle", "waiting", "back", "rejected", "stopping", "stopped"},
                kind : {"output", "bash"}, job : Jobs]

\* Every variable has its type, live jobs are in the store, and the resolvers
\* are those of the calls that wait.
TypeOK ==
    /\ agent \in {"live", "unloading", "cleaning", "unwound", "gone"}
    /\ ownerCleanup \in BOOLEAN
    /\ agentJobs \subseteq Jobs
    /\ service \in {"up", "draining", "down"}
    /\ serviceJobs \subseteq Jobs
    /\ store \subseteq Jobs /\ known \subseteq Jobs /\ killedByModel \subseteq Jobs
    /\ status \in [Jobs -> {"none"} \cup Live \cup Terminal]
    /\ ring \in [Jobs -> Rings]
    /\ modelCursor \in [Jobs -> Nat] /\ source \in [Jobs -> Nat] /\ pumped \in [Jobs -> Nat]
    /\ resultDelivered \in [Jobs -> BOOLEAN]
    /\ pump \in [Jobs -> {"none", "polling", "done"}]
    /\ outcome \in [Jobs -> {"pending"} \cup Terminal]
    /\ settleCause \in [Jobs -> {"none", "kill", "teardown"}]
    /\ announced \in [Jobs -> {"none", "producer", "kill", "teardown"}]
    /\ told \in [Jobs -> {"none", "kill", "notice"}]
    /\ waitResolvers \in [Jobs -> SUBSET Calls]
    /\ call \in [Calls -> CallRecords]

\* A job the model knows of that settled while its agent and the registry live
\* has reached the model, or will through a call that is about to read it: by a
\* notice, by the model's own kill, or by a read of the settled job.  Whatever
\* the order of settlements, timeouts, aborts and kills, no completion is
\* swallowed between the awaited flag of the settlement and the call it is for.
EveryCompletionTold ==
    agent = "live" /\ service = "up" =>
        \A j \in known :
            announced[j] # "none" =>
                \/ told[j] # "none"
                \/ resultDelivered[j]
                \/ \E c \in Calls : call[c].pc = "back" /\ call[c].job = j

\* With every variable of its type, a settlement the producer brought about
\* carries all its pull source produced: the last drain lands before the ring
\* is closed.
OutputComplete ==
    /\ TypeOK
    /\ \A j \in Jobs : announced[j] \in {"producer", "kill"} /\ pump[j] # "none" =>
                         pumped[j] = source[j]

\* Settlement and the reads after it never drop a byte the model has not read:
\* only the live cap does that, when output is appended.
UnreadKept ==
    [][\A j \in Jobs : IsTerminal(j)' /\ Earliest(ring[j]') > Earliest(ring[j]) =>
                          Earliest(ring[j]') <= modelCursor'[j]]_vars

\* A torn down owner leaves no record behind, and a torn down registry none at
\* all, although producers go on registering until the scope refuses them and
\* both teardowns and calls drop records of each other's snapshots.
TeardownLeavesNothing ==
    /\ agent \in {"unwound", "gone"} => store = {}
    /\ service = "down" => store = {}

\* A job that its owner's or the registry's teardown found live announces that
\* cause when it settles, because it has no reader left, as jobs/src/index.ts:56
\* says.  The code breaks it: a later kill overwrites the cause.
TeardownAnnounced ==
    [][\A j \in agentJobs \cup serviceJobs :
           announced[j] = "none" => announced'[j] \in {"none", "teardown"}]_vars

\* A foreground command the model never got the id of leaves no notice: its
\* call stays on the job until it settles, as tool-bash/src/index.ts:329 says.
\* The code breaks it: the second wait of the call may time out too.
ForegroundLeavesNoTrace ==
    agent = "live" => \A j \in Jobs \ known : told[j] # "notice"

\* A teardown ends, when producers stop that were asked to: a cancel that
\* throws, a job that settles meanwhile or a record another teardown drops
\* keeps nobody waiting.
TeardownEnds ==
    /\ agent = "cleaning" ~> agent = "unwound"
    /\ service = "draining" ~> service = "down"
=============================================================================
