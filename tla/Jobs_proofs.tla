---------------------------- MODULE Jobs_proofs ----------------------------
(***************************************************************************)
(* Proofs about Jobs, for any jobs, calls, caps and outcomes: a teardown    *)
(* leaves no record behind, no completion of a job the model knows of is   *)
(* swallowed, no settlement is announced before the last drain, and no     *)
(* trim that comes with a settlement or after it drops what the model has  *)
(* not read.                                                               *)
(***************************************************************************)
EXTENDS Jobs, SequenceTheorems, FiniteSetTheorems, WellFoundedInduction, TLAPS

-----------------------------------------------------------------------------
(* Teardown                                                                  *)

\* What makes teardown complete: while the owner unwinds nothing can be registered,
\* an owner without an attached cleanup has no record, and the snapshots the two
\* teardowns drop cover all that is left.
Ledger ==
    /\ agent \in {"live", "unloading", "cleaning", "unwound", "gone"}
    /\ ownerCleanup \in BOOLEAN
    /\ agent \in {"cleaning", "unwound", "gone"} => ~ownerCleanup
    /\ ~ownerCleanup /\ agent # "cleaning" => store = {}
    /\ agent = "cleaning" => store \subseteq agentJobs
    /\ service = "draining" => store \subseteq serviceJobs
    /\ service = "down" => store = {}

ledgerVars == <<agent, ownerCleanup, agentJobs, service, serviceJobs, store>>

\* No job, no teardown.
LEMMA LedgerInit == Init => Ledger
  BY DEF Init, Ledger

\* A registration finds the scope live or its cleanup attached.
LEMMA RegisterKeepsLedger ==
    ASSUME Ledger, NEW j, Register(j)
    PROVE  Ledger'
  BY DEF Ledger, Register, Admitted, serviceVars

\* A starter that throws leaves no record.
LEMMA StarterKeepsLedger == Ledger /\ StarterThrows => Ledger'
  BY DEF Ledger, StarterThrows, Admitted, serviceVars, lifeVars

\* The owner's and the registry's teardown.
LEMMA TeardownKeepsLedger ==
    ASSUME Ledger, NEW F,
           \/ AgentUnloads \/ AgentCleans(F) \/ AgentDrops \/ AgentLeaves
           \/ ServiceDrains(F) \/ ServiceStops
    PROVE  Ledger'
  <1>1. CASE AgentUnloads
    BY <1>1 DEF Ledger, AgentUnloads, serviceVars, lifeVars
  <1>2. CASE AgentCleans(F)
    BY <1>2 DEF Ledger, AgentCleans, serviceVars
  <1>3. CASE AgentDrops
    BY <1>3 DEF Ledger, AgentDrops, Drop, serviceVars
  <1>4. CASE AgentLeaves
    BY <1>4 DEF Ledger, AgentLeaves, serviceVars, lifeVars
  <1>5. CASE ServiceDrains(F)
    BY <1>5 DEF Ledger, ServiceDrains, agentVars
  <1>6. CASE ServiceStops
    BY <1>6 DEF Ledger, ServiceStops, Drop
  <1> QED
    BY <1>1, <1>2, <1>3, <1>4, <1>5, <1>6

\* A foreground call that collects its job drops a record, which no clause minds.
LEMMA CollectKeepsLedger ==
    ASSUME Ledger, NEW c, BashCollects(c)
    PROVE  Ledger'
  BY DEF Ledger, BashCollects, Drop, agentVars, serviceVars

\* Everything else leaves the ledger alone.
LEMMA OthersKeepLedger ==
    ASSUME Ledger, NEW j, NEW c,
           \/ \E bytes \in 1..MaxChunk : Push(j, bytes)
           \/ SourceGrows(j) \/ PumpPolls(j) \/ PumpFinishes(j)
           \/ \E o \in Outcomes : ProducerEnds(j, o)
           \/ SettleByProducer(j) \/ ModelKills(j) \/ HumanKills(j) \/ OutputReads(j)
           \/ OutputWaits(c, j) \/ OutputReturns(c) \/ WaitTimesOut(c) \/ WaitAborts(c)
           \/ BashPromotes(c) \/ BashStops(c) \/ BashGivesUp(c)
           \/ UNCHANGED vars
    PROVE  Ledger'
  <1>1. UNCHANGED ledgerVars
    <2>1. CASE \/ \E bytes \in 1..MaxChunk : Push(j, bytes)
               \/ SourceGrows(j) \/ PumpPolls(j) \/ PumpFinishes(j)
               \/ \E o \in Outcomes : ProducerEnds(j, o)
      BY <2>1 DEF ledgerVars, Push, SourceGrows, PumpPolls, PumpFinishes, ProducerEnds,
                  agentVars, serviceVars, lifeVars
    <2>2. CASE SettleByProducer(j) \/ ModelKills(j) \/ HumanKills(j) \/ OutputReads(j)
      BY <2>2 DEF ledgerVars, SettleByProducer, ModelKills, HumanKills, OutputReads,
                  agentVars, serviceVars, lifeVars
    <2>3. CASE \/ OutputWaits(c, j) \/ OutputReturns(c) \/ WaitTimesOut(c) \/ WaitAborts(c)
               \/ BashPromotes(c) \/ BashStops(c) \/ BashGivesUp(c)
      BY <2>3 DEF ledgerVars, OutputWaits, OutputReturns, WaitTimesOut, WaitAborts, BashPromotes,
                  BashStops, BashGivesUp, agentVars, serviceVars, lifeVars
    <2>4. CASE UNCHANGED vars
      BY <2>4 DEF ledgerVars, vars, agentVars, serviceVars, lifeVars
    <2> QED
      BY <2>1, <2>2, <2>3, <2>4
  <1> QED
    BY <1>1 DEF Ledger, ledgerVars

\* Every step keeps what makes a teardown complete.
LEMMA LedgerStep == Ledger /\ [Next]_vars => Ledger'
  <1> SUFFICES ASSUME Ledger, [Next]_vars PROVE Ledger'
    OBVIOUS
  <1>1. CASE StarterThrows
    BY <1>1, StarterKeepsLedger
  <1>2. ASSUME NEW j \in Jobs, JobStep(j) PROVE Ledger'
    BY <1>2, RegisterKeepsLedger, OthersKeepLedger DEF JobStep, StartBackground, StartLate
  <1>3. ASSUME NEW c \in Calls, CallStep(c) PROVE Ledger'
    BY <1>3, RegisterKeepsLedger, CollectKeepsLedger, OthersKeepLedger DEF CallStep, BashStarts
  <1>4. CASE AgentUnloads \/ AgentDrops \/ AgentLeaves \/ ServiceStops
    BY <1>4, TeardownKeepsLedger
  <1>5. ASSUME NEW F \in SUBSET Jobs, AgentCleans(F) \/ ServiceDrains(F) PROVE Ledger'
    BY <1>5, TeardownKeepsLedger
  <1>6. CASE UNCHANGED vars
    BY <1>6, OthersKeepLedger
  <1> QED
    BY <1>1, <1>2, <1>3, <1>4, <1>5, <1>6 DEF Next

\* Whatever registers, settles or is collected meanwhile, an owner that unwound
\* and a registry that is down hold no record of a job.
THEOREM NoRecordLeft == Spec => []TeardownLeavesNothing
  <1>1. Ledger => TeardownLeavesNothing
    BY DEF Ledger, TeardownLeavesNothing
  <1> QED
    BY LedgerInit, LedgerStep, <1>1, PTL DEF Spec

-----------------------------------------------------------------------------
(* Completions                                                               *)

Phases == {"none", "running", "stopping", "completed", "killed", "failed"}

TellTyped ==
    /\ store \subseteq Jobs /\ known \subseteq Jobs
    /\ status \in [Jobs -> Phases]
    /\ outcome \in [Jobs -> {"pending"} \cup Terminal]
    /\ settleCause \in [Jobs -> {"none", "kill", "teardown"}]
    /\ announced \in [Jobs -> {"none", "producer", "kill", "teardown"}]
    /\ told \in [Jobs -> {"none", "kill", "notice"}]
    /\ resultDelivered \in [Jobs -> BOOLEAN]
    /\ waitResolvers \in [Jobs -> SUBSET Calls]
    /\ call \in [Calls -> CallRecords]

\* A job announces its settlement in the step that makes it terminal.
AnnouncedAtEnd == \A j \in Jobs : announced[j] = "none" <=> ~IsTerminal(j)

\* The model knows, and calls are about, jobs that were started.
AboutStarted ==
    /\ \A j \in known : status[j] # "none"
    /\ \A c \in Calls : call[c].pc # "idle" => status[call[c].job] # "none"

\* The resolvers of a job are the calls that wait for it, and it is live then.
ResolversWait ==
    /\ \A j \in Jobs : \A c \in Calls :
          c \in waitResolvers[j] <=> call[c].job = j /\ call[c].pc \in {"waiting", "stopping"}
    /\ \A c \in Calls : call[c].pc \in {"waiting", "stopping"} => IsLive(call[c].job)

\* A foreground call has a job of its own that the model does not know of.
ForegroundApart ==
    /\ \A c \in Calls : call[c].pc \in {"rejected", "stopping", "stopped"} => call[c].kind = "bash"
    /\ \A c \in Calls : call[c].kind = "bash" /\ call[c].pc # "idle" => call[c].job \notin known
    /\ \A c, d \in Calls :
          /\ call[c].kind = "bash" /\ call[c].pc # "idle"
          /\ call[d].kind = "bash" /\ call[d].pc # "idle"
          /\ call[c].job = call[d].job
          => c = d

\* Live jobs are on record; and while agent and registry live, so are all the model
\* knows of, and none was marked by a teardown.
LiveLedger ==
    /\ \A j \in Jobs : IsLive(j) => j \in store
    /\ agent = "live" /\ service = "up" =>
          /\ known \subseteq store
          /\ \A j \in Jobs : settleCause[j] # "teardown"

Telling == /\ TellTyped /\ AnnouncedAtEnd /\ AboutStarted /\ ResolversWait /\ ForegroundApart
           /\ LiveLedger /\ EveryCompletionTold

tellVars == <<agent, service, store, status, settleCause, announced, outcome, resultDelivered,
              call, known, waitResolvers, told>>

\* Nothing is known, waited for or settled.
LEMMA TellingInit == Init => Telling
  BY CapsAssumption DEF Init, Telling, TellTyped, AnnouncedAtEnd, AboutStarted, ResolversWait, ForegroundApart,
         LiveLedger, EveryCompletionTold, IsTerminal, IsLive, Terminal, Live, NoCall, CallRecords,
         Phases

\* Steps of the output alone do not touch it.
LEMMA TellingFrame == Telling /\ UNCHANGED tellVars => Telling'
  BY DEF tellVars, Telling, TellTyped, AnnouncedAtEnd, AboutStarted, ResolversWait, ForegroundApart,
         LiveLedger, EveryCompletionTold, IsTerminal, IsLive

\* A registration, by the model's tool or by the foreground bash call.
LEMMA RegisterKeepsTelling ==
    ASSUME Telling, NEW j \in Jobs, Register(j),
           \/ known' \in {known, known \cup {j}} /\ UNCHANGED <<call, waitResolvers>>
           \/ \E c \in Calls : /\ known' = known /\ call[c].pc = "idle"
                               /\ Waits(c, "bash", j, "waiting")
    PROVE  Telling'
  <1> USE DEF Register, Waits, serviceVars, Terminal, Live, IsTerminal, IsLive, CallRecords, Phases
  <1>1. TellTyped'
    BY DEF Telling, TellTyped
  <1>2. AnnouncedAtEnd'
    BY DEF Telling, TellTyped, AnnouncedAtEnd
  <1>3. AboutStarted'
    BY DEF Telling, TellTyped, AboutStarted
  <1>4. ResolversWait'
    <2>1. \A i \in Jobs : status[i] # "none" => status'[i] = status[i]
      BY DEF Telling, TellTyped
    <2>2. CASE UNCHANGED <<call, waitResolvers>>
      BY <2>1, <2>2 DEF Telling, TellTyped, ResolversWait, AboutStarted
    <2>3. CASE \E c \in Calls : call[c].pc = "idle" /\ Waits(c, "bash", j, "waiting")
      <3>1. PICK c \in Calls : call[c].pc = "idle" /\ Waits(c, "bash", j, "waiting")
        BY <2>3
      <3>2. call'[c] = [pc |-> "waiting", kind |-> "bash", job |-> j] /\ status'[j] = "running"
        BY <3>1 DEF Telling, TellTyped
      <3>3. \A d \in Calls \ {c} : call'[d] = call[d]
        BY <3>1 DEF Telling, TellTyped
      <3>4. \A i \in Jobs : waitResolvers'[i] = IF i = j THEN waitResolvers[i] \cup {c}
                                                         ELSE waitResolvers[i]
        BY <3>1 DEF Telling, TellTyped
      <3>5. c \notin waitResolvers[j] /\ \A i \in Jobs : c \notin waitResolvers[i]
        BY <3>1 DEF Telling, ResolversWait
      <3> QED
        BY <2>1, <3>1, <3>2, <3>3, <3>4, <3>5 DEF Telling, TellTyped, ResolversWait, AboutStarted
    <2> QED
      BY <2>2, <2>3
  <1>5. ForegroundApart'
    BY DEF Telling, TellTyped, ForegroundApart, AboutStarted
  <1>6. LiveLedger'
    BY DEF Telling, TellTyped, LiveLedger
  <1>7. EveryCompletionTold'
    <2> SUFFICES ASSUME (agent = "live" /\ service = "up")', NEW i \in known', announced'[i] # "none"
                 PROVE  \/ told'[i] # "none" \/ resultDelivered'[i]
                        \/ \E c \in Calls : call'[c].pc = "back" /\ call'[c].job = i
      BY DEF EveryCompletionTold
    <2>1. i \in known
      BY DEF Telling, TellTyped, AnnouncedAtEnd
    <2>2. \A c \in Calls : call[c].pc = "back" => call'[c] = call[c]
      BY DEF Telling, TellTyped
    <2> QED
      BY <2>1, <2>2 DEF Telling, EveryCompletionTold
  <1> QED
    BY <1>1, <1>2, <1>3, <1>4, <1>5, <1>6, <1>7 DEF Telling

-----------------------------------------------------------------------------
(* A settlement: what it leaves to one job, and to the calls that waited.    *)

\* The calls a settlement of S releases go on; the others stay.
LEMMA SettleReleases ==
    ASSUME Telling, NEW S \in SUBSET Jobs, NEW cause, Settle(S, cause)
    PROVE  /\ call' \in [Calls -> CallRecords]
           /\ \A c \in Calls :
                /\ call'[c].job = call[c].job /\ call'[c].kind = call[c].kind
                /\ call'[c].pc = IF call[c].job \in S /\ call[c].pc \in {"waiting", "stopping"}
                                 THEN IF call[c].pc = "stopping" THEN "stopped" ELSE "back"
                                 ELSE call[c].pc
  <1> SUFFICES ASSUME NEW c \in Calls
               PROVE  /\ call'[c] \in CallRecords
                      /\ call'[c].job = call[c].job /\ call'[c].kind = call[c].kind
                      /\ call'[c].pc = IF call[c].job \in S /\ call[c].pc \in {"waiting", "stopping"}
                                       THEN IF call[c].pc = "stopping" THEN "stopped" ELSE "back"
                                       ELSE call[c].pc
    BY DEF Settle
  <1>1. call'[c] = IF \E j \in S : c \in waitResolvers[j] THEN Returned(c) ELSE call[c]
    BY DEF Settle
  <1>2. (\E j \in S : c \in waitResolvers[j])
          <=> call[c].job \in S /\ call[c].pc \in {"waiting", "stopping"}
    BY DEF Telling, ResolversWait
  <1>3. call[c] \in CallRecords
    BY DEF Telling, TellTyped
  <1> QED
    BY <1>1, <1>2, <1>3 DEF Returned, CallRecords

\* A settlement of live jobs, in a step that makes them terminal and at most stops
\* others that live, keeps all but the two clauses about a live owner.
LEMMA SettleKeepsTelling ==
    ASSUME Telling, NEW S \in SUBSET Jobs, NEW cause \in {"producer", "kill", "teardown"},
           Settle(S, cause), UNCHANGED <<store, known, outcome, resultDelivered>>,
           \A j \in S : IsLive(j),
           status' \in [Jobs -> Phases],
           settleCause' \in [Jobs -> {"none", "kill", "teardown"}],
           \A j \in S : status'[j] \in Terminal,
           \A j \in Jobs \ S : status'[j] = status[j] \/ (IsLive(j) /\ status'[j] \in Live)
    PROVE  TellTyped' /\ AnnouncedAtEnd' /\ AboutStarted' /\ ResolversWait' /\ ForegroundApart'
  <1> USE SettleReleases DEF Telling
  <1>1. TellTyped'
    BY DEF TellTyped, Settle, Report
  <1>2. AnnouncedAtEnd'
    BY DEF TellTyped, AnnouncedAtEnd, Settle, IsTerminal, IsLive, Live, Terminal
  <1>0. \A c \in Calls : call[c].job \in Jobs
    BY DEF TellTyped, CallRecords
  <1>3. AboutStarted'
    <2>1. \A j \in Jobs : status[j] # "none" => status'[j] # "none"
      BY DEF Live, Terminal
    <2>2. known \subseteq Jobs /\ known' = known
      BY DEF TellTyped
    <2>3. \A c \in Calls : call'[c].pc # "idle" => call[c].pc # "idle" /\ call'[c].job = call[c].job
      OBVIOUS
    <2> QED
      BY <1>0, <2>1, <2>2, <2>3 DEF AboutStarted
  <1>4. ResolversWait'
    <2>1. waitResolvers' = [j \in Jobs |-> IF j \in S THEN {} ELSE waitResolvers[j]]
      BY DEF Settle
    <2>2. \A c \in Calls : call'[c].pc \in {"waiting", "stopping"} =>
             call[c].job \notin S /\ call[c].pc = call'[c].pc /\ call'[c].job = call[c].job
      OBVIOUS
    <2>3. \A c \in Calls : call[c].pc \in {"waiting", "stopping"} /\ call[c].job \notin S =>
             call'[c].pc = call[c].pc
      OBVIOUS
    <2>4. ASSUME NEW j \in Jobs, NEW c \in Calls
          PROVE  c \in waitResolvers'[j]
                   <=> call'[c].job = j /\ call'[c].pc \in {"waiting", "stopping"}
      <3>1. waitResolvers'[j] = IF j \in S THEN {} ELSE waitResolvers[j]
        BY <2>1
      <3> QED
        BY <2>2, <2>3, <2>4, <3>1 DEF ResolversWait
    <2>5. ASSUME NEW c \in Calls, call'[c].pc \in {"waiting", "stopping"}
          PROVE  status'[call'[c].job] \in Live
      BY <1>0, <2>2, <2>5 DEF ResolversWait, IsLive
    <2> QED
      BY <2>4, <2>5 DEF ResolversWait, IsLive
  <1>5. ForegroundApart'
    BY DEF TellTyped, ForegroundApart, CallRecords
  <1> QED
    BY <1>1, <1>2, <1>3, <1>4, <1>5

\* What the listener makes of a settlement in the life of its agent.
LEMMA ProducerKeepsTelling ==
    ASSUME Telling, NEW j \in Jobs, SettleByProducer(j)
    PROVE  Telling'
  <1> DEFINE cause == IF settleCause[j] = "none" THEN "producer" ELSE settleCause[j]
  <1>1. /\ cause \in {"producer", "kill", "teardown"} /\ Settle({j}, cause)
        /\ UNCHANGED <<store, known, outcome, resultDelivered, settleCause, agent, service>>
        /\ IsLive(j) /\ outcome[j] \in Terminal
        /\ status' = [status EXCEPT ![j] = outcome[j]]
    BY DEF SettleByProducer, Telling, TellTyped, jobVars, agentVars, serviceVars
  <1> HIDE DEF cause
  <1>2. /\ status' \in [Jobs -> Phases] /\ status'[j] \in Terminal
        /\ \A i \in Jobs \ {j} : status'[i] = status[i]
        /\ settleCause' \in [Jobs -> {"none", "kill", "teardown"}]
    BY <1>1 DEF Telling, TellTyped, Terminal, Phases
  <1>3. TellTyped' /\ AnnouncedAtEnd' /\ AboutStarted' /\ ResolversWait' /\ ForegroundApart'
    BY <1>1, <1>2, SettleKeepsTelling
  <1>4. LiveLedger'
    BY <1>1, <1>2 DEF Telling, LiveLedger, IsLive, Live
  <1>5. EveryCompletionTold'
    <2> SUFFICES ASSUME agent = "live", service = "up", NEW i \in known, announced'[i] # "none"
                 PROVE  \/ told'[i] # "none" \/ resultDelivered[i]
                        \/ \E c \in Calls : call'[c].pc = "back" /\ call'[c].job = i
      BY <1>1 DEF EveryCompletionTold
    <2>0. i \in Jobs
      BY DEF Telling, TellTyped
    <2>1. CASE i # j
      <3>1. announced'[i] = announced[i] /\ told'[i] = told[i]
        BY <1>1, <2>0, <2>1 DEF Settle
      <3>2. \A c \in Calls : call[c].pc = "back" =>
               call'[c].pc = "back" /\ call'[c].job = call[c].job
        BY <1>1, SettleReleases
      <3> QED
        BY <3>1, <3>2 DEF Telling, EveryCompletionTold
    <2>2. CASE i = j
      <3>1. told'[i] = Report(i, cause)
        BY <1>1, <2>0, <2>2 DEF Settle
      <3>2. cause # "teardown"
        BY DEF cause, Telling, LiveLedger
      <3>3. CASE waitResolvers[i] = {}
        BY <3>1, <3>2, <3>3 DEF Report
      <3>4. ASSUME NEW c \in waitResolvers[i] PROVE call'[c].pc = "back" /\ call'[c].job = i
        <4>1. c \in Calls /\ call[c].job = i /\ call[c].pc \in {"waiting", "stopping"}
          BY <2>0, <3>4 DEF Telling, TellTyped, ResolversWait
        <4>2. call[c].pc # "stopping"
          BY <4>1 DEF Telling, ForegroundApart
        <4> QED
          BY <1>1, <2>2, <4>1, <4>2, SettleReleases
      <3> QED
        BY <2>0, <3>3, <3>4 DEF Telling, TellTyped
    <2> QED
      BY <2>1, <2>2
  <1> QED
    BY <1>3, <1>4, <1>5 DEF Telling

\* A teardown ends the life of the agent or of the registry with its first span.
LEMMA TeardownKeepsTelling ==
    ASSUME Telling, NEW S \in SUBSET Jobs, NEW F \in SUBSET Jobs, CancelForTeardown(S, F),
           UNCHANGED <<store, known, outcome, resultDelivered>>,
           agent' # "live" \/ service' # "up"
    PROVE  Telling'
  <1>1. /\ Settle(F, "teardown") /\ \A j \in F : IsLive(j)
        /\ \A j \in F : status'[j] \in Terminal
        /\ \A j \in Jobs \ F : status'[j] = status[j] \/ (IsLive(j) /\ status'[j] \in Live)
        /\ status' \in [Jobs -> Phases]
        /\ settleCause' \in [Jobs -> {"none", "kill", "teardown"}]
    BY DEF CancelForTeardown, Telling, TellTyped, Live, Terminal, Phases
  <1>2. TellTyped' /\ AnnouncedAtEnd' /\ AboutStarted' /\ ResolversWait' /\ ForegroundApart'
    BY <1>1, SettleKeepsTelling
  <1> QED
    BY <1>1, <1>2 DEF Telling, LiveLedger, EveryCompletionTold, IsLive, Live

-----------------------------------------------------------------------------
(* The other steps.                                                          *)

\* A kill marks a live job as stopping, whoever asks for it.
LEMMA KillKeepsTelling ==
    ASSUME Telling, NEW j \in Jobs, ModelKills(j) \/ HumanKills(j)
    PROVE  Telling'
  <1>1. /\ IsLive(j) /\ KillRecord(j)
        /\ UNCHANGED <<agent, service, store, announced, outcome, resultDelivered, known, told,
                       call, waitResolvers>>
    BY DEF ModelKills, HumanKills, serviceVars, agentVars, toolVars
  <1> USE <1>1 DEF Telling, KillRecord
  <1>2. TellTyped' /\ AboutStarted' /\ EveryCompletionTold' /\ ForegroundApart'
    BY DEF TellTyped, AboutStarted, EveryCompletionTold, ForegroundApart, Phases
  <1>3. AnnouncedAtEnd'
    BY DEF TellTyped, AnnouncedAtEnd, IsTerminal, IsLive, Terminal, Live
  <1>4. ResolversWait'
    BY DEF TellTyped, ResolversWait, IsLive, Live
  <1>5. LiveLedger'
    BY DEF TellTyped, LiveLedger, IsLive, Live
  <1> QED
    BY <1>2, <1>3, <1>4, <1>5

callVars == <<agent, service, status, settleCause, announced, outcome, told>>

\* A call that goes on without waiting anew, and leaves the resolvers of its job
\* if it was waiting; no record the model knows of is dropped, and what a returned
\* wait was to tell has been told.
LEMMA CallGoesOn ==
    ASSUME Telling, NEW c \in Calls, NEW r \in CallRecords, r.pc \notin {"waiting", "stopping"},
           UNCHANGED callVars,
           call' = [call EXCEPT ![c] = r],
           waitResolvers' = [j \in Jobs |-> waitResolvers[j] \ {c}],
           known' \in SUBSET Jobs, known \subseteq known',
           store' \subseteq store, store \cap known' \subseteq store',
           \A j \in known' \ known : j \in store /\ announced[j] = "none" /\ status[j] # "none",
           \A j \in store \ store' : IsTerminal(j),
           \A d \in Calls : call[d].kind = "bash" /\ call[d].pc # "idle"
                               /\ call[d].job \in known' \ known => d = c,
           resultDelivered' \in [Jobs -> BOOLEAN],
           \A j \in Jobs : resultDelivered[j] => resultDelivered'[j],
           r.pc # "idle" => status[r.job] # "none",
           r.pc \in {"rejected", "stopped"} => r.kind = "bash",
           r.kind = "bash" /\ r.pc # "idle" =>
              r.job \notin known' /\ call[c].kind = "bash" /\ call[c].pc # "idle" /\ r.job = call[c].job,
           call[c].pc = "back" /\ call[c].job \in known /\ announced[call[c].job] # "none" =>
              \/ r.pc = "back" /\ r.job = call[c].job
              \/ agent = "live" /\ service = "up" => resultDelivered'[call[c].job]
    PROVE  Telling'
  <1> USE DEF Telling, callVars
  <1>1. TellTyped'
    BY DEF TellTyped
  <1>2. AnnouncedAtEnd'
    BY DEF AnnouncedAtEnd, IsTerminal
  <1>3. /\ call'[c] = r
        /\ \A d \in Calls \ {c} : call'[d] = call[d]
    BY DEF TellTyped
  <1>4. AboutStarted'
    BY <1>3 DEF AboutStarted
  <1>5. ResolversWait'
    BY <1>3 DEF ResolversWait, IsLive
  <1>6. ForegroundApart'
    <2>1. \A d \in Calls : call'[d].kind = "bash" /\ call'[d].pc # "idle" =>
             /\ call[d].kind = "bash" /\ call[d].pc # "idle" /\ call'[d].job = call[d].job
             /\ call'[d].job \notin known'
      BY <1>3 DEF ForegroundApart
    <2>2. \A d \in Calls : call'[d].pc \in {"rejected", "stopping", "stopped"} => call'[d].kind = "bash"
      BY <1>3 DEF ForegroundApart
    <2> QED
      BY <2>1, <2>2 DEF ForegroundApart
  <1>7. LiveLedger'
    BY DEF LiveLedger, TellTyped, IsLive, IsTerminal, Live, Terminal
  <1>8. EveryCompletionTold'
    <2> SUFFICES ASSUME agent = "live", service = "up", NEW j \in known', announced[j] # "none"
                 PROVE  \/ told[j] # "none" \/ resultDelivered'[j]
                        \/ \E d \in Calls : call'[d].pc = "back" /\ call'[d].job = j
      BY DEF EveryCompletionTold
    <2>1. j \in known /\ j \in Jobs
      OBVIOUS
    <2>2. \/ told[j] # "none" \/ resultDelivered[j]
          \/ \E d \in Calls : call[d].pc = "back" /\ call[d].job = j
      BY <2>1 DEF EveryCompletionTold
    <2> QED
      BY <1>3, <2>1, <2>2
  <1> QED
    BY <1>1, <1>2, <1>4, <1>5, <1>6, <1>7, <1>8

\* Who does not wait is in no resolvers; who waits is in those of its job only.
LEMMA ResolversOf ==
    ASSUME Telling, NEW c \in Calls
    PROVE  /\ call[c].pc \notin {"waiting", "stopping"} =>
                waitResolvers = [j \in Jobs |-> waitResolvers[j] \ {c}]
           /\ LeavesResolvers(c) => waitResolvers' = [j \in Jobs |-> waitResolvers[j] \ {c}]
  <1>1. /\ waitResolvers \in [Jobs -> SUBSET Calls] /\ call[c].job \in Jobs
        /\ \A j \in Jobs : c \in waitResolvers[j] =>
              call[c].job = j /\ call[c].pc \in {"waiting", "stopping"}
    BY DEF Telling, TellTyped, ResolversWait, CallRecords
  <1>2. ASSUME call[c].pc \notin {"waiting", "stopping"}
        PROVE  waitResolvers = [j \in Jobs |-> waitResolvers[j] \ {c}]
    <2>1. \A j \in Jobs : waitResolvers[j] \ {c} = waitResolvers[j]
      BY <1>1, <1>2
    <2> QED
      BY <1>1, <2>1
  <1>3. ASSUME LeavesResolvers(c)
        PROVE  waitResolvers' = [j \in Jobs |-> waitResolvers[j] \ {c}]
    <2>1. \A j \in Jobs \ {call[c].job} : waitResolvers[j] \ {c} = waitResolvers[j]
      BY <1>1
    <2>2. waitResolvers' = [waitResolvers EXCEPT ![call[c].job] = @ \ {c}]
      BY <1>3 DEF LeavesResolvers
    <2> QED
      BY <1>1, <2>1, <2>2
  <1> QED
    BY <1>2, <1>3

\* job_output returns with what its wait found.
LEMMA OutputKeepsTelling ==
    ASSUME Telling, NEW c \in Calls, OutputReturns(c)
    PROVE  Telling'
  <1> DEFINE r == [call[c] EXCEPT !.pc = "idle"]
  <1>1. /\ r \in CallRecords /\ r.pc = "idle" /\ r.job = call[c].job /\ r.kind = call[c].kind
        /\ call[c].job \in Jobs
    BY DEF Telling, TellTyped, CallRecords
  <1>2. /\ UNCHANGED callVars /\ UNCHANGED <<known, store, waitResolvers>>
        /\ call' = [call EXCEPT ![c] = r]
        /\ call[c].pc = "back"
    BY DEF OutputReturns, Goes, callVars, agentVars, serviceVars, lifeVars
  <1>3. /\ resultDelivered' \in [Jobs -> BOOLEAN]
        /\ \A j \in Jobs : resultDelivered[j] => resultDelivered'[j]
        /\ call[c].job \in store /\ IsTerminal(call[c].job) => resultDelivered'[call[c].job]
    BY <1>1 DEF OutputReturns, Read, Telling, TellTyped
  <1>4. announced[call[c].job] # "none" => IsTerminal(call[c].job)
    BY <1>1 DEF Telling, AnnouncedAtEnd
  <1>5. agent = "live" /\ service = "up" /\ call[c].job \in known => call[c].job \in store
    BY DEF Telling, LiveLedger
  <1>6. waitResolvers' = [j \in Jobs |-> waitResolvers[j] \ {c}]
    BY <1>2, ResolversOf
  <1>7. known \in SUBSET Jobs /\ store \subseteq Jobs
    BY DEF Telling, TellTyped
  <1> HIDE DEF r
  <1> QED
    BY <1>1, <1>2, <1>3, <1>4, <1>5, <1>6, <1>7, CallGoesOn

\* A wait that times out or is aborted leaves the resolvers of its job.
LEMMA WaitEndsKeepsTelling ==
    ASSUME Telling, NEW c \in Calls, WaitTimesOut(c) \/ WaitAborts(c)
    PROVE  Telling'
  <1> DEFINE r == call'[c]
  <1>1. /\ call[c] \in CallRecords /\ call[c].job \in Jobs
        /\ call \in [Calls -> CallRecords] /\ known \in SUBSET Jobs
        /\ resultDelivered \in [Jobs -> BOOLEAN]
    BY DEF Telling, TellTyped, CallRecords
  <1>2. /\ UNCHANGED callVars /\ UNCHANGED <<known, store, resultDelivered>>
        /\ LeavesResolvers(c)
        /\ call[c].pc \in {"waiting", "stopping"}
    BY DEF WaitTimesOut, WaitAborts, callVars, agentVars, serviceVars, lifeVars, jobVars
  <1>3. /\ r \in CallRecords /\ r.job = call[c].job /\ r.kind = call[c].kind
        /\ r.pc \in {"back", "stopped", "rejected", "idle"}
        /\ r.pc = "rejected" => r.kind = "bash"
        /\ r.pc = "stopped" => call[c].pc = "stopping"
        /\ call' = [call EXCEPT ![c] = r]
    <2>1. CASE WaitTimesOut(c)
      BY <1>1, <2>1 DEF WaitTimesOut, Returned, CallRecords
    <2>2. CASE WaitAborts(c)
      BY <1>1, <2>2 DEF WaitAborts, Goes, CallRecords
    <2> QED
      BY <2>1, <2>2
  <1>4. call[c].kind = "bash" /\ call[c].pc # "idle" => call[c].job \notin known
    BY DEF Telling, ForegroundApart
  <1>5. call[c].pc = "stopping" => call[c].kind = "bash"
    BY DEF Telling, ForegroundApart
  <1>6. waitResolvers' = [j \in Jobs |-> waitResolvers[j] \ {c}]
    BY <1>2, ResolversOf
  <1>7. status[call[c].job] # "none"
    BY <1>2 DEF Telling, AboutStarted
  <1> HIDE DEF r
  <1> QED
    BY <1>1, <1>2, <1>3, <1>4, <1>5, <1>6, <1>7, CallGoesOn

\* A foreground call collects its job, hands its id to the model, or leaves it.
LEMMA BashEndsKeepsTelling ==
    ASSUME Telling, NEW c \in Calls, BashCollects(c) \/ BashPromotes(c) \/ BashGivesUp(c)
    PROVE  Telling'
  <1> DEFINE r == [call[c] EXCEPT !.pc = "idle"]
  <1>1. /\ r \in CallRecords /\ r.pc = "idle" /\ r.job = call[c].job /\ r.kind = call[c].kind
        /\ call[c].job \in Jobs /\ known \in SUBSET Jobs /\ store \subseteq Jobs
        /\ resultDelivered \in [Jobs -> BOOLEAN] /\ call \in [Calls -> CallRecords]
    BY DEF Telling, TellTyped, CallRecords
  <1>2. /\ UNCHANGED callVars /\ UNCHANGED waitResolvers
        /\ call' = [call EXCEPT ![c] = r]
        /\ call[c].kind = "bash" /\ call[c].pc \in {"back", "stopped"}
    BY DEF BashCollects, BashPromotes, BashGivesUp, Goes, callVars, agentVars, serviceVars, lifeVars,
           jobVars
  <1>3. call[c].job \notin known
    BY <1>2 DEF Telling, ForegroundApart
  <1>4. waitResolvers' = [j \in Jobs |-> waitResolvers[j] \ {c}]
    BY <1>2, ResolversOf
  <1>5. CASE BashCollects(c) \/ BashGivesUp(c)
    <2>1. /\ UNCHANGED <<known, resultDelivered>>
          /\ store' \in {store, store \ {call[c].job}}
          /\ store' # store => IsTerminal(call[c].job)
      BY <1>5 DEF BashCollects, BashGivesUp, Drop, jobVars, lifeVars
    <2> HIDE DEF r
    <2> QED
      BY <1>1, <1>2, <1>3, <1>4, <2>1, CallGoesOn
  <1>6. CASE BashPromotes(c)
    <2>1. /\ known' = known \cup {call[c].job} /\ UNCHANGED store /\ IsLive(call[c].job)
          /\ resultDelivered' \in [Jobs -> BOOLEAN]
          /\ \A j \in Jobs : resultDelivered[j] => resultDelivered'[j]
      BY <1>1, <1>6 DEF BashPromotes, Read, lifeVars
    <2>2. /\ call[c].job \in store /\ announced[call[c].job] = "none"
          /\ status[call[c].job] # "none"
      BY <1>1, <2>1 DEF Telling, LiveLedger, AnnouncedAtEnd, IsLive, IsTerminal, Live, Terminal
    <2>3. \A d \in Calls : call[d].kind = "bash" /\ call[d].pc # "idle"
                              /\ call[d].job = call[c].job => d = c
      BY <1>2 DEF Telling, ForegroundApart
    <2> HIDE DEF r
    <2> QED
      BY <1>1, <1>2, <1>3, <1>4, <2>1, <2>2, <2>3, CallGoesOn
  <1> QED
    BY <1>5, <1>6

\* A call that waits anew for a live job, which the same step may have killed.
LEMMA CallWaits ==
    ASSUME Telling, NEW c \in Calls, NEW kind \in {"output", "bash"}, NEW j \in Jobs,
           NEW pc \in {"waiting", "stopping"},
           call[c].pc \notin {"waiting", "stopping"},
           Waits(c, kind, j, pc),
           UNCHANGED <<agent, service, store, announced, outcome, resultDelivered, known, told>>,
           status' \in [Jobs -> Phases],
           settleCause' \in [Jobs -> {"none", "kill", "teardown"}],
           \A i \in Jobs : settleCause'[i] # settleCause[i] => settleCause'[i] = "kill",
           \A i \in Jobs : status'[i] = status[i] \/ (IsLive(i) /\ status'[i] \in Live),
           IsLive(j),
           pc = "stopping" => kind = "bash",
           kind = "output" => call[c].pc = "idle",
           kind = "bash" => call[c].pc # "idle" /\ call[c].kind = "bash" /\ j = call[c].job,
           call[c].pc = "back" => call[c].kind = "bash"
    PROVE  Telling'
  <1> USE DEF Telling
  <1>1. /\ call' \in [Calls -> CallRecords]
        /\ call'[c].pc = pc /\ call'[c].kind = kind /\ call'[c].job = j
        /\ \A d \in Calls \ {c} : call'[d] = call[d]
    BY DEF TellTyped, Waits, CallRecords
  <1>2. \A i \in Jobs : waitResolvers'[i] = IF i = j THEN waitResolvers[i] \cup {c}
                                            ELSE waitResolvers[i]
    BY DEF TellTyped, Waits
  <1>3. TellTyped'
    BY <1>1 DEF TellTyped, Waits
  <1>4. AnnouncedAtEnd'
    BY DEF TellTyped, AnnouncedAtEnd, IsTerminal, IsLive, Live, Terminal
  <1>5. \A d \in Calls : call[d].job \in Jobs
    BY DEF TellTyped, CallRecords
  <1>6. AboutStarted'
    BY <1>1, <1>5 DEF TellTyped, AboutStarted, IsLive, Live
  <1>7. ResolversWait'
    <2>1. ASSUME NEW i \in Jobs, NEW d \in Calls
          PROVE  d \in waitResolvers'[i]
                   <=> call'[d].job = i /\ call'[d].pc \in {"waiting", "stopping"}
      <3>1. CASE d = c
        <4>1. c \notin waitResolvers[i]
          BY DEF ResolversWait
        <4> QED
          BY <1>1, <1>2, <3>1, <4>1
      <3>2. CASE d # c
        <4>1. call'[d] = call[d]
          BY <1>1, <3>2
        <4>2. waitResolvers'[i] = waitResolvers[i] \/ waitResolvers'[i] = waitResolvers[i] \cup {c}
          BY <1>2
        <4>3. d \in waitResolvers'[i] <=> d \in waitResolvers[i]
          BY <3>2, <4>2
        <4> QED
          BY <4>1, <4>3 DEF ResolversWait
      <3> QED
        BY <3>1, <3>2
    <2>2. ASSUME NEW d \in Calls, call'[d].pc \in {"waiting", "stopping"}
          PROVE  status'[call'[d].job] \in Live
      BY <1>1, <1>5, <2>2 DEF ResolversWait, IsLive
    <2> QED
      BY <2>1, <2>2 DEF ResolversWait, IsLive
  <1>8. ForegroundApart'
    BY <1>1 DEF ForegroundApart
  <1>9. LiveLedger'
    BY DEF TellTyped, LiveLedger, IsLive, Live
  <1>10. EveryCompletionTold'
    <2>1. ASSUME NEW d \in Calls, call[d].pc = "back", call[d].job \in known
          PROVE  call'[d] = call[d]
      BY <1>1, <2>1 DEF ForegroundApart
    <2> QED
      BY <2>1 DEF EveryCompletionTold
  <1> QED
    BY <1>3, <1>4, <1>6, <1>7, <1>8, <1>9, <1>10

\* job_output begins to wait for a live job.
LEMMA OutputWaitsKeepsTelling ==
    ASSUME Telling, NEW c \in Calls, NEW j \in Jobs, OutputWaits(c, j)
    PROVE  Telling'
  <1>1. /\ UNCHANGED callVars /\ UNCHANGED <<known, store, resultDelivered>>
        /\ call[c].pc = "idle" /\ j \in known
    BY DEF OutputWaits, callVars, agentVars, serviceVars, lifeVars, jobVars
  <1>2. CASE IsLive(j) /\ Waits(c, "output", j, "waiting")
    BY <1>1, <1>2, CallWaits DEF callVars, Telling, TellTyped
  <1>3. CASE /\ IsTerminal(j) /\ UNCHANGED waitResolvers
             /\ call' = [call EXCEPT ![c] = [pc |-> "back", kind |-> "output", job |-> j]]
    <2> DEFINE r == [pc |-> "back", kind |-> "output", job |-> j]
    <2>1. r \in CallRecords /\ r.pc = "back" /\ r.kind = "output" /\ r.job = j
      BY DEF CallRecords
    <2>2. waitResolvers' = [i \in Jobs |-> waitResolvers[i] \ {c}]
      BY <1>1, <1>3, ResolversOf
    <2>3. status[j] # "none" /\ known \in SUBSET Jobs /\ resultDelivered \in [Jobs -> BOOLEAN]
      BY <1>3 DEF IsTerminal, Terminal, Telling, TellTyped
    <2> HIDE DEF r
    <2>4. call' = [call EXCEPT ![c] = r]
      BY <1>3 DEF r
    <2> QED
      BY <1>1, <2>1, <2>2, <2>3, <2>4, CallGoesOn
  <1> QED
    BY <1>2, <1>3 DEF OutputWaits

\* job_output without a wait: a read delivers the result of a settled job.
LEMMA OutputReadsKeepsTelling ==
    ASSUME Telling, NEW j \in Jobs, OutputReads(j)
    PROVE  Telling'
  <1>1. /\ UNCHANGED <<agent, service, store, status, settleCause, announced, outcome,
                       call, known, waitResolvers, told>>
        /\ resultDelivered' = [resultDelivered EXCEPT ![j] = @ \/ IsTerminal(j)]
    BY DEF OutputReads, Read, agentVars, serviceVars, lifeVars, toolVars
  <1>2. /\ resultDelivered' \in [Jobs -> BOOLEAN]
        /\ \A i \in Jobs : resultDelivered[i] => resultDelivered'[i]
    BY <1>1 DEF Telling, TellTyped
  <1>3. EveryCompletionTold'
    BY <1>1, <1>2 DEF Telling, TellTyped, EveryCompletionTold
  <1> QED
    BY <1>1, <1>2, <1>3 DEF Telling, TellTyped, AnnouncedAtEnd, AboutStarted, ResolversWait,
                            ForegroundApart, LiveLedger, IsTerminal, IsLive

\* A stopped foreground call kills its job and waits again, or goes.
LEMMA BashStopsKeepsTelling ==
    ASSUME Telling, NEW c \in Calls, BashStops(c)
    PROVE  Telling'
  <1> DEFINE j == call[c].job
  <1>1. /\ UNCHANGED <<agent, service, store, announced, outcome, resultDelivered, known, told>>
        /\ call[c].kind = "bash" /\ call[c].pc \in {"rejected", "back"}
    BY DEF BashStops, agentVars, serviceVars
  <1>2. /\ j \in Jobs /\ known \in SUBSET Jobs /\ resultDelivered \in [Jobs -> BOOLEAN]
        /\ call[c] \in CallRecords
    BY DEF Telling, TellTyped, CallRecords
  <1>3. CASE IsLive(j)
    <2>1. KillRecord(j) /\ Waits(c, "bash", j, "stopping")
      BY <1>3 DEF BashStops
    <2>2. /\ status' \in [Jobs -> Phases]
          /\ settleCause' \in [Jobs -> {"none", "kill", "teardown"}]
          /\ \A i \in Jobs : settleCause'[i] # settleCause[i] => settleCause'[i] = "kill"
          /\ \A i \in Jobs : status'[i] = status[i] \/ (IsLive(i) /\ status'[i] \in Live)
      BY <1>2, <1>3, <2>1 DEF KillRecord, Telling, TellTyped, Phases, IsLive, Live
    <2> HIDE DEF j
    <2>3. j = call[c].job
      BY DEF j
    <2> QED
      BY <1>1, <1>2, <1>3, <2>1, <2>2, <2>3, CallWaits
  <1>4. CASE ~IsLive(j)
    <2>1. PICK pc \in {"stopped", "idle"} : Goes(c, pc)
      BY <1>4 DEF BashStops
    <2>2. UNCHANGED <<status, settleCause, waitResolvers>>
      BY <1>4 DEF BashStops
    <2> DEFINE r == [call[c] EXCEPT !.pc = pc]
    <2>3. /\ r \in CallRecords /\ r.pc = pc /\ r.kind = call[c].kind /\ r.job = call[c].job
          /\ call' = [call EXCEPT ![c] = r]
      BY <1>2, <2>1 DEF Goes, CallRecords
    <2>4. waitResolvers' = [i \in Jobs |-> waitResolvers[i] \ {c}]
      BY <1>1, <2>2, ResolversOf
    <2>5. call[c].job \notin known /\ status[call[c].job] # "none"
      BY <1>1 DEF Telling, ForegroundApart, AboutStarted
    <2> HIDE DEF r
    <2> QED
      BY <1>1, <1>2, <2>1, <2>2, <2>3, <2>4, <2>5, CallGoesOn DEF callVars
  <1> QED
    BY <1>3, <1>4

\* The agent and the registry leave; what they drop has settled.
LEMMA LeavingKeepsTelling ==
    ASSUME Telling, AgentUnloads \/ AgentDrops \/ AgentLeaves \/ ServiceStops
    PROVE  Telling'
  <1>1. /\ UNCHANGED <<status, settleCause, announced, outcome, resultDelivered, call, known,
                       waitResolvers, told>>
        /\ agent' # "live" \/ service' # "up"
        /\ store' \subseteq store
        /\ \A j \in store \ store' : IsTerminal(j)
    BY DEF AgentUnloads, AgentDrops, AgentLeaves, ServiceStops, Drop, jobVars, toolVars, lifeVars
  <1>2. LiveLedger'
    BY <1>1 DEF Telling, TellTyped, LiveLedger, IsLive, IsTerminal, Live, Terminal
  <1> QED
    BY <1>1, <1>2 DEF Telling, TellTyped, AnnouncedAtEnd, AboutStarted, ResolversWait,
                      ForegroundApart, EveryCompletionTold, IsTerminal, IsLive

\* Output, the pump and a settled promise touch nothing of it but the outcome.
LEMMA ProductionKeepsTelling ==
    ASSUME Telling, NEW j \in Jobs,
           \/ \E bytes \in 1..MaxChunk : Push(j, bytes)
           \/ SourceGrows(j) \/ PumpPolls(j) \/ PumpFinishes(j)
           \/ \E o \in Outcomes : ProducerEnds(j, o)
           \/ StarterThrows \/ UNCHANGED vars
    PROVE  Telling'
  <1>1. CASE \E o \in Outcomes : ProducerEnds(j, o)
    <2>1. /\ outcome' \in [Jobs -> {"pending"} \cup Terminal]
          /\ UNCHANGED <<agent, service, store, status, settleCause, announced, resultDelivered,
                         call, known, waitResolvers, told>>
      BY <1>1, CapsAssumption DEF ProducerEnds, agentVars, serviceVars, lifeVars, toolVars, Telling,
                                  TellTyped
    <2> QED
      BY <2>1 DEF Telling, TellTyped, AnnouncedAtEnd, AboutStarted, ResolversWait, ForegroundApart,
                  LiveLedger, EveryCompletionTold, IsTerminal, IsLive
  <1>2. CASE \/ \E bytes \in 1..MaxChunk : Push(j, bytes)
             \/ SourceGrows(j) \/ PumpPolls(j) \/ PumpFinishes(j)
             \/ StarterThrows \/ UNCHANGED vars
    <2>1. UNCHANGED tellVars
      BY <1>2 DEF tellVars, Push, SourceGrows, PumpPolls, PumpFinishes, StarterThrows, vars,
                  jobVars, agentVars, serviceVars, lifeVars, toolVars
    <2> QED
      BY <2>1, TellingFrame
  <1> QED
    BY <1>1, <1>2

\* Every step keeps it.
LEMMA TellingStep == Telling /\ [Next]_vars => Telling'
  <1> SUFFICES ASSUME Telling, [Next]_vars PROVE Telling'
    OBVIOUS
  <1>0. PICK someJob \in Jobs : TRUE
    BY CapsAssumption
  <1>1. CASE StarterThrows \/ UNCHANGED vars
    BY <1>0, <1>1, ProductionKeepsTelling
  <1>2. ASSUME NEW j \in Jobs, JobStep(j) PROVE Telling'
    <2>1. CASE StartBackground(j) \/ StartLate(j)
      BY <2>1, RegisterKeepsTelling DEF StartBackground, StartLate, toolVars
    <2>2. CASE ModelKills(j) \/ HumanKills(j)
      BY <2>2, KillKeepsTelling
    <2> QED
      BY <1>2, <2>1, <2>2, ProductionKeepsTelling, ProducerKeepsTelling, OutputReadsKeepsTelling
         DEF JobStep
  <1>3. ASSUME NEW c \in Calls, CallStep(c) PROVE Telling'
    <2>1. ASSUME NEW j \in Jobs, BashStarts(c, j) PROVE Telling'
      BY <2>1, RegisterKeepsTelling DEF BashStarts
    <2> QED
      BY <1>3, <2>1, OutputWaitsKeepsTelling, OutputKeepsTelling, WaitEndsKeepsTelling,
         BashEndsKeepsTelling, BashStopsKeepsTelling DEF CallStep
  <1>4. CASE AgentUnloads \/ AgentDrops \/ AgentLeaves \/ ServiceStops
    BY <1>4, LeavingKeepsTelling
  <1>5. ASSUME NEW F \in SUBSET Jobs, AgentCleans(F) PROVE Telling'
    <2>1. /\ CancelForTeardown(agentJobs', F) /\ agentJobs' \in SUBSET Jobs
          /\ UNCHANGED <<store, known, outcome, resultDelivered>> /\ agent' # "live"
      BY <1>5 DEF AgentCleans, Telling, TellTyped
    <2> QED
      BY <2>1, TeardownKeepsTelling
  <1>6. ASSUME NEW F \in SUBSET Jobs, ServiceDrains(F) PROVE Telling'
    <2>1. /\ CancelForTeardown(store, F) /\ store \in SUBSET Jobs
          /\ UNCHANGED <<store, known, outcome, resultDelivered>> /\ service' # "up"
      BY <1>6 DEF ServiceDrains, Telling, TellTyped
    <2> QED
      BY <2>1, TeardownKeepsTelling
  <1> QED
    BY <1>1, <1>2, <1>3, <1>4, <1>5, <1>6 DEF Next

\* In whatever order settlements, timeouts, aborts, kills and teardowns come, a job
\* the model knows of that settled in the life of its agent has been told, read, or
\* is about to be read by a call whose wait returned.
THEOREM CompletionsTold == Spec => []EveryCompletionTold
  <1>1. Telling => EveryCompletionTold
    BY DEF Telling
  <1> QED
    BY TellingInit, TellingStep, <1>1, PTL DEF Spec

-----------------------------------------------------------------------------
(* The ring: what trimming and appending do, for any ring and cap            *)

\* Chunks in order, none behind the end.
Ordered(r) ==
    /\ r \in Rings
    /\ \A k \in 1..Len(r.chunks) :
          /\ r.chunks[k].at <= r.total
          /\ \A i \in 1..k : r.chunks[i].at <= r.chunks[k].at

\* A cursor that stands at the end, at the start of a chunk or before them all.
AtBoundary(r, cursor) ==
    \/ cursor = r.total \/ cursor <= Earliest(r)
    \/ \E k \in 1..Len(r.chunks) : r.chunks[k].at = cursor

Fits(r, cap, k) == r.total - r.chunks[k].at <= cap

\* A nonempty set of positive numbers up to n has a least one.
LEMMA Least ==
    ASSUME NEW n \in Nat, NEW T \in SUBSET (1..n), T # {}
    PROVE  \E x \in T : \A y \in T : x <= y
  <1> DEFINE Upto == {1..k : k \in T}
  <1>1. IsFiniteSet(1..n)
    BY FS_Interval
  <1>2. IsWellFoundedOn(StrictSubsetOrdering(1..n), SUBSET (1..n))
    BY <1>1, FS_StrictSubsetOrderingWellFounded, FS_FiniteSubsetsOfFinite
  <1>3. Upto \subseteq SUBSET (1..n) /\ Upto # {}
    <2>1. \A k \in T : 1..k \subseteq 1..n
      OBVIOUS
    <2>2. PICK k \in T : TRUE
      OBVIOUS
    <2>3. 1..k \in Upto
      OBVIOUS
    <2> QED
      BY <2>1, <2>3
  <1>4. PICK u \in Upto : \A v \in Upto : ~(<<v, u>> \in StrictSubsetOrdering(1..n))
    <2> HIDE DEF Upto
    <2> QED
      BY <1>2, <1>3, WFMin
  <1>5. PICK x \in T : u = 1..x
    BY <1>4
  <1>6. ASSUME NEW y \in T PROVE x <= y
    <2>1. SUFFICES ASSUME y < x PROVE FALSE
      OBVIOUS
    <2>2. 1..y \in Upto /\ 1..y \subseteq 1..x /\ x \in 1..x /\ x \notin 1..y
      BY <2>1
    <2>3. <<1..y, 1..x>> \in StrictSubsetOrdering(1..n)
      BY <2>2, <1>3, <1>5 DEF StrictSubsetOrdering
    <2> QED
      BY <1>4, <1>5, <2>2, <2>3
  <1> QED
    BY <1>6

\* A ring that is too long loses chunks from its head until the rest fits, or keeps
\* the tail of its last chunk.
LEMMA TrimCases ==
    ASSUME NEW r, Ordered(r), NEW cap \in Nat, Retained(r) > cap, NEW n, n = Len(r.chunks)
    PROVE  /\ n \in Nat \ {0} /\ cap < r.total
           /\ \/ \E first \in 1..n :
                    /\ Fits(r, cap, first)
                    /\ \A i \in 1..(first - 1) : ~Fits(r, cap, i)
                    /\ Trim(r, cap) = [chunks |-> SubSeq(r.chunks, first, n), total |-> r.total]
              \/ /\ \A i \in 1..n : ~Fits(r, cap, i)
                 /\ Trim(r, cap) = [chunks |-> << [at |-> r.total - cap, bytes |-> cap] >>, total |-> r.total]
  <1> USE DEF Fits
  <1>0. /\ r.chunks \in Seq([at : Nat, bytes : Nat]) /\ r.total \in Nat /\ n \in Nat
        /\ \A k \in 1..n : r.chunks[k] \in [at : Nat, bytes : Nat]
    <2>1. r.chunks \in Seq([at : Nat, bytes : Nat]) /\ r.total \in Nat
      BY DEF Ordered, Rings
    <2>2. n \in Nat
      BY <2>1
    <2>3. \A k \in 1..n : r.chunks[k] \in [at : Nat, bytes : Nat]
      BY <2>1, ElementOfSeq
    <2> QED
      BY <2>1, <2>2, <2>3
  <1>1. r.chunks # << >> /\ n \in Nat \ {0} /\ cap < r.total /\ \A k \in 1..n : r.chunks[k].at \in Nat
    <2>1. r.chunks # << >>
      BY <1>0 DEF Retained, Earliest
    <2>2. n # 0
      BY <1>0, <2>1
    <2>3. Retained(r) = r.total - r.chunks[1].at
      BY <1>0, <2>1 DEF Retained, Earliest
    <2>4. r.chunks[1].at \in Nat
      BY <1>0, <2>2
    <2> QED
      BY <1>0, <2>1, <2>2, <2>3, <2>4
  <1> DEFINE OK(k) == /\ Fits(r, cap, k) \/ k = n
                      /\ \A i \in 1..(k - 1) : ~Fits(r, cap, i)
             first == CHOOSE k \in 1..n : OK(k)
  <1>2. \E k \in 1..n : OK(k)
    <2> DEFINE T == {k \in 1..n : Fits(r, cap, k) \/ k = n}
    <2>1. T \in SUBSET (1..n) /\ n \in T
      BY <1>1
    <2>2. PICK k \in T : \A y \in T : k <= y
      <3> HIDE DEF T
      <3> QED
        BY <1>0, <2>1, Least
    <2>3. \A i \in 1..(k - 1) : i \in 1..n /\ ~(k <= i)
      BY <1>1
    <2>4. OK(k)
      BY <2>2, <2>3
    <2> QED
      BY <2>4
  <1>3. first \in 1..n /\ OK(first)
    BY <1>2
  <1>4. Trim(r, cap) =
            [chunks |-> IF Fits(r, cap, first) THEN SubSeq(r.chunks, first, n)
                        ELSE << [at |-> r.total - cap, bytes |-> cap] >>,
             total |-> r.total]
    <2>1. ~(Retained(r) <= cap)
      BY <1>0, <1>1 DEF Retained, Earliest
    <2> QED
      BY <2>1 DEF Trim
  <1> HIDE DEF first
  <1>5. CASE Fits(r, cap, first)
    BY <1>1, <1>3, <1>4, <1>5
  <1>6. CASE ~Fits(r, cap, first)
    <2>1. first = n
      BY <1>3, <1>6
    <2>2. \A i \in 1..n : i = n \/ i \in 1..(n - 1)
      BY <1>1
    <2>3. \A i \in 1..n : ~Fits(r, cap, i)
      BY <1>3, <1>6, <2>1, <2>2
    <2>4. Trim(r, cap) = [chunks |-> << [at |-> r.total - cap, bytes |-> cap] >>, total |-> r.total]
      BY <1>4, <1>6
    <2> QED
      BY <1>1, <2>3, <2>4
  <1> QED
    BY <1>5, <1>6

\* What order among the chunks says of the ring's numbers.
LEMMA OrderedFacts ==
    ASSUME NEW r, Ordered(r)
    PROVE  /\ r.total \in Nat /\ Len(r.chunks) \in Nat
           /\ r.chunks \in Seq([at : Nat, bytes : Nat])
           /\ \A k \in 1..Len(r.chunks) : r.chunks[k] \in [at : Nat, bytes : Nat]
           /\ Earliest(r) \in Nat /\ Earliest(r) <= r.total
           /\ r.chunks # << >> => Len(r.chunks) # 0 /\ Earliest(r) = r.chunks[1].at
  <1>1. r.chunks \in Seq([at : Nat, bytes : Nat]) /\ r.total \in Nat
    BY DEF Ordered, Rings
  <1>2. Len(r.chunks) \in Nat
    BY <1>1
  <1>3. \A k \in 1..Len(r.chunks) : r.chunks[k] \in [at : Nat, bytes : Nat]
    BY <1>1, ElementOfSeq
  <1>4. ASSUME r.chunks # << >>
        PROVE  Len(r.chunks) # 0 /\ Earliest(r) = r.chunks[1].at
    BY <1>1, <1>4 DEF Earliest
  <1>5. Earliest(r) \in Nat /\ Earliest(r) <= r.total
    <2>1. CASE r.chunks = << >>
      BY <1>1, <2>1 DEF Earliest
    <2>2. CASE r.chunks # << >>
      BY <1>1, <1>2, <1>3, <1>4, <2>2 DEF Ordered
    <2> QED
      BY <2>1, <2>2
  <1> QED
    BY <1>1, <1>2, <1>3, <1>4, <1>5

\* A ring with the same end whose chunks are those of r from first on.
IsTailOf(s, r, first) ==
    /\ Ordered(s) /\ s.total = r.total
    /\ Earliest(s) = r.chunks[first].at
    /\ \A k \in first..Len(r.chunks) :
          \E i \in 1..Len(s.chunks) : s.chunks[i].at = r.chunks[k].at

\* The two rings a trim may leave: a tail of the chunks, or one chunk of cap bytes.
LEMMA TailOfChunks ==
    ASSUME NEW r, Ordered(r), NEW n, n = Len(r.chunks), NEW first \in 1..n,
           NEW s, s = [chunks |-> SubSeq(r.chunks, first, n), total |-> r.total]
    PROVE  IsTailOf(s, r, first)
  <1> DEFINE tail == SubSeq(r.chunks, first, n)
             Chunk == [at : Nat, bytes : Nat]
  <1>1. /\ r.chunks \in Seq(Chunk) /\ r.total \in Nat /\ n \in Nat
        /\ r \in [chunks : Seq(Chunk), total : Nat]
        /\ \A i \in first..n : r.chunks[i] \in Chunk
        /\ first \in 1..n
    <2>1. r.chunks \in Seq(Chunk) /\ r.total \in Nat /\ n \in Nat
      BY OrderedFacts
    <2>2. r \in [chunks : Seq(Chunk), total : Nat]
      BY DEF Ordered, Rings
    <2>3. \A i \in first..n : i \in 1..n
      BY <2>1
    <2> QED
      BY <2>1, <2>2, <2>3, OrderedFacts
  <1>2. /\ tail \in Seq(Chunk) /\ Len(tail) = n - first + 1
        /\ \A i \in 1..(n - first + 1) : tail[i] = r.chunks[first + i - 1]
    <2> HIDE DEF Chunk
    <2> QED
      BY <1>1, SubSeqProperties
  <1>3. s.chunks = tail /\ s.total = r.total
    BY <1>1
  <1>4. s \in Rings
    BY <1>1, <1>2 DEF Rings
  <1> HIDE DEF tail
  <1>5. Ordered(s)
    <2>1. ASSUME NEW k \in 1..Len(s.chunks)
          PROVE  /\ s.chunks[k].at <= s.total
                 /\ \A i \in 1..k : s.chunks[i].at <= s.chunks[k].at
      <3>1. first + k - 1 \in 1..n /\ s.chunks[k] = r.chunks[first + k - 1]
        <4>1. k \in 1..(n - first + 1)
          BY <1>2, <1>3
        <4>2. first + k - 1 \in 1..n
          BY <1>1, <4>1
        <4> QED
          BY <1>2, <1>3, <4>1, <4>2
      <3>2. ASSUME NEW i \in 1..k PROVE s.chunks[i].at <= s.chunks[k].at
        <4>1. first + i - 1 \in 1..(first + k - 1) /\ s.chunks[i] = r.chunks[first + i - 1]
          <5>1. k \in 1..(n - first + 1)
            BY <1>2, <1>3
          <5>2. i \in 1..(n - first + 1)
            BY <1>1, <5>1
          <5>3. first + i - 1 \in 1..(first + k - 1)
            BY <1>1
          <5> QED
            BY <1>2, <1>3, <5>2, <5>3
        <4> QED
          BY <3>1, <4>1 DEF Ordered
      <3> QED
        BY <1>3, <3>1, <3>2 DEF Ordered
    <2> QED
      BY <1>4, <2>1 DEF Ordered
  <1>6. Earliest(s) = r.chunks[first].at
    <2>1. Len(tail) # 0 /\ tail[1] = r.chunks[first]
      <3>1. 1 \in 1..(n - first + 1) /\ n - first + 1 # 0 /\ first + 1 - 1 = first
        BY <1>1
      <3> QED
        BY <1>2, <3>1
    <2>2. tail # << >>
      BY <1>2, <2>1
    <2>3. Head(tail) = tail[1]
      BY <1>2, <2>2, HeadTailProperties
    <2>4. Earliest(s) = Head(tail).at
      BY <1>3, <2>2 DEF Earliest
    <2> QED
      BY <2>1, <2>3, <2>4
  <1>7. ASSUME NEW k \in first..n
        PROVE  \E i \in 1..Len(s.chunks) : s.chunks[i].at = r.chunks[k].at
    <2>1. k - first + 1 \in 1..(n - first + 1) /\ first + (k - first + 1) - 1 = k
      <3>1. n \in Nat /\ first \in 1..n /\ k \in first..n
        BY <1>1, <1>7
      <3> QED
        BY <3>1
    <2>2. s.chunks[k - first + 1] = r.chunks[k]
      BY <1>2, <1>3, <2>1
    <2> QED
      BY <1>2, <1>3, <2>1, <2>2
  <1> QED
    BY <1>3, <1>5, <1>6, <1>7 DEF IsTailOf

\* The tail of a single chunk that is too large is an ordered ring.
LEMMA TailOfOne ==
    ASSUME NEW r, Ordered(r), NEW cap \in Nat, cap < r.total,
           NEW s, s = [chunks |-> << [at |-> r.total - cap, bytes |-> cap] >>, total |-> r.total]
    PROVE  Ordered(s) /\ s.total = r.total /\ Earliest(s) = r.total - cap
  <1> DEFINE one == [at |-> r.total - cap, bytes |-> cap]
  <1>1. r.total \in Nat /\ r \in [chunks : Seq([at : Nat, bytes : Nat]), total : Nat]
    BY OrderedFacts DEF Ordered, Rings
  <1>2. one \in [at : Nat, bytes : Nat]
    BY <1>1
  <1>3. one.at = r.total - cap
    OBVIOUS
  <1> HIDE DEF one
  <1>4. s.chunks = << one >> /\ s.total = r.total
    BY <1>1 DEF one
  <1>5. << one >> \in Seq([at : Nat, bytes : Nat]) /\ Len(<< one >>) = 1 /\ << one >>[1] = one
    BY <1>2
  <1>6. s \in Rings
    BY <1>1, <1>5 DEF Rings, one
  <1>7. Ordered(s)
    BY <1>1, <1>3, <1>4, <1>5, <1>6 DEF Ordered
  <1>8. Earliest(s) = one.at
    BY <1>4, <1>5 DEF Earliest
  <1> QED
    BY <1>3, <1>4, <1>7, <1>8

\* Trimming keeps a ring a ring with its end, and every cursor at a boundary; if the
\* cap leaves room for all behind a cursor it drops nothing behind it.
LEMMA TrimKeeps ==
    ASSUME NEW r, Ordered(r), NEW cap \in Nat
    PROVE  /\ Ordered(Trim(r, cap)) /\ Trim(r, cap).total = r.total
           /\ \A c \in Nat : c <= r.total /\ AtBoundary(r, c) =>
                 /\ AtBoundary(Trim(r, cap), c)
                 /\ r.total - c <= cap =>
                       Earliest(Trim(r, cap)) = Earliest(r) \/ Earliest(Trim(r, cap)) <= c
  <1> DEFINE s == Trim(r, cap)
  <1>0. PICK n : n = Len(r.chunks)
    OBVIOUS
  <1>1. CASE Retained(r) <= cap
    BY <1>1 DEF Trim
  <1>2. CASE ~(Retained(r) <= cap)
    <2>1. /\ n \in Nat \ {0} /\ r.total \in Nat /\ Earliest(r) \in Nat
          /\ \A k \in 1..n : r.chunks[k].at \in Nat
          /\ Earliest(r) = r.chunks[1].at
          /\ r.total - Earliest(r) > cap
      <3>1. Retained(r) > cap
        BY <1>2, OrderedFacts DEF Retained
      <3>2. n \in Nat \ {0}
        BY <1>0, <3>1, TrimCases
      <3>3. r.chunks # << >>
        BY <1>0, <3>2, OrderedFacts
      <3> QED
        BY <1>0, <3>1, <3>2, <3>3, OrderedFacts DEF Retained
    <2>2. \/ \E first \in 1..n :
                /\ Fits(r, cap, first)
                /\ \A i \in 1..(first - 1) : ~Fits(r, cap, i)
                /\ s = [chunks |-> SubSeq(r.chunks, first, n), total |-> r.total]
          \/ /\ cap < r.total
             /\ \A i \in 1..n : ~Fits(r, cap, i)
             /\ s = [chunks |-> << [at |-> r.total - cap, bytes |-> cap] >>, total |-> r.total]
      BY <1>0, <2>1, TrimCases DEF Retained
    <2>3. ASSUME NEW first \in 1..n, Fits(r, cap, first),
                 \A i \in 1..(first - 1) : ~Fits(r, cap, i),
                 s = [chunks |-> SubSeq(r.chunks, first, n), total |-> r.total]
          PROVE  /\ Ordered(s) /\ s.total = r.total
                 /\ \A c \in Nat : c <= r.total /\ AtBoundary(r, c) =>
                       /\ AtBoundary(s, c)
                       /\ r.total - c <= cap => Earliest(s) <= c
      <3> HIDE DEF s
      <3>1. /\ Ordered(s) /\ s.total = r.total /\ Earliest(s) = r.chunks[first].at
            /\ \A k \in first..n : \E i \in 1..Len(s.chunks) : s.chunks[i].at = r.chunks[k].at
        <4>1. s = [chunks |-> SubSeq(r.chunks, first, n), total |-> r.total]
          BY <2>3
        <4>2. first \in 1..n
          OBVIOUS
        <4>3. IsTailOf(s, r, first)
          BY <1>0, <4>1, <4>2, TailOfChunks
        <4> QED
          BY <1>0, <4>3 DEF IsTailOf
      <3>2. ASSUME NEW c \in Nat, c <= r.total, AtBoundary(r, c)
            PROVE  /\ AtBoundary(s, c)
                   /\ r.total - c <= cap => Earliest(s) <= c
        <4>1. CASE c = r.total
          BY <1>0, <3>1, <4>1, <2>1 DEF AtBoundary, Ordered
        <4>2. CASE c <= Earliest(r)
          BY <1>0, <3>1, <4>2, <2>1 DEF AtBoundary, Ordered
        <4>3. ASSUME NEW k \in 1..n, r.chunks[k].at = c
              PROVE  /\ AtBoundary(s, c)
                     /\ r.total - c <= cap => Earliest(s) <= c
          <5>1. CASE k < first
            <6>1. k \in 1..(first - 1) /\ k \in 1..first
              BY <5>1, <2>1
            <6>2. ~(r.total - c <= cap)
              BY <2>3, <4>3, <6>1 DEF Fits
            <6>3. c <= Earliest(s)
              BY <1>0, <3>1, <4>3, <6>1 DEF Ordered
            <6> QED
              BY <6>2, <6>3 DEF AtBoundary
          <5>2. CASE first <= k
            <6>1. k \in first..n /\ first \in 1..k
              BY <5>2, <2>1
            <6> QED
              BY <1>0, <3>1, <4>3, <6>1 DEF Ordered, AtBoundary
          <5> QED
            BY <5>1, <5>2, <2>1
        <4> QED
          BY <1>0, <3>2, <4>1, <4>2, <4>3 DEF AtBoundary
      <3> QED
        BY <3>1, <3>2
    <2>4. ASSUME \A i \in 1..n : ~Fits(r, cap, i), cap < r.total,
                 s = [chunks |-> << [at |-> r.total - cap, bytes |-> cap] >>, total |-> r.total]
          PROVE  /\ Ordered(s) /\ s.total = r.total
                 /\ \A c \in Nat : c <= r.total /\ AtBoundary(r, c) =>
                       /\ AtBoundary(s, c)
                       /\ r.total - c <= cap => Earliest(s) <= c
      <3> HIDE DEF s
      <3>1. Ordered(s) /\ s.total = r.total /\ Earliest(s) = r.total - cap
        BY <2>4, TailOfOne
      <3>2. ASSUME NEW c \in Nat, c <= r.total, AtBoundary(r, c)
            PROVE  /\ AtBoundary(s, c)
                   /\ r.total - c <= cap => Earliest(s) <= c
        <4>1. CASE c = r.total
          BY <3>1, <4>1, <2>1 DEF AtBoundary
        <4>2. CASE c <= Earliest(r)
          BY <3>1, <4>2, <2>1, <2>4 DEF AtBoundary
        <4>3. ASSUME NEW k \in 1..n, r.chunks[k].at = c
              PROVE  /\ AtBoundary(s, c)
                     /\ r.total - c <= cap => Earliest(s) <= c
          <5>1. ~(r.total - c <= cap)
            BY <2>4, <4>3 DEF Fits
          <5> QED
            BY <3>1, <5>1, <2>1 DEF AtBoundary
        <4> QED
          BY <1>0, <3>2, <4>1, <4>2, <4>3 DEF AtBoundary
      <3> QED
        BY <3>1, <3>2
    <2>5. /\ Ordered(s) /\ s.total = r.total
          /\ \A c \in Nat : c <= r.total /\ AtBoundary(r, c) =>
                /\ AtBoundary(s, c)
                /\ r.total - c <= cap => Earliest(s) <= c
      <3> HIDE DEF s
      <3> QED
        BY <2>2, <2>3, <2>4, Zenon
    <2> QED
      BY <2>5
  <1> QED
    BY <1>1, <1>2

\* Appending moves the end and keeps every cursor at a boundary.
LEMMA PutKeeps ==
    ASSUME NEW r, Ordered(r), NEW bytes \in Nat, NEW cap \in Nat
    PROVE  /\ Ordered(Put(r, bytes, cap)) /\ Put(r, bytes, cap).total = r.total + bytes
           /\ \A c \in Nat : c <= r.total /\ AtBoundary(r, c) =>
                 AtBoundary(Put(r, bytes, cap), c)
  <1> DEFINE new == [at |-> r.total, bytes |-> bytes]
             n == Len(r.chunks)
             s == [chunks |-> Append(r.chunks, new), total |-> r.total + bytes]
  <1>1. CASE bytes = 0
    BY <1>1, OrderedFacts DEF Put
  <1>2. CASE bytes # 0
    <2>1. /\ r.chunks \in Seq([at : Nat, bytes : Nat]) /\ r.total \in Nat /\ n \in Nat
          /\ \A k \in 1..n : r.chunks[k] \in [at : Nat, bytes : Nat]
      BY OrderedFacts
    <2>2. new \in [at : Nat, bytes : Nat] /\ new.at = r.total
      BY <2>1
    <2> HIDE DEF new
    <2>3. /\ Append(r.chunks, new) \in Seq([at : Nat, bytes : Nat])
          /\ Len(Append(r.chunks, new)) = n + 1
          /\ \A k \in 1..n : Append(r.chunks, new)[k] = r.chunks[k]
          /\ Append(r.chunks, new)[n + 1] = new
      BY <2>1, <2>2, AppendProperties
    <2>4. s \in Rings /\ s.chunks = Append(r.chunks, new) /\ s.total = r.total + bytes
      BY <2>1, <2>3 DEF Rings
    <2> HIDE DEF s
    <2>a. /\ n \in Nat /\ r.total \in Nat /\ s.total = r.total + bytes
          /\ \A k \in 1..n : /\ r.chunks[k].at \in Nat /\ r.chunks[k].at <= r.total
                             /\ \A i \in 1..k : r.chunks[i].at <= r.chunks[k].at
      BY <2>1, <2>4 DEF Ordered
    <2>b. /\ Len(s.chunks) = n + 1
          /\ \A k \in 1..n : s.chunks[k].at = r.chunks[k].at
          /\ s.chunks[n + 1].at = r.total
      BY <2>2, <2>3, <2>4
    <2>c. AtBoundary(r, r.total) /\ \A c : AtBoundary(r, c) =>
            c = r.total \/ c <= Earliest(r) \/ \E k \in 1..n : r.chunks[k].at = c
      BY DEF AtBoundary
    <2>d. n = Len(r.chunks)
      OBVIOUS
    <2> HIDE DEF n
    <2>5. Ordered(s)
      <3>1. ASSUME NEW k \in 1..(n + 1)
            PROVE  /\ s.chunks[k].at <= s.total
                   /\ \A i \in 1..k : s.chunks[i].at <= s.chunks[k].at
        <4>1. CASE k \in 1..n
          <5>1. \A i \in 1..k : i \in 1..n
            BY <4>1, <2>a
          <5>2. \A i \in 1..k : s.chunks[i].at <= s.chunks[k].at
            BY <4>1, <5>1, <2>a, <2>b
          <5>3. s.chunks[k].at <= s.total
            <6>1. r.chunks[k].at \in Nat /\ r.chunks[k].at <= r.total
              BY <4>1, <2>a
            <6>2. s.chunks[k].at = r.chunks[k].at
              BY <4>1, <2>b
            <6>3. r.total \in Nat /\ s.total = r.total + bytes
              BY <2>a
            <6> QED
              BY <6>1, <6>2, <6>3
          <5> QED
            BY <5>2, <5>3
        <4>2. CASE k = n + 1
          <5>1. \A i \in 1..k : i \in 1..n \/ i = n + 1
            BY <4>2, <2>a
          <5> QED
            BY <4>2, <5>1, <2>a, <2>b
        <4> QED
          BY <4>1, <4>2, <2>a
      <3> QED
        BY <2>4, <2>b, <3>1 DEF Ordered
    <2>6. ASSUME NEW c \in Nat, c <= r.total, AtBoundary(r, c)
          PROVE  AtBoundary(s, c) /\ c <= s.total
      <3>1. CASE c = r.total
        BY <3>1, <2>a, <2>b DEF AtBoundary
      <3>2. ASSUME NEW k \in 1..n, r.chunks[k].at = c
            PROVE  AtBoundary(s, c) /\ c <= s.total
        <4>1. k \in 1..Len(s.chunks) /\ s.chunks[k].at = c
          BY <3>2, <2>a, <2>b
        <4> QED
          BY <4>1, <2>6, <2>a DEF AtBoundary
      <3>3. CASE c <= Earliest(r)
        <4>1. CASE r.chunks = << >>
          <5>1. Earliest(r) = r.total /\ n = 0
            BY <4>1, <2>d DEF Earliest
          <5>2. Len(s.chunks) # 0
            BY <2>a, <2>b
          <5>3. s.chunks # << >>
            BY <5>2
          <5>4. Earliest(s) = r.total
            BY <5>1, <5>3, <2>5, <2>b, OrderedFacts
          <5> QED
            BY <3>3, <5>1, <5>4, <2>6, <2>a DEF AtBoundary
        <4>2. CASE r.chunks # << >>
          <5>1. n # 0 /\ Earliest(r) = r.chunks[1].at
            BY <4>2, <2>d, OrderedFacts
          <5>2. Len(s.chunks) # 0 /\ s.chunks[1].at = r.chunks[1].at
            BY <5>1, <2>a, <2>b
          <5>3. s.chunks # << >>
            BY <5>2
          <5>4. Earliest(s) = Earliest(r)
            BY <5>1, <5>2, <5>3, <2>5, OrderedFacts
          <5> QED
            BY <3>3, <5>4, <2>6, <2>a DEF AtBoundary
        <4> QED
          BY <4>1, <4>2
      <3> QED
        BY <3>1, <3>2, <3>3, <2>6, <2>c
    <2>7. Put(r, bytes, cap) = Trim(s, cap)
      BY <1>2 DEF Put, s, new
    <2> QED
      BY <2>4, <2>5, <2>6, <2>7, TrimKeeps
  <1> QED
    BY <1>1, <1>2

-----------------------------------------------------------------------------
(* The pump                                                                  *)

PumpTyped ==
    /\ source \in [Jobs -> Nat] /\ pumped \in [Jobs -> Nat]
    /\ pump \in [Jobs -> {"none", "polling", "done"}]

\* The pump's cursor stays within its source.
WithinSource == \A j \in Jobs : pumped[j] <= source[j]

\* A settlement of the producer's finds no pump at work ...
SettledUnpumped ==
    \A j \in Jobs : announced[j] \in {"producer", "kill"} =>
                       pump[j] # "polling" /\ outcome[j] # "pending"

\* ... and a pump that is done, unless a failing teardown cut it short, has taken all
\* that its source will ever produce.
DoneIsDrained ==
    \A j \in Jobs : pump[j] = "done" /\ announced[j] # "teardown" =>
                       outcome[j] # "pending" /\ pumped[j] = source[j]

Feed == PumpTyped /\ WithinSource /\ SettledUnpumped /\ DoneIsDrained

feedVars == <<source, pumped, pump, outcome, announced>>

\* Nothing was produced or pumped.
LEMMA FeedInit == Init => Feed
  BY DEF Init, Feed, PumpTyped, WithinSource, SettledUnpumped, DoneIsDrained

\* Steps that touch neither sources nor pumps nor settlements keep it.
LEMMA FeedFrame == Feed /\ UNCHANGED feedVars => Feed'
  BY DEF Feed, feedVars, PumpTyped, WithinSource, SettledUnpumped, DoneIsDrained

\* A registered job starts with an empty source and its pump polling.
LEMMA RegisterKeepsFeed ==
    ASSUME Telling, Feed, NEW j \in Jobs, Register(j)
    PROVE  Feed'
  <1>1. announced[j] = "none"
    BY DEF Register, Telling, AnnouncedAtEnd, IsTerminal, Terminal
  <1>2. /\ UNCHANGED <<source, pumped, outcome, announced>>
        /\ pump' = [pump EXCEPT ![j] = IF j \in PullJobs THEN "polling" ELSE "none"]
    BY DEF Register
  <1>3. /\ pump' \in [Jobs -> {"none", "polling", "done"}] /\ pump'[j] # "done"
        /\ \A i \in Jobs \ {j} : pump'[i] = pump[i]
    BY <1>2 DEF Feed, PumpTyped
  <1> QED
    BY <1>1, <1>2, <1>3 DEF Feed, PumpTyped, WithinSource, SettledUnpumped, DoneIsDrained

\* The pump takes what its source produced, and ends when there is no more.
LEMMA PumpKeepsFeed ==
    ASSUME Telling, Feed, NEW j \in Jobs, SourceGrows(j) \/ PumpPolls(j) \/ PumpFinishes(j)
    PROVE  Feed'
  <1> USE DEF Feed, PumpTyped, WithinSource, SettledUnpumped, DoneIsDrained
  <1>1. CASE SourceGrows(j)
    <2>1. /\ UNCHANGED <<pumped, pump, outcome, announced>>
          /\ source' = [source EXCEPT ![j] = @ + 1] /\ outcome[j] = "pending"
      BY <1>1 DEF SourceGrows, lifeVars
    <2>2. source' \in [Jobs -> Nat] /\ \A i \in Jobs : source'[i] = source[i] \/ source'[i] = source[i] + 1
      BY <2>1
    <2>3. \A i \in Jobs \ {j} : source'[i] = source[i]
      BY <2>1
    <2> QED
      BY <2>1, <2>2, <2>3
  <1>2. CASE PumpPolls(j)
    <2>1. /\ UNCHANGED <<source, pump, outcome, announced>>
          /\ pumped' = [pumped EXCEPT ![j] = source[j]]
      BY <1>2 DEF PumpPolls, Drain, lifeVars
    <2>2. pumped' \in [Jobs -> Nat] /\ pumped'[j] = source[j] /\ \A i \in Jobs \ {j} : pumped'[i] = pumped[i]
      BY <2>1
    <2> QED
      BY <2>1, <2>2
  <1>3. CASE PumpFinishes(j)
    <2>1. /\ UNCHANGED <<source, outcome, announced>>
          /\ pumped' = [pumped EXCEPT ![j] = source[j]]
          /\ pump' = [pump EXCEPT ![j] = "done"] /\ pump[j] = "polling"
          /\ outcome[j] # "pending" \/ IsTerminal(j)
      BY <1>3 DEF PumpFinishes, Drain, lifeVars
    <2>2. /\ pumped' \in [Jobs -> Nat] /\ pumped'[j] = source[j]
          /\ \A i \in Jobs \ {j} : pumped'[i] = pumped[i] /\ pump'[i] = pump[i]
          /\ pump' \in [Jobs -> {"none", "polling", "done"}] /\ pump'[j] = "done"
      BY <2>1
    <2>3. outcome[j] # "pending" \/ announced[j] = "teardown"
      BY <2>1 DEF Telling, TellTyped, AnnouncedAtEnd
    <2> QED
      BY <2>1, <2>2, <2>3
  <1> QED
    BY <1>1, <1>2, <1>3

\* A producer ends: it produces no more.
LEMMA ProducerKeepsFeed ==
    ASSUME Telling, Feed, NEW j \in Jobs, NEW o \in Outcomes, ProducerEnds(j, o)
    PROVE  Feed'
  <1>1. /\ UNCHANGED <<source, pumped, pump, announced>> /\ o # "pending"
        /\ outcome' = [outcome EXCEPT ![j] = o] /\ outcome[j] = "pending"
    BY CapsAssumption DEF ProducerEnds, lifeVars, Terminal
  <1>2. \A i \in Jobs : outcome[i] # "pending" => outcome'[i] # "pending"
    BY <1>1 DEF Telling, TellTyped
  <1> QED
    BY <1>1, <1>2 DEF Feed, PumpTyped, WithinSource, SettledUnpumped, DoneIsDrained

\* The producer's outcome is committed once the pump has drained.
LEMMA SettleKeepsFeed ==
    ASSUME Telling, Feed, NEW j \in Jobs, SettleByProducer(j)
    PROVE  Feed'
  <1>1. /\ UNCHANGED <<source, pumped, pump, outcome>>
        /\ outcome[j] # "pending" /\ pump[j] # "polling" /\ announced[j] = "none"
        /\ \A i \in Jobs \ {j} : announced'[i] = announced[i]
    BY DEF SettleByProducer, Settle, jobVars, Telling, AnnouncedAtEnd, IsLive, IsTerminal, Live, Terminal
  <1> QED
    BY <1>1 DEF Feed, PumpTyped, WithinSource, SettledUnpumped, DoneIsDrained

\* A teardown marks the jobs it cuts short.
LEMMA TeardownKeepsFeed ==
    ASSUME Telling, Feed, NEW S \in SUBSET Jobs, NEW F \in SUBSET Jobs, CancelForTeardown(S, F),
           UNCHANGED <<source, pumped, pump, outcome>>
    PROVE  Feed'
  <1>1. \A i \in Jobs : announced'[i] = announced[i] \/ announced'[i] = "teardown"
    BY DEF CancelForTeardown, Settle
  <1>2. \A i \in Jobs : announced[i] = "teardown" => announced'[i] = "teardown"
    BY <1>1
  <1> QED
    BY <1>1, <1>2 DEF Feed, PumpTyped, WithinSource, SettledUnpumped, DoneIsDrained

\* No other action touches it.
LEMMA OthersKeepFeed ==
    ASSUME Feed, NEW j, NEW c,
           \/ StarterThrows \/ AgentUnloads \/ AgentDrops \/ AgentLeaves \/ ServiceStops
           \/ \E bytes \in 1..MaxChunk : Push(j, bytes)
           \/ ModelKills(j) \/ HumanKills(j) \/ OutputReads(j)
           \/ OutputWaits(c, j) \/ OutputReturns(c) \/ WaitTimesOut(c) \/ WaitAborts(c)
           \/ BashCollects(c) \/ BashPromotes(c) \/ BashStops(c) \/ BashGivesUp(c)
           \/ UNCHANGED vars
    PROVE  Feed'
  <1>1. UNCHANGED feedVars
    <2>1. CASE \/ StarterThrows \/ AgentUnloads \/ AgentDrops \/ AgentLeaves \/ ServiceStops
               \/ \E bytes \in 1..MaxChunk : Push(j, bytes)
               \/ ModelKills(j) \/ HumanKills(j) \/ OutputReads(j) \/ UNCHANGED vars
      BY <2>1 DEF feedVars, StarterThrows, AgentUnloads, AgentDrops, AgentLeaves, ServiceStops, Push,
                  ModelKills, HumanKills, OutputReads, jobVars, lifeVars, vars
    <2>2. CASE \/ OutputWaits(c, j) \/ OutputReturns(c) \/ WaitTimesOut(c) \/ WaitAborts(c)
               \/ BashCollects(c) \/ BashPromotes(c) \/ BashStops(c) \/ BashGivesUp(c)
      BY <2>2 DEF feedVars, OutputWaits, OutputReturns, WaitTimesOut, WaitAborts, BashCollects,
                  BashPromotes, BashStops, BashGivesUp, jobVars, lifeVars
    <2> QED
      BY <2>1, <2>2
  <1> QED
    BY <1>1, FeedFrame

\* Every step keeps it.
LEMMA FeedStep == Telling /\ Feed /\ [Next]_vars => Feed'
  <1> SUFFICES ASSUME Telling, Feed, [Next]_vars PROVE Feed'
    OBVIOUS
  <1>1. ASSUME NEW j \in Jobs, JobStep(j) PROVE Feed'
    <2>1. CASE StartBackground(j) \/ StartLate(j)
      BY <2>1, RegisterKeepsFeed DEF StartBackground, StartLate
    <2> QED
      BY <1>1, <2>1, PumpKeepsFeed, ProducerKeepsFeed, SettleKeepsFeed, OthersKeepFeed DEF JobStep
  <1>2. ASSUME NEW c \in Calls, CallStep(c) PROVE Feed'
    <2>1. ASSUME NEW j \in Jobs, BashStarts(c, j) PROVE Feed'
      BY <2>1, RegisterKeepsFeed DEF BashStarts
    <2> QED
      BY <1>2, <2>1, OthersKeepFeed DEF CallStep
  <1>3. ASSUME NEW F \in SUBSET Jobs, AgentCleans(F) \/ ServiceDrains(F) PROVE Feed'
    <2>1. PICK S \in SUBSET Jobs : CancelForTeardown(S, F)
      BY <1>3 DEF AgentCleans, ServiceDrains, Telling, TellTyped
    <2>2. UNCHANGED <<source, pumped, pump, outcome>>
      BY <1>3 DEF AgentCleans, ServiceDrains
    <2> QED
      BY <2>1, <2>2, TeardownKeepsFeed
  <1> QED
    BY <1>1, <1>2, <1>3, OthersKeepFeed DEF Next

-----------------------------------------------------------------------------
(* The ring                                                                  *)

\* A ring with a cursor of a reader that reads to the end whenever it reads.
RingOK(r, cursor) ==
    /\ Ordered(r)
    /\ cursor \in Nat /\ cursor <= r.total /\ AtBoundary(r, cursor)

Output ==
    /\ ring \in [Jobs -> Rings] /\ modelCursor \in [Jobs -> Nat]
    /\ \A j \in Jobs : RingOK(ring[j], modelCursor[j])

\* A job's ring stays one, and if the job is settled it drops nothing unread.
RingStep(j) ==
    /\ RingOK(ring'[j], modelCursor'[j])
    /\ IsTerminal(j)' => \/ Earliest(ring'[j]) = Earliest(ring[j])
                         \/ Earliest(ring'[j]) <= modelCursor'[j]

OutputGoes == /\ ring' \in [Jobs -> Rings] /\ modelCursor' \in [Jobs -> Nat]
              /\ \A j \in Jobs : RingStep(j)

\* The rings are empty and the cursors at their start.
LEMMA OutputInit == Init => Output
  <1> SUFFICES ASSUME Init PROVE Output
    OBVIOUS
  <1>1. EmptyRing \in Rings /\ EmptyRing.total = 0 /\ Len(EmptyRing.chunks) = 0
    BY DEF EmptyRing, Rings
  <1>2. RingOK(EmptyRing, 0)
    BY <1>1 DEF RingOK, Ordered, AtBoundary
  <1> HIDE DEF EmptyRing
  <1> QED
    BY <1>1, <1>2 DEF Init, Output

\* Steps that touch neither rings nor cursors keep it.
LEMMA OutputFrame ==
    ASSUME Output, UNCHANGED <<ring, modelCursor>>
    PROVE  OutputGoes
  BY DEF Output, OutputGoes, RingStep

\* A trim keeps what is unread, if the cap has room for it.
LEMMA TrimmedToUnread ==
    ASSUME NEW r, NEW c, RingOK(r, c), NEW cap \in Nat
    PROVE  /\ RingOK(Trim(r, cap), c)
           /\ r.total - c <= cap => \/ Earliest(Trim(r, cap)) = Earliest(r)
                                    \/ Earliest(Trim(r, cap)) <= c
  BY TrimKeeps DEF RingOK

\* After a read to the end no trim can drop anything unread.
LEMMA ReadToTheEnd ==
    ASSUME NEW r, NEW c, RingOK(r, c), NEW cap \in Nat
    PROVE  /\ RingOK(r, r.total)
           /\ RingOK(Trim(r, cap), r.total)
           /\ Earliest(Trim(r, cap)) <= r.total
  <1>1. r.total \in Nat
    BY OrderedFacts DEF RingOK
  <1>2. AtBoundary(r, r.total)
    BY DEF AtBoundary
  <1>3. RingOK(r, r.total)
    BY <1>1, <1>2 DEF RingOK
  <1>4. Ordered(Trim(r, cap)) /\ Trim(r, cap).total = r.total
    BY TrimKeeps DEF RingOK
  <1>5. Earliest(Trim(r, cap)) <= Trim(r, cap).total
    BY <1>4, OrderedFacts
  <1> QED
    BY <1>3, <1>4, <1>5, TrimmedToUnread

\* One job's ring and cursor change, the others stay.
LEMMA OneRingGoes ==
    ASSUME Output, NEW j \in Jobs, NEW r, NEW c,
           ring' = [ring EXCEPT ![j] = r], modelCursor' = [modelCursor EXCEPT ![j] = c],
           RingOK(r, c),
           IsTerminal(j)' => Earliest(r) = Earliest(ring[j]) \/ Earliest(r) <= c
    PROVE  OutputGoes
  <1>1. r \in Rings /\ c \in Nat
    BY DEF RingOK, Ordered
  <1>2. /\ ring' \in [Jobs -> Rings] /\ modelCursor' \in [Jobs -> Nat]
        /\ ring'[j] = r /\ modelCursor'[j] = c
        /\ \A i \in Jobs \ {j} : ring'[i] = ring[i] /\ modelCursor'[i] = modelCursor[i]
    BY <1>1 DEF Output
  <1>3. RingStep(j)
    BY <1>2 DEF RingStep
  <1>4. \A i \in Jobs \ {j} : RingStep(i)
    BY <1>2 DEF RingStep, Output
  <1> QED
    BY <1>2, <1>3, <1>4 DEF OutputGoes

\* Output that is appended to a live job.
LEMMA AppendingGoes ==
    ASSUME Telling, Feed, Output, NEW j \in Jobs,
           \/ \E bytes \in 1..MaxChunk : Push(j, bytes)
           \/ PumpPolls(j) \/ PumpFinishes(j)
    PROVE  OutputGoes
  <1>1. PICK bytes \in Nat : ring' = [ring EXCEPT ![j] = Appended(j, bytes)]
    <2>1. source[j] - pumped[j] \in Nat
      BY DEF Feed, PumpTyped, WithinSource
    <2>2. CASE \E bytes \in 1..MaxChunk : Push(j, bytes)
      <3>1. PICK n \in 1..MaxChunk : Push(j, n)
        BY <2>2
      <3>2. n \in Nat
        BY CapsAssumption
      <3> QED
        BY <3>1, <3>2 DEF Push
    <2>3. CASE PumpPolls(j) \/ PumpFinishes(j)
      <3>1. ring' = [ring EXCEPT ![j] = Appended(j, source[j] - pumped[j])]
        BY <2>3 DEF PumpPolls, PumpFinishes, Drain
      <3> HIDE DEF Appended
      <3> QED
        BY <2>1, <3>1
    <2> QED
      BY <2>2, <2>3
  <1>2. UNCHANGED <<status, modelCursor>>
    BY DEF Push, PumpPolls, PumpFinishes, lifeVars
  <1>3. RingOK(ring[j], modelCursor[j])
    BY DEF Output
  <1>4. RingOK(Appended(j, bytes), modelCursor[j])
    <2>1. LiveCap \in Nat
      BY CapsAssumption
    <2>2. CASE IsTerminal(j)
      BY <1>3, <2>2 DEF Appended
    <2>3. CASE ~IsTerminal(j)
      <3>1. /\ Ordered(Put(ring[j], bytes, LiveCap))
            /\ Put(ring[j], bytes, LiveCap).total = ring[j].total + bytes
            /\ AtBoundary(Put(ring[j], bytes, LiveCap), modelCursor[j])
        BY <1>3, <2>1, PutKeeps DEF RingOK
      <3>2. ring[j].total \in Nat
        BY <1>3, OrderedFacts DEF RingOK
      <3> QED
        BY <1>3, <2>3, <3>1, <3>2 DEF Appended, RingOK
    <2> QED
      BY <2>2, <2>3
  <1>5. IsTerminal(j)' => Earliest(Appended(j, bytes)) = Earliest(ring[j])
    BY <1>2 DEF IsTerminal, Appended
  <1>6. modelCursor' = [modelCursor EXCEPT ![j] = modelCursor[j]]
    BY <1>2 DEF Output
  <1> QED
    BY <1>1, <1>4, <1>5, <1>6, OneRingGoes

\* A consuming read, whether the job is settled or not.
LEMMA ReadingGoes ==
    ASSUME Output, NEW j \in Jobs, Read(j), UNCHANGED status
    PROVE  OutputGoes
  <1> DEFINE r == IF IsTerminal(j) THEN Trim(ring[j], SettledCap) ELSE ring[j]
  <1>1. /\ ring' = [ring EXCEPT ![j] = r]
        /\ modelCursor' = [modelCursor EXCEPT ![j] = ring[j].total]
    BY DEF Read
  <1>2. RingOK(ring[j], modelCursor[j]) /\ SettledCap \in Nat
    BY CapsAssumption DEF Output
  <1>3. RingOK(r, ring[j].total)
    BY <1>2, ReadToTheEnd
  <1>4. Earliest(r) = Earliest(ring[j]) \/ Earliest(r) <= ring[j].total
    BY <1>2, ReadToTheEnd
  <1> HIDE DEF r
  <1> QED
    BY <1>1, <1>3, <1>4, OneRingGoes

\* A settlement leaves room for all that is unread.
LEMMA SettlingGoes ==
    ASSUME Output, NEW S \in SUBSET Jobs, NEW cause, Settle(S, cause), UNCHANGED modelCursor
    PROVE  OutputGoes
  <1>1. ASSUME NEW j \in Jobs PROVE ring'[j] \in Rings /\ RingStep(j)
    <2>1. RingOK(ring[j], modelCursor[j]) /\ ring[j] \in Rings /\ modelCursor'[j] = modelCursor[j]
      BY DEF Output
    <2>2. CASE j \notin S
      <3>1. ring'[j] = ring[j]
        BY <2>2 DEF Settle
      <3> QED
        BY <2>1, <3>1 DEF RingStep
    <2>3. CASE j \in S
      <3> DEFINE cap == Larger(SettledCap, ring[j].total - modelCursor[j])
      <3>1. ring'[j] = Trim(ring[j], cap)
        BY <2>3 DEF Settle
      <3>2. ring[j].total \in Nat /\ modelCursor[j] \in Nat /\ SettledCap \in Nat
        BY <2>1, CapsAssumption, OrderedFacts DEF RingOK
      <3>3. cap \in Nat /\ ring[j].total - modelCursor[j] <= cap
        BY <3>2 DEF Larger
      <3> HIDE DEF cap
      <3>4. /\ RingOK(Trim(ring[j], cap), modelCursor[j])
            /\ \/ Earliest(Trim(ring[j], cap)) = Earliest(ring[j])
               \/ Earliest(Trim(ring[j], cap)) <= modelCursor[j]
        BY <2>1, <3>3, TrimmedToUnread
      <3> QED
        BY <2>1, <3>1, <3>4 DEF RingStep, RingOK, Ordered
    <2> QED
      BY <2>2, <2>3
  <1>2. ring' \in [Jobs -> Rings]
    <2>1. DOMAIN ring' = Jobs /\ ring' = [j \in Jobs |-> ring'[j]]
      BY DEF Settle
    <2> QED
      BY <1>1, <2>1
  <1> QED
    BY <1>1, <1>2 DEF Output, OutputGoes

\* Actions of waits, kills, sources and teardowns touch neither.
LEMMA OthersKeepOutput ==
    ASSUME Output, NEW j, NEW c,
           \/ StarterThrows \/ AgentUnloads \/ AgentDrops \/ AgentLeaves \/ ServiceStops
           \/ Register(j) \/ SourceGrows(j) \/ (\E o \in Outcomes : ProducerEnds(j, o))
           \/ ModelKills(j) \/ HumanKills(j)
           \/ OutputWaits(c, j) \/ WaitTimesOut(c) \/ WaitAborts(c)
           \/ BashCollects(c) \/ BashStops(c) \/ BashGivesUp(c)
           \/ UNCHANGED vars
    PROVE  OutputGoes
  <1>1. UNCHANGED <<ring, modelCursor>>
    <2>1. CASE \/ StarterThrows \/ AgentUnloads \/ AgentDrops \/ AgentLeaves \/ ServiceStops
               \/ Register(j) \/ SourceGrows(j) \/ (\E o \in Outcomes : ProducerEnds(j, o))
               \/ ModelKills(j) \/ HumanKills(j) \/ UNCHANGED vars
      BY <2>1 DEF StarterThrows, AgentUnloads, AgentDrops, AgentLeaves, ServiceStops, Register,
                  SourceGrows, ProducerEnds, ModelKills, HumanKills, vars
    <2>2. CASE \/ OutputWaits(c, j) \/ WaitTimesOut(c) \/ WaitAborts(c)
               \/ BashCollects(c) \/ BashStops(c) \/ BashGivesUp(c)
      BY <2>2 DEF OutputWaits, WaitTimesOut, WaitAborts, BashCollects, BashStops, BashGivesUp
    <2> QED
      BY <2>1, <2>2
  <1> QED
    BY <1>1, OutputFrame

\* Every step keeps the rings and drops nothing unread.
LEMMA OutputStep == Telling /\ Feed /\ Output /\ [Next]_vars => OutputGoes
  <1> SUFFICES ASSUME Telling, Feed, Output, [Next]_vars PROVE OutputGoes
    OBVIOUS
  <1>1. ASSUME NEW j \in Jobs, JobStep(j) PROVE OutputGoes
    <2>1. CASE StartBackground(j) \/ StartLate(j)
      BY <2>1, OthersKeepOutput DEF StartBackground, StartLate
    <2>2. CASE SettleByProducer(j)
      <3>1. PICK cause : Settle({j}, cause) /\ UNCHANGED modelCursor
        BY <2>2 DEF SettleByProducer
      <3> QED
        BY <3>1, SettlingGoes
    <2>3. CASE OutputReads(j)
      BY <2>3, ReadingGoes DEF OutputReads, lifeVars
    <2> QED
      BY <1>1, <2>1, <2>2, <2>3, AppendingGoes, OthersKeepOutput DEF JobStep
  <1>2. ASSUME NEW c \in Calls, CallStep(c) PROVE OutputGoes
    <2>1. ASSUME NEW j \in Jobs, BashStarts(c, j) PROVE OutputGoes
      BY <2>1, OthersKeepOutput DEF BashStarts
    <2>2. call[c].job \in Jobs
      BY DEF Telling, TellTyped, CallRecords
    <2>3. CASE OutputReturns(c)
      BY <2>2, <2>3, ReadingGoes, OutputFrame DEF OutputReturns, lifeVars
    <2>4. CASE BashPromotes(c)
      BY <2>2, <2>4, ReadingGoes DEF BashPromotes, lifeVars
    <2> QED
      BY <1>2, <2>1, <2>3, <2>4, OthersKeepOutput DEF CallStep
  <1>3. ASSUME NEW F \in SUBSET Jobs, AgentCleans(F) \/ ServiceDrains(F) PROVE OutputGoes
    BY <1>3, SettlingGoes DEF AgentCleans, ServiceDrains, CancelForTeardown
  <1> QED
    BY <1>1, <1>2, <1>3, OthersKeepOutput DEF Next

\* Settlement and the reads after it never drop a byte the model has not read, for
\* whatever caps and chunk sizes.
THEOREM UnreadIsKept == Spec => UnreadKept
  <1>1. OutputGoes => Output'
    BY DEF OutputGoes, RingStep, Output
  <1>2. Output /\ OutputGoes =>
          \A j \in Jobs : IsTerminal(j)' /\ Earliest(ring[j]') > Earliest(ring[j]) =>
                            Earliest(ring[j]') <= modelCursor'[j]
    <2>1. ASSUME Output, NEW j \in Jobs PROVE Earliest(ring[j]) \in Nat
      BY <2>1, OrderedFacts DEF Output, RingOK
    <2> QED
      BY <2>1 DEF OutputGoes, RingStep
  <1> QED
    BY TellingInit, TellingStep, FeedInit, FeedStep, OutputInit, OutputStep, <1>1, <1>2, PTL
       DEF Spec, UnreadKept

-----------------------------------------------------------------------------
(* The remaining variables and the type invariant.                           *)

Snapshots ==
    /\ agentJobs \subseteq Jobs /\ serviceJobs \subseteq Jobs /\ killedByModel \subseteq Jobs
    /\ service \in {"up", "draining", "down"}

\* The snapshots of the two teardowns hold jobs.
LEMMA SnapshotsStep == Telling /\ Snapshots /\ [Next]_vars => Snapshots'
  <1> SUFFICES ASSUME Telling, Snapshots, [Next]_vars PROVE Snapshots'
    OBVIOUS
  <1> USE DEF Snapshots
  <1>0. store \subseteq Jobs
    BY DEF Telling, TellTyped
  <1>1. ASSUME NEW j \in Jobs, JobStep(j) PROVE Snapshots'
    BY <1>1 DEF JobStep, StartBackground, StartLate, Register, Push, SourceGrows, PumpPolls, PumpFinishes,
                ProducerEnds, SettleByProducer, Settle, ModelKills, HumanKills, OutputReads,
                agentVars, serviceVars
  <1>2. ASSUME NEW c \in Calls, CallStep(c) PROVE Snapshots'
    BY <1>2 DEF CallStep, OutputWaits, BashStarts, Register, OutputReturns, WaitTimesOut, WaitAborts,
                BashCollects, BashPromotes, BashStops, BashGivesUp, Drop, agentVars, serviceVars
  <1>3. ASSUME NEW F \in SUBSET Jobs, AgentCleans(F) \/ ServiceDrains(F) PROVE Snapshots'
    BY <1>0, <1>3 DEF AgentCleans, ServiceDrains, CancelForTeardown, Settle, agentVars, serviceVars
  <1>4. CASE \/ StarterThrows \/ AgentUnloads \/ AgentDrops \/ AgentLeaves \/ ServiceStops
             \/ UNCHANGED vars
    BY <1>4 DEF StarterThrows, AgentUnloads, AgentDrops, AgentLeaves, ServiceStops, Drop,
                agentVars, serviceVars, vars
  <1> QED
    BY <1>1, <1>2, <1>3, <1>4 DEF Next

\* Every variable has its type, and a settlement the producer brought about carries
\* all that its pull source produced.
THEOREM OutputIsComplete == Spec => []OutputComplete
  <1>1. Init => Snapshots
    BY DEF Init, Snapshots
  <1>2. OutputGoes => Output'
    BY DEF OutputGoes, RingStep, Output
  <1>3. Ledger /\ Telling /\ Feed /\ Output /\ Snapshots => OutputComplete
    <2> SUFFICES ASSUME Ledger, Telling, Feed, Output, Snapshots PROVE OutputComplete
      OBVIOUS
    <2>1. TypeOK
      BY DEF TypeOK, Ledger, Telling, TellTyped, Phases, Live, Terminal, Feed, PumpTyped, Output, Snapshots
    <2>2. ASSUME NEW j \in Jobs, announced[j] \in {"producer", "kill"}, pump[j] # "none"
          PROVE  pumped[j] = source[j]
      BY <2>2 DEF Feed, PumpTyped, SettledUnpumped, DoneIsDrained
    <2> QED
      BY <2>1, <2>2 DEF OutputComplete
  <1> QED
    BY LedgerInit, LedgerStep, TellingInit, TellingStep, FeedInit, FeedStep, OutputInit, OutputStep,
       SnapshotsStep, <1>1, <1>2, <1>3, PTL DEF Spec
=============================================================================
