--------------------------- MODULE AgentLifecycle ---------------------------
(***************************************************************************)
(* The agent factory (core/agent-loop/src/index.ts): attempts to create or *)
(* resume an agent under ONE session id, their rollback, and the teardown  *)
(* that the handle's holder, the owner's fiber and the factory's own       *)
(* unload race for; with the two registries (core/agent, core/session),    *)
(* the write claim of the persistence backend and the agent's scope.       *)
(* An action runs from one await of the code to the next.                  *)
(* Left out: preset and event contents, `parentAgent`, the loop's          *)
(* config-driven starts, and work sent to an agent being disposed, which   *)
(* the code calls the sender's bug.                                        *)
(***************************************************************************)
EXTENDS Naturals, FiniteSets

CONSTANTS Attempts,   \* calls of createAgent and resume on the session id
          Resumes,    \* those that resume
          Signalled,  \* those whose caller passes an abort signal
          MaxCalls,   \* bound: calls made
          NoOne

ASSUME AttemptsAssumption ==
    /\ Resumes \subseteq Attempts /\ Signalled \subseteq Attempts
    /\ NoOne \notin Attempts /\ MaxCalls \in Nat

VARIABLES
    life,      \* each attempt: its stage, driver, scope, handle, teardown and owner
    sessions,  \* the occupant of the id in the session store
    agents,    \* ... and in the agent registry
    claim,     \* the attempt whose handle holds the session's write path
    factory,   \* "up", "unloading" or "down"
    mounted    \* whether a persistence backend is mounted

vars == <<life, sessions, agents, claim, factory, mounted>>

Lives == [pc : {"new", "opening", "reading", "repairing", "opened", "closing", "setup",
                "storing", "announcing", "ready", "rollback", "failed"},
          aborted : BOOLEAN,                                  \* the caller's signal
          machine : {"none", "maintenance", "idle", "running"},
          scope : {"none", "open", "unwinding", "gone"},
          handle : {"none", "pending", "open", "closing", "closed"},
          disposal : {"none", "stopping", "unwinding", "closing", "done"},
          told : {"nothing", "created", "disposed"},          \* what listeners were told
          owner : {"active", "unloading", "gone"},
          waits : {"nothing", "disposal", "scope"}]           \* what the owner's unload awaits

TypeOK ==
    /\ life \in [Attempts -> Lives]
    /\ {sessions, agents, claim} \subseteq Attempts \union {NoOne}
    /\ factory \in {"up", "unloading", "down"}
    /\ mounted \in BOOLEAN

Init ==
    /\ life = [a \in Attempts |->
                 [pc |-> "new", aborted |-> FALSE, machine |-> "none", scope |-> "none",
                  handle |-> "none", disposal |-> "none", told |-> "nothing",
                  owner |-> "active", waits |-> "nothing"]]
    /\ sessions = NoOne /\ agents = NoOne /\ claim = NoOne
    /\ factory = "up"
    /\ mounted \in BOOLEAN

-----------------------------------------------------------------------------
\* Mutant of Fused: a resume follows its caller only, as a create does.
FusedByCaller(a) == life[a].aborted

\* The signal an open races: a create follows its caller only, a resume also
\* its owner and the factory.
Fused(a) ==
    \/ life[a].aborted
    \/ a \in Resumes /\ (life[a].owner # "active" \/ factory # "up")

\* The signal of a prepared attempt.
Aborted(a) == life[a].aborted \/ factory # "up" \/ life[a].disposal # "none"

\* Prepared, and its teardown not over.
Tracked(l) == l.scope # "none" /\ l.disposal # "done"

\* The memoized `dispose`, `rawDispose` of the scope, `close` of the handle.
Dispose(l) == IF l.disposal = "none" THEN [l EXCEPT !.disposal = "stopping"] ELSE l
Unwind(l) == IF l.scope = "open" THEN [l EXCEPT !.scope = "unwinding"] ELSE l
Close(l) == IF l.handle = "open" THEN [l EXCEPT !.handle = "closing"] ELSE l

\* A stage of a prepared attempt throws: the maintenance phase ends, the
\* caller's rollback joins or starts the disposal.
Failing(l) == Dispose([l EXCEPT !.pc = "rollback", !.machine = "idle"])

Registries == <<sessions, agents>>
Rest == <<factory, mounted>>

-----------------------------------------------------------------------------
(* Acquiring the session                                                   *)

\* A live owner calls a live factory.
Calls(a) ==
    /\ life[a].pc = "new" /\ life[a].owner = "active" /\ factory = "up"
    /\ Cardinality({b \in Attempts : life[b].pc # "new"}) < MaxCalls

\* The store's `prepare` rejects an id that is taken; nothing else looks yet.
CreateAgent(a) ==
    /\ a \in Attempts \ Resumes /\ Calls(a)
    /\ life' = [life EXCEPT ![a].pc = IF sessions = NoOne THEN "opening" ELSE "failed"]
    /\ UNCHANGED <<Registries, claim, Rest>>

Resume(a) ==
    /\ a \in Resumes /\ mounted /\ Calls(a)
    /\ life' = [life EXCEPT ![a].pc = "opening"]
    /\ UNCHANGED <<Registries, claim, Rest>>

OpenSucceeds(a) ==
    /\ life[a].pc = "opening" /\ ~Fused(a)
    /\ IF mounted
         THEN /\ claim = NoOne
              /\ claim' = a
              /\ life' = [life EXCEPT ![a] =
                     [@ EXCEPT !.pc = IF a \in Resumes THEN "reading" ELSE "opened",
                               !.handle = "open"]]
         ELSE /\ life' = [life EXCEPT ![a].pc = "opened"]
              /\ UNCHANGED claim
    /\ UNCHANGED <<Registries, Rest>>

OpenFails(a) ==
    /\ life[a].pc = "opening" /\ mounted
    /\ life' = [life EXCEPT ![a].pc = "failed"]
    /\ UNCHANGED <<Registries, claim, Rest>>

\* The attempt stops waiting; its open goes on and is closed when it arrives.
OpenAborted(a) ==
    /\ life[a].pc = "opening" /\ Fused(a)
    /\ life' = [life EXCEPT ![a] = [@ EXCEPT !.pc = "failed",
                                             !.handle = IF mounted THEN "pending" ELSE "none"]]
    /\ UNCHANGED <<Registries, claim, Rest>>

LateOpen(a) ==
    /\ life[a].handle = "pending"
    /\ \/ /\ claim = NoOne
          /\ claim' = a
          /\ life' = [life EXCEPT ![a].handle = "closing"]
       \/ /\ life' = [life EXCEPT ![a].handle = "none"]
          /\ UNCHANGED claim
    /\ UNCHANGED <<Registries, Rest>>

\* The cold read settles; then `fused.throwIfAborted()`.
Read(a) ==
    /\ life[a].pc = "reading"
    /\ \/ ~Fused(a) /\ life' = [life EXCEPT ![a].pc = "repairing"]
       \/ life' = [life EXCEPT ![a] = Close([@ EXCEPT !.pc = "closing"])]
    /\ UNCHANGED <<Registries, claim, Rest>>

\* The closers are appended, whatever was aborted; then the store's `prepare`.
Repair(a) ==
    /\ life[a].pc = "repairing"
    /\ \/ sessions = NoOne /\ life' = [life EXCEPT ![a].pc = "opened"]
       \/ life' = [life EXCEPT ![a] = Close([@ EXCEPT !.pc = "closing"])]
    /\ UNCHANGED <<Registries, claim, Rest>>

-----------------------------------------------------------------------------
(* Preparing and publishing the agent                                      *)

\* Owner, factory and caller are looked at again; scope, driver, the owner's
\* effect and the maintenance phase come into being together.
Prepare(a) ==
    /\ life[a].pc = "opened"
    /\ life' = [life EXCEPT ![a] =
           IF @.owner = "active" /\ factory = "up" /\ ~@.aborted
             THEN [@ EXCEPT !.pc = "setup", !.scope = "open", !.machine = "maintenance"]
             ELSE Close([@ EXCEPT !.pc = "closing"])]
    /\ UNCHANGED <<Registries, claim, Rest>>

\* An attempt that was never prepared is over when its handle is closed.
Settle(a) ==
    /\ life[a].pc = "closing" /\ life[a].handle \in {"none", "closed"}
    /\ life' = [life EXCEPT ![a].pc = "failed"]
    /\ UNCHANGED <<Registries, claim, Rest>>

SetupSettles(a) ==
    /\ life[a].pc = "setup" /\ ~Aborted(a)
    /\ life' = [life EXCEPT ![a].pc = "storing"]
    /\ UNCHANGED <<Registries, claim, Rest>>

\* Setup rejects or is abandoned on the signal, or the unstored suffix cannot
\* be written.
StageFails(a) ==
    /\ life[a].pc = "setup" \/ (life[a].pc = "storing" /\ mounted)
    /\ life' = [life EXCEPT ![a] = Failing(@)]
    /\ UNCHANGED <<Registries, claim, Rest>>

\* Mutant of Publish: the `enter`s trust the check made when preparing.
PublishUnchecked(a) ==
    /\ life[a].pc = "storing"
    /\ IF Aborted(a)
         THEN /\ life' = [life EXCEPT ![a] = Failing(@)]
              /\ UNCHANGED Registries
         ELSE /\ sessions' = a /\ agents' = a
              /\ life' = [life EXCEPT ![a] = [@ EXCEPT !.told = "created", !.pc = "announcing"]]
    /\ UNCHANGED <<claim, Rest>>

\* The suffix is stored and `publish` runs up to the await of its agent
\* announcement: liveness, both registries, the session's announcement.
Publish(a) ==
    /\ life[a].pc = "storing"
    /\ IF Aborted(a) \/ sessions # NoOne
         THEN /\ life' = [life EXCEPT ![a] = Failing(@)]
              /\ UNCHANGED Registries
         ELSE /\ sessions' = a /\ agents' = a
              /\ \E vetoed \in BOOLEAN :  \* a session/created listener throws or aborts
                    life' = [life EXCEPT ![a] =
                        LET l == [@ EXCEPT !.told = "created", !.pc = "announcing"]
                        IN  IF vetoed THEN Failing(l) ELSE l]
    /\ UNCHANGED <<claim, Rest>>

\* The agent/created listeners settle; a message they sent wakes the driver
\* when the maintenance phase ends.
Announced(a) ==
    /\ life[a].pc = "announcing"
    /\ \/ /\ ~Aborted(a)
          /\ \E machine \in {"idle", "running"} :
                life' = [life EXCEPT ![a] = [@ EXCEPT !.pc = "ready", !.machine = machine]]
       \/ life' = [life EXCEPT ![a] = Failing(@)]
    /\ UNCHANGED <<Registries, claim, Rest>>

\* Mutant of RolledBack: the disposal is started but not awaited.
RolledBackAtOnce(a) ==
    /\ life[a].pc = "rollback"
    /\ life' = [life EXCEPT ![a].pc = "failed"]
    /\ UNCHANGED <<Registries, claim, Rest>>

RolledBack(a) ==
    /\ life[a].pc = "rollback" /\ life[a].disposal = "done"
    /\ life' = [life EXCEPT ![a].pc = "failed"]
    /\ UNCHANGED <<Registries, claim, Rest>>

TurnStarts(a) ==
    /\ life[a].pc = "ready" /\ life[a].machine = "idle" /\ life[a].disposal = "none"
    /\ life' = [life EXCEPT ![a].machine = "running"]
    /\ UNCHANGED <<Registries, claim, Rest>>

TurnEnds(a) ==
    /\ life[a].machine = "running"
    /\ life' = [life EXCEPT ![a].machine = "idle"]
    /\ UNCHANGED <<Registries, claim, Rest>>

-----------------------------------------------------------------------------
(* Teardown                                                                *)

HandleDisposes(a) ==
    /\ life[a].pc = "ready" /\ life[a].disposal = "none"
    /\ life' = [life EXCEPT ![a] = Dispose(@)]
    /\ UNCHANGED <<Registries, claim, Rest>>

\* No publication is under way and the driver is idle: the scope goes.
Drained(a) ==
    /\ life[a].disposal = "stopping"
    /\ life[a].pc # "announcing" /\ life[a].machine = "idle"
    /\ life' = [life EXCEPT ![a] = Unwind([@ EXCEPT !.disposal = "unwinding"])]
    /\ UNCHANGED <<Registries, claim, Rest>>

ScopeUnwinds(a) ==
    /\ life[a].scope = "unwinding"
    /\ life' = [life EXCEPT ![a].scope = "gone"]
    /\ UNCHANGED <<Registries, claim, Rest>>

Unwound(a) ==
    /\ life[a].disposal = "unwinding" /\ life[a].scope = "gone"
    /\ life' = [life EXCEPT ![a] = Close([@ EXCEPT !.disposal = "closing"])]
    /\ UNCHANGED <<Registries, claim, Rest>>

\* `close` drains the write path and gives the claim back, also when it rejects.
HandleCloses(a) ==
    /\ life[a].handle = "closing"
    /\ life' = [life EXCEPT ![a].handle = "closed"]
    /\ claim' = NoOne
    /\ UNCHANGED <<Registries, Rest>>

\* Each detach removes its own entry only, and pairs an announcement.
Left(a) ==
    /\ life[a].disposal = "closing" /\ life[a].handle \in {"none", "closed"}
    /\ agents' = IF agents = a THEN NoOne ELSE agents
    /\ sessions' = IF sessions = a THEN NoOne ELSE sessions
    /\ LET told == IF life[a].told = "created" THEN "disposed" ELSE life[a].told
       IN  life' = [life EXCEPT ![a] = [@ EXCEPT !.disposal = "done", !.told = told]]
    /\ UNCHANGED <<claim, Rest>>

\* The owner's effect: the first to dispose awaits the disposal; behind a
\* disposal already begun it returns at once and unwinds the scope.
OwnerUnloads(a) ==
    /\ life[a].owner = "active" /\ life[a].pc # "new"
    /\ life' = [life EXCEPT ![a] =
           LET l == [@ EXCEPT !.owner = "unloading"]
           IN  IF ~Tracked(l) THEN l
               ELSE IF l.disposal = "none" THEN [Dispose(l) EXCEPT !.waits = "disposal"]
               ELSE [Unwind(l) EXCEPT !.waits = "scope"]]
    /\ UNCHANGED <<Registries, claim, Rest>>

OwnerUnloaded(a) ==
    /\ life[a].owner = "unloading"
    /\ life[a].waits = "disposal" => life[a].disposal = "done"
    /\ life[a].waits = "scope" => life[a].scope = "gone"
    /\ life' = [life EXCEPT ![a].owner = "gone"]
    /\ UNCHANGED <<Registries, claim, Rest>>

\* The loop's fiber runs its disposers in parallel: `FactoryOwnership.dispose`
\* and those of the scopes, which are minted on it.
FactoryUnloads ==
    /\ factory = "up"
    /\ factory' = "unloading"
    /\ life' = [a \in Attempts |-> IF Tracked(life[a]) THEN Unwind(Dispose(life[a])) ELSE life[a]]
    /\ UNCHANGED <<Registries, claim, mounted>>

FactoryDown ==
    /\ factory = "unloading"
    /\ \A a \in Attempts : /\ life[a].pc \in {"new", "ready", "failed"}
                           /\ ~Tracked(life[a])
                           /\ life[a].scope \in {"none", "gone"}
    /\ factory' = "down"
    /\ UNCHANGED <<life, Registries, claim, mounted>>

CallerAborts(a) ==
    /\ a \in Signalled /\ ~life[a].aborted
    /\ life[a].pc \notin {"new", "closing", "ready", "rollback", "failed"}
    /\ life' = [life EXCEPT ![a].aborted = TRUE]
    /\ UNCHANGED <<Registries, claim, Rest>>

-----------------------------------------------------------------------------
Next ==
    \/ \E a \in Attempts :
         \/ CreateAgent(a) \/ Resume(a) \/ OpenSucceeds(a) \/ OpenFails(a)
         \/ OpenAborted(a) \/ LateOpen(a) \/ Read(a) \/ Repair(a)
         \/ Prepare(a) \/ Settle(a) \/ SetupSettles(a) \/ StageFails(a)
         \/ Publish(a) \/ Announced(a) \/ RolledBack(a)
         \/ TurnStarts(a) \/ TurnEnds(a)
         \/ HandleDisposes(a) \/ Drained(a) \/ ScopeUnwinds(a) \/ Unwound(a)
         \/ HandleCloses(a) \/ Left(a)
         \/ OwnerUnloads(a) \/ OwnerUnloaded(a) \/ CallerAborts(a)
    \/ FactoryUnloads \/ FactoryDown

\* What runs by itself: continuations of awaits and callbacks that settle.  The
\* open of a resume and every setup may stay pending for ever.
Progress(a) ==
    \/ OpenAborted(a) \/ Read(a) \/ Repair(a) \/ Prepare(a) \/ Settle(a)
    \/ a \notin Resumes /\ (OpenSucceeds(a) \/ OpenFails(a))
    \/ Aborted(a) /\ StageFails(a)
    \/ Publish(a) \/ Announced(a) \/ RolledBack(a)
    \/ Drained(a) \/ ScopeUnwinds(a) \/ Unwound(a) \/ HandleCloses(a) \/ Left(a)
    \/ OwnerUnloaded(a)

Fairness ==
    /\ \A a \in Attempts : WF_vars(Progress(a)) /\ WF_vars(TurnEnds(a))
    /\ WF_vars(FactoryDown)

Spec == Init /\ [][Next]_vars
FairSpec == Spec /\ Fairness

-----------------------------------------------------------------------------
(* Correctness                                                             *)

Driving(a) == life[a].machine \in {"maintenance", "running"}

(* An attempt that is announced or published occupies the id in both       *)
(* registries until its teardown is over, whatever other attempts, their   *)
(* rollbacks and late opens do; and while its driver works nobody else     *)
(* holds the write path of its log.  The collision checks of the two       *)
(* `enter`s are all that separates attempts that prepared side by side.    *)
PlaceIsHeld ==
    /\ TypeOK
    /\ agents = sessions
    /\ \A a \in Attempts :
         /\ life[a].pc \in {"announcing", "ready"} /\ life[a].disposal # "done" => agents = a
         /\ Driving(a) /\ mounted => claim = a

(* What has failed, been disposed of or outlived its factory leaves        *)
(* nothing: no registry entry, no scope, no driver, no announcement        *)
(* without its disposal, and no claim but that of an abandoned open on its *)
(* way out.                                                                *)
NothingLeft ==
    \A a \in Attempts :
        (life[a].pc = "failed" \/ life[a].disposal = "done" \/ factory = "down")
        => /\ a \notin {sessions, agents}
           /\ life[a].scope \in {"none", "gone"}
           /\ ~Driving(a)
           /\ life[a].told # "created"
           /\ claim = a => life[a].handle = "closing"

(* An unload of the factory or of an owner comes to its end, though an     *)
(* open or a setup never settles, and a handle that arrives too late gives *)
(* the session back.                                                       *)
UnloadsEnd ==
    /\ factory = "unloading" ~> factory = "down"
    /\ \A a \in Attempts : /\ life[a].owner = "unloading" ~> life[a].owner = "gone"
                           /\ life[a].handle = "closing" ~> claim # a

(* The scope is unwound after the driver has exited, as the comment on     *)
(* `scope` of the driver says (agent.ts:102).  The code breaks it.         *)
ScopeOutlivesDriver ==
    \A a \in Attempts : life[a].machine = "running" => life[a].scope = "open"

(* Every owner that races for the teardown awaits the one quiescence, as   *)
(* the comment on `dispose` says (index.ts:522).  The code breaks it.      *)
OwnersAwaitQuiescence ==
    \A a \in Attempts : life[a].owner = "gone" => ~Tracked(life[a])
=============================================================================
