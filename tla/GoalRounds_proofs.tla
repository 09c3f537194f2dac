------------------------- MODULE GoalRounds_proofs -------------------------
(***************************************************************************)
(* What is proved about GoalRounds for every bound on rounds, changes,     *)
(* prompts, maintenance, cancellations and failures.                       *)
(*                                                                         *)
(* A step of GoalRounds is a synchronous span of calls, so the proof goes  *)
(* the same way: Leads(w, v) says what any part of a span may do to the    *)
(* record it is handed, each part has its lemma, LeadsOn puts parts one    *)
(* after the other, and LeadsKeeps takes a whole span to the invariant.    *)
(* The three steps that move a prompt behind a fence (FenceFirst,          *)
(* FenceAgain and MessagesEnter) are proved for themselves.                *)
(***************************************************************************)
EXTENDS GoalRounds, SequenceTheorems, TLAPS
-----------------------------------------------------------------------------
(* The inductive invariant.                                                  *)

\* The records a span works on.
Goals == [id : Nat, rev : Nat, cap : Nat, rounds : Nat,
          phase : {"none", "active", "paused", "blocked", "complete"},
          armed : BOOLEAN, failed : BOOLEAN]
Drivers == [state : {"up", "stopping", "down"}, attempt : {None} \cup Attempts,
            competing : BOOLEAN, checkpoint : BOOLEAN, requested : BOOLEAN,
            run : BOOLEAN, flushes : Seq(Nat), issued : Nat]
Agents == [pc : {"idle", "maintenance"} \cup Running, msg : {None} \cup Messages,
           aborted : BOOLEAN, wake : BOOLEAN, inbox : Seq(Messages)]
Logs == [changes : Nat, durable : Nat]
Spans == [goal : Goals, driver : Drivers, agent : Agents, log : Logs]

\* The parts of a turn behind the first fence.
Fenced == {"hooks", "preparing", "stepping"}

\* A round was reserved for an earlier goal or revision, or within the cap of this one.
Recent(r, g) == \/ r.id < g.id
                \/ r.id = g.id /\ (r.rev < g.rev \/ (r.rev = g.rev /\ r.round <= g.cap))

\* A span of its type, whose running turn has a prompt and whose reservation is recent.
Sound(w) ==
    /\ w \in Spans
    /\ w.agent.msg # None <=> w.agent.pc \in Running
    /\ w.driver.attempt # None => Recent(w.driver.attempt.round, w.goal)

\* Behind the first fence a round has its reservation until the plugin is gone.
Held(w) ==
    (w.driver.state # "down" /\ w.agent.pc \in Fenced /\ w.agent.msg.kind = "goal") =>
        /\ w.driver.attempt # None
        /\ w.driver.attempt.round = w.agent.msg.round
        /\ w.driver.attempt.phase # "queued"

\* Behind the second fence it is admissible unless the goal changed since.
Prepared ==
    (agent.pc = "preparing" /\ agent.msg.kind = "goal" /\ driver.state # "down"
       /\ ~changed /\ ~goal.failed) => Admissible(goal, agent.msg)

Usages == [changes : 0..MaxChanges, prompts : 0..MaxPrompts,
           maintenances : 0..MaxMaintenances, cancels : 0..MaxCancels,
           failures : 0..MaxFailures]

IInv == Sound(W) /\ Held(W) /\ Prepared /\ used \in Usages /\ changed \in BOOLEAN

-----------------------------------------------------------------------------
(* What a part of a span does.                                               *)

\* All of a goal but its activation.
SameGoal(g, h) == /\ h.id = g.id /\ h.rev = g.rev /\ h.phase = g.phase
                  /\ h.cap = g.cap /\ h.rounds = g.rounds /\ h.failed = g.failed

\* A reservation that is there stays, and does not go back into the queue.
SameAttempt(a, b) == a # None => /\ b # None /\ b.round = a.round
                                 /\ a.phase # "queued" => b.phase # "queued"

\* A part of a span makes no goal unreadable and forgets no change, and whatever
\* it leaves behind a fence was there before, with its reservation, and with its
\* goal unless a change was logged.
Leads(w, v) ==
    /\ Sound(v)
    /\ v.driver.state = w.driver.state
    /\ v.goal.failed => w.goal.failed
    /\ v.log.changes >= w.log.changes
    /\ v.agent.pc \in Fenced =>
         /\ v.agent.pc = w.agent.pc /\ v.agent.msg = w.agent.msg
         /\ SameAttempt(w.driver.attempt, v.driver.attempt)
         /\ v.log.changes = w.log.changes => SameGoal(w.goal, v.goal)

\* One part after the other.
LEMMA LeadsOn ==
    ASSUME NEW w, Sound(w), NEW v, Leads(w, v), NEW u, Leads(v, u)
    PROVE  Leads(w, u)
<1>1. w.log.changes \in Nat /\ v.log.changes \in Nat /\ u.log.changes \in Nat
  BY DEF Leads, Sound, Spans, Logs
<1>2. u.log.changes >= w.log.changes  BY <1>1 DEF Leads
<1>3. ASSUME u.agent.pc \in Fenced
      PROVE  /\ u.agent.pc = w.agent.pc /\ u.agent.msg = w.agent.msg
             /\ SameAttempt(w.driver.attempt, u.driver.attempt)
             /\ u.log.changes = w.log.changes => SameGoal(w.goal, u.goal)
  <2>1. u.agent.pc = v.agent.pc /\ u.agent.msg = v.agent.msg
        /\ v.agent.pc = w.agent.pc /\ v.agent.msg = w.agent.msg
    BY <1>3 DEF Leads
  <2>2. SameAttempt(w.driver.attempt, v.driver.attempt)
        /\ SameAttempt(v.driver.attempt, u.driver.attempt)
    BY <1>3, <2>1 DEF Leads
  <2>3. SameAttempt(w.driver.attempt, u.driver.attempt)
    BY <2>2 DEF SameAttempt
  <2>4. ASSUME u.log.changes = w.log.changes  PROVE SameGoal(w.goal, u.goal)
    <3>1. v.log.changes = w.log.changes /\ u.log.changes = v.log.changes
      BY <1>1, <2>4 DEF Leads
    <3>2. SameGoal(w.goal, v.goal) /\ SameGoal(v.goal, u.goal)
      BY <1>3, <2>1, <3>1 DEF Leads
    <3> QED  BY <3>2 DEF SameGoal
  <2> QED  BY <2>1, <2>3, <2>4
<1> QED  BY <1>2, <1>3 DEF Leads

\* A span that does nothing.
LEMMA LeadsHere ==
    ASSUME NEW w, Sound(w)
    PROVE  Leads(w, w)
<1>1. w.log.changes \in Nat  BY DEF Sound, Spans, Logs
<1> QED  BY <1>1 DEF Leads, SameAttempt, SameGoal

\* The driver with another reservation.
LEMMA AttemptIs ==
    ASSUME NEW d \in Drivers, NEW x \in {None} \cup Attempts, NEW e, e = [d EXCEPT !.attempt = x]
    PROVE  /\ e \in Drivers /\ e.attempt = x /\ e.state = d.state
           /\ e.competing = d.competing /\ e.checkpoint = d.checkpoint
           /\ e.requested = d.requested /\ e.run = d.run /\ e.flushes = d.flushes
           /\ e.issued = d.issued
BY DEF Drivers

\* The prompt at the head of the inbox is claimed.
LEMMA ClaimLeads ==
    ASSUME NEW w, Sound(w), w.agent.inbox # << >>
    PROVE  Leads(w, Claim(w)) /\ Claim(w).agent.pc = "claimed"
<1> PICK v : v = Claim(w)  OBVIOUS
<1>1. Head(w.agent.inbox) \in Messages /\ Tail(w.agent.inbox) \in Seq(Messages)
  BY HeadTailProperties DEF Sound, Spans, Agents
<1>2. Head(w.agent.inbox) # None  BY <1>1 DEF Messages, Human, None
<1> DEFINE a == w.driver.attempt
           b == IF Own(w, Head(w.agent.inbox)) THEN [a EXCEPT !.phase = "claimed"] ELSE a
<1>3. /\ b \in {None} \cup Attempts /\ (b # None => a # None /\ b.round = a.round)
  BY DEF Own, Sound, Spans, Drivers, Attempts
<1>4. PICK d : d = [w.driver EXCEPT !.attempt = b]  OBVIOUS
<1>5. PICK g : g = [pc |-> "claimed", msg |-> Head(w.agent.inbox), aborted |-> FALSE,
                    wake |-> FALSE, inbox |-> Tail(w.agent.inbox)]
  OBVIOUS
<1>6. v = [goal |-> w.goal, driver |-> d, agent |-> g, log |-> w.log]
  BY <1>4, <1>5 DEF Claim, Sound, Spans, Agents, Drivers
<1> HIDE DEF b
<1>7. w.goal \in Goals /\ w.driver \in Drivers /\ w.log \in Logs  BY DEF Sound, Spans
<1>8. d \in Drivers /\ d.attempt = b /\ d.state = w.driver.state
  BY <1>3, <1>4, <1>7, AttemptIs
<1>9. g \in Agents /\ g.pc = "claimed" /\ g.msg = Head(w.agent.inbox)
  BY <1>1, <1>5 DEF Agents, Running
<1>10. /\ v.goal = w.goal /\ v.log = w.log /\ v.driver = d /\ v.agent = g /\ v \in Spans
  BY <1>6, <1>7, <1>8, <1>9 DEF Spans
<1>11. Sound(v)  BY <1>2, <1>3, <1>8, <1>9, <1>10 DEF Sound, Running
<1>12. v.log.changes \in Nat  BY <1>7, <1>10 DEF Logs
<1> QED  BY <1>8, <1>9, <1>10, <1>11, <1>12 DEF Leads, Fenced

\* A span from its parts, and the parts of a span.
LEMMA SpanIs ==
    ASSUME NEW x \in Goals, NEW d \in Drivers, NEW g \in Agents, NEW l \in Logs, NEW v,
           v = [goal |-> x, driver |-> d, agent |-> g, log |-> l]
    PROVE  /\ v \in Spans
           /\ v.goal = x /\ v.driver = d /\ v.agent = g /\ v.log = l
BY DEF Spans

\* The parts of a sound span.
LEMMA PartsAre ==
    ASSUME NEW w, Sound(w)
    PROVE  /\ w.goal \in Goals /\ w.driver \in Drivers /\ w.agent \in Agents /\ w.log \in Logs
           /\ w = [goal |-> w.goal, driver |-> w.driver, agent |-> w.agent, log |-> w.log]
           /\ w.log.changes \in Nat
BY DEF Sound, Spans, Logs

\* A step of the driver and the agent that leaves prompt and goal alone.
LEMMA LeadsAside ==
    ASSUME NEW w, Sound(w), NEW d \in Drivers, NEW g \in Agents,
           d.state = w.driver.state, g.pc = w.agent.pc, g.msg = w.agent.msg,
           d.attempt # None => w.driver.attempt # None /\ d.attempt.round = w.driver.attempt.round,
           g.pc \in Fenced => SameAttempt(w.driver.attempt, d.attempt),
           NEW v, v = [goal |-> w.goal, driver |-> d, agent |-> g, log |-> w.log]
    PROVE  Leads(w, v)
<1>1. /\ v \in Spans /\ v.goal = w.goal /\ v.driver = d /\ v.agent = g /\ v.log = w.log
      /\ w.log.changes \in Nat
  BY PartsAre, SpanIs
<1>2. Sound(v)  BY <1>1 DEF Sound
<1> QED  BY <1>1, <1>2 DEF Leads, SameGoal

\* A marked round is still the round it was.
LEMMA MarkedIs ==
    ASSUME NEW a \in Attempts
    PROVE  /\ [a EXCEPT !.stale = TRUE] \in Attempts /\ [a EXCEPT !.cancelled = TRUE] \in Attempts
           /\ SameAttempt(a, [a EXCEPT !.stale = TRUE])
           /\ SameAttempt(a, [a EXCEPT !.cancelled = TRUE])
           /\ [a EXCEPT !.stale = TRUE].round = a.round
           /\ [a EXCEPT !.cancelled = TRUE].round = a.round
BY DEF Attempts, SameAttempt, None

\* A message is queued and its wake claims it at idle.
LEMMA FollowupLeads ==
    ASSUME NEW w, Sound(w), NEW msg \in Messages
    PROVE  Leads(w, Followup(w, msg))
<1> PICK q : q = Append(w.agent.inbox, msg)  OBVIOUS
<1>1. q \in Seq(Messages) /\ q # << >>
  <2>1. w.agent.inbox \in Seq(Messages)  BY PartsAre DEF Agents
  <2> QED  BY <2>1, AppendProperties
<1>2. PICK g : g = [w.agent EXCEPT !.inbox = q]  OBVIOUS
<1>3. g \in Agents /\ g.pc = w.agent.pc /\ g.msg = w.agent.msg /\ g.inbox = q
  BY <1>1, <1>2, PartsAre DEF Agents
<1> DEFINE quiet == Own(w, msg) \/ w.driver.state = "down"
           a == w.driver.attempt
           b == IF a # None /\ a.phase = "queued" THEN [a EXCEPT !.stale = TRUE] ELSE a
           d == IF quiet THEN w.driver ELSE [w.driver EXCEPT !.competing = TRUE, !.attempt = b]
           heard == [goal |-> w.goal, driver |-> d, agent |-> g, log |-> w.log]
<1>4. b \in {None} \cup Attempts /\ SameAttempt(a, b) /\ (b # None => a # None /\ b.round = a.round)
  <2>1. a \in {None} \cup Attempts  BY PartsAre DEF Drivers
  <2>2. SameAttempt(a, a)  BY DEF SameAttempt
  <2> QED  BY <2>1, <2>2, MarkedIs
<1> HIDE DEF b
<1>5. d \in Drivers /\ d.state = w.driver.state /\ d.attempt \in {a, b}
  BY <1>4, PartsAre DEF Drivers
<1>6. Followup(w, msg) = IF w.agent.pc = "idle" THEN Claim(heard)
                         ELSE IF w.agent.pc = "maintenance" \/ w.agent.aborted
                         THEN [heard EXCEPT !.agent.wake = TRUE] ELSE heard
  <2>1. PICK queued : queued = [w EXCEPT !.agent.inbox = Append(@, msg)]  OBVIOUS
  <2>2. queued = [goal |-> w.goal, driver |-> w.driver, agent |-> g, log |-> w.log]
    <3>1. queued = [w EXCEPT !.agent = g]  BY <1>2, <2>1
    <3> QED  BY <3>1, PartsAre
  <2>3. PICK told : told = [queued EXCEPT !.driver.competing = TRUE,
                              !.driver.attempt = IF @ # None /\ @.phase = "queued"
                                                 THEN [@ EXCEPT !.stale = TRUE] ELSE @]
    OBVIOUS
  <2>4. told = [goal |-> w.goal, driver |-> [w.driver EXCEPT !.competing = TRUE, !.attempt = b],
                agent |-> g, log |-> w.log]
    BY <2>2, <2>3, PartsAre DEF b, Drivers
  <2>5. heard = IF quiet THEN queued ELSE told  BY <2>2, <2>4
  <2> QED  BY <2>1, <2>3, <2>5 DEF Followup
<1> HIDE DEF d, quiet
<1>7. SameAttempt(a, d.attempt) /\ (d.attempt # None => a # None /\ d.attempt.round = a.round)
  BY <1>4, <1>5 DEF SameAttempt
<1>8. Leads(w, heard) /\ Sound(heard)
  <2>1. Leads(w, heard)  BY <1>3, <1>5, <1>7, LeadsAside
  <2> QED  BY <2>1 DEF Leads
<1>9. heard.agent = g  OBVIOUS
<1>10. ASSUME w.agent.pc = "idle"  PROVE Leads(w, Followup(w, msg))
  <2>1. Leads(heard, Claim(heard))  BY <1>1, <1>3, <1>8, <1>9, ClaimLeads
  <2> QED  BY <1>6, <1>8, <1>10, <2>1, LeadsOn
<1>11. Leads(w, [heard EXCEPT !.agent.wake = TRUE])
  <2>1. PICK k : k = [g EXCEPT !.wake = TRUE]  OBVIOUS
  <2>2. k \in Agents /\ k.pc = w.agent.pc /\ k.msg = w.agent.msg  BY <1>3, <2>1 DEF Agents
  <2>3. [heard EXCEPT !.agent.wake = TRUE]
          = [goal |-> w.goal, driver |-> d, agent |-> k, log |-> w.log]
    <3>1. PICK h : h = heard  OBVIOUS
    <3>2. h.agent = g  BY <3>1
    <3>3. [h EXCEPT !.agent.wake = TRUE] = [h EXCEPT !.agent = k]  BY <2>1, <3>2
    <3>4. [h EXCEPT !.agent = k] = [goal |-> w.goal, driver |-> d, agent |-> k, log |-> w.log]
      BY <3>1
    <3> QED  BY <3>1, <3>3, <3>4
  <2> QED  BY <1>5, <1>7, <2>2, <2>3, LeadsAside
<1> QED  BY <1>6, <1>8, <1>10, <1>11

\* A cancellation marks a discarded round and leaves the turn to converge.
LEMMA CancelLeads ==
    ASSUME NEW w, Sound(w), NEW keepInbox \in BOOLEAN
    PROVE  Leads(w, Cancel(w, keepInbox))
<1>0. PICK aborted : aborted = (w.agent.pc # "idle")  OBVIOUS
<1>1. aborted \in BOOLEAN  BY <1>0
<1>2. PICK g : g = [w.agent EXCEPT !.aborted = aborted]  OBVIOUS
<1>3. g \in Agents /\ g.pc = w.agent.pc /\ g.msg = w.agent.msg
  BY <1>1, <1>2, PartsAre DEF Agents
<1>4. PICK k : k = [g EXCEPT !.inbox = << >>, !.wake = FALSE]  OBVIOUS
<1>5. k \in Agents /\ k.pc = w.agent.pc /\ k.msg = w.agent.msg
  <2>1. << >> \in Seq(Messages)  OBVIOUS
  <2> QED  BY <1>3, <1>4, <2>1 DEF Agents
<1> DEFINE own == \E i \in 1..Len(w.agent.inbox) : Own(w, w.agent.inbox[i])
           a == w.driver.attempt
           b == IF own THEN [a EXCEPT !.cancelled = TRUE] ELSE a
<1>6. b \in {None} \cup Attempts /\ SameAttempt(a, b) /\ (b # None => a # None /\ b.round = a.round)
  <2>1. a \in {None} \cup Attempts /\ (own => a # None)  BY PartsAre DEF Drivers, Own
  <2>2. SameAttempt(a, a)  BY DEF SameAttempt
  <2> HIDE DEF own
  <2> QED  BY <2>1, <2>2, MarkedIs
<1>7. PICK d : d = [w.driver EXCEPT !.attempt = b]  OBVIOUS
<1>8. Cancel(w, keepInbox) = IF keepInbox
        THEN [goal |-> w.goal, driver |-> w.driver, agent |-> g, log |-> w.log]
        ELSE [goal |-> w.goal, driver |-> d, agent |-> k, log |-> w.log]
  <2>1. PICK first : first = [w EXCEPT !.agent.aborted = aborted]  OBVIOUS
  <2>2. first = [goal |-> w.goal, driver |-> w.driver, agent |-> g, log |-> w.log]
    <3>1. first = [w EXCEPT !.agent = g]  BY <1>2, <2>1
    <3> QED  BY <3>1, PartsAre
  <2>3. PICK second : second = [first EXCEPT !.agent.inbox = << >>, !.agent.wake = FALSE,
                                  !.driver.attempt = IF own THEN [@ EXCEPT !.cancelled = TRUE]
                                                     ELSE @]
    OBVIOUS
  <2>4. second = [goal |-> w.goal, driver |-> d, agent |-> k, log |-> w.log]
    BY <1>4, <1>7, <2>2, <2>3 DEF b
  <2>5. Cancel(w, keepInbox) = IF keepInbox THEN first ELSE second
    BY <2>1, <2>3, <1>0 DEF Cancel
  <2> QED  BY <2>2, <2>4, <2>5
<1> HIDE DEF b
<1>9. d \in Drivers /\ d.state = w.driver.state /\ d.attempt = b
  BY <1>6, <1>7, PartsAre, AttemptIs
<1>10. Leads(w, [goal |-> w.goal, driver |-> d, agent |-> k, log |-> w.log])
  BY <1>5, <1>6, <1>9, LeadsAside
<1>11. Leads(w, [goal |-> w.goal, driver |-> w.driver, agent |-> g, log |-> w.log])
  BY <1>3, PartsAre, LeadsAside DEF SameAttempt
<1> QED  BY <1>8, <1>10, <1>11

\* A goal of a later revision.
Later(g, h) == h.id > g.id \/ (h.id = g.id /\ h.rev > g.rev)

\* A reservation that was recent stays so when the goal moves on.
LEMMA RecentStays ==
    ASSUME NEW r \in Rounds, NEW g \in Goals, NEW h \in Goals, Recent(r, g),
           Later(g, h) \/ SameGoal(g, h)
    PROVE  Recent(r, h)
<1>1. r.id \in Nat /\ r.rev \in Nat  BY DEF Rounds
<1>2. g.id \in Nat /\ g.rev \in Nat /\ h.id \in Nat /\ h.rev \in Nat  BY DEF Goals
<1>3. CASE SameGoal(g, h)  BY <1>3 DEF SameGoal, Recent
<1>4. CASE Later(g, h)
  <2>1. r.id < g.id \/ (r.id = g.id /\ r.rev <= g.rev)  BY <1>1, <1>2 DEF Recent
  <2>2. r.id < h.id \/ (r.id = h.id /\ r.rev < h.rev)  BY <1>1, <1>2, <1>4, <2>1 DEF Later
  <2> QED  BY <2>2 DEF Recent
<1> QED  BY <1>3, <1>4

\* What the parts of a span have to satisfy.
LEMMA LeadsAcross ==
    ASSUME NEW w, Sound(w), NEW x \in Goals, NEW d \in Drivers, NEW g \in Agents, NEW l \in Logs,
           d.state = w.driver.state, x.failed => w.goal.failed, l.changes >= w.log.changes,
           d.attempt # None => Recent(d.attempt.round, x),
           g.msg # None <=> g.pc \in Running,
           g.pc \in Fenced => /\ g.pc = w.agent.pc /\ g.msg = w.agent.msg
                              /\ SameAttempt(w.driver.attempt, d.attempt)
                              /\ l.changes = w.log.changes => SameGoal(w.goal, x),
           NEW v, v = [goal |-> x, driver |-> d, agent |-> g, log |-> l]
    PROVE  Leads(w, v)
<1>1. v \in Spans /\ v.goal = x /\ v.driver = d /\ v.agent = g /\ v.log = l
  BY SpanIs
<1>2. Sound(v)  BY <1>1 DEF Sound
<1> QED  BY <1>1, <1>2 DEF Leads

\* Only the goal's activation goes.
LEMMA DisarmLeads ==
    ASSUME NEW w, Sound(w)
    PROVE  Leads(w, Disarm(w))
<1>1. CASE w.goal.failed  BY <1>1, LeadsHere DEF Disarm
<1>2. CASE ~w.goal.failed
  <2>1. PICK x : x = [w.goal EXCEPT !.armed = FALSE]  OBVIOUS
  <2>2. x \in Goals /\ SameGoal(w.goal, x)  BY <2>1, PartsAre DEF Goals, SameGoal
  <2>3. Disarm(w) = [w EXCEPT !.goal = x]  BY <1>2, <2>1 DEF Disarm
  <2>4. Disarm(w) = [goal |-> x, driver |-> w.driver, agent |-> w.agent, log |-> w.log]
    BY <2>3, PartsAre
  <2>5. w.driver.attempt # None => Recent(w.driver.attempt.round, x)
    <3> SUFFICES ASSUME w.driver.attempt # None  PROVE Recent(w.driver.attempt.round, x)
      OBVIOUS
    <3>1. w.driver.attempt.round \in Rounds  BY PartsAre DEF Drivers, Attempts
    <3> QED  BY <2>2, <3>1, PartsAre, RecentStays DEF Sound
  <2>6. SameAttempt(w.driver.attempt, w.driver.attempt)  BY DEF SameAttempt
  <2>7. w.log.changes >= w.log.changes /\ (x.failed => w.goal.failed)
    BY <2>2, PartsAre DEF SameGoal
  <2>8. w.agent.msg # None <=> w.agent.pc \in Running  BY DEF Sound
  <2> QED  BY <2>2, <2>4, <2>5, <2>6, <2>7, <2>8, PartsAre, LeadsAcross
<1> QED  BY <1>1, <1>2

\* A pass that goes into its flush, with the agent at rest.
LEMMA CheckpointLeads ==
    ASSUME NEW w, Sound(w), w.agent.pc \notin Fenced
    PROVE  Leads(w, Checkpoint(w))
<1>1. PICK n : n = w.log.changes  OBVIOUS
<1>2. PICK q : q = Append(w.driver.flushes, n)  OBVIOUS
<1>3. q \in Seq(Nat)  BY <1>1, <1>2, PartsAre DEF Drivers
<1>4. PICK b : b = IF w.driver.checkpoint THEN w.driver.attempt ELSE None  OBVIOUS
<1>5. PICK d : d = [w.driver EXCEPT !.checkpoint = FALSE, !.requested = FALSE, !.flushes = q,
                                    !.attempt = b]
  OBVIOUS
<1>6. /\ d \in Drivers /\ d.state = w.driver.state
      /\ d.attempt # None => d.attempt = w.driver.attempt
  <2>1. b \in {None} \cup Attempts  BY <1>4, PartsAre DEF Drivers
  <2>2. d \in Drivers /\ d.state = w.driver.state /\ d.attempt = b
    BY <1>3, <1>5, <2>1, PartsAre DEF Drivers
  <2> QED  BY <1>4, <2>2
<1>7. Checkpoint(w) = [goal |-> w.goal, driver |-> d, agent |-> w.agent, log |-> w.log]
  <2>1. Checkpoint(w) = [w EXCEPT !.driver = d]  BY <1>1, <1>2, <1>4, <1>5 DEF Checkpoint
  <2> QED  BY <2>1, PartsAre
<1> QED  BY <1>6, <1>7, PartsAre, LeadsAside

\* The driver notes whether its loop runs.
LEMMA RunLeads ==
    ASSUME NEW w, Sound(w), NEW run \in BOOLEAN, NEW v, v = [w EXCEPT !.driver.run = run]
    PROVE  Leads(w, v) /\ v.agent = w.agent
<1>1. PICK d : d = [w.driver EXCEPT !.run = run]  OBVIOUS
<1>2. d \in Drivers /\ d.state = w.driver.state /\ d.attempt = w.driver.attempt
  BY <1>1, PartsAre DEF Drivers
<1>3. v = [goal |-> w.goal, driver |-> d, agent |-> w.agent, log |-> w.log]
  <2>1. v = [w EXCEPT !.driver = d]  BY <1>1
  <2> QED  BY <2>1, PartsAre
<1> QED  BY <1>2, <1>3, PartsAre, LeadsAside DEF SameAttempt

\* The driver notes a trigger.
LEMMA RequestedLeads ==
    ASSUME NEW w, Sound(w), NEW requested \in BOOLEAN, NEW v,
           v = [w EXCEPT !.driver.requested = requested]
    PROVE  Leads(w, v) /\ v.agent = w.agent
<1>1. PICK d : d = [w.driver EXCEPT !.requested = requested]  OBVIOUS
<1>2. d \in Drivers /\ d.state = w.driver.state /\ d.attempt = w.driver.attempt
  BY <1>1, PartsAre DEF Drivers
<1>3. v = [goal |-> w.goal, driver |-> d, agent |-> w.agent, log |-> w.log]
  <2>1. v = [w EXCEPT !.driver = d]  BY <1>1
  <2> QED  BY <2>1, PartsAre
<1> QED  BY <1>2, <1>3, PartsAre, LeadsAside DEF SameAttempt

\* A later revision of the goal is logged.
LEMMA EditLeads ==
    ASSUME NEW w, Sound(w), NEW x \in Goals, Later(w.goal, x), x.failed => w.goal.failed,
           NEW checkpoint \in BOOLEAN, NEW d, d = [w.driver EXCEPT !.checkpoint = checkpoint],
           NEW l, l = [w.log EXCEPT !.changes = @ + 1],
           NEW v, v = [goal |-> x, driver |-> d, agent |-> w.agent, log |-> l]
    PROVE  Leads(w, v)
<1>1. d \in Drivers /\ d.state = w.driver.state /\ d.attempt = w.driver.attempt
  BY PartsAre DEF Drivers
<1>2. l \in Logs /\ l.changes = w.log.changes + 1  BY PartsAre DEF Logs
<1>3. d.attempt # None => Recent(d.attempt.round, x)
  <2> SUFFICES ASSUME w.driver.attempt # None  PROVE Recent(w.driver.attempt.round, x)
    BY <1>1
  <2>1. w.driver.attempt.round \in Rounds  BY PartsAre DEF Drivers, Attempts
  <2> QED  BY <2>1, PartsAre, RecentStays DEF Sound
<1>4. l.changes >= w.log.changes /\ l.changes # w.log.changes  BY <1>2, PartsAre
<1>5. SameAttempt(w.driver.attempt, d.attempt)  BY <1>1 DEF SameAttempt
<1>6. w.agent.msg # None <=> w.agent.pc \in Running  BY DEF Sound
<1> QED  BY <1>1, <1>2, <1>3, <1>4, <1>5, <1>6, PartsAre, LeadsAcross

\* The driver blocks the goal at its limit.
LEMMA BlocksAtLimitLeads ==
    ASSUME NEW w, Sound(w), w.agent.pc \notin Fenced
    PROVE  Leads(w, BlocksAtLimit(w))
<1>1. PICK x : x = [w.goal EXCEPT !.phase = "blocked", !.rev = @ + 1, !.armed = FALSE]  OBVIOUS
<1>2. x \in Goals /\ Later(w.goal, x) /\ (x.failed => w.goal.failed)
  <2>1. PICK n : n = w.goal.rev + 1  OBVIOUS
  <2>2. n \in Nat /\ n > w.goal.rev  BY <2>1, PartsAre DEF Goals
  <2>3. x \in Goals /\ x.id = w.goal.id /\ x.rev = n /\ x.failed = w.goal.failed
    BY <1>1, <2>1, <2>2, PartsAre DEF Goals
  <2> QED  BY <2>2, <2>3 DEF Later
<1>3. PICK d : d = [w.driver EXCEPT !.checkpoint = TRUE]  OBVIOUS
<1>4. PICK l : l = [w.log EXCEPT !.changes = @ + 1]  OBVIOUS
<1>5. PICK blocked : blocked = [w EXCEPT !.goal.phase = "blocked", !.goal.rev = @ + 1,
                                  !.goal.armed = FALSE, !.log.changes = @ + 1,
                                  !.driver.checkpoint = TRUE]
  OBVIOUS
<1>6. blocked = [goal |-> x, driver |-> d, agent |-> w.agent, log |-> l]
  <2>1. PICK a : a = [w EXCEPT !.goal.phase = "blocked", !.goal.rev = @ + 1, !.goal.armed = FALSE]
    OBVIOUS
  <2>2. a = [goal |-> x, driver |-> w.driver, agent |-> w.agent, log |-> w.log]
    <3>1. PICK g \in Goals, d0 \in Drivers, a0 \in Agents, l0 \in Logs :
               w = [goal |-> g, driver |-> d0, agent |-> a0, log |-> l0]
      BY PartsAre
    <3>2. a = [goal |-> [g EXCEPT !.phase = "blocked", !.rev = @ + 1, !.armed = FALSE],
               driver |-> d0, agent |-> a0, log |-> l0]
      BY <2>1, <3>1
    <3>3. x = [g EXCEPT !.phase = "blocked", !.rev = @ + 1, !.armed = FALSE]
      BY <1>1, <3>1
    <3> QED  BY <3>1, <3>2, <3>3
  <2>3. blocked = [a EXCEPT !.log.changes = @ + 1, !.driver.checkpoint = TRUE]
    BY <1>5, <2>1
  <2> QED  BY <1>3, <1>4, <2>2, <2>3
<1>7. Leads(w, blocked) /\ blocked.agent = w.agent
  <2>1. Leads(w, blocked)  BY <1>2, <1>3, <1>4, <1>6, EditLeads
  <2> QED  BY <1>6, <2>1
<1>8. Sound(blocked)  BY <1>7 DEF Leads
<1>9. PICK v : v = [blocked EXCEPT !.driver.requested = TRUE]  OBVIOUS
<1>10. Leads(w, v)
  <2>1. Leads(blocked, v)  BY <1>8, <1>9, RequestedLeads
  <2> QED  BY <1>7, <2>1, LeadsOn
<1>11. PICK u : u = Checkpoint(blocked)  OBVIOUS
<1>12. PICK z : z = [u EXCEPT !.driver.run = TRUE]  OBVIOUS
<1>13. Leads(w, z)
  <2>1. Leads(blocked, u)  BY <1>7, <1>8, <1>11, CheckpointLeads
  <2>2. Leads(w, u) /\ Sound(u)
    <3>1. Leads(w, u)  BY <1>7, <2>1, LeadsOn
    <3> QED  BY <3>1 DEF Leads
  <2>3. Leads(u, z)  BY <1>12, <2>2, RunLeads
  <2> QED  BY <2>2, <2>3, LeadsOn
<1>14. BlocksAtLimit(w) = IF w.driver.run THEN v ELSE z
  BY <1>5, <1>9, <1>11, <1>12 DEF BlocksAtLimit
<1> QED  BY <1>10, <1>13, <1>14

\* A pass reserves at most one round, within the cap of the goal's revision.
LEMMA PassLeads ==
    ASSUME NEW w, Sound(w), w.agent.pc \notin Fenced
    PROVE  Leads(w, Pass(w))
<1>1. CASE ~Armed(w.goal)  BY <1>1, LeadsHere DEF Pass
<1>2. CASE Armed(w.goal) /\ w.goal.rounds >= w.goal.cap
  BY <1>2, BlocksAtLimitLeads DEF Pass
<1>3. CASE Armed(w.goal) /\ ~(w.goal.rounds >= w.goal.cap)
  <2>1. PICK n : n = w.goal.rounds + 1  OBVIOUS
  <2>2. n \in Nat \ {0} /\ n <= w.goal.cap
    <3>1. w.goal.rounds \in Nat /\ w.goal.cap \in Nat  BY PartsAre DEF Goals
    <3> QED  BY <1>3, <2>1, <3>1
  <2>3. PICK r : r = [id |-> w.goal.id, rev |-> w.goal.rev, round |-> n]  OBVIOUS
  <2>4. r \in Rounds /\ Recent(r, w.goal) /\ r = Round(w.goal)
    BY <2>1, <2>2, <2>3, PartsAre DEF Rounds, Recent, Round, Goals
  <2>5. PICK k : k = w.driver.issued + 1  OBVIOUS
  <2>6. k \in Nat  BY <2>5, PartsAre DEF Drivers
  <2>7. PICK msg : msg = [kind |-> "goal", round |-> r, mid |-> k]  OBVIOUS
  <2>8. msg \in Messages /\ msg = Message(Round(w.goal), w.driver.issued + 1)
    BY <2>4, <2>5, <2>6, <2>7 DEF Messages, Message
  <2>9. PICK a : a = [kind |-> "attempt", round |-> r, mid |-> k, phase |-> "queued",
                      cancelled |-> FALSE, stale |-> FALSE]
    OBVIOUS
  <2>10. a \in Attempts /\ a.round = r /\ a = Attempt(msg)
    BY <2>4, <2>6, <2>7, <2>9 DEF Attempts, Attempt
  <2>11. PICK d : d = [w.driver EXCEPT !.attempt = a, !.issued = k]  OBVIOUS
  <2>12. d \in Drivers /\ d.state = w.driver.state /\ d.attempt = a
    BY <2>6, <2>10, <2>11, PartsAre DEF Drivers
  <2>13. PICK v : v = [w EXCEPT !.driver.attempt = Attempt(msg), !.driver.issued = @ + 1]
    OBVIOUS
  <2>14. v = [goal |-> w.goal, driver |-> d, agent |-> w.agent, log |-> w.log]
    <3>1. v = [w EXCEPT !.driver = d]  BY <2>5, <2>10, <2>11, <2>13, PartsAre DEF Drivers
    <3> QED  BY <3>1, PartsAre
  <2>15. Leads(w, v)
    <3>1. d.attempt # None => Recent(d.attempt.round, w.goal)  BY <2>4, <2>10, <2>12
    <3>2. w.log.changes >= w.log.changes /\ (w.agent.msg # None <=> w.agent.pc \in Running)
      BY PartsAre DEF Sound
    <3> QED  BY <2>12, <2>14, <3>1, <3>2, PartsAre, LeadsAcross
  <2>16. Leads(v, Followup(v, msg))  BY <2>8, <2>15, FollowupLeads DEF Leads
  <2>17. Pass(w) = Followup(v, msg)  BY <1>3, <2>8, <2>13 DEF Pass
  <2> QED  BY <2>15, <2>16, <2>17, LeadsOn
<1> QED  BY <1>1, <1>2, <1>3

\* An agent at rest stands behind no fence.
LEMMA AtRest ==
    ASSUME NEW w, ReadyToDrive(w)
    PROVE  w.agent.pc \notin Fenced
BY DEF ReadyToDrive, Fenced

\* A trigger of the driver.
LEMMA RequestDriveLeads ==
    ASSUME NEW w, Sound(w)
    PROVE  Leads(w, RequestDrive(w))
<1>1. Leads(w, w)  BY LeadsHere
<1>2. PICK v : v = [w EXCEPT !.driver.requested = TRUE]  OBVIOUS
<1>3. Leads(w, v)  BY <1>2, RequestedLeads
<1>4. ASSUME ReadyToDrive(w), NEW u, Leads(w, u), NEW run \in BOOLEAN
      PROVE  Leads(w, [u EXCEPT !.driver.run = run])
  <2>1. PICK z : z = [u EXCEPT !.driver.run = run]  OBVIOUS
  <2>2. Sound(u)  BY <1>4 DEF Leads
  <2>3. Leads(u, z)  BY <2>1, <2>2, RunLeads
  <2> QED  BY <1>4, <2>1, <2>3, LeadsOn
<1>5. ASSUME ReadyToDrive(w)  PROVE Leads(w, [Checkpoint(w) EXCEPT !.driver.run = TRUE])
  <2>1. PICK u : u = Checkpoint(w)  OBVIOUS
  <2>2. Leads(w, u)  BY <1>5, <2>1, AtRest, CheckpointLeads
  <2> QED  BY <1>4, <1>5, <2>1, <2>2
<1>6. ASSUME ReadyToDrive(w)  PROVE Leads(w, [Pass(w) EXCEPT !.driver.run = FALSE])
  <2>1. PICK u : u = Pass(w)  OBVIOUS
  <2>2. Leads(w, u)  BY <1>6, <2>1, AtRest, PassLeads
  <2> QED  BY <1>4, <1>6, <2>1, <2>2
<1> QED  BY <1>1, <1>2, <1>3, <1>5, <1>6 DEF RequestDrive, Awaits

\* After a pass the loop goes on, or ends.
LEMMA LoopLeads ==
    ASSUME NEW w, Sound(w)
    PROVE  Leads(w, Loop(w))
<1>1. CASE w.driver.requested /\ Awaits(w)
  BY <1>1, AtRest, CheckpointLeads DEF Loop, Awaits
<1>2. CASE ~(w.driver.requested /\ Awaits(w))
  <2>1. PICK p \in Goals, d \in Drivers, a \in Agents, l \in Logs :
             w = [goal |-> p, driver |-> d, agent |-> a, log |-> l]
    BY PartsAre
  <2>2. PICK e : e = [d EXCEPT !.requested = FALSE, !.run = FALSE]  OBVIOUS
  <2>3. e \in Drivers /\ e.state = d.state /\ e.attempt = d.attempt
    BY <2>2 DEF Drivers
  <2>4. Loop(w) = [w EXCEPT !.driver.requested = FALSE, !.driver.run = FALSE]
    BY <1>2 DEF Loop
  <2>5. Loop(w) = [goal |-> p, driver |-> e, agent |-> a, log |-> l]
    <3>1. PICK c : c = [w EXCEPT !.driver.requested = FALSE]  OBVIOUS
    <3>2. PICK f : f = [d EXCEPT !.requested = FALSE]  OBVIOUS
    <3>3. c = [goal |-> p, driver |-> f, agent |-> a, log |-> l]
      BY <2>1, <3>1, <3>2
    <3>4. Loop(w) = [c EXCEPT !.driver.run = FALSE]
      BY <2>4, <3>1
    <3>5. e = [f EXCEPT !.run = FALSE]
      BY <2>2, <3>2
    <3> QED  BY <3>3, <3>4, <3>5
  <2>6. w.goal = p /\ w.driver = d /\ w.agent = a /\ w.log = l
    BY <2>1
  <2>7. SameAttempt(w.driver.attempt, e.attempt)
    BY <2>3, <2>6 DEF SameAttempt
  <2>8. PICK v : v = Loop(w)  OBVIOUS
  <2>9. Leads(w, v)
    BY <2>3, <2>5, <2>6, <2>7, <2>8, LeadsAside
  <2> QED  BY <2>8, <2>9
<1> QED  BY <1>1, <1>2

\* A change of the goal is logged and told to the driver.
LEMMA ChangeLeads ==
    ASSUME NEW w, Sound(w), NEW x \in Goals, Later(w.goal, x), x.failed => w.goal.failed,
           NEW hostPauses \in BOOLEAN
    PROVE  Leads(w, Change(w, x, hostPauses))
<1>1. PICK l : l = [w.log EXCEPT !.changes = @ + 1]  OBVIOUS
<1>2. PICK edited : edited = [w EXCEPT !.goal = x, !.log.changes = @ + 1]  OBVIOUS
<1>3. edited = [goal |-> x, driver |-> w.driver, agent |-> w.agent, log |-> l]
  <2>1. PICK p \in Goals, d \in Drivers, a \in Agents, l0 \in Logs :
             w = [goal |-> p, driver |-> d, agent |-> a, log |-> l0]
    BY PartsAre
  <2>2. PICK c : c = [w EXCEPT !.goal = x]  OBVIOUS
  <2>3. c = [goal |-> x, driver |-> d, agent |-> a, log |-> l0]
    BY <2>1, <2>2
  <2>4. edited = [c EXCEPT !.log.changes = @ + 1]
    BY <1>2, <2>2
  <2>5. l = [l0 EXCEPT !.changes = @ + 1]
    BY <1>1, <2>1
  <2>6. edited = [goal |-> x, driver |-> d, agent |-> a, log |-> l]
    BY <2>3, <2>4, <2>5
  <2> QED  BY <2>1, <2>6
<1>4. Leads(w, edited) /\ Sound(edited)
  <2>1. PICK c : c = w.driver.checkpoint  OBVIOUS
  <2>2. c \in BOOLEAN /\ w.driver = [w.driver EXCEPT !.checkpoint = c]
    BY <2>1, PartsAre DEF Drivers
  <2>3. Leads(w, edited)  BY <1>1, <1>3, <2>2, EditLeads
  <2> QED  BY <2>3 DEF Leads
<1>5. PICK stopped : stopped = IF hostPauses /\ IsRunning(w) THEN Cancel(edited, TRUE) ELSE edited
  OBVIOUS
<1>6. Leads(w, stopped) /\ Sound(stopped)
  <2>1. Leads(edited, Cancel(edited, TRUE))  BY <1>4, CancelLeads
  <2>2. Leads(w, Cancel(edited, TRUE))  BY <1>4, <2>1, LeadsOn
  <2>3. Leads(w, stopped)  BY <1>4, <1>5, <2>2
  <2> QED  BY <2>3 DEF Leads
<1>7. PICK v : v = [stopped EXCEPT !.driver.checkpoint = TRUE]  OBVIOUS
<1>8. Leads(w, v) /\ Sound(v)
  <2>1. PICK d : d = [stopped.driver EXCEPT !.checkpoint = TRUE]  OBVIOUS
  <2>2. d \in Drivers /\ d.state = stopped.driver.state /\ d.attempt = stopped.driver.attempt
    BY <1>6, <2>1, PartsAre DEF Drivers
  <2>3. v = [goal |-> stopped.goal, driver |-> d, agent |-> stopped.agent, log |-> stopped.log]
    <3>1. v = [stopped EXCEPT !.driver = d]  BY <1>7, <2>1
    <3> QED  BY <1>6, <3>1, PartsAre
  <2>4. Leads(stopped, v)  BY <1>6, <2>2, <2>3, PartsAre, LeadsAside DEF SameAttempt
  <2>5. Leads(w, v)  BY <1>6, <2>4, LeadsOn
  <2> QED  BY <2>5 DEF Leads
<1>9. Leads(w, RequestDrive(v))
  <2>1. Leads(v, RequestDrive(v))  BY <1>8, RequestDriveLeads
  <2> QED  BY <1>8, <2>1, LeadsOn
<1>10. Change(w, x, hostPauses) = IF w.driver.state = "down" THEN edited ELSE RequestDrive(v)
  BY <1>2, <1>5, <1>7 DEF Change
<1> QED  BY <1>4, <1>9, <1>10

\* A goal with its next revision.
LEMMA NextRevIs ==
    ASSUME NEW g \in Goals, NEW armed \in BOOLEAN,
           NEW phase \in {"none", "active", "paused", "blocked", "complete"}
    PROVE  LET x == NextRev(g, phase, armed) IN
           /\ x \in Goals /\ Later(g, x)
           /\ x.failed = g.failed
<1>1. PICK n : n = g.rev + 1  OBVIOUS
<1>2. n \in Nat /\ n > g.rev  BY <1>1 DEF Goals
<1>3. PICK x : x = [g EXCEPT !.rev = n, !.phase = phase, !.armed = armed]  OBVIOUS
<1>4. x \in Goals /\ x.id = g.id /\ x.rev = n /\ x.failed = g.failed
  BY <1>2, <1>3 DEF Goals
<1>5. NextRev(g, phase, armed) = x  BY <1>1, <1>3 DEF NextRev
<1> QED  BY <1>2, <1>4, <1>5 DEF Later

\* The reservation is given up.
LEMMA FreedIs ==
    ASSUME NEW w, Sound(w), NEW v, v = [w EXCEPT !.driver.attempt = None]
    PROVE  /\ Sound(v) /\ v.driver.attempt = None
           /\ v.goal = w.goal /\ v.agent = w.agent /\ v.log = w.log
           /\ v.driver.state = w.driver.state
<1>1. PICK d : d = [w.driver EXCEPT !.attempt = None]  OBVIOUS
<1>2. d \in Drivers /\ d.attempt = None /\ d.state = w.driver.state
  BY <1>1, PartsAre, AttemptIs
<1>3. v = [goal |-> w.goal, driver |-> d, agent |-> w.agent, log |-> w.log]
  <2>1. v = [w EXCEPT !.driver = d]  BY <1>1
  <2> QED  BY <2>1, PartsAre
<1>4. /\ v \in Spans /\ v.goal = w.goal /\ v.driver = d /\ v.agent = w.agent /\ v.log = w.log
  BY <1>2, <1>3, PartsAre, SpanIs
<1> QED  BY <1>2, <1>4 DEF Sound

\* A span that gives the reservation up first and stays behind no fence.
LEMMA FreedLeads ==
    ASSUME NEW w, Sound(w), NEW v, v = [w EXCEPT !.driver.attempt = None],
           NEW u, Leads(v, u), u.agent.pc \notin Fenced
    PROVE  Leads(w, u)
<1>1. v.goal = w.goal /\ v.log = w.log /\ v.driver.state = w.driver.state
  BY FreedIs
<1> QED  BY <1>1 DEF Leads

\* The wake is forgotten.
LEMMA WakeLeads ==
    ASSUME NEW w, Sound(w), NEW v, v = [w EXCEPT !.agent.wake = FALSE]
    PROVE  Leads(w, v) /\ v.agent.pc = w.agent.pc
<1>1. PICK a : a = [w.agent EXCEPT !.wake = FALSE]  OBVIOUS
<1>2. a \in Agents /\ a.pc = w.agent.pc /\ a.msg = w.agent.msg
  BY <1>1, PartsAre DEF Agents
<1>3. v = [goal |-> w.goal, driver |-> w.driver, agent |-> a, log |-> w.log]
  <2>1. v = [w EXCEPT !.agent = a]  BY <1>1
  <2> QED  BY <2>1, PartsAre
<1>4. Leads(w, v)
  <2>1. PICK d : d = w.driver  OBVIOUS
  <2>2. d \in Drivers  BY <2>1, PartsAre
  <2>3. SameAttempt(w.driver.attempt, d.attempt)  BY <2>1 DEF SameAttempt
  <2>4. v = [goal |-> w.goal, driver |-> d, agent |-> a, log |-> w.log]  BY <1>3, <2>1
  <2> QED  BY <1>2, <2>1, <2>2, <2>3, <2>4, LeadsAside
<1>5. v.agent = a  BY <1>3
<1> QED  BY <1>2, <1>4, <1>5

\* The turn is over, and whatever comes next is not behind a fence.
LEMMA GoesIdleLeads ==
    ASSUME NEW w, Sound(w)
    PROVE  Leads(w, GoesIdle(w)) /\ GoesIdle(w).agent.pc \notin Fenced
<1>1. PICK idle : idle = [w EXCEPT !.agent.pc = "idle", !.agent.msg = None, !.agent.aborted = FALSE]
  OBVIOUS
<1>2. Leads(w, idle) /\ Sound(idle) /\ idle.agent.pc = "idle" /\ idle.goal = w.goal
  <2>1. PICK p \in Goals, d \in Drivers, a \in Agents, l \in Logs :
             w = [goal |-> p, driver |-> d, agent |-> a, log |-> l]
    BY PartsAre
  <2>2. PICK a1 : a1 = [a EXCEPT !.pc = "idle"]  OBVIOUS
  <2>3. PICK a2 : a2 = [a1 EXCEPT !.msg = None]  OBVIOUS
  <2>4. PICK a3 : a3 = [a2 EXCEPT !.aborted = FALSE]  OBVIOUS
  <2>5. PICK w1 : w1 = [w EXCEPT !.agent.pc = "idle"]  OBVIOUS
  <2>6. PICK w2 : w2 = [w1 EXCEPT !.agent.msg = None]  OBVIOUS
  <2>7. idle = [w2 EXCEPT !.agent.aborted = FALSE]  BY <1>1, <2>5, <2>6
  <2>8. w1 = [goal |-> p, driver |-> d, agent |-> a1, log |-> l]  BY <2>1, <2>2, <2>5
  <2>9. w2 = [goal |-> p, driver |-> d, agent |-> a2, log |-> l]  BY <2>3, <2>6, <2>8
  <2>10. idle = [goal |-> p, driver |-> d, agent |-> a3, log |-> l]  BY <2>4, <2>7, <2>9
  <2>11. a1 \in Agents /\ a1.pc = "idle"  BY <2>2 DEF Agents
  <2>12. a2 \in Agents /\ a2.pc = "idle" /\ a2.msg = None  BY <2>3, <2>11 DEF Agents
  <2>13. a3 \in Agents /\ a3.pc = "idle" /\ a3.msg = None  BY <2>4, <2>12 DEF Agents
  <2>14. w.goal = p /\ w.driver = d /\ w.log = l  BY <2>1
  <2>15. a3.pc \notin Fenced /\ a3.pc \notin Running  BY <2>13 DEF Fenced, Running
  <2>16. l.changes >= w.log.changes  BY <2>14, PartsAre
  <2>17. d.attempt # None => Recent(d.attempt.round, p)  BY <2>14 DEF Sound
  <2>18. Leads(w, idle)
    BY <2>10, <2>13, <2>14, <2>15, <2>16, <2>17, LeadsAcross
  <2> QED  BY <2>10, <2>13, <2>14, <2>18 DEF Leads
<1>3. PICK calm : calm = [idle EXCEPT !.driver.competing = FALSE]  OBVIOUS
<1>4. Leads(w, calm) /\ Sound(calm) /\ calm.agent.pc = "idle" /\ calm.goal = w.goal
  <2>1. PICK d : d = [idle.driver EXCEPT !.competing = FALSE]  OBVIOUS
  <2>2. d \in Drivers /\ d.state = idle.driver.state /\ d.attempt = idle.driver.attempt
    BY <1>2, <2>1, PartsAre DEF Drivers
  <2>3. calm = [goal |-> idle.goal, driver |-> d, agent |-> idle.agent, log |-> idle.log]
    <3>1. calm = [idle EXCEPT !.driver = d]  BY <1>3, <2>1
    <3> QED  BY <1>2, <3>1, PartsAre
  <2>4. Leads(idle, calm)
    BY <1>2, <2>2, <2>3, PartsAre, LeadsAside DEF SameAttempt
  <2>5. Leads(w, calm)  BY <1>2, <2>4, LeadsOn
  <2> QED  BY <1>2, <2>3, <2>5 DEF Leads
<1>5. ASSUME NEW u, Leads(w, u), u.agent.pc \notin Fenced
      PROVE  /\ Leads(w, RequestDrive(u)) /\ RequestDrive(u).agent.pc \notin Fenced
             /\ Sound(RequestDrive(u))
  <2>1. Sound(u)  BY <1>5 DEF Leads
  <2>2. Leads(u, RequestDrive(u))  BY <2>1, RequestDriveLeads
  <2>3. Leads(w, RequestDrive(u))  BY <1>5, <2>2, LeadsOn
  <2> QED  BY <1>5, <2>2, <2>3 DEF Leads
<1>6. PICK paused : paused = Change([calm EXCEPT !.driver.attempt = None],
                                    NextRev(w.goal, "paused", FALSE), FALSE)
  OBVIOUS
<1>7. Leads(w, paused) /\ paused.agent.pc \notin Fenced
  <2>1. PICK freed : freed = [calm EXCEPT !.driver.attempt = None]  OBVIOUS
  <2>2. Sound(freed) /\ freed.goal = w.goal /\ freed.agent = calm.agent
    BY <1>4, <2>1, FreedIs
  <2>3. PICK x : x = NextRev(w.goal, "paused", FALSE)  OBVIOUS
  <2>4. x \in Goals /\ Later(w.goal, x) /\ (x.failed => w.goal.failed)
    BY <2>3, NextRevIs, PartsAre
  <2>5. paused = Change(freed, x, FALSE)  BY <1>6, <2>1, <2>3
  <2>6. Leads(freed, paused)  BY <2>2, <2>4, <2>5, ChangeLeads
  <2>7. paused.agent.pc \notin Fenced
    <3>1. freed.agent.pc \notin Fenced  BY <1>4, <2>2 DEF Fenced
    <3> QED  BY <2>6, <3>1 DEF Leads
  <2>8. Leads(calm, paused)  BY <1>4, <2>1, <2>6, <2>7, FreedLeads
  <2>9. Leads(w, paused)  BY <1>4, <2>8, LeadsOn
  <2> QED  BY <2>7, <2>9
<1>8. PICK told : told = IF w.driver.state = "down" THEN idle
                         ELSE IF w.goal.failed THEN calm
                         ELSE IF Dropped(calm) THEN RequestDrive(paused)
                         ELSE RequestDrive(calm)
  OBVIOUS
<1>9. Leads(w, told) /\ Sound(told) /\ told.agent.pc \notin Fenced
  <2>1. "idle" \notin Fenced  BY DEF Fenced
  <2>2. Leads(w, RequestDrive(paused)) /\ RequestDrive(paused).agent.pc \notin Fenced
    BY <1>5, <1>7
  <2>3. Leads(w, RequestDrive(calm)) /\ RequestDrive(calm).agent.pc \notin Fenced
    BY <1>4, <1>5, <2>1
  <2>4. Leads(w, told) /\ told.agent.pc \notin Fenced
    BY <1>2, <1>4, <1>8, <2>1, <2>2, <2>3
  <2> QED  BY <2>4 DEF Leads
<1>10. GoesIdle(w) = IF Wakes(told) THEN Claim(told) ELSE [told EXCEPT !.agent.wake = FALSE]
  BY <1>1, <1>3, <1>6, <1>8 DEF GoesIdle
<1>11. CASE Wakes(told)
  <2>1. Leads(told, Claim(told)) /\ Claim(told).agent.pc = "claimed"
    BY <1>9, <1>11, ClaimLeads DEF Wakes
  <2>2. Leads(w, Claim(told))  BY <1>9, <2>1, LeadsOn
  <2> QED  BY <1>10, <1>11, <2>1, <2>2 DEF Fenced
<1>12. CASE ~Wakes(told)
  <2>1. PICK v : v = [told EXCEPT !.agent.wake = FALSE]  OBVIOUS
  <2>2. Leads(told, v) /\ v.agent.pc = told.agent.pc  BY <1>9, <2>1, WakeLeads
  <2>3. Leads(w, v)  BY <1>9, <2>2, LeadsOn
  <2> QED  BY <1>9, <1>10, <1>12, <2>1, <2>2, <2>3
<1> QED  BY <1>11, <1>12

\* The next prompt opens the next turn, or the agent goes idle.
LEMMA NextTurnLeads ==
    ASSUME NEW w, Sound(w)
    PROVE  Leads(w, NextTurn(w)) /\ NextTurn(w).agent.pc \notin Fenced
<1>1. CASE w.agent.inbox = << >>
  BY <1>1, GoesIdleLeads DEF NextTurn
<1>2. CASE w.agent.inbox # << >>
  BY <1>2, ClaimLeads DEF NextTurn, Fenced
<1> QED  BY <1>1, <1>2

\* What every step keeps, and when one may make the goal unreadable.
Kept == /\ IInv'
        /\ ~goal.failed /\ goal'.failed => changed \/ driver.state = "down"

\* A span that begins where the agent and the goal stand, with the driver as it
\* is or as it unloads, keeps the invariant.
LEMMA LeadsKeeps ==
    ASSUME IInv, NEW w, Sound(w), Held(w), w.goal = goal, w.agent = agent, w.log = log,
           w.driver.state # "down" => driver.state # "down",
           NEW v, Leads(w, v), Becomes(v), Remember, used' \in Usages
    PROVE  Kept
<1>1. goal' = v.goal /\ driver' = v.driver /\ agent' = v.agent /\ log' = v.log
  BY DEF Becomes
<1>2. Sound(v)  BY DEF Leads
<1>3. W' = v  BY <1>1, <1>2, PartsAre DEF W
<1>4. Sound(W)'
  <2>1. Sound(W')  BY <1>2, <1>3
  <2> QED  BY <2>1 DEF Sound
<1>5. Held(v)
  <2> SUFFICES ASSUME v.driver.state # "down", v.agent.pc \in Fenced, v.agent.msg.kind = "goal"
               PROVE  /\ v.driver.attempt # None
                      /\ v.driver.attempt.round = v.agent.msg.round
                      /\ v.driver.attempt.phase # "queued"
    BY DEF Held
  <2>1. /\ v.agent.pc = w.agent.pc /\ v.agent.msg = w.agent.msg
        /\ v.driver.state = w.driver.state
        /\ SameAttempt(w.driver.attempt, v.driver.attempt)
    BY DEF Leads
  <2>2. /\ w.driver.attempt # None /\ w.driver.attempt.round = w.agent.msg.round
        /\ w.driver.attempt.phase # "queued"
    BY <2>1 DEF Held
  <2> QED  BY <2>1, <2>2 DEF SameAttempt
<1>6. Held(W)'
  <2>1. Held(W')  BY <1>3, <1>5
  <2> QED  BY <2>1 DEF Held
<1>7. changed' \in BOOLEAN  BY DEF Remember
<1>8. Prepared'
  <2> SUFFICES ASSUME agent'.pc = "preparing", agent'.msg.kind = "goal",
                      driver'.state # "down", ~changed', ~goal'.failed
               PROVE  Admissible(goal', agent'.msg)
    BY DEF Prepared, Admissible, Round
  <2>1. agent'.pc \in Fenced  BY DEF Fenced
  <2>2. /\ agent'.pc = agent.pc /\ agent'.msg = agent.msg
        /\ driver'.state = w.driver.state
        /\ log'.changes = log.changes => SameGoal(goal, goal')
    BY <1>1, <2>1 DEF Leads
  <2>3. ~changed /\ log'.changes = log.changes
    BY <2>2 DEF Remember
  <2>4. SameGoal(goal, goal')  BY <2>2, <2>3
  <2>5. Admissible(goal, agent.msg)
    BY <2>2, <2>3, <2>4 DEF IInv, Prepared, SameGoal
  <2> QED  BY <2>2, <2>4, <2>5 DEF Admissible, Round, SameGoal
<1>9. goal'.failed => goal.failed  BY <1>1 DEF Leads
<1> QED  BY <1>4, <1>6, <1>7, <1>8, <1>9 DEF Kept, IInv

\* A span that begins where the system stands.
LEMMA SpanKeeps ==
    ASSUME IInv, NEW v, Leads(W, v), Becomes(v), Remember, used' \in Usages
    PROVE  Kept
<1>1. PICK w : w = W  OBVIOUS
<1>2. w.goal = goal /\ w.agent = agent /\ w.log = log /\ w.driver = driver
  BY <1>1 DEF W
<1>3. Sound(w) /\ Held(w) /\ Leads(w, v)  BY <1>1 DEF IInv
<1> QED  BY <1>2, <1>3, LeadsKeeps

\* What the invariant says of the record of a span.
LEMMA HereIs ==
    ASSUME IInv
    PROVE  /\ Sound(W) /\ W.goal = goal /\ W.driver = driver /\ W.agent = agent /\ W.log = log
           /\ goal \in Goals /\ driver \in Drivers /\ agent \in Agents /\ log \in Logs
           /\ used \in Usages
<1>1. W.goal = goal /\ W.driver = driver /\ W.agent = agent /\ W.log = log  BY DEF W
<1>2. Sound(W) /\ used \in Usages  BY DEF IInv
<1>3. W \in Spans  BY <1>2 DEF Sound
<1>4. W.goal \in Goals /\ W.driver \in Drivers /\ W.agent \in Agents /\ W.log \in Logs
  BY <1>3 DEF Spans
<1> QED  BY <1>1, <1>2, <1>4

\* Each bound is kept.
LEMMA UsesKeeps ==
    ASSUME used \in Usages,
           \/ Uses("changes", MaxChanges) \/ Uses("prompts", MaxPrompts)
           \/ Uses("maintenances", MaxMaintenances) \/ Uses("cancels", MaxCancels)
           \/ Uses("failures", MaxFailures)
    PROVE  used' \in Usages
<1>1. /\ MaxChanges \in Nat /\ MaxPrompts \in Nat /\ MaxMaintenances \in Nat
      /\ MaxCancels \in Nat /\ MaxFailures \in Nat
  BY BoundsAssumption
<1>2. /\ used.changes \in 0..MaxChanges /\ used.prompts \in 0..MaxPrompts
      /\ used.maintenances \in 0..MaxMaintenances /\ used.cancels \in 0..MaxCancels
      /\ used.failures \in 0..MaxFailures
  BY DEF Usages
<1>3. CASE Uses("changes", MaxChanges)
  <2>1. PICK n : n = used.changes + 1  OBVIOUS
  <2>2. n \in 0..MaxChanges  BY <1>1, <1>2, <1>3, <2>1 DEF Uses
  <2>3. used' = [used EXCEPT !.changes = n]  BY <1>3, <2>1 DEF Uses
  <2> QED  BY <2>2, <2>3 DEF Usages
<1>4. CASE Uses("prompts", MaxPrompts)
  <2>1. PICK n : n = used.prompts + 1  OBVIOUS
  <2>2. n \in 0..MaxPrompts  BY <1>1, <1>2, <1>4, <2>1 DEF Uses
  <2>3. used' = [used EXCEPT !.prompts = n]  BY <1>4, <2>1 DEF Uses
  <2> QED  BY <2>2, <2>3 DEF Usages
<1>5. CASE Uses("maintenances", MaxMaintenances)
  <2>1. PICK n : n = used.maintenances + 1  OBVIOUS
  <2>2. n \in 0..MaxMaintenances  BY <1>1, <1>2, <1>5, <2>1 DEF Uses
  <2>3. used' = [used EXCEPT !.maintenances = n]  BY <1>5, <2>1 DEF Uses
  <2> QED  BY <2>2, <2>3 DEF Usages
<1>6. CASE Uses("cancels", MaxCancels)
  <2>1. PICK n : n = used.cancels + 1  OBVIOUS
  <2>2. n \in 0..MaxCancels  BY <1>1, <1>2, <1>6, <2>1 DEF Uses
  <2>3. used' = [used EXCEPT !.cancels = n]  BY <1>6, <2>1 DEF Uses
  <2> QED  BY <2>2, <2>3 DEF Usages
<1>7. CASE Uses("failures", MaxFailures)
  <2>1. PICK n : n = used.failures + 1  OBVIOUS
  <2>2. n \in 0..MaxFailures  BY <1>1, <1>2, <1>7, <2>1 DEF Uses
  <2>3. used' = [used EXCEPT !.failures = n]  BY <1>7, <2>1 DEF Uses
  <2> QED  BY <2>2, <2>3 DEF Usages
<1> QED  BY <1>3, <1>4, <1>5, <1>6, <1>7

\* A change of the goal to a later revision.
LEMMA MutatesKeeps ==
    ASSUME IInv, NEW x \in Goals, Later(goal, x), ~x.failed \/ goal.failed,
           NEW hostPauses \in BOOLEAN, Mutates(x, hostPauses)
    PROVE  Kept
<1>1. PICK v : v = Change(W, x, hostPauses)  OBVIOUS
<1>2. Sound(W) /\ W.goal = goal  BY HereIs
<1>3. Leads(W, v)  BY <1>1, <1>2, ChangeLeads
<1>4. Becomes(v) /\ Remember /\ used' \in Usages
  BY <1>1, HereIs, UsesKeeps DEF Mutates
<1> QED  BY <1>3, <1>4, SpanKeeps

\* People and the model change the goal: create, edit, pause, resume, complete,
\* block and clear.
LEMMA GoalStepKeeps ==
    ASSUME IInv, GoalStep
    PROVE  Kept
<1>1. goal \in Goals /\ goal.id \in Nat /\ goal.rev \in Nat  BY HereIs DEF Goals
<1>2. ASSUME NEW cap \in 1..MaxGoalRounds, Create(cap)  PROVE Kept
  <2>1. PICK x : x = [id |-> goal.id + 1, rev |-> 1, phase |-> "active", cap |-> cap, rounds |-> 0,
                      armed |-> TRUE, failed |-> FALSE]
    OBVIOUS
  <2>2. x \in Goals /\ x.id = goal.id + 1 /\ ~x.failed
    BY <1>1, <2>1 DEF Goals
  <2>3. Later(goal, x)  BY <1>1, <2>2 DEF Later
  <2>4. Mutates(x, FALSE)  BY <1>2, <2>1 DEF Create
  <2> QED  BY <2>2, <2>3, <2>4, MutatesKeeps
<1>3. ASSUME NEW cap \in 1..MaxGoalRounds, Edit(cap)  PROVE Kept
  <2>1. PICK x : x = [goal EXCEPT !.rev = @ + 1, !.cap = cap]  OBVIOUS
  <2>2. PICK n : n = goal.rev + 1  OBVIOUS
  <2>3. n \in Nat /\ n > goal.rev  BY <1>1, <2>2
  <2>4. cap \in Nat  OBVIOUS
  <2>5. x = [goal EXCEPT !.rev = n, !.cap = cap]  BY <2>1, <2>2
  <2>6. x \in Goals /\ x.id = goal.id /\ x.rev = n /\ x.failed = goal.failed
    BY <1>1, <2>3, <2>4, <2>5 DEF Goals
  <2>7. Later(goal, x)  BY <2>3, <2>6 DEF Later
  <2>8. Mutates(x, FALSE)  BY <1>3, <2>1 DEF Edit
  <2>9. ~x.failed \/ goal.failed  BY <1>1, <2>6 DEF Goals
  <2> QED  BY <2>6, <2>7, <2>8, <2>9, MutatesKeeps
<1>4. ASSUME NEW phase \in {"none", "active", "paused", "blocked", "complete"},
             NEW armed \in BOOLEAN, NEW host \in BOOLEAN, Mutates(NextRev(goal, phase, armed), host)
      PROVE  Kept
  <2>1. PICK x : x = NextRev(goal, phase, armed)  OBVIOUS
  <2>2. x \in Goals /\ Later(goal, x) /\ x.failed = goal.failed
    BY <1>1, <2>1, NextRevIs
  <2>3. ~x.failed \/ goal.failed  BY <1>1, <2>2 DEF Goals
  <2>4. Mutates(x, host)  BY <1>4, <2>1
  <2> QED  BY <2>2, <2>3, <2>4, MutatesKeeps
<1>5. ASSUME NEW host \in BOOLEAN, Pause(host)  PROVE Kept
  BY <1>4, <1>5 DEF Pause
<1>6. CASE Resume  BY <1>4, <1>6 DEF Resume
<1>7. CASE Complete  BY <1>4, <1>7 DEF Complete
<1>8. CASE Block  BY <1>4, <1>8 DEF Block
<1>9. CASE Clear
  <2>1. PICK y : y = NextRev(goal, "none", FALSE)  OBVIOUS
  <2>2. y \in Goals /\ Later(goal, y) /\ y.failed = goal.failed
    BY <1>1, <2>1, NextRevIs
  <2>3. PICK x : x = [y EXCEPT !.rounds = 0]  OBVIOUS
  <2>4. x \in Goals /\ x.id = y.id /\ x.rev = y.rev /\ x.failed = goal.failed
    BY <2>2, <2>3 DEF Goals
  <2>5. Later(goal, x)  BY <2>2, <2>4 DEF Later
  <2>6. ~x.failed \/ goal.failed  BY <1>1, <2>4 DEF Goals
  <2>7. Mutates(x, FALSE)  BY <1>9, <2>1, <2>3 DEF Clear
  <2> QED  BY <2>4, <2>5, <2>6, <2>7, MutatesKeeps
<1> QED  BY <1>2, <1>3, <1>5, <1>6, <1>7, <1>8, <1>9 DEF GoalStep

\* A person prompts.
LEMMA PromptsKeeps ==
    ASSUME IInv, Prompts
    PROVE  Kept
<1>1. PICK v : v = Followup(W, Human)  OBVIOUS
<1>2. Human \in Messages  BY DEF Messages
<1>3. Leads(W, v)  BY <1>1, <1>2, HereIs, FollowupLeads
<1>4. Becomes(v) /\ Remember /\ used' \in Usages  BY <1>1, HereIs, UsesKeeps DEF Prompts
<1> QED  BY <1>3, <1>4, SpanKeeps

\* A person cancels.
LEMMA CancelsKeeps ==
    ASSUME IInv, NEW keepInbox \in BOOLEAN, Cancels(keepInbox)
    PROVE  Kept
<1>1. PICK v : v = Cancel(W, keepInbox)  OBVIOUS
<1>2. Leads(W, v)  BY <1>1, HereIs, CancelLeads
<1>3. Becomes(v) /\ Remember /\ used' \in Usages  BY <1>1, HereIs, UsesKeeps DEF Cancels
<1> QED  BY <1>2, <1>3, SpanKeeps

\* The agent between idle and maintenance, without a prompt.
LEMMA RestLeads ==
    ASSUME IInv, agent.pc \notin Running, NEW a \in Agents, a.pc \notin Running, a.msg = agent.msg,
           NEW v, v = [goal |-> goal, driver |-> driver, agent |-> a, log |-> log]
    PROVE  Leads(W, v)
<1>1. PICK w : w = W  OBVIOUS
<1>2. /\ Sound(w) /\ w.goal = goal /\ w.driver = driver /\ w.agent = agent /\ w.log = log
      /\ goal \in Goals /\ driver \in Drivers /\ log \in Logs
  BY <1>1, HereIs
<1>3. a.pc \notin Fenced  BY DEF Fenced, Running
<1>4. log.changes >= w.log.changes  BY <1>2, PartsAre
<1>5. driver.attempt # None => Recent(driver.attempt.round, goal)  BY <1>2 DEF Sound
<1>6. a.msg = None  BY <1>2 DEF Sound
<1>7. Leads(w, v)  BY <1>2, <1>3, <1>4, <1>5, <1>6, LeadsAcross
<1> QED  BY <1>1, <1>7

\* Maintenance takes the idle agent.
LEMMA MaintenanceStartsKeeps ==
    ASSUME IInv, MaintenanceStarts
    PROVE  Kept
<1>1. PICK a : a = [agent EXCEPT !.pc = "maintenance", !.wake = FALSE]  OBVIOUS
<1>2. a \in Agents /\ a.pc = "maintenance" /\ a.msg = agent.msg
  <2>1. PICK a1 : a1 = [agent EXCEPT !.pc = "maintenance"]  OBVIOUS
  <2>2. a1 \in Agents /\ a1.pc = "maintenance" /\ a1.msg = agent.msg
    BY <2>1, HereIs DEF Agents
  <2>3. a = [a1 EXCEPT !.wake = FALSE]  BY <1>1, <2>1
  <2> QED  BY <2>2, <2>3 DEF Agents
<1>3. PICK v : v = [goal |-> goal, driver |-> driver, agent |-> a, log |-> log]  OBVIOUS
<1>4. agent.pc \notin Running /\ a.pc \notin Running
  BY <1>2 DEF MaintenanceStarts, Running
<1>5. Leads(W, v)  BY <1>2, <1>3, <1>4, RestLeads
<1>6. Becomes(v)  BY <1>1, <1>3 DEF MaintenanceStarts, Becomes
<1>7. Remember /\ used' \in Usages  BY HereIs, UsesKeeps DEF MaintenanceStarts
<1> QED  BY <1>5, <1>6, <1>7, SpanKeeps

\* Maintenance ends, and a latched wake starts the turn.
LEMMA MaintenanceEndsKeeps ==
    ASSUME IInv, MaintenanceEnds
    PROVE  Kept
<1>1. PICK a1 : a1 = [agent EXCEPT !.pc = "idle"]  OBVIOUS
<1>2. PICK a : a = [a1 EXCEPT !.aborted = FALSE]  OBVIOUS
<1>3. a \in Agents /\ a.pc = "idle" /\ a.msg = agent.msg
  <2>1. a1 \in Agents /\ a1.pc = "idle" /\ a1.msg = agent.msg
    BY <1>1, HereIs DEF Agents
  <2> QED  BY <1>2, <2>1 DEF Agents
<1>4. PICK idle : idle = [W EXCEPT !.agent.pc = "idle", !.agent.aborted = FALSE]  OBVIOUS
<1>5. idle = [goal |-> goal, driver |-> driver, agent |-> a, log |-> log]
  <2>1. PICK c : c = [W EXCEPT !.agent.pc = "idle"]  OBVIOUS
  <2>2. c = [goal |-> goal, driver |-> driver, agent |-> a1, log |-> log]
    BY <1>1, <2>1 DEF W
  <2>3. idle = [c EXCEPT !.agent.aborted = FALSE]  BY <1>4, <2>1
  <2> QED  BY <1>2, <2>2, <2>3
<1>6. agent.pc \notin Running /\ a.pc \notin Running
  BY <1>3 DEF MaintenanceEnds, Running
<1>7. Leads(W, idle)  BY <1>3, <1>5, <1>6, RestLeads
<1>8. Sound(idle) /\ Sound(W)  BY <1>7, HereIs DEF Leads
<1>9. PICK v : v = IF Wakes(idle) THEN Claim(idle) ELSE [idle EXCEPT !.agent.wake = FALSE]
  OBVIOUS
<1>10. Leads(idle, v)
  <2>1. CASE Wakes(idle)  BY <1>8, <1>9, <2>1, ClaimLeads DEF Wakes
  <2>2. CASE ~Wakes(idle)
    <3>1. v = [idle EXCEPT !.agent.wake = FALSE]  BY <1>9, <2>2
    <3> QED  BY <1>8, <3>1, WakeLeads
  <2> QED  BY <2>1, <2>2
<1>11. Leads(W, v)
  <2>1. PICK w : w = W  OBVIOUS
  <2>2. Leads(w, v)  BY <1>7, <1>8, <1>10, <2>1, LeadsOn
  <2> QED  BY <2>1, <2>2
<1>12. Becomes(v) /\ Remember /\ used' \in Usages
  BY <1>4, <1>9, HereIs DEF MaintenanceEnds
<1> QED  BY <1>11, <1>12, SpanKeeps

\* A turn that ends keeps the invariant, its round reserved or given up.
LEMMA EndsKeeps ==
    ASSUME IInv, NEW v, Leads(W, v) \/ (v.agent.pc \notin Fenced
                                        /\ Leads([W EXCEPT !.driver.attempt = None], v)),
           Becomes(v), Remember, used' \in Usages
    PROVE  Kept
<1>1. CASE Leads(W, v)  BY <1>1, SpanKeeps
<1>2. CASE v.agent.pc \notin Fenced /\ Leads([W EXCEPT !.driver.attempt = None], v)
  <2>1. PICK w : w = W  OBVIOUS
  <2>2. PICK freed : freed = [w EXCEPT !.driver.attempt = None]  OBVIOUS
  <2>3. Sound(w) /\ Leads(freed, v)  BY <1>2, <2>1, <2>2, HereIs
  <2>4. Leads(w, v)  BY <1>2, <2>2, <2>3, FreedLeads
  <2> QED  BY <2>1, <2>4, SpanKeeps
<1> QED  BY <1>1, <1>2

\* The reservation is given up where the span begins.
LEMMA FreedHere ==
    ASSUME IInv, NEW freed, freed = [W EXCEPT !.driver.attempt = None]
    PROVE  Sound(freed) /\ freed.goal = goal /\ freed.driver.state = driver.state
<1>1. PICK w : w = W  OBVIOUS
<1>2. Sound(w) /\ w.goal = goal /\ w.driver = driver  BY <1>1, HereIs
<1>3. freed = [w EXCEPT !.driver.attempt = None]  BY <1>1
<1> QED  BY <1>2, <1>3, FreedIs

\* A step through a fence takes its reservation along.
LEMMA FencePasses ==
    ASSUME IInv, agent.pc \in Running, NEW pc \in {"hooks", "preparing"}, Goes(pc), Remember,
           agent.msg.kind # "goal" \/ driver.state = "down" \/ ValidReservation(W)
    PROVE  Kept
<1>1. PICK w : w = W  OBVIOUS
<1>2. /\ Sound(w) /\ w.goal = goal /\ w.driver = driver /\ w.agent = agent /\ w.log = log
      /\ goal \in Goals /\ driver \in Drivers /\ agent \in Agents /\ log \in Logs
      /\ used \in Usages
  BY <1>1, HereIs
<1>3. PICK a : a = [agent EXCEPT !.pc = pc]  OBVIOUS
<1>4. a \in Agents /\ a.pc = pc /\ a.msg = agent.msg
  BY <1>2, <1>3 DEF Agents, Running
<1>5. agent' = a /\ goal' = goal /\ driver' = driver /\ log' = log /\ used' = used
  BY <1>3 DEF Goes
<1>6. PICK v : v = [goal |-> goal, driver |-> driver, agent |-> a, log |-> log]  OBVIOUS
<1>7. W' = v  BY <1>5, <1>6 DEF W
<1>8. v \in Spans /\ v.goal = goal /\ v.driver = driver /\ v.agent = a /\ v.log = log
  BY <1>2, <1>4, <1>6, SpanIs
<1>9. agent.msg # None  BY <1>2 DEF Sound
<1>10. pc \in Running  BY DEF Running
<1>11. Sound(v)  BY <1>2, <1>4, <1>8, <1>9, <1>10 DEF Sound
<1>12. (driver.state # "down" /\ agent.msg.kind = "goal") =>
          /\ driver.attempt # None /\ driver.attempt.round = agent.msg.round
          /\ driver.attempt.phase = "claimed" /\ Armed(goal)
          /\ driver.attempt.round = Round(goal)
  <2>1. ValidReservation(w) <=> ValidReservation(W)  BY <1>1
  <2>2. ValidReservation(w) => /\ driver.attempt # None
                               /\ driver.attempt.round = agent.msg.round
                               /\ driver.attempt.phase = "claimed" /\ Armed(goal)
                               /\ driver.attempt.round = Round(goal)
    BY <1>2 DEF ValidReservation, Own
  <2> QED  BY <2>1, <2>2
<1>13. Held(v)  BY <1>4, <1>8, <1>12 DEF Held
<1>14. (driver.state # "down" /\ agent.msg.kind = "goal") => Admissible(goal, agent.msg)
  <2> SUFFICES ASSUME driver.state # "down", agent.msg.kind = "goal"
               PROVE  Admissible(goal, agent.msg)
    OBVIOUS
  <2>1. Recent(driver.attempt.round, goal)  BY <1>2, <1>12 DEF Sound
  <2>2. driver.attempt.round.id = goal.id /\ driver.attempt.round.rev = goal.rev
    BY <1>12 DEF Round
  <2>3. goal.id \in Nat /\ goal.rev \in Nat  BY <1>2 DEF Goals
  <2>4. driver.attempt.round.round <= goal.cap  BY <2>1, <2>2, <2>3 DEF Recent
  <2>5. goal.phase = "active"  BY <1>12 DEF Armed
  <2> QED  BY <1>12, <2>4, <2>5 DEF Admissible
<1>15. Sound(W)' /\ Held(W)'
  <2>1. Sound(W') /\ Held(W')  BY <1>7, <1>11, <1>13
  <2> QED  BY <2>1 DEF Sound, Held
<1>16. Prepared'
  <2>1. agent'.msg = agent.msg  BY <1>4, <1>5
  <2> QED  BY <1>5, <1>14, <2>1 DEF Prepared, Admissible, Round
<1>17. changed' \in BOOLEAN  BY DEF Remember
<1> QED  BY <1>2, <1>5, <1>15, <1>16, <1>17 DEF Kept, IInv

\* The first fence: the round goes on with its reservation, or is dropped.
LEMMA FenceFirstKeeps ==
    ASSUME IInv, FenceFirst
    PROVE  Kept
<1>1. CASE agent.msg.kind # "goal" \/ driver.state = "down" \/ ValidReservation(W)
  <2>1. Goes("hooks") /\ Remember /\ agent.pc \in Running
    BY <1>1 DEF FenceFirst, Running
  <2> QED  BY <1>1, <2>1, FencePasses
<1>2. CASE ~(agent.msg.kind # "goal" \/ driver.state = "down" \/ ValidReservation(W))
  <2>1. PICK freed : freed = [W EXCEPT !.driver.attempt = None]  OBVIOUS
  <2>2. PICK w : w = IF Own(W, agent.msg) THEN freed ELSE W  OBVIOUS
  <2>3. Sound(w) /\ (w = W \/ w = freed)  BY <2>1, <2>2, FreedHere, HereIs
  <2>4. PICK u : u = RequestDrive(w)  OBVIOUS
  <2>5. Leads(w, u) /\ Sound(u)
    <3>1. Leads(w, u)  BY <2>3, <2>4, RequestDriveLeads
    <3> QED  BY <3>1 DEF Leads
  <2>6. PICK v : v = GoesIdle(u)  OBVIOUS
  <2>7. Leads(u, v) /\ v.agent.pc \notin Fenced  BY <2>5, <2>6, GoesIdleLeads
  <2>8. Leads(w, v)  BY <2>3, <2>5, <2>7, LeadsOn
  <2>9. Becomes(v) /\ Remember /\ used' \in Usages
    BY <1>2, <2>1, <2>2, <2>4, <2>6, HereIs DEF FenceFirst, Rejected
  <2>10. Leads(W, v) \/ Leads([W EXCEPT !.driver.attempt = None], v)
    BY <2>1, <2>3, <2>8
  <2> QED  BY <2>7, <2>9, <2>10, EndsKeeps
<1> QED  BY <1>1, <1>2

\* The second fence, after the hooks were awaited.
LEMMA FenceAgainKeeps ==
    ASSUME IInv, FenceAgain
    PROVE  Kept
<1>1. CASE agent.msg.kind # "goal" \/ driver.state = "down" \/ ValidReservation(W)
  <2>1. Goes("preparing") /\ Remember /\ agent.pc \in Running
    BY <1>1 DEF FenceAgain, Running
  <2> QED  BY <1>1, <2>1, FencePasses
<1>2. CASE ~(agent.msg.kind # "goal" \/ driver.state = "down" \/ ValidReservation(W))
  <2>1. PICK freed : freed = [W EXCEPT !.driver.attempt = None]  OBVIOUS
  <2>2. Sound(freed)  BY <2>1, FreedHere
  <2>3. PICK u : u = RequestDrive(freed)  OBVIOUS
  <2>4. Leads(freed, u) /\ Sound(u)
    <3>1. Leads(freed, u)  BY <2>2, <2>3, RequestDriveLeads
    <3> QED  BY <3>1 DEF Leads
  <2>5. PICK v : v = GoesIdle(u)  OBVIOUS
  <2>6. Leads(u, v) /\ v.agent.pc \notin Fenced  BY <2>4, <2>5, GoesIdleLeads
  <2>7. Leads(freed, v)  BY <2>2, <2>4, <2>6, LeadsOn
  <2>8. Becomes(v) /\ Remember /\ used' \in Usages
    BY <1>2, <2>1, <2>3, <2>5, HereIs DEF FenceAgain, Rejected
  <2> QED  BY <2>1, <2>6, <2>7, <2>8, EndsKeeps
<1> QED  BY <1>1, <1>2

\* A hook rejects the step.
LEMMA HookRejectsKeeps ==
    ASSUME IInv, HookRejects
    PROVE  Kept
<1>1. PICK fenced : fenced = (agent.msg.kind = "goal" /\ driver.state # "down")  OBVIOUS
<1>2. PICK freed : freed = [W EXCEPT !.driver.attempt = None]  OBVIOUS
<1>3. PICK w : w = IF fenced THEN freed ELSE W  OBVIOUS
<1>4. Sound(w) /\ (w = W \/ w = freed) /\ w.goal = goal
  BY <1>2, <1>3, FreedHere, HereIs
<1>5. PICK x : x = NextRev(goal, "blocked", FALSE)  OBVIOUS
<1>6. x \in Goals /\ Later(w.goal, x) /\ (x.failed => w.goal.failed)
  BY <1>4, <1>5, NextRevIs, HereIs
<1>7. PICK u : u = IF fenced /\ IsLive(agent.msg.round, goal) THEN Change(w, x, FALSE) ELSE w
  OBVIOUS
<1>8. Leads(w, u) /\ Sound(u)
  <2>1. Leads(w, Change(w, x, FALSE))  BY <1>4, <1>6, ChangeLeads
  <2>2. Leads(w, w)  BY <1>4, LeadsHere
  <2>3. Leads(w, u)  BY <1>7, <2>1, <2>2
  <2> QED  BY <2>3 DEF Leads
<1>9. PICK v : v = GoesIdle(u)  OBVIOUS
<1>10. Leads(u, v) /\ v.agent.pc \notin Fenced  BY <1>8, <1>9, GoesIdleLeads
<1>11. Leads(w, v)  BY <1>4, <1>8, <1>10, LeadsOn
<1>12. Becomes(v) /\ Remember /\ used' \in Usages
  <2>1. Uses("failures", MaxFailures) /\ Remember  BY DEF HookRejects
  <2>2. used' \in Usages  BY <2>1, HereIs, UsesKeeps
  <2>3. Becomes(v)
    BY <1>1, <1>2, <1>3, <1>5, <1>7, <1>9 DEF HookRejects, Rejected
  <2> QED  BY <2>1, <2>2, <2>3
<1>13. Leads(W, v) \/ Leads([W EXCEPT !.driver.attempt = None], v)
  BY <1>2, <1>4, <1>11
<1> QED  BY <1>10, <1>12, <1>13, EndsKeeps

\* The prompt enters the history.
LEMMA MessagesEnterKeeps ==
    ASSUME IInv, MessagesEnter
    PROVE  Kept
<1>1. PICK w : w = W  OBVIOUS
<1>2. /\ Sound(w) /\ w.goal = goal /\ w.driver = driver /\ w.agent = agent /\ w.log = log
      /\ goal \in Goals /\ driver \in Drivers /\ agent \in Agents /\ log \in Logs
      /\ used \in Usages /\ Held(w)
  BY <1>1, HereIs DEF IInv
<1>3. PICK x : x = Fold(goal, agent.msg)  OBVIOUS
<1>4. /\ x \in Goals /\ x.id = goal.id /\ x.rev = goal.rev /\ x.cap = goal.cap
      /\ (~goal.failed /\ x.failed => agent.msg.kind = "goal" /\ ~Admissible(goal, agent.msg))
  <2>1. CASE x = goal  BY <1>2, <2>1
  <2>2. CASE x = [goal EXCEPT !.rounds = @ + 1]
    <3>1. PICK n : n = goal.rounds + 1  OBVIOUS
    <3>2. n \in Nat  BY <1>2, <3>1 DEF Goals
    <3>3. x = [goal EXCEPT !.rounds = n]  BY <2>2, <3>1
    <3>4. x.failed = goal.failed  BY <1>2, <3>3 DEF Goals
    <3> QED  BY <1>2, <3>2, <3>3, <3>4 DEF Goals
  <2>3. CASE /\ x = [goal EXCEPT !.failed = TRUE]
             /\ agent.msg.kind = "goal" /\ ~Admissible(goal, agent.msg)
    BY <1>2, <2>3 DEF Goals
  <2> QED  BY <1>3, <2>1, <2>2, <2>3 DEF Fold
<1>5. PICK b : b = IF driver.attempt # None /\ agent.msg.kind = "goal"
                      /\ driver.attempt.mid = agent.msg.mid
                   THEN [driver.attempt EXCEPT !.phase = "admitted"] ELSE driver.attempt
  OBVIOUS
<1>6. /\ b \in {None} \cup Attempts /\ SameAttempt(driver.attempt, b)
      /\ b # None => driver.attempt # None /\ b.round = driver.attempt.round
  <2>1. driver.attempt \in {None} \cup Attempts  BY <1>2 DEF Drivers
  <2>2. CASE b = driver.attempt  BY <2>1, <2>2 DEF SameAttempt
  <2>3. CASE driver.attempt # None /\ b = [driver.attempt EXCEPT !.phase = "admitted"]
    BY <2>1, <2>3 DEF SameAttempt, Attempts, None
  <2> QED  BY <1>5, <2>2, <2>3
<1>7. PICK d : d = [driver EXCEPT !.attempt = b]  OBVIOUS
<1>8. d \in Drivers /\ d.attempt = b /\ d.state = driver.state
  BY <1>2, <1>6, <1>7, AttemptIs
<1>9. PICK a : a = [agent EXCEPT !.pc = "stepping"]  OBVIOUS
<1>10. a \in Agents /\ a.pc = "stepping" /\ a.msg = agent.msg
  BY <1>2, <1>9 DEF Agents, Running
<1>11. agent.pc = "preparing"  BY DEF MessagesEnter
<1>12. /\ agent' = a /\ goal' = x /\ log' = log /\ used' = used
  BY <1>3, <1>9 DEF MessagesEnter
<1>13. driver' = d  BY <1>5, <1>7 DEF MessagesEnter
<1>14. PICK v : v = [goal |-> x, driver |-> d, agent |-> a, log |-> log]  OBVIOUS
<1>15. W' = v  BY <1>12, <1>13, <1>14 DEF W
<1>16. v \in Spans /\ v.goal = x /\ v.driver = d /\ v.agent = a /\ v.log = log
  BY <1>2, <1>4, <1>8, <1>10, <1>14, SpanIs
<1>17. Sound(v)
  <2>1. agent.msg # None  BY <1>2, <1>11 DEF Sound, Running
  <2>2. b # None => Recent(b.round, x)  BY <1>2, <1>4, <1>6 DEF Sound, Recent
  <2> QED  BY <1>8, <1>10, <1>16, <2>1, <2>2 DEF Sound, Running
<1>18. Held(v)
  <2> SUFFICES ASSUME driver.state # "down", agent.msg.kind = "goal"
               PROVE  b # None /\ b.round = agent.msg.round /\ b.phase # "queued"
    BY <1>8, <1>10, <1>16 DEF Held
  <2>1. driver.attempt # None /\ driver.attempt.round = agent.msg.round
        /\ driver.attempt.phase # "queued"
    BY <1>2, <1>11 DEF Held, Fenced
  <2> QED  BY <1>6, <2>1 DEF SameAttempt
<1>19. Sound(W)' /\ Held(W)'
  <2>1. Sound(W') /\ Held(W')  BY <1>15, <1>17, <1>18
  <2> QED  BY <2>1 DEF Sound, Held
<1>20. Prepared'  BY <1>10, <1>12 DEF Prepared
<1>21. changed' \in BOOLEAN  BY DEF MessagesEnter, Remember
<1>22. ~goal.failed /\ goal'.failed => changed \/ driver.state = "down"
  BY <1>4, <1>11, <1>12 DEF IInv, Prepared
<1> QED  BY <1>2, <1>12, <1>19, <1>20, <1>21, <1>22 DEF Kept, IInv

\* A round is marked as cancelled or as stale.
LEMMA MarksLeads ==
    ASSUME NEW w, Sound(w), w.driver.attempt # None, NEW v,
           \/ v = [w EXCEPT !.driver.attempt.cancelled = TRUE]
           \/ v = [w EXCEPT !.driver.attempt.stale = TRUE]
    PROVE  Leads(w, v)
<1>1. PICK p \in Goals, d \in Drivers, a \in Agents, l \in Logs :
           w = [goal |-> p, driver |-> d, agent |-> a, log |-> l]
  BY PartsAre
<1>2. w.goal = p /\ w.driver = d /\ w.agent = a /\ w.log = l  BY <1>1
<1>3. d.attempt \in Attempts  BY <1>2 DEF Drivers
<1>4. ASSUME NEW b, b = [d.attempt EXCEPT !.cancelled = TRUE] \/ b = [d.attempt EXCEPT !.stale = TRUE],
             NEW e, e = [d EXCEPT !.attempt = b],
             v = [goal |-> p, driver |-> e, agent |-> a, log |-> l]
      PROVE  Leads(w, v)
  <2>1. b \in Attempts /\ SameAttempt(d.attempt, b) /\ b.round = d.attempt.round
    BY <1>3, <1>4, MarkedIs
  <2>2. e \in Drivers /\ e.attempt = b /\ e.state = d.state
    BY <1>4, <2>1, AttemptIs
  <2> QED  BY <1>2, <1>4, <2>1, <2>2, LeadsAside
<1>5. CASE v = [w EXCEPT !.driver.attempt.cancelled = TRUE]
  <2>1. PICK b : b = [d.attempt EXCEPT !.cancelled = TRUE]  OBVIOUS
  <2>2. PICK e : e = [d EXCEPT !.attempt = b]  OBVIOUS
  <2>3. v = [goal |-> p, driver |-> e, agent |-> a, log |-> l]
    BY <1>1, <1>5, <2>1, <2>2
  <2> QED  BY <1>4, <2>1, <2>2, <2>3
<1>6. CASE v = [w EXCEPT !.driver.attempt.stale = TRUE]
  <2>1. PICK b : b = [d.attempt EXCEPT !.stale = TRUE]  OBVIOUS
  <2>2. PICK e : e = [d EXCEPT !.attempt = b]  OBVIOUS
  <2>3. v = [goal |-> p, driver |-> e, agent |-> a, log |-> l]
    BY <1>1, <1>6, <2>1, <2>2
  <2> QED  BY <1>4, <2>1, <2>2, <2>3
<1> QED  BY <1>5, <1>6

\* A turn completes.
LEMMA TurnCompletesKeeps ==
    ASSUME IInv, TurnCompletes
    PROVE  Kept
<1>1. PICK v : v = NextTurn(W)  OBVIOUS
<1>2. Leads(W, v)  BY <1>1, HereIs, NextTurnLeads
<1>3. Becomes(v) /\ Remember /\ used' \in Usages  BY <1>1, HereIs DEF TurnCompletes
<1> QED  BY <1>2, <1>3, SpanKeeps

\* A turn ends at the token ceiling.
LEMMA TurnHitsCeilingKeeps ==
    ASSUME IInv, TurnHitsCeiling
    PROVE  Kept
<1>1. PICK w : w = W  OBVIOUS
<1>2. Sound(w) /\ w.driver = driver  BY <1>1, HereIs
<1>3. PICK u : u = IF driver.state = "down" THEN w ELSE Disarm(w)  OBVIOUS
<1>4. Leads(w, u) /\ Sound(u)
  <2>1. Leads(w, w) /\ Leads(w, Disarm(w))  BY <1>2, LeadsHere, DisarmLeads
  <2>2. Leads(w, u)  BY <1>3, <2>1
  <2> QED  BY <2>2 DEF Leads
<1>5. PICK v : v = NextTurn(u)  OBVIOUS
<1>6. Leads(u, v)  BY <1>4, <1>5, NextTurnLeads
<1>7. Leads(w, v)  BY <1>2, <1>4, <1>6, LeadsOn
<1>8. Becomes(v)  BY <1>1, <1>3, <1>5 DEF TurnHitsCeiling
<1>9. Remember /\ used' \in Usages  BY HereIs, UsesKeeps DEF TurnHitsCeiling
<1> QED  BY <1>1, <1>7, <1>8, <1>9, SpanKeeps

\* A turn fails.
LEMMA TurnFailsKeeps ==
    ASSUME IInv, TurnFails
    PROVE  Kept
<1>1. PICK fenced : fenced = (agent.pc = "hooks" /\ agent.msg.kind = "goal" /\ driver.state # "down")
  OBVIOUS
<1>2. PICK freed : freed = [W EXCEPT !.driver.attempt = None]  OBVIOUS
<1>3. PICK w : w = IF fenced THEN freed ELSE W  OBVIOUS
<1>4. Sound(w) /\ (w = W \/ w = freed)  BY <1>2, <1>3, FreedHere, HereIs
<1>5. PICK u : u = IF driver.state = "down" THEN w ELSE Disarm(w)  OBVIOUS
<1>6. Leads(w, u) /\ Sound(u)
  <2>1. Leads(w, w) /\ Leads(w, Disarm(w))  BY <1>4, LeadsHere, DisarmLeads
  <2>2. Leads(w, u)  BY <1>5, <2>1
  <2> QED  BY <2>2 DEF Leads
<1>7. PICK v : v = GoesIdle(u)  OBVIOUS
<1>8. Leads(u, v) /\ v.agent.pc \notin Fenced  BY <1>6, <1>7, GoesIdleLeads
<1>9. Leads(w, v)  BY <1>4, <1>6, <1>8, LeadsOn
<1>10. Becomes(v) /\ Remember /\ used' \in Usages
  <2>1. Uses("failures", MaxFailures) /\ Remember  BY DEF TurnFails
  <2>2. used' \in Usages  BY <2>1, HereIs, UsesKeeps
  <2>3. Becomes(v)  BY <1>1, <1>2, <1>3, <1>5, <1>7 DEF TurnFails
  <2> QED  BY <2>1, <2>2, <2>3
<1>11. Leads(W, v) \/ Leads([W EXCEPT !.driver.attempt = None], v)
  BY <1>2, <1>4, <1>9
<1> QED  BY <1>8, <1>10, <1>11, EndsKeeps

\* An aborted turn converges.
LEMMA TurnAbortsKeeps ==
    ASSUME IInv, TurnAborts
    PROVE  Kept
<1>1. PICK w : w = W  OBVIOUS
<1>2. /\ Sound(w) /\ w.goal = goal /\ w.driver = driver /\ w.agent = agent /\ w.log = log
  BY <1>1, HereIs
<1>3. PICK marked : marked = [w EXCEPT !.driver.attempt.cancelled = TRUE]  OBVIOUS
<1>4. ASSUME driver.attempt # None  PROVE Leads(w, marked)
  BY <1>2, <1>3, <1>4, MarksLeads
<1>5. PICK u : u = IF driver.state = "down" THEN w
                   ELSE IF driver.attempt # None /\ driver.attempt.phase \in {"claimed", "admitted"}
                   THEN marked ELSE Disarm(w)
  OBVIOUS
<1>6. Leads(w, u) /\ Sound(u)
  <2>1. Leads(w, w) /\ Leads(w, Disarm(w))  BY <1>2, LeadsHere, DisarmLeads
  <2>2. Leads(w, u)  BY <1>4, <1>5, <2>1
  <2> QED  BY <2>2 DEF Leads
<1>7. PICK v : v = GoesIdle(u)  OBVIOUS
<1>8. Leads(u, v)  BY <1>6, <1>7, GoesIdleLeads
<1>9. Leads(w, v)  BY <1>2, <1>6, <1>8, LeadsOn
<1>10. Becomes(v)  BY <1>1, <1>3, <1>5, <1>7 DEF TurnAborts
<1>11. Remember /\ used' \in Usages  BY HereIs DEF TurnAborts
<1> QED  BY <1>1, <1>9, <1>10, <1>11, SpanKeeps

\* A flush returns: the queue of the driver's flushes is one shorter.
LEMMA ReturnsLeads ==
    ASSUME IInv, driver.flushes # << >>, NEW durable \in Nat,
           NEW d, d = [driver EXCEPT !.flushes = Tail(driver.flushes)],
           NEW l, l = [log EXCEPT !.durable = durable],
           NEW v, v = [goal |-> goal, driver |-> d, agent |-> agent, log |-> l]
    PROVE  Leads(W, v)
<1>1. PICK w : w = W  OBVIOUS
<1>2. /\ Sound(w) /\ w.goal = goal /\ w.driver = driver /\ w.agent = agent /\ w.log = log
      /\ goal \in Goals /\ driver \in Drivers /\ agent \in Agents /\ log \in Logs
  BY <1>1, HereIs
<1>3. PICK q : q = Tail(driver.flushes)  OBVIOUS
<1>4. q \in Seq(Nat)
  <2>1. driver.flushes \in Seq(Nat)  BY <1>2 DEF Drivers
  <2> QED  BY <1>3, <2>1, HeadTailProperties
<1>5. d = [driver EXCEPT !.flushes = q]  BY <1>3
<1>6. d \in Drivers /\ d.state = driver.state /\ d.attempt = driver.attempt
  BY <1>2, <1>4, <1>5 DEF Drivers
<1>7. l \in Logs /\ l.changes = log.changes /\ log.changes \in Nat  BY <1>2 DEF Logs
<1>8. l.changes >= w.log.changes  BY <1>2, <1>7
<1>9. d.attempt # None => Recent(d.attempt.round, goal)  BY <1>2, <1>6 DEF Sound
<1>10. agent.msg # None <=> agent.pc \in Running  BY <1>2 DEF Sound
<1>11. SameGoal(w.goal, goal) /\ SameAttempt(w.driver.attempt, d.attempt)
  BY <1>2, <1>6 DEF SameGoal, SameAttempt
<1>12. Leads(w, v)
  BY <1>2, <1>6, <1>7, <1>8, <1>9, <1>10, <1>11, LeadsAcross
<1> QED  BY <1>1, <1>12

\* A flush succeeds: the pass behind the await goes on.
LEMMA FlushSucceedsKeeps ==
    ASSUME IInv, FlushSucceeds
    PROVE  Kept
<1>1. PICK w : w = W  OBVIOUS
<1>2. Sound(w) /\ driver \in Drivers /\ log \in Logs  BY <1>1, HereIs
<1>3. PICK durable : durable = IF Head(driver.flushes) > log.durable
                               THEN Head(driver.flushes) ELSE log.durable
  OBVIOUS
<1>4. driver.flushes # << >>  BY DEF FlushSucceeds
<1>5. durable \in Nat
  <2>1. Head(driver.flushes) \in Nat
    <3>1. driver.flushes \in Seq(Nat)  BY <1>2 DEF Drivers
    <3> QED  BY <1>4, <3>1, HeadTailProperties
  <2>2. log.durable \in Nat  BY <1>2 DEF Logs
  <2> QED  BY <1>3, <2>1, <2>2
<1>6. PICK d : d = [driver EXCEPT !.flushes = Tail(driver.flushes)]  OBVIOUS
<1>7. PICK l : l = [log EXCEPT !.durable = durable]  OBVIOUS
<1>8. PICK u : u = [W EXCEPT !.driver.flushes = Tail(@),
                             !.log.durable = IF Head(driver.flushes) > @
                                             THEN Head(driver.flushes) ELSE @]
  OBVIOUS
<1>9. u = [goal |-> goal, driver |-> d, agent |-> agent, log |-> l]
  BY <1>3, <1>6, <1>7, <1>8 DEF W
<1>10. Leads(w, u) /\ Sound(u)
  <2>1. Leads(W, u)  BY <1>4, <1>5, <1>6, <1>7, <1>9, ReturnsLeads
  <2>2. Leads(w, u)  BY <1>1, <2>1
  <2> QED  BY <2>2 DEF Leads
<1>11. PICK v : v = IF ~ReadyToDrive(u) \/ u.driver.checkpoint THEN Loop(u)
                    ELSE IF u.driver.attempt # None THEN Checkpoint(u)
                    ELSE Loop(Pass(u))
  OBVIOUS
<1>12. Leads(u, v)
  <2>1. Leads(u, Loop(u))  BY <1>10, LoopLeads
  <2>2. ASSUME ReadyToDrive(u)  PROVE Leads(u, Checkpoint(u)) /\ Leads(u, Loop(Pass(u)))
    <3>1. u.agent.pc \notin Fenced  BY <2>2, AtRest
    <3>2. Leads(u, Checkpoint(u))  BY <1>10, <3>1, CheckpointLeads
    <3>3. PICK p : p = Pass(u)  OBVIOUS
    <3>4. Leads(u, p)  BY <1>10, <3>1, <3>3, PassLeads
    <3>5. Sound(p)  BY <3>4 DEF Leads
    <3>6. Leads(p, Loop(p))  BY <3>5, LoopLeads
    <3>7. Leads(u, Loop(p))  BY <1>10, <3>4, <3>6, LeadsOn
    <3> QED  BY <3>2, <3>3, <3>7
  <2> QED  BY <1>11, <2>1, <2>2
<1>13. Leads(w, v)  BY <1>2, <1>10, <1>12, LeadsOn
<1>14. Becomes(v)  BY <1>8, <1>11 DEF FlushSucceeds
<1>15. Remember /\ used' \in Usages  BY HereIs DEF FlushSucceeds
<1> QED  BY <1>1, <1>13, <1>14, <1>15, SpanKeeps

\* A flush fails.
LEMMA FlushFailsKeeps ==
    ASSUME IInv, FlushFails
    PROVE  Kept
<1>1. PICK w : w = W  OBVIOUS
<1>2. Sound(w) /\ log \in Logs  BY <1>1, HereIs
<1>3. PICK d : d = [driver EXCEPT !.flushes = Tail(driver.flushes)]  OBVIOUS
<1>4. PICK durable : durable = log.durable  OBVIOUS
<1>5. durable \in Nat /\ log = [log EXCEPT !.durable = durable]  BY <1>2, <1>4 DEF Logs
<1>6. PICK u : u = [W EXCEPT !.driver.flushes = Tail(@)]  OBVIOUS
<1>7. u = [goal |-> goal, driver |-> d, agent |-> agent, log |-> log]
  BY <1>3, <1>6 DEF W
<1>8. Leads(w, u) /\ Sound(u)
  <2>1. driver.flushes # << >>  BY DEF FlushFails
  <2>2. Leads(W, u)  BY <1>3, <1>5, <1>7, <2>1, ReturnsLeads
  <2>3. Leads(w, u)  BY <1>1, <2>2
  <2> QED  BY <2>3 DEF Leads
<1>9. PICK x : x = Disarm(u)  OBVIOUS
<1>10. Leads(u, x) /\ Sound(x)
  <2>1. Leads(u, x)  BY <1>8, <1>9, DisarmLeads
  <2> QED  BY <2>1 DEF Leads
<1>11. PICK v : v = Loop(x)  OBVIOUS
<1>12. Leads(x, v)  BY <1>10, <1>11, LoopLeads
<1>13. Leads(u, v)  BY <1>8, <1>10, <1>12, LeadsOn
<1>14. Leads(w, v)  BY <1>2, <1>8, <1>13, LeadsOn
<1>15. Becomes(v)  BY <1>6, <1>9, <1>11 DEF FlushFails
<1>16. Remember /\ used' \in Usages  BY HereIs, UsesKeeps DEF FlushFails
<1> QED  BY <1>1, <1>14, <1>15, <1>16, SpanKeeps

\* The plugin begins to unload.
LEMMA UnloadBeginsKeeps ==
    ASSUME IInv, UnloadBegins
    PROVE  Kept
<1>1. PICK w : w = [W EXCEPT !.driver.state = "stopping"]  OBVIOUS
<1>2. PICK d : d = [driver EXCEPT !.state = "stopping"]  OBVIOUS
<1>3. d \in Drivers /\ d.state = "stopping" /\ d.attempt = driver.attempt
  BY <1>2, HereIs DEF Drivers
<1>4. w = [goal |-> goal, driver |-> d, agent |-> agent, log |-> log]
  BY <1>1, <1>2 DEF W
<1>5. w \in Spans /\ w.goal = goal /\ w.driver = d /\ w.agent = agent /\ w.log = log
  BY <1>3, <1>4, HereIs, SpanIs
<1>6. Sound(w) /\ Held(w)
  <2>1. PICK w0 : w0 = W  OBVIOUS
  <2>2. /\ Sound(w0) /\ Held(w0) /\ w0.goal = goal /\ w0.driver = driver
        /\ w0.agent = agent /\ w0.log = log
    BY <2>1, HereIs DEF IInv
  <2>3. driver.state # "down"  BY DEF UnloadBegins
  <2>4. Sound(w)  BY <1>3, <1>5, <2>2 DEF Sound
  <2>5. Held(w)  BY <1>3, <1>5, <2>2, <2>3 DEF Held
  <2> QED  BY <2>4, <2>5
<1>7. PICK closed : closed = Disarm(w)  OBVIOUS
<1>8. Leads(w, closed) /\ Sound(closed) /\ closed.driver = d
  <2>1. Leads(w, closed)  BY <1>6, <1>7, DisarmLeads
  <2>2. closed = w \/ closed = [w EXCEPT !.goal.armed = FALSE]  BY <1>7 DEF Disarm
  <2>3. closed.driver = w.driver
    <3>1. [w EXCEPT !.goal.armed = FALSE].driver = w.driver  BY <1>4
    <3> QED  BY <2>2, <3>1
  <2> QED  BY <1>5, <2>1, <2>3 DEF Leads
<1>9. PICK stale : stale = [closed EXCEPT !.driver.attempt.stale = TRUE]  OBVIOUS
<1>10. PICK v : v = IF driver.attempt = None THEN closed
                    ELSE IF IsRunning(W) THEN Cancel(stale, FALSE) ELSE stale
  OBVIOUS
<1>11. Leads(w, v)
  <2>1. CASE driver.attempt = None  BY <1>8, <1>10, <2>1
  <2>2. CASE driver.attempt # None
    <3>1. Leads(closed, stale)  BY <1>3, <1>8, <1>9, <2>2, MarksLeads
    <3>2. Leads(w, stale)  BY <1>6, <1>8, <3>1, LeadsOn
    <3>3. Sound(stale)  BY <3>2 DEF Leads
    <3>4. Leads(stale, Cancel(stale, FALSE))  BY <3>3, CancelLeads
    <3>5. Leads(w, Cancel(stale, FALSE))  BY <1>6, <3>2, <3>4, LeadsOn
    <3> QED  BY <1>10, <2>2, <3>2, <3>5
  <2> QED  BY <2>1, <2>2
<1>12. Becomes(v)  BY <1>1, <1>7, <1>9, <1>10 DEF UnloadBegins
<1>13. Remember /\ used' \in Usages  BY HereIs DEF UnloadBegins
<1>14. w.driver.state # "down" => driver.state # "down"  BY DEF UnloadBegins
<1> QED  BY <1>5, <1>6, <1>11, <1>12, <1>13, <1>14, LeadsKeeps

\* The plugin has unloaded: what the turn still does is no longer its own.
LEMMA UnloadEndsKeeps ==
    ASSUME IInv, UnloadEnds
    PROVE  Kept
<1>1. PICK d : d = [driver EXCEPT !.state = "down", !.attempt = None, !.competing = FALSE,
                                  !.checkpoint = FALSE, !.requested = FALSE]
  OBVIOUS
<1>2. d \in Drivers /\ d.state = "down" /\ d.attempt = None
  <2>1. PICK e : e = [driver EXCEPT !.state = "down", !.attempt = None]  OBVIOUS
  <2>2. e \in Drivers /\ e.state = "down" /\ e.attempt = None
    BY <2>1, HereIs DEF Drivers
  <2>3. d = [e EXCEPT !.competing = FALSE, !.checkpoint = FALSE, !.requested = FALSE]
    BY <1>1, <2>1
  <2> QED  BY <2>2, <2>3 DEF Drivers
<1>3. PICK w : w = [goal |-> goal, driver |-> d, agent |-> agent, log |-> log]  OBVIOUS
<1>4. w \in Spans /\ w.goal = goal /\ w.driver = d /\ w.agent = agent /\ w.log = log
  BY <1>2, <1>3, HereIs, SpanIs
<1>5. Sound(w) /\ Held(w)
  <2>1. agent.msg # None <=> agent.pc \in Running
    <3>1. PICK w0 : w0 = W  OBVIOUS
    <3>2. Sound(w0) /\ w0.agent = agent  BY <3>1, HereIs
    <3> QED  BY <3>2 DEF Sound
  <2> QED  BY <1>2, <1>4, <2>1 DEF Sound, Held
<1>6. Leads(w, w)  BY <1>5, LeadsHere
<1>7. Becomes(w)  BY <1>1, <1>4 DEF UnloadEnds, Becomes
<1>8. Remember /\ used' \in Usages  BY HereIs DEF UnloadEnds
<1>9. w.driver.state # "down" => driver.state # "down"  BY <1>2, <1>4
<1> QED  BY <1>4, <1>5, <1>6, <1>7, <1>8, <1>9, LeadsKeeps

\* Every step.
LEMMA NextKeeps ==
    ASSUME IInv, Next
    PROVE  Kept
BY GoalStepKeeps, PromptsKeeps, CancelsKeeps, MaintenanceStartsKeeps, MaintenanceEndsKeeps,
   FenceFirstKeeps, FenceAgainKeeps, HookRejectsKeeps, MessagesEnterKeeps, TurnCompletesKeeps,
   TurnHitsCeilingKeeps, TurnFailsKeeps, TurnAbortsKeeps, FlushSucceedsKeeps, FlushFailsKeeps,
   UnloadBeginsKeeps, UnloadEndsKeeps
   DEF Next, TurnStep, FlushStep

\* The first state.
LEMMA InitHolds == Init => IInv
<1> SUFFICES ASSUME Init  PROVE IInv  OBVIOUS
<1>1. goal \in Goals /\ log \in Logs  BY DEF Init, Goals, Logs
<1>2. driver \in Drivers  BY DEF Init, Drivers
<1>3. agent \in Agents  BY DEF Init, Agents
<1>4. used \in Usages
  <2>1. /\ MaxChanges \in Nat /\ MaxPrompts \in Nat /\ MaxMaintenances \in Nat
        /\ MaxCancels \in Nat /\ MaxFailures \in Nat
    BY BoundsAssumption
  <2> QED  BY <2>1 DEF Init, Usages
<1>5. PICK w : w = W  OBVIOUS
<1>6. w = [goal |-> goal, driver |-> driver, agent |-> agent, log |-> log]  BY <1>5 DEF W
<1>7. w \in Spans /\ w.driver = driver /\ w.agent = agent
  BY <1>1, <1>2, <1>3, <1>6, SpanIs
<1>8. driver.attempt = None /\ agent.pc = "idle" /\ agent.msg = None  BY DEF Init
<1>9. Sound(w) /\ Held(w)  BY <1>7, <1>8 DEF Sound, Held, Running, Fenced
<1>10. Prepared  BY <1>8 DEF Prepared
<1>11. changed \in BOOLEAN  BY DEF Init
<1> QED  BY <1>4, <1>5, <1>9, <1>10, <1>11 DEF IInv

\* The invariant is inductive.
LEMMA IInvHolds == Spec => []IInv
<1>1. IInv /\ [Next]_vars => IInv'
  <2> SUFFICES ASSUME IInv, [Next]_vars  PROVE IInv'  OBVIOUS
  <2>1. CASE Next  BY <2>1, NextKeeps DEF Kept
  <2>2. CASE UNCHANGED vars
    BY <2>2 DEF vars, IInv, Sound, Held, Prepared, W, Recent, Admissible, Round
  <2> QED  BY <2>1, <2>2
<1> QED  BY <1>1, InitHolds, PTL DEF Spec

\* A round the model works on is the one the driver has recorded as admitted,
\* whatever was edited, queued, cancelled or unloaded on its way: the driver marks it
\* when its message enters the history (AdmittedIsOwn, with the types).
THEOREM RoundIsAdmitted == Spec => []AdmittedIsOwn
<1>1. IInv => AdmittedIsOwn
  <2> SUFFICES ASSUME IInv  PROVE AdmittedIsOwn  OBVIOUS
  <2>1. PICK w : w = W  OBVIOUS
  <2>2. /\ Sound(w) /\ Held(w) /\ w.driver = driver /\ w.agent = agent
        /\ goal \in Goals /\ driver \in Drivers /\ agent \in Agents /\ log \in Logs
        /\ used \in Usages /\ changed \in BOOLEAN
    BY <2>1, HereIs DEF IInv
  <2>3. agent.msg # None <=> agent.pc \in Running  BY <2>2 DEF Sound
  <2>4. TypeOK  BY <2>2, <2>3 DEF TypeOK, Goals, Drivers, Agents, Logs, Usages
  <2>5. driver.state # "down" /\ agent.pc = "stepping" /\ agent.msg.kind = "goal" =>
          /\ driver.attempt # None /\ driver.attempt.round = agent.msg.round
          /\ driver.attempt.phase # "queued"
    BY <2>2 DEF Held, Fenced
  <2> QED  BY <2>4, <2>5 DEF AdmittedIsOwn
<1> QED  BY <1>1, IInvHolds, PTL

\* Only a round whose goal changed while its request was prepared, or one that
\* outlived the plugin, can make the goal unreadable: every other stale round
\* stops at one of the two fences (FencesHold).
THEOREM StaleRoundsAreFenced == Spec => FencesHold
<1>1. IInv /\ [Next]_vars => [~goal.failed /\ goal'.failed => changed \/ driver.state = "down"]_vars
  <2> SUFFICES ASSUME IInv, Next
               PROVE  ~goal.failed /\ goal'.failed => changed \/ driver.state = "down"
    OBVIOUS
  <2> QED  BY NextKeeps DEF Kept
<1> QED  BY <1>1, IInvHolds, PTL DEF Spec, FencesHold
=============================================================================
