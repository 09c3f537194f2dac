-------------------------- MODULE ToolCalls_proofs --------------------------
(***************************************************************************)
(* Proofs about ToolCalls, for any number of calls and any pool size: the  *)
(* answers a returned scheduler leaves in the log, the discipline of the   *)
(* pool, and the log contract.                                             *)
(***************************************************************************)
EXTENDS ToolCalls, SequenceTheorems, FiniteSetTheorems, TLAPS

-----------------------------------------------------------------------------
(* The invariant.                                                            *)

PoolTyped ==
    /\ pc \in {"classify", "prepare", "ready", "finalize", "race", "drain", "skip", "skipResult",
               "done", "threw"}
    /\ next \in 1..(N + 1) /\ last \in 0..N
    /\ nextToStart \in 1..(N + 1) /\ committed \in 1..(N + 1)
    /\ inFlight \subseteq Calls /\ slots \subseteq Calls
    /\ failed \in BOOLEAN /\ signal \in BOOLEAN /\ aborted \in BOOLEAN
    /\ class \in [Calls -> Modes \cup {"none"}]

LogTyped ==
    /\ trace \in Log!Traces /\ event \in [type : Log!EventTypes, turn : {1}, step : {1}, call : Calls]
    /\ logged \in Seq({"tool/call", "tool/result"} \X Calls)

Between == {"classify", "skip", "skipResult", "done"}
Within == {"prepare", "ready", "finalize", "race", "drain", "threw"}

\* Between two groups everything before next is committed and nothing runs; within a
\* group the three positions are in order.
Frontier ==
    /\ committed <= nextToStart
    /\ inFlight \cup slots \subseteq 1..(nextToStart - 1)
    /\ aborted => signal
    /\ pc \in Between => next = nextToStart /\ next = committed /\ inFlight = {} /\ ~failed
    /\ pc = "skipResult" => next <= N
    /\ pc \in {"skip", "skipResult"} => signal
    /\ pc = "done" => next = N + 1
    /\ pc \in Within => next <= committed /\ nextToStart <= last + 1 /\ next <= last
    /\ pc = "prepare" => nextToStart <= last
    /\ pc = "finalize" => committed \in slots
    /\ pc = "race" => ~failed
    /\ pc = "threw" => inFlight \subseteq slots

\* Until a dispatch failed, every started call is dispatched or has its outcome.
Rolling ==
    ~failed /\ pc \in {"prepare", "ready", "finalize", "race"} =>
        \A j \in committed..(nextToStart - 1) : j \in inFlight \cup slots

Bounded ==
    /\ IsFiniteSet(inFlight) /\ Cardinality(inFlight) <= MaxParallel
    /\ pc = "prepare" => Cardinality(inFlight) < MaxParallel

\* The calls on the log are those started, and the one that is being prepared or skipped.
CallsOnLog ==
    /\ \A i \in Calls : i < nextToStart => CallLogged(i)
    /\ pc = "prepare" => CallLogged(nextToStart)
    /\ pc = "skipResult" => CallLogged(next)
    /\ \A i \in Calls : CallLogged(i) =>
          \/ i < nextToStart
          \/ i = nextToStart /\ i <= last /\ pc \in {"prepare", "drain", "threw"}
          \/ i = next /\ pc = "skipResult"

ResultsOnLog == \A i \in Calls : ResultLogged(i) <=> i < committed

\* A started call has a mode; an exclusive one without a result is its group.
Groups ==
    /\ \A i \in Calls : class[i] # "none" => CallLogged(i)
    /\ pc = "skipResult" => class[next] = "none"
    /\ \A i \in Calls : class[i] = "exclusive" /\ committed <= i =>
          i = next /\ i = last /\ pc \in Within

\* A result without an outcome belongs to a call skipped on the way out.
Origins ==
    \A i \in Calls : ResultLogged(i) =>
        i \in slots \/ (signal /\ class[i] = "none" /\ pc \in {"skip", "skipResult", "done"})

\* The open step's pending calls are those on the log without a result.
Pending ==
    /\ trace.openTurn = 1 /\ trace.openStep = 1
    /\ trace.pendingCalls = {i \in Calls : committed <= i /\ CallLogged(i)}

Pool == /\ PoolTyped /\ LogTyped /\ Frontier /\ Rolling /\ Bounded
        /\ CallsOnLog /\ ResultsOnLog /\ Groups /\ Origins /\ Pending /\ InModelOrder

-----------------------------------------------------------------------------
(* One append.                                                               *)

Kinds == {"tool/call", "tool/result"}

\* An append to the log of calls and results, member by member.
LEMMA AppendToLog ==
    ASSUME LogTyped, NEW type \in Kinds, NEW i \in Calls, logged' = Append(logged, <<type, i>>)
    PROVE  /\ logged' \in Seq(Kinds \X Calls)
           /\ Len(logged) \in Nat
           /\ DOMAIN logged = 1..Len(logged) /\ DOMAIN logged' = 1..(Len(logged) + 1)
           /\ \A k \in 1..Len(logged) : logged'[k] = logged[k]
           /\ logged'[Len(logged) + 1] = <<type, i>>
  <1>1. logged \in Seq(Kinds \X Calls) /\ <<type, i>> \in Kinds \X Calls
    BY DEF LogTyped, Kinds
  <1> QED
    BY <1>1, AppendProperties, LenProperties

\* After it exactly one entry more is logged.
LEMMA AppendedIsLogged ==
    ASSUME LogTyped, NEW type \in Kinds, NEW i \in Calls, logged' = Append(logged, <<type, i>>)
    PROVE  \A t, j : IsLogged(t, j)' <=> IsLogged(t, j) \/ (t = type /\ j = i)
  <1>1. /\ Len(logged) \in Nat
        /\ DOMAIN logged = 1..Len(logged) /\ DOMAIN logged' = 1..(Len(logged) + 1)
        /\ \A k \in 1..Len(logged) : logged'[k] = logged[k]
        /\ logged'[Len(logged) + 1] = <<type, i>>
    BY AppendToLog
  <1>2. \A k \in 1..(Len(logged) + 1) : k \in 1..Len(logged) \/ k = Len(logged) + 1
    BY <1>1
  <1>3. \A k \in 1..Len(logged) : k \in 1..(Len(logged) + 1)
    BY <1>1
  <1>4. Len(logged) + 1 \in 1..(Len(logged) + 1)
    BY <1>1
  <1>5. ASSUME NEW t, NEW j
        PROVE  IsLogged(t, j)' <=> IsLogged(t, j) \/ <<t, j>> = <<type, i>>
    BY <1>1, <1>2, <1>3, <1>4 DEF IsLogged
  <1> QED
    BY <1>5

\* An event of call i may follow when those of its kind on the log are exactly the
\* calls before it.
LEMMA OrderKept ==
    ASSUME LogTyped, InModelOrder, NEW type \in Kinds, NEW i \in Calls,
           logged' = Append(logged, <<type, i>>),
           \A j \in Calls : IsLogged(type, j) <=> j < i
    PROVE  InModelOrder'
  <1> DEFINE n == Len(logged)
  <1>1. /\ n \in Nat /\ logged \in Seq(Kinds \X Calls)
        /\ DOMAIN logged = 1..n /\ DOMAIN logged' = 1..(n + 1)
        /\ \A k \in 1..n : logged'[k] = logged[k]
        /\ logged'[n + 1] = <<type, i>>
    BY AppendToLog DEF LogTyped, Kinds
  <1> HIDE DEF n
  <1>2. \A k \in 1..n : logged[k] \in Kinds \X Calls /\ logged[k] = <<logged[k][1], logged[k][2]>>
    BY <1>1, ElementOfSeq DEF n
  <1>3. ASSUME NEW k \in 1..n
        PROVE  /\ \A m \in 1..(k - 1) : logged'[m][1] = logged'[k][1] => logged'[m][2] < logged'[k][2]
               /\ logged'[k][2] > 1 =>
                     \E m \in 1..(k - 1) : logged'[m] = <<logged'[k][1], logged'[k][2] - 1>>
    <2>1. \A m \in 1..(k - 1) : m \in 1..n
      BY <1>1
    <2> QED
      BY <1>1, <2>1 DEF InModelOrder
  <1>4. \A m \in 1..n : logged'[m][1] = type => logged'[m][2] < i
    <2>1. ASSUME NEW m \in 1..n, logged[m][1] = type PROVE logged[m][2] < i
      <3>1. logged[m][2] \in Calls /\ IsLogged(type, logged[m][2])
        BY <1>1, <1>2, <2>1 DEF IsLogged
      <3> QED
        BY <3>1
    <2> QED
      BY <1>1, <2>1
  <1>5. ASSUME i > 1 PROVE \E m \in 1..n : logged'[m] = <<type, i - 1>>
    <2>1. i - 1 \in Calls /\ i - 1 < i
      BY <1>5, SchedulerAssumption DEF Calls
    <2>2. IsLogged(type, i - 1)
      BY <2>1
    <2> QED
      BY <1>1, <2>2 DEF IsLogged
  <1>6. ASSUME NEW k \in 1..(n + 1)
        PROVE  /\ \A m \in 1..(k - 1) : logged'[m][1] = logged'[k][1] => logged'[m][2] < logged'[k][2]
               /\ logged'[k][2] > 1 =>
                     \E m \in 1..(k - 1) : logged'[m] = <<logged'[k][1], logged'[k][2] - 1>>
    <2>1. CASE k \in 1..n
      BY <1>3, <2>1
    <2>2. CASE k = n + 1
      <3>1. k - 1 = n /\ 1..(k - 1) = 1..n
        BY <1>1, <2>2
      <3>2. logged'[k][1] = type /\ logged'[k][2] = i
        BY <1>1, <2>2
      <3>3. \A m \in 1..(k - 1) : logged'[m][1] = type => logged'[m][2] < i
        BY <1>4, <3>1
      <3>4. i > 1 => \E m \in 1..(k - 1) : logged'[m] = <<type, i - 1>>
        BY <1>5, <3>1
      <3> QED
        BY <3>2, <3>3, <3>4
    <2>3. k \in 1..n \/ k = n + 1
      BY <1>1
    <2> QED
      BY <2>1, <2>2, <2>3
  <1> QED
    BY <1>1, <1>6 DEF InModelOrder

\* What the two kinds of event do to the trace.
LEMMA TraceOfCall ==
    ASSUME LogTyped, Pending, NEW i \in Calls, Append1("tool/call", i)
    PROVE  /\ LogTyped' /\ trace'.openTurn = 1 /\ trace'.openStep = 1
           /\ trace'.pendingCalls = trace.pendingCalls \cup {i}
           /\ Log!Commit
  <1>1. /\ event' = [type |-> "tool/call", turn |-> 1, step |-> 1, call |-> i]
        /\ event' \in [type : Log!EventTypes, turn : {1}, step : {1}, call : Calls]
    BY DEF Append1, Log!Event, Log!EventTypes
  <1>2. trace' = [trace EXCEPT !.pendingCalls = @ \cup {i}]
    <2>1. trace' = Log!Fold(trace, event') /\ event'.type = "tool/call" /\ event'.call = i
      BY <1>1 DEF Append1
    <2> QED
      BY <2>1 DEF Log!Fold
  <1>3. trace' \in Log!Traces
    BY <1>2 DEF LogTyped, Log!Traces
  <1>4. logged' \in Seq(Kinds \X Calls)
    BY AppendToLog DEF Append1, Kinds
  <1>5. Log!Valid(trace, event')
    BY <1>1 DEF Pending, Log!Valid, Log!InOpenStep, Log!StepTypes, Log!None
  <1> QED
    BY <1>1, <1>2, <1>3, <1>4, <1>5 DEF LogTyped, Pending, Log!Traces, Kinds, Log!Commit, Append1

\* The result of a recorded call is valid in the open step and settles it.
LEMMA TraceOfResult ==
    ASSUME LogTyped, Pending, NEW i \in Calls, Append1("tool/result", i), i \in trace.pendingCalls
    PROVE  /\ LogTyped' /\ trace'.openTurn = 1 /\ trace'.openStep = 1
           /\ trace'.pendingCalls = trace.pendingCalls \ {i}
           /\ Log!Commit
  <1>1. /\ event' = [type |-> "tool/result", turn |-> 1, step |-> 1, call |-> i]
        /\ event' \in [type : Log!EventTypes, turn : {1}, step : {1}, call : Calls]
    BY DEF Append1, Log!Event, Log!EventTypes
  <1>2. trace' = [trace EXCEPT !.pendingCalls = @ \ {i}]
    <2>1. trace' = Log!Fold(trace, event') /\ event'.type = "tool/result" /\ event'.call = i
      BY <1>1 DEF Append1
    <2> QED
      BY <2>1 DEF Log!Fold
  <1>3. trace' \in Log!Traces
    BY <1>2 DEF LogTyped, Log!Traces
  <1>4. logged' \in Seq(Kinds \X Calls)
    BY AppendToLog DEF Append1, Kinds
  <1>5. Log!Valid(trace, event')
    BY <1>1 DEF Pending, Log!Valid, Log!InOpenStep, Log!StepTypes, Log!None
  <1> QED
    BY <1>1, <1>2, <1>3, <1>4, <1>5 DEF LogTyped, Pending, Log!Traces, Kinds, Log!Commit, Append1

-----------------------------------------------------------------------------
(* Steps that append nothing.                                                *)

\* A step that logs nothing keeps order and modes.
LEMMA NoAppend ==
    ASSUME Pool, UNCHANGED <<logVars, class>>
    PROVE  /\ LogTyped' /\ InModelOrder' /\ class' \in [Calls -> Modes \cup {"none"}]
           /\ \A i : CallLogged(i)' <=> CallLogged(i)
           /\ \A i : ResultLogged(i)' <=> ResultLogged(i)
  BY DEF Pool, PoolTyped, logVars, LogTyped, InModelOrder, CallLogged, ResultLogged, IsLogged

\* The positions of the scheduler are numbers.
LEMMA Positions ==
    ASSUME PoolTyped
    PROVE  /\ N \in Nat \ {0} /\ MaxParallel \in Nat \ {0}
           /\ next \in Nat /\ last \in Nat /\ nextToStart \in Nat /\ committed \in Nat
           /\ inFlight \subseteq 1..N /\ slots \subseteq 1..N
  BY SchedulerAssumption DEF PoolTyped, Calls

\* The scheduler fails: it goes to wait for the dispatches.
LEMMA FailKeepsPool ==
    ASSUME Pool, pc \in {"prepare", "finalize", "ready"}, Fail
    PROVE  Pool'
  <1> USE DEF Pool, Fail, Within, Between
  <1>1. /\ LogTyped' /\ InModelOrder'
        /\ \A i : CallLogged(i)' <=> CallLogged(i)
        /\ \A i : ResultLogged(i)' <=> ResultLogged(i)
    BY NoAppend
  <1>2. PoolTyped' /\ Frontier' /\ Rolling' /\ Bounded'
    BY DEF PoolTyped, Frontier, Rolling, Bounded, groupVars
  <1>3. CallsOnLog' /\ ResultsOnLog' /\ Groups' /\ Origins' /\ Pending'
    BY <1>1 DEF CallsOnLog, ResultsOnLog, Groups, Origins, Pending, groupVars, logVars, Frontier
  <1> QED
    BY <1>1, <1>2, <1>3

\* prepare() resolved: the call is dispatched, or keeps the outcome it already has.
LEMMA PreparedKeepsPool ==
    ASSUME Pool, Prepared
    PROVE  Pool'
  <1> USE DEF Pool, Prepared, Within, Between
  <1>0. /\ next \in Nat /\ last \in Nat /\ nextToStart \in Nat /\ committed \in Nat /\ N \in Nat
        /\ nextToStart \in Calls /\ last <= N
    BY Positions DEF PoolTyped, Frontier, Calls
  <1>1. /\ LogTyped' /\ InModelOrder'
        /\ \A i : CallLogged(i)' <=> CallLogged(i)
        /\ \A i : ResultLogged(i)' <=> ResultLogged(i)
    BY NoAppend
  <1>a. /\ pc' = "ready" /\ nextToStart' = nextToStart + 1 /\ ~failed /\ ~failed'
        /\ UNCHANGED <<next, last, committed, signal, aborted>>
        /\ inFlight' \cup slots' = inFlight \cup slots \cup {nextToStart}
    BY DEF groupVars
  <1>2. PoolTyped'
    <2>1. nextToStart' \in 1..(N + 1)
      BY <1>0, <1>a DEF Calls
    <2>2. inFlight' \subseteq Calls /\ slots' \subseteq Calls
      BY <1>0, <1>a DEF PoolTyped
    <2> QED
      BY <1>1, <1>a, <2>1, <2>2, NoAppend DEF PoolTyped
  <1>3. Frontier' /\ Rolling'
    <2>1. inFlight' \cup slots' \subseteq 1..(nextToStart' - 1)
      <3>1. nextToStart' - 1 = nextToStart /\ nextToStart \in 1..nextToStart
        BY <1>0, <1>a DEF Calls
      <3>2. 1..(nextToStart - 1) \subseteq 1..nextToStart
        BY <1>0
      <3> QED
        BY <1>a, <3>1, <3>2 DEF Frontier
    <2>2. Frontier'
      BY <1>0, <1>a, <2>1 DEF Frontier
    <2>3. ASSUME NEW j \in committed'..(nextToStart' - 1) PROVE j \in inFlight' \cup slots'
      <3>1. j \in committed..(nextToStart - 1) \/ j = nextToStart
        BY <1>0, <1>a
      <3> QED
        BY <1>a, <3>1 DEF Rolling
    <2> QED
      BY <2>2, <2>3 DEF Rolling
  <1>4. Bounded'
    <2>1. CASE inFlight' = inFlight
      BY <2>1 DEF Bounded
    <2>2. CASE inFlight' = inFlight \cup {nextToStart}
      <3>1. nextToStart \notin inFlight
        BY <1>0 DEF Frontier
      <3>2. IsFiniteSet(inFlight') /\ Cardinality(inFlight') = Cardinality(inFlight) + 1
        BY <2>2, <3>1, FS_AddElement DEF Bounded
      <3>3. Cardinality(inFlight) \in Nat /\ MaxParallel \in Nat
        BY Positions, FS_CardinalityType DEF Bounded
      <3> QED
        BY <3>2, <3>3 DEF Bounded
    <2> QED
      BY <2>1, <2>2
  <1>5. CallsOnLog'
    BY <1>0, <1>1 DEF CallsOnLog, groupVars
  <1>6. ResultsOnLog' /\ Groups' /\ Origins' /\ Pending'
    BY <1>1 DEF ResultsOnLog, Groups, Origins, Pending, groupVars, logVars
  <1> QED
    BY <1>1, <1>2, <1>3, <1>4, <1>5, <1>6

\* Settled outcomes and failed dispatches may come at every await.
LEMMA ToolsKeepPool ==
    ASSUME Pool, NEW i \in Calls, Settle(i) \/ Reject(i)
    PROVE  Pool'
  <1> USE DEF Pool, Within, Between
  <1>0. i \in inFlight /\ pc \notin Between /\ pc \in Within /\ pc # "threw"
    BY DEF Settle, Reject, Executing, Running, Frontier, PoolTyped
  <1>1. /\ LogTyped' /\ InModelOrder'
        /\ \A j : CallLogged(j)' <=> CallLogged(j)
        /\ \A j : ResultLogged(j)' <=> ResultLogged(j)
    BY NoAppend DEF Settle, Reject
  <1>2. CASE Settle(i)
    <2> USE <1>2 DEF Settle
    <2>1. PoolTyped' /\ Frontier' /\ Rolling' /\ Bounded'
      BY <1>0 DEF PoolTyped, Frontier, Rolling, Bounded, groupVars
    <2>2. CallsOnLog' /\ ResultsOnLog' /\ Groups' /\ Origins' /\ Pending'
      BY <1>1 DEF CallsOnLog, ResultsOnLog, Groups, Origins, Pending, groupVars, logVars
    <2> QED
      BY <1>1, <2>1, <2>2
  <1>3. CASE Reject(i)
    <2> USE <1>3 DEF Reject
    <2>1. PoolTyped' /\ Frontier' /\ Rolling'
      BY <1>0 DEF PoolTyped, Frontier, Rolling, groupVars
    <2>2. Bounded'
      <3>1. IsFiniteSet(inFlight') /\ Cardinality(inFlight') = Cardinality(inFlight) - 1
        BY <1>0, FS_RemoveElement DEF Bounded
      <3>2. Cardinality(inFlight) \in Nat /\ MaxParallel \in Nat
        BY Positions, FS_CardinalityType DEF Bounded
      <3>3. pc' = "prepare" => pc = "prepare"
        OBVIOUS
      <3> QED
        BY <3>1, <3>2, <3>3 DEF Bounded
    <2>3. CallsOnLog' /\ ResultsOnLog' /\ Groups' /\ Origins' /\ Pending'
      BY <1>0, <1>1 DEF CallsOnLog, ResultsOnLog, Groups, Origins, Pending, groupVars, logVars
    <2> QED
      BY <1>1, <2>1, <2>2, <2>3
  <1> QED
    BY <1>2, <1>3

\* A group ends when everything it started is committed.
LEMMA PoolWaitsKeepsPool ==
    ASSUME Pool, PoolWaits
    PROVE  Pool'
  <1> USE DEF Pool, PoolWaits, CommitsDone, Within, Between
  <1>0. /\ next \in Nat /\ last \in Nat /\ nextToStart \in Nat /\ committed \in Nat /\ N \in Nat
    BY Positions
  <1>1. /\ LogTyped' /\ InModelOrder'
        /\ \A i : CallLogged(i)' <=> CallLogged(i)
        /\ \A i : ResultLogged(i)' <=> ResultLogged(i)
    BY NoAppend
  <1>2. inFlight = {} => nextToStart = committed
    <2>1. SUFFICES ASSUME inFlight = {}, committed < nextToStart PROVE FALSE
      BY <1>0 DEF Frontier
    <2>2. committed \in slots
      BY <1>0, <2>1 DEF Rolling
    <2>3. committed <= last
      BY <1>0, <2>1 DEF Frontier
    <2> QED
      BY <2>2, <2>3
  <1>3. PoolTyped'
    BY DEF PoolTyped, Stop
  <1>4. Frontier' /\ Rolling' /\ Bounded'
    BY <1>0, <1>2 DEF PoolTyped, Frontier, Rolling, Bounded, Stop
  <1>5. CallsOnLog' /\ ResultsOnLog' /\ Origins' /\ Pending'
    BY <1>1 DEF CallsOnLog, ResultsOnLog, Origins, Pending, logVars
  <1>6. Groups'
    <2>1. CASE inFlight # {}
      BY <1>1, <2>1 DEF Groups
    <2>2. CASE inFlight = {}
      <3>1. ASSUME NEW i \in Calls, class'[i] = "exclusive", committed' <= i PROVE FALSE
        <4>1. CallLogged(i) /\ i \in Nat
          BY <3>1, <1>0 DEF Groups, Calls
        <4>2. i < nextToStart
          BY <4>1 DEF CallsOnLog
        <4> QED
          BY <3>1, <4>1, <4>2, <1>0, <1>2, <2>2
      <3> QED
        BY <1>1, <2>2, <3>1 DEF Groups
    <2> QED
      BY <2>1, <2>2
  <1> QED
    BY <1>1, <1>3, <1>4, <1>5, <1>6

\* Promise.race delivers one settled body.
LEMMA RaceKeepsPool ==
    ASSUME Pool, NEW i \in Calls, RaceWon(i)
    PROVE  Pool'
  <1> USE DEF Pool, RaceWon, Executing, Within, Between
  <1>1. /\ LogTyped' /\ InModelOrder'
        /\ \A j : CallLogged(j)' <=> CallLogged(j)
        /\ \A j : ResultLogged(j)' <=> ResultLogged(j)
    BY NoAppend
  <1>2. PoolTyped' /\ Frontier' /\ Rolling'
    BY DEF PoolTyped, Frontier, Rolling, groupVars
  <1>3. Bounded'
    <2>1. IsFiniteSet(inFlight') /\ Cardinality(inFlight') = Cardinality(inFlight) - 1
      BY FS_RemoveElement DEF Bounded
    <2>2. Cardinality(inFlight) \in Nat /\ MaxParallel \in Nat
      BY Positions, FS_CardinalityType DEF Bounded
    <2> QED
      BY <2>1, <2>2 DEF Bounded
  <1>4. CallsOnLog' /\ ResultsOnLog' /\ Groups' /\ Origins' /\ Pending'
    BY <1>1 DEF CallsOnLog, ResultsOnLog, Groups, Origins, Pending, groupVars, logVars
  <1> QED
    BY <1>1, <1>2, <1>3, <1>4

\* Returns, the end of a drain, an abort, the search for a slot.
LEMMA OthersKeepPool ==
    ASSUME Pool, Return \/ FinalizeNext \/ SkipDone \/ Throw \/ Abort \/ UNCHANGED vars
    PROVE  Pool'
  <1> USE DEF Pool, Within, Between
  <1>1. /\ LogTyped' /\ InModelOrder'
        /\ \A i : CallLogged(i)' <=> CallLogged(i)
        /\ \A i : ResultLogged(i)' <=> ResultLogged(i)
    BY NoAppend DEF Return, FinalizeNext, SkipDone, Throw, Abort, vars, logVars
  <1>0. next \in 1..(N + 1) /\ N \in Nat
    BY Positions DEF PoolTyped
  <1>2. CASE Return \/ SkipDone
    <2>1. PoolTyped' /\ Frontier' /\ Rolling' /\ Bounded'
      BY <1>0, <1>2 DEF Return, SkipDone, PoolTyped, Frontier, Rolling, Bounded, groupVars
    <2>2. CallsOnLog' /\ ResultsOnLog' /\ Groups' /\ Origins' /\ Pending'
      BY <1>0, <1>1, <1>2
         DEF Return, SkipDone, CallsOnLog, ResultsOnLog, Groups, Origins, Pending, groupVars, logVars
    <2> QED
      BY <1>1, <2>1, <2>2
  <1>3. CASE FinalizeNext \/ Throw
    <2>1. PoolTyped' /\ Frontier' /\ Rolling' /\ Bounded'
      BY <1>3 DEF FinalizeNext, Throw, Executing, PoolTyped, Frontier, Rolling, Bounded, groupVars
    <2>2. CallsOnLog' /\ ResultsOnLog' /\ Groups' /\ Origins' /\ Pending'
      BY <1>1, <1>3
         DEF FinalizeNext, Throw, CallsOnLog, ResultsOnLog, Groups, Origins, Pending, groupVars, logVars
    <2> QED
      BY <1>1, <2>1, <2>2
  <1>4. CASE Abort
    <2>1. PoolTyped' /\ Frontier' /\ Rolling' /\ Bounded'
      BY <1>4 DEF Abort, PoolTyped, Frontier, Rolling, Bounded, groupVars
    <2>2. CallsOnLog' /\ ResultsOnLog' /\ Groups' /\ Origins' /\ Pending'
      BY <1>1, <1>4 DEF Abort, CallsOnLog, ResultsOnLog, Groups, Origins, Pending, groupVars, logVars
    <2> QED
      BY <1>1, <2>1, <2>2
  <1>5. CASE UNCHANGED vars
    BY <1>1, <1>5 DEF vars, PoolTyped, Frontier, Rolling, Bounded, CallsOnLog, ResultsOnLog, Groups,
                      Origins, Pending
  <1> QED
    BY <1>2, <1>3, <1>4, <1>5

-----------------------------------------------------------------------------
(* Steps that append an event.                                               *)

\* The first unstarted call starts, and its tool/call is next in model order.
LEMMA StartKeepsPool ==
    ASSUME Pool, NEW mode \in Modes, StartCall(nextToStart, mode),
           UNCHANGED <<next, nextToStart, committed, inFlight, slots, failed, signal>>,
           pc \in {"classify", "ready"}, ~failed, Cardinality(inFlight) < MaxParallel,
           last' \in 0..N, nextToStart <= last', next <= last', pc = "ready" => last' = last,
           aborted' \in BOOLEAN, aborted' => signal,
           mode = "exclusive" => last' = nextToStart /\ next = nextToStart
    PROVE  Pool' /\ Log!Commit
  <1> USE DEF Within, Between
  <1>0. /\ next \in Nat /\ last' \in Nat /\ nextToStart \in Nat /\ committed \in Nat /\ N \in Nat
        /\ nextToStart \in Calls /\ last' <= N
    BY Positions DEF Pool, PoolTyped, Calls
  <1>1. /\ Append1("tool/call", nextToStart) /\ pc' = "prepare"
        /\ class' = [class EXCEPT ![nextToStart] = mode]
    BY DEF StartCall
  <1>2. /\ LogTyped' /\ trace'.openTurn = 1 /\ trace'.openStep = 1
        /\ trace'.pendingCalls = trace.pendingCalls \cup {nextToStart}
        /\ Log!Commit
    BY <1>0, <1>1, TraceOfCall DEF Pool
  <1>3. /\ logged' = Append(logged, <<"tool/call", nextToStart>>)
        /\ \A i : CallLogged(i)' <=> CallLogged(i) \/ i = nextToStart
        /\ \A i : ResultLogged(i)' <=> ResultLogged(i)
    <2>1. logged' = Append(logged, <<"tool/call", nextToStart>>)
      BY <1>1 DEF Append1
    <2>2. \A t, j : IsLogged(t, j)' <=> IsLogged(t, j) \/ (t = "tool/call" /\ j = nextToStart)
      BY <1>0, <2>1, AppendedIsLogged DEF Pool, Kinds
    <2> QED
      BY <2>1, <2>2 DEF CallLogged, ResultLogged
  <1>4. \A i \in Calls : CallLogged(i) <=> i < nextToStart
    BY <1>0 DEF Pool, CallsOnLog
  <1>5. InModelOrder'
    BY <1>0, <1>3, <1>4, OrderKept DEF Pool, Kinds, CallLogged
  <1>6. PoolTyped' /\ Frontier' /\ Rolling' /\ Bounded'
    <2>1. class' \in [Calls -> Modes \cup {"none"}]
      BY <1>1 DEF Pool, PoolTyped
    <2>2. PoolTyped'
      BY <1>1, <2>1 DEF Pool, PoolTyped
    <2>3. Frontier'
      <3>1. next <= committed /\ committed <= nextToStart
        BY <1>0 DEF Pool, Frontier
      <3>2. nextToStart <= last' + 1
        <4>1. \A a, b \in Nat : a <= b => a <= b + 1
          OBVIOUS
        <4> QED
          BY ONLY <1>0, <4>1, nextToStart <= last'
      <3>3. inFlight' \cup slots' \subseteq 1..(nextToStart' - 1)
        BY DEF Pool, Frontier
      <3> QED
        BY <1>1, <3>1, <3>2, <3>3 DEF Frontier
    <2>4. Rolling'
      BY <1>0, <1>1 DEF Pool, Rolling, Frontier
    <2> QED
      BY <1>1, <2>2, <2>3, <2>4 DEF Pool, Bounded
  <1>7. CallsOnLog' /\ ResultsOnLog'
    BY <1>0, <1>1, <1>3 DEF Pool, CallsOnLog, ResultsOnLog
  <1>8. Groups'
    <2>1. \A i \in Calls : class'[i] = IF i = nextToStart THEN mode ELSE class[i]
      BY <1>1 DEF Pool, PoolTyped
    <2>2. class[nextToStart] = "none"
      BY <1>0, <1>4 DEF Pool, Groups
    <2>3. ASSUME NEW i \in Calls, class'[i] = "exclusive", committed' <= i
          PROVE  i = next' /\ i = last'
      <3>1. CASE i = nextToStart
        BY <2>1, <2>3, <3>1
      <3>2. CASE i # nextToStart
        BY <2>1, <2>3, <3>2 DEF Pool, Groups
      <3> QED
        BY <3>1, <3>2
    <2>4. ASSUME NEW i \in Calls, class'[i] # "none" PROVE CallLogged(i)'
      BY <1>3, <2>1, <2>4 DEF Pool, Groups
    <2> QED
      BY <1>1, <2>3, <2>4 DEF Groups
  <1>9. Origins'
    BY <1>1, <1>3 DEF Pool, Origins, Frontier, PoolTyped
  <1>10. Pending'
    BY <1>0, <1>2, <1>3 DEF Pool, Pending, Frontier
  <1> QED
    BY <1>2, <1>5, <1>6, <1>7, <1>8, <1>9, <1>10 DEF Pool

\* The mode of the next call makes it a barrier or opens a pool.
LEMMA ClassifyKeepsPool ==
    ASSUME Pool, NEW mode \in Modes, Classify(mode)
    PROVE  Pool' /\ [Log!Commit]_<<trace, event>>
  <1>0. /\ next = nextToStart /\ next = committed /\ inFlight = {} /\ ~failed
        /\ next \in Nat /\ N \in Nat /\ next \in Calls /\ next <= N
        /\ signal \in BOOLEAN /\ MaxParallel \in Nat \ {0}
    BY Positions DEF Classify, Pool, Frontier, Between, PoolTyped, Calls
  <1>1. CASE signal
    <2>1. pc' = "skip" /\ UNCHANGED <<logVars, class>>
      BY <1>1 DEF Classify
    <2>2. /\ LogTyped' /\ InModelOrder'
          /\ \A i : CallLogged(i)' <=> CallLogged(i)
          /\ \A i : ResultLogged(i)' <=> ResultLogged(i)
      BY <2>1, NoAppend
    <2>3. PoolTyped' /\ Frontier' /\ Rolling' /\ Bounded'
      BY <1>0, <1>1, <2>1
         DEF Classify, Pool, PoolTyped, Frontier, Rolling, Bounded, Within, Between, Calls
    <2>4. CallsOnLog' /\ ResultsOnLog' /\ Groups' /\ Origins' /\ Pending'
      BY <1>0, <1>1, <2>1, <2>2
         DEF Classify, Pool, CallsOnLog, ResultsOnLog, Groups, Origins, Pending, Within, Between, logVars
    <2> QED
      BY <2>1, <2>2, <2>3, <2>4 DEF Pool, logVars
  <1>2. CASE ~signal
    <2>1. /\ StartCall(nextToStart, mode) /\ pc = "classify"
          /\ UNCHANGED <<next, nextToStart, committed, inFlight, slots, failed, signal>>
          /\ last' = IF mode = "parallel" THEN N ELSE next
          /\ ~aborted' /\ aborted' \in BOOLEAN
      BY <1>0, <1>2 DEF Classify
    <2>2. Cardinality(inFlight) < MaxParallel
      BY <1>0, FS_EmptySet
    <2>3. last' \in 0..N /\ nextToStart <= last' /\ next <= last'
      BY <1>0, <2>1
    <2> QED
      BY <1>0, <2>1, <2>2, <2>3, StartKeepsPool DEF Modes
  <1> QED
    BY <1>1, <1>2

\* The next call is logged and dispatched.
LEMMA StartNextKeepsPool ==
    ASSUME Pool, StartNext
    PROVE  Pool' /\ Log!Commit
  <1>1. /\ StartCall(nextToStart, "parallel") /\ pc = "ready" /\ ~failed
        /\ UNCHANGED <<next, last, nextToStart, committed, inFlight, slots, failed, signal, aborted>>
        /\ nextToStart <= last /\ Cardinality(inFlight) < MaxParallel
    BY DEF StartNext, CommitsDone, MayStart, groupVars
  <1>2. /\ last \in 0..N /\ next <= last /\ aborted \in BOOLEAN /\ (aborted => signal)
    BY <1>1 DEF Pool, PoolTyped, Frontier, Within
  <1> QED
    BY <1>1, <1>2, StartKeepsPool DEF Modes

\* The next outcome in model order becomes its call's result.
LEMMA CommitKeepsPool ==
    ASSUME Pool, CommitResult
    PROVE  Pool' /\ Log!Commit
  <1> USE DEF Within, Between
  <1>0. /\ next \in Nat /\ last \in Nat /\ nextToStart \in Nat /\ committed \in Nat /\ N \in Nat
        /\ committed \in Calls /\ committed < nextToStart /\ committed \in slots
    BY Positions DEF Pool, PoolTyped, CommitResult, Frontier, Calls
  <1>1. /\ Append1("tool/result", committed) /\ pc' = "ready" /\ committed' = committed + 1
        /\ pc = "finalize"
        /\ UNCHANGED <<next, last, nextToStart, inFlight, slots, failed, signal, aborted, class>>
    BY DEF CommitResult, groupVars
  <1>2. CallLogged(committed) /\ committed \in trace.pendingCalls
    BY <1>0 DEF Pool, CallsOnLog, Pending
  <1>3. /\ LogTyped' /\ trace'.openTurn = 1 /\ trace'.openStep = 1
        /\ trace'.pendingCalls = trace.pendingCalls \ {committed}
        /\ Log!Commit
    BY <1>0, <1>1, <1>2, TraceOfResult DEF Pool
  <1>4. /\ logged' = Append(logged, <<"tool/result", committed>>)
        /\ \A i : ResultLogged(i)' <=> ResultLogged(i) \/ i = committed
        /\ \A i : CallLogged(i)' <=> CallLogged(i)
    <2>1. logged' = Append(logged, <<"tool/result", committed>>)
      BY <1>1 DEF Append1
    <2>2. \A t, j : IsLogged(t, j)' <=> IsLogged(t, j) \/ (t = "tool/result" /\ j = committed)
      BY <1>0, <2>1, AppendedIsLogged DEF Pool, Kinds
    <2> QED
      BY <2>1, <2>2 DEF CallLogged, ResultLogged
  <1>5. InModelOrder'
    BY <1>0, <1>4, OrderKept DEF Pool, Kinds, ResultLogged, ResultsOnLog
  <1>6. PoolTyped' /\ Frontier' /\ Rolling' /\ Bounded'
    BY <1>0, <1>1 DEF Pool, PoolTyped, Frontier, Rolling, Bounded, Calls
  <1>7. CallsOnLog'
    BY <1>1, <1>4 DEF Pool, CallsOnLog
  <1>8. ResultsOnLog'
    BY <1>0, <1>1, <1>4 DEF Pool, ResultsOnLog, Calls
  <1>9. Groups'
    BY <1>0, <1>1, <1>4 DEF Pool, Groups, Calls
  <1>10. Origins'
    BY <1>0, <1>1, <1>4 DEF Pool, Origins
  <1>11. Pending'
    BY <1>0, <1>1, <1>3, <1>4 DEF Pool, Pending, Calls
  <1> QED
    BY <1>3, <1>5, <1>6, <1>7, <1>8, <1>9, <1>10, <1>11 DEF Pool

\* A skipped call gets its tool/call ...
LEMMA SkipCallKeepsPool ==
    ASSUME Pool, SkipCall
    PROVE  Pool' /\ Log!Commit
  <1> USE DEF Within, Between
  <1>0. /\ next \in Nat /\ last \in Nat /\ N \in Nat /\ next \in Calls /\ next <= N
        /\ next = nextToStart /\ next = committed /\ inFlight = {} /\ ~failed /\ signal
    BY Positions DEF Pool, PoolTyped, SkipCall, Frontier, Calls
  <1>1. /\ Append1("tool/call", next) /\ pc' = "skipResult" /\ pc = "skip"
        /\ UNCHANGED <<next, last, nextToStart, committed, inFlight, slots, failed, signal, aborted, class>>
    BY DEF SkipCall, groupVars
  <1>2. /\ LogTyped' /\ trace'.openTurn = 1 /\ trace'.openStep = 1
        /\ trace'.pendingCalls = trace.pendingCalls \cup {next}
        /\ Log!Commit
    BY <1>0, <1>1, TraceOfCall DEF Pool
  <1>3. /\ logged' = Append(logged, <<"tool/call", next>>)
        /\ \A i : CallLogged(i)' <=> CallLogged(i) \/ i = next
        /\ \A i : ResultLogged(i)' <=> ResultLogged(i)
    <2>1. logged' = Append(logged, <<"tool/call", next>>)
      BY <1>1 DEF Append1
    <2>2. \A t, j : IsLogged(t, j)' <=> IsLogged(t, j) \/ (t = "tool/call" /\ j = next)
      BY <1>0, <2>1, AppendedIsLogged DEF Pool, Kinds
    <2> QED
      BY <2>1, <2>2 DEF CallLogged, ResultLogged
  <1>4. \A i \in Calls : CallLogged(i) <=> i < next
    BY <1>0, <1>1 DEF Pool, CallsOnLog
  <1>5. InModelOrder'
    BY <1>0, <1>3, <1>4, OrderKept DEF Pool, Kinds, CallLogged
  <1>6. PoolTyped' /\ Frontier' /\ Rolling' /\ Bounded'
    BY <1>0, <1>1 DEF Pool, PoolTyped, Frontier, Rolling, Bounded
  <1>7. CallsOnLog' /\ ResultsOnLog' /\ Origins'
    BY <1>0, <1>1, <1>3 DEF Pool, CallsOnLog, ResultsOnLog, Origins
  <1>8. Groups'
    <2>1. class[next] = "none"
      BY <1>0, <1>4 DEF Pool, Groups, PoolTyped
    <2> QED
      BY <1>1, <1>3, <2>1 DEF Pool, Groups
  <1>9. Pending'
    BY <1>0, <1>1, <1>2, <1>3 DEF Pool, Pending
  <1> QED
    BY <1>2, <1>5, <1>6, <1>7, <1>8, <1>9 DEF Pool

\* ... and its result.
LEMMA SkipResultKeepsPool ==
    ASSUME Pool, SkipResult
    PROVE  Pool' /\ Log!Commit
  <1> USE DEF Within, Between
  <1>0. /\ next \in Nat /\ last \in Nat /\ N \in Nat /\ next \in Calls /\ next <= N
        /\ next = nextToStart /\ next = committed /\ inFlight = {} /\ ~failed /\ signal
        /\ CallLogged(next) /\ class[next] = "none"
    BY Positions DEF Pool, PoolTyped, SkipResult, Frontier, Calls, CallsOnLog, Groups
  <1>1. /\ Append1("tool/result", next) /\ pc' = "skip" /\ pc = "skipResult"
        /\ next' = next + 1 /\ nextToStart' = next + 1 /\ committed' = next + 1
        /\ UNCHANGED <<last, inFlight, slots, failed, signal, aborted, class>>
    BY DEF SkipResult, groupVars
  <1>2. /\ LogTyped' /\ trace'.openTurn = 1 /\ trace'.openStep = 1
        /\ trace'.pendingCalls = trace.pendingCalls \ {next}
        /\ Log!Commit
    <2>1. next \in trace.pendingCalls
      BY <1>0 DEF Pool, Pending
    <2> QED
      BY <1>0, <1>1, <2>1, TraceOfResult DEF Pool
  <1>3. /\ logged' = Append(logged, <<"tool/result", next>>)
        /\ \A i : ResultLogged(i)' <=> ResultLogged(i) \/ i = next
        /\ \A i : CallLogged(i)' <=> CallLogged(i)
    <2>1. logged' = Append(logged, <<"tool/result", next>>)
      BY <1>1 DEF Append1
    <2>2. \A t, j : IsLogged(t, j)' <=> IsLogged(t, j) \/ (t = "tool/result" /\ j = next)
      BY <1>0, <2>1, AppendedIsLogged DEF Pool, Kinds
    <2> QED
      BY <2>1, <2>2 DEF CallLogged, ResultLogged
  <1>4. InModelOrder'
    BY <1>0, <1>3, OrderKept DEF Pool, Kinds, ResultLogged, ResultsOnLog
  <1>5. PoolTyped' /\ Rolling' /\ Bounded'
    BY <1>0, <1>1 DEF Pool, PoolTyped, Rolling, Bounded
  <1>6. Frontier'
    <2>1. inFlight' \cup slots' \subseteq 1..(nextToStart' - 1)
      <3>1. nextToStart' - 1 = nextToStart /\ 1..(nextToStart - 1) \subseteq 1..nextToStart
        BY <1>0, <1>1
      <3> QED
        BY <1>1, <3>1 DEF Pool, Frontier
    <2> QED
      BY <1>0, <1>1, <2>1 DEF Pool, Frontier
  <1>7. CallsOnLog' /\ ResultsOnLog'
    BY <1>0, <1>1, <1>3 DEF Pool, CallsOnLog, ResultsOnLog, Calls
  <1>8. Groups' /\ Origins'
    BY <1>0, <1>1, <1>3 DEF Pool, Groups, Origins, Calls
  <1>9. Pending'
    BY <1>0, <1>1, <1>2, <1>3 DEF Pool, Pending, Calls
  <1> QED
    BY <1>2, <1>4, <1>5, <1>6, <1>7, <1>8, <1>9 DEF Pool

-----------------------------------------------------------------------------
(* The theorems.                                                             *)

\* Nothing is dispatched.
LEMMA PoolInit == Init => Pool
  <1> SUFFICES ASSUME Init PROVE Pool
    OBVIOUS
  <1> USE DEF Init
  <1>1. N \in Nat \ {0} /\ MaxParallel \in Nat \ {0}
    BY SchedulerAssumption
  <1>2. logged \in Seq({"tool/call", "tool/result"} \X Calls) /\ DOMAIN logged = {}
    OBVIOUS
  <1>3. \A i : ~CallLogged(i) /\ ~ResultLogged(i)
    BY <1>2 DEF CallLogged, ResultLogged, IsLogged
  <1>4. PoolTyped /\ Frontier /\ Rolling
    <2>1. PoolTyped
      <3>1. 1 \in 1..(N + 1) /\ 0 \in 0..N
        BY <1>1
      <3>2. class \in [Calls -> Modes \cup {"none"}]
        OBVIOUS
      <3> QED
        BY <3>1, <3>2 DEF PoolTyped
    <2>2. Frontier
      BY <1>1 DEF Frontier, Between, Within
    <2> QED
      BY <2>1, <2>2 DEF Rolling
  <1>5. Bounded
    BY <1>1, FS_EmptySet DEF Bounded
  <1>6. CallsOnLog /\ ResultsOnLog /\ Groups /\ Origins
    BY <1>1, <1>3 DEF CallsOnLog, ResultsOnLog, Groups, Origins, Calls
  <1>7. trace = [openTurn |-> 1, openStep |-> 1, nextTurn |-> 1, nextStep |-> 1, pendingCalls |-> {}]
    BY DEF Log!FreshTrace, Log!None
  <1>8. LogTyped
    BY <1>1, <1>2, <1>7 DEF LogTyped, Log!Traces, Log!Event, Log!EventTypes, Log!StepTypes, Calls
  <1>9. Pending
    <2>1. {i \in Calls : committed <= i /\ CallLogged(i)} = {}
      BY <1>3
    <2> HIDE DEF Init
    <2>2. trace.openTurn = 1 /\ trace.openStep = 1 /\ trace.pendingCalls = {}
      BY <1>7
    <2> USE DEF Init
    <2> QED
      BY <2>1, <2>2 DEF Pending
  <1>10. InModelOrder
    BY <1>2 DEF InModelOrder
  <1> QED
    BY <1>4, <1>5, <1>6, <1>8, <1>9, <1>10 DEF Pool

\* Every step keeps the invariant, and every append abides by the log contract.
LEMMA PoolStep == Pool /\ [Next]_vars => Pool' /\ [Log!Commit]_<<trace, event>>
  <1> SUFFICES ASSUME Pool, [Next]_vars PROVE Pool' /\ [Log!Commit]_<<trace, event>>
    OBVIOUS
  <1>1. CASE \/ Return \/ FinalizeNext \/ SkipDone \/ Throw \/ Abort \/ UNCHANGED vars
             \/ Prepared \/ PoolWaits \/ PrepareFails \/ FinalizeFails \/ ThrowFailure
             \/ \E i \in Calls : RaceWon(i) \/ Settle(i) \/ Reject(i)
    <2>1. UNCHANGED <<trace, event>>
      BY <1>1 DEF Return, FinalizeNext, SkipDone, Throw, Abort, Prepared, PoolWaits, PrepareFails,
                  FinalizeFails, ThrowFailure, Fail, RaceWon, Settle, Reject, logVars, vars
    <2> QED
      BY <1>1, <2>1, OthersKeepPool, PreparedKeepsPool, PoolWaitsKeepsPool, FailKeepsPool, RaceKeepsPool,
         ToolsKeepPool DEF PrepareFails, FinalizeFails, ThrowFailure, CommitsDone
  <1>2. CASE (\E mode \in Modes : Classify(mode)) \/ StartNext \/ CommitResult \/ SkipCall \/ SkipResult
    BY <1>2, ClassifyKeepsPool, StartNextKeepsPool, CommitKeepsPool, SkipCallKeepsPool, SkipResultKeepsPool
  <1> QED
    BY <1>1, <1>2 DEF Next, Scheduler, Tools

\* A scheduler that returns leaves every call with one result in model order, each
\* its own dispatch's or that of a call cancellation skipped.
THEOREM CallsAnswered == Spec => []Answers
  <1>1. Pool => Answers
    <2> SUFFICES ASSUME Pool PROVE Answers
      OBVIOUS
    <2>1. EveryCallAnswered
      <3> SUFFICES ASSUME pc = "done", NEW i \in Calls PROVE CallLogged(i) /\ ResultLogged(i)
        BY DEF EveryCallAnswered
      <3>1. next = nextToStart /\ next = committed /\ next = N + 1 /\ N \in Nat
        BY Positions DEF Pool, Frontier, Between
      <3>2. i < N + 1
        BY <3>1 DEF Calls
      <3> QED
        BY <3>1, <3>2 DEF Pool, CallsOnLog, ResultsOnLog
    <2>2. NothingFabricated
      BY DEF NothingFabricated, Pool, Origins, Frontier, Between
    <2> QED
      BY <2>1, <2>2 DEF Answers, Pool
  <1> QED
    BY PoolInit, PoolStep, <1>1, PTL DEF Spec

\* However calls are classified, fail or are aborted: the pool is within its bound,
\* an exclusive call runs alone, and no body outlives the batch.
THEOREM PoolIsDisciplined == Spec => []PoolDiscipline
  <1>1. Pool => PoolDiscipline
    <2> SUFFICES ASSUME Pool PROVE PoolDiscipline
      OBVIOUS
    <2>0. /\ next \in Nat /\ last \in Nat /\ nextToStart \in Nat /\ committed \in Nat /\ N \in Nat
      BY Positions DEF Pool
    <2>1. TypeOK
      BY DEF TypeOK, Pool, PoolTyped, LogTyped
    <2>2. Barrier
      <3> SUFFICES ASSUME NEW i \in Calls, class[i] = "exclusive", CallLogged(i), ~ResultLogged(i)
                   PROVE  /\ \A j \in 1..(i - 1) : ResultLogged(j)
                          /\ \A j \in (i + 1)..N : ~CallLogged(j)
        BY DEF Barrier
      <3>1. committed <= i /\ i \in Nat
        BY <2>0 DEF Pool, ResultsOnLog, Calls
      <3>2. i = next /\ i = last /\ pc \in Within
        BY <3>1 DEF Pool, Groups
      <3>3. next <= committed /\ nextToStart <= last + 1
        BY <3>2 DEF Pool, Frontier
      <3>4. ASSUME NEW j \in 1..(i - 1) PROVE ResultLogged(j)
        BY <2>0, <3>1, <3>2, <3>3 DEF Pool, ResultsOnLog, Calls
      <3>5. ASSUME NEW j \in (i + 1)..N PROVE ~CallLogged(j)
        BY <2>0, <3>1, <3>2, <3>3 DEF Pool, CallsOnLog, Calls, Within
      <3> QED
        BY <3>4, <3>5
    <2>3. PoolBound
      <3>1. Executing \subseteq inFlight
        BY DEF Executing
      <3>2. Cardinality(Executing) <= Cardinality(inFlight)
        BY <3>1, FS_Subset DEF Pool, Bounded
      <3>3. Cardinality(Executing) \in Nat /\ Cardinality(inFlight) \in Nat /\ MaxParallel \in Nat
        BY <3>1, FS_Subset, FS_CardinalityType, Positions DEF Pool, Bounded
      <3> QED
        BY <3>2, <3>3 DEF PoolBound, Pool, Bounded
    <2>4. Drained
      BY DEF Drained, Executing, Pool, Frontier, Between
    <2> QED
      BY <2>1, <2>2, <2>3, <2>4 DEF PoolDiscipline
  <1> QED
    BY PoolInit, PoolStep, <1>1, PTL DEF Spec

\* No call starts after the abort it could have seen, and no body after a failure.
THEOREM StartsAreDisciplined == Spec => StartDiscipline
  <1>1. [Next]_vars => [/\ class' # class => ~signal
                        /\ ~(inFlight' \subseteq inFlight) => ~failed]_vars
    <2> SUFFICES ASSUME Next
                 PROVE  /\ class' # class => ~signal
                        /\ ~(inFlight' \subseteq inFlight) => ~failed
      OBVIOUS
    <2>1. CASE (\E mode \in Modes : Classify(mode)) \/ StartNext
      BY <2>1 DEF Classify, StartNext, MayStart, Stop
    <2>2. CASE Prepared
      BY <2>2 DEF Prepared
    <2>3. CASE \/ Return \/ FinalizeNext \/ SkipDone \/ Throw \/ Abort \/ PoolWaits
               \/ PrepareFails \/ FinalizeFails \/ ThrowFailure
               \/ CommitResult \/ SkipCall \/ SkipResult
               \/ \E i \in Calls : RaceWon(i) \/ Settle(i) \/ Reject(i)
      BY <2>3 DEF Return, FinalizeNext, SkipDone, Throw, Abort, PoolWaits, PrepareFails, FinalizeFails,
                  ThrowFailure, Fail, CommitResult, SkipCall, SkipResult, RaceWon, Settle, Reject
    <2> QED
      BY <2>1, <2>2, <2>3 DEF Next, Scheduler, Tools
  <1> QED
    BY <1>1, PTL DEF Spec, StartDiscipline

\* Calls and results are logged inside the open step, each result after its call.
THEOREM LogContractKept == Spec => ToolLogContract
  BY PoolInit, PoolStep, PTL DEF Spec, ToolLogContract
=============================================================================
