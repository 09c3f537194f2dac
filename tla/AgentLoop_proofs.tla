-------------------------- MODULE AgentLoop_proofs --------------------------
(***************************************************************************)
(* Proofs about AgentLoop, for every set of messages and every bound: the  *)
(* types, the brackets of the session log, that the driver implements the  *)
(* log contract of the invariant companion, that disposal leaves no        *)
(* latched wake behind, that each message lives in one place, and that a   *)
(* latched wake is forgotten only inside a cancel's own clear.             *)
(***************************************************************************)
EXTENDS AgentLoop, SequenceTheorems, FiniteSetTheorems, TLAPS

-----------------------------------------------------------------------------
(* The log: what one append does to the companion's trace *)

\* The events a driver appends: it never carries a tool call.
DriverTypes == Log!EventTypes \ {"tool/call"}
Events == [type : Log!EventTypes, turn : Nat, step : Nat, call : {"none"}]

\* Replacing one field by a value of its type leaves a trace.
LEMMA TraceField ==
    ASSUME NEW t \in Log!Traces
    PROVE  /\ \A n \in Nat : [t EXCEPT !.openTurn = n] \in Log!Traces
           /\ \A n \in Nat : [t EXCEPT !.openStep = n] \in Log!Traces
           /\ \A n \in Nat \ {0} : [t EXCEPT !.nextTurn = n] \in Log!Traces
           /\ \A n \in Nat \ {0} : [t EXCEPT !.nextStep = n] \in Log!Traces
           /\ [t EXCEPT !.pendingCalls = {}] \in Log!Traces
  BY DEF Log!Traces

\* What Fold computes for each kind of event a driver appends, one field at a time.
LEMMA FoldCases ==
    ASSUME NEW t \in Log!Traces, NEW e \in Events, e.type # "tool/call"
    PROVE  /\ e.type = "turn/start" =>
                Log!Fold(t, e) = [[t EXCEPT !.openTurn = e.turn] EXCEPT !.nextStep = 1]
           /\ e.type = "turn/end" =>
                Log!Fold(t, e) = [[t EXCEPT !.openTurn = 0] EXCEPT !.nextTurn = t.nextTurn + 1]
           /\ e.type = "step/start" =>
                Log!Fold(t, e) = [t EXCEPT !.openStep = e.step]
           /\ e.type = "step/end" =>
                Log!Fold(t, e) = [[[t EXCEPT !.openStep = 0] EXCEPT !.nextStep = t.nextStep + 1]
                                    EXCEPT !.pendingCalls = {}]
           /\ e.type \notin {"turn/start", "turn/end", "step/start", "step/end"} =>
                Log!Fold(t, e) = t
  <1> USE DEF Log!Traces, Log!None, Events
  <1>1. ASSUME e.type = "turn/start"
        PROVE  Log!Fold(t, e) = [[t EXCEPT !.openTurn = e.turn] EXCEPT !.nextStep = 1]
    BY <1>1 DEF Log!Fold
  <1>2. ASSUME e.type = "turn/end"
        PROVE  Log!Fold(t, e) = [[t EXCEPT !.openTurn = 0] EXCEPT !.nextTurn = t.nextTurn + 1]
    BY <1>2 DEF Log!Fold
  <1>3. ASSUME e.type = "step/start"
        PROVE  Log!Fold(t, e) = [t EXCEPT !.openStep = e.step]
    BY <1>3 DEF Log!Fold
  <1>4. ASSUME e.type = "step/end"
        PROVE  Log!Fold(t, e) = [[[t EXCEPT !.openStep = 0] EXCEPT !.nextStep = t.nextStep + 1]
                                   EXCEPT !.pendingCalls = {}]
    BY <1>4 DEF Log!Fold
  <1>5. ASSUME e.type \in {"tool/result", "tool/not-started"}
        PROVE  Log!Fold(t, e) = t
    <2>1. Log!Fold(t, e) = [t EXCEPT !.pendingCalls = t.pendingCalls \ {e.call}]
      BY <1>5 DEF Log!Fold
    <2>2. t.pendingCalls \ {e.call} = t.pendingCalls
      BY DEF Log!Traces
    <2> QED
      BY <2>1, <2>2
  <1>6. ASSUME e.type \notin {"turn/start", "turn/end", "step/start", "step/end", "tool/call",
                              "tool/result", "tool/not-started"}
        PROVE  Log!Fold(t, e) = t
    BY <1>6 DEF Log!Fold
  <1> QED
    BY <1>1, <1>2, <1>3, <1>4, <1>5, <1>6

\* What committing one event leaves: a trace whose fields are known.
LEMMA FoldFields ==
    ASSUME NEW t \in Log!Traces, NEW e \in Events, e.type # "tool/call",
           NEW w, w = Log!Fold(t, e)
    PROVE  /\ w \in Log!Traces
           /\ w.openTurn = IF e.type = "turn/start" THEN e.turn
                           ELSE IF e.type = "turn/end" THEN 0 ELSE t.openTurn
           /\ w.openStep = IF e.type = "step/start" THEN e.step
                           ELSE IF e.type = "step/end" THEN 0 ELSE t.openStep
           /\ w.nextTurn = IF e.type = "turn/end" THEN t.nextTurn + 1 ELSE t.nextTurn
           /\ w.nextStep = IF e.type = "turn/start" THEN 1
                           ELSE IF e.type = "step/end" THEN t.nextStep + 1 ELSE t.nextStep
  <1>1. /\ t.nextTurn + 1 \in Nat \ {0} /\ t.nextStep + 1 \in Nat \ {0} /\ 1 \in Nat \ {0}
        /\ 0 \in Nat /\ e.turn \in Nat /\ e.step \in Nat
    BY DEF Log!Traces, Events
  <1>2. CASE e.type = "turn/start"
    <2>1. w = [[t EXCEPT !.openTurn = e.turn] EXCEPT !.nextStep = 1]
      BY <1>2, FoldCases
    <2>2. w \in Log!Traces
      <3>1. [t EXCEPT !.openTurn = e.turn] \in Log!Traces
        BY <1>1, TraceField
      <3>2. \A u \in Log!Traces : [u EXCEPT !.nextStep = 1] \in Log!Traces
        BY <1>1, TraceField
      <3> QED
        BY <2>1, <3>1, <3>2
    <2> QED
      BY <1>2, <2>1, <2>2 DEF Log!Traces
  <1>3. CASE e.type = "turn/end"
    <2>1. w = [[t EXCEPT !.openTurn = 0] EXCEPT !.nextTurn = t.nextTurn + 1]
      BY <1>3, FoldCases
    <2>2. w \in Log!Traces
      <3>1. [t EXCEPT !.openTurn = 0] \in Log!Traces
        BY <1>1, TraceField
      <3>2. \A u \in Log!Traces : [u EXCEPT !.nextTurn = t.nextTurn + 1] \in Log!Traces
        BY <1>1, TraceField
      <3> QED
        BY <2>1, <3>1, <3>2
    <2> QED
      BY <1>3, <2>1, <2>2 DEF Log!Traces
  <1>4. CASE e.type = "step/start"
    <2>1. w = [t EXCEPT !.openStep = e.step]
      BY <1>4, FoldCases
    <2>2. w \in Log!Traces
      BY <1>1, <2>1, TraceField
    <2> QED
      BY <1>4, <2>1, <2>2 DEF Log!Traces
  <1>5. CASE e.type = "step/end"
    <2>1. w = [[[t EXCEPT !.openStep = 0] EXCEPT !.nextStep = t.nextStep + 1]
                 EXCEPT !.pendingCalls = {}]
      BY <1>5, FoldCases
    <2>2. w \in Log!Traces
      BY <1>1, <2>1, TraceField
    <2> QED
      BY <1>5, <2>1, <2>2 DEF Log!Traces
  <1>6. CASE e.type \notin {"turn/start", "turn/end", "step/start", "step/end"}
    BY <1>6, FoldCases
  <1> QED
    BY <1>2, <1>3, <1>4, <1>5, <1>6

\* One append of the driver: the event it commits and the trace it leaves.
LEMMA Appends ==
    ASSUME trace \in Log!Traces, NEW ty \in DriverTypes, NEW t \in Nat, NEW s \in Nat,
           AppendEvent(ty, t, s)
    PROVE  /\ event' \in Events /\ event'.type = ty /\ event'.turn = t /\ event'.step = s
           /\ trace' = Log!Fold(trace, event') /\ trace' \in Log!Traces
           /\ trace'.openTurn = IF ty = "turn/start" THEN t
                                ELSE IF ty = "turn/end" THEN 0 ELSE trace.openTurn
           /\ trace'.openStep = IF ty = "step/start" THEN s
                                ELSE IF ty = "step/end" THEN 0 ELSE trace.openStep
           /\ trace'.nextTurn = IF ty = "turn/end" THEN trace.nextTurn + 1 ELSE trace.nextTurn
           /\ trace'.nextStep = IF ty = "turn/start" THEN 1
                                ELSE IF ty = "step/end" THEN trace.nextStep + 1
                                ELSE trace.nextStep
  <1>1. /\ event' \in Events /\ event'.type = ty /\ event'.turn = t /\ event'.step = s
        /\ trace' = Log!Fold(trace, event')
    BY DEF AppendEvent, Events, Log!Event, DriverTypes
  <1>2. event'.type # "tool/call"
    BY <1>1 DEF DriverTypes
  <1> QED
    BY <1>1, <1>2, FoldFields
-----------------------------------------------------------------------------
(* Type correctness *)

Fates == [Msgs -> {"new", "pending", "claimed", "logged", "discarded", "dropped"}]

\* What the fields of a frame of the call stack can be.
LEMMA FrameFields ==
    ASSUME NEW f \in Frames
    PROVE  /\ f.afterAbort \in BOOLEAN
           /\ f.at = "wake" => f.msg \in Msgs
           /\ f.at \in {"clearTurn", "abort"} => f.cause \in Causes
  <1>1. CASE \E m \in Msgs, afterAbort \in BOOLEAN : f = SendFrame(m, afterAbort)
    BY <1>1 DEF SendFrame
  <1>2. CASE \E at \in {"clearTurn", "abort"}, c \in Causes : f = CancelFrame(at, c)
    BY <1>2 DEF CancelFrame
  <1>3. CASE f = KickFrame
    BY <1>3 DEF KickFrame
  <1> QED
    BY <1>1, <1>2, <1>3 DEF Frames

\* A call pushed in front of the stack.
LEMMA PushFrame ==
    ASSUME NEW f \in Frames, NEW s \in Seq(Frames)
    PROVE  /\ <<f>> \o s \in Seq(Frames) /\ <<f>> \o s # <<>>
           /\ Head(<<f>> \o s) = f /\ Tail(<<f>> \o s) = s
           /\ SeqSet(<<f>> \o s) = {f} \cup SeqSet(s)
  <1> DEFINE t == <<f>> \o s
  <1>1. <<f>> \in Seq(Frames) /\ Len(<<f>>) = 1 /\ <<f>>[1] = f
    OBVIOUS
  <1>2. /\ t \in Seq(Frames) /\ Len(t) = 1 + Len(s) /\ t[1] = f
        /\ \A i \in 1 .. Len(s) : t[i + 1] = s[i]
    BY <1>1, ConcatProperties
  <1>3. Len(s) \in Nat
    OBVIOUS
  <1> HIDE DEF t
  <1>4. t # <<>> /\ Head(t) = f
    BY <1>2, <1>3
  <1>5. Tail(t) = s
    BY <1>2, <1>3
  <1>6. SeqSet(t) = {f} \cup SeqSet(s)
    <2>1. DOMAIN t = 1 .. Len(s) + 1 /\ DOMAIN s = 1 .. Len(s)
      BY <1>2, <1>3
    <2>2. \A i \in DOMAIN t : i = 1 \/ (i - 1 \in DOMAIN s /\ t[i] = s[i - 1])
      BY <1>2, <1>3, <2>1
    <2>3. \A i \in DOMAIN s : i + 1 \in DOMAIN t /\ t[i + 1] = s[i]
      BY <1>2, <1>3, <2>1
    <2>4. 1 \in DOMAIN t
      BY <1>3, <2>1
    <2> QED
      BY <1>2, <2>2, <2>3, <2>4 DEF SeqSet
  <1> QED
    BY <1>2, <1>4, <1>5, <1>6 DEF t

\* A call that returns from the front of the stack.
LEMMA PopFrame ==
    ASSUME NEW s \in Seq(Frames), s # <<>>
    PROVE  /\ Head(s) \in Frames /\ Head(s) \in SeqSet(s)
           /\ Tail(s) \in Seq(Frames) /\ SeqSet(Tail(s)) \subseteq SeqSet(s)
  <1>1. /\ Len(s) \in Nat \ {0} /\ Head(s) = s[1] /\ Head(s) \in Frames
        /\ Tail(s) \in Seq(Frames) /\ Len(Tail(s)) = Len(s) - 1
        /\ \A i \in 1 .. Len(Tail(s)) : Tail(s)[i] = s[i + 1]
    BY HeadTailProperties
  <1>2. 1 \in DOMAIN s /\ \A i \in DOMAIN Tail(s) : i + 1 \in DOMAIN s /\ Tail(s)[i] = s[i + 1]
    BY <1>1
  <1> QED
    BY <1>1, <1>2 DEF SeqSet

\* The frame of the innermost call is one of the stack's.
LEMMA ResumedFrame ==
    ASSUME TypeOK, NEW at, Resumes(at)
    PROVE  /\ calls # <<>> /\ Head(calls) \in Frames /\ Head(calls).at = at
           /\ Head(calls) \in SeqSet(calls)
           /\ Tail(calls) \in Seq(Frames) /\ SeqSet(Tail(calls)) \subseteq SeqSet(calls)
  BY PopFrame DEF Resumes, TypeOK

\* The end of a driver's segment leaves the frames of the calls around it.
LEMMA ReturnsType ==
    ASSUME TypeOK, Returns
    PROVE  calls' \in Seq(Frames) /\ SeqSet(calls') \subseteq SeqSet(calls)
  BY PopFrame DEF TypeOK, Returns

\* The frame of a driver's first segment.
LEMMA KickFrameType == KickFrame \in Frames
  BY DEF Frames

\* The elements of a sequence of messages are messages.
LEMMA SeqSetMsgs ==
    ASSUME NEW s \in MsgSeq
    PROVE  SeqSet(s) \subseteq Msgs
  BY DEF SeqSet, MsgSeq

\* Splicing one element out of a sequence of messages leaves one.
LEMMA WithoutMsgs ==
    ASSUME NEW s \in MsgSeq, NEW i \in DOMAIN s
    PROVE  Without(s, i) \in MsgSeq
  <1>1. i \in 1 .. Len(s) /\ Len(s) \in Nat
    BY DEF MsgSeq
  <1>2. SubSeq(s, 1, i - 1) \in Seq(Msgs)
    BY <1>1, SubSeqProperties DEF MsgSeq
  <1>3. SubSeq(s, i + 1, Len(s)) \in Seq(Msgs)
    BY <1>1, SubSeqProperties DEF MsgSeq
  <1> QED
    BY <1>2, <1>3, ConcatProperties DEF Without, MsgSeq

\* An inserted message joins one of the two lists.
LEMMA InsertType ==
    ASSUME TypeOK, NEW m \in Msgs, NEW tgt \in Targets, Insert(m, tgt)
    PROVE  nextTurn' \in MsgSeq /\ nextStep' \in MsgSeq /\ fate' \in Fates
  <1>1. nextTurn \in Seq(Msgs) /\ nextStep \in Seq(Msgs) /\ fate \in Fates
    BY DEF TypeOK, MsgSeq, Fates
  <1>2. fate' \in Fates
    BY <1>1 DEF Insert, Fates
  <1>3. \A s \in Seq(Msgs) : Append(s, m) \in Seq(Msgs)
    BY AppendProperties
  <1> QED
    BY <1>1, <1>2, <1>3 DEF Insert, MsgSeq

\* The phase after wakeDriver.
LEMMA WakeType ==
    ASSUME TypeOK, NEW afterAbort \in BOOLEAN, NEW outer \in Seq(Frames),
           WakeDriver(afterAbort, outer)
    PROVE  /\ kind' \in Kinds /\ turn' \in Nat /\ step' \in Nat /\ cause' \in Causes \cup {"none"}
           /\ wakeRequested' \in BOOLEAN /\ pc' \in PCs /\ calls' \in Seq(Frames)
           /\ SeqSet(calls') \subseteq {KickFrame} \cup SeqSet(outer)
  <1>1. CASE kind = "idle" /\ StartDriver(outer) /\ UNCHANGED turn
    <2>1. calls' = <<KickFrame>> \o outer
      BY <1>1 DEF StartDriver
    <2>2. calls' \in Seq(Frames) /\ SeqSet(calls') \subseteq {KickFrame} \cup SeqSet(outer)
      BY <2>1, PushFrame, KickFrameType
    <2> QED
      BY <1>1, <2>2 DEF TypeOK, StartDriver, Kinds, Causes, PCs
  <1>2. CASE /\ kind # "idle" /\ wakeRequested' = (wakeRequested \/ Latches(afterAbort))
             /\ calls' = outer /\ UNCHANGED <<kind, turn, step, cause, pc>>
    <2>1. wakeRequested' \in BOOLEAN
      BY <1>2, Zenon
    <2> QED
      BY <1>2, <2>1 DEF TypeOK
  <1> QED
    BY <1>1, <1>2 DEF WakeDriver

\* The history variables after a wake of a message.
LEMMA NoteType ==
    ASSUME TypeOK, NEW m \in Msgs, NEW afterAbort \in BOOLEAN, NoteWake(m, afterAbort)
    PROVE  /\ owed' \subseteq Msgs /\ swept' \subseteq Msgs /\ live' \subseteq Msgs
           /\ late' \subseteq Msgs /\ parked' \in BOOLEAN
  <1>1. owed' \subseteq Msgs /\ swept' \subseteq Msgs
    <2> DEFINE latched == IF Latches(afterAbort) /\ m \in Pending' THEN {m} ELSE {}
    <2>1. latched \subseteq Msgs
      OBVIOUS
    <2> HIDE DEF latched
    <2>2. \/ swept' = swept \cup latched /\ UNCHANGED owed
          \/ owed' = owed \cup latched /\ UNCHANGED swept
      BY DEF NoteWake, latched
    <2> QED
      BY <2>1, <2>2 DEF TypeOK
  <1> QED
    BY <1>1 DEF TypeOK, NoteWake

\* The lists after a claim.
LEMMA ClaimType ==
    ASSUME TypeOK, NEW tgt \in Targets, Claim(tgt)
    PROVE  /\ batch' \in MsgSeq /\ nextTurn' \in MsgSeq /\ nextStep' \in MsgSeq /\ fate' \in Fates
           /\ owed' \subseteq Msgs /\ swept' \subseteq Msgs /\ live' \subseteq Msgs
          /\ ordinary' \in Nat
  <1> DEFINE prompts == IF tgt = "next-turn" /\ nextTurn # <<>> THEN <<Head(nextTurn)>> ELSE <<>>
  <1>1. prompts \in MsgSeq /\ (prompts # <<>> => nextTurn # <<>>)
    BY DEF TypeOK, MsgSeq
  <1>2. nextStep \o prompts \in MsgSeq
    BY <1>1 DEF TypeOK, MsgSeq
  <1>3. Len(prompts) \in Nat
    BY <1>1 DEF MsgSeq
  <1>4. nextTurn' \in MsgSeq
    BY <1>1 DEF Claim, TypeOK, MsgSeq
  <1> HIDE DEF prompts
  <1>5. /\ batch' = nextStep \o prompts /\ nextStep' = <<>>
        /\ fate' = [m \in Msgs |-> IF m \in SeqSet(nextStep \o prompts) THEN "claimed" ELSE fate[m]]
        /\ owed' \subseteq owed /\ swept' \subseteq swept /\ live' \subseteq live
        /\ ordinary' = ordinary + Len(prompts)
    BY DEF Claim, Forget, prompts
  <1> QED
    BY <1>2, <1>3, <1>4, <1>5 DEF TypeOK, Fates, MsgSeq

\* turn()'s catch clause keeps every type.
LEMMA CatchType ==
    ASSUME TypeOK, CatchThrow
    PROVE  TypeOK'
  <1>1. batch' \in MsgSeq /\ fate' \in Fates
    BY DEF CatchThrow, DropBatch, TypeOK, MsgSeq, Fates
  <1>2. /\ trace' \in Log!Traces /\ event' \in Events
        /\ turnEnds' \in {"aborted", "error"} /\ pc' \in {"exiting", "failing"}
        /\ live' \subseteq Msgs
    <2>1. CASE AppendTurnEnd("aborted") /\ pc' = "exiting" /\ UNCHANGED live
      BY <2>1, Appends DEF AppendTurnEnd, TypeOK, DriverTypes, Log!EventTypes
    <2>2. CASE turnEnds' = "error" /\ pc' = "failing" /\ live' = {} /\ UNCHANGED logVars
      BY <2>2 DEF TypeOK, Events, logVars
    <2> QED
      BY <2>1, <2>2 DEF CatchThrow
  <1>3. calls' \in Seq(Frames)
    BY ReturnsType DEF CatchThrow
  <1> QED
    BY <1>1, <1>2, <1>3 DEF CatchThrow, TypeOK, PhaseUnchanged, inboxVars, PCs, Events, Fates

\* What abort() keeps, and the phase it leaves.
LEMMA AbortType ==
    ASSUME TypeOK, NEW c \in Causes, Abort(c)
    PROVE  /\ cause' \in Causes \cup {"none"} /\ parked' \in BOOLEAN /\ disposing' \in BOOLEAN
           /\ owed' \subseteq Msgs /\ swept' \subseteq Msgs /\ live' \subseteq Msgs
           /\ UNCHANGED <<kind, turn, step, inboxVars, localVars, pc, replay, logVars, fate,
                          ordinary, late>>
  <1>1. cause' \in Causes \cup {"none"}
    BY DEF Abort, TypeOK
  <1>2. parked' \in BOOLEAN /\ disposing' \in BOOLEAN
    BY Zenon DEF Abort
  <1>3. owed' \subseteq Msgs /\ swept' \subseteq Msgs /\ live' \subseteq Msgs
    BY DEF Abort, Settled, TypeOK
  <1> QED
    BY <1>1, <1>2, <1>3 DEF Abort

\* One splice of clear() keeps the types.
LEMMA DiscardType ==
    ASSUME TypeOK, NEW ms \in SUBSET Msgs, NEW at \in {"clearTurn", "abort"}, NEW c \in Causes,
           NEW outer \in Seq(Frames), Discard(ms, at, c, outer),
           nextTurn' \in MsgSeq, nextStep' \in MsgSeq
    PROVE  TypeOK'
  <1>1. CancelFrame(at, c) \in Frames
    BY DEF Frames
  <1>2. calls' \in Seq(Frames)
    BY <1>1, PushFrame DEF Discard
  <1>3. fate' \in Fates
    BY DEF Discard, TypeOK, Fates
  <1>4. /\ owed' \subseteq Msgs /\ swept' \subseteq Msgs /\ live' \subseteq Msgs
        /\ late' \subseteq Msgs
    BY DEF Discard, Forget, TypeOK
  <1>5. UNCHANGED <<phaseVars, localVars, pc, replay, logVars, ordinary, parked, disposing>>
    BY DEF Discard
  <1> QED
    BY <1>2, <1>3, <1>4, <1>5 DEF TypeOK, Fates, phaseVars, localVars, logVars

\* The clear of the next-turn list keeps the types.
LEMMA ClearTurnType ==
    ASSUME TypeOK, NEW c \in Causes, NEW outer \in Seq(Frames), ClearNextTurn(c, outer)
    PROVE  TypeOK'
  <1>1. SeqSet(nextTurn) \subseteq Msgs
    BY SeqSetMsgs DEF TypeOK
  <1>2. nextTurn' \in MsgSeq /\ nextStep' \in MsgSeq
    BY DEF ClearNextTurn, TypeOK, MsgSeq
  <1> QED
    BY <1>1, <1>2, DiscardType DEF ClearNextTurn

\* So does that of the next-step list.
LEMMA ClearStepType ==
    ASSUME TypeOK, NEW c \in Causes, ClearNextStep(c)
    PROVE  TypeOK'
  <1>1. SeqSet(nextStep) \subseteq Msgs
    BY SeqSetMsgs DEF TypeOK
  <1>2. nextTurn' \in MsgSeq /\ nextStep' \in MsgSeq
    BY DEF ClearNextStep, TypeOK, MsgSeq
  <1>3. calls \in Seq(Frames)
    BY DEF TypeOK
  <1> QED
    BY <1>1, <1>2, <1>3, DiscardType DEF ClearNextStep

\* The abort at the end of a cancel keeps the types.
LEMMA CancelAbortType ==
    ASSUME TypeOK, NEW c \in Causes, Abort(c), wakeRequested' \in BOOLEAN, calls' \in Seq(Frames)
    PROVE  TypeOK'
  BY AbortType DEF TypeOK, inboxVars, localVars, logVars

\* Every caller's action keeps the types.
LEMMA EnvironmentType ==
    ASSUME TypeOK, Environment
    PROVE  TypeOK'
  <1> USE DEF phaseVars, inboxVars, localVars, logVars
  <1>1. ASSUME NEW m \in Msgs, Inject(m) PROVE TypeOK'
    <2>1. nextTurn' \in MsgSeq /\ nextStep' \in MsgSeq /\ fate' \in Fates
      BY <1>1, InsertType DEF Inject, Targets
    <2> QED
      BY <1>1, <2>1 DEF Inject, TypeOK, Fates
  <1>2. ASSUME NEW m \in Msgs, NEW tgt \in Targets, SendInsert(m, tgt) PROVE TypeOK'
    <2>1. Resolved(tgt) \in Targets
      BY DEF Resolved, Targets
    <2>2. nextTurn' \in MsgSeq /\ nextStep' \in MsgSeq /\ fate' \in Fates
      BY <1>2, <2>1, InsertType DEF SendInsert
    <2>3. WakeAfterAbort \in BOOLEAN
      BY Zenon DEF WakeAfterAbort
    <2>4. SendFrame(m, WakeAfterAbort) \in Frames
      BY <2>3 DEF Frames
    <2>5. calls' \in Seq(Frames)
      BY <1>2, <2>4, PushFrame DEF SendInsert, TypeOK
    <2>6. UNCHANGED <<phaseVars, localVars, pc, replay, logVars, owed, swept, live, ordinary,
                      parked, disposing, late>>
      BY <1>2 DEF SendInsert
    <2> QED
      BY <2>2, <2>5, <2>6 DEF TypeOK, Fates
  <1>3. ASSUME NEW m \in Msgs, Remove(m) PROVE TypeOK'
    <2>1. nextTurn' \in MsgSeq /\ nextStep' \in MsgSeq
      BY <1>3, WithoutMsgs DEF Remove, TypeOK
    <2>2. /\ fate' \in Fates /\ owed' \subseteq Msgs /\ swept' \subseteq Msgs
          /\ live' \subseteq Msgs /\ late' \subseteq Msgs
      BY <1>3 DEF Remove, Forget, TypeOK, Fates
    <2> QED
      BY <1>3, <2>1, <2>2 DEF Remove, TypeOK, Fates
  <1>4. ASSUME NEW m \in Msgs, ToolContext(m) PROVE TypeOK'
    <2>1. nextTurn' \in MsgSeq /\ nextStep' \in MsgSeq /\ fate' \in Fates
      BY <1>4, InsertType DEF ToolContext, Targets
    <2> QED
      BY <1>4, <2>1 DEF ToolContext, HostUnchanged, PhaseUnchanged, TypeOK, Fates
  <1>5. ASSUME NEW c \in Causes, NEW keep \in BOOLEAN, Cancel(c, keep) PROVE TypeOK'
    <2>1. wakeRequested' \in BOOLEAN
      BY <1>5, Zenon DEF Cancel
    <2>2. Abort(c) /\ calls' \in Seq(Frames)
      BY <1>5 DEF Cancel, TypeOK
    <2> QED
      BY <2>1, <2>2, CancelAbortType
  <1>6. ASSUME RunMaintenance PROVE TypeOK'
    <2>1. wakeRequested' \in BOOLEAN
      BY <1>6, Zenon DEF RunMaintenance
    <2> QED
      BY <1>6, <2>1 DEF RunMaintenance, TypeOK, Kinds
  <1>7. ASSUME NEW c \in Causes, CancelClears(c) PROVE TypeOK'
    <2>1. calls \in Seq(Frames)
      BY DEF TypeOK
    <2> QED
      BY <1>7, <2>1, ClearStepType, ClearTurnType DEF CancelClears
  <1> QED
    BY <1>1, <1>2, <1>3, <1>4, <1>5, <1>6, <1>7 DEF Environment

\* An append keeps the types of the log.
LEMMA AppendType ==
    ASSUME TypeOK, NEW ty \in DriverTypes, NEW t \in Nat, NEW s \in Nat, AppendEvent(ty, t, s)
    PROVE  trace' \in Log!Traces /\ event' \in Events
  BY Appends DEF TypeOK

\* Every segment of turn() and kick() keeps the types.
LEMMA TurnType ==
    ASSUME TypeOK, TurnStep
    PROVE  TypeOK'
  <1> USE DEF phaseVars, inboxVars, localVars, logVars, PhaseUnchanged, HostUnchanged,
             QueueUnchanged, Events
  <1>0. /\ {"turn/start", "turn/end", "step/start", "step/end"} \subseteq DriverTypes /\ 0 \in Nat
        /\ turn \in Nat /\ step \in Nat /\ turn + 1 \in Nat /\ step + 1 \in Nat
    BY DEF DriverTypes, Log!EventTypes, TypeOK
  <1>1. ASSUME TurnStart PROVE TypeOK'
    <2>1. trace' \in Log!Traces /\ event' \in Events
      BY <1>0, <1>1, AppendType DEF TurnStart, AppendTurnEnd
    <2> QED
      BY <1>1, <2>1 DEF TurnStart, AppendTurnEnd, Settled, TypeOK, PCs, Targets
  <1>2. ASSUME TurnNotStarted PROVE TypeOK'
    <2>1. calls' \in Seq(Frames)
      BY <1>2, ReturnsType DEF TurnNotStarted
    <2>2. owed' \subseteq Msgs /\ swept' \subseteq Msgs
      BY <1>2 DEF TurnNotStarted, Settled, TypeOK
    <2> QED
      BY <1>2, <2>1, <2>2 DEF TurnNotStarted, TypeOK, PCs
  <1>3. ASSUME OpenedAborted PROVE TypeOK'
    BY <1>3, CatchType DEF OpenedAborted
  <1>4. ASSUME ClaimStep PROVE TypeOK'
    <2>1. Claim(target) /\ target \in Targets
      BY <1>4 DEF ClaimStep, TypeOK
    <2>2. /\ batch' \in MsgSeq /\ nextTurn' \in MsgSeq /\ nextStep' \in MsgSeq /\ fate' \in Fates
          /\ owed' \subseteq Msgs /\ swept' \subseteq Msgs /\ live' \subseteq Msgs
          /\ ordinary' \in Nat
      BY <2>1, ClaimType
    <2>3. calls' \in Seq(Frames)
      BY <1>4, ReturnsType DEF ClaimStep
    <2> QED
      BY <1>4, <2>2, <2>3 DEF ClaimStep, TypeOK, PCs, Fates
  <1>5. ASSUME Assembled PROVE TypeOK'
    BY <1>5 DEF Assembled, TypeOK, PCs
  <1>6. ASSUME NEW d \in {"reject", "enter", "empty"}, PreStepDecided(d) PROVE TypeOK'
    <2>1. batch' \in MsgSeq /\ fate' \in Fates
      <3>1. CASE UNCHANGED <<batch, fate>>
        BY <3>1 DEF TypeOK, Fates
      <3>2. CASE DropBatch
        BY <3>2 DEF DropBatch, TypeOK, MsgSeq, Fates
      <3> QED
        BY <1>6, <3>1, <3>2 DEF PreStepDecided
    <2> QED
      BY <1>6, <2>1 DEF PreStepDecided, TypeOK, PCs, Fates
  <1>7. ASSUME AwaitThrows PROVE TypeOK'
    BY <1>7, CatchType DEF AwaitThrows
  <1>8. ASSUME TurnWithoutStep PROVE TypeOK'
    <2>1. CASE AppendTurnEnd("blocked") /\ live' = {}
      <3>1. trace' \in Log!Traces /\ event' \in Events
        BY <1>0, <2>1, AppendType DEF AppendTurnEnd
      <3> QED
        BY <1>8, <2>1, <3>1 DEF TurnWithoutStep, AppendTurnEnd, TypeOK, PCs
    <2>2. CASE AppendTurnEnd("completed") /\ UNCHANGED live
      <3>1. trace' \in Log!Traces /\ event' \in Events
        BY <1>0, <2>2, AppendType DEF AppendTurnEnd
      <3> QED
        BY <1>8, <2>2, <3>1 DEF TurnWithoutStep, AppendTurnEnd, TypeOK, PCs
    <2> QED
      BY <1>8, <2>1, <2>2 DEF TurnWithoutStep
  <1>9. ASSUME TurnBreak PROVE TypeOK'
    <2>1. trace' \in Log!Traces /\ event' \in Events
      BY <1>0, <1>9, AppendType DEF TurnBreak, AppendTurnEnd
    <2> QED
      BY <1>9, <2>1 DEF TurnBreak, AppendTurnEnd, TypeOK, PCs
  <1>10. ASSUME StepStart PROVE TypeOK'
    <2>1. trace' \in Log!Traces /\ event' \in Events
      BY <1>0, <1>10, AppendType DEF StepStart, AppendTurnEnd
    <2> QED
      BY <1>10, <2>1 DEF StepStart, AppendTurnEnd, TypeOK, PCs
  <1>11. ASSUME DecidedAborted PROVE TypeOK'
    BY <1>11, CatchType DEF DecidedAborted
  <1>12. ASSUME StepEnd PROVE TypeOK'
    <2>1. trace' \in Log!Traces /\ event' \in Events
      BY <1>0, <1>12, AppendType DEF StepEnd, AppendTurnEnd
    <2> QED
      BY <1>12, <2>1 DEF StepEnd, AppendTurnEnd, TypeOK, PCs, Sticky
  <1>13. ASSUME CaughtThrow PROVE TypeOK'
    BY <1>13, CatchType DEF CaughtThrow
  <1>14. ASSUME SteppedAborted PROVE TypeOK'
    BY <1>14, CatchType DEF SteppedAborted
  <1>15. ASSUME StepSettled PROVE TypeOK'
    <2>1. CASE NextStepClaim
      <3>1. Claim("next-step") /\ "next-step" \in Targets
        BY <2>1 DEF NextStepClaim, Targets
      <3>2. /\ batch' \in MsgSeq /\ nextTurn' \in MsgSeq /\ nextStep' \in MsgSeq /\ fate' \in Fates
            /\ owed' \subseteq Msgs /\ swept' \subseteq Msgs /\ live' \subseteq Msgs
          /\ ordinary' \in Nat
        BY <3>1, ClaimType
      <3> QED
        BY <2>1, <3>2 DEF NextStepClaim, TypeOK, PCs, Targets, Fates
    <2>2. CASE /\ pc' = "stopping" /\ UNCHANGED <<turn, step, localVars, logVars, fate>>
               /\ QueueUnchanged /\ HostUnchanged
      BY <2>2 DEF TypeOK, PCs
    <2> QED
      BY <1>15, <2>1, <2>2 DEF StepSettled
  <1>16. ASSUME TurnStopped PROVE TypeOK'
    <2>1. CASE NextStepClaim
      <3>1. Claim("next-step") /\ "next-step" \in Targets
        BY <2>1 DEF NextStepClaim, Targets
      <3>2. /\ batch' \in MsgSeq /\ nextTurn' \in MsgSeq /\ nextStep' \in MsgSeq /\ fate' \in Fates
            /\ owed' \subseteq Msgs /\ swept' \subseteq Msgs /\ live' \subseteq Msgs
          /\ ordinary' \in Nat
        BY <3>1, ClaimType
      <3> QED
        BY <2>1, <3>2 DEF NextStepClaim, TypeOK, PCs, Targets, Fates
    <2>2. CASE /\ AppendTurnEnd(turnEnds) /\ pc' = "closed"
               /\ UNCHANGED <<turn, step, target, batch, decision, stepEnd, attempt, fate>>
               /\ QueueUnchanged /\ HostUnchanged
      <3>1. trace' \in Log!Traces /\ event' \in Events
        BY <1>0, <2>2, AppendType DEF AppendTurnEnd
      <3> QED
        BY <2>2, <3>1 DEF AppendTurnEnd, TypeOK, PCs
    <2> QED
      BY <1>16, <2>1, <2>2 DEF TurnStopped
  <1>17. ASSUME FailClose PROVE TypeOK'
    <2>1. trace' \in Log!Traces /\ event' \in Events
      BY <1>0, <1>17, AppendType DEF FailClose, AppendTurnEnd
    <2> QED
      BY <1>17, <2>1 DEF FailClose, AppendTurnEnd, TypeOK, PCs
  <1>18. ASSUME TurnClosed PROVE TypeOK'
    <2>1. CASE HasPending
      <3>1. wakeRequested' \in BOOLEAN
        BY <1>18, <2>1, Zenon DEF TurnClosed
      <3> QED
        BY <1>18, <2>1, <3>1 DEF TurnClosed, TypeOK, PCs
    <2>2. CASE ~HasPending
      BY <1>18, <2>2 DEF TurnClosed, TypeOK, PCs
    <2> QED
      BY <2>1, <2>2
  <1>19. ASSUME KickFinally PROVE TypeOK'
    <2>1. wakeRequested' \in BOOLEAN
      BY <1>19, Zenon DEF KickFinally
    <2> QED
      BY <1>19, <2>1 DEF KickFinally, TypeOK, PCs, Kinds
  <1> QED
    BY <1>1, <1>2, <1>3, <1>4, <1>5, <1>6, <1>7, <1>8, <1>9, <1>10, <1>11,
       <1>12, <1>13, <1>14, <1>15, <1>16, <1>17, <1>18, <1>19
       DEF TurnStep

\* Every segment of step() keeps the types.
LEMMA RequestType ==
    ASSUME TypeOK, RequestStep
    PROVE  TypeOK'
  <1> USE DEF phaseVars, inboxVars, localVars, logVars, PhaseUnchanged, HostUnchanged,
             QueueUnchanged, Events
  <1>0. /\ {"system/message", "assistant/attempt", "assistant/message"} \subseteq DriverTypes
        /\ turn \in Nat /\ step \in Nat
    BY DEF DriverTypes, Log!EventTypes, Log!StepTypes, TypeOK
  <1>1. ASSUME RequestPrepared PROVE TypeOK'
    BY <1>1 DEF RequestPrepared, TypeOK, PCs
  <1>2. ASSUME Admit PROVE TypeOK'
    <2>1. trace' \in Log!Traces /\ event' \in Events
      BY <1>0, <1>2, AppendType DEF Admit
    <2>2. batch' \in MsgSeq /\ fate' \in Fates
      <3>1. CASE UNCHANGED <<batch, fate>>
        BY <3>1 DEF TypeOK, Fates
      <3>2. CASE /\ fate' = [m \in Msgs |-> IF m \in SeqSet(batch) THEN "logged" ELSE fate[m]]
                 /\ batch' = <<>>
        BY <3>2 DEF TypeOK, MsgSeq, Fates
      <3> QED
        BY <1>2, <3>1, <3>2 DEF Admit
    <2> QED
      BY <1>2, <2>1, <2>2 DEF Admit, BuildRequest, TypeOK, PCs, Fates
  <1>3. ASSUME StreamThrows PROVE TypeOK'
    <2>1. trace' \in Log!Traces /\ event' \in Events
      BY <1>0, <1>3, AppendType DEF StreamThrows
    <2> QED
      BY <1>3, <2>1 DEF StreamThrows, StepThrows, TypeOK, PCs
  <1>4. ASSUME RequestFailed PROVE TypeOK'
    <2>1. trace' \in Log!Traces /\ event' \in Events
      BY <1>0, <1>4, AppendType DEF RequestFailed, AppendTurnEnd
    <2> QED
      BY <1>4, <2>1 DEF RequestFailed, AppendTurnEnd, TypeOK, PCs
  <1>5. ASSUME Retry PROVE TypeOK'
    BY <1>5 DEF Retry, TypeOK, PCs
  <1>6. ASSUME StepAwaitThrows PROVE TypeOK'
    BY <1>6 DEF StepAwaitThrows, StepThrows, TypeOK, PCs
  <1>7. ASSUME NEW end \in {"completed", "max-tokens", "tools"}, Responded(end) PROVE TypeOK'
    <2>1. trace' \in Log!Traces /\ event' \in Events
      BY <1>0, <1>7, AppendType DEF Responded
    <2> QED
      BY <1>7, <2>1 DEF Responded, TypeOK, PCs
  <1>8. ASSUME ToolsReturned PROVE TypeOK'
    BY <1>8 DEF ToolsReturned, TypeOK, PCs
  <1> QED
    BY <1>1, <1>2, <1>3, <1>4, <1>5, <1>6, <1>7, <1>8 DEF RequestStep

\* Every step keeps the types.
LEMMA TypeStep ==
    ASSUME TypeOK, [Next]_vars
    PROVE  TypeOK'
  <1>0. calls \in Seq(Frames)
    BY DEF TypeOK
  <1>1. ASSUME MaintenanceEnd PROVE TypeOK'
    <2>1. owed' \subseteq Msgs /\ swept' \subseteq Msgs
      BY <1>1 DEF MaintenanceEnd, Settled, TypeOK
    <2>2. CASE StartDriver(calls)
      <3>1. wakeRequested' \in BOOLEAN
        BY <2>2, Zenon DEF StartDriver
      <3>2. calls' \in Seq(Frames)
        BY <1>0, <2>2, PushFrame, KickFrameType DEF StartDriver
      <3> QED
        BY <1>1, <2>1, <2>2, <3>1, <3>2
           DEF MaintenanceEnd, StartDriver, TypeOK, Kinds, PCs, inboxVars, localVars, logVars
    <2>3. CASE /\ kind' = "idle" /\ cause' = "none" /\ wakeRequested' = FALSE
               /\ UNCHANGED <<step, pc, calls>>
      <3>1. wakeRequested' \in BOOLEAN
        BY <2>3, Zenon
      <3> QED
        BY <1>1, <2>1, <2>3, <3>1 DEF MaintenanceEnd, TypeOK, Kinds, inboxVars, localVars, logVars
    <2> QED
      BY <1>1, <2>2, <2>3 DEF MaintenanceEnd
  <1>2. ASSUME ReplayLatch PROVE TypeOK'
    <2>1. /\ kind' \in Kinds /\ turn' \in Nat /\ step' \in Nat /\ cause' \in Causes \cup {"none"}
          /\ wakeRequested' \in BOOLEAN /\ pc' \in PCs /\ calls' \in Seq(Frames)
      <3>1. CASE WakeDriver(FALSE, calls)
        BY <1>0, <3>1, WakeType
      <3>2. CASE UNCHANGED <<phaseVars, pc, calls>>
        BY <3>2 DEF phaseVars, TypeOK
      <3> QED
        BY <1>2, <3>1, <3>2 DEF ReplayLatch
    <2>2. replay' \in BOOLEAN
      BY <1>2, Zenon DEF ReplayLatch
    <2> QED
      BY <1>2, <2>1, <2>2 DEF ReplayLatch, TypeOK, inboxVars, localVars, logVars
  <1>3. ASSUME SendWake PROVE TypeOK'
    <2>1. Head(calls).msg \in Msgs /\ Head(calls).afterAbort \in BOOLEAN /\ Tail(calls) \in Seq(Frames)
      BY <1>3, ResumedFrame, FrameFields DEF SendWake
    <2>2. /\ kind' \in Kinds /\ turn' \in Nat /\ step' \in Nat /\ cause' \in Causes \cup {"none"}
          /\ wakeRequested' \in BOOLEAN /\ pc' \in PCs /\ calls' \in Seq(Frames)
      BY <1>3, <2>1, WakeType DEF SendWake
    <2>3. /\ owed' \subseteq Msgs /\ swept' \subseteq Msgs /\ live' \subseteq Msgs
          /\ late' \subseteq Msgs /\ parked' \in BOOLEAN
      BY <1>3, <2>1, NoteType DEF SendWake
    <2> QED
      BY <1>3, <2>2, <2>3 DEF SendWake, TypeOK, inboxVars, localVars, logVars
  <1>5. ASSUME CancelClearsTurn PROVE TypeOK'
    <2>1. Head(calls).cause \in Causes /\ Tail(calls) \in Seq(Frames)
      BY <1>5, ResumedFrame, FrameFields DEF CancelClearsTurn
    <2> QED
      BY <1>5, <2>1, ClearTurnType DEF CancelClearsTurn
  <1>6. ASSUME CancelAborts PROVE TypeOK'
    <2>1. Head(calls).cause \in Causes /\ Tail(calls) \in Seq(Frames)
      BY <1>6, ResumedFrame, FrameFields DEF CancelAborts
    <2>2. wakeRequested' \in BOOLEAN
      BY <1>6, Zenon DEF CancelAborts
    <2> QED
      BY <1>6, <2>1, <2>2, CancelAbortType DEF CancelAborts
  <1>4. CASE UNCHANGED vars
    BY <1>4 DEF vars, TypeOK, phaseVars, inboxVars, localVars, logVars
  <1> QED
    BY <1>1, <1>2, <1>3, <1>4, <1>5, <1>6, TurnType, RequestType, EnvironmentType DEF Next, Progress

\* The initial states have their types.
LEMMA TypeInit ==
    ASSUME Init
    PROVE  TypeOK
  <1>1. nextTurn \in MsgSeq /\ nextStep \in MsgSeq /\ batch \in MsgSeq
    <2>1. <<>> \in Seq(Msgs) /\ \A m \in Msgs : <<m>> \in Seq(Msgs)
      OBVIOUS
    <2> QED
      BY <2>1 DEF Init, MsgSeq
  <1>2. trace \in Log!Traces
    BY ConstantsAssumption DEF Init, Log!FreshTrace, Log!Traces, Log!None
  <1>3. event \in Events
    BY DEF Init, Log!Event, Events, Log!EventTypes, Log!FreeTypes
  <1>4. fate \in Fates
    BY DEF Init, Fates
  <1>5. wakeRequested \in BOOLEAN /\ replay \in BOOLEAN /\ parked \in BOOLEAN /\ disposing \in BOOLEAN
    BY Zenon DEF Init
  <1>6. calls \in Seq(Frames)
    BY DEF Init
  <1> QED
    BY <1>1, <1>2, <1>3, <1>4, <1>5, <1>6, ConstantsAssumption
       DEF Init, TypeOK, Kinds, Causes, PCs, Targets, Events, Fates

\* Every variable of the loop keeps its type: in particular the counters stay
\* numbers, and nothing but a message is ever queued, claimed or being sent.
THEOREM TypeCorrect == Spec => []TypeOK
  <1>1. Init => TypeOK
    BY TypeInit
  <1>2. TypeOK /\ [Next]_vars => TypeOK'
    BY TypeStep
  <1> QED
    BY <1>1, <1>2, PTL DEF Spec
-----------------------------------------------------------------------------
(* The inductive invariant *)

\* Where the program counter can be, and what a turn and a step it is inside
\* of have counted.
Control ==
    /\ kind = "running" <=> pc # "off"
    /\ pc = "kicked" => step = 0
    /\ pc \notin Between => turn > 0
    /\ pc \in Inside => trace.nextStep = step

\* A running driver latches wakes only once it is aborted, and every interrupted
\* send that found it aborted still finds it so when it goes on to wake it.
WakeLatch ==
    /\ (kind = "running" /\ wakeRequested) => Aborted
    /\ DisposalNeverLatches
    /\ \A f \in SeqSet(calls) : f.afterAbort => (Aborted /\ kind # "idle")

IInv == TypeOK /\ Brackets /\ Control /\ WakeLatch
-----------------------------------------------------------------------------
(* The brackets of the log *)

\* Starting or not starting a driver moves the program counter with the phase.
LEMMA WakeControl ==
    ASSUME TypeOK, Control, Brackets, NEW afterAbort, NEW outer, WakeDriver(afterAbort, outer),
           UNCHANGED logVars
    PROVE  Brackets' /\ Control'
  <1>1. CASE kind = "idle" /\ StartDriver(outer) /\ UNCHANGED turn
    BY <1>1 DEF StartDriver, TypeOK, Brackets, Control, Between, Inside, logVars
  <1>2. CASE kind # "idle" /\ UNCHANGED <<kind, turn, step, cause, pc>>
    BY <1>2 DEF Brackets, Control, Between, Inside, logVars
  <1> QED
    BY <1>1, <1>2 DEF WakeDriver

\* The steps of cancel, interrupted or not.
CancelStep ==
    \/ \E c \in Causes : CancelClears(c) \/ \E keep \in BOOLEAN : Cancel(c, keep)
    \/ CancelClearsTurn \/ CancelAborts

\* No step of a cancel moves the driver, its log or its turn.
LEMMA CancelLeaves ==
    ASSUME CancelStep
    PROVE  UNCHANGED <<kind, turn, step, localVars, pc, replay, logVars, ordinary>>
  <1>1. ASSUME NEW ms, NEW at, NEW c, NEW outer, Discard(ms, at, c, outer)
        PROVE  UNCHANGED <<kind, turn, step, localVars, pc, replay, logVars, ordinary>>
    BY <1>1 DEF Discard, phaseVars
  <1>2. ASSUME NEW c, Abort(c)
        PROVE  UNCHANGED <<kind, turn, step, localVars, pc, replay, logVars, ordinary>>
    BY <1>2 DEF Abort
  <1> QED
    BY <1>1, <1>2 DEF CancelStep, CancelClears, ClearNextStep, ClearNextTurn, Cancel, CancelClearsTurn,
                      CancelAborts

\* Callers never touch the log, and start a driver only from idle.
LEMMA EnvironmentControl ==
    ASSUME TypeOK, Brackets, Control, Environment
    PROVE  Brackets' /\ Control'
  <1>1. ASSUME UNCHANGED <<kind, turn, step, pc, trace>> PROVE Brackets' /\ Control'
    BY <1>1 DEF Brackets, Control, Between, Inside
  <1>2. ASSUME NEW m \in Msgs, Inject(m) PROVE Brackets' /\ Control'
    BY <1>1, <1>2 DEF Inject, phaseVars, logVars
  <1>3. ASSUME NEW m \in Msgs, NEW tgt \in Targets, SendInsert(m, tgt) PROVE Brackets' /\ Control'
    BY <1>1, <1>3 DEF SendInsert, phaseVars, logVars
  <1>4. ASSUME NEW m \in Msgs, Remove(m) PROVE Brackets' /\ Control'
    BY <1>1, <1>4 DEF Remove, phaseVars, logVars
  <1>5. ASSUME NEW m \in Msgs, ToolContext(m) PROVE Brackets' /\ Control'
    BY <1>1, <1>5 DEF ToolContext, HostUnchanged, PhaseUnchanged, logVars
  <1>6. ASSUME CancelStep PROVE Brackets' /\ Control'
    BY <1>1, <1>6, CancelLeaves DEF logVars
  <1>7. ASSUME RunMaintenance PROVE Brackets' /\ Control'
    BY <1>7 DEF RunMaintenance, logVars, Brackets, Control, Between, Inside
  <1> QED
    BY <1>2, <1>3, <1>4, <1>5, <1>6, <1>7 DEF Environment, CancelStep

\* Whichever await of a turn threw, its catch clause closes the turn or is
\* about to.
LEMMA CatchControl ==
    ASSUME TypeOK, Brackets, Control, CatchThrow, pc \notin Between \cup Inside \cup {"closed"}
    PROVE  Brackets' /\ Control'
  <1> USE DEF Brackets, Control, Between, Inside
  <1>0. "turn/end" \in DriverTypes /\ turn \in Nat /\ step \in Nat /\ 0 \in Nat
    BY DEF DriverTypes, Log!EventTypes, TypeOK
  <1>1. turn' = turn /\ step' = step /\ kind' = kind
    BY DEF CatchThrow, PhaseUnchanged
  <1>2. CASE AppendTurnEnd("aborted") /\ pc' = "exiting"
    <2>1. /\ trace'.openTurn = 0 /\ trace'.openStep = trace.openStep
          /\ trace'.nextTurn = trace.nextTurn + 1 /\ trace'.nextStep = trace.nextStep
      BY <1>0, <1>2, Appends DEF AppendTurnEnd, TypeOK
    <2> QED
      BY <1>0, <1>1, <1>2, <2>1
  <1>3. CASE pc' = "failing" /\ UNCHANGED logVars
    BY <1>0, <1>1, <1>3 DEF logVars
  <1> QED
    BY <1>2, <1>3 DEF CatchThrow

\* Every segment of turn() and kick() keeps the log's brackets in step with
\* the program counter.
LEMMA TurnControl ==
    ASSUME TypeOK, Brackets, Control, TurnStep
    PROVE  Brackets' /\ Control'
  <1> USE DEF Brackets, Control, Between, Inside, PhaseUnchanged, HostUnchanged, QueueUnchanged, localVars
  <1>0. /\ {"turn/start", "turn/end", "step/start", "step/end"} \subseteq DriverTypes /\ 0 \in Nat
        /\ turn \in Nat /\ step \in Nat /\ turn + 1 \in Nat /\ step + 1 \in Nat
        /\ trace \in Log!Traces
    BY DEF DriverTypes, Log!EventTypes, TypeOK
  <1>1. ASSUME TurnStart PROVE Brackets' /\ Control'
    <2>1. /\ trace'.openTurn = turn' /\ trace'.openStep = trace.openStep
          /\ trace'.nextTurn = trace.nextTurn /\ trace'.nextStep = 1
      BY <1>0, <1>1, Appends DEF TurnStart, AppendTurnEnd
    <2> QED
      BY <1>0, <1>1, <2>1 DEF TurnStart, Driver
  <1>2. ASSUME TurnNotStarted PROVE Brackets' /\ Control'
    BY <1>2 DEF TurnNotStarted, Driver, logVars
  <1>3. ASSUME OpenedAborted PROVE Brackets' /\ Control'
    BY <1>3, CatchControl DEF OpenedAborted, Driver, Between, Inside
  <1>4. ASSUME ClaimStep PROVE Brackets' /\ Control'
    BY <1>4 DEF ClaimStep, Driver, logVars
  <1>5. ASSUME Assembled PROVE Brackets' /\ Control'
    BY <1>5 DEF Assembled, Driver, logVars
  <1>6. ASSUME NEW d \in {"reject", "enter", "empty"}, PreStepDecided(d) PROVE Brackets' /\ Control'
    BY <1>6 DEF PreStepDecided, Driver, logVars
  <1>7. ASSUME AwaitThrows PROVE Brackets' /\ Control'
    BY <1>7, CatchControl DEF AwaitThrows, Driver, Between, Inside
  <1>8. ASSUME TurnWithoutStep PROVE Brackets' /\ Control'
    <2>1. /\ trace'.openTurn = 0 /\ trace'.openStep = trace.openStep
          /\ trace'.nextTurn = trace.nextTurn + 1 /\ trace'.nextStep = trace.nextStep
      BY <1>0, <1>8, Appends DEF TurnWithoutStep, AppendTurnEnd
    <2> QED
      BY <1>0, <1>8, <2>1 DEF TurnWithoutStep, Driver
  <1>9. ASSUME TurnBreak PROVE Brackets' /\ Control'
    <2>1. /\ trace'.openTurn = 0 /\ trace'.openStep = trace.openStep
          /\ trace'.nextTurn = trace.nextTurn + 1 /\ trace'.nextStep = trace.nextStep
      BY <1>0, <1>9, Appends DEF TurnBreak, AppendTurnEnd
    <2> QED
      BY <1>0, <1>9, <2>1 DEF TurnBreak, Driver
  <1>10. ASSUME StepStart PROVE Brackets' /\ Control'
    <2>1. /\ trace'.openTurn = trace.openTurn /\ trace'.openStep = step'
          /\ trace'.nextTurn = trace.nextTurn /\ trace'.nextStep = trace.nextStep
      BY <1>0, <1>10, Appends DEF StepStart, AppendTurnEnd
    <2> QED
      BY <1>0, <1>10, <2>1 DEF StepStart, Driver
  <1>11. ASSUME DecidedAborted PROVE Brackets' /\ Control'
    BY <1>11, CatchControl DEF DecidedAborted, Driver, Between, Inside
  <1>12. ASSUME StepEnd PROVE Brackets' /\ Control'
    <2>1. /\ trace'.openTurn = trace.openTurn /\ trace'.openStep = 0
          /\ trace'.nextTurn = trace.nextTurn /\ trace'.nextStep = trace.nextStep + 1
      BY <1>0, <1>12, Appends DEF StepEnd, AppendTurnEnd
    <2> QED
      BY <1>0, <1>12, <2>1 DEF StepEnd, Driver
  <1>13. ASSUME CaughtThrow PROVE Brackets' /\ Control'
    BY <1>13, CatchControl DEF CaughtThrow, Driver, Between, Inside
  <1>14. ASSUME SteppedAborted PROVE Brackets' /\ Control'
    BY <1>14, CatchControl DEF SteppedAborted, Driver, Between, Inside
  <1>15. ASSUME StepSettled PROVE Brackets' /\ Control'
    <2>1. /\ pc' \in {"stopping", "assembling"}
          /\ UNCHANGED <<kind, turn, step, trace>>
      BY <1>15 DEF StepSettled, NextStepClaim, logVars
    <2> QED
      BY <1>15, <2>1 DEF StepSettled, Driver
  <1>16. ASSUME TurnStopped PROVE Brackets' /\ Control'
    <2>1. CASE NextStepClaim
      BY <1>16, <2>1 DEF TurnStopped, NextStepClaim, Driver, logVars
    <2>2. CASE /\ AppendTurnEnd(turnEnds) /\ pc' = "closed"
               /\ UNCHANGED <<turn, step>> /\ HostUnchanged
      <3>1. /\ trace'.openTurn = 0 /\ trace'.openStep = trace.openStep
            /\ trace'.nextTurn = trace.nextTurn + 1 /\ trace'.nextStep = trace.nextStep
        BY <1>0, <2>2, Appends DEF AppendTurnEnd
      <3> QED
        BY <1>0, <1>16, <2>2, <3>1 DEF TurnStopped, Driver
    <2> QED
      BY <1>16, <2>1, <2>2 DEF TurnStopped
  <1>17. ASSUME FailClose PROVE Brackets' /\ Control'
    <2>1. /\ trace'.openTurn = 0 /\ trace'.openStep = trace.openStep
          /\ trace'.nextTurn = trace.nextTurn + 1 /\ trace'.nextStep = trace.nextStep
      BY <1>0, <1>17, Appends DEF FailClose, AppendTurnEnd
    <2> QED
      BY <1>0, <1>17, <2>1 DEF FailClose, Driver
  <1>18. ASSUME TurnClosed PROVE Brackets' /\ Control'
    BY <1>18 DEF TurnClosed, Driver, logVars
  <1>19. ASSUME KickFinally PROVE Brackets' /\ Control'
    BY <1>19 DEF KickFinally, Driver, logVars
  <1> QED
    BY <1>1, <1>2, <1>3, <1>4, <1>5, <1>6, <1>7, <1>8, <1>9, <1>10, <1>11,
       <1>12, <1>13, <1>14, <1>15, <1>16, <1>17, <1>18, <1>19
       DEF TurnStep

\* Nothing inside an open step moves a bracket of the log.
LEMMA RequestControl ==
    ASSUME TypeOK, Brackets, Control, RequestStep
    PROVE  Brackets' /\ Control'
  <1> USE DEF Brackets, Control, Between, Inside, PhaseUnchanged, HostUnchanged, QueueUnchanged, localVars
  <1>0. /\ {"system/message", "assistant/attempt", "assistant/message"} \subseteq DriverTypes
        /\ turn \in Nat /\ step \in Nat /\ trace \in Log!Traces
    BY DEF DriverTypes, Log!EventTypes, Log!StepTypes, TypeOK
  <1>1. ASSUME RequestPrepared PROVE Brackets' /\ Control'
    BY <1>1 DEF RequestPrepared, Driver, logVars
  <1>2. ASSUME Admit PROVE Brackets' /\ Control'
    <2>1. /\ trace'.openTurn = trace.openTurn /\ trace'.openStep = trace.openStep
          /\ trace'.nextTurn = trace.nextTurn /\ trace'.nextStep = trace.nextStep
      BY <1>0, <1>2, Appends DEF Admit, AppendTurnEnd, BuildRequest
    <2> QED
      BY <1>0, <1>2, <2>1 DEF Admit, Driver, BuildRequest
  <1>3. ASSUME StreamThrows PROVE Brackets' /\ Control'
    <2>1. /\ trace'.openTurn = trace.openTurn /\ trace'.openStep = trace.openStep
          /\ trace'.nextTurn = trace.nextTurn /\ trace'.nextStep = trace.nextStep
      BY <1>0, <1>3, Appends DEF StreamThrows
    <2> QED
      BY <1>0, <1>3, <2>1 DEF StreamThrows, StepThrows, Driver
  <1>4. ASSUME RequestFailed PROVE Brackets' /\ Control'
    <2>1. /\ trace'.openTurn = trace.openTurn /\ trace'.openStep = trace.openStep
          /\ trace'.nextTurn = trace.nextTurn /\ trace'.nextStep = trace.nextStep
      BY <1>0, <1>4, Appends DEF RequestFailed, AppendTurnEnd
    <2> QED
      BY <1>0, <1>4, <2>1 DEF RequestFailed, Driver
  <1>5. ASSUME Retry PROVE Brackets' /\ Control'
    BY <1>5 DEF Retry, Driver, logVars
  <1>6. ASSUME StepAwaitThrows PROVE Brackets' /\ Control'
    BY <1>6 DEF StepAwaitThrows, Driver, logVars, StepThrows
  <1>7. ASSUME NEW end \in {"completed", "max-tokens", "tools"}, Responded(end) PROVE Brackets' /\ Control'
    <2>1. /\ trace'.openTurn = trace.openTurn /\ trace'.openStep = trace.openStep
          /\ trace'.nextTurn = trace.nextTurn /\ trace'.nextStep = trace.nextStep
      BY <1>0, <1>7, Appends DEF Responded, AppendTurnEnd
    <2> QED
      BY <1>0, <1>7, <2>1 DEF Responded, Driver
  <1>8. ASSUME ToolsReturned PROVE Brackets' /\ Control'
    BY <1>8 DEF ToolsReturned, Driver, logVars
  <1> QED
    BY <1>1, <1>2, <1>3, <1>4, <1>5, <1>6, <1>7, <1>8 DEF RequestStep

\* Every step keeps the log's brackets and the program counter together.
LEMMA ControlStep ==
    ASSUME TypeOK, Brackets, Control, [Next]_vars
    PROVE  Brackets' /\ Control'
  <1> USE DEF Brackets, Control, Between, Inside
  <1>1. ASSUME MaintenanceEnd PROVE Brackets' /\ Control'
    <2>1. CASE StartDriver(calls)
      BY <1>1, <2>1 DEF MaintenanceEnd, StartDriver, TypeOK, logVars
    <2>2. CASE kind' = "idle" /\ UNCHANGED <<step, pc>>
      BY <1>1, <2>2 DEF MaintenanceEnd, logVars
    <2> QED
      BY <1>1, <2>1, <2>2 DEF MaintenanceEnd
  <1>2. ASSUME ReplayLatch PROVE Brackets' /\ Control'
    <2>1. CASE WakeDriver(FALSE, calls)
      BY <1>2, <2>1, WakeControl DEF ReplayLatch
    <2>2. CASE UNCHANGED <<phaseVars, pc, calls>>
      BY <1>2, <2>2 DEF ReplayLatch, phaseVars, logVars
    <2> QED
      BY <1>2, <2>1, <2>2 DEF ReplayLatch
  <1>3. ASSUME SendWake PROVE Brackets' /\ Control'
    BY <1>3, WakeControl DEF SendWake
  <1>4. CASE UNCHANGED vars
    BY <1>4 DEF vars, phaseVars, logVars
  <1>5. ASSUME CancelStep PROVE Brackets' /\ Control'
    BY <1>5, CancelLeaves DEF logVars
  <1> QED
    BY <1>1, <1>2, <1>3, <1>4, <1>5, TurnControl, RequestControl, EnvironmentControl
       DEF Next, Progress, CancelStep
-----------------------------------------------------------------------------
(* The wake latch *)

\* wakeDriver latches nothing on a live or disposed driver, and leaves the
\* cause of an activity that goes on alone.
LEMMA WakeLatches ==
    ASSUME TypeOK, WakeLatch, NEW afterAbort \in BOOLEAN, NEW outer \in Seq(Frames),
           SeqSet(outer) \subseteq SeqSet(calls), WakeDriver(afterAbort, outer),
           afterAbort => (Aborted /\ kind # "idle")
    PROVE  WakeLatch'
  <1>1. /\ (kind' = "running" /\ wakeRequested') => Aborted'
        /\ DisposalNeverLatches'
        /\ (Aborted /\ kind # "idle") => (Aborted' /\ kind' # "idle")
    <2>1. CASE kind = "idle" /\ StartDriver(outer)
      BY <2>1 DEF StartDriver, DisposalNeverLatches
    <2>2. CASE /\ kind # "idle" /\ wakeRequested' = (wakeRequested \/ Latches(afterAbort))
               /\ kind' = kind /\ cause' = cause
      <3>1. wakeRequested' => (wakeRequested \/ Latches(afterAbort))
        BY <2>2
      <3> QED
        BY <2>2, <3>1 DEF Latches, WakeLatch, DisposalNeverLatches, Aborted
    <2> QED
      BY <2>1, <2>2 DEF WakeDriver
  <1>2. SeqSet(calls') \subseteq {KickFrame} \cup SeqSet(calls) /\ ~KickFrame.afterAbort
    BY WakeType DEF KickFrame
  <1> QED
    BY <1>1, <1>2 DEF WakeLatch

\* A cancel takes wakes back and never latches one.
LEMMA CancelLatch ==
    ASSUME TypeOK, WakeLatch, CancelStep
    PROVE  WakeLatch'
  <1>1. ASSUME NEW ms, NEW at \in {"clearTurn", "abort"}, NEW c \in Causes,
               NEW outer \in Seq(Frames), SeqSet(outer) \subseteq SeqSet(calls),
               Discard(ms, at, c, outer)
        PROVE  WakeLatch'
    <2>1. CancelFrame(at, c) \in Frames /\ ~CancelFrame(at, c).afterAbort
      <3>1. CancelFrame(at, c) \in Frames
        BY DEF Frames
      <3> QED
        BY <3>1 DEF CancelFrame
    <2>2. SeqSet(calls') = {CancelFrame(at, c)} \cup SeqSet(outer)
      BY <1>1, <2>1, PushFrame DEF Discard
    <2>3. UNCHANGED <<kind, cause, wakeRequested>>
      BY <1>1 DEF Discard, phaseVars
    <2> QED
      BY <1>1, <2>1, <2>2, <2>3 DEF WakeLatch, DisposalNeverLatches, Aborted
  <1>2. ASSUME NEW c \in Causes, Abort(c), wakeRequested' => wakeRequested,
               SeqSet(calls') \subseteq SeqSet(calls)
        PROVE  WakeLatch'
    <2>1. /\ kind' = kind /\ c # "none"
          /\ cause' = IF kind # "idle" /\ ~Aborted THEN c ELSE cause
      BY <1>2 DEF Abort, Causes
    <2> QED
      BY <1>2, <2>1 DEF WakeLatch, DisposalNeverLatches, Aborted
  <1>3. ASSUME NEW c \in Causes, CancelClears(c) PROVE WakeLatch'
    BY <1>1, <1>3 DEF CancelClears, ClearNextStep, ClearNextTurn, TypeOK
  <1>4. ASSUME NEW c \in Causes, NEW keep \in BOOLEAN, Cancel(c, keep) PROVE WakeLatch'
    <2>1. wakeRequested' => wakeRequested
      BY <1>4, Zenon DEF Cancel
    <2> QED
      BY <1>2, <1>4, <2>1 DEF Cancel
  <1>5. ASSUME CancelClearsTurn PROVE WakeLatch'
    <2>1. /\ Head(calls).cause \in Causes /\ Tail(calls) \in Seq(Frames)
          /\ SeqSet(Tail(calls)) \subseteq SeqSet(calls)
      BY <1>5, ResumedFrame, FrameFields DEF CancelClearsTurn
    <2> QED
      BY <1>1, <1>5, <2>1 DEF CancelClearsTurn, ClearNextTurn
  <1>6. ASSUME CancelAborts PROVE WakeLatch'
    <2>1. Head(calls).cause \in Causes /\ SeqSet(Tail(calls)) \subseteq SeqSet(calls)
      BY <1>6, ResumedFrame, FrameFields DEF CancelAborts
    <2> QED
      BY <1>2, <1>6, <2>1 DEF CancelAborts
  <1> QED
    BY <1>3, <1>4, <1>5, <1>6 DEF CancelStep

\* With no call in progress there is no frame.
LEMMA NoFrames == SeqSet(<<>>) = {}
  BY DEF SeqSet

\* Every step keeps the latch in order.
LEMMA LatchStep ==
    ASSUME TypeOK, WakeLatch, [Next]_vars
    PROVE  WakeLatch'
  <1>1. ASSUME UNCHANGED <<kind, cause, wakeRequested>>, SeqSet(calls') \subseteq SeqSet(calls)
        PROVE  WakeLatch'
    BY <1>1 DEF WakeLatch, DisposalNeverLatches, Aborted
  <1>2. ASSUME NEW m \in Msgs, Inject(m) PROVE WakeLatch'
    BY <1>1, <1>2 DEF Inject, phaseVars
  <1>3. ASSUME NEW m \in Msgs, NEW tgt \in Targets, SendInsert(m, tgt) PROVE WakeLatch'
    <2>1. /\ UNCHANGED <<kind, cause, wakeRequested>>
          /\ calls' = <<SendFrame(m, WakeAfterAbort)>> \o calls
      BY <1>3 DEF SendInsert, phaseVars
    <2>2. WakeAfterAbort \in BOOLEAN /\ (WakeAfterAbort => (Aborted /\ kind # "idle"))
      BY Zenon DEF WakeAfterAbort
    <2>3. SendFrame(m, WakeAfterAbort) \in Frames
      BY <2>2 DEF Frames
    <2>4. SeqSet(calls') = {SendFrame(m, WakeAfterAbort)} \cup SeqSet(calls)
      BY <2>1, <2>3, PushFrame DEF TypeOK
    <2>5. SendFrame(m, WakeAfterAbort).afterAbort => (Aborted /\ kind # "idle")
      BY <2>2 DEF SendFrame
    <2> QED
      BY <2>1, <2>4, <2>5 DEF WakeLatch, DisposalNeverLatches, Aborted
  <1>4. ASSUME NEW m \in Msgs, Remove(m) PROVE WakeLatch'
    BY <1>1, <1>4 DEF Remove, phaseVars
  <1>5. ASSUME NEW m \in Msgs, ToolContext(m) PROVE WakeLatch'
    BY <1>1, <1>5 DEF ToolContext, HostUnchanged, PhaseUnchanged
  <1>6. ASSUME RunMaintenance PROVE WakeLatch'
    <2>1. /\ kind = "idle" /\ kind' = "maintenance" /\ ~wakeRequested' /\ calls' = calls
      BY <1>6 DEF RunMaintenance
    <2> QED
      BY <2>1 DEF WakeLatch, DisposalNeverLatches
  <1>7. ASSUME MaintenanceEnd PROVE WakeLatch'
    <2>1. ~wakeRequested' /\ calls = <<>> /\ (calls' = calls \/ calls' = <<KickFrame>> \o calls)
      BY <1>7 DEF MaintenanceEnd, StartDriver, Quiet
    <2>t. calls \in Seq(Frames) /\ SeqSet(calls) = {}
      BY <2>1, NoFrames, Zenon DEF TypeOK
    <2>2. SeqSet(calls') \subseteq {KickFrame}
      <3>1. CASE calls' = calls
        BY <3>1, <2>t
      <3>2. CASE calls' = <<KickFrame>> \o calls
        <4>1. SeqSet(<<KickFrame>> \o calls) = {KickFrame} \cup SeqSet(calls)
          BY <2>t, PushFrame, KickFrameType
        <4> QED
          BY <3>2, <4>1, <2>t
      <3> QED
        BY <2>1, <3>1, <3>2
    <2>3. ~KickFrame.afterAbort
      BY DEF KickFrame
    <2> QED
      BY <2>1, <2>2, <2>3 DEF WakeLatch, DisposalNeverLatches
  <1>8. ASSUME ReplayLatch PROVE WakeLatch'
    <2>1. CASE WakeDriver(FALSE, calls)
      BY <1>8, <2>1, WakeLatches DEF TypeOK
    <2>2. CASE UNCHANGED <<phaseVars, pc, calls>>
      BY <1>1, <1>8, <2>2 DEF phaseVars
    <2> QED
      BY <1>8, <2>1, <2>2 DEF ReplayLatch
  <1>9. ASSUME SendWake PROVE WakeLatch'
    <2>1. /\ Head(calls) \in Frames /\ Head(calls) \in SeqSet(calls) /\ Tail(calls) \in Seq(Frames)
          /\ SeqSet(Tail(calls)) \subseteq SeqSet(calls)
      BY <1>9, ResumedFrame DEF SendWake
    <2>2. Head(calls).afterAbort \in BOOLEAN /\ WakeDriver(Head(calls).afterAbort, Tail(calls))
      BY <1>9, <2>1, FrameFields DEF SendWake
    <2>3. Head(calls).afterAbort => (Aborted /\ kind # "idle")
      BY <2>1 DEF WakeLatch
    <2> QED
      BY <2>1, <2>2, <2>3, WakeLatches
  <1>10. ASSUME CancelStep PROVE WakeLatch'
    BY <1>10, CancelLatch
  <1>11. ASSUME TurnStep PROVE WakeLatch'
    <2>1. CASE HostUnchanged
      BY <1>1, <2>1 DEF HostUnchanged, PhaseUnchanged
    <2>2. CASE PhaseUnchanged /\ Returns
      BY <1>1, <2>2, ReturnsType DEF PhaseUnchanged
    <2>3. CASE TurnClosed
      <3>1. CASE HasPending
        BY <2>3, <3>1, NoFrames
           DEF TurnClosed, Driver, Quiet, WakeLatch, DisposalNeverLatches
      <3>2. CASE ~HasPending
        BY <1>1, <2>3, <3>2 DEF TurnClosed
      <3> QED
        BY <3>1, <3>2
    <2>4. CASE KickFinally
      BY <2>4, NoFrames DEF KickFinally, Driver, Quiet, WakeLatch, DisposalNeverLatches
    <2> QED
      BY <1>11, <2>1, <2>2, <2>3, <2>4
         DEF TurnStep, TurnStart, TurnNotStarted, OpenedAborted, ClaimStep, Assembled, PreStepDecided,
             AwaitThrows, TurnWithoutStep, TurnBreak, StepStart, DecidedAborted, StepEnd, CaughtThrow,
             SteppedAborted, StepSettled, NextStepClaim, TurnStopped, FailClose, CatchThrow
  <1>12. ASSUME RequestStep PROVE WakeLatch'
    <2>1. HostUnchanged
      BY <1>12 DEF RequestStep, RequestPrepared, Admit, StreamThrows, StepThrows, RequestFailed, Retry,
                   StepAwaitThrows, Responded, ToolsReturned
    <2> QED
      BY <1>1, <2>1 DEF HostUnchanged, PhaseUnchanged
  <1>13. CASE UNCHANGED vars
    BY <1>1, <1>13 DEF vars, phaseVars
  <1> QED
    BY <1>2, <1>3, <1>4, <1>5, <1>6, <1>7, <1>8, <1>9, <1>10, <1>11, <1>12, <1>13
       DEF Next, Progress, Environment, CancelStep
-----------------------------------------------------------------------------
(* The theorems *)

\* The inductive invariant holds at the start and of every reachable state.
LEMMA Invariance == Spec => []IInv
  <1>1. Init => IInv
    <2> SUFFICES ASSUME Init PROVE IInv
      OBVIOUS
    <2>1. TypeOK
      BY TypeInit
    <2>2. /\ trace.openTurn = 0 /\ trace.openStep = 0
          /\ trace.nextTurn = LastTurn + 1 /\ trace.nextStep = 1
      BY DEF Init, Log!FreshTrace, Log!None
    <2>3. Brackets /\ Control
      BY <2>2 DEF Init, Brackets, Control, Between, Inside
    <2>4. WakeLatch
      BY NoFrames DEF Init, WakeLatch, DisposalNeverLatches
    <2> QED
      BY <2>1, <2>3, <2>4 DEF IInv
  <1>2. IInv /\ [Next]_vars => IInv'
    BY TypeStep, ControlStep, LatchStep DEF IInv
  <1> QED
    BY <1>1, <1>2, PTL DEF Spec

\* Whatever throws, aborts or is vetoed in whichever order, the driver closes
\* each turn and each step it opened before it lets go of the session.
THEOREM BracketsHold == Spec => []Brackets
  BY Invariance, PTL DEF IInv

\* A running activity that disposal aborted never holds a latched wake: no
\* later segment can start a driver for it.
THEOREM DisposalLatchesNothing == Spec => []DisposalNeverLatches
  BY Invariance, PTL DEF IInv, WakeLatch
-----------------------------------------------------------------------------
(* The log contract *)

StepEventTypes == {"step/end", "system/message", "assistant/attempt", "assistant/message"}

\* An append whose place in the brackets is right is a commit of the abstract
\* log.
LEMMA AppendCommits ==
    ASSUME trace \in Log!Traces, NEW t \in Nat, NEW s \in Nat,
           NEW ty \in {"turn/start", "turn/end", "step/start"} \cup StepEventTypes,
           AppendEvent(ty, t, s),
           ty = "turn/start" => (trace.openTurn = 0 /\ t = trace.nextTurn),
           ty = "turn/end" => (trace.openTurn = t /\ t # 0 /\ trace.openStep = 0),
           ty = "step/start" => (trace.openTurn = t /\ t # 0 /\ trace.openStep = 0 /\ s = trace.nextStep),
           ty \in StepEventTypes => (s # 0 /\ trace.openTurn = t /\ trace.openStep = s)
    PROVE  Log!Commit
  <1>1. ty \in DriverTypes
    BY DEF DriverTypes, StepEventTypes, Log!EventTypes, Log!StepTypes
  <1>2. /\ event' \in Events /\ event'.type = ty /\ event'.turn = t /\ event'.step = s
        /\ trace' = Log!Fold(trace, event')
    BY <1>1, Appends
  <1>3. Log!Valid(trace, event')
    BY <1>2 DEF StepEventTypes, Log!Valid, Log!InOpenStep, Log!None, Log!StepTypes, Log!TurnTypes
  <1> QED
    BY <1>1, <1>2, <1>3 DEF Log!Commit, DriverTypes

\* A catch clause commits the turn's end or nothing.
LEMMA CatchCommits ==
    ASSUME IInv, CatchThrow, pc \notin Between \cup Inside \cup {"closed"}
    PROVE  Log!Commit \/ UNCHANGED logVars
  <1>1. CASE AppendTurnEnd("aborted")
    BY <1>1, AppendCommits
       DEF AppendTurnEnd, IInv, TypeOK, Brackets, Control, Between, Inside, StepEventTypes
  <1> QED
    BY <1>1 DEF CatchThrow

\* Every step of the loop commits one event the contract allows, or none.
LEMMA CommitStep ==
    ASSUME IInv, [Next]_vars
    PROVE  Log!Commit \/ UNCHANGED logVars
  <1> USE DEF IInv, Brackets, Control, Between, Inside, StepEventTypes, Driver
  <1>0. /\ turn \in Nat /\ step \in Nat /\ turn + 1 \in Nat /\ step + 1 \in Nat /\ 0 \in Nat
        /\ trace \in Log!Traces
    BY DEF TypeOK
  <1>1. ASSUME TurnStart PROVE Log!Commit
    <2>1. AppendEvent("turn/start", turn + 1, 0)
      BY <1>1 DEF TurnStart
    <2> QED
      BY <1>0, <1>1, <2>1, AppendCommits DEF TurnStart
  <1>2. ASSUME TurnWithoutStep PROVE Log!Commit
    <2>1. AppendEvent("turn/end", turn, 0)
      BY <1>2 DEF TurnWithoutStep, AppendTurnEnd
    <2> QED
      BY <1>0, <1>2, <2>1, AppendCommits DEF TurnWithoutStep, AppendTurnEnd
  <1>3. ASSUME TurnBreak PROVE Log!Commit
    <2>1. AppendEvent("turn/end", turn, 0)
      BY <1>3 DEF TurnBreak, AppendTurnEnd
    <2> QED
      BY <1>0, <1>3, <2>1, AppendCommits DEF TurnBreak, AppendTurnEnd
  <1>4. ASSUME StepStart PROVE Log!Commit
    <2>1. AppendEvent("step/start", turn, step + 1)
      BY <1>4 DEF StepStart
    <2> QED
      BY <1>0, <1>4, <2>1, AppendCommits DEF StepStart
  <1>5. ASSUME StepEnd PROVE Log!Commit
    <2>1. AppendEvent("step/end", turn, step)
      BY <1>5 DEF StepEnd
    <2> QED
      BY <1>0, <1>5, <2>1, AppendCommits DEF StepEnd
  <1>6. ASSUME FailClose PROVE Log!Commit
    <2>1. AppendEvent("turn/end", turn, 0)
      BY <1>6 DEF FailClose, AppendTurnEnd
    <2> QED
      BY <1>0, <1>6, <2>1, AppendCommits DEF FailClose, AppendTurnEnd
  <1>7. ASSUME Admit PROVE Log!Commit
    <2>1. AppendEvent("system/message", turn, step)
      BY <1>7 DEF Admit
    <2> QED
      BY <1>0, <1>7, <2>1, AppendCommits DEF Admit
  <1>8. ASSUME RequestFailed PROVE Log!Commit
    <2>1. AppendEvent("assistant/attempt", turn, step)
      BY <1>8 DEF RequestFailed
    <2> QED
      BY <1>0, <1>8, <2>1, AppendCommits DEF RequestFailed
  <1>9. ASSUME NEW end \in {"completed", "max-tokens", "tools"}, Responded(end) PROVE Log!Commit
    <2>1. AppendEvent("assistant/message", turn, step)
      BY <1>9 DEF Responded
    <2> QED
      BY <1>0, <1>9, <2>1, AppendCommits DEF Responded
  <1>10. ASSUME StreamThrows PROVE Log!Commit
    <2>1. CASE AppendEvent("assistant/attempt", turn, step)
      BY <1>0, <1>10, <2>1, AppendCommits DEF StreamThrows, StepThrows
    <2>2. CASE AppendEvent("assistant/message", turn, step)
      BY <1>0, <1>10, <2>2, AppendCommits DEF StreamThrows, StepThrows
    <2> QED
      BY <1>10, <2>1, <2>2 DEF StreamThrows
  <1>11. ASSUME TurnStopped PROVE Log!Commit \/ UNCHANGED logVars
    <2>1. CASE AppendTurnEnd(turnEnds)
      BY <1>0, <1>11, <2>1, AppendCommits DEF TurnStopped, AppendTurnEnd
    <2>2. CASE NextStepClaim
      BY <2>2 DEF NextStepClaim
    <2> QED
      BY <1>11, <2>1, <2>2 DEF TurnStopped
  <1>12. ASSUME OpenedAborted PROVE Log!Commit \/ UNCHANGED logVars
    BY <1>12, CatchCommits DEF OpenedAborted
  <1>13. ASSUME AwaitThrows PROVE Log!Commit \/ UNCHANGED logVars
    BY <1>13, CatchCommits DEF AwaitThrows
  <1>14. ASSUME DecidedAborted PROVE Log!Commit \/ UNCHANGED logVars
    BY <1>14, CatchCommits DEF DecidedAborted
  <1>15. ASSUME CaughtThrow PROVE Log!Commit \/ UNCHANGED logVars
    BY <1>15, CatchCommits DEF CaughtThrow
  <1>16. ASSUME SteppedAborted PROVE Log!Commit \/ UNCHANGED logVars
    BY <1>16, CatchCommits DEF SteppedAborted
  <1>17. ASSUME \/ TurnNotStarted \/ ClaimStep \/ Assembled \/ StepSettled \/ TurnClosed \/ KickFinally
                \/ RequestPrepared \/ Retry \/ StepAwaitThrows \/ ToolsReturned
                \/ \E d \in {"reject", "enter", "empty"} : PreStepDecided(d)
        PROVE  UNCHANGED logVars
    BY <1>17 DEF TurnNotStarted, ClaimStep, Assembled, StepSettled, NextStepClaim, TurnClosed, KickFinally,
                RequestPrepared, Retry, StepAwaitThrows, ToolsReturned, PreStepDecided
  <1>18. ASSUME MaintenanceEnd \/ ReplayLatch \/ SendWake \/ Environment \/ CancelStep
        PROVE  UNCHANGED logVars
    BY <1>18, CancelLeaves
       DEF MaintenanceEnd, ReplayLatch, SendWake, Environment, Inject, SendInsert, Remove, ToolContext,
           RunMaintenance, CancelStep
  <1>19. CASE UNCHANGED vars
    BY <1>19 DEF vars
  <1>a. TurnStep => (Log!Commit \/ UNCHANGED logVars)
    BY <1>1, <1>2, <1>3, <1>4, <1>5, <1>6, <1>11, <1>12, <1>13, <1>14, <1>15, <1>16, <1>17
       DEF TurnStep
  <1>b. RequestStep => (Log!Commit \/ UNCHANGED logVars)
    BY <1>7, <1>8, <1>9, <1>10, <1>17 DEF RequestStep
  <1> QED
    BY <1>a, <1>b, <1>18, <1>19 DEF Next, Progress, CancelStep

\* The driver implements the abstract session log: under every interleaving of
\* callers, cancellations and failures it appends only events that the
\* invariant companion accepts, so the log never vetoes its own driver.
THEOREM ImplementsLog == Spec => LogContract
  <1>1. Init => Log!Init
    BY DEF Init, Log!Init, Log!Event
  <1>2. IInv /\ [Next]_vars => [Log!Commit]_(Log!vars)
    BY CommitStep DEF Log!vars, logVars
  <1> QED
    BY <1>1, <1>2, Invariance, PTL DEF Spec, LogContract, Log!Spec
-----------------------------------------------------------------------------
(* Prompts and reasons *)

\* A turn counts its prompts from zero and claims one only at its first step.
Prompted == SoleOrdinary /\ (pc = "opened" => ordinary = 0)

\* Only a claim takes a prompt, and a later step's claim takes none.
LEMMA PromptedStep ==
    ASSUME TypeOK, Control, Prompted, [Next]_vars
    PROVE  Prompted'
  <1> USE DEF Prompted, SoleOrdinary
  <1>0. ordinary \in Nat
    BY DEF TypeOK
  <1>1. ASSUME UNCHANGED ordinary, pc' = "opened" => pc = "opened" PROVE Prompted'
    BY <1>1
  <1>2. ASSUME NextStepClaim PROVE Prompted'
    <2>1. ordinary' = ordinary + Len(<<>>) /\ pc' = "assembling"
      BY <1>2 DEF NextStepClaim, Claim
    <2> QED
      BY <1>0, <2>1
  <1>3. ASSUME ClaimStep PROVE Prompted'
    <2>1. pc = "opened" /\ pc' = "assembling"
      BY <1>3 DEF ClaimStep, Driver
    <2>2. \/ ordinary' = ordinary + Len(<<Head(nextTurn)>>)
          \/ ordinary' = ordinary + Len(<<>>)
      BY <1>3 DEF ClaimStep, Claim
    <2> QED
      BY <2>1, <2>2
  <1>4. ASSUME TurnStart PROVE Prompted'
    BY <1>4 DEF TurnStart
  <1>5. ASSUME NEW afterAbort, NEW outer, WakeDriver(afterAbort, outer), UNCHANGED ordinary
        PROVE  Prompted'
    BY <1>1, <1>5 DEF WakeDriver, StartDriver
  <1>6. ASSUME TurnStep PROVE Prompted'
    <2>1. ASSUME UNCHANGED ordinary, pc' # "opened" PROVE Prompted'
      BY <1>1, <2>1
    <2>2. ASSUME CatchThrow PROVE Prompted'
      BY <2>1, <2>2 DEF CatchThrow
    <2>3. ASSUME StepSettled \/ TurnStopped PROVE Prompted'
      BY <1>2, <2>1, <2>3 DEF StepSettled, TurnStopped, QueueUnchanged
    <2>4. ASSUME \/ TurnNotStarted \/ Assembled \/ TurnWithoutStep \/ TurnBreak \/ StepStart
                 \/ StepEnd \/ FailClose \/ TurnClosed \/ KickFinally
                 \/ \E d \in {"reject", "enter", "empty"} : PreStepDecided(d)
          PROVE  Prompted'
      BY <2>1, <2>4 DEF TurnNotStarted, Assembled, TurnWithoutStep, TurnBreak, StepStart, StepEnd,
                        FailClose, TurnClosed, KickFinally, PreStepDecided, QueueUnchanged
    <2> QED
      BY <1>3, <1>4, <1>6, <2>2, <2>3, <2>4
         DEF TurnStep, OpenedAborted, AwaitThrows, DecidedAborted, CaughtThrow, SteppedAborted
  <1>7. ASSUME RequestStep PROVE Prompted'
    BY <1>1, <1>7 DEF RequestStep, RequestPrepared, Admit, BuildRequest, StreamThrows, StepThrows,
                      RequestFailed, Retry, StepAwaitThrows, Responded, ToolsReturned, QueueUnchanged
  <1>8. ASSUME CancelStep PROVE Prompted'
    BY <1>1, <1>8, CancelLeaves
  <1>9. ASSUME Environment PROVE Prompted'
    BY <1>1, <1>9, <1>8 DEF Environment, CancelStep, Inject, SendInsert, Remove, ToolContext,
                             RunMaintenance
  <1>10. ASSUME MaintenanceEnd \/ ReplayLatch \/ SendWake PROVE Prompted'
    BY <1>1, <1>5, <1>10 DEF MaintenanceEnd, StartDriver, ReplayLatch, SendWake
  <1>11. CASE UNCHANGED vars
    BY <1>1, <1>11 DEF vars
  <1> QED
    BY <1>6, <1>7, <1>9, <1>10, <1>11, <1>8 DEF Next, Progress, CancelStep

\* However followups, steering and cancellations interleave, no turn serves a
\* second prompt: each queued prompt gets a turn of its own.
THEOREM OnePromptPerTurn == Spec => []SoleOrdinary
  <1>1. Init => Prompted
    BY DEF Init, Prompted, SoleOrdinary
  <1>2. IInv /\ Prompted /\ [Next]_vars => Prompted'
    BY PromptedStep DEF IInv
  <1>3. Prompted => SoleOrdinary
    BY DEF Prompted
  <1> QED
    BY <1>1, <1>2, <1>3, Invariance, PTL DEF Spec

\* Once a step ran into the token ceiling its turn reports that, or a graver
\* reason, and never a clean end, whatever the later steps return.
THEOREM TokenCeilingSticks == Spec => MaxTokensSticky
  <1> DEFINE Keeps == turnEnds = "max-tokens" => turnEnds' \notin {"null", "completed"} \/ pc = "kicked"
  <1>1. ASSUME UNCHANGED turnEnds PROVE Keeps
    BY <1>1
  <1>2. ASSUME CatchThrow PROVE Keeps
    BY <1>2 DEF CatchThrow, AppendTurnEnd
  <1>3. ASSUME TurnStep PROVE Keeps
    <2>1. ASSUME TurnStart PROVE Keeps
      BY <2>1 DEF TurnStart, Driver
    <2>2. ASSUME TurnWithoutStep PROVE Keeps
      BY <2>2 DEF TurnWithoutStep, AppendTurnEnd
    <2>3. ASSUME StepEnd PROVE Keeps
      BY <2>3 DEF StepEnd, Sticky
    <2>4. ASSUME TurnBreak \/ FailClose \/ TurnStopped PROVE Keeps
      BY <2>4 DEF TurnBreak, FailClose, TurnStopped, AppendTurnEnd, NextStepClaim
    <2>5. ASSUME \/ TurnNotStarted \/ ClaimStep \/ Assembled \/ StepStart \/ StepSettled
                 \/ TurnClosed \/ KickFinally
                 \/ \E d \in {"reject", "enter", "empty"} : PreStepDecided(d)
          PROVE  Keeps
      BY <2>5 DEF TurnNotStarted, ClaimStep, Assembled, StepStart, StepSettled, NextStepClaim,
                  TurnClosed, KickFinally, PreStepDecided, localVars
    <2> QED
      BY <1>2, <1>3, <2>1, <2>2, <2>3, <2>4, <2>5
         DEF TurnStep, OpenedAborted, AwaitThrows, DecidedAborted, CaughtThrow, SteppedAborted
  <1>4. ASSUME RequestStep PROVE Keeps
    BY <1>4 DEF RequestStep, RequestPrepared, Admit, StreamThrows, StepThrows, RequestFailed, Retry,
                StepAwaitThrows, Responded, ToolsReturned, localVars
  <1>5. ASSUME CancelStep PROVE Keeps
    BY <1>1, <1>5, CancelLeaves DEF localVars
  <1>6. ASSUME Environment \/ MaintenanceEnd \/ ReplayLatch \/ SendWake PROVE Keeps
    BY <1>5, <1>6 DEF Environment, CancelStep, Inject, SendInsert, Remove, ToolContext, RunMaintenance,
                      MaintenanceEnd, ReplayLatch, SendWake, localVars
  <1>7. ASSUME UNCHANGED vars PROVE Keeps
    BY <1>7 DEF vars, localVars
  <1>8. [Next]_vars => [Keeps]_vars
    BY <1>3, <1>4, <1>5, <1>6, <1>7 DEF Next, Progress, CancelStep
  <1> QED
    BY <1>8, PTL DEF Spec, MaxTokensSticky
-----------------------------------------------------------------------------
(* Lists that hold nothing twice *)

\* A list that holds nothing twice.
NoDup(s) == \A i, j \in DOMAIN s : s[i] = s[j] => i = j

\* A list and its last element.
LEMMA AppendHome ==
    ASSUME NEW s \in MsgSeq, NEW m \in Msgs
    PROVE  /\ SeqSet(Append(s, m)) = SeqSet(s) \cup {m}
           /\ NoDup(s) /\ m \notin SeqSet(s) => NoDup(Append(s, m))
  <1> DEFINE t == Append(s, m)
  <1>1. /\ s \in Seq(Msgs) /\ Len(s) \in Nat /\ DOMAIN s = 1 .. Len(s)
        /\ t \in Seq(Msgs) /\ DOMAIN t = 1 .. Len(s) + 1
        /\ \A i \in 1 .. Len(s) : t[i] = s[i]
        /\ t[Len(s) + 1] = m
    BY AppendProperties DEF MsgSeq
  <1> HIDE DEF t
  <1>2. SeqSet(t) = SeqSet(s) \cup {m}
    BY <1>1 DEF SeqSet
  <1>3. ASSUME NoDup(s), m \notin SeqSet(s) PROVE NoDup(t)
    BY <1>1, <1>3 DEF NoDup, SeqSet
  <1> QED
    BY <1>2, <1>3 DEF t

\* A list and its first element.
LEMMA HeadHome ==
    ASSUME NEW s \in MsgSeq, s # <<>>
    PROVE  /\ Head(s) \in Msgs /\ Tail(s) \in MsgSeq
           /\ SeqSet(s) = SeqSet(Tail(s)) \cup {Head(s)}
           /\ NoDup(s) => (NoDup(Tail(s)) /\ Head(s) \notin SeqSet(Tail(s)))
  <1> DEFINE t == Tail(s)
             h == Head(s)
  <1>1. /\ s \in Seq(Msgs) /\ Len(s) \in Nat \ {0} /\ DOMAIN s = 1 .. Len(s)
        /\ h = s[1] /\ h \in Msgs
        /\ t \in Seq(Msgs) /\ DOMAIN t = 1 .. Len(s) - 1
        /\ \A i \in 1 .. Len(s) - 1 : t[i] = s[i + 1]
    BY HeadTailProperties DEF MsgSeq
  <1> HIDE DEF t, h
  <1>2. SeqSet(s) = SeqSet(t) \cup {h}
    <2>1. ASSUME NEW i \in DOMAIN s PROVE s[i] \in SeqSet(t) \cup {h}
      <3>1. CASE i = 1
        BY <1>1, <3>1
      <3>2. CASE i # 1
        <4>1. i - 1 \in DOMAIN t /\ t[i - 1] = s[i]
          BY <1>1, <2>1, <3>2
        <4> QED
          BY <4>1 DEF SeqSet
      <3> QED
        BY <3>1, <3>2
    <2>2. \A i \in DOMAIN t : i + 1 \in DOMAIN s /\ t[i] = s[i + 1]
      BY <1>1
    <2>3. 1 \in DOMAIN s
      BY <1>1
    <2> QED
      BY <1>1, <2>1, <2>2, <2>3 DEF SeqSet
  <1>3. ASSUME NoDup(s) PROVE NoDup(t) /\ h \notin SeqSet(t)
    <2>1. \A i \in DOMAIN t : i + 1 \in DOMAIN s /\ i + 1 # 1 /\ t[i] = s[i + 1]
      BY <1>1
    <2>2. 1 \in DOMAIN s /\ h = s[1]
      BY <1>1
    <2>3. ASSUME NEW i \in DOMAIN t, NEW j \in DOMAIN t, t[i] = t[j] PROVE i = j
      <3>1. i + 1 = j + 1
        BY <1>3, <2>1, <2>3 DEF NoDup
      <3> QED
        BY <1>1, <3>1
    <2>4. ASSUME NEW i \in DOMAIN t PROVE t[i] # h
      BY <1>3, <2>1, <2>2 DEF NoDup
    <2> QED
      BY <2>3, <2>4 DEF NoDup, SeqSet
  <1> QED
    BY <1>1, <1>2, <1>3 DEF t, h, MsgSeq

\* Two lists after one another.
LEMMA ConcatHome ==
    ASSUME NEW s \in MsgSeq, NEW t \in MsgSeq
    PROVE  /\ s \o t \in MsgSeq
           /\ SeqSet(s \o t) = SeqSet(s) \cup SeqSet(t)
           /\ (NoDup(s) /\ NoDup(t) /\ SeqSet(s) \cap SeqSet(t) = {}) => NoDup(s \o t)
  <1> DEFINE u == s \o t
             k == Len(s)
             n == Len(t)
  <1>1. /\ u \in Seq(Msgs) /\ k \in Nat /\ n \in Nat
        /\ DOMAIN s = 1 .. k /\ DOMAIN t = 1 .. n /\ DOMAIN u = 1 .. k + n
        /\ \A i \in 1 .. k + n : u[i] = IF i <= k THEN s[i] ELSE t[i - k]
    BY ConcatProperties DEF MsgSeq
  <1> HIDE DEF u, k, n
  <1>2. \A i \in DOMAIN s : i \in DOMAIN u /\ u[i] = s[i]
    BY <1>1
  <1>3. \A i \in DOMAIN t : i + k \in DOMAIN u /\ u[i + k] = t[i]
    BY <1>1
  <1>4. ASSUME NEW i \in DOMAIN u, i > k PROVE i - k \in DOMAIN t /\ u[i] = t[i - k]
    BY <1>1, <1>4
  <1>5. ASSUME NEW i \in DOMAIN u, ~(i > k) PROVE i \in DOMAIN s
    BY <1>1, <1>5
  <1>6. SeqSet(u) = SeqSet(s) \cup SeqSet(t)
    <2>1. ASSUME NEW i \in DOMAIN u PROVE u[i] \in SeqSet(s) \cup SeqSet(t)
      <3>1. CASE i > k
        BY <1>4, <3>1 DEF SeqSet
      <3>2. CASE ~(i > k)
        BY <1>2, <1>5, <3>2 DEF SeqSet
      <3> QED
        BY <3>1, <3>2
    <2> QED
      BY <1>2, <1>3, <2>1 DEF SeqSet
  <1>7. ASSUME NoDup(s), NoDup(t), SeqSet(s) \cap SeqSet(t) = {} PROVE NoDup(u)
    <2> SUFFICES ASSUME NEW i \in DOMAIN u, NEW j \in DOMAIN u, u[i] = u[j] PROVE i = j
      BY DEF NoDup
    <2>1. CASE i > k /\ j > k
      <3>1. i - k \in DOMAIN t /\ j - k \in DOMAIN t /\ t[i - k] = t[j - k]
        BY <1>4, <2>1
      <3>2. i - k = j - k
        BY <1>7, <3>1 DEF NoDup
      <3> QED
        BY <1>1, <3>2
    <2>2. CASE ~(i > k) /\ ~(j > k)
      <3>1. i \in DOMAIN s /\ j \in DOMAIN s
        BY <1>5, <2>2
      <3> QED
        BY <1>2, <1>7, <3>1 DEF NoDup
    <2>3. CASE i > k /\ ~(j > k)
      <3>1. i - k \in DOMAIN t /\ j \in DOMAIN s /\ t[i - k] = s[j]
        BY <1>2, <1>4, <1>5, <2>3
      <3> QED
        BY <1>7, <3>1 DEF SeqSet
    <2>4. CASE ~(i > k) /\ j > k
      <3>1. j - k \in DOMAIN t /\ i \in DOMAIN s /\ t[j - k] = s[i]
        BY <1>2, <1>4, <1>5, <2>4
      <3> QED
        BY <1>7, <3>1 DEF SeqSet
    <2> QED
      BY <2>1, <2>2, <2>3, <2>4
  <1> QED
    BY <1>1, <1>6, <1>7 DEF u, MsgSeq

\* A list without one of its elements.
LEMMA WithoutHome ==
    ASSUME NEW s \in MsgSeq, NoDup(s), NEW i \in DOMAIN s
    PROVE  NoDup(Without(s, i)) /\ SeqSet(Without(s, i)) = SeqSet(s) \ {s[i]}
  <1> DEFINE l == SubSeq(s, 1, i - 1)
             r == SubSeq(s, i + 1, Len(s))
  <1>1. s \in Seq(Msgs) /\ Len(s) \in Nat /\ DOMAIN s = 1 .. Len(s) /\ i \in 1 .. Len(s)
    BY DEF MsgSeq
  <1>2. l \in Seq(Msgs) /\ DOMAIN l = 1 .. i - 1 /\ \A j \in 1 .. i - 1 : l[j] = s[j]
    <2>1. /\ 1 \in Int /\ i - 1 \in Int /\ \A j \in 1 .. i - 1 : s[j] \in Msgs
      BY <1>1
    <2>2. /\ l \in Seq(Msgs) /\ Len(l) = IF 1 <= i - 1 THEN i - 1 - 1 + 1 ELSE 0
          /\ \A j \in 1 .. i - 1 - 1 + 1 : l[j] = s[1 + j - 1]
      BY <2>1, SubSeqProperties
    <2> HIDE DEF l
    <2>3. Len(l) = i - 1 /\ DOMAIN l = 1 .. Len(l) /\ \A j \in 1 .. i - 1 : l[j] = s[j]
      BY <1>1, <2>2
    <2> QED
      BY <2>2, <2>3
  <1>3. /\ r \in Seq(Msgs) /\ DOMAIN r = 1 .. Len(s) - i
        /\ \A j \in 1 .. Len(s) - i : r[j] = s[j + i]
    <2>1. i + 1 \in Int /\ Len(s) \in Int /\ \A j \in i + 1 .. Len(s) : s[j] \in Msgs
      BY <1>1
    <2>2. /\ r \in Seq(Msgs) /\ Len(r) = IF i + 1 <= Len(s) THEN Len(s) - (i + 1) + 1 ELSE 0
          /\ \A j \in 1 .. Len(s) - (i + 1) + 1 : r[j] = s[i + 1 + j - 1]
      BY <2>1, SubSeqProperties
    <2> HIDE DEF r
    <2>3. Len(r) = Len(s) - i /\ DOMAIN r = 1 .. Len(r)
      BY <1>1, <2>2
    <2>4. ASSUME NEW j \in 1 .. Len(s) - i PROVE r[j] = s[j + i]
      <3>1. j \in 1 .. Len(s) - (i + 1) + 1 /\ i + 1 + j - 1 = j + i
        BY <1>1, <2>4
      <3> QED
        BY <2>2, <3>1
    <2> QED
      BY <2>2, <2>3, <2>4
  <1>4. Without(s, i) = l \o r
    BY DEF Without
  <1> HIDE DEF l, r
  <1>5. NoDup(l) /\ NoDup(r) /\ SeqSet(l) \cap SeqSet(r) = {}
    <2>1. \A j \in DOMAIN l : j \in DOMAIN s /\ j < i /\ l[j] = s[j]
      BY <1>1, <1>2
    <2>2. \A j \in DOMAIN r : j + i \in DOMAIN s /\ j + i > i /\ r[j] = s[j + i]
      BY <1>1, <1>3
    <2>3. NoDup(l)
      BY <2>1 DEF NoDup
    <2>4. NoDup(r)
      <3> SUFFICES ASSUME NEW j \in DOMAIN r, NEW k \in DOMAIN r, r[j] = r[k] PROVE j = k
        BY DEF NoDup
      <3>1. j + i = k + i
        BY <2>2 DEF NoDup
      <3> QED
        BY <1>1, <1>3, <3>1
    <2>5. ASSUME NEW j \in DOMAIN l, NEW k \in DOMAIN r PROVE l[j] # r[k]
      <3>1. j # k + i
        BY <1>1, <2>1, <2>2
      <3> QED
        BY <2>1, <2>2, <3>1 DEF NoDup
    <2> QED
      BY <2>3, <2>4, <2>5 DEF SeqSet
  <1>6. SeqSet(l) \cup SeqSet(r) = SeqSet(s) \ {s[i]}
    <2>1. ASSUME NEW j \in DOMAIN l PROVE l[j] \in SeqSet(s) \ {s[i]}
      <3>1. j \in DOMAIN s /\ j # i /\ l[j] = s[j]
        BY <1>1, <1>2
      <3> QED
        BY <3>1 DEF NoDup, SeqSet
    <2>2. ASSUME NEW j \in DOMAIN r PROVE r[j] \in SeqSet(s) \ {s[i]}
      <3>1. j + i \in DOMAIN s /\ j + i # i /\ r[j] = s[j + i]
        BY <1>1, <1>3
      <3> QED
        BY <3>1 DEF NoDup, SeqSet
    <2>3. ASSUME NEW j \in DOMAIN s, j # i PROVE s[j] \in SeqSet(l) \cup SeqSet(r)
      <3>1. CASE j < i
        <4>1. j \in DOMAIN l /\ l[j] = s[j]
          BY <1>1, <1>2, <3>1
        <4> QED
          BY <4>1 DEF SeqSet
      <3>2. CASE j > i
        <4>1. j - i \in DOMAIN r /\ r[j - i] = s[j]
          BY <1>1, <1>3, <3>2
        <4> QED
          BY <4>1 DEF SeqSet
      <3> QED
        BY <1>1, <2>3, <3>1, <3>2
    <2> QED
      BY <2>1, <2>2, <2>3 DEF SeqSet
  <1> QED
    BY <1>2, <1>3, <1>4, <1>5, <1>6, ConcatHome DEF MsgSeq

\* A list holds as many messages as it has places when none is repeated.
LEMMA NoDupCounts ==
    ASSUME NEW s \in MsgSeq, NoDup(s)
    PROVE  Cardinality(SeqSet(s)) = Len(s)
  <1> DEFINE n == Len(s)
  <1>1. n \in Nat /\ DOMAIN s = 1 .. n /\ s \in [1 .. n -> Msgs]
    BY DEF MsgSeq
  <1> HIDE DEF n
  <1>2. s \in Bijection(1 .. n, SeqSet(s))
    BY <1>1 DEF NoDup, SeqSet, Bijection, Injection, Surjection, IsInjective
  <1>3. ExistsBijection(1 .. n, SeqSet(s))
    BY <1>2 DEF ExistsBijection
  <1> QED
    BY <1>1, <1>3, FS_CountingElements DEF n
-----------------------------------------------------------------------------
(* Where a message lives *)

\* Program counters at which the driver may hold claimed messages: from a
\* step's claim until its first request is admitted, and on the way out of a
\* step that threw before that.
Holding ==
    \/ pc \in {"assembling", "preStepping", "stepThrew", "caught"}
    \/ pc = "decided" /\ decision = "enter"
    \/ pc \in {"requesting", "prepared"} /\ attempt = 0

\* Anywhere else its batch is empty.
HeldBatch == ~Holding => batch = <<>>

\* The three lists hold no message twice and share none, and a message's fate
\* says which of them it is in.
Homes ==
    /\ NoDup(nextTurn) /\ NoDup(nextStep) /\ NoDup(batch)
    /\ SeqSet(nextTurn) \cap SeqSet(nextStep) = {}
    /\ \A m \in Msgs : /\ fate[m] = "pending" <=> m \in Pending
                       /\ fate[m] = "claimed" <=> m \in SeqSet(batch)

\* An empty list.
LEMMA EmptyHome == SeqSet(<<>>) = {} /\ NoDup(<<>>)
  BY DEF SeqSet, NoDup

\* No segment leaves a claimed batch behind at a place where nobody looks for it.
LEMMA HeldStep ==
    ASSUME Control, HeldBatch, [Next]_vars
    PROVE  HeldBatch'
  <1> USE DEF HeldBatch
  <1>0. kind # "running" => pc = "off"
    BY DEF Control
  <1>1. ASSUME UNCHANGED <<pc, decision, attempt, batch>> PROVE HeldBatch'
    BY <1>1 DEF Holding
  <1>2. ASSUME batch' = <<>> PROVE HeldBatch'
    BY <1>2
  <1>3. ASSUME Holding' PROVE HeldBatch'
    BY <1>3
  <1>4. ASSUME ~Holding, UNCHANGED batch PROVE HeldBatch'
    BY <1>4
  <1>5. ASSUME NEW afterAbort, NEW outer, WakeDriver(afterAbort, outer),
               UNCHANGED <<decision, attempt, batch>>
        PROVE  HeldBatch'
    <2>1. CASE kind = "idle"
      BY <1>0, <1>4, <1>5, <2>1 DEF Holding
    <2>2. CASE kind # "idle"
      BY <1>1, <1>5, <2>2 DEF WakeDriver
    <2> QED
      BY <2>1, <2>2
  <1>6. ASSUME CatchThrow PROVE HeldBatch'
    BY <1>2, <1>6 DEF CatchThrow, DropBatch
  <1>7. ASSUME NextStepClaim PROVE HeldBatch'
    BY <1>3, <1>7 DEF NextStepClaim, Holding
  <1>8. ASSUME TurnStep PROVE HeldBatch'
    <2>1. ASSUME \/ TurnStart \/ TurnNotStarted \/ TurnWithoutStep \/ TurnBreak \/ FailClose
                 \/ TurnClosed \/ KickFinally
          PROVE  HeldBatch'
      <3>1. UNCHANGED batch
        BY <2>1 DEF TurnStart, TurnNotStarted, TurnWithoutStep, TurnBreak, FailClose, TurnClosed,
                    KickFinally, localVars
      <3>2. ~Holding
        BY <2>1 DEF TurnStart, TurnNotStarted, TurnWithoutStep, TurnBreak, FailClose, TurnClosed,
                    KickFinally, Driver, Holding
      <3> QED
        BY <1>4, <3>1, <3>2
    <2>2. ASSUME ClaimStep \/ Assembled PROVE HeldBatch'
      BY <1>3, <2>2 DEF ClaimStep, Assembled, Holding
    <2>3. ASSUME NEW d \in {"reject", "enter", "empty"}, PreStepDecided(d) PROVE HeldBatch'
      <3>1. CASE d = "enter"
        BY <1>3, <2>3, <3>1 DEF PreStepDecided, Holding
      <3>2. CASE d # "enter"
        BY <1>2, <2>3, <3>2 DEF PreStepDecided, DropBatch
      <3> QED
        BY <3>1, <3>2
    <2>4. ASSUME StepStart PROVE HeldBatch'
      BY <1>3, <2>4 DEF StepStart, Holding
    <2>5. ASSUME StepEnd PROVE HeldBatch'
      <3>1. CASE Driver("stepDone")
        <4>1. ~Holding /\ UNCHANGED batch
          BY <2>5, <3>1 DEF StepEnd, Driver, Holding
        <4> QED
          BY <1>4, <4>1
      <3>2. CASE ~Driver("stepDone")
        <4>1. pc' = "caught"
          BY <2>5, <3>2 DEF StepEnd
        <4> QED
          BY <1>3, <4>1 DEF Holding
      <3> QED
        BY <3>1, <3>2
    <2>6. ASSUME StepSettled PROVE HeldBatch'
      <3>1. CASE NextStepClaim
        BY <1>7, <3>1
      <3>2. CASE ~NextStepClaim
        <4>1. ~Holding /\ UNCHANGED batch
          BY <2>6, <3>2 DEF StepSettled, Driver, Holding, localVars
        <4> QED
          BY <1>4, <4>1
      <3> QED
        BY <3>1, <3>2
    <2>7. ASSUME TurnStopped PROVE HeldBatch'
      <3>1. CASE NextStepClaim
        BY <1>7, <3>1
      <3>2. CASE ~NextStepClaim
        <4>1. ~Holding /\ UNCHANGED batch
          BY <2>7, <3>2 DEF TurnStopped, Driver, Holding
        <4> QED
          BY <1>4, <4>1
      <3> QED
        BY <3>1, <3>2
    <2> QED
      BY <1>6, <1>8, <2>1, <2>2, <2>3, <2>4, <2>5, <2>6, <2>7
         DEF TurnStep, OpenedAborted, AwaitThrows, DecidedAborted, CaughtThrow, SteppedAborted
  <1>9. ASSUME RequestStep PROVE HeldBatch'
    <2>1. ASSUME RequestPrepared PROVE HeldBatch'
      BY <2>1 DEF RequestPrepared, Driver, Holding, localVars
    <2>2. ASSUME Admit PROVE HeldBatch'
      <3>1. CASE attempt = 0
        BY <1>2, <2>2, <3>1 DEF Admit
      <3>2. CASE attempt # 0
        <4>1. ~Holding /\ UNCHANGED batch
          BY <2>2, <3>2 DEF Admit, Driver, Holding
        <4> QED
          BY <1>4, <4>1
      <3> QED
        BY <3>1, <3>2
    <2>3. ASSUME StreamThrows \/ StepAwaitThrows PROVE HeldBatch'
      <3>1. pc' = "stepThrew"
        BY <2>3 DEF StreamThrows, StepAwaitThrows, StepThrows
      <3> QED
        BY <1>3, <3>1 DEF Holding
    <2>4. ASSUME \/ RequestFailed \/ Retry \/ ToolsReturned
                 \/ \E end \in {"completed", "max-tokens", "tools"} : Responded(end)
          PROVE  HeldBatch'
      <3>1. pc \in {"streaming", "failed", "tools"} /\ UNCHANGED batch
        BY <2>4 DEF RequestFailed, Retry, ToolsReturned, Responded, Driver, localVars
      <3> QED
        BY <1>4, <3>1 DEF Holding
    <2> QED
      BY <1>9, <2>1, <2>2, <2>3, <2>4 DEF RequestStep
  <1>10. ASSUME Environment \/ CancelStep PROVE HeldBatch'
    <2>1. ASSUME CancelStep PROVE HeldBatch'
      BY <1>1, <2>1, CancelLeaves DEF localVars
    <2>2. ASSUME Environment, ~CancelStep PROVE HeldBatch'
      BY <1>1, <2>2 DEF Environment, CancelStep, Inject, SendInsert, Remove, ToolContext, RunMaintenance,
                        localVars
    <2> QED
      BY <1>10, <2>1, <2>2
  <1>11. ASSUME MaintenanceEnd \/ ReplayLatch \/ SendWake PROVE HeldBatch'
    <2>1. ASSUME MaintenanceEnd PROVE HeldBatch'
      <3>1. ~Holding /\ UNCHANGED batch
        BY <1>0, <2>1 DEF MaintenanceEnd, Holding, localVars
      <3> QED
        BY <1>4, <3>1
    <2>2. ASSUME ReplayLatch \/ SendWake PROVE HeldBatch'
      <3>1. UNCHANGED <<decision, attempt, batch>>
        BY <2>2 DEF ReplayLatch, SendWake, localVars
      <3>2. (\E afterAbort, outer : WakeDriver(afterAbort, outer)) \/ UNCHANGED pc
        BY <2>2 DEF ReplayLatch, SendWake
      <3> QED
        BY <1>1, <1>5, <1>11, <3>1, <3>2
    <2> QED
      BY <1>11, <2>1, <2>2
  <1>12. CASE UNCHANGED vars
    BY <1>1, <1>12 DEF vars, localVars
  <1> QED
    BY <1>8, <1>9, <1>10, <1>11, <1>12 DEF Next, Progress, CancelStep

\* A message inserted in one of the lists is a new one.
LEMMA InsertHomes ==
    ASSUME TypeOK, Homes, NEW m \in Msgs, NEW tgt \in Targets, Insert(m, tgt), UNCHANGED batch
    PROVE  Homes'
  <1>1. nextTurn \in MsgSeq /\ nextStep \in MsgSeq /\ fate \in Fates
    BY DEF TypeOK, Fates
  <1>2. m \notin SeqSet(nextTurn) /\ m \notin SeqSet(nextStep) /\ m \notin SeqSet(batch)
    BY DEF Insert, Homes, Pending
  <1>3. \A n \in Msgs : fate'[n] = IF n = m THEN "pending" ELSE fate[n]
    BY <1>1 DEF Insert, Fates
  <1>4. CASE tgt = "next-turn"
    <2>0. nextTurn' = Append(nextTurn, m) /\ nextStep' = nextStep /\ NoDup(nextTurn)
      BY <1>4 DEF Insert, Homes
    <2>1. SeqSet(nextTurn') = SeqSet(nextTurn) \cup {m} /\ NoDup(nextTurn')
      BY <1>1, <1>2, <2>0, AppendHome
    <2>2. Pending' = Pending \cup {m} /\ SeqSet(nextTurn') \cap SeqSet(nextStep') = {}
      BY <1>2, <2>0, <2>1 DEF Homes, Pending
    <2> QED
      BY <1>2, <1>3, <2>0, <2>1, <2>2 DEF Homes
  <1>5. CASE tgt # "next-turn"
    <2>0. nextStep' = Append(nextStep, m) /\ nextTurn' = nextTurn /\ NoDup(nextStep)
      BY <1>5 DEF Insert, Homes
    <2>1. SeqSet(nextStep') = SeqSet(nextStep) \cup {m} /\ NoDup(nextStep')
      BY <1>1, <1>2, <2>0, AppendHome
    <2>2. Pending' = Pending \cup {m} /\ SeqSet(nextTurn') \cap SeqSet(nextStep') = {}
      BY <1>2, <2>0, <2>1 DEF Homes, Pending
    <2> QED
      BY <1>2, <1>3, <2>0, <2>1, <2>2 DEF Homes
  <1> QED
    BY <1>4, <1>5

\* A withdrawn message leaves the one list it was in.
LEMMA RemoveHomes ==
    ASSUME TypeOK, Homes, NEW m \in Msgs, Remove(m)
    PROVE  Homes'
  <1>1. nextTurn \in MsgSeq /\ nextStep \in MsgSeq /\ fate \in Fates
    BY DEF TypeOK, Fates
  <1>2. UNCHANGED batch /\ \A n \in Msgs : fate'[n] = IF n = m THEN "discarded" ELSE fate[n]
    BY <1>1 DEF Remove, Fates, localVars
  <1>3. CASE UNCHANGED nextStep /\ \E i \in DOMAIN nextTurn :
                nextTurn[i] = m /\ nextTurn' = Without(nextTurn, i)
    <2>1. SeqSet(nextTurn') = SeqSet(nextTurn) \ {m} /\ NoDup(nextTurn') /\ m \in SeqSet(nextTurn)
      <3>1. PICK i \in DOMAIN nextTurn : nextTurn[i] = m /\ nextTurn' = Without(nextTurn, i)
        BY <1>3
      <3>2. /\ NoDup(Without(nextTurn, i))
            /\ SeqSet(Without(nextTurn, i)) = SeqSet(nextTurn) \ {nextTurn[i]}
        BY <1>1, WithoutHome DEF Homes
      <3> QED
        BY <3>1, <3>2 DEF SeqSet
    <2>2. m \notin SeqSet(nextStep) /\ m \notin SeqSet(batch)
      BY <2>1 DEF Homes, Pending
    <2> QED
      BY <1>2, <1>3, <2>1, <2>2 DEF Homes, Pending
  <1>4. CASE UNCHANGED nextTurn /\ \E i \in DOMAIN nextStep :
                nextStep[i] = m /\ nextStep' = Without(nextStep, i)
    <2>1. SeqSet(nextStep') = SeqSet(nextStep) \ {m} /\ NoDup(nextStep') /\ m \in SeqSet(nextStep)
      <3>1. PICK i \in DOMAIN nextStep : nextStep[i] = m /\ nextStep' = Without(nextStep, i)
        BY <1>4
      <3>2. /\ NoDup(Without(nextStep, i))
            /\ SeqSet(Without(nextStep, i)) = SeqSet(nextStep) \ {nextStep[i]}
        BY <1>1, WithoutHome DEF Homes
      <3> QED
        BY <3>1, <3>2 DEF SeqSet
    <2>2. m \notin SeqSet(nextTurn) /\ m \notin SeqSet(batch)
      BY <2>1 DEF Homes, Pending
    <2> QED
      BY <1>2, <1>4, <2>1, <2>2 DEF Homes, Pending
  <1> QED
    BY <1>3, <1>4 DEF Remove

\* A claim moves its messages from the lists into an empty batch.
LEMMA ClaimHomes ==
    ASSUME TypeOK, Homes, batch = <<>>, NEW tgt \in Targets, Claim(tgt)
    PROVE  Homes'
  <1> DEFINE prompts == IF tgt = "next-turn" /\ nextTurn # <<>> THEN <<Head(nextTurn)>> ELSE <<>>
             rest == IF prompts = <<>> THEN nextTurn ELSE Tail(nextTurn)
  <1>1. nextTurn \in MsgSeq /\ nextStep \in MsgSeq /\ fate \in Fates
    BY DEF TypeOK, Fates
  <1>2. /\ prompts \in MsgSeq /\ NoDup(prompts) /\ NoDup(rest)
        /\ SeqSet(prompts) \cup SeqSet(rest) = SeqSet(nextTurn)
        /\ SeqSet(prompts) \cap SeqSet(rest) = {}
    <2>1. CASE tgt = "next-turn" /\ nextTurn # <<>>
      <3>1. prompts = <<Head(nextTurn)>> /\ prompts # <<>> /\ rest = Tail(nextTurn)
        BY <2>1
      <3>2. /\ Head(nextTurn) \in Msgs /\ NoDup(Tail(nextTurn))
            /\ Head(nextTurn) \notin SeqSet(Tail(nextTurn))
            /\ SeqSet(nextTurn) = SeqSet(Tail(nextTurn)) \cup {Head(nextTurn)}
        BY <1>1, <2>1, HeadHome DEF Homes
      <3> HIDE DEF prompts, rest
      <3>3. SeqSet(prompts) = {Head(nextTurn)} /\ NoDup(prompts) /\ prompts \in MsgSeq
        BY <3>1, <3>2 DEF SeqSet, NoDup, MsgSeq
      <3> QED
        BY <3>1, <3>2, <3>3
    <2>2. CASE ~(tgt = "next-turn" /\ nextTurn # <<>>)
      <3>1. prompts = <<>> /\ rest = nextTurn
        BY <2>2
      <3>2. <<>> \in MsgSeq
        BY DEF MsgSeq
      <3> HIDE DEF prompts, rest
      <3> QED
        BY <3>1, <3>2, EmptyHome DEF Homes
    <2> QED
      BY <2>1, <2>2
  <1>3. /\ batch' = nextStep \o prompts /\ nextStep' = <<>> /\ nextTurn' = rest
        /\ fate' = [m \in Msgs |-> IF m \in SeqSet(nextStep \o prompts) THEN "claimed" ELSE fate[m]]
    BY DEF Claim
  <1> HIDE DEF prompts, rest
  <1>4. SeqSet(prompts) \cap SeqSet(nextStep) = {}
    BY <1>2 DEF Homes
  <1>5. SeqSet(batch') = SeqSet(nextStep) \cup SeqSet(prompts) /\ NoDup(batch')
    BY <1>1, <1>2, <1>3, <1>4, ConcatHome DEF Homes
  <1>6. \A m \in Msgs : /\ fate'[m] = IF m \in SeqSet(batch') THEN "claimed" ELSE fate[m]
                        /\ fate[m] # "claimed"
    BY <1>3, EmptyHome DEF Homes
  <1>7. SeqSet(nextStep') = {} /\ NoDup(nextStep')
    BY <1>3, EmptyHome
  <1>8. Pending' = Pending \ SeqSet(batch') /\ SeqSet(batch') \subseteq Pending
    BY <1>2, <1>3, <1>5, <1>7 DEF Homes, Pending
  <1> QED
    BY <1>2, <1>3, <1>5, <1>6, <1>7, <1>8 DEF Homes

\* A cleared list holds nothing; its messages are discarded and no others.
LEMMA ClearHomes ==
    ASSUME TypeOK, Homes, UNCHANGED batch, NEW ms,
           fate' = [m \in Msgs |-> IF m \in ms THEN "discarded" ELSE fate[m]],
           \/ ms = SeqSet(nextStep) /\ nextStep' = <<>> /\ UNCHANGED nextTurn
           \/ ms = SeqSet(nextTurn) /\ nextTurn' = <<>> /\ UNCHANGED nextStep
    PROVE  Homes'
  <1>1. \A m \in Msgs : fate'[m] = IF m \in ms THEN "discarded" ELSE fate[m]
    OBVIOUS
  <1>2. /\ Pending' = Pending \ ms /\ ms \subseteq Pending
        /\ NoDup(nextTurn') /\ NoDup(nextStep') /\ SeqSet(nextTurn') \cap SeqSet(nextStep') = {}
    BY EmptyHome DEF Pending, Homes
  <1> QED
    BY <1>1, <1>2 DEF Homes

\* A cancel empties a list and discards what it held, or leaves the inbox alone.
LEMMA CancelFates ==
    ASSUME CancelStep
    PROVE  \/ UNCHANGED <<nextTurn, nextStep, fate>>
           \/ \E ms : /\ fate' = [m \in Msgs |-> IF m \in ms THEN "discarded" ELSE fate[m]]
                      /\ Forget(ms)
                      /\ \/ ms = SeqSet(nextStep) /\ nextStep' = <<>> /\ UNCHANGED nextTurn
                         \/ ms = SeqSet(nextTurn) /\ nextTurn' = <<>> /\ UNCHANGED nextStep
  <1>1. ASSUME NEW c, Abort(c) PROVE UNCHANGED <<nextTurn, nextStep, fate>>
    BY <1>1 DEF Abort, inboxVars
  <1>2. ASSUME NEW c, ClearNextStep(c)
        PROVE  /\ fate' = [m \in Msgs |-> IF m \in SeqSet(nextStep) THEN "discarded" ELSE fate[m]]
               /\ Forget(SeqSet(nextStep)) /\ nextStep' = <<>> /\ UNCHANGED nextTurn
    BY <1>2 DEF ClearNextStep, Discard
  <1>3. ASSUME NEW c, NEW outer, ClearNextTurn(c, outer)
        PROVE  /\ fate' = [m \in Msgs |-> IF m \in SeqSet(nextTurn) THEN "discarded" ELSE fate[m]]
               /\ Forget(SeqSet(nextTurn)) /\ nextTurn' = <<>> /\ UNCHANGED nextStep
    BY <1>3 DEF ClearNextTurn, Discard
  <1> QED
    BY <1>1, <1>2, <1>3 DEF CancelStep, CancelClears, Cancel, CancelClearsTurn, CancelAborts

\* A batch that is logged or dropped leaves the driver's hands.
LEMMA EndHomes ==
    ASSUME TypeOK, Homes, NEW end \in {"logged", "dropped"}, UNCHANGED inboxVars, batch' = <<>>,
           fate' = [m \in Msgs |-> IF m \in SeqSet(batch) THEN end ELSE fate[m]]
    PROVE  Homes'
  <1>1. SeqSet(batch') = {} /\ NoDup(batch') /\ Pending' = Pending
    BY EmptyHome DEF Pending, inboxVars
  <1>2. \A m \in Msgs : fate'[m] = IF m \in SeqSet(batch) THEN end ELSE fate[m]
    OBVIOUS
  <1> QED
    BY <1>1, <1>2 DEF Homes, inboxVars

\* Every message stays in exactly one place, whoever moves it.
LEMMA HomesStep ==
    ASSUME TypeOK, HeldBatch, Homes, [Next]_vars
    PROVE  Homes'
  <1>1. ASSUME UNCHANGED <<nextTurn, nextStep, batch, fate>> PROVE Homes'
    BY <1>1 DEF Homes, Pending
  <1>2. ASSUME DropBatch, UNCHANGED inboxVars PROVE Homes'
    BY <1>2, EndHomes DEF DropBatch
  <1>3. ASSUME CatchThrow PROVE Homes'
    BY <1>2, <1>3 DEF CatchThrow
  <1>4. ASSUME ClaimStep \/ StepSettled \/ TurnStopped PROVE Homes'
    <2>1. batch = <<>>
      BY <1>4 DEF ClaimStep, StepSettled, TurnStopped, Driver, HeldBatch, Holding
    <2>2. CASE UNCHANGED <<nextTurn, nextStep, batch, fate>>
      BY <1>1, <2>2
    <2>3. CASE \E tgt \in Targets : Claim(tgt)
      BY <2>1, <2>3, ClaimHomes
    <2> QED
      BY <1>4, <2>2, <2>3 DEF ClaimStep, StepSettled, TurnStopped, NextStepClaim, TypeOK, Targets,
                              QueueUnchanged, inboxVars, localVars
  <1>5. ASSUME NEW d \in {"reject", "enter", "empty"}, PreStepDecided(d) PROVE Homes'
    BY <1>1, <1>2, <1>5 DEF PreStepDecided, QueueUnchanged, inboxVars
  <1>6. ASSUME \/ TurnStart \/ TurnNotStarted \/ Assembled \/ TurnWithoutStep \/ TurnBreak
               \/ StepStart \/ StepEnd \/ FailClose \/ TurnClosed \/ KickFinally
               \/ RequestPrepared \/ StreamThrows \/ RequestFailed \/ Retry \/ StepAwaitThrows
               \/ (\E end \in {"completed", "max-tokens", "tools"} : Responded(end))
               \/ ToolsReturned \/ MaintenanceEnd \/ ReplayLatch \/ SendWake \/ RunMaintenance
        PROVE  Homes'
    BY <1>1, <1>6 DEF TurnStart, TurnNotStarted, Assembled, TurnWithoutStep, TurnBreak, StepStart,
         StepEnd, FailClose, TurnClosed, KickFinally, RequestPrepared, StreamThrows, StepThrows,
         RequestFailed, Retry, StepAwaitThrows, Responded, ToolsReturned, MaintenanceEnd,
         ReplayLatch, SendWake, RunMaintenance, QueueUnchanged, inboxVars, localVars
  <1>7. ASSUME Admit PROVE Homes'
    <2>1. CASE attempt = 0
      BY <1>7, <2>1, EndHomes DEF Admit, QueueUnchanged
    <2>2. CASE attempt # 0
      BY <1>1, <1>7, <2>2 DEF Admit, QueueUnchanged, inboxVars
    <2> QED
      BY <2>1, <2>2
  <1>8. ASSUME CancelStep PROVE Homes'
    <2>1. UNCHANGED batch
      BY <1>8, CancelLeaves DEF localVars
    <2> QED
      BY <1>1, <1>8, <2>1, CancelFates, ClearHomes
  <1>9. ASSUME Environment PROVE Homes'
    <2>1. ASSUME NEW m \in Msgs, Inject(m) PROVE Homes'
      BY <2>1, InsertHomes DEF Inject, Targets, localVars
    <2>2. ASSUME NEW m \in Msgs, NEW tgt \in Targets, SendInsert(m, tgt) PROVE Homes'
      <3>1. Resolved(tgt) \in Targets
        BY DEF Resolved, Targets
      <3> QED
        BY <2>2, <3>1, InsertHomes DEF SendInsert, localVars
    <2>3. ASSUME NEW m \in Msgs, ToolContext(m) PROVE Homes'
      BY <2>3, InsertHomes DEF ToolContext, Targets, localVars
    <2> QED
      BY <1>6, <1>9, <1>8, <2>1, <2>2, <2>3, RemoveHomes DEF Environment, CancelStep
  <1>10. CASE UNCHANGED vars
    BY <1>1, <1>10 DEF vars, inboxVars, localVars
  <1>11. ASSUME TurnStep PROVE Homes'
    BY <1>3, <1>4, <1>5, <1>6, <1>11
       DEF TurnStep, OpenedAborted, AwaitThrows, DecidedAborted, CaughtThrow, SteppedAborted
  <1>12. ASSUME RequestStep PROVE Homes'
    BY <1>6, <1>7, <1>12 DEF RequestStep
  <1> QED
    BY <1>6, <1>9, <1>10, <1>11, <1>12, <1>8 DEF Next, Progress, CancelStep
-----------------------------------------------------------------------------
(* The wakes an activity owes *)

\* An owed wake belongs to a message that is still queued.
OwedQueued == \A m \in owed : fate[m] = "pending"

\* While a wake is owed something will act on it: the latch of the activity,
\* the replay of a latch, or a driver that is about to open a turn.  A
\* maintenance job that disposal aborted forgets its latches when it ends.
Honoured ==
    /\ kind = "idle" /\ owed # {} => replay
    /\ kind = "maintenance" /\ owed # {} => wakeRequested \/ replay \/ cause = "disposed"
    /\ kind = "running" /\ owed # {} => wakeRequested \/ (pc = "kicked" /\ ~Aborted)

\* A wake that is latched is owed until it is honoured.
LEMMA OwedWake ==
    ASSUME TypeOK, Honoured, NEW m, NEW afterAbort \in BOOLEAN, NEW outer,
           WakeDriver(afterAbort, outer), NoteWake(m, afterAbort), UNCHANGED replay
    PROVE  Honoured'
  <1> USE DEF Honoured, Aborted
  <1>1. CASE kind = "idle"
    <2>1. owed' = owed
      BY <1>1 DEF NoteWake, Latches
    <2>2. kind' = "running" /\ pc' = "kicked" /\ cause' = "none"
      BY <1>1 DEF WakeDriver, StartDriver
    <2> QED
      BY <2>1, <2>2
  <1>2. CASE kind # "idle"
    <2>1. /\ UNCHANGED <<kind, cause, pc>>
          /\ wakeRequested' = (wakeRequested \/ Latches(afterAbort))
      BY <1>2 DEF WakeDriver
    <2>2. CASE Latches(afterAbort)
      <3>1. wakeRequested'
        BY <2>1, <2>2
      <3> QED
        BY <1>2, <2>1, <3>1
    <2>3. CASE ~Latches(afterAbort)
      <3>1. owed' = owed
        BY <2>3 DEF NoteWake
      <3>2. wakeRequested' <=> wakeRequested
        BY <2>1, <2>3, Zenon
      <3> QED
        BY <2>1, <3>1, <3>2
    <2> QED
      BY <2>2, <2>3
  <1> QED
    BY <1>1, <1>2

\* Only a pending message is added to the owed wakes.
LEMMA OwedNote ==
    ASSUME Homes', OwedQueued, NEW m \in Msgs, NEW afterAbort, NoteWake(m, afterAbort),
           UNCHANGED fate
    PROVE  OwedQueued'
  BY DEF OwedQueued, NoteWake, Homes

\* A cancel adds no owed wake.
LEMMA CancelOwed ==
    ASSUME CancelStep
    PROVE  owed' \subseteq owed
  BY DEF CancelStep, CancelClears, ClearNextStep, ClearNextTurn, Discard, Forget, Cancel,
         CancelClearsTurn, CancelAborts, Abort, Settled

\* A message leaves the queue together with the wake it was owed.
LEMMA OwedQueuedStep ==
    ASSUME TypeOK, Homes, Homes', OwedQueued, [Next]_vars
    PROVE  OwedQueued'
  <1>0. owed \subseteq Msgs /\ fate \in Fates
    BY DEF TypeOK, Fates
  <1>1. ASSUME owed' \subseteq owed, \A n \in owed' : fate'[n] = fate[n] PROVE OwedQueued'
    BY <1>1 DEF OwedQueued
  <1>2. ASSUME owed' \subseteq owed, UNCHANGED fate PROVE OwedQueued'
    BY <1>1, <1>2
  <1>3. ASSUME NEW m \in Msgs, NEW tgt, Insert(m, tgt) PROVE \A n \in owed : fate'[n] = fate[n]
    BY <1>0, <1>3 DEF Insert, Fates, OwedQueued
  <1>4. ASSUME owed' \subseteq owed, NEW end, end \in {"dropped", "logged"},
               fate' = [n \in Msgs |-> IF n \in SeqSet(batch) THEN end ELSE fate[n]]
        PROVE  OwedQueued'
    <2>1. \A n \in owed : n \notin SeqSet(batch)
      BY <1>0 DEF OwedQueued, Homes
    <2> QED
      BY <1>0, <1>1, <1>4, <2>1
  <1>5. ASSUME NEW tgt, Claim(tgt) PROVE OwedQueued'
    <2>1. PICK c : /\ fate' = [n \in Msgs |-> IF n \in SeqSet(c) THEN "claimed" ELSE fate[n]]
                   /\ owed' = owed \ SeqSet(c)
      BY <1>5 DEF Claim, Forget
    <2> QED
      BY <1>0, <1>1, <2>1
  <1>6. ASSUME CatchThrow PROVE OwedQueued'
    BY <1>4, <1>6 DEF CatchThrow, DropBatch
  <1>7. ASSUME ClaimStep \/ StepSettled \/ TurnStopped PROVE OwedQueued'
    <2>1. CASE \E tgt : Claim(tgt)
      BY <1>5, <2>1
    <2>2. CASE UNCHANGED <<owed, fate>>
      BY <1>2, <2>2
    <2> QED
      BY <1>7, <2>1, <2>2 DEF ClaimStep, StepSettled, TurnStopped, NextStepClaim, QueueUnchanged
  <1>8. ASSUME NEW d \in {"reject", "enter", "empty"}, PreStepDecided(d) PROVE OwedQueued'
    BY <1>2, <1>4, <1>8 DEF PreStepDecided, DropBatch, QueueUnchanged
  <1>9. ASSUME \/ TurnStart \/ TurnNotStarted \/ Assembled \/ TurnWithoutStep \/ TurnBreak
               \/ StepStart \/ StepEnd \/ FailClose \/ TurnClosed \/ KickFinally
               \/ RequestPrepared \/ StreamThrows \/ RequestFailed \/ Retry \/ StepAwaitThrows
               \/ (\E end \in {"completed", "max-tokens", "tools"} : Responded(end))
               \/ ToolsReturned \/ MaintenanceEnd \/ ReplayLatch \/ RunMaintenance
        PROVE  OwedQueued'
    BY <1>2, <1>9 DEF TurnStart, TurnNotStarted, Assembled, TurnWithoutStep, TurnBreak, StepStart,
         StepEnd, FailClose, TurnClosed, KickFinally, RequestPrepared, StreamThrows, StepThrows,
         RequestFailed, Retry, StepAwaitThrows, Responded, ToolsReturned, MaintenanceEnd,
         ReplayLatch, RunMaintenance, QueueUnchanged, Settled
  <1>10. ASSUME Admit PROVE OwedQueued'
    BY <1>2, <1>4, <1>10 DEF Admit, QueueUnchanged
  <1>11. ASSUME SendWake PROVE OwedQueued'
    <2>1. Head(calls).msg \in Msgs
      BY <1>11, ResumedFrame, FrameFields DEF SendWake
    <2> QED
      BY <1>11, <2>1, OwedNote DEF SendWake
  <1>12. ASSUME CancelStep PROVE OwedQueued'
    <2>1. ASSUME NEW ms, fate' = [n \in Msgs |-> IF n \in ms THEN "discarded" ELSE fate[n]], Forget(ms)
          PROVE  OwedQueued'
      BY <1>0, <1>1, <2>1 DEF Forget
    <2>2. CASE UNCHANGED fate
      BY <1>2, <1>12, <2>2, CancelOwed
    <2> QED
      BY <1>12, <2>1, <2>2, CancelFates
  <1>13. ASSUME Environment PROVE OwedQueued'
    <2>1. ASSUME NEW m \in Msgs, Inject(m) PROVE OwedQueued'
      BY <1>1, <1>3, <2>1 DEF Inject
    <2>2. ASSUME NEW m \in Msgs, NEW tgt \in Targets, SendInsert(m, tgt) PROVE OwedQueued'
      BY <1>1, <1>3, <2>2 DEF SendInsert
    <2>3. ASSUME NEW m \in Msgs, ToolContext(m) PROVE OwedQueued'
      BY <1>1, <1>3, <2>3 DEF ToolContext
    <2>4. ASSUME NEW m \in Msgs, Remove(m) PROVE OwedQueued'
      BY <1>0, <1>1, <2>4 DEF Remove, Forget, Fates
    <2> QED
      BY <1>9, <1>12, <1>13, <2>1, <2>2, <2>3, <2>4 DEF Environment, CancelStep
  <1>14. CASE UNCHANGED vars
    BY <1>2, <1>14 DEF vars
  <1>15. ASSUME TurnStep PROVE OwedQueued'
    BY <1>6, <1>7, <1>8, <1>9, <1>15
       DEF TurnStep, OpenedAborted, AwaitThrows, DecidedAborted, CaughtThrow, SteppedAborted
  <1>16. ASSUME RequestStep PROVE OwedQueued'
    BY <1>9, <1>10, <1>16 DEF RequestStep
  <1> QED
    BY <1>9, <1>11, <1>12, <1>13, <1>14, <1>15, <1>16 DEF Next, Progress, CancelStep

\* A wake is owed to nobody that a cancel in progress is about to forget: the
\* lists it has cleared hold no message that is owed a wake.
Cleared ==
    \A f \in SeqSet(calls) : /\ f.at = "clearTurn" => owed \cap SeqSet(nextStep) = {}
                             /\ f.at = "abort" => owed = {}

\* No other step queues an owed message again or interrupts a cancel.
LEMMA ClearedStep ==
    ASSUME TypeOK, Homes, OwedQueued, Cleared, [Next]_vars
    PROVE  Cleared'
  <1> DEFINE Kept(s) == \A f \in SeqSet(s) : f \in SeqSet(calls) \/ f.at \notin {"clearTurn", "abort"}
  <1>0. owed \subseteq Pending
    BY DEF TypeOK, OwedQueued, Homes
  <1>1. ASSUME owed' \subseteq owed, owed \cap SeqSet(nextStep') \subseteq SeqSet(nextStep), Kept(calls')
        PROVE  Cleared'
    BY <1>1 DEF Cleared
  <1>2. ASSUME owed' \subseteq owed, UNCHANGED nextStep, Kept(calls') PROVE Cleared'
    BY <1>1, <1>2
  <1>3. Kept(calls)
    OBVIOUS
  <1>4. ASSUME NEW m \in Msgs, NEW tgt, Insert(m, tgt)
        PROVE  owed \cap SeqSet(nextStep') \subseteq SeqSet(nextStep)
    <2>1. m \notin owed
      BY <1>4 DEF Insert, OwedQueued
    <2>2. nextStep \in MsgSeq
      BY DEF TypeOK
    <2>3. SeqSet(Append(nextStep, m)) \subseteq SeqSet(nextStep) \cup {m}
      BY <2>2 DEF SeqSet, MsgSeq
    <2> QED
      BY <1>4, <2>1, <2>3 DEF Insert
  <1>5. ASSUME NEW s \in Seq(Frames), Kept(s), calls' = <<KickFrame>> \o s PROVE Kept(calls')
    <2>1. SeqSet(calls') = {KickFrame} \cup SeqSet(s)
      BY <1>5, PushFrame, KickFrameType
    <2>2. KickFrame.at \notin {"clearTurn", "abort"}
      BY DEF KickFrame
    <2> QED
      BY <1>5, <2>1, <2>2
  <1>6. ASSUME NEW afterAbort, NEW s \in Seq(Frames), Kept(s), WakeDriver(afterAbort, s)
        PROVE  Kept(calls')
    BY <1>5, <1>6 DEF WakeDriver, StartDriver
  <1>7. calls = <<>> \/ (Tail(calls) \in Seq(Frames) /\ Kept(Tail(calls)))
    BY PopFrame DEF TypeOK
  <1>8. ASSUME SendWake PROVE Cleared'
    <2>1. calls # <<>> /\ Tail(calls) \in Seq(Frames) /\ Kept(Tail(calls))
      BY <1>7, <1>8 DEF SendWake, Resumes
    <2>2. Kept(calls') /\ UNCHANGED nextStep
      BY <1>6, <1>8, <2>1 DEF SendWake, inboxVars
    <2>3. CASE Clearing
      <3>1. owed' = owed
        BY <1>8, <2>3 DEF SendWake, NoteWake
      <3> QED
        BY <1>2, <2>2, <3>1
    <2>4. CASE ~Clearing
      <3>1. \A f \in SeqSet(calls') : f.at \notin {"clearTurn", "abort"}
        BY <2>2, <2>4 DEF Clearing
      <3> QED
        BY <3>1 DEF Cleared
    <2> QED
      BY <2>3, <2>4
  <1>9. ASSUME ReplayLatch \/ MaintenanceEnd PROVE Cleared'
    <2>1. calls \in Seq(Frames)
      BY DEF TypeOK
    <2>2. Kept(calls')
      BY <1>3, <1>5, <1>6, <1>9, <2>1 DEF ReplayLatch, MaintenanceEnd, StartDriver
    <2>3. owed' \subseteq owed /\ UNCHANGED nextStep
      BY <1>9 DEF ReplayLatch, MaintenanceEnd, Settled, inboxVars
    <2> QED
      BY <1>2, <2>2, <2>3
  <1>10. ASSUME TurnStep PROVE Cleared'
    <2>1. Kept(calls')
      BY <1>3, <1>10, ReturnsType
         DEF TurnStep, TurnStart, TurnNotStarted, OpenedAborted, ClaimStep, Assembled, PreStepDecided,
             AwaitThrows, TurnWithoutStep, TurnBreak, StepStart, DecidedAborted, StepEnd, CaughtThrow,
             SteppedAborted, StepSettled, NextStepClaim, TurnStopped, FailClose, TurnClosed,
             KickFinally, CatchThrow, HostUnchanged
    <2>2. owed' \subseteq owed
      BY <1>10
         DEF TurnStep, TurnStart, TurnNotStarted, OpenedAborted, ClaimStep, Assembled, PreStepDecided,
             AwaitThrows, TurnWithoutStep, TurnBreak, StepStart, DecidedAborted, StepEnd, CaughtThrow,
             SteppedAborted, StepSettled, NextStepClaim, TurnStopped, FailClose, TurnClosed,
             KickFinally, CatchThrow, Claim, Forget, Settled, QueueUnchanged
    <2>3. SeqSet(nextStep') \subseteq SeqSet(nextStep)
      BY <1>10, NoFrames
         DEF TurnStep, TurnStart, TurnNotStarted, OpenedAborted, ClaimStep, Assembled, PreStepDecided,
             AwaitThrows, TurnWithoutStep, TurnBreak, StepStart, DecidedAborted, StepEnd, CaughtThrow,
             SteppedAborted, StepSettled, NextStepClaim, TurnStopped, FailClose, TurnClosed,
             KickFinally, CatchThrow, Claim, QueueUnchanged, inboxVars
    <2> QED
      BY <1>1, <2>1, <2>2, <2>3
  <1>11. ASSUME RequestStep PROVE Cleared'
    <2>1. HostUnchanged /\ QueueUnchanged
      BY <1>11 DEF RequestStep, RequestPrepared, Admit, StreamThrows, StepThrows, RequestFailed, Retry,
                   StepAwaitThrows, Responded, ToolsReturned
    <2> QED
      BY <1>2, <1>3, <2>1 DEF HostUnchanged, QueueUnchanged, inboxVars
  <1>12. ASSUME NEW c \in Causes, CancelClears(c) PROVE Cleared'
    <2> USE <1>12
    <2>1. calls \in Seq(Frames)
      BY DEF TypeOK
    <2>2. CASE ClearNextStep(c)
      <3>1. /\ owed' \subseteq owed /\ SeqSet(nextStep') = {}
            /\ calls' = <<CancelFrame("clearTurn", c)>> \o calls
        BY <2>2, NoFrames DEF ClearNextStep, Discard, Forget
      <3>2. CancelFrame("clearTurn", c) \in Frames
        BY DEF Frames
      <3>3. SeqSet(calls') = {CancelFrame("clearTurn", c)} \cup SeqSet(calls)
        BY <2>1, <3>1, <3>2, PushFrame
      <3>4. CancelFrame("clearTurn", c).at = "clearTurn"
        BY DEF CancelFrame
      <3> QED
        BY <3>1, <3>3, <3>4 DEF Cleared
    <2>3. CASE nextStep = <<>> /\ ClearNextTurn(c, calls)
      <3>1. owed' = {}
        BY <1>0, <2>3, NoFrames DEF ClearNextTurn, Discard, Forget, Pending
      <3> QED
        BY <3>1 DEF Cleared
    <2> QED
      BY <2>2, <2>3 DEF CancelClears
  <1>13. ASSUME CancelClearsTurn PROVE Cleared'
    <2>1. owed \cap SeqSet(nextStep) = {}
      BY <1>13, ResumedFrame DEF CancelClearsTurn, Cleared
    <2>2. owed' = {}
      BY <1>0, <1>13, <2>1 DEF CancelClearsTurn, ClearNextTurn, Discard, Forget, Pending
    <2> QED
      BY <2>2 DEF Cleared
  <1>14. ASSUME CancelAborts PROVE Cleared'
    <2>1. Kept(calls') /\ owed' \subseteq owed /\ UNCHANGED nextStep
      BY <1>7, <1>14 DEF CancelAborts, Resumes, Abort, Settled, inboxVars
    <2> QED
      BY <1>2, <2>1
  <1>15. ASSUME NEW c, NEW keep, Cancel(c, keep) PROVE Cleared'
    BY <1>2, <1>3, <1>15 DEF Cancel, Abort, Settled, inboxVars
  <1>16. ASSUME NEW m \in Msgs, Inject(m) \/ ToolContext(m) PROVE Cleared'
    BY <1>1, <1>3, <1>4, <1>16 DEF Inject, ToolContext, HostUnchanged
  <1>17. ASSUME NEW m \in Msgs, NEW tgt \in Targets, SendInsert(m, tgt) PROVE Cleared'
    <2>1. calls \in Seq(Frames) /\ SendFrame(m, WakeAfterAbort) \in Frames
      <3>1. WakeAfterAbort \in BOOLEAN
        BY Zenon DEF WakeAfterAbort
      <3> QED
        BY <3>1 DEF TypeOK, Frames
    <2>2. SeqSet(calls') = {SendFrame(m, WakeAfterAbort)} \cup SeqSet(calls)
      BY <1>17, <2>1, PushFrame DEF SendInsert
    <2>3. SendFrame(m, WakeAfterAbort).at \notin {"clearTurn", "abort"}
      BY DEF SendFrame
    <2> QED
      BY <1>1, <1>4, <1>17, <2>2, <2>3 DEF SendInsert
  <1>18. ASSUME NEW m \in Msgs, Remove(m) PROVE Cleared'
    <2>1. SeqSet(nextStep') \subseteq SeqSet(nextStep)
      BY <1>18, WithoutHome DEF Remove, Homes, TypeOK
    <2> QED
      BY <1>1, <1>3, <1>18, <2>1 DEF Remove, Forget
  <1>19. CASE RunMaintenance \/ UNCHANGED vars
    BY <1>2, <1>3, <1>19 DEF RunMaintenance, vars, inboxVars
  <1> QED
    BY <1>8, <1>9, <1>10, <1>11, <1>12, <1>13, <1>14, <1>15, <1>16, <1>17, <1>18, <1>19
       DEF Next, Progress, Environment

\* Whatever happens to the activity, somebody still acts on the owed wakes.
LEMMA HonouredStep ==
    ASSUME TypeOK, Homes, OwedQueued, Cleared, Honoured, [Next]_vars
    PROVE  Honoured'
  <1> USE DEF Honoured, Aborted
  <1>0. owed \subseteq Pending /\ (owed # {} => HasPending)
    <2>1. \A m \in owed : m \in Pending
      BY DEF TypeOK, OwedQueued, Homes
    <2>2. Pending # {} => HasPending
      BY EmptyHome DEF Pending, HasPending
    <2> QED
      BY <2>1, <2>2
  <1>1. ASSUME UNCHANGED <<kind, cause, wakeRequested, replay, pc>>, owed' \subseteq owed
        PROVE  Honoured'
    BY <1>1
  <1>2. ASSUME kind = "running", pc # "kicked", PhaseUnchanged, owed' \subseteq owed PROVE Honoured'
    BY <1>2 DEF PhaseUnchanged
  <1>3. ASSUME NEW at \in PCs \ {"kicked"}, Driver(at), PhaseUnchanged, owed' \subseteq owed
        PROVE  Honoured'
    BY <1>2, <1>3 DEF Driver
  <1>4. ASSUME TurnStep PROVE Honoured'
    <2>1. ASSUME TurnStart PROVE Honoured'
      BY <2>1 DEF TurnStart, Settled
    <2>2. ASSUME TurnNotStarted PROVE Honoured'
      BY <2>2 DEF TurnNotStarted, Driver, PhaseUnchanged, Settled
    <2>3. ASSUME NEW at \in PCs \ {"kicked"}, Driver(at), CatchThrow PROVE Honoured'
      BY <1>3, <2>3 DEF CatchThrow
    <2>4. ASSUME ClaimStep \/ StepSettled \/ TurnStopped PROVE Honoured'
      <3>1. owed' \subseteq owed
        BY <2>4 DEF ClaimStep, StepSettled, TurnStopped, NextStepClaim, Claim, Forget, QueueUnchanged
      <3>2. kind = "running" /\ pc # "kicked"
        BY <2>4 DEF ClaimStep, StepSettled, TurnStopped, Driver
      <3>3. PhaseUnchanged
        BY <2>4 DEF ClaimStep, StepSettled, TurnStopped, NextStepClaim, HostUnchanged
      <3> QED
        BY <1>2, <3>1, <3>2, <3>3
    <2>5. ASSUME \/ Assembled \/ (\E d \in {"reject", "enter", "empty"} : PreStepDecided(d))
                 \/ TurnWithoutStep \/ TurnBreak \/ StepStart \/ StepEnd \/ FailClose
          PROVE  Honoured'
      <3>1. owed' \subseteq owed
        BY <2>5 DEF Assembled, PreStepDecided, TurnWithoutStep, TurnBreak, StepStart, StepEnd,
                    FailClose, QueueUnchanged
      <3>2. kind = "running" /\ pc # "kicked"
        BY <2>5 DEF Assembled, PreStepDecided, TurnWithoutStep, TurnBreak, StepStart, StepEnd,
                    FailClose, Driver
      <3>3. PhaseUnchanged
        BY <2>5 DEF Assembled, PreStepDecided, TurnWithoutStep, TurnBreak, StepStart, StepEnd,
                    FailClose, HostUnchanged
      <3> QED
        BY <1>2, <3>1, <3>2, <3>3
    <2>6. ASSUME TurnClosed PROVE Honoured'
      BY <2>6 DEF TurnClosed, Driver, QueueUnchanged
    <2>7. ASSUME KickFinally PROVE Honoured'
      BY <2>7 DEF KickFinally, Driver, QueueUnchanged
    <2> QED
      BY <1>4, <2>1, <2>2, <2>3, <2>4, <2>5, <2>6, <2>7
         DEF TurnStep, OpenedAborted, AwaitThrows, DecidedAborted, CaughtThrow, SteppedAborted, PCs
  <1>5. ASSUME RequestStep PROVE Honoured'
    <2>1. owed' \subseteq owed
      BY <1>5 DEF RequestStep, RequestPrepared, Admit, StreamThrows, StepThrows, RequestFailed,
                  Retry, StepAwaitThrows, Responded, ToolsReturned, QueueUnchanged
    <2>2. kind = "running" /\ pc # "kicked"
      BY <1>5 DEF RequestStep, RequestPrepared, Admit, StreamThrows, StepThrows, RequestFailed,
                  Retry, StepAwaitThrows, Responded, ToolsReturned, Driver
    <2>3. PhaseUnchanged
      BY <1>5 DEF RequestStep, RequestPrepared, Admit, StreamThrows, StepThrows, RequestFailed,
                  Retry, StepAwaitThrows, Responded, ToolsReturned, HostUnchanged
    <2> QED
      BY <1>2, <2>1, <2>2, <2>3
  <1>6. ASSUME MaintenanceEnd PROVE Honoured'
    <2>1. kind = "maintenance" /\ ~replay
      BY <1>6 DEF MaintenanceEnd, Quiet
    <2>2. CASE cause = "disposed" \/ owed = {}
      BY <1>6, <2>2 DEF MaintenanceEnd, Settled
    <2>3. CASE cause # "disposed" /\ owed # {}
      <3>1. StartDriver(calls)
        BY <1>0, <1>6, <2>1, <2>3 DEF MaintenanceEnd
      <3> QED
        BY <3>1 DEF StartDriver
    <2> QED
      BY <2>2, <2>3
  <1>7. ASSUME ReplayLatch PROVE Honoured'
    <2>1. owed' = owed /\ ~replay'
      BY <1>7 DEF ReplayLatch
    <2>2. CASE ~HasPending
      BY <1>0, <2>1, <2>2
    <2>3. CASE HasPending
      <3>1. WakeDriver(FALSE, calls)
        BY <1>7, <2>3 DEF ReplayLatch
      <3>2. CASE kind = "idle"
        BY <3>1, <3>2 DEF WakeDriver, StartDriver
      <3>3. CASE kind = "maintenance"
        <4>1. UNCHANGED <<kind, cause>> /\ wakeRequested' = (wakeRequested \/ cause # "disposed")
          BY <3>1, <3>3, Zenon DEF WakeDriver, Latches
        <4>2. wakeRequested' \/ cause' = "disposed"
          BY <4>1
        <4> QED
          BY <3>3, <4>1, <4>2
      <3>4. CASE kind = "running"
        <4>1. UNCHANGED <<kind, cause, pc>> /\ wakeRequested' = (wakeRequested \/ Latches(FALSE))
          BY <3>1, <3>4 DEF WakeDriver
        <4>2. wakeRequested => wakeRequested'
          BY <4>1, Zenon
        <4> QED
          BY <2>1, <3>4, <4>1, <4>2
      <3> QED
        BY <3>2, <3>3, <3>4 DEF TypeOK, Kinds
    <2> QED
      BY <2>2, <2>3
  <1>8. ASSUME SendWake PROVE Honoured'
    <2>1. Head(calls).afterAbort \in BOOLEAN
      BY <1>8, ResumedFrame, FrameFields DEF SendWake
    <2> QED
      BY <1>8, <2>1, OwedWake DEF SendWake
  <1>9. ASSUME NEW c, Abort(c), owed = {} \/ UNCHANGED wakeRequested PROVE Honoured'
    <2>1. /\ UNCHANGED <<kind, replay, pc>>
          /\ cause' = IF kind # "idle" /\ cause = "none" THEN c ELSE cause
          /\ owed' = IF kind = "running" /\ cause = "none" THEN {} ELSE owed
      BY <1>9 DEF Abort, Settled
    <2> QED
      BY <1>9, <2>1
  <1>10. ASSUME CancelStep PROVE Honoured'
    <2>1. ASSUME NEW ms, NEW at, NEW c, NEW outer, Discard(ms, at, c, outer) PROVE Honoured'
      BY <1>1, <2>1 DEF Discard, Forget, phaseVars
    <2>2. ASSUME NEW c, NEW keep, Cancel(c, keep) PROVE Honoured'
      <3>1. CASE keep
        <4>1. wakeRequested' <=> wakeRequested
          BY <2>2, <3>1, Zenon DEF Cancel
        <4>2. wakeRequested' \in BOOLEAN /\ wakeRequested \in BOOLEAN
          BY <2>2, Zenon DEF Cancel, TypeOK
        <4> QED
          BY <1>9, <2>2, <4>1, <4>2 DEF Cancel
      <3>2. CASE ~keep
        BY <1>0, <1>9, <2>2, <3>2 DEF Cancel
      <3> QED
        BY <3>1, <3>2
    <2>3. ASSUME CancelAborts PROVE Honoured'
      <3>1. CASE Resumes("abort")
        <4>1. owed = {}
          BY <3>1, ResumedFrame DEF Cleared
        <4> QED
          BY <1>9, <2>3, <4>1 DEF CancelAborts
      <3>2. CASE Resumes("clearTurn") /\ nextTurn = <<>>
        <4>1. owed \cap SeqSet(nextStep) = {}
          BY <3>2, ResumedFrame DEF Cleared
        <4>2. owed = {}
          BY <1>0, <3>2, <4>1, EmptyHome DEF Pending
        <4> QED
          BY <1>9, <2>3, <4>2 DEF CancelAborts
      <3> QED
        BY <2>3, <3>1, <3>2 DEF CancelAborts
    <2> QED
      BY <1>10, <2>1, <2>2, <2>3
         DEF CancelStep, CancelClears, ClearNextStep, ClearNextTurn, CancelClearsTurn
  <1>11. ASSUME Environment PROVE Honoured'
    <2>1. ASSUME NEW m \in Msgs, Inject(m) PROVE Honoured'
      BY <1>1, <2>1 DEF Inject, phaseVars
    <2>2. ASSUME NEW m \in Msgs, NEW tgt \in Targets, SendInsert(m, tgt) PROVE Honoured'
      BY <1>1, <2>2 DEF SendInsert, phaseVars
    <2>3. ASSUME NEW m \in Msgs, ToolContext(m) PROVE Honoured'
      BY <1>1, <2>3 DEF ToolContext, HostUnchanged, PhaseUnchanged
    <2>4. ASSUME NEW m \in Msgs, Remove(m) PROVE Honoured'
      BY <1>1, <2>4 DEF Remove, Forget, phaseVars
    <2>5. ASSUME RunMaintenance PROVE Honoured'
      BY <2>5 DEF RunMaintenance
    <2> QED
      BY <1>10, <1>11, <2>1, <2>2, <2>3, <2>4, <2>5 DEF Environment, CancelStep
  <1>12. CASE UNCHANGED vars
    BY <1>1, <1>12 DEF vars, phaseVars
  <1> QED
    BY <1>4, <1>5, <1>6, <1>7, <1>8, <1>10, <1>11, <1>12 DEF Next, Progress, CancelStep

\* The inductive invariant of the inbox, relative to that of the driver.
InboxInv == HeldBatch /\ Homes /\ OwedQueued /\ Cleared /\ Honoured

\* It holds of every reachable state.
LEMMA InboxInvariance == Spec => []InboxInv
  <1>1. Init => InboxInv
    <2> SUFFICES ASSUME Init PROVE InboxInv
      OBVIOUS
    <2>1. HeldBatch /\ OwedQueued /\ Cleared /\ Honoured
      BY NoFrames DEF Init, HeldBatch, OwedQueued, Cleared, Honoured
    <2>2. batch = <<>> /\ nextStep = <<>>
      BY DEF Init
    <2>3. fate = [m \in Msgs |-> IF nextTurn = <<m>> THEN "pending" ELSE "new"]
      BY DEF Init
    <2>4. CASE nextTurn = <<>>
      <3>1. Pending = {}
        BY <2>2, <2>4, EmptyHome DEF Pending
      <3>2. \A m \in Msgs : fate[m] = "new"
        BY <2>3, <2>4
      <3> QED
        BY <2>1, <2>2, <2>4, <3>1, <3>2, EmptyHome DEF InboxInv, Homes
    <2>5. CASE \E m \in Msgs : nextTurn = <<m>>
      <3>1. PICK m \in Msgs : nextTurn = <<m>>
        BY <2>5
      <3>2. SeqSet(nextTurn) = {m} /\ NoDup(nextTurn)
        BY <3>1 DEF SeqSet, NoDup
      <3>3. Pending = {m}
        BY <2>2, <3>2, EmptyHome DEF Pending
      <3>4. \A n \in Msgs : fate[n] = IF n = m THEN "pending" ELSE "new"
        BY <2>3, <3>1
      <3> QED
        BY <2>1, <2>2, <3>2, <3>3, <3>4, EmptyHome DEF InboxInv, Homes
    <2> QED
      BY <2>4, <2>5 DEF Init
  <1>2. IInv /\ IInv' /\ InboxInv /\ [Next]_vars => InboxInv'
    BY HeldStep, HomesStep, OwedQueuedStep, ClearedStep, HonouredStep DEF IInv, InboxInv
  <1> QED
    BY <1>1, <1>2, Invariance, PTL DEF Spec

\* However callers, listeners and the driver interleave, a message lives in
\* exactly one place: queued once, in the claimed batch once, or gone with an
\* outcome; and no driver lets go of the session holding a claimed message.
THEOREM OneHomeEach == Spec => []OneHome
  <1>1. TypeOK /\ Control /\ InboxInv => OneHome
    <2> SUFFICES ASSUME TypeOK, Control, InboxInv PROVE OneHome
      OBVIOUS
    <2> DEFINE queued == nextTurn \o nextStep
               places == queued \o batch
    <2>1. nextTurn \in MsgSeq /\ nextStep \in MsgSeq /\ batch \in MsgSeq
      BY DEF TypeOK
    <2>2. queued \in MsgSeq /\ SeqSet(queued) = Pending /\ NoDup(queued)
      BY <2>1, ConcatHome DEF InboxInv, Homes, Pending
    <2>3. SeqSet(queued) \cap SeqSet(batch) = {}
      <3>1. SeqSet(batch) \subseteq Msgs
        BY <2>1, SeqSetMsgs
      <3> QED
        BY <2>2, <3>1 DEF InboxInv, Homes
    <2> HIDE DEF queued
    <2>4. places \in MsgSeq /\ NoDup(places)
      BY <2>1, <2>2, <2>3, ConcatHome DEF InboxInv, Homes
    <2> HIDE DEF places
    <2>5. Cardinality(SeqSet(places)) = Len(places)
      BY <2>4, NoDupCounts
    <2>6. pc \in Between \cup {"closed"} => batch = <<>>
      BY DEF InboxInv, HeldBatch, Holding, Between
    <2> QED
      BY <2>5, <2>6 DEF OneHome, InboxInv, Homes, places, queued
  <1> QED
    BY <1>1, Invariance, InboxInvariance, PTL DEF IInv

\* A wake that was latched behind maintenance or behind an aborted turn is
\* honoured by a turn or withdrawn with its message, so that an agent at rest
\* owes none, unless it was latched while a cancel was clearing the inbox:
\* cancel() then resets the latch over it (NoteWake keeps those wakes apart, in
\* swept, and WakeOutlivesClear is the property that fails for them).
THEOREM WakesLostToClearsOnly == Spec => []NoWakeLost
  <1>1. InboxInv => NoWakeLost
    BY DEF InboxInv, Honoured, NoWakeLost, Quiet
  <1> QED
    BY <1>1, InboxInvariance, PTL
=============================================================================
