------------------------ MODULE SessionStorage_proofs ------------------------
(***************************************************************************)
(* Every handle keeps its own books: its batch and then its buffer         *)
(* continue the log behind its cursor, whatever the others do (Books).     *)
(* What the file holds follows as long as one handle at a time writes it   *)
(* (OneWriter): there the cursor is the end of the file (Contents), and a  *)
(* handle that closes has nothing left to write (Orderly).  A flush waits  *)
(* for a drain that will still look at the buffer (Barrier).  Whatever     *)
(* fails, a close releases the lock over a drain that has nothing to do,   *)
(* unless it leaves something behind (Locked).                             *)
(***************************************************************************)
EXTENDS SessionStorage, SequenceTheorems, TLAPS

(* Runs of sequence numbers *)

\* n sequence numbers from i on.
Span(i, n) == [k \in 1..n |-> i + k - 1]

\* The log of a session is the span of its sequence numbers.
LEMMA SeqsIsSpan == ASSUME NEW n \in Nat PROVE Seqs(n) = Span(0, n)
  BY DEF Seqs, Span

\* A span is a sequence of numbers that begins with its first.
LEMMA SpanIsSeq ==
    ASSUME NEW i \in Nat, NEW n \in Nat, NEW m \in Nat, i + n <= m
    PROVE  /\ Span(i, n) \in Seq(0..m) /\ Len(Span(i, n)) = n
           /\ n = 0 <=> Span(i, n) = <<>>
           /\ n > 0 => Head(Span(i, n)) = i
  BY DEF Span

\* Consecutive spans join to one.
LEMMA SpanJoins ==
    ASSUME NEW i \in Nat, NEW n \in Nat, NEW m \in Nat
    PROVE  Span(i, n) \o Span(i + n, m) = Span(i, n + m)
  <1> DEFINE s == Span(i, n)  t == Span(i + n, m)  u == Span(i, n + m)
  <1>1. s \in Seq(Nat) /\ Len(s) = n /\ \A k \in 1..n : s[k] = i + k - 1
    BY DEF Span
  <1>2. t \in Seq(Nat) /\ Len(t) = m /\ \A k \in 1..m : t[k] = i + n + k - 1
    BY DEF Span
  <1>3. u \in Seq(Nat) /\ Len(u) = n + m /\ \A k \in 1..(n + m) : u[k] = i + k - 1
    BY DEF Span
  <1> HIDE DEF s, t, u
  <1>4. s \o t \in Seq(Nat) /\ Len(s \o t) = n + m
        /\ \A k \in 1..(n + m) : (s \o t)[k] = IF k <= n THEN s[k] ELSE t[k - n]
    BY <1>1, <1>2, ConcatProperties
  <1>5. \A k \in 1..(n + m) : (s \o t)[k] = u[k]
    <2>1. ASSUME NEW k \in 1..(n + m) PROVE (IF k <= n THEN s[k] ELSE t[k - n]) = i + k - 1
      <3>1. k \in Nat /\ 1 <= k /\ (k <= n \/ k - n \in 1..m)
        OBVIOUS
      <3>2. CASE k <= n
        BY <1>1, <3>1, <3>2
      <3>3. CASE ~(k <= n)
        BY <1>2, <3>1, <3>3
      <3> QED
        BY <3>2, <3>3
    <2> QED
      BY <1>3, <1>4, <2>1
  <1>6. s \o t = u
    BY <1>3, <1>4, <1>5, SeqEqual
  <1> QED
    BY <1>6 DEF s, t, u

\* The next number extends a span.
LEMMA SpanGrows ==
    ASSUME NEW i \in Nat, NEW n \in Nat
    PROVE  Append(Span(i, n), i + n) = Span(i, n + 1)
  BY DEF Span

\* A prefix of a span is the span of its first numbers.
LEMMA SpanCut ==
    ASSUME NEW i \in Nat, NEW n \in Nat, NEW k \in 0..n
    PROVE  SubSeq(Span(i, n), 1, k) = Span(i, k)
  BY DEF Span
-----------------------------------------------------------------------------
(* The inductive invariant *)

\* The types of the variables, without the bound on sequence numbers.
Types ==
    /\ file \in Seq(Nat) /\ torn \in BOOLEAN
    /\ lock \in Handles \cup {NoHandle} /\ writer \in Handles \cup {NoHandle}
    /\ failures \in 0..MaxFailures /\ crashes \in 0..MaxCrashes
    /\ st \in [Handles -> {"new", "open", "closed", "dead"}]
    /\ nextSeq \in [Handles -> Nat] /\ cursor \in [Handles -> Nat]
    /\ tornTail \in [Handles -> BOOLEAN]
    /\ buffered \in [Handles -> Seq(Nat)] /\ batch \in [Handles -> Seq(Nat)]
    /\ drain \in [Handles -> {"idle", "queued", "writing", "loop", "ended"}]
    /\ drainFailed \in [Handles -> BOOLEAN] /\ timer \in [Handles -> BOOLEAN]
    /\ paused \in [Handles -> BOOLEAN]
    /\ flush \in [Handles -> [at : {"none", "draining", "drained", "done", "failed"},
                              upto : Nat, gap : BOOLEAN]]
    /\ close \in [Handles -> CloseStages]

\* The marks of what a close left behind.
Marks == [Handles -> {"none", "retained", "late"}]

\* A handle's role, its claim and the stage of its close agree.
Role(h) ==
    /\ writer = h <=> st[h] = "open"
    /\ close[h] = "done" <=> st[h] \in {"closed", "dead"}
    /\ st[h] = "new" => close[h] = "none" /\ flush[h].upto = 0

\* The handle has nothing to write.
Quiet(h) == buffered[h] = <<>> /\ batch[h] = <<>> /\ drain[h] \notin {"queued", "writing"}

\* Behind the cursor of a handle its batch and then its buffer continue the log.
Accounted(h) ==
    /\ batch[h] = Span(cursor[h], Len(batch[h]))
    /\ buffered[h] = Span(cursor[h] + Len(batch[h]), Len(buffered[h]))
    /\ nextSeq[h] = cursor[h] + Len(batch[h]) + Len(buffered[h])

\* The books of one handle, whatever the others do to the file.
Books(h) ==
    /\ st[h] \in {"open", "closed"} => Accounted(h)
    /\ st[h] \in {"new", "dead"} => Quiet(h)
    /\ drain[h] = "queued" => buffered[h] # <<>>
    /\ batch[h] # <<>> <=> drain[h] = "writing"
    /\ cursor[h] <= nextSeq[h] /\ flush[h].upto <= nextSeq[h]

Ledger == \A h \in Handles : Role(h) /\ Books(h)

\* A session that one handle writes, or whose handles close without a failed
\* write behind them and without late calls, has one writer of its file.
OneWriter == Opens = 1 \/ (failures = 0 /\ ~LateCalls)

\* The handle's cursor is the end of the file, and it knows of a torn tail.
UpToDate(h) == cursor[h] = Len(file) /\ (torn => tornTail[h])

\* What the file holds, and what each handle believes of it.
Contents ==
    /\ file = Span(0, Len(file)) /\ Len(file) <= MaxSeq
    /\ \A h \in Handles : /\ nextSeq[h] <= MaxSeq
                          /\ st[h] = "open" \/ (st[h] = "closed" /\ Opens = 1) => UpToDate(h)

\* A close that no failed write and no late call disturbs, step by step.
Orderly(h) ==
    /\ ~drainFailed[h]
    /\ LastLook(h) => buffered[h] = <<>>
    /\ close[h] \in {"releasing", "unlocked"} => Quiet(h)
    /\ lock = h <=> st[h] = "open" /\ close[h] # "unlocked"
    /\ st[h] = "closed" => Quiet(h) /\ nextSeq[h] <= Len(file)

Inv ==
    /\ Types /\ stray \in Marks /\ Ledger
    /\ OneWriter => Contents
    /\ failures = 0 /\ ~LateCalls => \A h \in Handles : Orderly(h)
-----------------------------------------------------------------------------
(* Types *)

\* No handle is open.
LEMMA InitTypes == Init => Types
  <1> SUFFICES ASSUME Init PROVE Types
    OBVIOUS
  <1>1. <<>> \in Seq(Nat) /\ 0 \in Nat
    OBVIOUS
  <1>2. 0 \in 0..MaxFailures /\ 0 \in 0..MaxCrashes
    BY StorageAssumption
  <1>3. NoFlush \in [at : {"none", "draining", "drained", "done", "failed"}, upto : Nat, gap : BOOLEAN]
    BY DEF NoFlush
  <1>4. file \in Seq(Nat) /\ buffered \in [Handles -> Seq(Nat)] /\ batch \in [Handles -> Seq(Nat)]
    BY <1>1 DEF Init
  <1>5. failures \in 0..MaxFailures /\ crashes \in 0..MaxCrashes
    BY <1>2 DEF Init
  <1>6. nextSeq \in [Handles -> Nat] /\ cursor \in [Handles -> Nat]
    BY <1>1 DEF Init
  <1>7. flush \in [Handles -> [at : {"none", "draining", "drained", "done", "failed"},
                               upto : Nat, gap : BOOLEAN]]
    BY <1>3 DEF Init
  <1>8. /\ st \in [Handles -> {"new", "open", "closed", "dead"}]
        /\ drain \in [Handles -> {"idle", "queued", "writing", "loop", "ended"}]
        /\ close \in [Handles -> CloseStages]
    BY DEF Init, CloseStages
  <1>9. /\ tornTail \in [Handles -> BOOLEAN] /\ drainFailed \in [Handles -> BOOLEAN]
        /\ timer \in [Handles -> BOOLEAN] /\ paused \in [Handles -> BOOLEAN] /\ torn \in BOOLEAN
    BY DEF Init
  <1>10. lock \in Handles \cup {NoHandle} /\ writer \in Handles \cup {NoHandle}
    BY DEF Init
  <1> QED
    BY <1>4, <1>5, <1>6, <1>7, <1>8, <1>9, <1>10 DEF Types

\* What joining or starting the single-flight drain does to the drains.
LEMMA Joined ==
    ASSUME Types, NEW h \in Handles, JoinOrStart(h)
    PROVE  /\ drain' \in [Handles -> {"idle", "queued", "writing", "loop", "ended"}]
           /\ \A g \in Handles : g # h => drain'[g] = drain[g] /\ drainFailed'[g] = drainFailed[g]
           /\ \/ drain'[h] = drain[h]
              \/ drain[h] = "idle" /\ drain'[h] = IF buffered[h] # <<>> THEN "queued" ELSE "ended"
           /\ drainFailed' \in [Handles -> BOOLEAN] /\ timer' \in [Handles -> BOOLEAN]
           /\ paused' \in [Handles -> BOOLEAN]
           /\ drainFailed'[h] => drainFailed[h]
  BY DEF Types, JoinOrStart, LoopHead

\* Every step keeps the types.
LEMMA TypesStep == Types /\ [Next]_vars => Types'
  <1> SUFFICES ASSUME Types, [Next]_vars PROVE Types'
    OBVIOUS
  <1>1. ASSUME NEW h \in Handles, Open(h) PROVE Types'
    BY <1>1 DEF Open, Types, drainVars
  <1>2. ASSUME NEW h \in Handles, Emit(h) PROVE Types'
    <2>1. nextSeq[h] \in Nat /\ buffered[h] \in Seq(Nat)
      BY DEF Types
    <2>2. Append(buffered[h], nextSeq[h]) \in Seq(Nat) /\ nextSeq[h] + 1 \in Nat
      BY <2>1
    <2> QED
      BY <1>2, <2>2 DEF Emit, Types, sharedVars
  <1>3. ASSUME NEW h \in Handles, TimerFires(h) PROVE Types'
    BY <1>3, Joined DEF TimerFires, Types, sharedVars
  <1>4. ASSUME NEW h \in Handles, Splice(h) PROVE Types'
    <2>1. buffered[h] \in Seq(Nat) /\ <<>> \in Seq(Nat)
      BY DEF Types
    <2> QED
      BY <1>4, <2>1 DEF Splice, Types, sharedVars
  <1>5. ASSUME NEW h \in Handles, Written(h) PROVE Types'
    <2>1. file \o batch[h] \in Seq(Nat) /\ cursor[h] + Len(batch[h]) \in Nat /\ <<>> \in Seq(Nat)
      <3>1. file \in Seq(Nat) /\ batch[h] \in Seq(Nat) /\ cursor[h] \in Nat
        BY DEF Types
      <3> QED
        BY <3>1
    <2> QED
      BY <1>5, <2>1 DEF Written, TruncateTorn, Types
  <1>6. ASSUME NEW h \in Handles, WriteFails(h) PROVE Types'
    <2>1. batch[h] \o buffered[h] \in Seq(Nat) /\ <<>> \in Seq(Nat)
      <3>1. batch[h] \in Seq(Nat) /\ buffered[h] \in Seq(Nat)
        BY DEF Types
      <3> QED
        BY <3>1
    <2>2. failures' \in 0..MaxFailures
      <3>1. failures' = failures \/ (failures < MaxFailures /\ failures' = failures + 1)
        BY <1>6 DEF WriteFails
      <3>2. failures \in 0..MaxFailures
        BY DEF Types
      <3> QED
        BY <3>1, <3>2, StorageAssumption
    <2>3. torn' \in BOOLEAN /\ tornTail' \in [Handles -> BOOLEAN]
      BY <1>6 DEF WriteFails, TruncateTorn, Types
    <2> QED
      BY <1>6, <2>1, <2>2, <2>3 DEF WriteFails, RetainBatch, Types
  <1>7. ASSUME NEW h \in Handles, Looped(h) PROVE Types'
    BY <1>7 DEF Looped, LoopHead, Types, sharedVars
  <1>8. ASSUME NEW h \in Handles, Settled(h) PROVE Types'
    <2>1. PICK a \in {"none", "draining", "drained", "done", "failed"} :
              flush' = [flush EXCEPT ![h].at = a]
      BY <1>8 DEF Settled, Types
    <2>2. PICK c \in CloseStages : close' = [close EXCEPT ![h] = c]
      BY <1>8 DEF Settled, Types, CloseStages
    <2>3. flush' \in [Handles -> [at : {"none", "draining", "drained", "done", "failed"},
                                  upto : Nat, gap : BOOLEAN]]
      BY <2>1 DEF Types
    <2>4. close' \in [Handles -> CloseStages]
      BY <2>2 DEF Types
    <2> QED
      BY <1>8, <2>3, <2>4 DEF Settled, Types, sharedVars
  <1>9. ASSUME NEW h \in Handles, Flush(h) PROVE Types'
    BY <1>9, Joined DEF Flush, Types, sharedVars
  <1>10. ASSUME NEW h \in Handles, FlushReturns(h) PROVE Types'
    <2>1. PICK a \in {"done", "failed"} : flush' = [flush EXCEPT ![h].at = a]
      BY <1>10 DEF FlushReturns
    <2>2. flush' \in [Handles -> [at : {"none", "draining", "drained", "done", "failed"},
                                  upto : Nat, gap : BOOLEAN]]
      BY <2>1 DEF Types
    <2> QED
      BY <1>10, <2>2 DEF FlushReturns, Types, sharedVars, drainVars
  <1>11. ASSUME NEW h \in Handles, Close(h) PROVE Types'
    BY <1>11, Joined DEF Close, Types, sharedVars, CloseStages
  <1>12. ASSUME NEW h \in Handles, CloseChecks(h) PROVE Types'
    <2>1. CASE buffered[h] # <<>>
      <3>1. JoinOrStart(h) /\ close' = [close EXCEPT ![h] = "draining"]
        BY <1>12, <2>1 DEF CloseChecks
      <3>2. UNCHANGED <<sharedVars, st, nextSeq, cursor, tornTail, buffered, batch, flush>>
        BY <1>12 DEF CloseChecks
      <3> QED
        BY <3>1, <3>2, Joined DEF Types, sharedVars, CloseStages
    <2>2. CASE buffered[h] = <<>>
      BY <1>12, <2>2 DEF CloseChecks, Types, sharedVars, CloseStages
    <2> QED
      BY <2>1, <2>2
  <1>13. ASSUME NEW h \in Handles, CloseWaited(h) PROVE Types'
    BY <1>13 DEF CloseWaited, Types, sharedVars, drainVars, CloseStages
  <1>14. ASSUME NEW h \in Handles, Unlock(h) PROVE Types'
    BY <1>14 DEF Unlock, Types, drainVars, CloseStages
  <1>15. ASSUME NEW h \in Handles, Release(h) PROVE Types'
    BY <1>15 DEF Release, Types, drainVars, CloseStages
  <1>16. CASE Crash
    <2>1. file' \in Seq(Nat) /\ torn' \in BOOLEAN
      <3>1. ASSUME NEW h \in Handles, NEW k \in 0..Len(batch[h]),
                   file' = file \o SubSeq(batch[h], 1, k)
            PROVE  file' \in Seq(Nat)
        <4>1. file \in Seq(Nat) /\ batch[h] \in Seq(Nat) /\ Len(batch[h]) \in Nat
          BY DEF Types
        <4>2. k \in Int /\ \A i \in 1..k : batch[h][i] \in Nat
          BY <3>1, <4>1
        <4>3. SubSeq(batch[h], 1, k) \in Seq(Nat)
          BY <4>2, SubSeqProperties
        <4> QED
          BY <3>1, <4>1, <4>3
      <3> QED
        BY <1>16, <3>1 DEF Crash, Types
    <2>2. crashes' \in 0..MaxCrashes
      <3>1. crashes < MaxCrashes /\ crashes' = crashes + 1
        BY <1>16 DEF Crash
      <3> QED
        BY <3>1, StorageAssumption DEF Types
    <2>3. flush' \in [Handles -> [at : {"none", "draining", "drained", "done", "failed"},
                                  upto : Nat, gap : BOOLEAN]]
      BY <1>16 DEF Crash, Types
    <2>4. /\ lock' \in Handles \cup {NoHandle} /\ writer' \in Handles \cup {NoHandle}
          /\ st' \in [Handles -> {"new", "open", "closed", "dead"}]
          /\ buffered' \in [Handles -> Seq(Nat)] /\ batch' \in [Handles -> Seq(Nat)]
          /\ drain' \in [Handles -> {"idle", "queued", "writing", "loop", "ended"}]
          /\ timer' \in [Handles -> BOOLEAN] /\ close' \in [Handles -> CloseStages]
      BY <1>16 DEF Crash, Types, CloseStages
    <2>5. UNCHANGED <<failures, nextSeq, cursor, tornTail, drainFailed, paused>>
      BY <1>16 DEF Crash
    <2> QED
      BY <2>1, <2>2, <2>3, <2>4, <2>5 DEF Types
  <1>17. CASE UNCHANGED vars
    BY <1>17 DEF Types, vars, sharedVars, drainVars
  <1> QED
    BY <1>1, <1>2, <1>3, <1>4, <1>5, <1>6, <1>7, <1>8, <1>9, <1>10, <1>11, <1>12, <1>13, <1>14,
       <1>15, <1>16, <1>17 DEF Next, Drain, Closing
\* A mark is made where a call comes late or a close releases the lock.
LEMMA MarksStep == stray \in Marks /\ [Next]_vars => stray' \in Marks
  <1> SUFFICES ASSUME stray \in Marks, [Next]_vars PROVE stray' \in Marks
    OBVIOUS
  <1>1. ASSUME NEW h \in Handles, Emit(h) \/ Flush(h) \/ CloseWaited(h) PROVE stray' \in Marks
    BY <1>1 DEF Emit, Flush, CloseWaited, Called, NoteRelease, Marks
  <1>2. ASSUME NEW h \in Handles,
               \/ Open(h) \/ TimerFires(h) \/ Splice(h) \/ Written(h) \/ WriteFails(h) \/ Looped(h)
               \/ Settled(h) \/ FlushReturns(h) \/ Close(h) \/ CloseChecks(h) \/ Unlock(h) \/ Release(h)
        PROVE  UNCHANGED stray
    BY <1>2 DEF Open, TimerFires, Splice, Written, WriteFails, Looped, Settled, FlushReturns, Close,
                CloseChecks, Unlock, Release
  <1>3. CASE Crash \/ UNCHANGED vars
    BY <1>3 DEF Crash, vars
  <1> QED
    BY <1>1, <1>2, <1>3 DEF Next, Drain, Closing
-----------------------------------------------------------------------------
(* Roles: who claims the id, and how far its close is *)

\* What a settling drain and a returning flush make of the flush caller.
LEMMA FlushKept ==
    ASSUME Types, NEW h \in Handles, Settled(h) \/ FlushReturns(h)
    PROVE  \A g \in Handles : flush'[g].upto = flush[g].upto
  <1>1. PICK a \in {"none", "draining", "drained", "done", "failed"} : flush' = [flush EXCEPT ![h].at = a]
    BY DEF Settled, FlushReturns, Types
  <1> QED
    BY <1>1 DEF Types

\* Every step keeps role, claim and the stage of the close in agreement.
LEMMA RoleStep ==
    ASSUME Types, Ledger, [Next]_vars, NEW g \in Handles
    PROVE  Role(g)'
  <1>0. Role(g) /\ NoHandle \notin Handles
    BY DEF Ledger, NoHandle, Handles
  <1> USE DEF Types, Role
  <1>1. ASSUME NEW h \in Handles, Open(h) PROVE Role(g)'
    BY <1>0, <1>1 DEF Open
  <1>2. ASSUME NEW h \in Handles, Emit(h) PROVE Role(g)'
    BY <1>0, <1>2 DEF Emit, sharedVars
  <1>3. ASSUME NEW h \in Handles, TimerFires(h) PROVE Role(g)'
    BY <1>0, <1>3 DEF TimerFires, sharedVars
  <1>4. ASSUME NEW h \in Handles, Splice(h) PROVE Role(g)'
    BY <1>0, <1>4 DEF Splice, sharedVars
  <1>5. ASSUME NEW h \in Handles, Written(h) PROVE Role(g)'
    BY <1>0, <1>5 DEF Written
  <1>6. ASSUME NEW h \in Handles, WriteFails(h) PROVE Role(g)'
    BY <1>0, <1>6 DEF WriteFails
  <1>7. ASSUME NEW h \in Handles, Looped(h) PROVE Role(g)'
    BY <1>0, <1>7 DEF Looped, sharedVars
  <1>8. ASSUME NEW h \in Handles, Settled(h) PROVE Role(g)'
    <2>1. UNCHANGED <<writer, st>> /\ (close'[g] = close[g] \/ (close[g] = "draining" /\ close'[g] \in {"waiting", "check"}))
      BY <1>8 DEF Settled, sharedVars
    <2>2. flush'[g].upto = flush[g].upto
      BY <1>8, FlushKept
    <2> QED
      BY <1>0, <2>1, <2>2
  <1>9. ASSUME NEW h \in Handles, Flush(h) PROVE Role(g)'
    BY <1>0, <1>9 DEF Flush, sharedVars, Ledger
  <1>10. ASSUME NEW h \in Handles, FlushReturns(h) PROVE Role(g)'
    <2>1. UNCHANGED <<writer, st, close>>
      BY <1>10 DEF FlushReturns, sharedVars
    <2>2. flush'[g].upto = flush[g].upto
      BY <1>10, FlushKept
    <2> QED
      BY <1>0, <2>1, <2>2
  <1>11. ASSUME NEW h \in Handles, Close(h) PROVE Role(g)'
    BY <1>0, <1>11 DEF Close, sharedVars
  <1>12. ASSUME NEW h \in Handles, CloseChecks(h) PROVE Role(g)'
    BY <1>0, <1>12 DEF CloseChecks, sharedVars
  <1>13. ASSUME NEW h \in Handles, CloseWaited(h) PROVE Role(g)'
    BY <1>0, <1>13 DEF CloseWaited, sharedVars
  <1>14. ASSUME NEW h \in Handles, Unlock(h) PROVE Role(g)'
    BY <1>0, <1>14 DEF Unlock
  <1>15. ASSUME NEW h \in Handles, Release(h) PROVE Role(g)'
    BY <1>0, <1>15 DEF Release, Ledger
  <1>16. CASE Crash
    <2>1. /\ writer' = NoHandle
          /\ st'[g] = IF st[g] = "new" THEN "new" ELSE "dead"
          /\ close'[g] = IF st[g] = "new" THEN "none" ELSE "done"
          /\ st[g] = "new" => flush'[g] = flush[g]
      BY <1>16 DEF Crash
    <2> QED
      BY <1>0, <2>1
  <1>17. CASE UNCHANGED vars
    BY <1>0, <1>17 DEF vars, sharedVars
  <1> QED
    BY <1>1, <1>2, <1>3, <1>4, <1>5, <1>6, <1>7, <1>8, <1>9, <1>10, <1>11, <1>12, <1>13, <1>14,
       <1>15, <1>16, <1>17 DEF Next, Drain, Closing
-----------------------------------------------------------------------------
(* The books of each handle *)

\* The empty span.
LEMMA SpanNone == ASSUME NEW i \in Nat PROVE Span(i, 0) = <<>>
  BY SpanIsSeq

\* The length of a span.
LEMMA SpanLen == ASSUME NEW i \in Nat, NEW n \in Nat PROVE Len(Span(i, n)) = n /\ (n > 0 => Span(i, n) # <<>>)
  BY DEF Span

\* An event behind the buffer, and a batch put back in front of it.
Moves(c, n, k) ==
    /\ Append(Span(c + n, k), c + n + k) = Span(c + n, k + 1)
    /\ Len(Span(c + n, k + 1)) = k + 1 /\ Span(c + n, k + 1) # <<>>
    /\ Span(c, n) \o Span(c + n, k) = Span(c, n + k) /\ Len(Span(c, n + k)) = n + k
    /\ Span(c, 0) = <<>> /\ c + 0 = c /\ c + 0 + (n + k) = c + n + k

\* The moves between file, batch and buffer that keep them consecutive.
LEMMA SpanMoves == ASSUME NEW c \in Nat, NEW n \in Nat, NEW k \in Nat PROVE Moves(c, n, k)
  <1>1. c + n \in Nat /\ n + k \in Nat /\ k + 1 \in Nat /\ k + 1 > 0 /\ c + 0 = c
        /\ c + 0 + (n + k) = c + n + k
    OBVIOUS
  <1>2. Append(Span(c + n, k), (c + n) + k) = Span(c + n, k + 1)
    BY <1>1, SpanGrows
  <1>3. Len(Span(c + n, k + 1)) = k + 1 /\ Span(c + n, k + 1) # <<>> /\ Len(Span(c, n + k)) = n + k
    BY <1>1, SpanLen
  <1>4. Span(c, n) \o Span(c + n, k) = Span(c, n + k) /\ Span(c, 0) = <<>>
    BY SpanJoins, SpanNone
  <1> QED
    BY <1>1, <1>2, <1>3, <1>4 DEF Moves

\* Cursors and lengths are numbers.
LEMMA Lengths ==
    ASSUME Types, NEW h \in Handles
    PROVE  /\ cursor[h] \in Nat /\ nextSeq[h] \in Nat /\ flush[h].upto \in Nat
           /\ Len(batch[h]) \in Nat /\ Len(buffered[h]) \in Nat /\ Len(file) \in Nat /\ Len(<<>>) = 0
  <1>1. batch[h] \in Seq(Nat) /\ buffered[h] \in Seq(Nat) /\ file \in Seq(Nat)
    BY DEF Types
  <1>2. cursor[h] \in Nat /\ nextSeq[h] \in Nat /\ flush[h].upto \in Nat
    BY DEF Types
  <1> QED
    BY <1>1, <1>2

\* A drain that is joined or started leaves the books as they are.
LEMMA JoinBooks ==
    ASSUME Types, NEW g \in Handles, NEW h \in Handles, JoinOrStart(h), Books(g),
           UNCHANGED <<st, nextSeq, cursor, buffered, batch>>,
           flush'[g].upto <= nextSeq[g]
    PROVE  Books(g)'
  BY Joined DEF Books, Quiet, Accounted

\* Nothing of the handle's books changes but perhaps the drain's stage.
LEMMA SameBooks ==
    ASSUME Types, NEW g \in Handles, Books(g),
           nextSeq'[g] = nextSeq[g], cursor'[g] = cursor[g], buffered'[g] = buffered[g],
           batch'[g] = batch[g], flush'[g].upto = flush[g].upto, st'[g] = st[g],
           drain'[g] = drain[g]
    PROVE  Books(g)'
  BY DEF Books, Quiet, Accounted

\* Every step keeps batch and buffer the next numbers behind the cursor.
LEMMA BooksStep ==
    ASSUME Types, Ledger, [Next]_vars, NEW g \in Handles
    PROVE  Books(g)'
  <1>0. Books(g) /\ Role(g)
    BY DEF Ledger
  <1>t. Types'
    BY TypesStep
  <1>1. ASSUME NEW h \in Handles, Open(h) PROVE Books(g)'
    <2>1. CASE g # h
      BY <1>0, <1>1, <2>1, SameBooks DEF Open, drainVars, Types
    <2>2. CASE g = h
      <3>1. /\ st'[h] = "open" /\ cursor'[h] = Len(file) /\ nextSeq'[h] = Len(file) /\ st[h] = "new"
            /\ buffered'[h] = buffered[h] /\ batch'[h] = batch[h] /\ drain'[h] = drain[h]
            /\ flush'[h] = flush[h] /\ Len(file) \in Nat
        BY <1>1 DEF Open, Types, drainVars
      <3>2. Quiet(h) /\ flush[h].upto = 0
        BY <1>0, <2>2, <3>1 DEF Books, Role
      <3>3. Span(Len(file), 0) = <<>> /\ Span(Len(file) + 0, 0) = <<>> /\ Len(<<>>) = 0
        BY <3>1, SpanNone
      <3> QED
        BY <2>2, <3>1, <3>2, <3>3 DEF Books, Quiet, Accounted
    <2> QED
      BY <2>1, <2>2
  <1>2. ASSUME NEW h \in Handles, Emit(h) PROVE Books(g)'
    <2>1. CASE g # h
      BY <1>0, <1>2, <2>1, SameBooks DEF Emit, sharedVars, Types
    <2>2. CASE g = h
      <3>1. /\ nextSeq'[h] = nextSeq[h] + 1 /\ buffered'[h] = Append(buffered[h], nextSeq[h])
            /\ st' = st /\ cursor' = cursor /\ batch' = batch /\ drain' = drain /\ flush' = flush
            /\ st[h] = "open"
        BY <1>0, <1>2, <2>2 DEF Emit, sharedVars, Types, Role
      <3> DEFINE c == cursor[h]  n == Len(batch[h])  k == Len(buffered[h])
      <3>2. c \in Nat /\ n \in Nat /\ k \in Nat /\ flush[h].upto \in Nat
        BY Lengths
      <3>3. buffered[h] = Span(c + n, k) /\ nextSeq[h] = (c + n) + k /\ batch[h] = Span(c, n)
        BY <1>0, <2>2, <3>1 DEF Books, Accounted
      <3>4. buffered'[h] = Span(c + n, k + 1) /\ Len(buffered'[h]) = k + 1 /\ buffered'[h] # <<>>
        <4>1. Moves(c, n, k)
          BY <3>2, SpanMoves
        <4>2. buffered'[h] = Append(Span(c + n, k), c + n + k)
          BY <3>1, <3>3
        <4> QED
          BY <4>1, <4>2 DEF Moves
      <3>5. nextSeq'[h] = c + n + (k + 1)
        BY <3>1, <3>2, <3>3
      <3>6. Accounted(h)'
        BY <3>1, <3>2, <3>3, <3>4, <3>5 DEF Accounted
      <3> QED
        BY <1>0, <2>2, <3>1, <3>2, <3>3, <3>4, <3>6 DEF Books
    <2> QED
      BY <2>1, <2>2
  <1>3. ASSUME NEW h \in Handles, TimerFires(h) PROVE Books(g)'
    <2>1. UNCHANGED <<st, nextSeq, cursor, buffered, batch, flush>>
      BY <1>3 DEF TimerFires
    <2>2. JoinOrStart(h) \/ UNCHANGED drain
      BY <1>3 DEF TimerFires
    <2>3. flush'[g].upto <= nextSeq[g]
      BY <1>0, <2>1 DEF Books
    <2> QED
      BY <1>0, <2>1, <2>2, <2>3, JoinBooks, SameBooks
  <1>4. ASSUME NEW h \in Handles, Splice(h) PROVE Books(g)'
    <2>1. CASE g # h
      BY <1>0, <1>4, <2>1, SameBooks DEF Splice, sharedVars, Types
    <2>2. CASE g = h
      <3>1. /\ batch'[h] = buffered[h] /\ buffered'[h] = <<>> /\ drain'[h] = "writing" /\ drain[h] = "queued"
            /\ st' = st /\ cursor' = cursor /\ nextSeq' = nextSeq /\ flush' = flush
        BY <1>4 DEF Splice, sharedVars, Types
      <3>2. batch[h] = <<>> /\ buffered[h] # <<>> /\ ~Quiet(h)
        BY <1>0, <2>2, <3>1 DEF Books, Quiet
      <3>3. st[h] \in {"open", "closed"} /\ Accounted(h)
        BY <1>0, <2>2, <3>2 DEF Books, Types
      <3>4. cursor[h] \in Nat /\ Len(buffered[h]) \in Nat /\ Len(<<>>) = 0
        BY Lengths
      <3>5. Span(cursor[h] + Len(buffered[h]), 0) = <<>>
        BY <3>4, SpanNone
      <3>6. Accounted(h)'
        BY <3>1, <3>2, <3>3, <3>4, <3>5 DEF Accounted
      <3> QED
        BY <1>0, <2>2, <3>1, <3>2, <3>3, <3>6 DEF Books
    <2> QED
      BY <2>1, <2>2
  <1>5. ASSUME NEW h \in Handles, Written(h) PROVE Books(g)'
    <2>1. CASE g # h
      BY <1>0, <1>5, <2>1, SameBooks DEF Written, Types
    <2>2. CASE g = h
      <3>1. /\ batch'[h] = <<>> /\ buffered' = buffered /\ drain'[h] = "loop" /\ drain[h] = "writing"
            /\ st' = st /\ cursor'[h] = cursor[h] + Len(batch[h]) /\ nextSeq' = nextSeq /\ flush' = flush
        BY <1>5 DEF Written, Types
      <3>3. st[h] \in {"open", "closed"} /\ Accounted(h)
        BY <1>0, <2>2, <3>1 DEF Books, Quiet, Types
      <3>4. cursor[h] \in Nat /\ Len(batch[h]) \in Nat /\ Len(buffered[h]) \in Nat /\ Len(<<>>) = 0
        BY Lengths
      <3>5. Span(cursor'[h], 0) = <<>>
        BY <3>1, <3>4, SpanNone
      <3>6. Accounted(h)'
        BY <3>1, <3>3, <3>4, <3>5 DEF Accounted
      <3> QED
        BY <1>0, <2>2, <3>1, <3>3, <3>4, <3>6 DEF Books, Accounted
    <2> QED
      BY <2>1, <2>2
  <1>6. ASSUME NEW h \in Handles, WriteFails(h) PROVE Books(g)'
    <2>1. CASE g # h
      BY <1>0, <1>6, <2>1, SameBooks DEF WriteFails, RetainBatch, Types
    <2>2. CASE g = h
      <3>1. /\ batch'[h] = <<>> /\ buffered'[h] = batch[h] \o buffered[h] /\ drain'[h] = "ended"
            /\ drain[h] = "writing"
            /\ st' = st /\ cursor' = cursor /\ nextSeq' = nextSeq /\ flush' = flush
        BY <1>6 DEF WriteFails, RetainBatch, Types
      <3> DEFINE c == cursor[h]  n == Len(batch[h])  k == Len(buffered[h])
      <3>2. c \in Nat /\ n \in Nat /\ k \in Nat /\ Len(<<>>) = 0
        BY Lengths
      <3>3. st[h] \in {"open", "closed"} /\ Accounted(h)
        BY <1>0, <2>2, <3>1 DEF Books, Quiet, Types
      <3>4. buffered'[h] = Span(c + 0, n + k) /\ Len(buffered'[h]) = n + k
        <4>1. buffered'[h] = Span(c, n) \o Span(c + n, k)
          BY <3>1, <3>3 DEF Accounted
        <4>2. Moves(c, n, k)
          BY <3>2, SpanMoves
        <4> QED
          BY <4>1, <4>2 DEF Moves
      <3>5. batch'[h] = Span(c, 0) /\ Len(batch'[h]) = 0
        BY <3>1, <3>2, SpanNone
      <3>6. nextSeq'[h] = c + 0 + (n + k)
        <4>1. nextSeq'[h] = c + n + k
          BY <3>1, <3>3 DEF Accounted
        <4> HIDE DEF c, n, k
        <4> QED
          BY <3>2, <4>1
      <3>7. Accounted(h)'
        BY <3>1, <3>4, <3>5, <3>6 DEF Accounted
      <3> QED
        BY <1>0, <2>2, <3>1, <3>3, <3>7 DEF Books
    <2> QED
      BY <2>1, <2>2
  <1>7. ASSUME NEW h \in Handles, Looped(h) PROVE Books(g)'
    <2>1. CASE g # h
      BY <1>0, <1>7, <2>1, SameBooks DEF Looped, LoopHead, sharedVars, Types
    <2>2. CASE g = h
      BY <1>0, <1>7, <2>2 DEF Looped, LoopHead, sharedVars, Types, Books, Quiet, Accounted
    <2> QED
      BY <2>1, <2>2
  <1>8. ASSUME NEW h \in Handles, Settled(h) PROVE Books(g)'
    <2>1. flush'[g].upto = flush[g].upto
      BY <1>8, FlushKept
    <2>2. UNCHANGED <<st, nextSeq, cursor, buffered, batch>>
          /\ (drain'[g] = drain[g] \/ (drain[g] = "ended" /\ drain'[g] = "idle"))
      BY <1>8 DEF Settled, sharedVars, Types
    <2> QED
      BY <1>0, <2>1, <2>2 DEF Books, Quiet, Accounted
  <1>9. ASSUME NEW h \in Handles, Flush(h) PROVE Books(g)'
    <2>1. UNCHANGED <<st, nextSeq, cursor, buffered, batch>> /\ JoinOrStart(h)
      BY <1>9 DEF Flush
    <2>2. flush'[g].upto <= nextSeq[g]
      BY <1>0, <1>9 DEF Flush, Books, Types
    <2> QED
      BY <1>0, <2>1, <2>2, JoinBooks
  <1>10. ASSUME NEW h \in Handles, FlushReturns(h) PROVE Books(g)'
    <2>1. flush'[g].upto = flush[g].upto
      BY <1>10, FlushKept
    <2> QED
      BY <1>0, <1>10, <2>1, SameBooks DEF FlushReturns, drainVars
  <1>11. ASSUME NEW h \in Handles, Close(h) PROVE Books(g)'
    <2>1. UNCHANGED <<st, nextSeq, cursor, buffered, batch, flush>> /\ JoinOrStart(h)
      BY <1>11 DEF Close
    <2> QED
      BY <1>0, <2>1, JoinBooks DEF Books
  <1>12. ASSUME NEW h \in Handles, CloseChecks(h) PROVE Books(g)'
    <2>1. UNCHANGED <<st, nextSeq, cursor, buffered, batch, flush>> /\ (JoinOrStart(h) \/ UNCHANGED drain)
      BY <1>12 DEF CloseChecks
    <2>2. flush'[g].upto <= nextSeq[g]
      BY <1>0, <2>1 DEF Books
    <2> QED
      BY <1>0, <2>1, <2>2, JoinBooks, SameBooks
  <1>13. ASSUME NEW h \in Handles, CloseWaited(h) PROVE Books(g)'
    BY <1>0, <1>13, SameBooks DEF CloseWaited, drainVars
  <1>14. ASSUME NEW h \in Handles, Unlock(h) PROVE Books(g)'
    BY <1>0, <1>14, SameBooks DEF Unlock, drainVars
  <1>15. ASSUME NEW h \in Handles, Release(h) PROVE Books(g)'
    <2>1. /\ UNCHANGED <<nextSeq, cursor, buffered, batch, drain, flush>>
          /\ st'[g] = st[g] \/ (g = h /\ st'[g] = "closed" /\ close[g] = "unlocked")
      BY <1>15 DEF Release, drainVars, Types
    <2>2. st'[g] = "closed" /\ close[g] = "unlocked" => st[g] = "open" \/ st[g] = "closed"
      BY <1>0 DEF Role, Types
    <2> QED
      BY <1>0, <2>1, <2>2 DEF Books, Quiet, Accounted
  <1>16. CASE Crash
    <2>1. /\ st'[g] \in {"new", "dead"} /\ buffered'[g] = <<>> /\ batch'[g] = <<>> /\ drain'[g] = "idle"
          /\ UNCHANGED <<nextSeq, cursor>>
      BY <1>16 DEF Crash
    <2>2. flush'[g].upto = flush[g].upto
      BY <1>16 DEF Crash, Types
    <2> QED
      BY <1>0, <2>1, <2>2 DEF Books, Quiet
  <1>17. CASE UNCHANGED vars
    BY <1>0, <1>17, SameBooks DEF vars, sharedVars, drainVars
  <1> QED
    BY <1>1, <1>2, <1>3, <1>4, <1>5, <1>6, <1>7, <1>8, <1>9, <1>10, <1>11, <1>12, <1>13, <1>14,
       <1>15, <1>16, <1>17 DEF Next, Drain, Closing
-----------------------------------------------------------------------------
(* The file *)

\* The batch being written starts at the handle's cursor.
LEMMA BatchAtCursor ==
    ASSUME Types, Ledger, NEW h \in Handles, drain[h] = "writing"
    PROVE  Contiguous(h) /\ Accounted(h) /\ st[h] \in {"open", "closed"}
  <1>1. Books(h)
    BY DEF Ledger
  <1>2. st[h] \in {"open", "closed"} /\ Accounted(h) /\ batch[h] # <<>>
    BY <1>1 DEF Books, Quiet, Types
  <1>3. cursor[h] \in Nat /\ Len(batch[h]) \in Nat
    BY Lengths
  <1>4. batch[h] = Span(cursor[h], Len(batch[h]))
    BY <1>2 DEF Accounted
  <1> DEFINE c == cursor[h]  n == Len(batch[h])
  <1>5. n # 0
    BY <1>2, <1>3, <1>4, SpanNone
  <1>6. Head(Span(c, n)) = c
    <2> HIDE DEF c, n
    <2>1. c \in Nat /\ n \in Nat /\ n # 0
      BY <1>3, <1>5 DEF c, n
    <2> QED
      BY <2>1 DEF Span
  <1> QED
    BY <1>2, <1>4, <1>6 DEF Contiguous

\* A write that failed is not forgotten.
LEMMA FailuresGrow ==
    ASSUME Types, [Next]_vars
    PROVE  failures' = 0 => failures = 0
  <1>0. SUFFICES failures' = failures \/ failures' = failures + 1
    <2>1. failures \in 0..MaxFailures
      BY DEF Types
    <2>2. failures \in Nat
      BY <2>1, StorageAssumption
    <2> QED
      BY <1>0, <2>2
  <1> USE DEF sharedVars
  <1>1. ASSUME NEW h \in Handles, Drain(h) PROVE failures' = failures \/ failures' = failures + 1
    BY <1>1 DEF Drain, TimerFires, Splice, Written, WriteFails, Looped, Settled
  <1>2. ASSUME NEW h \in Handles, Closing(h) PROVE failures' = failures
    BY <1>2 DEF Closing, CloseChecks, CloseWaited, Unlock, Release
  <1>3. ASSUME NEW h \in Handles, Open(h) \/ Emit(h) \/ Flush(h) \/ FlushReturns(h) \/ Close(h)
        PROVE  failures' = failures
    BY <1>3 DEF Open, Emit, Flush, FlushReturns, Close
  <1>4. CASE Crash
    BY <1>4 DEF Crash
  <1>5. CASE UNCHANGED vars
    BY <1>5 DEF vars
  <1> QED
    BY <1>1, <1>2, <1>3, <1>4, <1>5 DEF Next

\* A write by the one writer continues the file where it ends.
LEMMA WritesAtTheEnd ==
    ASSUME Inv, OneWriter, NEW h \in Handles, drain[h] = "writing"
    PROVE  /\ UpToDate(h) /\ (st[h] = "open" \/ Opens = 1)
           /\ batch[h] = Span(Len(file), Len(batch[h]))
           /\ Len(file) + Len(batch[h]) <= nextSeq[h] /\ nextSeq[h] <= MaxSeq
  <1>1. Accounted(h) /\ st[h] \in {"open", "closed"} /\ Contents
    BY BatchAtCursor DEF Inv
  <1>2. st[h] = "open" \/ Opens = 1
    BY <1>1 DEF Inv, OneWriter, Orderly, Quiet
  <1>3. UpToDate(h) /\ nextSeq[h] <= MaxSeq
    BY <1>1, <1>2 DEF Contents
  <1>4. cursor[h] = Len(file) /\ batch[h] = Span(cursor[h], Len(batch[h]))
        /\ nextSeq[h] = cursor[h] + Len(batch[h]) + Len(buffered[h])
    BY <1>1, <1>3 DEF UpToDate, Accounted
  <1>5. Len(file) \in Nat /\ Len(batch[h]) \in Nat /\ Len(buffered[h]) \in Nat
    BY Lengths DEF Inv
  <1>6. batch[h] = Span(Len(file), Len(batch[h]))
    BY <1>4
  <1>7. Len(file) + Len(batch[h]) <= nextSeq[h]
    <2> DEFINE l == Len(file)  n == Len(batch[h])  k == Len(buffered[h])
    <2>1. nextSeq[h] = l + n + k /\ l \in Nat /\ n \in Nat /\ k \in Nat
      BY <1>4, <1>5
    <2> HIDE DEF l, n, k
    <2>2. l + n <= nextSeq[h]
      BY <2>1
    <2> QED
      BY <2>2 DEF l, n
  <1> QED
    BY <1>2, <1>3, <1>6, <1>7

\* Nothing the file's claim is about changes.
LEMMA SameContents ==
    ASSUME Contents, UNCHANGED <<file, torn, st, nextSeq, cursor, tornTail>>
    PROVE  Contents'
  BY DEF Contents, UpToDate

\* Every step keeps the file what its one writer has stored.
LEMMA ContentsStep ==
    ASSUME Inv, OneWriter, [Next]_vars
    PROVE  Contents'
  <1>0. Contents /\ Types /\ Ledger
    BY DEF Inv
  <1>f. Len(file) \in Nat
    BY <1>0 DEF Types
  <1>1. ASSUME NEW h \in Handles, Open(h) PROVE Contents'
    <2>1. ASSUME NEW g \in Handles
          PROVE  nextSeq'[g] <= MaxSeq /\ (st'[g] = "open" \/ (st'[g] = "closed" /\ Opens = 1) => UpToDate(g)')
      BY <1>0, <1>1 DEF Open, Contents, UpToDate, Types
    <2> QED
      BY <1>0, <1>1, <2>1 DEF Open, Contents
  <1>2. ASSUME NEW h \in Handles, Emit(h) PROVE Contents'
    <2>1. nextSeq[h] < MaxSeq /\ nextSeq' = [nextSeq EXCEPT ![h] = nextSeq[h] + 1] /\ nextSeq[h] \in Nat
      BY <1>0, <1>2 DEF Emit, Types
    <2>2. UNCHANGED <<file, torn, st, cursor, tornTail>>
      BY <1>2 DEF Emit, sharedVars
    <2>3. ASSUME NEW g \in Handles PROVE nextSeq'[g] <= MaxSeq
      BY <1>0, <2>1, StorageAssumption DEF Contents, Types
    <2> QED
      BY <1>0, <2>2, <2>3 DEF Contents, UpToDate
  <1>3. ASSUME NEW h \in Handles,
               TimerFires(h) \/ Splice(h) \/ Looped(h) \/ Settled(h) \/ Flush(h) \/ FlushReturns(h)
               \/ Close(h) \/ CloseChecks(h) \/ CloseWaited(h) \/ Unlock(h)
        PROVE  Contents'
    <2>1. UNCHANGED <<file, torn, st, nextSeq, cursor, tornTail>>
      BY <1>3 DEF TimerFires, Splice, Looped, Settled, Flush, FlushReturns, Close, CloseChecks,
                  CloseWaited, Unlock, sharedVars
    <2> QED
      BY <1>0, <2>1, SameContents
  <1>4. ASSUME NEW h \in Handles, Written(h) PROVE Contents'
    <2> DEFINE n == Len(batch[h])
    <2>1. /\ UpToDate(h) /\ (st[h] = "open" \/ Opens = 1) /\ batch[h] = Span(Len(file), n)
          /\ Len(file) + n <= nextSeq[h] /\ nextSeq[h] <= MaxSeq
      BY <1>4, WritesAtTheEnd DEF Written
    <2>2. /\ file' = file \o batch[h] /\ torn' = FALSE
          /\ cursor' = [cursor EXCEPT ![h] = cursor[h] + n] /\ UNCHANGED <<st, nextSeq>>
      BY <1>0, <1>4, <2>1 DEF Written, TruncateTorn, UpToDate, Types
    <2>3. n \in Nat /\ nextSeq[h] \in Nat
      BY <1>0, <1>4, Lengths
    <2>4. file' = Span(0, Len(file) + n) /\ Len(file') = Len(file) + n
      <3>1. file = Span(0, Len(file))
        BY <1>0 DEF Contents
      <3>2. Span(0, Len(file)) \o Span(0 + Len(file), n) = Span(0, Len(file) + n)
        BY <1>f, <2>3, SpanJoins
      <3>3. 0 + Len(file) = Len(file) /\ Len(file) + n \in Nat
        BY <1>f, <2>3
      <3>4. Len(Span(0, Len(file) + n)) = Len(file) + n
        BY <3>3, SpanLen
      <3>5. file' = Span(0, Len(file)) \o Span(Len(file), n)
        BY <2>1, <2>2, <3>1
      <3> QED
        BY <3>2, <3>3, <3>4, <3>5
    <2>5. Len(file') <= MaxSeq
      BY <1>f, <2>1, <2>3, <2>4, StorageAssumption
    <2>6. ASSUME NEW g \in Handles, st'[g] = "open" \/ (st'[g] = "closed" /\ Opens = 1)
          PROVE  UpToDate(g)'
      <3>1. g = h
        <4>1. CASE Opens = 1
          BY <4>1 DEF Handles
        <4>2. CASE Opens # 1
          BY <1>0, <1>4, <2>1, <2>2, <2>6, <4>2 DEF Ledger, Role
        <4> QED
          BY <4>1, <4>2
      <3>2. cursor'[g] = cursor[h] + n /\ cursor[h] = Len(file)
        BY <1>0, <1>4, <2>1, <2>2, <3>1 DEF UpToDate, Types
      <3> QED
        BY <2>2, <2>4, <3>2 DEF UpToDate
    <2> QED
      BY <1>0, <2>2, <2>4, <2>5, <2>6 DEF Contents
  <1>5. ASSUME NEW h \in Handles, WriteFails(h) PROVE Contents'
    <2>1. UNCHANGED <<file, st, nextSeq, cursor>>
      BY <1>5 DEF WriteFails
    <2>2. UNCHANGED <<torn, tornTail>> \/ torn' = FALSE
      BY <1>0, <1>5 DEF WriteFails, TruncateTorn, Types
    <2> QED
      BY <1>0, <2>1, <2>2 DEF Contents, UpToDate
  <1>6. ASSUME NEW h \in Handles, Release(h) PROVE Contents'
    <2>1. UNCHANGED <<file, torn, nextSeq, cursor, tornTail>>
      BY <1>6 DEF Release
    <2>2. st[h] = "open"
      BY <1>0, <1>6 DEF Release, Ledger, Role, Types
    <2>3. ASSUME NEW g \in Handles, st'[g] = "open" \/ (st'[g] = "closed" /\ Opens = 1)
          PROVE  UpToDate(g)
      BY <1>0, <1>6, <2>2, <2>3 DEF Release, Contents, Types
    <2> QED
      BY <1>0, <2>1, <2>3 DEF Contents, UpToDate
  <1>7. CASE Crash
    <2>1. /\ \A g \in Handles : st'[g] \in {"new", "dead"}
          /\ nextSeq' = nextSeq
      BY <1>7 DEF Crash
    <2>2. file' = Span(0, Len(file')) /\ Len(file') <= MaxSeq
      <3>1. CASE file' = file
        BY <1>0, <3>1 DEF Contents
      <3>2. ASSUME NEW h \in Handles, drain[h] = "writing", NEW k \in 0..Len(batch[h]),
                   file' = file \o SubSeq(batch[h], 1, k)
            PROVE  file' = Span(0, Len(file')) /\ Len(file') <= MaxSeq
        <4> DEFINE n == Len(batch[h])
        <4>1. batch[h] = Span(Len(file), n) /\ Len(file) + n <= nextSeq[h] /\ nextSeq[h] <= MaxSeq
          BY <3>2, WritesAtTheEnd
        <4>2. n \in Nat /\ nextSeq[h] \in Nat /\ k \in 0..n /\ k \in Nat /\ k <= n
          BY <1>0, <3>2, Lengths
        <4>3. SubSeq(batch[h], 1, k) = Span(Len(file), k)
          BY <1>f, <4>1, <4>2, SpanCut
        <4>4. file = Span(0, Len(file)) /\ 0 + Len(file) = Len(file) /\ Len(file) + k \in Nat
          BY <1>0, <1>f, <4>2 DEF Contents
        <4>5. Span(0, Len(file)) \o Span(0 + Len(file), k) = Span(0, Len(file) + k)
          BY <1>f, <4>2, SpanJoins
        <4>6. Len(Span(0, Len(file) + k)) = Len(file) + k
          BY <4>4, SpanLen
        <4>7. file' = Span(0, Len(file) + k)
          BY <3>2, <4>3, <4>4, <4>5
        <4>8. Len(file) + k <= MaxSeq
          BY <1>f, <4>1, <4>2, StorageAssumption
        <4> QED
          BY <4>6, <4>7, <4>8
      <3> QED
        BY <1>7, <3>1, <3>2 DEF Crash
    <2> QED
      BY <1>0, <2>1, <2>2 DEF Contents
  <1>8. CASE UNCHANGED vars
    BY <1>0, <1>8, SameContents DEF vars, sharedVars
  <1> QED
    BY <1>1, <1>2, <1>3, <1>4, <1>5, <1>6, <1>7, <1>8 DEF Next, Drain, Closing
-----------------------------------------------------------------------------
(* An orderly close *)

\* Joining or starting a drain keeps a close on its way.
LEMMA JoinOrderly ==
    ASSUME Types, NEW g \in Handles, NEW h \in Handles, JoinOrStart(h), Orderly(g),
           UNCHANGED <<file, lock, st, nextSeq, buffered, batch>>,
           close'[g] = close[g]
    PROVE  Orderly(g)'
  BY Joined DEF Orderly, Quiet, LastLook

\* So does a step that leaves the handle alone.
LEMMA SameOrderly ==
    ASSUME NEW g \in Handles, Orderly(g), UNCHANGED <<file, lock>>,
           drainFailed'[g] = drainFailed[g], close'[g] = close[g], buffered'[g] = buffered[g],
           batch'[g] = batch[g], drain'[g] = drain[g], st'[g] = st[g], nextSeq'[g] = nextSeq[g]
    PROVE  Orderly(g)'
  BY DEF Orderly, Quiet, LastLook

\* So does every step, as long as no write failed and no call is late.
LEMMA OrderlyStep ==
    ASSUME Inv, [Next]_vars, failures' = 0, ~LateCalls, NEW g \in Handles
    PROVE  Orderly(g)'
  <1>0. Types /\ Ledger /\ Contents /\ failures = 0 /\ OneWriter
    BY FailuresGrow DEF Inv, OneWriter
  <1>o. Orderly(g) /\ Role(g) /\ Books(g)
    BY <1>0 DEF Inv, Ledger
  <1>n. NoHandle \notin Handles
    BY DEF NoHandle, Handles
  <1>1. ASSUME NEW h \in Handles, Open(h) PROVE Orderly(g)'
    <2>1. CASE g # h
      <3>1. /\ UNCHANGED <<file, drainFailed, close, buffered, batch, drain>> /\ st'[g] = st[g]
            /\ nextSeq'[g] = nextSeq[g] /\ lock = NoHandle /\ lock' = h
        BY <1>0, <1>1, <2>1 DEF Open, drainVars, Types
      <3> QED
        BY <1>o, <1>n, <2>1, <3>1 DEF Orderly, Quiet, LastLook
    <2>2. CASE g = h
      <3>1. /\ UNCHANGED <<file, drainFailed, close, buffered, batch, drain>> /\ st'[g] = "open"
            /\ st[g] = "new" /\ lock' = g
        BY <1>0, <1>1, <2>2 DEF Open, drainVars, Types
      <3> QED
        BY <1>o, <3>1 DEF Orderly, Quiet, LastLook, Role
    <2> QED
      BY <2>1, <2>2
  <1>2. ASSUME NEW h \in Handles, Emit(h) PROVE Orderly(g)'
    <2>1. CASE g # h
      BY <1>0, <1>o, <1>2, <2>1, SameOrderly DEF Emit, sharedVars, Types
    <2>2. CASE g = h
      <3>1. /\ UNCHANGED <<file, lock, drainFailed, close, batch, drain, st>> /\ writer = g /\ ~LastLook(g)
        BY <1>2, <2>2 DEF Emit, Called, sharedVars
      <3> QED
        BY <1>o, <3>1 DEF Orderly, LastLook, Role
    <2> QED
      BY <2>1, <2>2
  <1>3. ASSUME NEW h \in Handles, TimerFires(h) PROVE Orderly(g)'
    <2>1. UNCHANGED <<file, lock, st, nextSeq, buffered, batch, close>>
      BY <1>3 DEF TimerFires, sharedVars
    <2>2. JoinOrStart(h) \/ UNCHANGED <<drain, drainFailed>>
      BY <1>3 DEF TimerFires
    <2> QED
      BY <1>0, <1>o, <2>1, <2>2, JoinOrderly, SameOrderly
  <1>4. ASSUME NEW h \in Handles, Splice(h) PROVE Orderly(g)'
    <2>1. CASE g # h
      BY <1>0, <1>o, <1>4, <2>1, SameOrderly DEF Splice, sharedVars, Types
    <2>2. CASE g = h
      <3>1. /\ UNCHANGED <<file, lock, drainFailed, close, st, nextSeq>> /\ drain[g] = "queued"
            /\ buffered'[g] = <<>>
        BY <1>0, <1>4, <2>2 DEF Splice, sharedVars, Types
      <3> QED
        BY <1>o, <3>1 DEF Orderly, Quiet, LastLook
    <2> QED
      BY <2>1, <2>2
  <1>5. ASSUME NEW h \in Handles, Written(h) PROVE Orderly(g)'
    <2>1. /\ UNCHANGED <<lock, drainFailed, close, st, nextSeq, buffered>>
          /\ batch'[g] = batch[g] \/ batch'[g] = <<>>
          /\ drain'[g] = drain[g] \/ drain'[g] = "loop"
          /\ file' = file \o batch[h]
      BY <1>0, <1>5 DEF Written, Types
    <2>2. Len(file') >= Len(file) /\ Len(file) \in Nat /\ Len(file') \in Nat /\ nextSeq[g] \in Nat
      <3>1. file \in Seq(Nat) /\ batch[h] \in Seq(Nat) /\ nextSeq[g] \in Nat
        BY <1>0 DEF Types
      <3>2. Len(file') = Len(file) + Len(batch[h]) /\ Len(file) \in Nat /\ Len(batch[h]) \in Nat
        BY <2>1, <3>1, ConcatProperties
      <3> QED
        BY <3>1, <3>2
    <2>3. nextSeq[g] <= Len(file) => nextSeq[g] <= Len(file')
      BY <2>2
    <2> QED
      BY <1>o, <2>1, <2>3 DEF Orderly, Quiet, LastLook
  <1>6. ASSUME NEW h \in Handles, WriteFails(h) PROVE Orderly(g)'
    <2>1. Contiguous(h)
      BY <1>0, <1>6, BatchAtCursor DEF WriteFails
    <2>2. failures' = failures + 1
      BY <1>6, <2>1 DEF WriteFails
    <2> QED
      BY <1>0, <2>2
  <1>7. ASSUME NEW h \in Handles, Looped(h) PROVE Orderly(g)'
    <2>1. UNCHANGED <<file, lock, st, nextSeq, buffered, batch, close, drainFailed>>
      BY <1>7 DEF Looped, sharedVars
    <2>2. drain'[g] = drain[g] \/ drain'[g] = (IF buffered[g] # <<>> THEN "queued" ELSE "ended")
      BY <1>0, <1>7 DEF Looped, LoopHead, Types
    <2> QED
      BY <1>o, <2>1, <2>2 DEF Orderly, Quiet, LastLook
  <1>8. ASSUME NEW h \in Handles, Settled(h) PROVE Orderly(g)'
    <2>1. /\ UNCHANGED <<file, lock, st, nextSeq, buffered, batch, drainFailed>>
          /\ drain'[g] = drain[g] \/ drain'[g] = "idle"
      BY <1>0, <1>8 DEF Settled, sharedVars, Types
    <2>2. close'[g] = close[g] \/ (close'[g] = "check" /\ close[g] = "draining")
      BY <1>0, <1>o, <1>8 DEF Settled, Types, Orderly
    <2> QED
      BY <1>o, <2>1, <2>2 DEF Orderly, Quiet, LastLook
  <1>9. ASSUME NEW h \in Handles, Flush(h) PROVE Orderly(g)'
    BY <1>0, <1>o, <1>9, JoinOrderly DEF Flush, sharedVars
  <1>10. ASSUME NEW h \in Handles, FlushReturns(h) PROVE Orderly(g)'
    BY <1>o, <1>10, SameOrderly DEF FlushReturns, sharedVars, drainVars
  <1>11. ASSUME NEW h \in Handles, Close(h) PROVE Orderly(g)'
    <2>1. UNCHANGED <<file, lock, st, nextSeq, buffered, batch>> /\ JoinOrStart(h)
      BY <1>11 DEF Close, sharedVars
    <2>2. close'[g] = close[g] \/ (close[g] = "none" /\ close'[g] = "draining")
      BY <1>0, <1>11 DEF Close, Types
    <2> QED
      BY <1>0, <1>o, <2>1, <2>2, Joined DEF Orderly, Quiet, LastLook
  <1>12. ASSUME NEW h \in Handles, CloseChecks(h) PROVE Orderly(g)'
    <2>1. UNCHANGED <<file, lock, st, nextSeq, buffered, batch>>
      BY <1>12 DEF CloseChecks, sharedVars
    <2>2. CASE buffered[h] # <<>>
      <3>1. JoinOrStart(h) /\ (close'[g] = close[g] \/ (close[g] = "check" /\ close'[g] = "draining"))
        BY <1>0, <1>12, <2>2 DEF CloseChecks, Types
      <3> QED
        BY <1>0, <1>o, <2>1, <3>1, Joined DEF Orderly, Quiet, LastLook
    <2>3. CASE buffered[h] = <<>>
      <3>1. /\ UNCHANGED <<drain, drainFailed>>
            /\ close'[g] = close[g] \/ (g = h /\ close[g] = "check" /\ close'[g] = "waiting")
        BY <1>0, <1>12, <2>3 DEF CloseChecks, Types
      <3> QED
        BY <1>o, <2>1, <2>3, <3>1 DEF Orderly, Quiet, LastLook
    <2> QED
      BY <2>2, <2>3
  <1>13. ASSUME NEW h \in Handles, CloseWaited(h) PROVE Orderly(g)'
    <2>1. UNCHANGED <<file, lock, st, nextSeq, buffered, batch, drain, drainFailed>>
      BY <1>13 DEF CloseWaited, sharedVars, drainVars
    <2>2. \/ close'[g] = close[g]
          \/ close[g] = "waiting" /\ close'[g] = "releasing" /\ drain[g] \notin {"queued", "writing"}
      BY <1>0, <1>13 DEF CloseWaited, Types
    <2> QED
      BY <1>o, <2>1, <2>2 DEF Orderly, Quiet, LastLook, Books
  <1>14. ASSUME NEW h \in Handles, Unlock(h) PROVE Orderly(g)'
    <2>1. UNCHANGED <<file, st, nextSeq, buffered, batch, drain, drainFailed>> /\ lock' = NoHandle
      BY <1>14 DEF Unlock, drainVars
    <2>2. close[h] = "releasing" /\ close' = [close EXCEPT ![h] = "unlocked"]
      BY <1>14 DEF Unlock
    <2>3. CASE g = h
      BY <1>0, <1>o, <1>n, <2>1, <2>2, <2>3 DEF Orderly, Quiet, LastLook, Types
    <2>4. CASE g # h
      <3>1. Orderly(h) /\ Role(h)
        BY <1>0 DEF Inv, Ledger
      <3>2. st[h] = "open" /\ lock = h
        BY <1>0, <2>2, <3>1 DEF Orderly, Role, Types
      <3> QED
        BY <1>0, <1>o, <1>n, <2>1, <2>2, <2>4, <3>2 DEF Orderly, Quiet, LastLook, Types
    <2> QED
      BY <2>3, <2>4
  <1>15. ASSUME NEW h \in Handles, Release(h) PROVE Orderly(g)'
    <2>1. UNCHANGED <<file, lock, nextSeq, buffered, batch, drain, drainFailed>>
      BY <1>15 DEF Release, drainVars
    <2>2. CASE g # h
      <3>1. close'[g] = close[g] /\ st'[g] = st[g]
        BY <1>0, <1>15, <2>2 DEF Release, Types
      <3> QED
        BY <1>o, <2>1, <3>1, SameOrderly
    <2>3. CASE g = h
      <3>1. close[g] = "unlocked" /\ close'[g] = "done" /\ st'[g] = "closed"
        BY <1>0, <1>15, <2>3 DEF Release, Types
      <3>2. st[g] = "open" /\ Quiet(g) /\ lock # g
        BY <1>0, <1>o, <3>1 DEF Orderly, Role, Types
      <3>3. cursor[g] = Len(file) /\ Accounted(g)
        BY <1>0, <1>o, <3>2 DEF Contents, UpToDate, Books
      <3>4. nextSeq[g] = Len(file) + 0 + 0 /\ Len(file) \in Nat
        BY <1>0, <3>2, <3>3, Lengths DEF Accounted, Quiet
      <3>5. nextSeq[g] <= Len(file)
        BY <3>4
      <3> QED
        BY <1>o, <2>1, <3>1, <3>2, <3>5 DEF Orderly, Quiet, LastLook
    <2> QED
      BY <2>2, <2>3
  <1>16. CASE Crash
    <2>1. /\ lock' = NoHandle /\ st'[g] \in {"new", "dead"} /\ buffered'[g] = <<>> /\ batch'[g] = <<>>
          /\ drain'[g] = "idle" /\ close'[g] \in {"none", "done"} /\ UNCHANGED drainFailed
      BY <1>16 DEF Crash
    <2> QED
      BY <1>o, <1>n, <2>1 DEF Orderly, Quiet, LastLook
  <1>17. CASE UNCHANGED vars
    BY <1>o, <1>17, SameOrderly DEF vars, sharedVars, drainVars
  <1> QED
    BY <1>1, <1>2, <1>3, <1>4, <1>5, <1>6, <1>7, <1>8, <1>9, <1>10, <1>11, <1>12, <1>13, <1>14,
       <1>15, <1>16, <1>17 DEF Next, Drain, Closing
-----------------------------------------------------------------------------
(* The invariant, and what follows from it *)

\* The initial state has no file and no handle.
LEMMA InitInv == Init => Inv
  <1> SUFFICES ASSUME Init PROVE Inv
    OBVIOUS
  <1>1. Types
    BY InitTypes
  <1>2. \A h \in Handles : Role(h) /\ Quiet(h) /\ st[h] = "new"
    BY DEF Init, Role, Quiet, NoFlush, NoHandle, Handles
  <1>3. \A h \in Handles : nextSeq[h] = 0 /\ cursor[h] = 0 /\ flush[h].upto = 0 /\ ~drainFailed[h]
                           /\ close[h] = "none" /\ lock # h
    BY DEF Init, NoFlush, NoHandle, Handles
  <1>4. Ledger
    BY <1>2, <1>3 DEF Ledger, Books, Quiet
  <1>5. Contents
    <2>1. file = <<>> /\ Len(<<>>) = 0 /\ Span(0, 0) = <<>> /\ 0 <= MaxSeq
      BY StorageAssumption, SpanNone DEF Init
    <2> QED
      BY <1>2, <1>3, <2>1 DEF Contents
  <1>6. \A h \in Handles : Orderly(h)
    BY <1>2, <1>3 DEF Orderly, Quiet, LastLook
  <1>7. stray \in Marks
    BY DEF Init, Marks
  <1> QED
    BY <1>1, <1>4, <1>5, <1>6, <1>7 DEF Inv

\* Every step keeps the invariant.
LEMMA InvStep == Inv /\ [Next]_vars => Inv'
  <1> SUFFICES ASSUME Inv, [Next]_vars PROVE Inv'
    OBVIOUS
  <1>1. Types'
    BY TypesStep DEF Inv
  <1>2. Ledger'
    BY RoleStep, BooksStep DEF Inv, Ledger, Handles
  <1>3. OneWriter' => Contents'
    <2>1. OneWriter' => OneWriter
      BY FailuresGrow DEF Inv, OneWriter
    <2> QED
      BY <2>1, ContentsStep
  <1>4. (failures = 0 /\ ~LateCalls => \A h \in Handles : Orderly(h))'
    BY OrderlyStep DEF Handles
  <1>5. (stray \in Marks)'
    BY MarksStep DEF Inv
  <1> QED
    BY <1>1, <1>2, <1>3, <1>4, <1>5 DEF Inv

\* The inductive invariant holds throughout.
LEMMA Invariance == Spec => []Inv
  BY InitInv, InvStep, PTL DEF Spec

\* A span that stays below the bound has the type TypeOK asks for.
LEMMA BoundedSpan ==
    ASSUME NEW i \in Nat, NEW n \in Nat, i + n <= MaxSeq
    PROVE  Span(i, n) \in Seq(0..MaxSeq)
  BY SpanIsSeq, StorageAssumption

\* With one writer the file stays within the bound of the types.
LEMMA TypesBounded ==
    ASSUME Inv, OneWriter
    PROVE  TypeOK
  <1>0. Types /\ Ledger /\ Contents
    BY DEF Inv
  <1>1. file \in Seq(0..MaxSeq)
    <2>1. Len(file) \in Nat /\ file = Span(0, Len(file)) /\ Len(file) <= MaxSeq
      BY <1>0 DEF Types, Contents
    <2>2. 0 + Len(file) <= MaxSeq
      BY <2>1
    <2> QED
      BY <2>1, <2>2, BoundedSpan
  <1>2. ASSUME NEW h \in Handles
        PROVE  /\ nextSeq[h] \in 0..MaxSeq /\ cursor[h] \in 0..MaxSeq /\ flush[h].upto \in 0..MaxSeq
               /\ buffered[h] \in Seq(0..MaxSeq) /\ batch[h] \in Seq(0..MaxSeq)
    <2>1. /\ cursor[h] \in Nat /\ nextSeq[h] \in Nat /\ flush[h].upto \in Nat
          /\ Len(batch[h]) \in Nat /\ Len(buffered[h]) \in Nat
      BY <1>0, Lengths
    <2>2. Books(h) /\ nextSeq[h] <= MaxSeq
      BY <1>0 DEF Ledger, Contents
    <2>3. nextSeq[h] \in 0..MaxSeq /\ cursor[h] \in 0..MaxSeq /\ flush[h].upto \in 0..MaxSeq
      BY <2>1, <2>2, StorageAssumption DEF Books
    <2>4. CASE st[h] \in {"new", "dead"}
      <3>1. buffered[h] = <<>> /\ batch[h] = <<>> /\ <<>> \in Seq(0..MaxSeq)
        BY <2>2, <2>4 DEF Books, Quiet
      <3> QED
        BY <2>3, <3>1
    <2>5. CASE st[h] \in {"open", "closed"}
      <3> DEFINE c == cursor[h]  n == Len(batch[h])  k == Len(buffered[h])
      <3>1. batch[h] = Span(c, n) /\ buffered[h] = Span(c + n, k) /\ nextSeq[h] = c + n + k
        BY <2>2, <2>5 DEF Books, Accounted
      <3>2. c \in Nat /\ n \in Nat /\ k \in Nat /\ nextSeq[h] <= MaxSeq
        BY <2>1, <2>2
      <3> HIDE DEF c, n, k
      <3>3. c + n \in Nat /\ c + n <= MaxSeq /\ c + n + k <= MaxSeq
        BY <3>1, <3>2, StorageAssumption
      <3>4. Span(c, n) \in Seq(0..MaxSeq) /\ Span(c + n, k) \in Seq(0..MaxSeq)
        BY <3>2, <3>3, BoundedSpan
      <3> QED
        BY <2>3, <3>1, <3>4
    <2>6. st[h] \in {"new", "open", "closed", "dead"}
      BY <1>0 DEF Types
    <2> QED
      BY <2>4, <2>5, <2>6
  <1>3. nextSeq \in [Handles -> 0..MaxSeq] /\ cursor \in [Handles -> 0..MaxSeq]
    BY <1>0, <1>2 DEF Types
  <1>4. buffered \in [Handles -> Seq(0..MaxSeq)] /\ batch \in [Handles -> Seq(0..MaxSeq)]
    BY <1>0, <1>2 DEF Types
  <1>5. flush \in [Handles -> [at : {"none", "draining", "drained", "done", "failed"},
                               upto : 0..MaxSeq, gap : BOOLEAN]]
    BY <1>0, <1>2 DEF Types
  <1>6. stray \in [Handles -> {"none", "retained", "late"}]
    BY DEF Inv, Marks
  <1> QED
    BY <1>0, <1>1, <1>3, <1>4, <1>5, <1>6 DEF Types, TypeOK

\* The batch a drain hands to the file always continues the handle's stored
\* log: assertContiguous of persistContiguous never refuses it, over any opens,
\* failed writes, crashes and late calls.
THEOREM BatchContinuesLog == Spec => [](\A h \in Handles : drain[h] = "writing" => Contiguous(h))
  <1>1. Inv => \A h \in Handles : drain[h] = "writing" => Contiguous(h)
    BY BatchAtCursor DEF Inv
  <1> QED
    BY <1>1, Invariance, PTL

\* The artifact holds each seq once and in order: for any number of opens and
\* crashes when no write fails and nobody emits behind a close, and for one
\* handle over any failed writes, retries and late calls.
THEOREM FileContiguous ==
    ASSUME Opens = 1 \/ (MaxFailures = 0 /\ ~LateCalls)
    PROVE  Spec => []ContiguousFile
  <1>1. Inv => ContiguousFile
    <2> SUFFICES ASSUME Inv PROVE ContiguousFile
      OBVIOUS
    <2>1. OneWriter
      BY DEF OneWriter, Inv, Types
    <2>2. file = Span(0, Len(file)) /\ Len(file) \in Nat
      BY <2>1 DEF Inv, Contents, Types
    <2>3. Seqs(Len(file)) = Span(0, Len(file))
      BY <2>2, SeqsIsSpan
    <2> QED
      BY <2>1, <2>2, <2>3, TypesBounded DEF ContiguousFile
  <1> QED
    BY <1>1, Invariance, PTL

\* Under the same conditions the file, the batch being written and the buffer
\* of the open handle are its session's log, in that order.
THEOREM EveryEventKept ==
    ASSUME Opens = 1 \/ (MaxFailures = 0 /\ ~LateCalls)
    PROVE  Spec => []NothingDropped
  <1>1. Inv => NothingDropped
    <2> SUFFICES ASSUME Inv, NEW h \in Handles, st[h] = "open"
                 PROVE  file \o batch[h] \o buffered[h] = Seqs(nextSeq[h])
      BY DEF NothingDropped
    <2>1. OneWriter
      BY DEF OneWriter, Inv, Types
    <2> DEFINE l == Len(file)  n == Len(batch[h])  k == Len(buffered[h])
    <2>2. l \in Nat /\ n \in Nat /\ k \in Nat
      BY Lengths DEF Inv
    <2>3. file = Span(0, l) /\ cursor[h] = l
      BY <2>1 DEF Inv, Contents, UpToDate
    <2>4. batch[h] = Span(l, n) /\ buffered[h] = Span(l + n, k) /\ nextSeq[h] = l + n + k
      BY <2>3 DEF Inv, Ledger, Books, Accounted
    <2> HIDE DEF l, n, k
    <2>5. 0 + l = l /\ l + n \in Nat /\ 0 + (l + n) = l + n /\ (l + n) + k \in Nat
      BY <2>2
    <2>6. Span(0, l) \o Span(0 + l, n) = Span(0, l + n)
      BY <2>2, SpanJoins
    <2>7. Span(0, l + n) \o Span(0 + (l + n), k) = Span(0, (l + n) + k)
      BY <2>2, <2>5, SpanJoins
    <2>8. Seqs((l + n) + k) = Span(0, (l + n) + k)
      BY <2>5, SeqsIsSpan
    <2> QED
      BY <2>3, <2>4, <2>5, <2>6, <2>7, <2>8
  <1> QED
    BY <1>1, Invariance, PTL

\* A handle that closed before any write failed stored its whole session, when
\* nobody emits behind the close's last look at the buffer.
THEOREM ClosedIsStored ==
    ASSUME ~LateCalls
    PROVE  Spec => []CloseLosesNothing
  <1>1. Inv => CloseLosesNothing
    BY DEF Inv, Orderly, CloseLosesNothing
  <1> QED
    BY <1>1, Invariance, PTL

\* Nothing is appended behind a torn tail: the handle that writes found it at
\* its open and truncates it first.
THEOREM TornTailCutFirst ==
    ASSUME Opens = 1 \/ (MaxFailures = 0 /\ ~LateCalls)
    PROVE  Spec => TornTailNeverBuried
  <1>1. Inv /\ [Next]_vars => [file' # file /\ crashes' = crashes => ~torn']_vars
    <2> SUFFICES ASSUME Inv, Next, file' # file, crashes' = crashes PROVE ~torn'
      BY DEF vars, sharedVars
    <2>1. OneWriter /\ Types
      BY DEF OneWriter, Inv, Types
    <2>2. ~Crash
      <3>1. crashes \in 0..MaxCrashes
        BY <2>1 DEF Types
      <3>2. crashes \in Nat
        BY <3>1, StorageAssumption
      <3>3. Crash => crashes' = crashes + 1
        BY DEF Crash
      <3>4. crashes + 1 # crashes
        BY <3>2
      <3> QED
        BY <3>3, <3>4
    <2>3. PICK h \in Handles : Written(h)
      BY <2>2 DEF Next, Drain, Closing, Open, Emit, TimerFires, Splice, WriteFails, Looped, Settled,
                  Flush, FlushReturns, Close, CloseChecks, CloseWaited, Unlock, Release, sharedVars
    <2>4. UpToDate(h)
      BY <2>1, <2>3, WritesAtTheEnd DEF Written
    <2> QED
      BY <2>1, <2>3, <2>4 DEF Written, TruncateTorn, UpToDate, Types
  <1> QED
    BY <1>1, Invariance, PTL DEF Spec, TornTailNeverBuried
-----------------------------------------------------------------------------
(* The flush barrier *)

\* A flush that was called outside the gap waits for a drain that will look at
\* the buffer again, or has written what it waits for; the file never falls
\* behind what a handle has written.
Barrier(h) ==
    /\ cursor[h] <= Len(file)
    /\ flush[h].at \in {"draining", "drained"} => st[h] \in {"open", "closed"}
    /\ flush[h].at = "draining" /\ ~flush[h].gap => drain[h] # "idle"
    /\ flush[h].at = "draining" /\ ~flush[h].gap /\ drain[h] = "ended" /\ ~drainFailed[h]
         => flush[h].upto <= cursor[h]
    /\ flush[h].at \in {"drained", "done"} /\ ~flush[h].gap => flush[h].upto <= cursor[h]

\* Settling a drain, or returning, moves a flush on and changes nothing else of it.
LEMMA FlushMoves ==
    ASSUME Types, NEW h \in Handles, Settled(h) \/ FlushReturns(h), NEW g \in Handles
    PROVE  /\ flush'[g].upto = flush[g].upto /\ flush'[g].gap = flush[g].gap
           /\ g # h => flush'[g] = flush[g]
           /\ Settled(h) => flush'[h].at = IF flush[h].at # "draining" THEN flush[h].at
                                           ELSE IF drainFailed[h] THEN "failed" ELSE "drained"
           /\ FlushReturns(h) => flush[h].at = "drained" /\ flush'[h].at \in {"done", "failed"}
  <1>1. CASE Settled(h)
    <2>1. PICK a : /\ flush' = [flush EXCEPT ![h].at = a]
                   /\ a = IF flush[h].at # "draining" THEN flush[h].at
                          ELSE IF drainFailed[h] THEN "failed" ELSE "drained"
      BY <1>1 DEF Settled
    <2>2. ~FlushReturns(h) \/ a \in {"done", "failed"}
      BY <1>1, <2>1 DEF Settled, FlushReturns, drainVars, Types
    <2> QED
      BY <1>1, <2>1, <2>2 DEF Types, Settled, FlushReturns, drainVars
  <1>2. CASE FlushReturns(h) /\ ~Settled(h)
    <2>1. PICK a \in {"done", "failed"} : flush' = [flush EXCEPT ![h].at = a]
      BY <1>2 DEF FlushReturns
    <2> QED
      BY <1>2, <2>1 DEF Types, FlushReturns
  <1> QED
    BY <1>1, <1>2

\* When a drain ends without a failure the handle has written all it knows of.
LEMMA DrainedAll ==
    ASSUME Types, NEW h \in Handles, Books(h), st[h] \in {"open", "closed"},
           buffered[h] = <<>>, drain[h] # "writing"
    PROVE  nextSeq[h] = cursor[h] /\ flush[h].upto <= cursor[h]
  <1>1. batch[h] = <<>> /\ Accounted(h) /\ flush[h].upto <= nextSeq[h]
    BY DEF Books
  <1>2. nextSeq[h] = cursor[h] + 0 + 0 /\ cursor[h] \in Nat
    BY <1>1, Lengths DEF Accounted
  <1> QED
    BY <1>1, <1>2

\* Nothing of a handle's barrier changes, but the file may grow.
LEMMA SameBarrier ==
    ASSUME NEW g \in Handles, Barrier(g), cursor'[g] = cursor[g], cursor[g] <= Len(file'),
           flush'[g] = flush[g], st'[g] = st[g], drain'[g] = drain[g],
           drainFailed'[g] = drainFailed[g]
    PROVE  Barrier(g)'
  BY DEF Barrier

\* A call that joins the drain, or starts one for what is buffered, leaves the
\* waiting flush a drain that answers for it.
LEMMA JoinBarrier ==
    ASSUME Types, NEW g \in Handles, NEW h \in Handles, JoinOrStart(h), Barrier(g),
           UNCHANGED <<cursor, flush, st, file>>
    PROVE  Barrier(g)'
  <1>1. CASE drain[h] # "idle"
    BY <1>1 DEF JoinOrStart, Barrier
  <1>2. CASE drain[h] = "idle"
    BY <1>2, Joined DEF Barrier
  <1> QED
    BY <1>1, <1>2

\* The file only grows.
LEMMA FileGrows ==
    ASSUME Types, [Next]_vars, NEW n \in Nat, n <= Len(file)
    PROVE  n <= Len(file')
  <1> USE DEF sharedVars
  <1>0. file \in Seq(Nat) /\ Len(file) \in Nat
    BY DEF Types
  <1>1. ASSUME NEW s \in Seq(Nat), file' = file \o s PROVE n <= Len(file')
    <2>1. Len(file') = Len(file) + Len(s) /\ Len(s) \in Nat
      BY <1>0, <1>1, ConcatProperties
    <2> QED
      BY <1>0, <2>1
  <1>2. ASSUME UNCHANGED file PROVE n <= Len(file')
    BY <1>2
  <1>3. ASSUME NEW h \in Handles, Written(h) PROVE n <= Len(file')
    BY <1>1, <1>3 DEF Written, Types
  <1>4. CASE Crash
    <2>1. CASE UNCHANGED file
      BY <1>2, <2>1
    <2>2. CASE \E h \in Handles : \E k \in 0..Len(batch[h]) : file' = file \o SubSeq(batch[h], 1, k)
      <3>0. PICK h \in Handles : \E k \in 0..Len(batch[h]) : file' = file \o SubSeq(batch[h], 1, k)
        BY <2>2
      <3>1. PICK k \in 0..Len(batch[h]) : file' = file \o SubSeq(batch[h], 1, k)
        BY <3>0
      <3>2. k \in Int /\ 1 \in Int /\ \A i \in 1..k : batch[h][i] \in Nat
        <4>1. batch[h] \in Seq(Nat)
          BY DEF Types
        <4>2. Len(batch[h]) \in Nat /\ \A i \in 1..Len(batch[h]) : batch[h][i] \in Nat
          BY <4>1
        <4> QED
          BY <4>2
      <3>3. SubSeq(batch[h], 1, k) \in Seq(Nat)
        BY <3>2, SubSeqProperties
      <3> QED
        BY <1>1, <3>1, <3>3
    <2> QED
      BY <1>4, <2>1, <2>2 DEF Crash
  <1>5. ASSUME NEW h \in Handles,
               \/ Open(h) \/ Emit(h) \/ TimerFires(h) \/ Splice(h) \/ WriteFails(h) \/ Looped(h)
               \/ Settled(h) \/ Flush(h) \/ FlushReturns(h) \/ Close(h) \/ Closing(h)
        PROVE  UNCHANGED file
    BY <1>5 DEF Open, Emit, TimerFires, Splice, WriteFails, Looped, Settled, Flush, FlushReturns,
                Close, Closing, CloseChecks, CloseWaited, Unlock, Release
  <1>6. CASE UNCHANGED vars
    BY <1>2, <1>6 DEF vars
  <1> QED
    BY <1>2, <1>3, <1>4, <1>5, <1>6 DEF Next, Drain

\* Every step keeps a flush outside the gap with a drain that serves it.
LEMMA BarrierStep ==
    ASSUME Types, Ledger, [Next]_vars, NEW g \in Handles, Barrier(g)
    PROVE  Barrier(g)'
  <1>0. Role(g) /\ Books(g)
    BY DEF Ledger
  <1>f. cursor[g] \in Nat /\ cursor[g] <= Len(file')
    BY Lengths, FileGrows DEF Barrier
  <1>1. ASSUME NEW h \in Handles, Open(h) PROVE Barrier(g)'
    <2>1. CASE g # h
      BY <1>f, <1>1, <2>1, SameBarrier DEF Open, drainVars, Types
    <2>2. CASE g = h
      <3>1. /\ st[g] = "new" /\ cursor'[g] = Len(file) /\ file' = file /\ Len(file) \in Nat
            /\ UNCHANGED <<flush, drain>>
        BY <1>1, <2>2 DEF Open, drainVars, Types
      <3>2. flush[g].upto = 0 /\ flush[g].at \notin {"draining", "drained"}
        BY <1>0, <3>1 DEF Role, Barrier
      <3> QED
        BY <3>1, <3>2 DEF Barrier
    <2> QED
      BY <2>1, <2>2
  <1>2. ASSUME NEW h \in Handles, Emit(h) \/ Unlock(h) \/ CloseWaited(h) PROVE Barrier(g)'
    BY <1>f, <1>2, SameBarrier DEF Emit, Unlock, CloseWaited, sharedVars, drainVars
  <1>3. ASSUME NEW h \in Handles, TimerFires(h) \/ Close(h) \/ CloseChecks(h) PROVE Barrier(g)'
    <2>1. UNCHANGED <<cursor, flush, st, file>>
      BY <1>3 DEF TimerFires, Close, CloseChecks, sharedVars
    <2>2. JoinOrStart(h) \/ UNCHANGED <<drain, drainFailed>>
      BY <1>3 DEF TimerFires, Close, CloseChecks
    <2> QED
      BY <1>f, <2>1, <2>2, JoinBarrier, SameBarrier
  <1>4. ASSUME NEW h \in Handles, Splice(h) PROVE Barrier(g)'
    <2>1. /\ UNCHANGED <<cursor, flush, st, file, drainFailed>>
          /\ drain'[g] = drain[g] \/ drain'[g] = "writing"
      BY <1>4 DEF Splice, sharedVars, Types
    <2> QED
      BY <2>1 DEF Barrier
  <1>5. ASSUME NEW h \in Handles, Written(h) PROVE Barrier(g)'
    <2>1. CASE g # h
      BY <1>f, <1>5, <2>1, SameBarrier DEF Written, Types
    <2>2. CASE g = h
      <3>1. /\ cursor'[g] = cursor[g] + Len(batch[g]) /\ file' = file \o batch[g]
            /\ UNCHANGED <<flush, st, drainFailed>> /\ drain'[g] = "loop"
        BY <1>5, <2>2 DEF Written, Types
      <3>2. Len(file') = Len(file) + Len(batch[g])
        BY <3>1, ConcatProperties DEF Types
      <3>3. cursor[g] \in Nat /\ Len(batch[g]) \in Nat /\ Len(file) \in Nat /\ flush[g].upto \in Nat
        BY Lengths
      <3>4. cursor'[g] <= Len(file') /\ (flush[g].upto <= cursor[g] => flush[g].upto <= cursor'[g])
        BY <3>1, <3>2, <3>3 DEF Barrier
      <3> QED
        BY <3>1, <3>4 DEF Barrier
    <2> QED
      BY <2>1, <2>2
  <1>6. ASSUME NEW h \in Handles, WriteFails(h) PROVE Barrier(g)'
    <2>1. CASE g # h
      BY <1>f, <1>6, <2>1, SameBarrier DEF WriteFails, RetainBatch, Types
    <2>2. CASE g = h
      <3>1. UNCHANGED <<cursor, flush, st, file>> /\ drain'[g] = "ended" /\ drainFailed'[g]
        BY <1>6, <2>2 DEF WriteFails, RetainBatch, Types
      <3> QED
        BY <3>1 DEF Barrier
    <2> QED
      BY <2>1, <2>2
  <1>7. ASSUME NEW h \in Handles, Looped(h) PROVE Barrier(g)'
    <2>1. CASE g # h
      BY <1>f, <1>7, <2>1, SameBarrier DEF Looped, LoopHead, sharedVars, Types
    <2>2. CASE g = h
      <3>1. /\ UNCHANGED <<cursor, flush, st, file, drainFailed>> /\ drain[g] = "loop"
            /\ drain'[g] = IF buffered[g] # <<>> THEN "queued" ELSE "ended"
        BY <1>7, <2>2 DEF Looped, LoopHead, sharedVars, Types
      <3>2. ASSUME flush[g].at = "draining", drain'[g] = "ended" PROVE flush[g].upto <= cursor[g]
        BY <1>0, <3>1, <3>2, DrainedAll DEF Barrier
      <3> QED
        BY <3>1, <3>2 DEF Barrier
    <2> QED
      BY <2>1, <2>2
  <1>8. ASSUME NEW h \in Handles, Settled(h) PROVE Barrier(g)'
    <2>1. UNCHANGED <<cursor, st, file, drainFailed>> /\ drain[h] = "ended"
      BY <1>8 DEF Settled, sharedVars
    <2>2. CASE g # h
      <3>1. flush'[g] = flush[g] /\ drain'[g] = drain[g]
        BY <1>8, <2>2, FlushMoves DEF Settled, Types
      <3> QED
        BY <1>f, <2>1, <3>1, SameBarrier
    <2>3. CASE g = h
      <3>1. /\ flush'[g].upto = flush[g].upto /\ flush'[g].gap = flush[g].gap
            /\ flush'[g].at = IF flush[g].at # "draining" THEN flush[g].at
                              ELSE IF drainFailed[g] THEN "failed" ELSE "drained"
        BY <1>8, <2>3, FlushMoves
      <3> QED
        BY <2>1, <2>3, <3>1 DEF Barrier
    <2> QED
      BY <2>2, <2>3
  <1>9. ASSUME NEW h \in Handles, Flush(h) PROVE Barrier(g)'
    <2>1. UNCHANGED <<cursor, st, file, buffered, batch>> /\ JoinOrStart(h)
      BY <1>9 DEF Flush, sharedVars
    <2>2. CASE g # h
      <3>0. PICK v : flush' = [flush EXCEPT ![h] = v]
        BY <1>9, Zenon DEF Flush
      <3>1. flush'[g] = flush[g] /\ drain'[g] = drain[g] /\ drainFailed'[g] = drainFailed[g]
        BY <2>1, <2>2, <3>0, Joined DEF Types
      <3> QED
        BY <1>f, <2>1, <3>1, SameBarrier
    <2>3. CASE g = h
      <3>0. PICK b : /\ flush' = [flush EXCEPT ![g] = [at |-> "draining", upto |-> nextSeq[g], gap |-> b]]
                     /\ b = (drain[g] = "ended") /\ writer = g
        BY <1>9, <2>3, Zenon DEF Flush
      <3>1. /\ flush'[g].at = "draining" /\ flush'[g].upto = nextSeq[g]
            /\ drain[g] = "ended" => flush'[g].gap
        <4>1. flush'[g].at = "draining" /\ flush'[g].upto = nextSeq[g] /\ flush'[g].gap = b
          BY <3>0 DEF Types
        <4>2. drain[g] = "ended" => b
          BY <3>0, Zenon
        <4> QED
          BY <4>1, <4>2, Zenon
      <3>2. st[g] = "open"
        BY <1>0, <3>0 DEF Role
      <3>3. \/ drain'[g] = drain[g] /\ drain[g] # "idle"
            \/ drain[g] = "idle" /\ drain'[g] = IF buffered[g] # <<>> THEN "queued" ELSE "ended"
        BY <2>1, <2>3 DEF JoinOrStart, LoopHead, Types
      <3>4. ASSUME drain[g] = "idle", drain'[g] = "ended" PROVE nextSeq[g] = cursor[g]
        <4>1. buffered[g] = <<>> /\ drain[g] # "writing"
          BY <3>3, <3>4
        <4> QED
          BY <1>0, <3>2, <4>1, DrainedAll
      <3>5. drain'[g] # "idle" /\ (drain'[g] = "ended" => flush'[g].gap \/ nextSeq[g] = cursor[g])
        BY <3>1, <3>3, <3>4
      <3>6. cursor[g] \in Nat
        BY Lengths
      <3> QED
        BY <2>1, <3>1, <3>2, <3>5, <3>6 DEF Barrier
    <2> QED
      BY <2>2, <2>3
  <1>10. ASSUME NEW h \in Handles, FlushReturns(h) PROVE Barrier(g)'
    <2>1. UNCHANGED <<cursor, st, file, drain, drainFailed>>
      BY <1>10 DEF FlushReturns, sharedVars, drainVars
    <2>2. CASE g # h
      BY <1>f, <1>10, <2>1, <2>2, FlushMoves, SameBarrier
    <2>3. CASE g = h
      <3>1. /\ flush'[g].upto = flush[g].upto /\ flush'[g].gap = flush[g].gap
            /\ flush[g].at = "drained" /\ flush'[g].at \in {"done", "failed"}
        BY <1>10, <2>3, FlushMoves
      <3> QED
        BY <2>1, <3>1 DEF Barrier
    <2> QED
      BY <2>2, <2>3
  <1>11. ASSUME NEW h \in Handles, Release(h) PROVE Barrier(g)'
    <2>1. /\ UNCHANGED <<cursor, flush, file, drain, drainFailed>>
          /\ st'[g] = st[g] \/ st'[g] = "closed"
      BY <1>11 DEF Release, drainVars, Types
    <2> QED
      BY <2>1 DEF Barrier
  <1>12. CASE Crash
    <2>1. UNCHANGED <<cursor, drainFailed>>
      BY <1>12 DEF Crash
    <2>2. /\ flush'[g].upto = flush[g].upto /\ flush'[g].gap = flush[g].gap
          /\ flush'[g].at \in {flush[g].at, "failed"}
          /\ flush'[g].at \in {"draining", "drained"} => st[g] = "new"
      <3>1. flush'[g] = IF st[g] = "new" THEN flush[g]
                        ELSE [flush[g] EXCEPT !.at = IF @ \in {"none", "done"} THEN @ ELSE "failed"]
        BY <1>12 DEF Crash
      <3> QED
        BY <3>1 DEF Types
    <2>3. flush'[g].at \notin {"draining", "drained"}
      BY <2>2 DEF Barrier
    <2> QED
      BY <1>f, <2>1, <2>2, <2>3 DEF Barrier
  <1>13. CASE UNCHANGED vars
    BY <1>f, <1>13, SameBarrier DEF vars, sharedVars, drainVars
  <1> QED
    BY <1>1, <1>2, <1>3, <1>4, <1>5, <1>6, <1>7, <1>8, <1>9, <1>10, <1>11, <1>12, <1>13
       DEF Next, Drain, Closing

\* session/flush is a durability barrier for every event emitted before it,
\* over any opens, failed writes, crashes and late calls, unless it joined a
\* drain that had ended and not yet settled.
THEOREM FlushIsBarrier == Spec => []FlushBarrierOutsideGap
  <1> DEFINE AllBarriers == \A h \in Handles : Barrier(h)
  <1>1. Init => AllBarriers
    BY DEF Init, Barrier, NoFlush
  <1>2. Inv /\ AllBarriers /\ [Next]_vars => AllBarriers'
    BY BarrierStep DEF Inv, Handles
  <1>3. Inv /\ AllBarriers => FlushBarrierOutsideGap
    <2> SUFFICES ASSUME Inv, AllBarriers, NEW h \in Handles, flush[h].at = "done", ~flush[h].gap
                 PROVE  flush[h].upto <= Len(file)
      BY DEF FlushBarrierOutsideGap
    <2>1. flush[h].upto <= cursor[h] /\ cursor[h] <= Len(file)
      BY DEF Barrier
    <2>2. flush[h].upto \in Nat /\ cursor[h] \in Nat /\ Len(file) \in Nat
      BY Lengths DEF Inv
    <2> QED
      BY <2>1, <2>2
  <1> QED
    BY <1>1, <1>2, <1>3, Invariance, PTL DEF Spec
-----------------------------------------------------------------------------
(* The kernel lock *)

\* An open handle holds the lock until its close releases it.  Once close has
\* looked at the buffer for the last time, an unmarked handle holds a batch only
\* in the chain close waits for, or because a write failed and paused it; when
\* the lock is released nothing is left that would start a drain over it.
Locked(h) ==
    /\ st[h] = "open" /\ close[h] # "unlocked" => lock = h
    /\ drain[h] \in {"queued", "writing", "loop"} => ~drainFailed[h]
    /\ drain[h] = "ended" /\ drainFailed[h] => paused[h]
    /\ close[h] = "waiting" /\ stray[h] = "none" /\ buffered[h] # <<>>
         => drain[h] = "queued" \/ (drain[h] \in {"idle", "ended"} /\ paused[h])
    /\ close[h] \in {"releasing", "unlocked", "done"} /\ stray[h] = "none"
         => /\ drain[h] \in {"idle", "loop", "ended"}
            /\ buffered[h] # <<>> => ~timer[h] /\ drain[h] # "loop"

\* Another handle's step changes nothing of a handle but perhaps the lock.
LEMMA SameLocked ==
    ASSUME NEW g \in Handles, Locked(g), lock'= lock \/ st[g] # "open", st'[g] = st[g],
           close'[g] = close[g], drain'[g] = drain[g], drainFailed'[g] = drainFailed[g],
           paused'[g] = paused[g], timer'[g] = timer[g], buffered'[g] = buffered[g],
           stray'[g] = stray[g]
    PROVE  Locked(g)'
  BY DEF Locked

\* Starting the drain of one handle leaves the others alone.
LEMMA JoinOthers ==
    ASSUME Types, NEW h \in Handles, JoinOrStart(h), NEW g \in Handles, g # h
    PROVE  /\ drain'[g] = drain[g] /\ drainFailed'[g] = drainFailed[g]
           /\ timer'[g] = timer[g] /\ paused'[g] = paused[g]
  BY DEF Types, JoinOrStart, LoopHead

\* Joining the drain changes nothing; starting it takes the timer away and
\* clears the marks of the last failure.
LEMMA JoinSelf ==
    ASSUME Types, NEW h \in Handles, JoinOrStart(h)
    PROVE  \/ UNCHANGED <<drain, timer, paused, drainFailed>> /\ drain[h] # "idle"
           \/ /\ drain[h] = "idle" /\ ~timer'[h] /\ ~drainFailed'[h]
              /\ drain'[h] = IF buffered[h] # <<>> THEN "queued" ELSE "ended"
  BY DEF Types, JoinOrStart, LoopHead

\* Every step keeps the lock over the writes of an unmarked handle.
LEMMA LockedStep ==
    ASSUME Types, stray \in Marks, Ledger, [Next]_vars, NEW g \in Handles, Locked(g)
    PROVE  Locked(g)'
  <1>0. /\ Role(g) /\ NoHandle \notin Handles
        /\ drain[g] \in {"idle", "queued", "writing", "loop", "ended"} /\ close[g] \in CloseStages
    <2>1. Role(g)
      BY DEF Ledger
    <2>2. NoHandle \notin Handles
      BY DEF NoHandle, Handles
    <2>3. drain[g] \in {"idle", "queued", "writing", "loop", "ended"}
      BY DEF Types
    <2>4. close[g] \in CloseStages
      BY DEF Types
    <2> QED
      BY <2>1, <2>2, <2>3, <2>4
  <1> USE DEF sharedVars, drainVars
  <1>1. ASSUME NEW h \in Handles, Open(h) PROVE Locked(g)'
    <2>1. CASE g # h
      <3>1. st[g] # "open"
        BY <1>0, <1>1 DEF Open, Role
      <3> QED
        BY <1>1, <2>1, <3>1, SameLocked DEF Open, Types
    <2>2. CASE g = h
      <3>1. /\ st[g] = "new" /\ lock' = g
            /\ UNCHANGED <<close, stray, drain, drainFailed, paused, buffered, timer>>
        BY <1>1, <2>2 DEF Open
      <3>2. close[g] = "none"
        BY <1>0, <3>1 DEF Role
      <3> QED
        BY <3>1, <3>2 DEF Locked
    <2> QED
      BY <2>1, <2>2
  <1>2. ASSUME NEW h \in Handles, Emit(h) PROVE Locked(g)'
    <2>0. /\ UNCHANGED <<lock, st, close, drain, drainFailed, paused>> /\ writer = h
      BY <1>2 DEF Emit
    <2>1. CASE g # h
      <3>1. stray'[g] = stray[g]
        BY <1>2, <2>1 DEF Emit, Called, Marks
      <3> QED
        BY <1>2, <2>0, <2>1, <3>1, SameLocked DEF Emit, Types
    <2>2. CASE g = h
      <3>1. close[g] # "done"
        BY <1>0, <2>0, <2>2 DEF Role
      <3>2. stray'[g] = "none" => ~LastLook(g)
        BY <1>2, <2>2 DEF Emit, Called, Marks
      <3> QED
        BY <2>0, <3>1, <3>2 DEF Locked, LastLook
    <2> QED
      BY <2>1, <2>2
  <1>3. ASSUME NEW h \in Handles, TimerFires(h) PROVE Locked(g)'
    <2>0. UNCHANGED <<lock, st, close, buffered, stray>>
      BY <1>3 DEF TimerFires
    <2>1. CASE g # h
      <3>1. /\ drain'[g] = drain[g] /\ drainFailed'[g] = drainFailed[g]
            /\ timer'[g] = timer[g] /\ paused'[g] = paused[g]
        BY <1>3, <2>1, JoinOthers DEF TimerFires, Types
      <3> QED
        BY <2>0, <3>1, SameLocked
    <2>2. CASE g = h /\ drain[g] = "idle"
      <3>1. timer[g] /\ JoinOrStart(g)
        BY <1>3, <2>2 DEF TimerFires
      <3>2. /\ ~timer'[g] /\ ~drainFailed'[g]
            /\ drain'[g] = IF buffered[g] # <<>> THEN "queued" ELSE "ended"
        BY <2>2, <3>1, JoinSelf
      <3> QED
        BY <2>0, <2>2, <3>1, <3>2 DEF Locked
    <2>3. CASE g = h /\ drain[g] # "idle"
      <3>1. UNCHANGED <<drain, paused, drainFailed>> /\ ~timer'[g]
        BY <1>3, <2>3 DEF TimerFires, Types
      <3> QED
        BY <2>0, <3>1 DEF Locked
    <2> QED
      BY <2>1, <2>2, <2>3
  <1>4. ASSUME NEW h \in Handles, Splice(h) PROVE Locked(g)'
    <2>0. UNCHANGED <<lock, st, close, drainFailed, paused, timer, stray>> /\ drain[h] = "queued"
      BY <1>4 DEF Splice
    <2>1. CASE g # h
      BY <1>4, <2>0, <2>1, SameLocked DEF Splice, Types
    <2>2. CASE g = h
      <3>1. drain'[g] = "writing" /\ buffered'[g] = <<>>
        BY <1>4, <2>2 DEF Splice, Types
      <3> QED
        BY <2>0, <2>2, <3>1 DEF Locked
    <2> QED
      BY <2>1, <2>2
  <1>5. ASSUME NEW h \in Handles, Written(h) PROVE Locked(g)'
    <2>0. /\ UNCHANGED <<lock, st, close, drainFailed, paused, timer, stray, buffered>>
          /\ drain[h] = "writing"
      BY <1>5 DEF Written
    <2>1. CASE g # h
      BY <1>5, <2>0, <2>1, SameLocked DEF Written, Types
    <2>2. CASE g = h
      <3>1. drain'[g] = "loop"
        BY <1>5, <2>2 DEF Written, Types
      <3> QED
        BY <2>0, <2>2, <3>1 DEF Locked
    <2> QED
      BY <2>1, <2>2
  <1>6. ASSUME NEW h \in Handles, WriteFails(h) PROVE Locked(g)'
    <2>0. UNCHANGED <<lock, st, close, timer, stray>> /\ drain[h] = "writing"
      BY <1>6 DEF WriteFails
    <2>1. CASE g # h
      BY <1>6, <2>0, <2>1, SameLocked DEF WriteFails, RetainBatch, Types
    <2>2. CASE g = h
      <3>1. drain'[g] = "ended" /\ paused'[g] /\ drainFailed'[g]
        BY <1>6, <2>2 DEF WriteFails, RetainBatch, Types
      <3> QED
        BY <2>0, <2>2, <3>1 DEF Locked
    <2> QED
      BY <2>1, <2>2
  <1>7. ASSUME NEW h \in Handles, Looped(h) PROVE Locked(g)'
    <2>0. /\ UNCHANGED <<lock, st, close, timer, stray, paused, buffered, drainFailed>>
          /\ drain[h] = "loop"
      BY <1>7 DEF Looped
    <2>1. CASE g # h
      BY <1>7, <2>0, <2>1, SameLocked DEF Looped, LoopHead, Types
    <2>2. CASE g = h
      <3>1. drain'[g] = IF buffered[g] # <<>> THEN "queued" ELSE "ended"
        BY <1>7, <2>2 DEF Looped, LoopHead, Types
      <3> QED
        BY <2>0, <2>2, <3>1 DEF Locked
    <2> QED
      BY <2>1, <2>2
  <1>8. ASSUME NEW h \in Handles, Settled(h) PROVE Locked(g)'
    <2>0. /\ UNCHANGED <<lock, st, timer, stray, paused, buffered, drainFailed>>
          /\ drain[h] = "ended"
      BY <1>8 DEF Settled
    <2>1. CASE g # h
      <3>1. drain'[g] = drain[g] /\ close'[g] = close[g]
        BY <1>8, <2>1 DEF Settled, Types
      <3> QED
        BY <2>0, <3>1, SameLocked
    <2>2. CASE g = h
      <3>1. /\ drain'[g] = "idle"
            /\ close'[g] = IF close[g] # "draining" THEN close[g]
                           ELSE IF drainFailed[g] THEN "waiting" ELSE "check"
        BY <1>8, <2>2 DEF Settled, Types
      <3> QED
        BY <2>0, <2>2, <3>1 DEF Locked
    <2> QED
      BY <2>1, <2>2
  <1>9. ASSUME NEW h \in Handles, Flush(h) PROVE Locked(g)'
    <2>0. UNCHANGED <<lock, st, close, buffered>> /\ JoinOrStart(h) /\ writer = h
      BY <1>9 DEF Flush
    <2>1. CASE g # h
      <3>1. stray'[g] = stray[g]
        BY <1>9, <2>1 DEF Flush, Called, Marks
      <3> QED
        BY <2>0, <2>1, <3>1, JoinOthers, SameLocked
    <2>2. CASE g = h
      <3>1. close[g] # "done"
        BY <1>0, <2>0, <2>2 DEF Role
      <3>2. stray'[g] = "none" => ~LastLook(g)
        BY <1>9, <2>2 DEF Flush, Called, Marks
      <3> QED
        BY <2>0, <2>2, <3>1, <3>2, JoinSelf DEF Locked, LastLook
    <2> QED
      BY <2>1, <2>2
  <1>10. ASSUME NEW h \in Handles, FlushReturns(h) PROVE Locked(g)'
    BY <1>10, SameLocked DEF FlushReturns
  <1>11. ASSUME NEW h \in Handles, Close(h) PROVE Locked(g)'
    <2>0. UNCHANGED <<lock, st, buffered, stray>> /\ JoinOrStart(h)
      BY <1>11 DEF Close
    <2>1. CASE g # h
      BY <1>11, <2>0, <2>1, JoinOthers, SameLocked DEF Close, Types
    <2>2. CASE g = h
      <3>1. close'[g] = "draining" /\ close[g] = "none"
        BY <1>11, <2>2 DEF Close, Types
      <3> QED
        BY <2>0, <2>2, <3>1, JoinSelf DEF Locked
    <2> QED
      BY <2>1, <2>2
  <1>12. ASSUME NEW h \in Handles, CloseChecks(h) PROVE Locked(g)'
    <2>0. /\ UNCHANGED <<lock, st, buffered, stray>> /\ close[h] = "check"
          /\ \/ buffered[h] # <<>> /\ JoinOrStart(h) /\ close' = [close EXCEPT ![h] = "draining"]
             \/ /\ buffered[h] = <<>> /\ close' = [close EXCEPT ![h] = "waiting"]
                /\ UNCHANGED <<drain, timer, paused, drainFailed>>
      BY <1>12 DEF CloseChecks
    <2>1. CASE g # h
      BY <2>0, <2>1, JoinOthers, SameLocked DEF Types
    <2>2. CASE g = h
      <3>1. \/ close'[g] = "draining" /\ JoinOrStart(g)
            \/ /\ close'[g] = "waiting" /\ buffered[g] = <<>>
               /\ UNCHANGED <<drain, timer, paused, drainFailed>>
        BY <2>0, <2>2 DEF Types
      <3> QED
        BY <2>0, <2>2, <3>1, JoinSelf DEF Locked
    <2> QED
      BY <2>1, <2>2
  <1>13. ASSUME NEW h \in Handles, CloseWaited(h) PROVE Locked(g)'
    <2>0. /\ UNCHANGED <<lock, st, buffered, drain, timer, paused, drainFailed>>
          /\ close[h] = "waiting" /\ drain[h] \notin {"queued", "writing"}
      BY <1>13 DEF CloseWaited
    <2>1. CASE g # h
      <3>1. close'[g] = close[g] /\ stray'[g] = stray[g]
        BY <1>13, <2>1 DEF CloseWaited, NoteRelease, Types, Marks
      <3> QED
        BY <2>0, <3>1, SameLocked
    <2>2. CASE g = h
      <3>1. close'[g] = "releasing" /\ (stray'[g] = "none" => stray[g] = "none" /\ ~Retained(g))
        BY <1>13, <2>2 DEF CloseWaited, NoteRelease, Types, Marks
      <3> QED
        BY <1>0, <2>0, <2>2, <3>1 DEF Locked, Retained
    <2> QED
      BY <2>1, <2>2
  <1>14. ASSUME NEW h \in Handles, Unlock(h) PROVE Locked(g)'
    <2>0. /\ UNCHANGED <<st, buffered, drain, timer, paused, drainFailed, stray>>
          /\ close[h] = "releasing"
      BY <1>14 DEF Unlock
    <2>1. CASE g # h
      <3>1. st[g] # "open"
        <4>1. Role(h)
          BY DEF Ledger
        <4>2. st[h] = "open"
          BY <2>0, <4>1 DEF Role, Types
        <4> QED
          BY <1>0, <2>1, <4>1, <4>2 DEF Role
      <3>2. close'[g] = close[g]
        BY <1>14, <2>1 DEF Unlock, Types
      <3> QED
        BY <2>0, <3>1, <3>2, SameLocked
    <2>2. CASE g = h
      <3>1. close'[g] = "unlocked"
        BY <1>14, <2>2 DEF Unlock, Types
      <3> QED
        BY <2>0, <2>2, <3>1 DEF Locked
    <2> QED
      BY <2>1, <2>2
  <1>15. ASSUME NEW h \in Handles, Release(h) PROVE Locked(g)'
    <2>0. /\ UNCHANGED <<lock, buffered, drain, timer, paused, drainFailed, stray>>
          /\ close[h] = "unlocked"
      BY <1>15 DEF Release
    <2>1. CASE g # h
      <3>1. close'[g] = close[g] /\ st'[g] = st[g]
        BY <1>15, <2>1 DEF Release, Types
      <3> QED
        BY <2>0, <3>1, SameLocked
    <2>2. CASE g = h
      <3>1. close'[g] = "done" /\ st'[g] = "closed"
        BY <1>15, <2>2 DEF Release, Types
      <3> QED
        BY <2>0, <2>2, <3>1 DEF Locked
    <2> QED
      BY <2>1, <2>2
  <1>16. CASE Crash
    <2>1. /\ st'[g] # "open" /\ drain'[g] = "idle" /\ buffered'[g] = <<>>
          /\ close'[g] \in {"none", "done"}
      BY <1>16 DEF Crash
    <2> QED
      BY <2>1 DEF Locked
  <1>17. CASE UNCHANGED vars
    BY <1>17, SameLocked DEF vars
  <1> QED
    BY <1>1, <1>2, <1>3, <1>4, <1>5, <1>6, <1>7, <1>8, <1>9, <1>10, <1>11, <1>12, <1>13, <1>14,
       <1>15, <1>16, <1>17 DEF Next, Drain, Closing

\* The kernel lock covers every write of every handle, over any opens, failed
\* writes, crashes, flushes and late calls, unless the handle was closed over a
\* batch that a failed write had retained with its timer armed, or was called
\* after its close had looked at the buffer for the last time.
THEOREM LockOverWrites == Spec => []LockCoversWrites
  <1> DEFINE AllLocked == \A h \in Handles : Locked(h)
  <1>1. Init => AllLocked
    BY DEF Init, Locked
  <1>2. Inv /\ AllLocked /\ [Next]_vars => AllLocked'
    BY LockedStep DEF Inv, Handles
  <1>3. Inv /\ AllLocked => LockCoversWrites
    <2> SUFFICES ASSUME Inv, AllLocked, NEW h \in Handles, drain[h] = "writing", lock # h,
                        stray[h] = "none"
                 PROVE  FALSE
      BY DEF LockCoversWrites
    <2>1. /\ Role(h) /\ Books(h) /\ Locked(h) /\ close[h] \in CloseStages
          /\ st[h] \in {"new", "open", "closed", "dead"}
      BY DEF Inv, Ledger, Types
    <2>2. st[h] \in {"open", "closed"}
      BY <2>1 DEF Books, Quiet
    <2>3. close[h] \in {"unlocked", "done"}
      BY <2>1, <2>2 DEF Locked, Role
    <2> QED
      BY <2>1, <2>3 DEF Locked
  <1> QED
    BY <1>1, <1>2, <1>3, Invariance, PTL DEF Spec
=============================================================================
