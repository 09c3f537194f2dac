------------------------ MODULE SessionRepair_proofs ------------------------
(***************************************************************************)
(* Proofs about SessionRepair, for any calls, any length of log and any    *)
(* number of crashes: the log abides by its contract at every moment, the  *)
(* closers say truly what an interrupted step did, writing them converges, *)
(* and a fork seed cut anywhere is a valid log.                            *)
(***************************************************************************)
EXTENDS SessionRepair, SequenceTheorems, FiniteSetTheorems, WellFoundedInduction, TLAPS

-----------------------------------------------------------------------------
(* Induction.                                                                *)

\* A set of numbers has a least one.
LEMMA LeastOf ==
    ASSUME NEW S \in SUBSET Nat, S # {}
    PROVE  \E x \in S : \A y \in S : x <= y
<1> DEFINE R == {ss \in Nat \X Nat : ss[1] < ss[2]}
<1>0. IsWellFoundedOn(R, Nat)
  BY NatLessThanWellFounded DEF OpToRel
<1> HIDE DEF R
<1>1. PICK x \in S : \A y \in S : ~(<<y, x>> \in R)
  BY <1>0, WFMin
<1>2. \A y \in S : x <= y
  <2> SUFFICES ASSUME NEW y \in S, y < x  PROVE FALSE
    BY SMT
  <2>1. <<y, x>> \in Nat \X Nat  OBVIOUS
  <2>2. <<y, x>>[1] < <<y, x>>[2]  OBVIOUS
  <2>3. <<y, x>> \in R  BY <2>1, <2>2, Zenon DEF R
  <2> QED  BY <1>1, <2>3
<1> QED  BY <1>2

\* A set that holds zero and every successor of what it holds holds all numbers.
LEMMA ByInduction ==
    ASSUME NEW P, 0 \in P, \A n \in Nat : n \in P => n + 1 \in P
    PROVE  Nat \subseteq P
<1> SUFFICES ASSUME Nat \ P # {}  PROVE FALSE
  OBVIOUS
<1>1. PICK x \in Nat \ P : \A y \in Nat \ P : x <= y
  BY LeastOf, Zenon
<1>2. x - 1 \in Nat  BY <1>1, SMT
<1>3. x - 1 \in P  BY <1>1, <1>2, SMT
<1> QED  BY <1>1, <1>2, <1>3, SMT

-----------------------------------------------------------------------------
(* The folds of a log: what repair scans and what the companion replays.     *)

\* What the folds of the first n events are.
ScansTo(f, s, n) == f = [k \in 0..n |-> IF k = 0 THEN Scanned ELSE ScanEvent(f[k - 1], s[k])]
ReplaysTo(f, s, n) == f = [k \in 0..n |-> IF k = 0 THEN Unseeded ELSE Checked(f[k - 1], s[k])]

\* Every log has its folds.
LEMMA ScanExists ==
    ASSUME NEW s
    PROVE  \A n \in Nat : \E f : ScansTo(f, s, n)
<1> DEFINE P == {n \in Nat : \E f : ScansTo(f, s, n)}
<1>1. 0 \in P
  <2>1. ScansTo([k \in 0..0 |-> Scanned], s, 0)  BY DEF ScansTo
  <2> QED BY <2>1
<1>2. ASSUME NEW n \in P  PROVE n + 1 \in P
  <2>1. PICK f : ScansTo(f, s, n)  OBVIOUS
  <2> DEFINE g == [k \in 0..(n + 1) |-> IF k = n + 1 THEN ScanEvent(f[n], s[n + 1]) ELSE f[k]]
  <2>2. ASSUME NEW k \in 0..(n + 1)
        PROVE  g[k] = IF k = 0 THEN Scanned ELSE ScanEvent(g[k - 1], s[k])
    BY <2>1, <2>2 DEF ScansTo
  <2>3. ScansTo(g, s, n + 1)  BY <2>2 DEF ScansTo
  <2> QED BY <2>3
<1> HIDE DEF P
<1>3. Nat \subseteq P  BY <1>1, <1>2, ByInduction
<1> QED BY <1>3 DEF P

\* The same for the companion: a replay of any number of events exists.
LEMMA ReplayExists ==
    ASSUME NEW s
    PROVE  \A n \in Nat : \E f : ReplaysTo(f, s, n)
<1> DEFINE P == {n \in Nat : \E f : ReplaysTo(f, s, n)}
<1>1. 0 \in P
  <2>1. ReplaysTo([k \in 0..0 |-> Unseeded], s, 0)  BY DEF ReplaysTo
  <2> QED BY <2>1
<1>2. ASSUME NEW n \in P  PROVE n + 1 \in P
  <2>1. PICK f : ReplaysTo(f, s, n)  OBVIOUS
  <2> DEFINE g == [k \in 0..(n + 1) |-> IF k = n + 1 THEN Checked(f[n], s[n + 1]) ELSE f[k]]
  <2>2. ASSUME NEW k \in 0..(n + 1)
        PROVE  g[k] = IF k = 0 THEN Unseeded ELSE Checked(g[k - 1], s[k])
    BY <2>1, <2>2 DEF ReplaysTo
  <2>3. ReplaysTo(g, s, n + 1)  BY <2>2 DEF ReplaysTo
  <2> QED BY <2>3
<1> HIDE DEF P
<1>3. Nat \subseteq P  BY <1>1, <1>2, ByInduction
<1> QED BY <1>3 DEF P

\* The folds of a log obey the recursion they are defined by.
LEMMA FoldsAre ==
    ASSUME NEW s, Len(s) \in Nat
    PROVE  /\ Scans(s)[0] = Scanned /\ Replays(s)[0] = Unseeded
           /\ \A n \in 1..Len(s) : /\ Scans(s)[n] = ScanEvent(Scans(s)[n - 1], s[n])
                                   /\ Replays(s)[n] = Checked(Replays(s)[n - 1], s[n])
<1> DEFINE F == CHOOSE f : ScansTo(f, s, Len(s))
           G == CHOOSE f : ReplaysTo(f, s, Len(s))
<1>1. ScansTo(F, s, Len(s))  BY ScanExists
<1>2. ReplaysTo(G, s, Len(s))  BY ReplayExists
<1>3. Scans(s) = F  BY DEF Scans, ScansTo
<1>4. Replays(s) = G  BY DEF Replays, ReplaysTo
<1> HIDE DEF F, G
<1>5. F[0] = Scanned /\ G[0] = Unseeded  BY <1>1, <1>2 DEF ScansTo, ReplaysTo
<1>6. ASSUME NEW n \in 1..Len(s)
      PROVE  F[n] = ScanEvent(F[n - 1], s[n]) /\ G[n] = Checked(G[n - 1], s[n])
  <2>1. n \in 0..Len(s) /\ n # 0  OBVIOUS
  <2>2. F[n] = ScanEvent(F[n - 1], s[n])  BY <1>1, <2>1 DEF ScansTo
  <2>3. G[n] = Checked(G[n - 1], s[n])  BY <1>2, <2>1 DEF ReplaysTo
  <2> QED  BY <2>2, <2>3
<1> QED BY <1>3, <1>4, <1>5, <1>6

\* Logs that agree up to m have the same folds up to m.
LEMMA FoldsAgree ==
    ASSUME NEW s, NEW t, Len(s) \in Nat, Len(t) \in Nat,
           NEW m \in Nat, m <= Len(s), m <= Len(t), \A i \in 1..m : s[i] = t[i]
    PROVE  \A n \in 0..m : Scans(s)[n] = Scans(t)[n] /\ Replays(s)[n] = Replays(t)[n]
<1> DEFINE P == {n \in Nat : n <= m => Scans(s)[n] = Scans(t)[n] /\ Replays(s)[n] = Replays(t)[n]}
<1>1. 0 \in P  BY FoldsAre
<1>2. ASSUME NEW n \in P, n + 1 <= m
      PROVE  Scans(s)[n + 1] = Scans(t)[n + 1] /\ Replays(s)[n + 1] = Replays(t)[n + 1]
  <2>1. n + 1 \in 1..Len(s) /\ n + 1 \in 1..Len(t) /\ n + 1 \in 1..m /\ (n + 1) - 1 = n /\ n <= m
    BY <1>2
  <2>2. /\ Scans(s)[n + 1] = ScanEvent(Scans(s)[n], s[n + 1])
        /\ Replays(s)[n + 1] = Checked(Replays(s)[n], s[n + 1])
    BY <2>1, FoldsAre
  <2>3. /\ Scans(t)[n + 1] = ScanEvent(Scans(t)[n], t[n + 1])
        /\ Replays(t)[n + 1] = Checked(Replays(t)[n], t[n + 1])
    BY <2>1, FoldsAre
  <2> QED  BY <2>1, <2>2, <2>3
<1>3. \A n \in Nat : n \in P => n + 1 \in P  BY <1>2
<1> HIDE DEF P
<1>4. Nat \subseteq P  BY <1>1, <1>3, ByInduction
<1> QED BY <1>4 DEF P

\* One more event applies to the folds of what was there.
LEMMA FoldsAppend ==
    ASSUME NEW S, NEW s \in Seq(S), NEW e \in S
    PROVE  /\ \A n \in 0..Len(s) : /\ Scans(Append(s, e))[n] = Scans(s)[n]
                                   /\ Replays(Append(s, e))[n] = Replays(s)[n]
           /\ Scan(Append(s, e)) = ScanEvent(Scan(s), e)
           /\ Replay(Append(s, e)) = Checked(Replay(s), e)
<1> DEFINE t == Append(s, e)
<1>1. t \in Seq(S) /\ Len(t) = Len(s) + 1 /\ t[Len(s) + 1] = e /\ \A i \in 1..Len(s) : s[i] = t[i]
  OBVIOUS
<1>2. Len(s) \in Nat  OBVIOUS
<1> HIDE DEF t
<1>3. \A n \in 0..Len(s) : Scans(s)[n] = Scans(t)[n] /\ Replays(s)[n] = Replays(t)[n]
  <2>1. Len(t) \in Nat /\ Len(s) <= Len(s) /\ Len(s) <= Len(t)  BY <1>1, <1>2
  <2> QED  BY <2>1, <1>1, <1>2, FoldsAgree
<1>4. /\ Scans(t)[Len(s) + 1] = ScanEvent(Scans(t)[(Len(s) + 1) - 1], t[Len(s) + 1])
      /\ Replays(t)[Len(s) + 1] = Checked(Replays(t)[(Len(s) + 1) - 1], t[Len(s) + 1])
  BY <1>1, <1>2, FoldsAre
<1>5. (Len(s) + 1) - 1 = Len(s) /\ Len(s) \in 0..Len(s)  BY <1>2
<1>6. Scans(t)[Len(s)] = Scan(s) /\ Replays(t)[Len(s)] = Replay(s)
  BY <1>3, <1>5 DEF Scan, Replay
<1>7. Scan(t) = Scans(t)[Len(s) + 1] /\ Replay(t) = Replays(t)[Len(s) + 1]
  BY <1>1 DEF Scan, Replay
<1>8. Scan(t) = ScanEvent(Scan(s), e) /\ Replay(t) = Checked(Replay(s), e)
  BY <1>1, <1>4, <1>5, <1>6, <1>7
<1> QED  BY <1>3, <1>8 DEF t

\* A prefix has the folds of its log.
LEMMA FoldsPrefix ==
    ASSUME NEW S, NEW s \in Seq(S), NEW m \in 0..Len(s)
    PROVE  /\ \A n \in 0..m : /\ Scans(SubSeq(s, 1, m))[n] = Scans(s)[n]
                              /\ Replays(SubSeq(s, 1, m))[n] = Replays(s)[n]
           /\ Scan(SubSeq(s, 1, m)) = Scans(s)[m] /\ Replay(SubSeq(s, 1, m)) = Replays(s)[m]
<1> DEFINE t == SubSeq(s, 1, m)
<1>1. t \in Seq(S) /\ Len(t) = m /\ \A i \in 1..m : t[i] = s[i]
  BY SubSeqProperties
<1>2. Len(s) \in Nat /\ m \in Nat /\ m <= Len(s)  OBVIOUS
<1> HIDE DEF t
<1>3. Len(t) \in Nat /\ m <= Len(t)  BY <1>1, <1>2
<1>4. \A n \in 0..m : Scans(t)[n] = Scans(s)[n] /\ Replays(t)[n] = Replays(s)[n]
  BY <1>1, <1>2, <1>3, FoldsAgree
<1>5. m \in 0..m  BY <1>2
<1>6. Scan(t) = Scans(t)[m] /\ Replay(t) = Replays(t)[m]  BY <1>1 DEF Scan, Replay
<1> QED  BY <1>4, <1>5, <1>6 DEF t
-----------------------------------------------------------------------------
(* What holds of every prefix of a log: of what the driver wrote, of what a  *)
(* crash left of it, and of the closers written behind that.                 *)

ToolTypes == {"tool/call", "tool/result", "tool/not-started"}
WorkTypes == ToolTypes \cup {"assistant/message"}
PlainTypes == {"turn/start", "turn/end", "step/start", "step/end", "session/end-seed"}

Events ==
    [type : PlainTypes, turn : Nat, step : Nat, call : {0}]
    \cup [type : ToolTypes, turn : Nat, step : Nat, call : CallIds]
    \cup [type : {"assistant/message"}, turn : Nat, step : Nat, call : Seq(CallIds)]

Pendings == [call : CallIds, step : Nat, started : BOOLEAN]
Scanneds == [openTurn : Nat, openStep : Nat, calls : Seq(Pendings)]

IsResult(e) == e.type \in {"tool/result", "tool/not-started"}
Distinct(m) == \A i, j \in DOMAIN m : m[i] = m[j] => i = j
Within(S, e) == e.turn = S.openTurn /\ e.step = S.openStep

\* What repair scanned and what the companion replayed agree: the open turn and
\* step, and the started calls among the unanswered ones of the open step.
Balanced(S, T) ==
    /\ S \in Scanneds /\ T \in Traces
    /\ S.openTurn = T.openTurn /\ S.openStep = T.openStep
    /\ S.openTurn # None => S.openTurn = T.nextTurn
    /\ S.openStep # None => S.openTurn # None /\ S.openStep = T.nextStep
    /\ S.openStep = None => S.calls = <<>>
    /\ \A i \in DOMAIN S.calls : S.calls[i].step = S.openStep
    /\ \A i, j \in DOMAIN S.calls : S.calls[i].call = S.calls[j].call => i = j
    /\ \A c \in CallIds : c \in T.pendingCalls <=> \E i \in DOMAIN S.calls : S.calls[i].call = c /\ S.calls[i].started

\* The work of a step lies in a step that was open before or is open now.
Placed(s, T) ==
    \A k \in DOMAIN s : s[k].type \in WorkTypes =>
        \/ s[k].turn < T.nextTurn
        \/ /\ T.openTurn # None /\ s[k].turn = T.openTurn
           /\ s[k].step < T.nextStep \/ (T.openStep # None /\ s[k].step = T.openStep)

\* In the open step each call has one result at most and none while it is
\* unanswered, a recorded call is known as started, and the message's calls are
\* the unanswered and the answered ones.
Answered(s, S) ==
    S.openStep # None =>
        /\ \A j, k \in DOMAIN s :
              /\ IsResult(s[j]) /\ Within(S, s[j]) /\ IsResult(s[k]) /\ Within(S, s[k])
              /\ s[j].call = s[k].call
              => j = k
        /\ \A k \in DOMAIN s : IsResult(s[k]) /\ Within(S, s[k]) =>
              \A i \in DOMAIN S.calls : S.calls[i].call # s[k].call
        /\ \A k \in DOMAIN s : s[k].type = "tool/call" /\ Within(S, s[k]) =>
              \A i \in DOMAIN S.calls : S.calls[i].call = s[k].call => S.calls[i].started
        /\ \A k \in DOMAIN s : s[k].type = "assistant/message" /\ Within(S, s[k]) =>
              /\ Distinct(s[k].call)
              /\ \A c \in CallIds : (\E i \in DOMAIN s[k].call : s[k].call[i] = c) <=>
                           \/ \E i \in DOMAIN S.calls : S.calls[i].call = c
                           \/ \E l \in DOMAIN s : IsResult(s[l]) /\ Within(S, s[l]) /\ s[l].call = c

\* A step that has just started holds no work.
Opened(s, S) ==
    s # <<>> /\ s[Len(s)].type = "step/start" =>
        S.calls = <<>> /\ \A k \in DOMAIN s : s[k].type \in WorkTypes => ~Within(S, s[k])

\* No call is both recorded and reported as not started.
Exclusive(s) ==
    \A j, k \in DOMAIN s :
        s[j].type = "tool/call" /\ s[k].type = "tool/not-started" =>
            ~(s[j].turn = s[k].turn /\ s[j].step = s[k].step /\ s[j].call = s[k].call)

\* What each event of a log keeps, and what a crash, a repair and a fork need.
Good(s) ==
    /\ s \in Seq(Events)
    /\ Replay(s).ok
    /\ Balanced(Scan(s), Replay(s).trace)
    /\ Placed(s, Replay(s).trace)
    /\ Answered(s, Scan(s))
    /\ Opened(s, Scan(s))
    /\ Exclusive(s)

-----------------------------------------------------------------------------
(* One more event.                                                           *)

\* What the library says of Append, in the form the event lemmas use.
LEMMA AppendIs ==
    ASSUME NEW S, NEW s \in Seq(S), NEW e \in S
    PROVE  /\ Append(s, e) \in Seq(S) /\ Append(s, e) # <<>>
           /\ Len(s) \in Nat /\ Len(Append(s, e)) = Len(s) + 1
           /\ DOMAIN s = 1..Len(s) /\ DOMAIN Append(s, e) = 1..(Len(s) + 1)
           /\ Append(s, e)[Len(s) + 1] = e
           /\ \A k \in DOMAIN s : k \in DOMAIN Append(s, e) /\ Append(s, e)[k] = s[k]
           /\ \A k \in DOMAIN Append(s, e) : k \in DOMAIN s \/ k = Len(s) + 1
  OBVIOUS

\* The fields of an event by its type.
LEMMA EventTypesAre ==
    ASSUME NEW e \in Events
    PROVE  /\ e.type \in EventTypes /\ e.turn \in Nat /\ e.step \in Nat
           /\ e.type \in PlainTypes \cup WorkTypes
           /\ e.type \in ToolTypes => e.call \in CallIds
           /\ e.type = "assistant/message" => e.call \in Seq(CallIds)
  BY DEF Events, EventTypes, PlainTypes, WorkTypes, ToolTypes, FreeTypes, StepTypes

\* What the contract asks of each event of the model, by its type.
LEMMA ValidIs ==
    ASSUME NEW t, NEW e
    PROVE  /\ e.type = "turn/start" => (Valid(t, e) <=> t.openTurn = None /\ e.turn = t.nextTurn)
           /\ e.type = "turn/end" =>
                (Valid(t, e) <=> t.openTurn = e.turn /\ e.turn # None /\ t.openStep = None)
           /\ e.type = "step/start" =>
                (Valid(t, e) <=> /\ t.openTurn = e.turn /\ e.turn # None
                                 /\ t.openStep = None /\ e.step = t.nextStep)
           /\ e.type \in {"step/end", "tool/call", "tool/not-started", "assistant/message"} =>
                (Valid(t, e) <=> e.step # None /\ t.openTurn = e.turn /\ t.openStep = e.step)
           /\ e.type = "tool/result" =>
                (Valid(t, e) <=> /\ e.step # None /\ t.openTurn = e.turn /\ t.openStep = e.step
                                 /\ e.call \in t.pendingCalls)
           /\ e.type = "session/end-seed" => Valid(t, e)
<1> USE DEF Valid, StepTypes, TurnTypes, InOpenStep
<1>1. e.type = "turn/start" => (Valid(t, e) <=> t.openTurn = None /\ e.turn = t.nextTurn)
  OBVIOUS
<1>2. e.type = "turn/end" =>
        (Valid(t, e) <=> t.openTurn = e.turn /\ e.turn # None /\ t.openStep = None)
  OBVIOUS
<1>3. e.type = "step/start" =>
        (Valid(t, e) <=> /\ t.openTurn = e.turn /\ e.turn # None
                         /\ t.openStep = None /\ e.step = t.nextStep)
  OBVIOUS
<1>4. e.type \in {"step/end", "tool/call", "tool/not-started", "assistant/message"} =>
        (Valid(t, e) <=> e.step # None /\ t.openTurn = e.turn /\ t.openStep = e.step)
  OBVIOUS
<1>5. e.type = "tool/result" =>
        (Valid(t, e) <=> /\ e.step # None /\ t.openTurn = e.turn /\ t.openStep = e.step
                         /\ e.call \in t.pendingCalls)
  OBVIOUS
<1>6. e.type = "session/end-seed" => Valid(t, e)
  OBVIOUS
<1> QED  BY <1>1, <1>2, <1>3, <1>4, <1>5, <1>6

\* The fields of a trace after an update.
LEMMA TraceUpdates ==
    ASSUME NEW t \in Traces, NEW n
    PROVE  /\ t.openTurn \in Nat /\ t.openStep \in Nat /\ t.nextTurn \in Nat \ {0} /\ t.nextStep \in Nat \ {0}
           /\ t.pendingCalls \subseteq CallIds
           /\ n \in Nat => [t EXCEPT !.openTurn = n, !.nextStep = 1] \in Traces
           /\ [t EXCEPT !.openTurn = None, !.nextTurn = @ + 1] \in Traces
           /\ n \in Nat => [t EXCEPT !.openStep = n] \in Traces
           /\ [t EXCEPT !.openStep = None, !.nextStep = @ + 1, !.pendingCalls = {}] \in Traces
           /\ n \in CallIds => [t EXCEPT !.pendingCalls = @ \cup {n}] \in Traces
           /\ [t EXCEPT !.pendingCalls = @ \ {n}] \in Traces
<1>1. /\ t.openTurn \in Nat /\ t.openStep \in Nat /\ t.nextTurn \in Nat \ {0} /\ t.nextStep \in Nat \ {0}
      /\ t.pendingCalls \subseteq CallIds
  BY DEF Traces
<1>2. t = [openTurn |-> t.openTurn, openStep |-> t.openStep, nextTurn |-> t.nextTurn,
           nextStep |-> t.nextStep, pendingCalls |-> t.pendingCalls]
  BY DEF Traces
<1>3. n \in Nat => [t EXCEPT !.openTurn = n, !.nextStep = 1] \in Traces
  <2>1. 1 \in Nat \ {0}  OBVIOUS
  <2> QED  BY <2>1, <1>1, <1>2 DEF Traces
<1>4. [t EXCEPT !.openTurn = None, !.nextTurn = @ + 1] \in Traces
  <2>1. t.nextTurn + 1 \in Nat \ {0} /\ None \in Nat  BY <1>1 DEF None
  <2> QED  BY <2>1, <1>1, <1>2 DEF Traces
<1>5. n \in Nat => [t EXCEPT !.openStep = n] \in Traces
  BY <1>1, <1>2 DEF Traces
<1>6. [t EXCEPT !.openStep = None, !.nextStep = @ + 1, !.pendingCalls = {}] \in Traces
  <2>1. t.nextStep + 1 \in Nat \ {0} /\ None \in Nat  BY <1>1 DEF None
  <2> QED  BY <2>1, <1>1, <1>2 DEF Traces
<1>7. n \in CallIds => [t EXCEPT !.pendingCalls = @ \cup {n}] \in Traces
  BY <1>1, <1>2 DEF Traces
<1>8. [t EXCEPT !.pendingCalls = @ \ {n}] \in Traces
  BY <1>1, <1>2 DEF Traces
<1> QED  BY <1>1, <1>3, <1>4, <1>5, <1>6, <1>7, <1>8

\* An event that is no work of a step leaves the record of the work as it was.
LEMMA PlainKeeps ==
    ASSUME NEW s \in Seq(Events), NEW e \in Events, e.type \in PlainTypes,
           NEW S, NEW T, Exclusive(s)
    PROVE  /\ Exclusive(Append(s, e))
           /\ Placed(s, T) => Placed(Append(s, e), T)
           /\ Answered(s, S) => Answered(Append(s, e), S)
<1> DEFINE t == Append(s, e)
<1>1. /\ \A k \in DOMAIN s : k \in DOMAIN t /\ t[k] = s[k]
      /\ \A k \in DOMAIN t : k \in DOMAIN s \/ t[k] = e
  BY AppendIs
<1>2. /\ e.type \notin WorkTypes /\ ~IsResult(e) /\ e.type # "tool/call" /\ e.type # "tool/not-started"
      /\ e.type # "assistant/message"
  BY DEF PlainTypes, WorkTypes, ToolTypes, IsResult
<1> HIDE DEF t
<1>3. Exclusive(t)  BY <1>1, <1>2 DEF Exclusive
<1>4. ASSUME Placed(s, T)  PROVE Placed(t, T)
  BY <1>1, <1>2, <1>4 DEF Placed
<1>5. ASSUME Answered(s, S), S.openStep # None  PROVE Answered(t, S)
  <2>1. ASSUME NEW k \in DOMAIN t, IsResult(t[k]) \/ t[k].type \in {"tool/call", "assistant/message"}
        PROVE  k \in DOMAIN s /\ t[k] = s[k]
    BY <1>1, <1>2, <2>1
  <2>2. /\ \A j, k \in DOMAIN t :
              /\ IsResult(t[j]) /\ Within(S, t[j]) /\ IsResult(t[k]) /\ Within(S, t[k])
              /\ t[j].call = t[k].call
              => j = k
    BY <2>1, <1>5 DEF Answered
  <2>3. \A k \in DOMAIN t : IsResult(t[k]) /\ Within(S, t[k]) =>
              \A i \in DOMAIN S.calls : S.calls[i].call # t[k].call
    BY <2>1, <1>5 DEF Answered
  <2>4. \A k \in DOMAIN t : t[k].type = "tool/call" /\ Within(S, t[k]) =>
              \A i \in DOMAIN S.calls : S.calls[i].call = t[k].call => S.calls[i].started
    BY <2>1, <1>5 DEF Answered
  <2>5. ASSUME NEW k \in DOMAIN t, t[k].type = "assistant/message", Within(S, t[k])
        PROVE  /\ Distinct(t[k].call)
               /\ \A c \in CallIds : (\E i \in DOMAIN t[k].call : t[k].call[i] = c) <=>
                           \/ \E i \in DOMAIN S.calls : S.calls[i].call = c
                           \/ \E l \in DOMAIN t : IsResult(t[l]) /\ Within(S, t[l]) /\ t[l].call = c
    <3>1. k \in DOMAIN s /\ t[k] = s[k]  BY <2>1, <2>5
    <3>2. ASSUME NEW c \in CallIds
          PROVE  (\E l \in DOMAIN t : IsResult(t[l]) /\ Within(S, t[l]) /\ t[l].call = c)
                 <=> (\E l \in DOMAIN s : IsResult(s[l]) /\ Within(S, s[l]) /\ s[l].call = c)
      BY <2>1, <1>1
    <3> QED  BY <3>1, <3>2, <1>5, <2>5 DEF Answered
  <2> QED  BY <2>2, <2>3, <2>4, <2>5 DEF Answered
<1>6. ASSUME Answered(s, S), S.openStep = None  PROVE Answered(t, S)
  BY <1>6 DEF Answered
<1> QED  BY <1>3, <1>4, <1>5, <1>6 DEF t

\* A valid event leaves a sound replay sound.
LEMMA CheckedIs ==
    ASSUME NEW r, NEW e, r.ok, Valid(r.trace, e)
    PROVE  Checked(r, e).ok /\ Checked(r, e).trace = Fold(r.trace, e)
  BY DEF Checked

\* A log stays good when it grows by one event that fits.
LEMMA Grown ==
    ASSUME NEW s, Good(s), NEW e \in Events, Valid(Replay(s).trace, e),
           Balanced(ScanEvent(Scan(s), e), Fold(Replay(s).trace, e)),
           Placed(Append(s, e), Fold(Replay(s).trace, e)),
           Answered(Append(s, e), ScanEvent(Scan(s), e)),
           Opened(Append(s, e), ScanEvent(Scan(s), e)),
           Exclusive(Append(s, e))
    PROVE  Good(Append(s, e))
<1>1. s \in Seq(Events)  BY DEF Good
<1>2. Append(s, e) \in Seq(Events)  BY <1>1
<1>3. Scan(Append(s, e)) = ScanEvent(Scan(s), e) /\ Replay(Append(s, e)) = Checked(Replay(s), e)
  BY <1>1, FoldsAppend
<1>4. Replay(Append(s, e)).ok /\ Replay(Append(s, e)).trace = Fold(Replay(s).trace, e)
  BY <1>3, CheckedIs DEF Good
<1> QED  BY <1>2, <1>3, <1>4 DEF Good

\* A fork's end-seed marker moves neither the companion nor the scan.
LEMMA GoodSeed ==
    ASSUME NEW s, Good(s), NEW e \in Events, e.type = "session/end-seed"
    PROVE  Good(Append(s, e)) /\ Scan(Append(s, e)) = Scan(s)
<1> DEFINE S == Scan(s)  T == Replay(s).trace
<1>1. s \in Seq(Events) /\ e.type \in PlainTypes  BY DEF Good, PlainTypes
<1>2. ScanEvent(S, e) = S  BY DEF ScanEvent
<1>3. Fold(T, e) = T  BY DEF Fold
<1>4. Valid(T, e)  BY ValidIs
<1>5. Append(s, e)[Len(Append(s, e))] = e  BY <1>1, AppendIs
<1>6. Opened(Append(s, e), S)  BY <1>5 DEF Opened
<1>7. Balanced(S, T) /\ Placed(s, T) /\ Answered(s, S) /\ Exclusive(s)  BY DEF Good
<1>8. Placed(Append(s, e), T) /\ Answered(Append(s, e), S) /\ Exclusive(Append(s, e))
  BY <1>1, <1>7, PlainKeeps
<1>9. Scan(Append(s, e)) = S  BY <1>1, <1>2, FoldsAppend
<1> QED  BY <1>2, <1>3, <1>4, <1>6, <1>7, <1>8, <1>9, Grown

\* Without an open turn no step is open, without an open step nothing is pending.
LEMMA NothingOpen ==
    ASSUME NEW S, NEW T, Balanced(S, T)
    PROVE  /\ S.openTurn = None => S.openStep = None
           /\ S.openStep = None => S.calls = <<>> /\ T.pendingCalls = {}
<1>1. T.pendingCalls \subseteq CallIds  BY DEF Balanced, Traces
<1>2. ASSUME S.openStep = None  PROVE T.pendingCalls = {}
  <2>1. DOMAIN S.calls = {}  BY <1>2 DEF Balanced
  <2> QED  BY <1>1, <2>1 DEF Balanced
<1> QED  BY <1>2 DEF Balanced

\* A valid turn/start keeps a log good.
LEMMA GoodTurnStart ==
    ASSUME NEW s, Good(s), NEW e \in Events, e.type = "turn/start", Valid(Replay(s).trace, e)
    PROVE  Good(Append(s, e))
<1> DEFINE S == Scan(s)  T == Replay(s).trace  S2 == ScanEvent(S, e)  T2 == Fold(T, e)
<1>1. s \in Seq(Events) /\ e.type \in PlainTypes /\ e.turn \in Nat  BY EventTypesAre DEF Good, PlainTypes
<1>2. S2 = [openTurn |-> e.turn, openStep |-> None, calls |-> <<>>]  BY DEF ScanEvent, Scanned
<1>3. Balanced(S, T) /\ Placed(s, T) /\ Exclusive(s)  BY DEF Good
<1>4. T.openTurn = None /\ e.turn = T.nextTurn  BY ValidIs
<1>5. T \in Traces /\ T.openStep = None /\ T.pendingCalls = {}
  BY <1>3, <1>4, NothingOpen DEF Balanced
<1>6. T2 = [T EXCEPT !.openTurn = e.turn, !.nextStep = 1]  BY DEF Fold
<1> HIDE DEF S, T, S2, T2
<1>7. /\ T2 \in Traces /\ T2.openTurn = e.turn /\ T2.openStep = None /\ T2.nextTurn = T.nextTurn
      /\ T2.nextStep = 1 /\ T2.pendingCalls = {}
  BY <1>1, <1>5, <1>6, TraceUpdates DEF Traces
<1>8. Balanced(S2, T2)
  <2>1. S2 \in Scanneds  BY <1>1, <1>2 DEF Scanneds, None
  <2> QED  BY <2>1, <1>2, <1>4, <1>7 DEF Balanced
<1>9. Placed(s, T2)  BY <1>3, <1>4, <1>7 DEF Placed
<1>10. Placed(Append(s, e), T2) /\ Exclusive(Append(s, e))  BY <1>1, <1>3, <1>9, PlainKeeps
<1>11. Answered(Append(s, e), S2)  BY <1>2 DEF Answered
<1>12. Append(s, e)[Len(Append(s, e))] = e  BY <1>1, AppendIs
<1>13. Opened(Append(s, e), S2)  BY <1>12 DEF Opened
<1> QED  BY <1>8, <1>10, <1>11, <1>13, Grown DEF S, T, S2, T2

\* So does a valid turn/end, after which the scan of repair.ts is as at the start.
LEMMA GoodTurnEnd ==
    ASSUME NEW s, Good(s), NEW e \in Events, e.type = "turn/end", Valid(Replay(s).trace, e)
    PROVE  Good(Append(s, e)) /\ Scan(Append(s, e)) = Scanned
<1> DEFINE S == Scan(s)  T == Replay(s).trace  S2 == ScanEvent(S, e)  T2 == Fold(T, e)
<1>1. s \in Seq(Events) /\ e.type \in PlainTypes /\ e.turn \in Nat  BY EventTypesAre DEF Good, PlainTypes
<1>2. S2 = Scanned  BY DEF ScanEvent
<1>3. Balanced(S, T) /\ Placed(s, T) /\ Exclusive(s)  BY DEF Good
<1>4. T.openTurn = e.turn /\ e.turn # None /\ T.openStep = None  BY ValidIs
<1>5. T \in Traces /\ T.openTurn = T.nextTurn /\ T.pendingCalls = {}
  BY <1>3, <1>4, NothingOpen DEF Balanced
<1>6. T2 = [T EXCEPT !.openTurn = None, !.nextTurn = @ + 1]  BY DEF Fold
<1>7. Scan(Append(s, e)) = S2  BY <1>1, FoldsAppend
<1> HIDE DEF S, T, S2, T2
<1>8. /\ T2 \in Traces /\ T2.openTurn = None /\ T2.openStep = None /\ T2.nextTurn = T.nextTurn + 1
      /\ T2.pendingCalls = {} /\ T.nextTurn \in Nat
  BY <1>4, <1>5, <1>6, TraceUpdates DEF Traces
<1>9. Balanced(S2, T2)
  <2>1. S2 \in Scanneds  BY <1>2 DEF Scanned, Scanneds, None
  <2> QED  BY <2>1, <1>2, <1>4, <1>8 DEF Balanced, Scanned
<1>10. Placed(s, T2)
  <2> SUFFICES ASSUME NEW k \in DOMAIN s, s[k].type \in WorkTypes
               PROVE  s[k].turn < T2.nextTurn
    BY DEF Placed
  <2>1. s[k] \in Events  BY <1>1
  <2>2. s[k].turn \in Nat  BY <2>1, EventTypesAre
  <2>3. s[k].turn < T.nextTurn \/ s[k].turn = T.openTurn  BY <1>3 DEF Placed
  <2> QED  BY <2>2, <2>3, <1>5, <1>8
<1>11. Placed(Append(s, e), T2) /\ Exclusive(Append(s, e))  BY <1>1, <1>3, <1>10, PlainKeeps
<1>12. Answered(Append(s, e), S2)  BY <1>2 DEF Answered, Scanned
<1>13. Append(s, e)[Len(Append(s, e))] = e  BY <1>1, AppendIs
<1>14. Opened(Append(s, e), S2)  BY <1>13 DEF Opened
<1> QED  BY <1>2, <1>7, <1>9, <1>11, <1>12, <1>14, Grown DEF S, T, S2, T2

\* A valid step/start keeps a log good: its number is new, so no work lies in it.
LEMMA GoodStepStart ==
    ASSUME NEW s, Good(s), NEW e \in Events, e.type = "step/start", Valid(Replay(s).trace, e)
    PROVE  Good(Append(s, e))
<1> DEFINE S == Scan(s)  T == Replay(s).trace  S2 == ScanEvent(S, e)  T2 == Fold(T, e)
<1>1. s \in Seq(Events) /\ e.type \in PlainTypes /\ e.turn \in Nat /\ e.step \in Nat
  BY EventTypesAre DEF Good, PlainTypes
<1>2. S2 = [S EXCEPT !.openStep = e.step]  BY DEF ScanEvent
<1>3. Balanced(S, T) /\ Placed(s, T) /\ Exclusive(s)  BY DEF Good
<1>4. T.openTurn = e.turn /\ e.turn # None /\ T.openStep = None /\ e.step = T.nextStep  BY ValidIs
<1>5. /\ T \in Traces /\ T.openTurn = T.nextTurn /\ T.pendingCalls = {}
      /\ S.calls = <<>> /\ S \in Scanneds /\ S.openTurn = T.openTurn
  BY <1>3, <1>4, NothingOpen DEF Balanced
<1>6. T2 = [T EXCEPT !.openStep = e.step]  BY DEF Fold
<1> HIDE DEF S, T, S2, T2
<1>7. /\ T2 \in Traces /\ T2.openTurn = T.openTurn /\ T2.openStep = e.step /\ T2.nextTurn = T.nextTurn
      /\ T2.nextStep = T.nextStep /\ T2.pendingCalls = {} /\ T.nextStep \in Nat /\ T.nextTurn \in Nat
  BY <1>1, <1>5, <1>6 DEF Traces
<1>8. S2 \in Scanneds /\ S2.openTurn = T.openTurn /\ S2.openStep = e.step /\ S2.calls = <<>>
  BY <1>1, <1>2, <1>5 DEF Scanneds
<1>9. Balanced(S2, T2)
  <2>1. DOMAIN S2.calls = {}  BY <1>8
  <2> QED  BY <2>1, <1>4, <1>5, <1>7, <1>8 DEF Balanced
<1>10. ASSUME NEW k \in DOMAIN s, s[k].type \in WorkTypes
       PROVE  ~Within(S2, s[k]) /\ (s[k].turn < T.nextTurn \/ (s[k].turn = T.openTurn /\ s[k].step < T.nextStep))
  <2>1. s[k] \in Events  BY <1>1
  <2>2. s[k].turn \in Nat /\ s[k].step \in Nat  BY <2>1, EventTypesAre
  <2>3. s[k].turn < T.nextTurn \/ (s[k].turn = T.openTurn /\ s[k].step < T.nextStep)
    BY <1>3, <1>4, <1>10 DEF Placed
  <2>4. S2.openTurn = T.nextTurn /\ S2.openStep = T.nextStep  BY <1>4, <1>5, <1>8
  <2>5. ~Within(S2, s[k])  BY <2>2, <2>3, <2>4, <1>7 DEF Within
  <2> QED  BY <2>3, <2>5
<1>11. Placed(s, T2)  BY <1>4, <1>7, <1>10 DEF Placed
<1>12. Placed(Append(s, e), T2) /\ Exclusive(Append(s, e))  BY <1>1, <1>3, <1>11, PlainKeeps
<1>13. Answered(s, S2)
  <2>1. \A k \in DOMAIN s : Within(S2, s[k]) =>
           ~IsResult(s[k]) /\ s[k].type # "tool/call" /\ s[k].type # "assistant/message"
    BY <1>10 DEF WorkTypes, ToolTypes, IsResult
  <2> QED  BY <2>1 DEF Answered
<1>14. Answered(Append(s, e), S2)  BY <1>1, <1>3, <1>13, PlainKeeps
<1>15. Opened(Append(s, e), S2)
  <2>1. ASSUME NEW k \in DOMAIN Append(s, e), Append(s, e)[k].type \in WorkTypes
        PROVE  ~Within(S2, Append(s, e)[k])
    <3>1. e.type \notin WorkTypes  BY DEF WorkTypes, ToolTypes
    <3>2. k \in DOMAIN s /\ Append(s, e)[k] = s[k]  BY <1>1, <2>1, <3>1, AppendIs
    <3> QED  BY <1>10, <2>1, <3>2
  <2> QED  BY <2>1, <1>8 DEF Opened
<1> QED  BY <1>9, <1>12, <1>14, <1>15, Grown DEF S, T, S2, T2

\* So does a valid step/end, which clears what the scan holds pending.
LEMMA GoodStepEnd ==
    ASSUME NEW s, Good(s), NEW e \in Events, e.type = "step/end", Valid(Replay(s).trace, e)
    PROVE  /\ Good(Append(s, e))
           /\ Scan(Append(s, e)) = [openTurn |-> Scan(s).openTurn, openStep |-> None, calls |-> <<>>]
<1> DEFINE S == Scan(s)  T == Replay(s).trace  S2 == ScanEvent(S, e)  T2 == Fold(T, e)
<1>1. s \in Seq(Events) /\ e.type \in PlainTypes /\ e.turn \in Nat  BY EventTypesAre DEF Good, PlainTypes
<1>2. S2 = [S EXCEPT !.openStep = None, !.calls = <<>>]  BY DEF ScanEvent
<1>3. Balanced(S, T) /\ Placed(s, T) /\ Exclusive(s)  BY DEF Good
<1>4. T.openTurn = e.turn /\ T.openStep = e.step /\ e.step # None
  BY ValidIs
<1>5. /\ T \in Traces /\ T.openTurn = T.nextTurn /\ T.openStep = T.nextStep /\ T.openTurn # None
      /\ S \in Scanneds /\ S.openTurn = T.openTurn
  BY <1>3, <1>4 DEF Balanced
<1>6. T2 = [T EXCEPT !.openStep = None, !.nextStep = @ + 1, !.pendingCalls = {}]  BY DEF Fold
<1>7. Scan(Append(s, e)) = S2  BY <1>1, FoldsAppend
<1> HIDE DEF S, T, S2, T2
<1>8. S2 = [openTurn |-> S.openTurn, openStep |-> None, calls |-> <<>>]
  BY <1>2, <1>5 DEF Scanneds
<1>9. /\ T2 \in Traces /\ T2.openTurn = T.openTurn /\ T2.openStep = None /\ T2.nextTurn = T.nextTurn
      /\ T2.nextStep = T.nextStep + 1 /\ T2.pendingCalls = {} /\ T.nextStep \in Nat
  BY <1>5, <1>6, TraceUpdates DEF Traces
<1>10. Balanced(S2, T2)
  <2>1. S2 \in Scanneds  BY <1>5, <1>8 DEF Scanneds, None
  <2>2. DOMAIN S2.calls = {}  BY <1>8
  <2> QED  BY <2>1, <2>2, <1>5, <1>8, <1>9 DEF Balanced
<1>11. Placed(s, T2)
  <2> SUFFICES ASSUME NEW k \in DOMAIN s, s[k].type \in WorkTypes
               PROVE  \/ s[k].turn < T2.nextTurn
                      \/ T2.openTurn # None /\ s[k].turn = T2.openTurn /\ s[k].step < T2.nextStep
    BY DEF Placed
  <2>1. s[k] \in Events  BY <1>1
  <2>2. s[k].step \in Nat  BY <2>1, EventTypesAre
  <2>3. \/ s[k].turn < T.nextTurn
        \/ s[k].turn = T.openTurn /\ (s[k].step < T.nextStep \/ s[k].step = T.openStep)
    BY <1>3 DEF Placed
  <2> QED  BY <2>2, <2>3, <1>5, <1>9
<1>12. Placed(Append(s, e), T2) /\ Exclusive(Append(s, e))  BY <1>1, <1>3, <1>11, PlainKeeps
<1>13. Answered(Append(s, e), S2)  BY <1>8 DEF Answered
<1>14. Append(s, e)[Len(Append(s, e))] = e  BY <1>1, AppendIs
<1>15. Opened(Append(s, e), S2)  BY <1>14 DEF Opened
<1> QED  BY <1>7, <1>8, <1>10, <1>12, <1>13, <1>15, Grown DEF S, T, S2, T2
-----------------------------------------------------------------------------
(* The work of a step.                                                       *)

\* Deleting a pending call keeps the others, in their order.
LEMMA WithoutIs ==
    ASSUME NEW calls \in Seq(Pendings), NEW i \in DOMAIN calls, NEW c, c = calls[i].call,
           \A j, k \in DOMAIN calls : calls[j].call = calls[k].call => j = k
    PROVE  LET r == Without(calls, c)
           IN  /\ r \in Seq(Pendings)
               /\ \A j \in DOMAIN r : \E k \in DOMAIN calls : k # i /\ r[j] = calls[k]
               /\ \A k \in DOMAIN calls : k # i => \E j \in DOMAIN r : r[j] = calls[k]
               /\ \A j, k \in DOMAIN r : r[j].call = r[k].call => j = k
               /\ i = 1 => r = Tail(calls)
<1> DEFINE r == Without(calls, c)
           before == SubSeq(calls, 1, i - 1)
           behind == SubSeq(calls, i + 1, Len(calls))
           at(j) == IF j < i THEN j ELSE j + 1
<1>1. Len(calls) \in Nat /\ DOMAIN calls = 1..Len(calls) /\ i \in 1..Len(calls) /\ i \in Nat
  OBVIOUS
<1>2. \E k \in DOMAIN calls : calls[k].call = c  OBVIOUS
<1>3. (CHOOSE k \in DOMAIN calls : calls[k].call = c) = i
  BY <1>2
<1>4. r = before \o behind
  BY <1>2, <1>3 DEF Without, RemoveAt
<1>5. /\ before \in Seq(Pendings) /\ Len(before) = i - 1
      /\ \A j \in 1..(i - 1) : before[j] = calls[j]
  BY <1>1, SubSeqProperties
<1>6. /\ behind \in Seq(Pendings) /\ Len(behind) = Len(calls) - i
      /\ \A j \in 1..(Len(calls) - i) : behind[j] = calls[i + j]
  <2>1. i + 1 \in Int /\ Len(calls) \in Int  BY <1>1
  <2>2. \A j \in (i + 1)..Len(calls) : calls[j] \in Pendings  BY <1>1
  <2>3. /\ behind \in Seq(Pendings)
        /\ Len(behind) = IF i + 1 <= Len(calls) THEN Len(calls) - (i + 1) + 1 ELSE 0
        /\ \A j \in 1..(Len(calls) - (i + 1) + 1) : behind[j] = calls[(i + 1) + j - 1]
    BY <2>1, <2>2, SubSeqProperties
  <2>4. Len(behind) = Len(calls) - i  BY <2>3, <1>1
  <2>5. ASSUME NEW j \in 1..(Len(calls) - i)  PROVE behind[j] = calls[i + j]
    <3>1. j \in 1..(Len(calls) - (i + 1) + 1) /\ (i + 1) + j - 1 = i + j  BY <1>1
    <3> QED  BY <2>3, <3>1
  <2> QED  BY <2>3, <2>4, <2>5
<1> HIDE DEF before, behind, r
<1>7. /\ r \in Seq(Pendings) /\ Len(r) = Len(calls) - 1
      /\ \A j \in 1..(Len(calls) - 1) : r[j] = calls[at(j)]
  <2>1. /\ r \in Seq(Pendings) /\ Len(r) = Len(before) + Len(behind)
        /\ \A j \in 1..(Len(before) + Len(behind)) :
              r[j] = IF j <= Len(before) THEN before[j] ELSE behind[j - Len(before)]
    <3>1. before \in Seq(Pendings) /\ behind \in Seq(Pendings)  BY <1>5, <1>6
    <3>2. /\ before \o behind \in Seq(Pendings) /\ Len(before \o behind) = Len(before) + Len(behind)
          /\ \A j \in 1..(Len(before) + Len(behind)) :
                (before \o behind)[j] = IF j <= Len(before) THEN before[j] ELSE behind[j - Len(before)]
      BY <3>1, ConcatProperties
    <3> QED  BY <3>2, <1>4
  <2>2. Len(r) = Len(calls) - 1  BY <2>1, <1>1, <1>5, <1>6
  <2>3. ASSUME NEW j \in 1..(Len(calls) - 1)  PROVE r[j] = calls[at(j)]
    <3>1. CASE j < i
      <4>1. j \in 1..(Len(before) + Len(behind)) /\ j <= Len(before) /\ j \in 1..(i - 1)
        BY <3>1, <1>1, <1>5, <1>6
      <4> QED  BY <4>1, <2>1, <1>5, <3>1
    <3>2. CASE ~(j < i)
      <4>1. /\ j \in 1..(Len(before) + Len(behind)) /\ ~(j <= Len(before))
            /\ j - Len(before) \in 1..(Len(calls) - i) /\ i + (j - Len(before)) = j + 1
        BY <3>2, <1>1, <1>5, <1>6
      <4>2. r[j] = behind[j - Len(before)]  BY <4>1, <2>1
      <4>3. behind[j - Len(before)] = calls[i + (j - Len(before))]  BY <4>1, <1>6
      <4> QED  BY <4>1, <4>2, <4>3, <3>2
    <3> QED  BY <3>1, <3>2
  <2> QED  BY <2>1, <2>2, <2>3
<1>8. DOMAIN r = 1..(Len(calls) - 1)  BY <1>7, <1>1
<1>9. ASSUME NEW j \in DOMAIN r
      PROVE  at(j) \in DOMAIN calls /\ at(j) # i /\ r[j] = calls[at(j)]
  <2>1. at(j) \in DOMAIN calls /\ at(j) # i  BY <1>1, <1>8
  <2> QED  BY <2>1, <1>7, <1>8
<1>10. ASSUME NEW k \in DOMAIN calls, k # i  PROVE \E j \in DOMAIN r : r[j] = calls[k]
  <2>1. CASE k < i
    <3>1. k \in DOMAIN r /\ at(k) = k  BY <2>1, <1>1, <1>8
    <3> QED  BY <3>1, <1>9
  <2>2. CASE ~(k < i)
    <3>1. k - 1 \in DOMAIN r /\ at(k - 1) = k  BY <2>2, <1>1, <1>8, <1>10
    <3> QED  BY <3>1, <1>9
  <2> QED  BY <2>1, <2>2
<1>11. ASSUME NEW j \in DOMAIN r, NEW k \in DOMAIN r, r[j].call = r[k].call  PROVE j = k
  <2>1. at(j) = at(k)  BY <1>9, <1>11
  <2>2. j \in Nat /\ k \in Nat  BY <1>8
  <2> QED  BY <2>1, <2>2, <1>1
<1>12. ASSUME i = 1  PROVE r = Tail(calls)
  <2>1. /\ Tail(calls) \in Seq(Pendings) /\ Len(Tail(calls)) = Len(calls) - 1
        /\ \A j \in 1..Len(Tail(calls)) : Tail(calls)[j] = calls[j + 1]
    <3>1. calls # <<>>  BY <1>1
    <3> QED  BY <3>1, HeadTailProperties
  <2>2. \A j \in 1..(Len(calls) - 1) : r[j] = calls[j + 1]
    BY <1>7, <1>12
  <2> QED  BY <2>1, <2>2, <1>7
<1> QED  BY <1>7, <1>9, <1>10, <1>11, <1>12 DEF r

\* So does the response of a step that has just started: its calls become pending.
LEMMA GoodMessage ==
    ASSUME NEW s, Good(s), NEW e \in Events, e.type = "assistant/message", Valid(Replay(s).trace, e),
           s # <<>>, s[Len(s)].type = "step/start", Distinct(e.call)
    PROVE  Good(Append(s, e))
<1> DEFINE S == Scan(s)  T == Replay(s).trace  S2 == ScanEvent(S, e)  T2 == Fold(T, e)  t == Append(s, e)
           pending == [i \in DOMAIN e.call |-> [call |-> e.call[i], step |-> e.step, started |-> FALSE]]
<1>1. s \in Seq(Events) /\ e.step \in Nat /\ e.turn \in Nat /\ e.call \in Seq(CallIds) /\ e.type \in WorkTypes
  BY EventTypesAre DEF Good, WorkTypes
<1>2. S2 = [S EXCEPT !.calls = @ \o pending]  BY DEF ScanEvent
<1>3. Balanced(S, T) /\ Placed(s, T) /\ Exclusive(s) /\ Opened(s, S)  BY DEF Good
<1>4. T.openTurn = e.turn /\ T.openStep = e.step /\ e.step # None  BY ValidIs
<1>5. S.calls = <<>> /\ \A k \in DOMAIN s : s[k].type \in WorkTypes => ~Within(S, s[k])
  BY <1>3 DEF Opened
<1>6. T2 = T  BY DEF Fold
<1>7. pending \in Seq(Pendings) /\ DOMAIN pending = DOMAIN e.call
  <2>1. \A i \in DOMAIN e.call : pending[i] \in Pendings  BY <1>1 DEF Pendings
  <2>2. Len(e.call) \in Nat /\ DOMAIN e.call = 1..Len(e.call)  BY <1>1
  <2>3. pending \in [1..Len(e.call) -> Pendings]  BY <2>1, <2>2
  <2> QED  BY <2>2, <2>3, SeqDef
<1>8. <<>> \o pending = pending  BY <1>7
<1>9. /\ S \in Scanneds /\ S.openTurn = e.turn /\ S.openStep = e.step
      /\ T \in Traces /\ T.pendingCalls = {}
      /\ S.openTurn = T.nextTurn /\ S.openTurn # None /\ S.openStep = T.nextStep
  <2>1. DOMAIN S.calls = {}  BY <1>5
  <2>2. T.pendingCalls \subseteq CallIds  BY <1>3, TraceUpdates DEF Balanced
  <2> QED  BY <1>3, <1>4, <2>1, <2>2 DEF Balanced
<1>10. /\ \A k \in DOMAIN s : k \in DOMAIN t /\ t[k] = s[k]
       /\ \A k \in DOMAIN t : k \in DOMAIN s \/ t[k] = e
       /\ \A j, k \in DOMAIN t : j \notin DOMAIN s /\ k \notin DOMAIN s => j = k
       /\ t[Len(t)] = e
  BY <1>1, AppendIs
<1>11. \A i \in DOMAIN e.call : e.call[i] \in CallIds  BY <1>1
<1> HIDE DEF S, T, S2, T2, t
<1>12. S2.openTurn = e.turn /\ S2.openStep = e.step /\ S2.calls = pending /\ S2 \in Scanneds
  <2>1. S2 = [openTurn |-> S.openTurn, openStep |-> S.openStep, calls |-> pending]
    BY <1>2, <1>5, <1>8, <1>9 DEF Scanneds
  <2> QED  BY <2>1, <1>7, <1>9 DEF Scanneds
<1>13. /\ DOMAIN S2.calls = DOMAIN e.call
       /\ \A i \in DOMAIN e.call : /\ S2.calls[i].call = e.call[i] /\ S2.calls[i].step = e.step
                                   /\ ~S2.calls[i].started
  BY <1>7, <1>12
<1> HIDE DEF pending
<1>14. Balanced(S2, T2)
  <2>1. \A i, j \in DOMAIN S2.calls : S2.calls[i].call = S2.calls[j].call => i = j
    BY <1>13 DEF Distinct
  <2>2. \A c \in CallIds : c \in T2.pendingCalls
           <=> \E i \in DOMAIN S2.calls : S2.calls[i].call = c /\ S2.calls[i].started
    BY <1>6, <1>9, <1>13
  <2> QED  BY <2>1, <2>2, <1>4, <1>6, <1>9, <1>12, <1>13 DEF Balanced
<1>15. Placed(t, T2)
  BY <1>3, <1>4, <1>6, <1>9, <1>10 DEF Placed
<1>16. ASSUME NEW k \in DOMAIN t, Within(S2, t[k]), t[k].type \in WorkTypes
       PROVE  k \notin DOMAIN s /\ t[k] = e
  BY <1>5, <1>9, <1>10, <1>12, <1>16 DEF Within
<1>17. Answered(t, S2)
  <2>1. ~IsResult(e) /\ e.type # "tool/call"  BY DEF IsResult
  <2>2. \A k \in DOMAIN t : ~(IsResult(t[k]) /\ Within(S2, t[k]))
    BY <2>1, <1>16 DEF IsResult, WorkTypes, ToolTypes
  <2>3. \A k \in DOMAIN t : ~(t[k].type = "tool/call" /\ Within(S2, t[k]))
    BY <2>1, <1>16 DEF WorkTypes, ToolTypes
  <2>4. \A k \in DOMAIN t : t[k].type = "assistant/message" /\ Within(S2, t[k]) => t[k] = e
    BY <1>16 DEF WorkTypes
  <2>5. \A c \in CallIds : (\E i \in DOMAIN e.call : e.call[i] = c)
                           <=> \E i \in DOMAIN S2.calls : S2.calls[i].call = c
    BY <1>13
  <2> QED  BY <2>2, <2>3, <2>4, <2>5 DEF Answered
<1>18. Opened(t, S2)  BY <1>10 DEF Opened
<1>19. Exclusive(t)  BY <1>3, <1>10 DEF Exclusive
<1>20. Valid(T, e)  BY DEF T
<1> QED  BY <1>14, <1>15, <1>17, <1>18, <1>19, <1>20, Grown DEF S, T, S2, T2, t
\* So does the record of a pending call, which becomes a started one.
LEMMA GoodCall ==
    ASSUME NEW s, Good(s), NEW e \in Events, e.type = "tool/call", Valid(Replay(s).trace, e),
           NEW i \in DOMAIN Scan(s).calls, Scan(s).calls[i].call = e.call
    PROVE  Good(Append(s, e))
<1> DEFINE S == Scan(s)  T == Replay(s).trace  S2 == ScanEvent(S, e)  T2 == Fold(T, e)  t == Append(s, e)
           calls == [k \in DOMAIN S.calls |-> IF S.calls[k].call = e.call
                                              THEN [S.calls[k] EXCEPT !.started = TRUE] ELSE S.calls[k]]
<1>1. s \in Seq(Events) /\ e.step \in Nat /\ e.turn \in Nat /\ e.call \in CallIds /\ e.type \in WorkTypes
  BY EventTypesAre DEF Good, WorkTypes, ToolTypes
<1>2. S2 = [S EXCEPT !.calls = calls]  BY DEF ScanEvent
<1>3. Balanced(S, T) /\ Placed(s, T) /\ Exclusive(s) /\ Answered(s, S)  BY DEF Good
<1>4. T.openTurn = e.turn /\ T.openStep = e.step /\ e.step # None  BY ValidIs
<1>5. T2 = [T EXCEPT !.pendingCalls = @ \cup {e.call}]  BY DEF Fold
<1>6. /\ S \in Scanneds /\ S.calls \in Seq(Pendings) /\ S.openTurn = e.turn /\ S.openStep = e.step
      /\ T \in Traces
      /\ S.openTurn = T.nextTurn /\ S.openTurn # None /\ S.openStep = T.nextStep
  BY <1>3, <1>4 DEF Balanced, Scanneds
<1>7. /\ \A k \in DOMAIN s : k \in DOMAIN t /\ t[k] = s[k]
      /\ \A k \in DOMAIN t : k \in DOMAIN s \/ t[k] = e
      /\ \A j, k \in DOMAIN t : j \notin DOMAIN s /\ k \notin DOMAIN s => j = k
      /\ t[Len(t)] = e
  BY <1>1, AppendIs
<1>8. i \in DOMAIN S.calls /\ S.calls[i].call = e.call /\ Valid(T, e)  OBVIOUS
<1> HIDE DEF S, T, S2, T2, t
<1>9. \A k \in DOMAIN S.calls : S.calls[k] \in Pendings  BY <1>6
<1>10. /\ DOMAIN calls = DOMAIN S.calls
       /\ \A k \in DOMAIN S.calls :
             /\ calls[k] \in Pendings /\ calls[k].call = S.calls[k].call /\ calls[k].step = S.calls[k].step
             /\ calls[k].started <=> S.calls[k].started \/ S.calls[k].call = e.call
  <2> SUFFICES ASSUME NEW k \in DOMAIN S.calls
               PROVE  /\ calls[k] \in Pendings /\ calls[k].call = S.calls[k].call
                      /\ calls[k].step = S.calls[k].step
                      /\ calls[k].started <=> S.calls[k].started \/ S.calls[k].call = e.call
    OBVIOUS
  <2>1. S.calls[k] = [call |-> S.calls[k].call, step |-> S.calls[k].step, started |-> S.calls[k].started]
    BY <1>9 DEF Pendings
  <2>2. CASE S.calls[k].call = e.call
    <3>1. calls[k] = [S.calls[k] EXCEPT !.started = TRUE]  BY <2>2
    <3> HIDE DEF calls
    <3>2. calls[k] = [call |-> S.calls[k].call, step |-> S.calls[k].step, started |-> TRUE]
      BY <2>1, <3>1
    <3> QED  BY <2>2, <3>2, <1>9 DEF Pendings
  <2>3. CASE S.calls[k].call # e.call
    <3>1. calls[k] = S.calls[k]  BY <2>3
    <3> QED  BY <2>3, <3>1, <1>9
  <2> QED  BY <2>2, <2>3
<1> HIDE DEF calls
<1>11. calls \in Seq(Pendings)
  <2>1. Len(S.calls) \in Nat /\ DOMAIN S.calls = 1..Len(S.calls)  BY <1>6
  <2>2. calls = [k \in DOMAIN S.calls |-> calls[k]]  BY DEF calls
  <2>3. calls \in [1..Len(S.calls) -> Pendings]  BY <1>10, <2>1, <2>2
  <2> QED  BY <2>1, <2>3, SeqDef
<1>12. S2.openTurn = e.turn /\ S2.openStep = e.step /\ S2.calls = calls /\ S2 \in Scanneds
  <2>1. S2 = [openTurn |-> S.openTurn, openStep |-> S.openStep, calls |-> calls]
    BY <1>2, <1>6 DEF Scanneds
  <2> QED  BY <2>1, <1>6, <1>11 DEF Scanneds
<1>13. /\ T2 \in Traces /\ T2.openTurn = T.openTurn /\ T2.openStep = T.openStep
       /\ T2.nextTurn = T.nextTurn /\ T2.nextStep = T.nextStep
       /\ T2.pendingCalls = T.pendingCalls \cup {e.call}
  BY <1>1, <1>5, <1>6, TraceUpdates DEF Traces
<1>14. /\ \A k \in DOMAIN S.calls : S.calls[k].step = S.openStep
       /\ \A j, k \in DOMAIN S.calls : S.calls[j].call = S.calls[k].call => j = k
       /\ \A c \in CallIds : c \in T.pendingCalls
             <=> \E k \in DOMAIN S.calls : S.calls[k].call = c /\ S.calls[k].started
  BY <1>3 DEF Balanced
<1>15. Balanced(S2, T2)
  <2>1. ASSUME NEW c \in CallIds
        PROVE  c \in T2.pendingCalls <=> \E k \in DOMAIN calls : calls[k].call = c /\ calls[k].started
    BY <1>8, <1>10, <1>13, <1>14
  <2>2. ASSUME NEW k \in DOMAIN calls  PROVE calls[k].step = S2.openStep
    <3>1. calls[k].step = S.calls[k].step /\ S.calls[k].step = S.openStep  BY <1>10, <1>14
    <3> QED  BY <3>1, <1>6, <1>12
  <2>3. \A j, k \in DOMAIN calls : calls[j].call = calls[k].call => j = k  BY <1>10, <1>14
  <2>4. /\ S2.openTurn = T2.openTurn /\ S2.openStep = T2.openStep /\ S2.openTurn = T2.nextTurn
        /\ S2.openTurn # None /\ S2.openStep = T2.nextStep /\ S2.openStep # None
    BY <1>4, <1>6, <1>12, <1>13
  <2>5. S2 \in Scanneds /\ T2 \in Traces /\ S2.calls = calls  BY <1>12, <1>13
  <2> QED  BY <2>1, <2>2, <2>3, <2>4, <2>5, Zenon DEF Balanced
<1>16. Placed(t, T2)
  BY <1>3, <1>4, <1>6, <1>7, <1>13 DEF Placed
<1>17. \A x : Within(S2, x) <=> Within(S, x)  BY <1>6, <1>12 DEF Within
<1>18. ~IsResult(e) /\ e.type # "assistant/message"  BY DEF IsResult
<1>19. \A k \in DOMAIN t : IsResult(t[k]) \/ t[k].type = "assistant/message" => k \in DOMAIN s /\ t[k] = s[k]
  BY <1>7, <1>18
<1>20. /\ \A j, k \in DOMAIN s :
              /\ IsResult(s[j]) /\ Within(S, s[j]) /\ IsResult(s[k]) /\ Within(S, s[k])
              /\ s[j].call = s[k].call
              => j = k
       /\ \A k \in DOMAIN s : IsResult(s[k]) /\ Within(S, s[k]) =>
              \A l \in DOMAIN S.calls : S.calls[l].call # s[k].call
       /\ \A k \in DOMAIN s : s[k].type = "tool/call" /\ Within(S, s[k]) =>
              \A l \in DOMAIN S.calls : S.calls[l].call = s[k].call => S.calls[l].started
       /\ \A k \in DOMAIN s : s[k].type = "assistant/message" /\ Within(S, s[k]) =>
              /\ Distinct(s[k].call)
              /\ \A c \in CallIds : (\E l \in DOMAIN s[k].call : s[k].call[l] = c) <=>
                           \/ \E l \in DOMAIN S.calls : S.calls[l].call = c
                           \/ \E l \in DOMAIN s : IsResult(s[l]) /\ Within(S, s[l]) /\ s[l].call = c
  BY <1>3, <1>4, <1>6, Zenon DEF Answered
<1>21. Answered(t, S2)
  <2>1. \A j, k \in DOMAIN t :
              /\ IsResult(t[j]) /\ Within(S2, t[j]) /\ IsResult(t[k]) /\ Within(S2, t[k])
              /\ t[j].call = t[k].call
              => j = k
    BY <1>17, <1>19, <1>20
  <2>2. \A k \in DOMAIN t : IsResult(t[k]) /\ Within(S2, t[k]) =>
              \A l \in DOMAIN S2.calls : S2.calls[l].call # t[k].call
    BY <1>10, <1>12, <1>17, <1>19, <1>20
  <2>3. ASSUME NEW k \in DOMAIN t, t[k].type = "tool/call", Within(S2, t[k]),
               NEW l \in DOMAIN S2.calls, S2.calls[l].call = t[k].call
        PROVE  S2.calls[l].started
    <3>1. l \in DOMAIN S.calls /\ S.calls[l].call = t[k].call  BY <2>3, <1>10, <1>12
    <3>2. CASE t[k] = e
      BY <3>1, <3>2, <1>10, <1>12
    <3>3. CASE k \in DOMAIN s
      <4>1. S.calls[l].started  BY <2>3, <3>1, <3>3, <1>7, <1>17, <1>20
      <4> QED  BY <3>1, <4>1, <1>10, <1>12
    <3> QED  BY <3>2, <3>3, <1>7
  <2>4. ASSUME NEW k \in DOMAIN t, t[k].type = "assistant/message", Within(S2, t[k])
        PROVE  /\ Distinct(t[k].call)
               /\ \A c \in CallIds : (\E l \in DOMAIN t[k].call : t[k].call[l] = c) <=>
                           \/ \E l \in DOMAIN S2.calls : S2.calls[l].call = c
                           \/ \E l \in DOMAIN t : IsResult(t[l]) /\ Within(S2, t[l]) /\ t[l].call = c
    <3>1. k \in DOMAIN s /\ t[k] = s[k] /\ Within(S, s[k])  BY <2>4, <1>17, <1>19
    <3>2. ASSUME NEW c \in CallIds
          PROVE  (\E l \in DOMAIN t : IsResult(t[l]) /\ Within(S2, t[l]) /\ t[l].call = c)
                 <=> (\E l \in DOMAIN s : IsResult(s[l]) /\ Within(S, s[l]) /\ s[l].call = c)
      BY <1>7, <1>17, <1>19
    <3>3. ASSUME NEW c
          PROVE  (\E l \in DOMAIN S2.calls : S2.calls[l].call = c) <=> (\E l \in DOMAIN S.calls : S.calls[l].call = c)
      BY <1>10, <1>12
    <3>4. Distinct(t[k].call)  BY <3>1, <2>4, <1>20
    <3>5. ASSUME NEW c \in CallIds
          PROVE  (\E l \in DOMAIN t[k].call : t[k].call[l] = c) <=>
                           \/ \E l \in DOMAIN S.calls : S.calls[l].call = c
                           \/ \E l \in DOMAIN s : IsResult(s[l]) /\ Within(S, s[l]) /\ s[l].call = c
      BY <3>1, <2>4, <1>20
    <3> QED  BY <3>2, <3>3, <3>4, <3>5
  <2> QED  BY <2>1, <2>2, <2>3, <2>4, Zenon DEF Answered
<1>22. Opened(t, S2)  BY <1>7 DEF Opened
<1>23. Exclusive(t)
  <2> SUFFICES ASSUME NEW j \in DOMAIN t, NEW k \in DOMAIN t,
                      t[j].type = "tool/call", t[k].type = "tool/not-started",
                      t[j].turn = t[k].turn, t[j].step = t[k].step, t[j].call = t[k].call
               PROVE  FALSE
    BY DEF Exclusive
  <2>1. k \in DOMAIN s /\ t[k] = s[k] /\ IsResult(s[k])  BY <1>19 DEF IsResult
  <2>2. CASE j \in DOMAIN s  BY <2>1, <2>2, <1>3, <1>7 DEF Exclusive
  <2>3. CASE t[j] = e
    <3>1. Within(S, s[k])  BY <2>1, <2>3, <1>6 DEF Within
    <3> QED  BY <2>1, <2>3, <3>1, <1>8, <1>20
  <2> QED  BY <2>2, <2>3, <1>7
<1> QED  BY <1>8, <1>15, <1>16, <1>21, <1>22, <1>23, Grown DEF S, T, S2, T2, t

\* The result of a started call, or the report of one that was not.
LEMMA GoodResult ==
    ASSUME NEW s, Good(s), NEW e \in Events, IsResult(e),
           NEW i \in DOMAIN Scan(s).calls, Scan(s).calls[i].call = e.call,
           e.type = ResultType(Scan(s).calls[i]),
           e.turn = Scan(s).openTurn, e.step = Scan(s).openStep
    PROVE  /\ Good(Append(s, e))
           /\ i = 1 => Scan(Append(s, e)) = [Scan(s) EXCEPT !.calls = Tail(@)]
<1> DEFINE S == Scan(s)  T == Replay(s).trace  S2 == ScanEvent(S, e)  T2 == Fold(T, e)  t == Append(s, e)
           calls == Without(S.calls, e.call)
<1>1. s \in Seq(Events) /\ e.step \in Nat /\ e.turn \in Nat /\ e.call \in CallIds /\ e.type \in WorkTypes
  BY EventTypesAre DEF Good, WorkTypes, ToolTypes, IsResult
<1>2. S2 = [S EXCEPT !.calls = calls]  BY DEF ScanEvent, IsResult
<1>3. Balanced(S, T) /\ Placed(s, T) /\ Exclusive(s) /\ Answered(s, S)  BY DEF Good
<1>4. i \in DOMAIN S.calls /\ S.calls[i].call = e.call /\ e.type = ResultType(S.calls[i])
  OBVIOUS
<1>5. T2 = [T EXCEPT !.pendingCalls = @ \ {e.call}]  BY DEF Fold, IsResult
<1>6. /\ S \in Scanneds /\ S.calls \in Seq(Pendings) /\ S.openTurn = e.turn /\ S.openStep = e.step
      /\ T \in Traces /\ T.openTurn = e.turn /\ T.openStep = e.step
      /\ S.openTurn = T.nextTurn /\ S.openTurn # None /\ S.openStep = T.nextStep /\ S.openStep # None
  <2>1. S.openStep # None
    <3>1. ASSUME S.openStep = None  PROVE FALSE
      <4>1. S.calls = <<>>  BY <1>3, <3>1 DEF Balanced
      <4> QED  BY <4>1, <1>4
    <3> QED  BY <3>1
  <2> QED  BY <2>1, <1>3 DEF Balanced, Scanneds
<1>7. /\ \A k \in DOMAIN s : k \in DOMAIN t /\ t[k] = s[k]
      /\ \A k \in DOMAIN t : k \in DOMAIN s \/ t[k] = e
      /\ \A j, k \in DOMAIN t : j \notin DOMAIN s /\ k \notin DOMAIN s => j = k
      /\ t[Len(t)] = e
      /\ \E k \in DOMAIN t : t[k] = e
  BY <1>1, AppendIs
<1>8. /\ \A k \in DOMAIN S.calls : S.calls[k].step = S.openStep
      /\ \A j, k \in DOMAIN S.calls : S.calls[j].call = S.calls[k].call => j = k
      /\ \A c \in CallIds : c \in T.pendingCalls
             <=> \E k \in DOMAIN S.calls : S.calls[k].call = c /\ S.calls[k].started
  BY <1>3 DEF Balanced
<1>9. Scan(t) = S2  BY <1>1, FoldsAppend
<1> HIDE DEF S, T, S2, T2, t
<1>10. /\ calls \in Seq(Pendings)
       /\ \A j \in DOMAIN calls : \E k \in DOMAIN S.calls : k # i /\ calls[j] = S.calls[k]
       /\ \A k \in DOMAIN S.calls : k # i => \E j \in DOMAIN calls : calls[j] = S.calls[k]
       /\ \A j, k \in DOMAIN calls : calls[j].call = calls[k].call => j = k
       /\ i = 1 => calls = Tail(S.calls)
  <2>1. S.calls \in Seq(Pendings)  BY <1>6
  <2>2. e.call = S.calls[i].call  BY <1>4
  <2>3. \A j, k \in DOMAIN S.calls : S.calls[j].call = S.calls[k].call => j = k  BY <1>8
  <2>4. i \in DOMAIN S.calls  BY <1>4
  <2> QED  BY <2>1, <2>2, <2>3, <2>4, WithoutIs
<1> HIDE DEF calls
<1>11. Valid(T, e)
  <2>1. CASE e.type = "tool/not-started"  BY <2>1, <1>6, ValidIs
  <2>2. CASE e.type = "tool/result"
    <3>1. S.calls[i].started  BY <2>2, <1>4 DEF ResultType
    <3>2. e.call \in T.pendingCalls  BY <3>1, <1>1, <1>4, <1>8
    <3> QED  BY <2>2, <3>2, <1>6, ValidIs
  <2> QED  BY <2>1, <2>2 DEF IsResult
<1>12. /\ S2.openTurn = e.turn /\ S2.openStep = e.step /\ S2.calls = calls /\ S2 \in Scanneds
       /\ S2 = [openTurn |-> S.openTurn, openStep |-> S.openStep, calls |-> calls]
  <2>1. S2 = [openTurn |-> S.openTurn, openStep |-> S.openStep, calls |-> calls]
    BY <1>2, <1>6 DEF Scanneds
  <2> QED  BY <2>1, <1>6, <1>10 DEF Scanneds
<1>13. /\ T2 \in Traces /\ T2.openTurn = T.openTurn /\ T2.openStep = T.openStep
       /\ T2.nextTurn = T.nextTurn /\ T2.nextStep = T.nextStep
       /\ T2.pendingCalls = T.pendingCalls \ {e.call}
  BY <1>1, <1>5, <1>6, TraceUpdates DEF Traces
\* The calls left are those of the others.
<1>14. /\ \A j \in DOMAIN calls : calls[j].call # e.call
       /\ \A c : c # e.call => ((\E j \in DOMAIN calls : calls[j].call = c)
                                <=> \E k \in DOMAIN S.calls : S.calls[k].call = c)
       /\ \A c : c # e.call => ((\E j \in DOMAIN calls : calls[j].call = c /\ calls[j].started)
                                <=> \E k \in DOMAIN S.calls : S.calls[k].call = c /\ S.calls[k].started)
  <2>1. \A j \in DOMAIN calls : calls[j].call # e.call  BY <1>4, <1>8, <1>10
  <2>2. ASSUME NEW c, c # e.call
        PROVE  (\E j \in DOMAIN calls : calls[j].call = c) <=> \E k \in DOMAIN S.calls : S.calls[k].call = c
    BY <2>2, <1>4, <1>10
  <2>3. ASSUME NEW c, c # e.call
        PROVE  (\E j \in DOMAIN calls : calls[j].call = c /\ calls[j].started)
               <=> \E k \in DOMAIN S.calls : S.calls[k].call = c /\ S.calls[k].started
    BY <2>3, <1>4, <1>10
  <2> QED  BY <2>1, <2>2, <2>3
<1>15. Balanced(S2, T2)
  <2>1. ASSUME NEW c \in CallIds
        PROVE  c \in T2.pendingCalls <=> \E k \in DOMAIN calls : calls[k].call = c /\ calls[k].started
    <3>1. CASE c = e.call  BY <3>1, <1>13, <1>14
    <3>2. CASE c # e.call  BY <3>2, <1>8, <1>13, <1>14
    <3> QED  BY <3>1, <3>2
  <2>2. ASSUME NEW k \in DOMAIN calls  PROVE calls[k].step = S2.openStep
    <3>1. calls[k].step = S.openStep  BY <1>8, <1>10
    <3> QED  BY <3>1, <1>6, <1>12
  <2>3. \A j, k \in DOMAIN calls : calls[j].call = calls[k].call => j = k  BY <1>10
  <2>4. /\ S2.openTurn = T2.openTurn /\ S2.openStep = T2.openStep /\ S2.openTurn = T2.nextTurn
        /\ S2.openTurn # None /\ S2.openStep = T2.nextStep /\ S2.openStep # None
    BY <1>6, <1>12, <1>13
  <2>5. S2 \in Scanneds /\ T2 \in Traces /\ S2.calls = calls  BY <1>12, <1>13
  <2> QED  BY <2>1, <2>2, <2>3, <2>4, <2>5, Zenon DEF Balanced
<1>16. Placed(t, T2)
  BY <1>3, <1>6, <1>7, <1>13 DEF Placed
<1>17. \A x : Within(S2, x) <=> Within(S, x)  BY <1>6, <1>12 DEF Within
<1>18. Within(S2, e)  BY <1>12 DEF Within
<1>19. e.type # "tool/call" /\ e.type # "assistant/message"  BY DEF IsResult
<1>20. /\ \A j, k \in DOMAIN s :
              /\ IsResult(s[j]) /\ Within(S, s[j]) /\ IsResult(s[k]) /\ Within(S, s[k])
              /\ s[j].call = s[k].call
              => j = k
       /\ \A k \in DOMAIN s : IsResult(s[k]) /\ Within(S, s[k]) =>
              \A l \in DOMAIN S.calls : S.calls[l].call # s[k].call
       /\ \A k \in DOMAIN s : s[k].type = "tool/call" /\ Within(S, s[k]) =>
              \A l \in DOMAIN S.calls : S.calls[l].call = s[k].call => S.calls[l].started
       /\ \A k \in DOMAIN s : s[k].type = "assistant/message" /\ Within(S, s[k]) =>
              /\ Distinct(s[k].call)
              /\ \A c \in CallIds : (\E l \in DOMAIN s[k].call : s[k].call[l] = c) <=>
                           \/ \E l \in DOMAIN S.calls : S.calls[l].call = c
                           \/ \E l \in DOMAIN s : IsResult(s[l]) /\ Within(S, s[l]) /\ s[l].call = c
  BY <1>3, <1>6, Zenon DEF Answered
<1>21. Answered(t, S2)
  <2>1. ASSUME NEW j \in DOMAIN t, NEW k \in DOMAIN t, IsResult(t[j]), Within(S2, t[j]),
               IsResult(t[k]), Within(S2, t[k]), t[j].call = t[k].call
        PROVE  j = k
    <3>1. CASE j \in DOMAIN s /\ k \in DOMAIN s  BY <2>1, <3>1, <1>7, <1>17, <1>20
    <3>2. CASE j \in DOMAIN s /\ k \notin DOMAIN s  BY <2>1, <3>2, <1>4, <1>7, <1>17, <1>20
    <3>3. CASE j \notin DOMAIN s /\ k \in DOMAIN s  BY <2>1, <3>3, <1>4, <1>7, <1>17, <1>20
    <3>4. CASE j \notin DOMAIN s /\ k \notin DOMAIN s  BY <3>4, <1>7
    <3> QED  BY <3>1, <3>2, <3>3, <3>4
  <2>2. ASSUME NEW k \in DOMAIN t, IsResult(t[k]), Within(S2, t[k]), NEW l \in DOMAIN S2.calls
        PROVE  S2.calls[l].call # t[k].call
    <3>1. CASE k \in DOMAIN s  BY <2>2, <3>1, <1>7, <1>10, <1>12, <1>17, <1>20
    <3>2. CASE t[k] = e  BY <2>2, <3>2, <1>12, <1>14
    <3> QED  BY <3>1, <3>2, <1>7
  <2>3. ASSUME NEW k \in DOMAIN t, t[k].type = "tool/call", Within(S2, t[k]),
               NEW l \in DOMAIN S2.calls, S2.calls[l].call = t[k].call
        PROVE  S2.calls[l].started
    <3>1. k \in DOMAIN s /\ t[k] = s[k]  BY <2>3, <1>7, <1>19
    <3>2. PICK m \in DOMAIN S.calls : S2.calls[l] = S.calls[m]  BY <2>3, <1>10, <1>12
    <3> QED  BY <2>3, <3>1, <3>2, <1>17, <1>20
  <2>4. ASSUME NEW k \in DOMAIN t, t[k].type = "assistant/message", Within(S2, t[k])
        PROVE  /\ Distinct(t[k].call)
               /\ \A c \in CallIds : (\E l \in DOMAIN t[k].call : t[k].call[l] = c) <=>
                           \/ \E l \in DOMAIN S2.calls : S2.calls[l].call = c
                           \/ \E l \in DOMAIN t : IsResult(t[l]) /\ Within(S2, t[l]) /\ t[l].call = c
    <3>1. k \in DOMAIN s /\ t[k] = s[k] /\ Within(S, s[k])  BY <2>4, <1>7, <1>17, <1>19
    <3>2. ASSUME NEW c \in CallIds
          PROVE  (\E l \in DOMAIN t : IsResult(t[l]) /\ Within(S2, t[l]) /\ t[l].call = c)
                 <=> (c = e.call \/ \E l \in DOMAIN s : IsResult(s[l]) /\ Within(S, s[l]) /\ s[l].call = c)
      BY <1>7, <1>17, <1>18
    <3>3. ASSUME NEW c \in CallIds
          PROVE  ((\E l \in DOMAIN S2.calls : S2.calls[l].call = c) \/ c = e.call)
                 <=> (\E l \in DOMAIN S.calls : S.calls[l].call = c)
      BY <1>4, <1>12, <1>14
    <3>4. Distinct(t[k].call)  BY <3>1, <2>4, <1>20
    <3>5. ASSUME NEW c \in CallIds
          PROVE  (\E l \in DOMAIN t[k].call : t[k].call[l] = c) <=>
                           \/ \E l \in DOMAIN S.calls : S.calls[l].call = c
                           \/ \E l \in DOMAIN s : IsResult(s[l]) /\ Within(S, s[l]) /\ s[l].call = c
      BY <3>1, <2>4, <1>20
    <3> QED  BY <3>2, <3>3, <3>4, <3>5
  <2> QED  BY <2>1, <2>2, <2>3, <2>4, Zenon DEF Answered
<1>22. Opened(t, S2)  BY <1>7 DEF Opened, IsResult
<1>23. Exclusive(t)
  <2> SUFFICES ASSUME NEW j \in DOMAIN t, NEW k \in DOMAIN t,
                      t[j].type = "tool/call", t[k].type = "tool/not-started",
                      t[j].turn = t[k].turn, t[j].step = t[k].step, t[j].call = t[k].call
               PROVE  FALSE
    BY DEF Exclusive
  <2>1. j \in DOMAIN s /\ t[j] = s[j]  BY <1>7, <1>19
  <2>2. CASE k \in DOMAIN s  BY <2>1, <2>2, <1>3, <1>7 DEF Exclusive
  <2>3. CASE t[k] = e
    <3>1. Within(S, s[j])  BY <2>1, <2>3, <1>6 DEF Within
    <3>2. S.calls[i].started  BY <2>1, <2>3, <3>1, <1>4, <1>20
    <3> QED  BY <2>3, <3>2, <1>4 DEF ResultType
  <2> QED  BY <2>2, <2>3, <1>7
<1>24. i = 1 => Scan(t) = [S EXCEPT !.calls = Tail(@)]
  BY <1>2, <1>9, <1>10, <1>6 DEF Scanneds
<1> QED  BY <1>11, <1>15, <1>16, <1>21, <1>22, <1>23, <1>24, Grown DEF S, T, S2, T2, t
-----------------------------------------------------------------------------
(* The closers.                                                              *)

\* The results of the unanswered calls, and the ends of what is open.
Answer(S, i) == Event(ResultType(S.calls[i]), S.openTurn, S.calls[i].step, S.calls[i].call)
Answers(S) == [i \in DOMAIN S.calls |-> Answer(S, i)]
StepEnd(S) == Event("step/end", S.openTurn, S.openStep, 0)
TurnEnd(S) == Event("turn/end", S.openTurn, None, 0)
Ends(S) == (IF S.openStep = None THEN <<>> ELSE <<StepEnd(S)>>) \o <<TurnEnd(S)>>

\* Sequences of one and of two members.
LEMMA ShortSequences ==
    ASSUME NEW S, NEW a \in S, NEW b \in S
    PROVE  <<a>> # <<>> /\ <<a, b>> # <<>> /\ <<a>> \o <<b>> = <<a, b>>
<1>1. <<a>> # <<>> /\ <<a, b>> # <<>>  OBVIOUS
<1>2. <<a>> \in Seq(S) /\ <<b>> \in Seq(S) /\ <<a, b>> \in Seq(S)  OBVIOUS
<1>3. Append(<<a>>, b) = <<a>> \o <<b>>  BY <1>2, AppendIsConcat
<1>4. Append(<<a>>, b) = <<a, b>>
  <2> DEFINE x == Append(<<a>>, b)  y == <<a, b>>
  <2>1. <<a>>[1] = a /\ Len(<<a>>) = 1  OBVIOUS
  <2>2. x \in Seq(S) /\ Len(x) = 2 /\ x[1] = a /\ x[2] = b  BY <1>2, <2>1, AppendProperties
  <2>3. y \in Seq(S) /\ Len(y) = 2 /\ y[1] = a /\ y[2] = b  BY <1>2
  <2> HIDE DEF x, y
  <2>4. \A i \in 1..Len(x) : x[i] = y[i]  BY <2>2, <2>3
  <2> QED  BY <2>2, <2>3, <2>4, SeqEqual DEF x, y
<1> QED  BY <1>1, <1>3, <1>4

\* The parts of the closers: an error result per pending call, then the ends.
LEMMA PiecesAre ==
    ASSUME NEW S \in Scanneds
    PROVE  /\ \A i \in DOMAIN S.calls : Answer(S, i) \in Events
           /\ Answers(S) \in Seq(Events) /\ Len(Answers(S)) = Len(S.calls) /\ Len(S.calls) \in Nat
           /\ DOMAIN S.calls = 1..Len(S.calls)
           /\ StepEnd(S) \in Events /\ TurnEnd(S) \in Events
           /\ Ends(S) \in Seq(Events)
           /\ S.openStep = None => Ends(S) = <<TurnEnd(S)>>
           /\ S.openStep # None => Ends(S) = <<StepEnd(S), TurnEnd(S)>>
<1>1. S.openTurn \in Nat /\ S.openStep \in Nat /\ S.calls \in Seq(Pendings)  BY DEF Scanneds
<1>2. Len(S.calls) \in Nat /\ DOMAIN S.calls = 1..Len(S.calls)  BY <1>1
<1>3. ASSUME NEW i \in DOMAIN S.calls  PROVE Answer(S, i) \in Events
  <2>1. S.calls[i] \in Pendings  BY <1>1
  <2>2. S.calls[i].step \in Nat /\ S.calls[i].call \in CallIds  BY <2>1 DEF Pendings
  <2>3. ResultType(S.calls[i]) \in ToolTypes  BY DEF ResultType, ToolTypes
  <2>4. Answer(S, i) \in [type : ToolTypes, turn : Nat, step : Nat, call : CallIds]
    BY <1>1, <2>2, <2>3 DEF Answer, Event
  <2> QED  BY <2>4 DEF Events
<1>4. Answers(S) \in [1..Len(S.calls) -> Events]  BY <1>2, <1>3 DEF Answers
<1>5. Answers(S) \in Seq(Events) /\ Len(Answers(S)) = Len(S.calls)  BY <1>2, <1>4, SeqDef
<1>6. /\ StepEnd(S) \in [type : PlainTypes, turn : Nat, step : Nat, call : {0}]
      /\ TurnEnd(S) \in [type : PlainTypes, turn : Nat, step : Nat, call : {0}]
  BY <1>1 DEF StepEnd, TurnEnd, Event, PlainTypes, None
<1>7. StepEnd(S) \in Events /\ TurnEnd(S) \in Events  BY <1>6 DEF Events
<1>8. <<TurnEnd(S)>> \in Seq(Events) /\ <<StepEnd(S)>> \in Seq(Events) /\ <<StepEnd(S), TurnEnd(S)>> \in Seq(Events)
  BY <1>7
<1>9. S.openStep = None => Ends(S) = <<TurnEnd(S)>>
  BY <1>8, ConcatEmptySeq DEF Ends
<1>10. S.openStep # None => Ends(S) = <<StepEnd(S), TurnEnd(S)>>
  <2>1. <<StepEnd(S)>> \o <<TurnEnd(S)>> = <<StepEnd(S), TurnEnd(S)>>  BY <1>7, ShortSequences
  <2> QED  BY <2>1 DEF Ends
<1> QED  BY <1>2, <1>3, <1>5, <1>7, <1>8, <1>9, <1>10

\* openTurnClosers returns nothing for a balanced log, else results and then ends.
LEMMA ClosersAre ==
    ASSUME NEW s, Scan(s) \in Scanneds
    PROVE  /\ Scan(s).openTurn = None => Closers(s) = <<>>
           /\ Scan(s).openTurn # None => Closers(s) = Answers(Scan(s)) \o Ends(Scan(s)) /\ Closers(s) # <<>>
           /\ Closers(s) \in Seq(Events)
<1> DEFINE S == Scan(s)
           stepEnd == IF S.openStep = None THEN <<>> ELSE <<StepEnd(S)>>
<1>1. Closers(s) = IF S.openTurn = None THEN <<>> ELSE Answers(S) \o stepEnd \o <<TurnEnd(S)>>
  BY DEF Closers, Answers, Answer, StepEnd, TurnEnd
<1>2. Ends(S) = stepEnd \o <<TurnEnd(S)>>  BY DEF Ends
<1> HIDE DEF S
<1>3. S \in Scanneds  BY DEF S
<1>4. /\ Answers(S) \in Seq(Events) /\ StepEnd(S) \in Events /\ TurnEnd(S) \in Events
      /\ Ends(S) \in Seq(Events)
  BY <1>3, PiecesAre
<1>5. stepEnd \in Seq(Events) /\ <<TurnEnd(S)>> \in Seq(Events)  BY <1>4
<1> HIDE DEF stepEnd
<1>6. (Answers(S) \o stepEnd) \o <<TurnEnd(S)>> = Answers(S) \o Ends(S)
  BY <1>2, <1>4, <1>5, ConcatAssociative
<1>7. Answers(S) \o Ends(S) \in Seq(Events) /\ Ends(S) # <<>>
  <2>1. Ends(S) # <<>>
    <3>1. CASE S.openStep = None  BY <3>1, <1>3, <1>4, PiecesAre, ShortSequences
    <3>2. CASE S.openStep # None  BY <3>2, <1>3, <1>4, PiecesAre, ShortSequences
    <3> QED  BY <3>1, <3>2
  <2> QED  BY <2>1, <1>4, ConcatProperties
<1>8. Answers(S) \o Ends(S) # <<>>  BY <1>4, <1>7, ConcatEqualIffEmpty
<1>9. <<>> \in Seq(Events)  OBVIOUS
<1> QED  BY <1>1, <1>6, <1>7, <1>8, <1>9 DEF S

\* What answering the first call leaves to answer.
LEMMA AnswersTail ==
    ASSUME NEW S \in Scanneds, S.calls # <<>>
    PROVE  /\ [S EXCEPT !.calls = Tail(@)] \in Scanneds
           /\ Answers(S) = <<Answer(S, 1)>> \o Answers([S EXCEPT !.calls = Tail(@)])
           /\ Ends([S EXCEPT !.calls = Tail(@)]) = Ends(S)
           /\ 1 \in DOMAIN S.calls
<1> DEFINE R == [S EXCEPT !.calls = Tail(@)]
<1>1. S.openTurn \in Nat /\ S.openStep \in Nat /\ S.calls \in Seq(Pendings)  BY DEF Scanneds
<1>2. R = [openTurn |-> S.openTurn, openStep |-> S.openStep, calls |-> Tail(S.calls)]  BY DEF Scanneds
<1> HIDE DEF R
<1>3. /\ Tail(S.calls) \in Seq(Pendings) /\ Len(Tail(S.calls)) = Len(S.calls) - 1
      /\ \A i \in 1..Len(Tail(S.calls)) : Tail(S.calls)[i] = S.calls[i + 1]
      /\ Len(S.calls) \in Nat \ {0}
  BY <1>1, HeadTailProperties
<1>4. R \in Scanneds  BY <1>1, <1>2, <1>3 DEF Scanneds
<1>5. Ends(R) = Ends(S)  BY <1>2 DEF Ends, StepEnd, TurnEnd
<1>6. /\ Answers(S) \in Seq(Events) /\ Len(Answers(S)) = Len(S.calls)
      /\ Answers(R) \in Seq(Events) /\ Len(Answers(R)) = Len(S.calls) - 1
      /\ 1 \in DOMAIN S.calls /\ DOMAIN S.calls = 1..Len(S.calls) /\ DOMAIN R.calls = 1..(Len(S.calls) - 1)
      /\ Answer(S, 1) \in Events
  BY <1>2, <1>3, <1>4, PiecesAre
<1> DEFINE A == <<Answer(S, 1)>>  B == A \o Answers(R)
<1>7. A \in Seq(Events) /\ Len(A) = 1 /\ A[1] = Answer(S, 1)  BY <1>6
<1> HIDE DEF A
<1>8. /\ B \in Seq(Events) /\ Len(B) = 1 + (Len(S.calls) - 1)
      /\ \A i \in 1..(1 + (Len(S.calls) - 1)) : B[i] = IF i <= 1 THEN A[i] ELSE Answers(R)[i - 1]
  <2>1. Answers(R) \in Seq(Events) /\ Len(A) + Len(Answers(R)) = 1 + (Len(S.calls) - 1)  BY <1>6, <1>7
  <2>2. /\ B \in Seq(Events) /\ Len(B) = Len(A) + Len(Answers(R))
        /\ \A i \in 1..(Len(A) + Len(Answers(R))) :
              B[i] = IF i <= Len(A) THEN A[i] ELSE Answers(R)[i - Len(A)]
    BY <2>1, <1>7, ConcatProperties
  <2> HIDE DEF B
  <2> QED  BY <2>1, <2>2, <1>7
<1> HIDE DEF B
<1>9. ASSUME NEW i \in 1..Len(S.calls)  PROVE Answers(S)[i] = B[i]
  <2>1. Answers(S)[i] = Answer(S, i)  BY <1>6 DEF Answers
  <2>2. CASE i = 1  BY <2>1, <2>2, <1>3, <1>7, <1>8
  <2>3. CASE i # 1
    <3>1. i - 1 \in 1..(Len(S.calls) - 1) /\ (i - 1) + 1 = i /\ ~(i <= 1)  BY <2>3, <1>3
    <3>2. R.calls[i - 1] = S.calls[i]  BY <3>1, <1>2, <1>3
    <3>3. Answers(R)[i - 1] = Answer(R, i - 1)  BY <3>1, <1>6 DEF Answers
    <3>4. Answer(R, i - 1) = Answer(S, i)  BY <3>2, <1>2 DEF Answer
    <3>5. B[i] = Answers(R)[i - 1]  BY <3>1, <1>8, <1>3
    <3> QED  BY <2>1, <3>3, <3>4, <3>5
  <2> QED  BY <2>2, <2>3
<1>10. Len(B) = Len(S.calls)  BY <1>3, <1>8
<1>11. Answers(S) = B  BY <1>6, <1>8, <1>9, <1>10, SeqEqual
<1> QED  BY <1>4, <1>5, <1>6, <1>11 DEF R, A, B

\* Writing the first closer leaves the others to be written.
LEMMA CloserStep ==
    ASSUME NEW s, Good(s), Closers(s) # <<>>
    PROVE  /\ Closers(s) \in Seq(Events)
           /\ Good(Append(s, Head(Closers(s))))
           /\ Closers(Append(s, Head(Closers(s)))) = Tail(Closers(s))
<1> DEFINE S == Scan(s)  T == Replay(s).trace
<1>1. S \in Scanneds /\ Balanced(S, T)  BY DEF Good, Balanced
<1>2. /\ Closers(s) \in Seq(Events) /\ S.openTurn # None
      /\ Closers(s) = Answers(S) \o Ends(S)
  BY <1>1, ClosersAre
<1>3. S.openTurn \in Nat /\ S.openStep \in Nat /\ S.calls \in Seq(Pendings)  BY <1>1 DEF Scanneds
<1>4. /\ Answers(S) \in Seq(Events) /\ Ends(S) \in Seq(Events)
      /\ StepEnd(S) \in Events /\ TurnEnd(S) \in Events
      /\ S.openStep = None => Ends(S) = <<TurnEnd(S)>>
      /\ S.openStep # None => Ends(S) = <<StepEnd(S), TurnEnd(S)>>
  BY <1>1, PiecesAre
<1>5. CASE S.calls # <<>>
  <2> DEFINE R == [S EXCEPT !.calls = Tail(@)]
  <2>1. /\ R \in Scanneds /\ Answers(S) = <<Answer(S, 1)>> \o Answers(R)
        /\ Ends(R) = Ends(S) /\ 1 \in DOMAIN S.calls
    BY <1>1, <1>5, AnswersTail
  <2>2. Answer(S, 1) \in Events /\ Answers(R) \in Seq(Events)  BY <1>1, <2>1, PiecesAre
  <2>3. <<Answer(S, 1)>> \in Seq(Events)  BY <2>2
  <2>4. Closers(s) = <<Answer(S, 1)>> \o (Answers(R) \o Ends(S))
    BY <1>2, <1>4, <2>1, <2>2, <2>3, ConcatAssociative
  <2>5. Answers(R) \o Ends(S) \in Seq(Events)  BY <1>4, <2>2, ConcatProperties
  <2>6. Head(Closers(s)) = Answer(S, 1) /\ Tail(Closers(s)) = Answers(R) \o Ends(S)
    <3> DEFINE h == Answer(S, 1)  r == Answers(R) \o Ends(S)
    <3> HIDE DEF h, r
    <3>1. h \in Events /\ r \in Seq(Events)  BY <2>2, <2>5 DEF h, r
    <3>2. Head(<<h>> \o r) = h /\ Tail(<<h>> \o r) = r  BY <3>1
    <3> QED  BY <3>2, <2>4 DEF h, r
  <2>7. /\ IsResult(Answer(S, 1)) /\ S.calls[1].call = Answer(S, 1).call
        /\ Answer(S, 1).type = ResultType(S.calls[1])
        /\ Answer(S, 1).turn = S.openTurn /\ Answer(S, 1).step = S.calls[1].step
    BY DEF Answer, Event, IsResult, ResultType
  <2>8. S.calls[1].step = S.openStep  BY <1>1, <2>1 DEF Balanced
  <2>9. Good(Append(s, Answer(S, 1))) /\ Scan(Append(s, Answer(S, 1))) = R
    BY <2>1, <2>2, <2>7, <2>8, GoodResult
  <2>10. R.openTurn # None
    BY <1>2, <1>1 DEF Scanneds
  <2>11. Closers(Append(s, Answer(S, 1))) = Answers(R) \o Ends(R)
    BY <2>1, <2>9, <2>10, ClosersAre
  <2> QED  BY <1>2, <2>1, <2>6, <2>9, <2>11
<1>6. CASE S.calls = <<>> /\ S.openStep # None
  <2>1. Answers(S) = <<>>
    BY <1>6, <1>4, <1>1, PiecesAre, EmptySeq
  <2>2. Closers(s) = <<StepEnd(S), TurnEnd(S)>>  BY <1>2, <1>4, <1>6, <2>1, ConcatEmptySeq
  <2>3. Head(Closers(s)) = StepEnd(S) /\ Tail(Closers(s)) = <<TurnEnd(S)>>  BY <2>2
  <2>4. T.openTurn = S.openTurn /\ T.openStep = S.openStep  BY <1>1 DEF Balanced
  <2>5. /\ StepEnd(S).type = "step/end" /\ StepEnd(S).turn = S.openTurn /\ StepEnd(S).step = S.openStep
    BY DEF StepEnd, Event
  <2>6. Valid(T, StepEnd(S))  BY <2>4, <2>5, <1>6, ValidIs
  <2> DEFINE R == [openTurn |-> S.openTurn, openStep |-> None, calls |-> <<>>]
  <2>7. Good(Append(s, StepEnd(S))) /\ Scan(Append(s, StepEnd(S))) = R
    BY <1>4, <2>5, <2>6, GoodStepEnd
  <2>8. R \in Scanneds /\ R.openTurn # None /\ R.openStep = None /\ R.calls = <<>>
    BY <1>2, <1>3 DEF Scanneds, None
  <2>9. Answers(R) = <<>>  BY <2>8, PiecesAre, EmptySeq
  <2>10. Ends(R) = <<TurnEnd(S)>>
    <3>1. Ends(R) = <<TurnEnd(R)>>  BY <2>8, PiecesAre
    <3>2. TurnEnd(R) = TurnEnd(S)  BY DEF TurnEnd
    <3> QED  BY <3>1, <3>2
  <2>11. Closers(Append(s, StepEnd(S))) = Answers(R) \o Ends(R)  BY <2>7, <2>8, ClosersAre
  <2>12. Closers(Append(s, StepEnd(S))) = <<TurnEnd(S)>>  BY <2>9, <2>10, <2>11
  <2> QED  BY <1>2, <2>3, <2>7, <2>12
<1>7. CASE S.openStep = None
  <2>1. S.calls = <<>>  BY <1>1, <1>7, NothingOpen
  <2>2. Answers(S) = <<>>
    BY <2>1, <1>4, <1>1, PiecesAre, EmptySeq
  <2>3. Closers(s) = <<TurnEnd(S)>>  BY <1>2, <1>4, <1>7, <2>2, ConcatEmptySeq
  <2>4. Head(Closers(s)) = TurnEnd(S) /\ Tail(Closers(s)) = <<>>  BY <2>3
  <2>5. T.openTurn = S.openTurn /\ T.openStep = S.openStep  BY <1>1 DEF Balanced
  <2>6. TurnEnd(S).type = "turn/end" /\ TurnEnd(S).turn = S.openTurn  BY DEF TurnEnd, Event
  <2>7. Valid(T, TurnEnd(S))  BY <2>5, <2>6, <1>2, <1>7, ValidIs
  <2>8. Good(Append(s, TurnEnd(S))) /\ Scan(Append(s, TurnEnd(S))) = Scanned
    BY <1>4, <2>6, <2>7, GoodTurnEnd
  <2>9. Scanned \in Scanneds /\ Scanned.openTurn = None  BY DEF Scanned, Scanneds, None
  <2>10. Closers(Append(s, TurnEnd(S))) = <<>>  BY <2>8, <2>9, ClosersAre
  <2> QED  BY <1>2, <2>4, <2>8, <2>10
<1> QED  BY <1>5, <1>6, <1>7
\* The closers of a good log are events.
LEMMA GoodHasClosers ==
    ASSUME NEW s, Good(s)
    PROVE  s \in Seq(Events) /\ Scan(s) \in Scanneds /\ Closers(s) \in Seq(Events)
<1>1. Scan(s) \in Scanneds  BY DEF Good, Balanced
<1> QED  BY <1>1, ClosersAre DEF Good

\* However many closers are written, the log stays good and the rest is left.
LEMMA ClosersPart ==
    ASSUME NEW s, Good(s), NEW k \in 0..Len(Closers(s))
    PROVE  /\ Good(s \o SubSeq(Closers(s), 1, k))
           /\ Closers(s \o SubSeq(Closers(s), 1, k)) = SubSeq(Closers(s), k + 1, Len(Closers(s)))
<1> DEFINE C == Closers(s)  N == Len(C)
           Part(n) == s \o SubSeq(C, 1, n)
           P == {n \in Nat : n <= N => Good(Part(n)) /\ Closers(Part(n)) = SubSeq(C, n + 1, N)}
<1>1. s \in Seq(Events) /\ C \in Seq(Events)  BY GoodHasClosers
<1>2. Good(s) /\ C = Closers(s)  OBVIOUS
<1> HIDE DEF C
<1>3. N \in Nat  BY <1>1
<1> HIDE DEF N
<1>4. 0 \in P
  <2>1. SubSeq(C, 1, 0) = <<>>  BY SubSeqEmpty
  <2>2. Part(0) = s  BY <1>1, <2>1, ConcatEmptySeq
  <2>3. SubSeq(C, 0 + 1, N) = C  BY <1>1, SubSeqFull DEF N
  <2> QED  BY <1>2, <2>2, <2>3
<1>5. ASSUME NEW n \in P  PROVE n + 1 \in P
  <2> SUFFICES ASSUME n + 1 <= N
               PROVE  Good(Part(n + 1)) /\ Closers(Part(n + 1)) = SubSeq(C, (n + 1) + 1, N)
    OBVIOUS
  <2>1. n \in Nat /\ n <= N /\ n + 1 \in 1..N /\ N \in (n + 1)..N  BY <1>3
  <2>2. Good(Part(n)) /\ Closers(Part(n)) = SubSeq(C, n + 1, N)  BY <2>1
  <2>3. Head(SubSeq(C, n + 1, N)) = C[n + 1] /\ Tail(SubSeq(C, n + 1, N)) = SubSeq(C, (n + 1) + 1, N)
    BY <1>1, <2>1, HeadTailOfSubSeq DEF N
  <2>4. SubSeq(C, n + 1, N) # <<>>
    <3>1. \A i \in (n + 1)..N : C[i] \in Events  BY <1>1, <2>1, ElementOfSeq DEF N
    <3>2. Len(SubSeq(C, n + 1, N)) = N - (n + 1) + 1  BY <1>3, <2>1, <3>1, SubSeqProperties
    <3>3. SubSeq(C, n + 1, N) \in Seq(Events)  BY <1>3, <2>1, <3>1, SubSeqProperties
    <3>4. Len(SubSeq(C, n + 1, N)) # 0  BY <3>2, <2>1, <1>3
    <3> QED  BY <3>4, EmptySeq
  <2>5. Good(Append(Part(n), C[n + 1])) /\ Closers(Append(Part(n), C[n + 1])) = SubSeq(C, (n + 1) + 1, N)
    BY <2>2, <2>3, <2>4, CloserStep
  <2>6. Part(n + 1) = Append(Part(n), C[n + 1])
    <3>1. C[n + 1] \in Events  BY <1>1, <2>1, ElementOfSeq DEF N
    <3>2. n + 1 \in 1..Len(C) /\ 1 \in 1..Len(C) /\ n + 1 \in 1..(n + 1) /\ (n + 1) - 1 = n
      BY <2>1, <1>3 DEF N
    <3>3. SubSeq(C, 1, n + 1) = SubSeq(C, 1, n) \o <<C[n + 1]>>
      BY <1>1, <3>2, SubSeqRecursiveSecond
    <3>4. \A i \in 1..n : C[i] \in Events  BY <1>1, <2>1, <1>3, ElementOfSeq DEF N
    <3>5. SubSeq(C, 1, n) \in Seq(Events)  BY <2>1, <3>4, SubSeqProperties
    <3>6. <<C[n + 1]>> \in Seq(Events)  BY <3>1
    <3>7. s \o (SubSeq(C, 1, n) \o <<C[n + 1]>>) = Part(n) \o <<C[n + 1]>>
      BY <1>1, <3>5, <3>6, ConcatAssociative
    <3>8. Part(n) \in Seq(Events)  BY <1>1, <3>5, ConcatProperties
    <3> HIDE DEF Part
    <3>9. Append(Part(n), C[n + 1]) = Part(n) \o <<C[n + 1]>>  BY <3>1, <3>8, AppendIsConcat
    <3> QED  BY <3>3, <3>7, <3>9 DEF Part
  <2> QED  BY <2>5, <2>6
<1>6. k \in Nat /\ k <= N  BY <1>2 DEF N
<1> HIDE DEF P
<1>7. k \in P  BY <1>4, <1>5, <1>6, ByInduction
<1> QED  BY <1>6, <1>7 DEF P, C, N

\* Nothing is open where there is nothing to close.
LEMMA NothingToClose ==
    ASSUME NEW s, Good(s), Closers(s) = <<>>
    PROVE  Replay(s).ok /\ Replay(s).trace.openTurn = None /\ Replay(s).trace.pendingCalls = {}
<1>1. Balanced(Scan(s), Replay(s).trace) /\ Replay(s).ok  BY DEF Good
<1>2. Scan(s).openTurn = None  BY <1>1, ClosersAre DEF Balanced
<1> QED  BY <1>1, <1>2, NothingOpen DEF Balanced

\* A closed log.
LEMMA ClosedIs ==
    ASSUME NEW s, Good(s)
    PROVE  Good(s \o Closers(s)) /\ Closers(s \o Closers(s)) = <<>>
<1> DEFINE C == Closers(s)
<1>1. C \in Seq(Events)  BY GoodHasClosers
<1>2. Len(C) \in 0..Len(C) /\ SubSeq(C, 1, Len(C)) = C /\ SubSeq(C, Len(C) + 1, Len(C)) = <<>>
  <2>1. Len(C) \in Nat  BY <1>1
  <2>2. SubSeq(C, 1, Len(C)) = C  BY <1>1, SubSeqFull
  <2>3. SubSeq(C, Len(C) + 1, Len(C)) = <<>>  BY <2>1, SubSeqEmpty
  <2> QED  BY <2>1, <2>2, <2>3
<1> QED  BY <1>2, ClosersPart

\* Repairing a log that has any part of its closers gives what repairing once gives.
LEMMA Convergence ==
    ASSUME NEW s, Good(s), NEW k \in 0..Len(Closers(s))
    PROVE  LET part == s \o SubSeq(Closers(s), 1, k)
           IN  part \o Closers(part) = s \o Closers(s)
<1> DEFINE C == Closers(s)  N == Len(C)  part == s \o SubSeq(C, 1, k)
<1>1. s \in Seq(Events) /\ C \in Seq(Events)  BY GoodHasClosers
<1>2. Closers(part) = SubSeq(C, k + 1, N)  BY ClosersPart
<1>3. k \in 0..N  OBVIOUS
<1> HIDE DEF C
<1>4. N \in Nat  BY <1>1
<1>5. \A i \in 1..N : C[i] \in Events  BY <1>1, ElementOfSeq
<1>6. SubSeq(C, 1, k) \in Seq(Events)
  <2>1. k \in Int /\ \A i \in 1..k : C[i] \in Events  BY <1>3, <1>4, <1>5
  <2> QED  BY <2>1, SubSeqProperties
<1>7. SubSeq(C, k + 1, N) \in Seq(Events)
  <2>1. k + 1 \in Int /\ N \in Int /\ \A i \in (k + 1)..N : C[i] \in Events  BY <1>3, <1>4, <1>5
  <2> QED  BY <2>1, SubSeqProperties
<1>8. SubSeq(C, 1, k) \o SubSeq(C, k + 1, N) = C
  <2>1. 1 \in 1..(Len(C) + 1) /\ k \in (1 - 1)..Len(C) /\ Len(C) \in k..Len(C)  BY <1>3, <1>4
  <2>2. SubSeq(C, 1, k) \o SubSeq(C, k + 1, Len(C)) = SubSeq(C, 1, Len(C))
    BY <1>1, <2>1, ConcatAdjacentSubSeq
  <2> QED  BY <1>1, <2>2, SubSeqFull
<1>9. part \o SubSeq(C, k + 1, N) = s \o C
  <2> DEFINE x == SubSeq(C, 1, k)  y == SubSeq(C, k + 1, N)
  <2>1. x \in Seq(Events) /\ y \in Seq(Events) /\ s \in Seq(Events)  BY <1>1, <1>6, <1>7
  <2>2. part = s \o x /\ x \o y = C  BY <1>8 DEF C
  <2> HIDE DEF x, y, part
  <2>3. (s \o x) \o y = s \o (x \o y)  BY <2>1, ConcatAssociative
  <2> QED  BY <2>2, <2>3 DEF y
<1> QED  BY <1>2, <1>9 DEF C
-----------------------------------------------------------------------------
(* Every prefix of a log.                                                    *)

\* What the library says of a prefix.
LEMMA PrefixIs ==
    ASSUME NEW S, NEW s \in Seq(S), NEW m \in 0..Len(s)
    PROVE  /\ SubSeq(s, 1, m) \in Seq(S) /\ Len(SubSeq(s, 1, m)) = m /\ m \in Nat
           /\ \A i \in 1..m : SubSeq(s, 1, m)[i] = s[i]
<1>1. Len(s) \in Nat /\ m \in Int /\ m \in Nat  OBVIOUS
<1>2. \A i \in 1..m : s[i] \in S  BY <1>1, ElementOfSeq
<1>3. /\ SubSeq(s, 1, m) \in Seq(S) /\ Len(SubSeq(s, 1, m)) = IF 1 <= m THEN m - 1 + 1 ELSE 0
      /\ \A i \in 1..(m - 1 + 1) : SubSeq(s, 1, m)[i] = s[1 + i - 1]
  BY <1>1, <1>2, SubSeqProperties
<1>4. Len(SubSeq(s, 1, m)) = m  BY <1>1, <1>3
<1>5. ASSUME NEW i \in 1..m  PROVE SubSeq(s, 1, m)[i] = s[i]
  <2>1. i \in 1..(m - 1 + 1) /\ 1 + i - 1 = i  BY <1>1
  <2> QED  BY <2>1, <1>3
<1> QED  BY <1>1, <1>3, <1>4, <1>5

\* Prefixes of a prefix, and of a longer log.
LEMMA PrefixOfPrefix ==
    ASSUME NEW S, NEW s \in Seq(S), NEW t \in Seq(S), NEW m \in Nat, m <= Len(s), m <= Len(t),
           \A i \in 1..m : s[i] = t[i]
    PROVE  SubSeq(s, 1, m) = SubSeq(t, 1, m)
<1>1. m \in 0..Len(s) /\ m \in 0..Len(t)  OBVIOUS
<1> DEFINE x == SubSeq(s, 1, m)  y == SubSeq(t, 1, m)
<1>2. x \in Seq(S) /\ Len(x) = m /\ \A i \in 1..m : x[i] = s[i]  BY <1>1, PrefixIs
<1>3. y \in Seq(S) /\ Len(y) = m /\ \A i \in 1..m : y[i] = t[i]  BY <1>1, PrefixIs
<1> HIDE DEF x, y
<1>4. Len(x) = Len(y) /\ \A i \in 1..Len(x) : x[i] = y[i]  BY <1>2, <1>3
<1>5. x = y  BY <1>2, <1>3, <1>4, SeqEqual
<1> QED  BY <1>5 DEF x, y

\* A crash or a fork may cut a log anywhere, so the invariant is about prefixes.
GoodLog(s) == s \in Seq(Events) /\ \A n \in 0..Len(s) : Good(SubSeq(s, 1, n))

\* A log all of whose prefixes are good is good.
LEMMA GoodWhole ==
    ASSUME NEW s, GoodLog(s)
    PROVE  s \in Seq(Events) /\ Good(s)
<1>1. s \in Seq(Events) /\ Len(s) \in 0..Len(s)  BY DEF GoodLog
<1>2. SubSeq(s, 1, Len(s)) = s  BY <1>1, SubSeqFull
<1> QED  BY <1>1, <1>2 DEF GoodLog

\* A prefix of such a log is such a log, which is what a crash leaves.
LEMMA GoodPrefix ==
    ASSUME NEW s, GoodLog(s), NEW m \in 0..Len(s)
    PROVE  GoodLog(SubSeq(s, 1, m))
<1> DEFINE t == SubSeq(s, 1, m)
<1>1. s \in Seq(Events) /\ \A n \in 0..Len(s) : Good(SubSeq(s, 1, n))  BY DEF GoodLog
<1>2. t \in Seq(Events) /\ Len(t) = m /\ m \in Nat /\ \A i \in 1..m : t[i] = s[i]  BY <1>1, PrefixIs
<1> HIDE DEF t
<1>3. ASSUME NEW n \in 0..Len(t)  PROVE Good(SubSeq(t, 1, n))
  <2>1. n \in Nat /\ n <= Len(t) /\ n <= Len(s) /\ \A i \in 1..n : t[i] = s[i]
    BY <1>1, <1>2
  <2>2. SubSeq(t, 1, n) = SubSeq(s, 1, n)  BY <1>1, <1>2, <2>1, PrefixOfPrefix
  <2>3. n \in 0..Len(s)  BY <2>1, <1>1
  <2> QED  BY <1>1, <2>2, <2>3
<1> QED  BY <1>2, <1>3 DEF GoodLog, t

\* One good event more makes such a log again.
LEMMA GoodAppend ==
    ASSUME NEW s, GoodLog(s), NEW e \in Events, Good(Append(s, e))
    PROVE  GoodLog(Append(s, e))
<1> DEFINE t == Append(s, e)
<1>1. s \in Seq(Events) /\ \A n \in 0..Len(s) : Good(SubSeq(s, 1, n))  BY DEF GoodLog
<1>2. /\ t \in Seq(Events) /\ Len(t) = Len(s) + 1 /\ Len(s) \in Nat
      /\ \A i \in 1..Len(s) : t[i] = s[i]
  BY <1>1, AppendProperties
<1>3. Good(t)  OBVIOUS
<1> HIDE DEF t
<1>4. ASSUME NEW n \in 0..Len(t)  PROVE Good(SubSeq(t, 1, n))
  <2>1. CASE n <= Len(s)
    <3>1. n \in Nat /\ n <= Len(t) /\ \A i \in 1..n : t[i] = s[i]  BY <1>2, <2>1
    <3>2. SubSeq(t, 1, n) = SubSeq(s, 1, n)  BY <1>1, <1>2, <2>1, <3>1, PrefixOfPrefix
    <3>3. n \in 0..Len(s)  BY <2>1, <3>1, <1>2
    <3> QED  BY <1>1, <3>2, <3>3
  <2>2. CASE ~(n <= Len(s))
    <3>1. n = Len(t)  BY <2>2, <1>2
    <3>2. SubSeq(t, 1, Len(t)) = t  BY <1>2, SubSeqFull
    <3> QED  BY <3>1, <3>2, <1>3
  <2> QED  BY <2>1, <2>2
<1> QED  BY <1>2, <1>4 DEF GoodLog, t

\* A log with its closers, also with only some of them.
LEMMA GoodClosed ==
    ASSUME NEW s, GoodLog(s)
    PROVE  GoodLog(s \o Closers(s))
<1> DEFINE C == Closers(s)  t == s \o C
<1>1. s \in Seq(Events) /\ Good(s) /\ \A n \in 0..Len(s) : Good(SubSeq(s, 1, n))
  BY GoodWhole DEF GoodLog
<1>2. C \in Seq(Events)  BY <1>1, GoodHasClosers
<1>3. \A k \in 0..Len(C) : Good(s \o SubSeq(C, 1, k))  BY <1>1, ClosersPart
<1>4. /\ t \in Seq(Events) /\ Len(t) = Len(s) + Len(C) /\ Len(s) \in Nat /\ Len(C) \in Nat
      /\ \A i \in 1..(Len(s) + Len(C)) : t[i] = IF i <= Len(s) THEN s[i] ELSE C[i - Len(s)]
  BY <1>1, <1>2, ConcatProperties
<1> HIDE DEF C, t
<1>5. ASSUME NEW n \in 0..Len(t)  PROVE Good(SubSeq(t, 1, n))
  <2>1. CASE n <= Len(s)
    <3>1. n \in Nat /\ n <= Len(t) /\ \A i \in 1..n : t[i] = s[i]  BY <1>4, <2>1
    <3>2. SubSeq(t, 1, n) = SubSeq(s, 1, n)  BY <1>1, <1>4, <2>1, <3>1, PrefixOfPrefix
    <3>3. n \in 0..Len(s)  BY <2>1, <3>1, <1>4
    <3> QED  BY <1>1, <3>2, <3>3
  <2>2. CASE ~(n <= Len(s))
    <3> DEFINE k == n - Len(s)  c == SubSeq(C, 1, k)  u == s \o c  v == SubSeq(t, 1, n)
    <3>1. k \in 0..Len(C) /\ k \in Nat /\ n = Len(s) + k /\ n \in Nat  BY <2>2, <1>4
    <3> HIDE DEF k
    <3>2. c \in Seq(Events) /\ Len(c) = k /\ \A i \in 1..k : c[i] = C[i]  BY <1>2, <3>1, PrefixIs
    <3>3. Good(u)  BY <1>3, <3>1
    <3> HIDE DEF c
    <3>4. /\ u \in Seq(Events) /\ Len(u) = Len(s) + Len(c)
          /\ \A i \in 1..(Len(s) + Len(c)) : u[i] = IF i <= Len(s) THEN s[i] ELSE c[i - Len(s)]
      BY <1>1, <3>2, ConcatProperties
    <3>5. v \in Seq(Events) /\ Len(v) = n /\ \A i \in 1..n : v[i] = t[i]  BY <1>4, PrefixIs
    <3> HIDE DEF u, v
    <3>6. ASSUME NEW i \in 1..n  PROVE u[i] = v[i]
      <4>1. v[i] = t[i] /\ i \in 1..(Len(s) + Len(C)) /\ i \in 1..(Len(s) + Len(c))
        BY <3>1, <3>2, <3>5, <1>4
      <4>2. CASE i <= Len(s)  BY <4>1, <4>2, <1>4, <3>4
      <4>3. CASE ~(i <= Len(s))
        <5>1. i - Len(s) \in 1..k  BY <4>3, <3>1, <1>4
        <5> QED  BY <4>1, <4>3, <5>1, <1>4, <3>2, <3>4
      <4> QED  BY <4>2, <4>3
    <3>7. Len(u) = n  BY <3>1, <3>2, <3>4
    <3>8. u = v  BY <3>4, <3>5, <3>6, <3>7, SeqEqual
    <3> QED  BY <3>3, <3>8 DEF v
  <2> QED  BY <2>1, <2>2
<1> QED  BY <1>4, <1>5 DEF GoodLog, t, C

\* The empty log is such a log, and the companion starts from a fresh trace.
LEMMA GoodEmpty == GoodLog(<<>>) /\ Replay(<<>>).trace = FreshTrace(FirstTurn) /\ FreshTrace(FirstTurn) \in Traces
<1>1. <<>> \in Seq(Events) /\ Len(<<>>) = 0 /\ Len(<<>>) \in Nat /\ DOMAIN <<>> = {}  OBVIOUS
<1>2. Scan(<<>>) = Scanned /\ Replay(<<>>) = Unseeded
  BY <1>1, FoldsAre DEF Scan, Replay
<1>3. FreshTrace(FirstTurn) \in Traces
  BY FirstTurnAssumption DEF FreshTrace, Traces, None
<1>4. Balanced(Scanned, FreshTrace(FirstTurn))
  <2>1. Scanned \in Scanneds  BY DEF Scanned, Scanneds, None
  <2>2. DOMAIN Scanned.calls = {}  BY DEF Scanned
  <2> QED  BY <1>3, <2>1, <2>2 DEF Balanced, Scanned, FreshTrace
<1>5. /\ Placed(<<>>, FreshTrace(FirstTurn)) /\ Answered(<<>>, Scanned)
      /\ Opened(<<>>, Scanned) /\ Exclusive(<<>>)
  BY <1>1 DEF Placed, Answered, Opened, Exclusive
<1>6. Replay(<<>>).ok /\ Replay(<<>>).trace = FreshTrace(FirstTurn)  BY <1>2 DEF Unseeded
<1>7. Good(<<>>)  BY <1>1, <1>2, <1>4, <1>5, <1>6 DEF Good
<1>8. \A n \in 0..Len(<<>>) : SubSeq(<<>>, 1, n) = <<>>
  <2>1. SubSeq(<<>>, 1, 0) = <<>>  BY SubSeqEmpty
  <2> QED  BY <2>1, <1>1
<1> QED  BY <1>1, <1>3, <1>6, <1>7, <1>8 DEF GoodLog
-----------------------------------------------------------------------------
(* The inductive invariant                                                   *)

IInv ==
    /\ mode \in {"live", "down", "repairing"}
    /\ GoodLog(log)
    /\ trace \in Traces
    /\ durable \in 0..Len(log)
    /\ ran \subseteq Nat \X Nat \X CallIds
    /\ crashes \in 0..MaxCrashes
    /\ mode = "live" => trace = Replay(log).trace
    /\ mode = "down" => durable = Len(log)
    /\ mode = "repairing" => log = SubSeq(log, 1, durable) \o Closers(SubSeq(log, 1, durable))
    /\ SideEffectsRecorded

\* A session starts with the empty log.
LEMMA InitIInv == Init => IInv
<1> SUFFICES ASSUME Init  PROVE IInv
  OBVIOUS
<1>1. GoodLog(log) /\ trace \in Traces /\ trace = Replay(log).trace  BY GoodEmpty DEF Init
<1>2. durable \in 0..Len(log) /\ ran \subseteq Nat \X Nat \X CallIds /\ SideEffectsRecorded
  BY DEF Init, SideEffectsRecorded
<1>3. crashes \in 0..MaxCrashes  BY BoundsAssumption DEF Init
<1> QED  BY <1>1, <1>2, <1>3 DEF IInv, Init

\* What is recorded stays recorded while the durable prefix stays.
LEMMA RecordedKept ==
    ASSUME SideEffectsRecorded, durable \in Nat, durable' \in Nat, durable <= durable',
           \A k \in 1..durable : log'[k] = log[k],
           ran' = ran
    PROVE  SideEffectsRecorded'
<1>1. \A k \in 1..durable : k \in 1..durable'  OBVIOUS
<1> QED  BY <1>1 DEF SideEffectsRecorded, Recorded

\* What the driver may write next keeps the log good.
LEMMA WriteKeeps ==
    ASSUME IInv, NEW e \in Events, Write(e), Good(Append(log, e))
    PROVE  IInv'
<1>1. GoodLog(log) /\ durable \in 0..Len(log) /\ SideEffectsRecorded /\ mode = "live"  BY DEF IInv, Write
<1>2. log \in Seq(Events)  BY <1>1 DEF GoodLog
<1>3. log' = Append(log, e) /\ trace' = Fold(trace, e) /\ UNCHANGED <<mode, durable, ran, crashes>>
  BY DEF Write
<1>4. GoodLog(log')  BY <1>1, <1>3, GoodAppend
<1>5. /\ Len(log') = Len(log) + 1 /\ Len(log) \in Nat
      /\ \A k \in 1..Len(log) : log'[k] = log[k]
  BY <1>2, <1>3, AppendProperties
<1>6. trace = Replay(log).trace  BY <1>1 DEF IInv
<1>7. Replay(log') = Checked(Replay(log), e)  BY <1>2, <1>3, FoldsAppend
<1>8. trace' = Replay(log').trace  BY <1>3, <1>6, <1>7 DEF Checked
<1>9. trace' \in Traces  BY <1>4, <1>8, GoodWhole DEF Good, Balanced
<1>10. SideEffectsRecorded'
  <2>1. durable \in Nat /\ durable' \in Nat /\ durable <= durable' /\ \A k \in 1..durable : log'[k] = log[k]
    BY <1>1, <1>3, <1>5
  <2> QED  BY <2>1, <1>1, <1>3, RecordedKept
<1>11. durable' \in 0..Len(log')  BY <1>1, <1>3, <1>5
<1>12. mode' = "live" /\ ran' \subseteq Nat \X Nat \X CallIds /\ crashes' \in 0..MaxCrashes
  BY <1>1, <1>3 DEF IInv
<1> QED  BY <1>4, <1>8, <1>9, <1>10, <1>11, <1>12 DEF IInv

\* The live session's view of its log.
LEMMA Live ==
    ASSUME IInv, mode = "live"
    PROVE  /\ log \in Seq(Events) /\ GoodLog(log) /\ Good(log) /\ trace = Replay(log).trace
           /\ Balanced(Scan(log), trace) /\ trace \in Traces
           /\ Scan(log) \in Scanneds /\ Unmatched = Scan(log).calls
           /\ \A i \in DOMAIN Unmatched : Unmatched[i] \in Pendings /\ Unmatched[i].call \in CallIds
<1>1. GoodLog(log) /\ trace = Replay(log).trace  BY DEF IInv
<1>2. log \in Seq(Events) /\ Good(log)  BY <1>1, GoodWhole
<1>3. Balanced(Scan(log), trace)  BY <1>1, <1>2 DEF Good
<1>4. trace \in Traces /\ Scan(log) \in Scanneds /\ Scan(log).calls \in Seq(Pendings)
  BY <1>3 DEF Balanced, Scanneds
<1>5. ASSUME NEW i \in DOMAIN Unmatched  PROVE Unmatched[i] \in Pendings /\ Unmatched[i].call \in CallIds
  <2>1. Unmatched[i] \in Pendings  BY <1>4 DEF Unmatched
  <2> QED  BY <2>1 DEF Pendings
<1> QED  BY <1>1, <1>2, <1>3, <1>4, <1>5 DEF Unmatched

\* The events of the turn driver's brackets.
LEMMA PlainEvent ==
    ASSUME NEW type \in PlainTypes, NEW turn \in Nat, NEW step \in Nat
    PROVE  /\ Event(type, turn, step, 0) \in Events
           /\ Event(type, turn, step, 0).type = type
<1>1. Event(type, turn, step, 0) \in [type : PlainTypes, turn : Nat, step : Nat, call : {0}]
  BY DEF Event
<1> QED  BY <1>1 DEF Events, Event

\* turn(): the brackets of turns and steps.
LEMMA BracketKeeps ==
    ASSUME IInv, Bracket
    PROVE  IInv'
<1>1. mode = "live"  BY DEF Bracket, Write
<1>2. Good(log) /\ trace = Replay(log).trace /\ trace \in Traces  BY <1>1, Live
<1>3. trace.openTurn \in Nat /\ trace.openStep \in Nat /\ trace.nextTurn \in Nat /\ trace.nextStep \in Nat
  BY <1>2, TraceUpdates
<1>4. None \in Nat  BY DEF None
<1>5. CASE Write(Event("turn/start", trace.nextTurn, None, 0))
  <2> DEFINE e == Event("turn/start", trace.nextTurn, None, 0)
  <2>1. e \in Events /\ e.type = "turn/start"  BY <1>3, <1>4, PlainEvent DEF PlainTypes
  <2>2. Valid(trace, e)  BY <1>5 DEF Write
  <2> HIDE DEF e
  <2>3. Good(Append(log, e))  BY <1>2, <2>1, <2>2, GoodTurnStart
  <2> QED  BY <1>5, <2>1, <2>3, WriteKeeps DEF e
<1>6. CASE Write(Event("step/start", trace.openTurn, trace.nextStep, 0))
  <2> DEFINE e == Event("step/start", trace.openTurn, trace.nextStep, 0)
  <2>1. e \in Events /\ e.type = "step/start"  BY <1>3, PlainEvent DEF PlainTypes
  <2>2. Valid(trace, e)  BY <1>6 DEF Write
  <2> HIDE DEF e
  <2>3. Good(Append(log, e))  BY <1>2, <2>1, <2>2, GoodStepStart
  <2> QED  BY <1>6, <2>1, <2>3, WriteKeeps DEF e
<1>7. CASE Write(Event("step/end", trace.openTurn, trace.openStep, 0))
  <2> DEFINE e == Event("step/end", trace.openTurn, trace.openStep, 0)
  <2>1. e \in Events /\ e.type = "step/end"  BY <1>3, PlainEvent DEF PlainTypes
  <2>2. Valid(trace, e)  BY <1>7 DEF Write
  <2> HIDE DEF e
  <2>3. Good(Append(log, e))  BY <1>2, <2>1, <2>2, GoodStepEnd
  <2> QED  BY <1>7, <2>1, <2>3, WriteKeeps DEF e
<1>8. CASE Write(Event("turn/end", trace.openTurn, None, 0))
  <2> DEFINE e == Event("turn/end", trace.openTurn, None, 0)
  <2>1. e \in Events /\ e.type = "turn/end"  BY <1>3, <1>4, PlainEvent DEF PlainTypes
  <2>2. Valid(trace, e)  BY <1>8 DEF Write
  <2> HIDE DEF e
  <2>3. Good(Append(log, e))  BY <1>2, <2>1, <2>2, GoodTurnEnd
  <2> QED  BY <1>8, <2>1, <2>3, WriteKeeps DEF e
<1> QED  BY <1>5, <1>6, <1>7, <1>8 DEF Bracket

\* A response names each of its calls once.
LEMMA MessageIs ==
    ASSUME NEW m \in Messages
    PROVE  m \in Seq(CallIds) /\ Distinct(m)
<1>1. PICK n \in 0..Cardinality(CallIds) : m \in [1..n -> CallIds]  BY DEF Messages
<1>2. n \in Nat  BY <1>1
<1>3. m \in Seq(CallIds)  BY <1>1, <1>2, SeqDef
<1> QED  BY <1>3 DEF Messages, Distinct

\* The response of a request, after its checkpoint.
LEMMA RespondKeeps ==
    ASSUME IInv, NEW m \in Messages, Respond(m)
    PROVE  IInv'
<1> DEFINE e == Event("assistant/message", trace.openTurn, trace.openStep, m)
<1>1. mode = "live" /\ log # <<>> /\ log[Len(log)].type = "step/start" /\ Write(e) /\ Valid(trace, e)
  BY DEF Respond, Write, Last
<1>2. Good(log) /\ trace = Replay(log).trace /\ trace \in Traces  BY <1>1, Live
<1>3. trace.openTurn \in Nat /\ trace.openStep \in Nat  BY <1>2, TraceUpdates
<1>4. m \in Seq(CallIds) /\ Distinct(m)  BY MessageIs
<1>5. e \in [type : {"assistant/message"}, turn : Nat, step : Nat, call : Seq(CallIds)]
  BY <1>3, <1>4 DEF Event
<1>6. e \in Events /\ e.type = "assistant/message" /\ e.call = m  BY <1>5 DEF Events, Event
<1> HIDE DEF e
<1>7. Good(Append(log, e))  BY <1>1, <1>2, <1>4, <1>6, GoodMessage
<1> QED  BY <1>1, <1>6, <1>7, WriteKeeps

\* The events of the tool scheduler.
LEMMA ToolEvent ==
    ASSUME NEW type \in ToolTypes, NEW turn \in Nat, NEW step \in Nat, NEW call \in CallIds
    PROVE  /\ Event(type, turn, step, call) \in Events
           /\ Event(type, turn, step, call).type = type /\ Event(type, turn, step, call).call = call
           /\ Event(type, turn, step, call).turn = turn /\ Event(type, turn, step, call).step = step
<1>1. Event(type, turn, step, call) \in [type : ToolTypes, turn : Nat, step : Nat, call : CallIds]
  BY DEF Event
<1> QED  BY <1>1 DEF Events, Event

\* appendToolCall: a call of the response is recorded.
LEMMA RecordCallKeeps ==
    ASSUME IInv, NEW i, RecordCall(i)
    PROVE  IInv'
<1> DEFINE e == Event("tool/call", trace.openTurn, trace.openStep, Unmatched[i].call)
<1>1. mode = "live" /\ i \in DOMAIN Unmatched /\ Write(e) /\ Valid(trace, e)
  BY DEF RecordCall, Write
<1>2. /\ Good(log) /\ trace = Replay(log).trace /\ trace \in Traces /\ Unmatched = Scan(log).calls
      /\ Unmatched[i].call \in CallIds
  BY <1>1, Live
<1>3. trace.openTurn \in Nat /\ trace.openStep \in Nat  BY <1>2, TraceUpdates
<1>4. e \in Events /\ e.type = "tool/call" /\ e.call = Unmatched[i].call
  BY <1>2, <1>3, ToolEvent DEF ToolTypes
<1> HIDE DEF e
<1>5. i \in DOMAIN Scan(log).calls /\ Scan(log).calls[i].call = e.call  BY <1>1, <1>2, <1>4
<1>6. Valid(Replay(log).trace, e)  BY <1>1, <1>2
<1>7. Good(Append(log, e))  BY <1>2, <1>4, <1>5, <1>6, GoodCall
<1> QED  BY <1>1, <1>4, <1>7, WriteKeeps

\* appendToolResult: the next call in model order gets its result.
LEMMA RecordResultKeeps ==
    ASSUME IInv, RecordResult
    PROVE  IInv'
<1> DEFINE e == Event("tool/result", trace.openTurn, trace.openStep, Head(Unmatched).call)
<1>1. mode = "live" /\ Unmatched # <<>> /\ Head(Unmatched).started /\ Write(e)
  BY DEF RecordResult, Write
<1>2. /\ Good(log) /\ trace = Replay(log).trace /\ trace \in Traces /\ Unmatched = Scan(log).calls
      /\ Balanced(Scan(log), trace) /\ Scan(log) \in Scanneds
      /\ \A i \in DOMAIN Unmatched : Unmatched[i].call \in CallIds
  BY <1>1, Live
<1>3. trace.openTurn \in Nat /\ trace.openStep \in Nat  BY <1>2, TraceUpdates
<1>4. 1 \in DOMAIN Unmatched /\ Head(Unmatched) = Unmatched[1]
  <2>1. Unmatched \in Seq(Pendings)  BY <1>2 DEF Scanneds
  <2> QED  BY <2>1, <1>1
<1>5. /\ e \in Events /\ e.type = "tool/result" /\ e.call = Unmatched[1].call
      /\ e.turn = trace.openTurn /\ e.step = trace.openStep
  BY <1>2, <1>3, <1>4, ToolEvent DEF ToolTypes
<1> HIDE DEF e
<1>6. e.turn = Scan(log).openTurn /\ e.step = Scan(log).openStep  BY <1>2, <1>5 DEF Balanced
<1>7. 1 \in DOMAIN Scan(log).calls /\ Scan(log).calls[1].call = e.call /\ Scan(log).calls[1].started
  BY <1>1, <1>2, <1>4, <1>5
<1>8. IsResult(e) /\ e.type = ResultType(Scan(log).calls[1])  BY <1>5, <1>7 DEF IsResult, ResultType
<1>9. Good(Append(log, e))  BY <1>2, <1>5, <1>6, <1>7, <1>8, GoodResult
<1> QED  BY <1>1, <1>5, <1>9, WriteKeeps

\* A tool body runs behind the checkpoint that made its record durable.
LEMMA RunBodyKeeps ==
    ASSUME IInv, NEW i, RunBody(i)
    PROVE  IInv'
<1> DEFINE call == <<trace.openTurn, trace.openStep, Unmatched[i].call>>
<1>1. /\ mode = "live" /\ i \in DOMAIN Unmatched /\ Recorded("tool/call", call) /\ ran' = ran \cup {call}
      /\ UNCHANGED <<mode, log, trace, durable, crashes>>
  BY DEF RunBody
<1>2. trace \in Traces /\ Unmatched[i].call \in CallIds  BY <1>1, Live
<1>3. trace.openTurn \in Nat /\ trace.openStep \in Nat  BY <1>2, TraceUpdates
<1>4. call \in Nat \X Nat \X CallIds  BY <1>2, <1>3
<1> HIDE DEF call
<1>5. SideEffectsRecorded'
  <2>1. \A x \in ran' : Recorded("tool/call", x)  BY <1>1 DEF IInv, SideEffectsRecorded
  <2>2. \A x : Recorded("tool/call", x)' <=> Recorded("tool/call", x)  BY <1>1 DEF Recorded
  <2> QED  BY <2>1, <2>2 DEF SideEffectsRecorded
<1>6. ran' \subseteq Nat \X Nat \X CallIds  BY <1>1, <1>4 DEF IInv
<1>7. /\ mode' \in {"live", "down", "repairing"} /\ GoodLog(log') /\ trace' \in Traces /\ durable' \in 0..Len(log')
      /\ crashes' \in 0..MaxCrashes /\ trace' = Replay(log').trace /\ mode' = "live"
  BY <1>1 DEF IInv
<1> QED  BY <1>5, <1>6, <1>7 DEF IInv

\* A flush moves the durable end of the log, and nothing else.
LEMMA CheckpointKeeps ==
    ASSUME IInv, Checkpoint
    PROVE  IInv'
<1>1. mode = "live" /\ durable' = Len(log) /\ UNCHANGED <<mode, log, trace, ran, crashes>>
  BY DEF Checkpoint
<1>2. GoodLog(log) /\ durable \in 0..Len(log) /\ SideEffectsRecorded  BY DEF IInv
<1>3. Len(log) \in Nat  BY <1>2 DEF GoodLog
<1>4. SideEffectsRecorded'
  BY <1>1, <1>2, <1>3, RecordedKept
<1>5. durable' \in 0..Len(log')  BY <1>1, <1>3
<1> QED  BY <1>1, <1>4, <1>5 DEF IInv

\* A crash leaves a prefix that holds at least what was durable.
LEMMA CrashKeeps ==
    ASSUME IInv, Crash
    PROVE  IInv'
<1>1. /\ crashes < MaxCrashes /\ crashes' = crashes + 1 /\ mode' = "down" /\ UNCHANGED <<trace, ran>>
  BY DEF Crash
<1>2. PICK n \in durable..Len(log) : log' = SubSeq(log, 1, n) /\ durable' = n  BY DEF Crash
<1>3. GoodLog(log) /\ durable \in 0..Len(log) /\ SideEffectsRecorded  BY DEF IInv
<1>4. log \in Seq(Events) /\ Len(log) \in Nat  BY <1>3 DEF GoodLog
<1>5. n \in 0..Len(log) /\ n \in Nat /\ durable <= n /\ durable \in Nat  BY <1>2, <1>3, <1>4
<1>6. GoodLog(log')  BY <1>2, <1>3, <1>5, GoodPrefix
<1>7. Len(log') = n /\ \A k \in 1..n : log'[k] = log[k]  BY <1>2, <1>4, <1>5, PrefixIs
<1>8. SideEffectsRecorded'
  BY <1>1, <1>2, <1>3, <1>5, <1>7, RecordedKept
<1>9. durable' = Len(log') /\ durable' \in 0..Len(log')  BY <1>2, <1>5, <1>7
<1>10. crashes' \in 0..MaxCrashes  BY <1>1, BoundsAssumption DEF IInv
<1> QED  BY <1>1, <1>6, <1>8, <1>9, <1>10 DEF IInv

\* resumeWith: the closers of what the crash left, all in one segment.
LEMMA RepairKeeps ==
    ASSUME IInv, Repair
    PROVE  IInv'
<1>1. /\ mode = "down" /\ mode' = "repairing" /\ log' = log \o Closers(log)
      /\ UNCHANGED <<trace, durable, ran, crashes>>
  BY DEF Repair
<1>2. GoodLog(log) /\ durable = Len(log) /\ SideEffectsRecorded  BY <1>1 DEF IInv
<1>3. log \in Seq(Events) /\ Good(log) /\ Len(log) \in Nat  BY <1>2, GoodWhole
<1>4. Closers(log) \in Seq(Events)  BY <1>3, GoodHasClosers
<1>5. GoodLog(log')  BY <1>1, <1>2, GoodClosed
<1>6. /\ log' \in Seq(Events) /\ Len(log') = Len(log) + Len(Closers(log)) /\ Len(Closers(log)) \in Nat
      /\ \A k \in 1..Len(log) : log'[k] = log[k]
  <2>1. /\ log' \in Seq(Events) /\ Len(log') = Len(log) + Len(Closers(log))
        /\ \A k \in 1..(Len(log) + Len(Closers(log))) :
              log'[k] = IF k <= Len(log) THEN log[k] ELSE Closers(log)[k - Len(log)]
    BY <1>1, <1>3, <1>4, ConcatProperties
  <2>2. Len(Closers(log)) \in Nat  BY <1>4
  <2> QED  BY <2>1, <2>2, <1>3
<1>7. SubSeq(log', 1, durable') = log
  <2>1. Len(log) <= Len(log') /\ Len(log) <= Len(log)  BY <1>3, <1>6
  <2>2. SubSeq(log', 1, Len(log)) = SubSeq(log, 1, Len(log))  BY <2>1, <1>3, <1>6, PrefixOfPrefix
  <2>3. SubSeq(log, 1, Len(log)) = log  BY <1>3, SubSeqFull
  <2> QED  BY <2>2, <2>3, <1>1, <1>2
<1>8. SideEffectsRecorded'
  BY <1>1, <1>2, <1>3, <1>6, RecordedKept
<1>9. durable' \in 0..Len(log')  BY <1>1, <1>2, <1>3, <1>6
<1>10. trace' \in Traces /\ ran' \subseteq Nat \X Nat \X CallIds /\ crashes' \in 0..MaxCrashes
  BY <1>1 DEF IInv
<1>11. log' = SubSeq(log', 1, durable') \o Closers(SubSeq(log', 1, durable'))  BY <1>1, <1>7
<1> QED  BY <1>1, <1>5, <1>8, <1>9, <1>10, <1>11 DEF IInv

\* The resumed session goes on with the trace replayed from the repaired log.
LEMMA ResumeKeeps ==
    ASSUME IInv, Resume
    PROVE  IInv'
<1>1. /\ mode' = "live" /\ durable' = Len(log) /\ trace' = Replay(log).trace
      /\ UNCHANGED <<log, ran, crashes>>
  BY DEF Resume
<1>2. GoodLog(log) /\ durable \in 0..Len(log) /\ SideEffectsRecorded  BY DEF IInv
<1>3. Len(log) \in Nat /\ Good(log)  BY <1>2, GoodWhole DEF GoodLog
<1>4. trace' \in Traces  BY <1>1, <1>3 DEF Good, Balanced
<1>5. SideEffectsRecorded'
  BY <1>1, <1>2, <1>3, RecordedKept
<1>6. durable' \in 0..Len(log') /\ GoodLog(log') /\ trace' = Replay(log').trace  BY <1>1, <1>2, <1>3
<1> QED  BY <1>1, <1>4, <1>5, <1>6 DEF IInv

\* Every step keeps the invariant.
LEMMA NextIInv == IInv /\ [Next]_vars => IInv'
<1> SUFFICES ASSUME IInv, [Next]_vars  PROVE IInv'
  OBVIOUS
<1>1. CASE Bracket  BY <1>1, BracketKeeps
<1>2. CASE \E m \in Messages : Respond(m)  BY <1>2, RespondKeeps
<1>3. CASE \E i \in 1..Cardinality(CallIds) : RecordCall(i) \/ RunBody(i)
  BY <1>3, RecordCallKeeps, RunBodyKeeps
<1>4. CASE RecordResult  BY <1>4, RecordResultKeeps
<1>5. CASE Checkpoint  BY <1>5, CheckpointKeeps
<1>6. CASE Crash  BY <1>6, CrashKeeps
<1>7. CASE Repair  BY <1>7, RepairKeeps
<1>8. CASE Resume  BY <1>8, ResumeKeeps
<1>9. CASE UNCHANGED vars
  BY <1>9 DEF vars, IInv, GoodLog, SideEffectsRecorded, Recorded
<1> QED  BY <1>1, <1>2, <1>3, <1>4, <1>5, <1>6, <1>7, <1>8, <1>9 DEF Next
-----------------------------------------------------------------------------
(* What a repaired log says of the interrupted step                          *)

\* Distinct calls and the one event each of them has are equally many.
LEMMA SameSize ==
    ASSUME NEW m \in Seq(CallIds), Distinct(m), NEW R, NEW g, DOMAIN g = R,
           \A j, k \in R : g[j] = g[k] => j = k,
           \A k \in R : \E i \in DOMAIN m : m[i] = g[k],
           \A i \in DOMAIN m : \E k \in R : m[i] = g[k]
    PROVE  Cardinality(R) = Len(m)
<1> DEFINE N == Len(m)
           f == [i \in 1..N |-> CHOOSE k \in R : m[i] = g[k]]
<1>1. N \in Nat /\ DOMAIN m = 1..N  OBVIOUS
<1> HIDE DEF N
<1>2. \A i \in 1..N : f[i] \in R /\ m[i] = g[f[i]]  BY <1>1
<1>3. f \in [1..N -> R]  BY <1>2
<1> HIDE DEF f
<1>4. \A i, j \in 1..N : f[i] = f[j] => i = j  BY <1>1, <1>2 DEF Distinct
<1>5. \A k \in R : \E i \in 1..N : f[i] = k  BY <1>1, <1>2
<1>6. f \in Bijection(1..N, R)
  BY <1>3, <1>4, <1>5 DEF Bijection, Injection, Surjection, IsInjective
<1>7. ExistsBijection(1..N, R)  BY <1>6 DEF ExistsBijection
<1>8. IsFiniteSet(1..N) /\ Cardinality(1..N) = N  BY <1>1, FS_Interval
<1> QED  BY <1>7, <1>8, FS_Bijection DEF N

\* A step end among the closers ends a step whose calls are all answered.
LEMMA EndedByRepair ==
    ASSUME NEW q, Good(q), Closers(q) # <<>>, Head(Closers(q)).type = "step/end"
    PROVE  /\ Scan(q).calls = <<>> /\ Scan(q).openStep # None
           /\ Closers(q) = <<StepEnd(Scan(q)), TurnEnd(Scan(q))>>
<1> DEFINE S == Scan(q)
<1>1. S \in Scanneds /\ Balanced(S, Replay(q).trace)  BY DEF Good, Balanced
<1>2. Closers(q) = Answers(S) \o Ends(S)  BY <1>1, ClosersAre
<1>3. /\ Answers(S) \in Seq(Events) /\ Ends(S) \in Seq(Events) /\ Len(Answers(S)) = Len(S.calls)
      /\ DOMAIN S.calls = 1..Len(S.calls) /\ Len(S.calls) \in Nat
      /\ S.openStep = None => Ends(S) = <<TurnEnd(S)>>
      /\ S.openStep # None => Ends(S) = <<StepEnd(S), TurnEnd(S)>>
  BY <1>1, PiecesAre
<1>4. S.calls \in Seq(Pendings)  BY <1>1 DEF Scanneds
<1>5. S.calls = <<>>
  <2> SUFFICES ASSUME S.calls # <<>>  PROVE FALSE
    OBVIOUS
  <2>1. 1 \in 1..Len(S.calls)  BY <1>4
  <2>2. Answers(S)[1] = Answer(S, 1)  BY <1>3, <2>1 DEF Answers
  <2>3. (Answers(S) \o Ends(S))[1] = Answers(S)[1]
    <3>1. 1 \in 1..(Len(Answers(S)) + Len(Ends(S))) /\ 1 <= Len(Answers(S))  BY <1>3, <2>1
    <3> QED  BY <1>3, <3>1, ConcatProperties
  <2>4. Closers(q)[1].type = Answer(S, 1).type  BY <1>2, <2>2, <2>3
  <2>5. Closers(q)[1] = Head(Closers(q))
    <3>1. Closers(q) \in Seq(Events)  BY <1>1, ClosersAre
    <3> QED  BY <3>1
  <2> QED  BY <2>4, <2>5 DEF Answer, Event, ResultType
<1>6. Answers(S) = <<>>  BY <1>3, <1>5, EmptySeq
<1>7. Closers(q) = Ends(S)  BY <1>2, <1>3, <1>6, ConcatEmptySeq
<1>8. S.openStep # None
  <2> SUFFICES ASSUME S.openStep = None  PROVE FALSE
    OBVIOUS
  <2>1. Head(Closers(q)) = TurnEnd(S)  BY <1>3, <1>7
  <2> QED  BY <2>1 DEF TurnEnd, Event
<1> QED  BY <1>3, <1>5, <1>7, <1>8

\* Where the log was cut: its closers follow.
LEMMA CutAndClosed ==
    ASSUME IInv, mode = "repairing",
           NEW k \in (durable + 1)..Len(log), log[k].type = "step/end"
    PROVE  \E q : /\ Good(q) /\ q = SubSeq(log, 1, k - 1) /\ Len(q) = k - 1
                  /\ Scan(q).calls = <<>> /\ Scan(q).openStep # None
                  /\ log[k] = StepEnd(Scan(q))
                  /\ Len(log) = k + 1 /\ log[k + 1] = TurnEnd(Scan(q))
                  /\ \A i \in 1..(k - 1) : q[i] = log[i]
<1> DEFINE p == SubSeq(log, 1, durable)  C == Closers(p)  n == (k - 1) - durable
           c == SubSeq(C, 1, n)  q == p \o c  r == SubSeq(C, n + 1, Len(C))
<1>1. GoodLog(log) /\ durable \in 0..Len(log) /\ log = p \o C  BY DEF IInv
<1>2. log \in Seq(Events) /\ Len(log) \in Nat  BY <1>1 DEF GoodLog
<1>3. durable \in Nat /\ k \in Nat /\ durable < k /\ k <= Len(log)  BY <1>1, <1>2
<1>4. p \in Seq(Events) /\ Len(p) = durable /\ Good(p)  BY <1>1, <1>2, PrefixIs DEF GoodLog
<1>5. C \in Seq(Events) /\ Len(C) \in Nat  BY <1>4, GoodHasClosers
<1>6. \A j \in 0..Len(C) : Good(p \o SubSeq(C, 1, j)) /\ Closers(p \o SubSeq(C, 1, j)) = SubSeq(C, j + 1, Len(C))
  BY <1>4, ClosersPart
<1> HIDE DEF p, C
<1>7. /\ Len(log) = durable + Len(C)
      /\ \A i \in 1..(durable + Len(C)) : log[i] = IF i <= durable THEN p[i] ELSE C[i - durable]
  <2>1. /\ Len(p \o C) = Len(p) + Len(C)
        /\ \A i \in 1..(Len(p) + Len(C)) : (p \o C)[i] = IF i <= Len(p) THEN p[i] ELSE C[i - Len(p)]
    BY <1>4, <1>5, ConcatProperties
  <2> QED  BY <2>1, <1>1, <1>4
<1>8. n \in Nat /\ n \in 0..Len(C) /\ n + 1 \in 1..Len(C) /\ Len(C) \in (n + 1)..Len(C) /\ k = durable + n + 1
  BY <1>3, <1>5, <1>7
<1> HIDE DEF n
<1>9. Good(q) /\ Closers(q) = r  BY <1>6, <1>8
<1>10. Head(r) = C[n + 1]  BY <1>5, <1>8, HeadTailOfSubSeq
<1>11. /\ r \in Seq(Events) /\ Len(r) = Len(C) - n
       /\ \A i \in 1..(Len(C) - n) : r[i] = C[n + i]
  <2>1. n + 1 \in Int /\ Len(C) \in Int /\ \A i \in (n + 1)..Len(C) : C[i] \in Events  BY <1>5, <1>8
  <2>2. /\ r \in Seq(Events) /\ Len(r) = IF n + 1 <= Len(C) THEN Len(C) - (n + 1) + 1 ELSE 0
        /\ \A i \in 1..(Len(C) - (n + 1) + 1) : r[i] = C[(n + 1) + i - 1]
    BY <2>1, SubSeqProperties
  <2>3. Len(r) = Len(C) - n  BY <2>2, <1>5, <1>8
  <2>4. ASSUME NEW i \in 1..(Len(C) - n)  PROVE r[i] = C[n + i]
    <3>1. i \in 1..(Len(C) - (n + 1) + 1) /\ (n + 1) + i - 1 = n + i  BY <1>5, <1>8
    <3> QED  BY <2>2, <3>1
  <2> QED  BY <2>2, <2>3, <2>4
<1>12. C[n + 1] = log[k]
  <2>1. k \in 1..(durable + Len(C)) /\ ~(k <= durable) /\ k - durable = n + 1  BY <1>3, <1>7, <1>8
  <2> QED  BY <2>1, <1>7
<1>13. c \in Seq(Events) /\ Len(c) = n /\ \A i \in 1..n : c[i] = C[i]  BY <1>5, <1>8, PrefixIs
<1> HIDE DEF c, r
<1>14. /\ q \in Seq(Events) /\ Len(q) = durable + n
       /\ \A i \in 1..(durable + n) : q[i] = IF i <= durable THEN p[i] ELSE c[i - durable]
  <2>1. /\ q \in Seq(Events) /\ Len(q) = Len(p) + Len(c)
        /\ \A i \in 1..(Len(p) + Len(c)) : q[i] = IF i <= Len(p) THEN p[i] ELSE c[i - Len(p)]
    BY <1>4, <1>13, ConcatProperties
  <2> HIDE DEF q
  <2> QED  BY <2>1, <1>4, <1>13
<1> HIDE DEF q
<1>15. Len(q) = k - 1  BY <1>8, <1>14, <1>3
<1>16. ASSUME NEW i \in 1..(k - 1)  PROVE q[i] = log[i]
  <2>1. i \in 1..(durable + n) /\ i \in 1..(durable + Len(C))  BY <1>3, <1>5, <1>8
  <2>2. CASE i <= durable  BY <2>1, <2>2, <1>7, <1>14
  <2>3. CASE ~(i <= durable)
    <3>1. i - durable \in 1..n  BY <2>1, <2>3, <1>3, <1>8
    <3> QED  BY <2>1, <2>3, <3>1, <1>7, <1>13, <1>14
  <2> QED  BY <2>2, <2>3
<1>17. q = SubSeq(log, 1, k - 1)
  <2>1. k - 1 \in Nat /\ k - 1 <= Len(q) /\ k - 1 <= Len(log)  BY <1>3, <1>15
  <2>2. SubSeq(q, 1, k - 1) = SubSeq(log, 1, k - 1)  BY <2>1, <1>2, <1>14, <1>16, PrefixOfPrefix
  <2>3. SubSeq(q, 1, k - 1) = q  BY <1>14, <1>15, SubSeqFull
  <2> QED  BY <2>2, <2>3
<1>18. r # <<>>
  <2>1. Len(r) # 0  BY <1>8, <1>11, <1>5
  <2> QED  BY <2>1, EmptySeq
<1>19. Head(Closers(q)).type = "step/end" /\ Closers(q) # <<>>  BY <1>9, <1>10, <1>12, <1>18
<1>20. /\ Scan(q).calls = <<>> /\ Scan(q).openStep # None
       /\ r = <<StepEnd(Scan(q)), TurnEnd(Scan(q))>>
  BY <1>9, <1>19, EndedByRepair
<1>21. log[k] = StepEnd(Scan(q)) /\ Len(r) = 2 /\ r[2] = TurnEnd(Scan(q))
  <2>1. Head(r) = StepEnd(Scan(q)) /\ Len(r) = 2 /\ r[2] = TurnEnd(Scan(q))  BY <1>20
  <2> QED  BY <2>1, <1>10, <1>12
<1>22. Len(C) - n = 2 /\ Len(log) = k + 1
  <2>1. Len(C) - n = 2  BY <1>11, <1>21
  <2>2. Len(log) = durable + Len(C)  BY <1>7
  <2> QED  BY <2>1, <2>2, <1>3, <1>5, <1>8
<1>23. log[k + 1] = TurnEnd(Scan(q))
  <2>1. 2 \in 1..(Len(C) - n) /\ k + 1 \in 1..(durable + Len(C)) /\ ~(k + 1 <= durable) /\ (k + 1) - durable = n + 2
    BY <1>3, <1>5, <1>8, <1>22
  <2> QED  BY <2>1, <1>7, <1>11, <1>21
<1> QED  BY <1>9, <1>15, <1>16, <1>17, <1>20, <1>21, <1>22, <1>23

\* A step that repair ended has one answer per call of its response.
LEMMA Interrupted ==
    ASSUME IInv
    PROVE  InterruptedStepAnswered
<1> SUFFICES ASSUME mode = "repairing"  PROVE InterruptedStepAnswered
  BY DEF InterruptedStepAnswered
<1>1. Replay(log).trace.openTurn = None
  <2> DEFINE p == SubSeq(log, 1, durable)
  <2>1. GoodLog(log) /\ durable \in 0..Len(log) /\ log = p \o Closers(p)  BY DEF IInv
  <2>2. Good(p)  BY <2>1 DEF GoodLog
  <2> HIDE DEF p
  <2> QED  BY <2>1, <2>2, ClosedIs, NothingToClose
<1>2. ASSUME NEW k \in (durable + 1)..Len(log), log[k].type = "step/end",
             NEW j \in InStep("assistant/message", k)
      PROVE  /\ {log[l].call : l \in Results(k)} = ToSet(log[j].call)
             /\ Cardinality(Results(k)) = Len(log[j].call)
  <2>1. PICK q : /\ Good(q) /\ q = SubSeq(log, 1, k - 1) /\ Len(q) = k - 1
                 /\ Scan(q).calls = <<>> /\ Scan(q).openStep # None
                 /\ log[k] = StepEnd(Scan(q))
                 /\ Len(log) = k + 1 /\ log[k + 1] = TurnEnd(Scan(q))
                 /\ \A i \in 1..(k - 1) : q[i] = log[i]
    BY <1>2, CutAndClosed
  <2> DEFINE S == Scan(q)
  <2>2. q \in Seq(Events) /\ Answered(q, S) /\ log \in Seq(Events) /\ durable \in Nat
    BY <2>1 DEF Good, IInv, GoodLog
  <2>3. DOMAIN q = 1..(k - 1) /\ DOMAIN log = 1..(k + 1) /\ k \in Nat \ {0}
    BY <2>1, <2>2
  <2>4. log[k].turn = S.openTurn /\ log[k].step = S.openStep  BY <2>1 DEF StepEnd, Event
  <2>5. log[k + 1].type = "turn/end"  BY <2>1 DEF TurnEnd, Event
  <2> HIDE DEF S
  \* The work of the step lies before its end.
  <2>6. ASSUME NEW type \in WorkTypes
        PROVE  InStep(type, k) = {l \in DOMAIN q : q[l].type = type /\ Within(S, q[l])}
    <3>1. type # "step/end" /\ type # "turn/end"  BY DEF WorkTypes, ToolTypes
    <3>2. ASSUME NEW l \in DOMAIN log, log[l].type = type  PROVE l \in DOMAIN q
      BY <3>1, <3>2, <2>3, <2>5, <1>2
    <3>3. \A l \in DOMAIN q : l \in DOMAIN log /\ q[l] = log[l]  BY <2>1, <2>3
    <3> QED  BY <3>2, <3>3, <2>4 DEF InStep, Within
  <2>7. Results(k) = {l \in DOMAIN q : IsResult(q[l]) /\ Within(S, q[l])}
    <3>1. "tool/result" \in WorkTypes /\ "tool/not-started" \in WorkTypes  BY DEF WorkTypes, ToolTypes
    <3> QED  BY <3>1, <2>6 DEF Results, IsResult
  <2>8. j \in DOMAIN q /\ q[j].type = "assistant/message" /\ Within(S, q[j]) /\ q[j] = log[j]
    <3>1. "assistant/message" \in WorkTypes  BY DEF WorkTypes
    <3> QED  BY <3>1, <2>1, <2>3, <2>6
  <2> DEFINE m == log[j].call
  <2>9. m \in Seq(CallIds)
    <3>1. q[j] \in Events  BY <2>2, <2>8
    <3> QED  BY <3>1, <2>8, EventTypesAre
  <2>10. DOMAIN S.calls = {}  BY <2>1 DEF S
  <2>11. S.openStep # None  BY <2>1 DEF S
  <2>12. Distinct(m)  BY <2>2, <2>8, <2>11 DEF Answered
  <2>13. ASSUME NEW c \in CallIds
         PROVE  (\E i \in DOMAIN m : m[i] = c) <=> \E l \in Results(k) : log[l].call = c
    <3>1. (\E i \in DOMAIN q[j].call : q[j].call[i] = c) <=>
             \/ \E i \in DOMAIN S.calls : S.calls[i].call = c
             \/ \E l \in DOMAIN q : IsResult(q[l]) /\ Within(S, q[l]) /\ q[l].call = c
      BY <2>2, <2>8, <2>11 DEF Answered
    <3>2. \A l \in DOMAIN q : q[l] = log[l]  BY <2>1, <2>3
    <3> QED  BY <3>1, <3>2, <2>7, <2>8, <2>10
  <2>14. ASSUME NEW l \in Results(k)  PROVE log[l].call \in CallIds /\ l \in DOMAIN q /\ q[l] = log[l]
    <3>1. l \in DOMAIN q /\ IsResult(q[l]) /\ q[l] = log[l]  BY <2>1, <2>3, <2>7
    <3>2. q[l] \in Events /\ q[l].type \in ToolTypes  BY <3>1, <2>2 DEF IsResult, ToolTypes
    <3> QED  BY <3>1, <3>2, EventTypesAre
  <2>15. \A l, n \in Results(k) : log[l].call = log[n].call => l = n
    BY <2>2, <2>7, <2>11, <2>14 DEF Answered
  <2> HIDE DEF m
  <2>16. \A i \in DOMAIN m : m[i] \in CallIds  BY <2>9
  <2>17. {log[l].call : l \in Results(k)} = ToSet(m)
    BY <2>13, <2>14, <2>16 DEF ToSet
  <2>18. Cardinality(Results(k)) = Len(m)
    <3> DEFINE g == [l \in Results(k) |-> log[l].call]
    <3>1. DOMAIN g = Results(k) /\ \A l \in Results(k) : g[l] = log[l].call  OBVIOUS
    <3> HIDE DEF g
    <3>2. \A l, n \in Results(k) : g[l] = g[n] => l = n  BY <3>1, <2>15
    <3>3. \A l \in Results(k) : \E i \in DOMAIN m : m[i] = g[l]  BY <3>1, <2>13, <2>14
    <3>4. \A i \in DOMAIN m : \E l \in Results(k) : m[i] = g[l]  BY <3>1, <2>13, <2>16
    <3> QED  BY <3>1, <3>2, <3>3, <3>4, <2>9, <2>12, SameSize
  <2> QED  BY <2>17, <2>18 DEF m
<1> QED  BY <1>1, <1>2 DEF InterruptedStepAnswered
-----------------------------------------------------------------------------
(* The theorems                                                              *)

\* In every state a session, its crashes and its repairs can reach, the log and
\* each of its prefixes is good, a live trace is the replay of the log, and a log
\* under repair is its durable prefix with the closers of that prefix.
THEOREM RepairInvariant == Spec => []IInv
<1>1. Init => IInv  BY InitIInv
<1>2. IInv /\ [Next]_vars => IInv'  BY NextIInv
<1> QED  BY <1>1, <1>2, PTL DEF Spec

\* The types follow from the good log.
LEMMA InvTyped == IInv => TypeOK
<1> SUFFICES ASSUME IInv  PROVE TypeOK
  OBVIOUS
<1>1. log \in Seq(Events)  BY DEF IInv, GoodLog
<1>2. ASSUME NEW k \in DOMAIN log  PROVE log[k].type \in EventTypes
  <2>1. log[k] \in Events  BY <1>1
  <2> QED  BY <2>1, EventTypesAre
<1> QED  BY <1>2 DEF IInv, TypeOK

\* The contract of the log follows from it too.
LEMMA InvLogValid == IInv => LogValid
<1> SUFFICES ASSUME IInv  PROVE LogValid
  OBVIOUS
<1>1. Good(log)  BY GoodWhole DEF IInv
<1> QED  BY <1>1, InvTyped DEF IInv, Good, LogValid

\* Convergence, for the log the session has.
LEMMA InvConverges == IInv => RepairConverges
<1> SUFFICES ASSUME IInv  PROVE RepairConverges
  OBVIOUS
<1>1. Good(log)  BY GoodWhole DEF IInv
<1> QED  BY <1>1, Convergence DEF RepairConverges

\* A cut is a prefix, an end-seed marker keeps it good, and its closers balance it.
LEMMA InvForks == IInv => ForkSeedsValid
<1> SUFFICES ASSUME IInv, NEW b \in DOMAIN log
             PROVE  /\ Replay(ForkSeed(log, b)).ok
                    /\ Replay(ForkSeed(log, b)).trace.openTurn = None
                    /\ Replay(ForkSeed(log, b)).trace.pendingCalls = {}
  BY DEF ForkSeedsValid
<1> DEFINE p == SubSeq(log, 1, b)
           e == Event("session/end-seed", None, None, 0)
           t == Append(p, e)
<1>1. GoodLog(log) /\ log \in Seq(Events)  BY DEF IInv, GoodLog
<1>2. b \in 0..Len(log)  BY <1>1
<1>3. Good(p)  BY <1>1, <1>2 DEF GoodLog
<1>4. e \in Events /\ e.type = "session/end-seed"  BY PlainEvent DEF PlainTypes, None
<1>5. ForkSeed(log, b) = t \o Closers(t)  BY DEF ForkSeed
<1> HIDE DEF p, e
<1>6. Good(t)  BY <1>3, <1>4, GoodSeed
<1> HIDE DEF t
<1>7. Good(t \o Closers(t)) /\ Closers(t \o Closers(t)) = <<>>  BY <1>6, ClosedIs
<1> QED  BY <1>5, <1>7, NothingToClose

\* The truth of a repair: answers per call, and Exclusive with the durable records.
LEMMA InvTruth == IInv => RepairTellsTruth
<1> SUFFICES ASSUME IInv  PROVE RepairTellsTruth
  OBVIOUS
<1>1. InterruptedStepAnswered  BY Interrupted
<1>2. SideEffectsRecorded  BY DEF IInv
<1>3. NotStartedNeverRan
  <2> SUFFICES ASSUME NEW k \in DOMAIN log, log[k].type = "tool/not-started",
                      <<log[k].turn, log[k].step, log[k].call>> \in ran
               PROVE  FALSE
    BY DEF NotStartedNeverRan
  <2>1. log \in Seq(Events) /\ Exclusive(log) /\ durable \in 0..Len(log)
    BY GoodWhole DEF IInv, Good
  <2>2. PICK j \in 1..durable : /\ log[j].type = "tool/call"
                                /\ <<log[j].turn, log[j].step, log[j].call>>
                                   = <<log[k].turn, log[k].step, log[k].call>>
    BY <1>2 DEF SideEffectsRecorded, Recorded
  <2>3. j \in DOMAIN log  BY <2>1
  <2> QED  BY <2>1, <2>2, <2>3 DEF Exclusive
<1> QED  BY <1>1, <1>2, <1>3 DEF RepairTellsTruth

\* For any calls and however many crashes, also among the closers: the log
\* satisfies the contract of invariant.ts at every moment, and the live trace
\* is the one the companion replays from it.
THEOREM LogAlwaysValid == Spec => []LogValid
<1>1. IInv => LogValid  BY InvLogValid
<1> QED  BY <1>1, RepairInvariant, PTL

\* What openTurnClosers writes for an interrupted step is complete and true:
\* one result per call of the response, none "not started" whose body ran, and
\* no body that ran without its tool/call on the durable log.
THEOREM ToldTheTruth == Spec => []RepairTellsTruth
<1>1. IInv => RepairTellsTruth  BY InvTruth
<1> QED  BY <1>1, RepairInvariant, PTL

\* A crash between two closers leads the next resume to the same log.
THEOREM Converges == Spec => []RepairConverges
<1>1. IInv => RepairConverges  BY InvConverges
<1> QED  BY <1>1, RepairInvariant, PTL

\* Cut at any event, also inside a step, buildForkSeed makes a log that abides
\* by the contract and leaves nothing open.
THEOREM ForksAreValid == Spec => []ForkSeedsValid
<1>1. IInv => ForkSeedsValid  BY InvForks
<1> QED  BY <1>1, RepairInvariant, PTL
=============================================================================
