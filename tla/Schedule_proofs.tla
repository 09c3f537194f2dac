-------------------------- MODULE Schedule_proofs --------------------------
(***************************************************************************)
(* What the reminders of one agent promise, for any number of calls,       *)
(* turns, failures and crashes and for any delays: what a tool or a stop   *)
(* reported survives, a reminder is repeated only across a crash, a timer  *)
(* is kept for what is left, and a disposal is quiet.                       *)
(* The log is cut by crashes, so its invariants speak of every prefix, and *)
(* of the fold of that prefix: the lemmas go by induction over the log,    *)
(* which the well-foundedness of the natural numbers gives for sets.        *)
(***************************************************************************)
EXTENDS Schedule, SequenceTheorems, FiniteSetTheorems, WellFoundedInduction, TLAPS

-----------------------------------------------------------------------------
(* Induction.                                                                *)

\* A set of numbers has a least one.
LEMMA LeastOf ==
    ASSUME NEW S \in SUBSET Nat, S # {}
    PROVE  \E x \in S : \A y \in S : x <= y
<1> DEFINE R == {ss \in Nat \X Nat : ss[1] < ss[2]}
<1>0. IsWellFoundedOn(R, Nat)
  BY NatLessThanWellFounded DEF OpToRel
<1> HIDE DEF R
<1>1. PICK x \in S : \A y \in S : ~(<<y, x>> \in R)
  BY <1>0, WFMin
<1>2. \A y \in S : x <= y
  <2> SUFFICES ASSUME NEW y \in S, y < x  PROVE FALSE
    BY SMT
  <2>1. <<y, x>> \in Nat \X Nat  OBVIOUS
  <2>2. <<y, x>>[1] < <<y, x>>[2]  OBVIOUS
  <2>3. <<y, x>> \in R  BY <2>1, <2>2, Zenon DEF R
  <2> QED  BY <1>1, <2>3
<1> QED  BY <1>2

\* A set that holds zero and every successor of what it holds holds all numbers.
LEMMA ByInduction ==
    ASSUME NEW P, 0 \in P, \A n \in Nat : n \in P => n + 1 \in P
    PROVE  Nat \subseteq P
<1> SUFFICES ASSUME Nat \ P # {}  PROVE FALSE
  OBVIOUS
<1>1. PICK x \in Nat \ P : \A y \in Nat \ P : x <= y
  BY LeastOf, Zenon
<1>2. x - 1 \in Nat  BY <1>1, SMT
<1>3. x - 1 \in P  BY <1>1, <1>2, SMT
<1> QED  BY <1>1, <1>2, <1>3, SMT

-----------------------------------------------------------------------------
(* The fold.                                                                 *)

\* The fold of no entry.
Empty == [active |-> {}, seen |-> {}, corrupt |-> FALSE]

\* What a fold of the first n entries of s is.
Replays(f, s, n) == f = [k \in 0..n |-> IF k = 0 THEN Empty ELSE Apply(f[k - 1], s[k])]

\* Every log has its folds.
LEMMA ReplayExists ==
    ASSUME NEW s
    PROVE  \A n \in Nat : \E f : Replays(f, s, n)
<1> DEFINE P == {n \in Nat : \E f : Replays(f, s, n)}
<1>1. 0 \in P
  <2>1. Replays([k \in 0..0 |-> Empty], s, 0)  BY DEF Replays
  <2> QED BY <2>1
<1>2. ASSUME NEW n \in P  PROVE n + 1 \in P
  <2>1. PICK f : Replays(f, s, n)  OBVIOUS
  <2> DEFINE g == [k \in 0..(n + 1) |-> IF k = n + 1 THEN Apply(f[n], s[n + 1]) ELSE f[k]]
  <2>2. ASSUME NEW k \in 0..(n + 1)
        PROVE  g[k] = IF k = 0 THEN Empty ELSE Apply(g[k - 1], s[k])
    BY <2>1, <2>2 DEF Replays
  <2>3. Replays(g, s, n + 1)  BY <2>2 DEF Replays
  <2> QED BY <2>3
<1> HIDE DEF P
<1>3. Nat \subseteq P  BY <1>1, <1>2, ByInduction
<1> QED BY <1>3 DEF P

\* The folds of a log obey the recursion they are defined by.
LEMMA ReplayIs ==
    ASSUME NEW s, Len(s) \in Nat
    PROVE  /\ Replay(s)[0] = Empty
           /\ \A n \in 1..Len(s) : Replay(s)[n] = Apply(Replay(s)[n - 1], s[n])
<1> DEFINE F == CHOOSE f : Replays(f, s, Len(s))
<1>1. Replays(F, s, Len(s))  BY ReplayExists
<1>2. Replay(s) = F  BY DEF Replay, Replays, Empty
<1> HIDE DEF F
<1>3. F[0] = Empty  BY <1>1 DEF Replays
<1>4. ASSUME NEW n \in 1..Len(s)  PROVE F[n] = Apply(F[n - 1], s[n])
  <2>1. n \in 0..Len(s) /\ n # 0  OBVIOUS
  <2> QED  BY <1>1, <2>1 DEF Replays
<1> QED BY <1>2, <1>3, <1>4

\* Logs that agree up to n have the same folds up to n.
LEMMA ReplayAgrees ==
    ASSUME NEW s, NEW t, Len(s) \in Nat, Len(t) \in Nat,
           NEW m \in Nat, m <= Len(s), m <= Len(t), \A i \in 1..m : s[i] = t[i]
    PROVE  \A n \in 0..m : Replay(s)[n] = Replay(t)[n]
<1> DEFINE P == {n \in Nat : n <= m => Replay(s)[n] = Replay(t)[n]}
<1>1. 0 \in P  BY ReplayIs
<1>2. ASSUME NEW n \in P, n + 1 <= m  PROVE Replay(s)[n + 1] = Replay(t)[n + 1]
  <2>1. n + 1 \in 1..Len(s) /\ n + 1 \in 1..Len(t) /\ n + 1 \in 1..m /\ (n + 1) - 1 = n /\ n <= m
    BY <1>2
  <2>2. Replay(s)[n + 1] = Apply(Replay(s)[n], s[n + 1])  BY <2>1, ReplayIs
  <2>3. Replay(t)[n + 1] = Apply(Replay(t)[n], t[n + 1])  BY <2>1, ReplayIs
  <2> QED  BY <2>1, <2>2, <2>3
<1>3. \A n \in Nat : n \in P => n + 1 \in P  BY <1>2
<1> HIDE DEF P
<1>4. Nat \subseteq P  BY <1>1, <1>3, ByInduction
<1> QED BY <1>4 DEF P

\* One more entry applies to the fold of what was there.
LEMMA ReplayAppend ==
    ASSUME NEW S, NEW s \in Seq(S), NEW e \in S
    PROVE  /\ \A n \in 0..Len(s) : Replay(Append(s, e))[n] = Replay(s)[n]
           /\ Replay(Append(s, e))[Len(s) + 1] = Apply(Fold(s), e)
           /\ Fold(Append(s, e)) = Apply(Fold(s), e)
<1> DEFINE t == Append(s, e)
<1>1. t \in Seq(S) /\ Len(t) = Len(s) + 1 /\ t[Len(s) + 1] = e /\ \A i \in 1..Len(s) : s[i] = t[i]
  OBVIOUS
<1>2. Len(s) \in Nat  OBVIOUS
<1> HIDE DEF t
<1>3. \A n \in 0..Len(s) : Replay(s)[n] = Replay(t)[n]
  BY <1>1, <1>2, ReplayAgrees
<1>4. Replay(t)[Len(s) + 1] = Apply(Replay(t)[(Len(s) + 1) - 1], t[Len(s) + 1])
  BY <1>1, <1>2, ReplayIs
<1>5. (Len(s) + 1) - 1 = Len(s) /\ Len(s) \in 0..Len(s)  BY <1>2
<1>6. Replay(t)[Len(s)] = Fold(s)
  BY <1>3, <1>5 DEF Fold
<1>7. Replay(t)[Len(s) + 1] = Apply(Fold(s), e)
  BY <1>1, <1>4, <1>5, <1>6
<1>8. Fold(t) = Replay(t)[Len(s) + 1]
  BY <1>1 DEF Fold
<1> QED  BY <1>3, <1>7, <1>8 DEF t

\* A prefix has the folds of its log.
LEMMA ReplayPrefix ==
    ASSUME NEW S, NEW s \in Seq(S), NEW m \in 0..Len(s)
    PROVE  /\ \A n \in 0..m : Replay(SubSeq(s, 1, m))[n] = Replay(s)[n]
           /\ Fold(SubSeq(s, 1, m)) = Replay(s)[m]
<1> DEFINE t == SubSeq(s, 1, m)
<1>1. t \in Seq(S) /\ Len(t) = m /\ \A i \in 1..m : t[i] = s[i]
  BY SubSeqProperties
<1>2. Len(s) \in Nat /\ m \in Nat /\ m <= Len(s)  OBVIOUS
<1> HIDE DEF t
<1>3. Len(t) \in Nat /\ m <= Len(t)  BY <1>1, <1>2
<1>4. \A n \in 0..m : Replay(t)[n] = Replay(s)[n]
  BY <1>1, <1>2, <1>3, ReplayAgrees
<1>5. m \in 0..m  BY <1>2
<1>6. Fold(t) = Replay(t)[m]  BY <1>1 DEF Fold
<1> QED  BY <1>4, <1>5, <1>6 DEF t

\* The reminders, and the folds of a log that replays.
Rules == {"after", "every"}
Records == [id : Nat \ {0}, kind : Rules, at : Nat]

\* What is left of a record once its occurrence at a time was dispatched.
Advance(r, t) == IF r.kind = "every" THEN {[r EXCEPT !.at = Occurrence(r, t) + Interval]} ELSE {}

Folds == [active : SUBSET Records, seen : SUBSET Nat, corrupt : {FALSE}]

\* The fold of a log that replays.
Well(f) ==
    /\ f \in Folds
    /\ IsFiniteSet(f.active)
    /\ \E k \in Nat : f.seen = 1..k
    /\ \A r \in f.active : r.id \in f.seen
    /\ \A r, q \in f.active : r.id = q.id => r = q

\* Rounding down to a multiple is monotone and never exceeds.
LEMMA DivMonotone ==
    ASSUME NEW x \in Int, NEW y \in Int, x <= y, NEW d \in Nat \ {0}
    PROVE  /\ x \div d \in Int /\ y \div d \in Int
           /\ (x \div d) * d <= (y \div d) * d /\ (y \div d) * d <= y
<1>1. x \div d \in Int /\ y \div d \in Int  OBVIOUS
<1>2. (x \div d) * d <= x /\ x < (x \div d) * d + d  OBVIOUS
<1>3. (y \div d) * d <= y /\ y < (y \div d) * d + d  OBVIOUS
<1>4. x \div d <= y \div d
  <2> SUFFICES ASSUME y \div d + 1 <= x \div d  PROVE FALSE
    BY <1>1
  <2>1. ((y \div d) + 1) * d <= (x \div d) * d
    BY <1>1
  <2>2. ((y \div d) + 1) * d = (y \div d) * d + d
    BY <1>1
  <2> QED  BY <2>1, <2>2, <1>2, <1>3, <1>1
<1> QED  BY <1>1, <1>3, <1>4

\* The occurrence of an overdue reminder is neither before its target nor in the
\* future, and it grows with the time.
LEMMA OccurrenceIs ==
    ASSUME NEW r \in Records, NEW t \in Nat, NEW u \in Nat, t <= u
    PROVE  /\ Occurrence(r, t) \in Int /\ Occurrence(r, t) <= Occurrence(r, u)
           /\ r.at <= t => r.at <= Occurrence(r, t)
           /\ r.at <= t => Occurrence(r, t) <= t
<1>1. r.at \in Nat /\ Interval \in Nat \ {0}
  BY ParametersAssumption DEF Records
<1>2. CASE r.kind # "every"
  BY <1>1, <1>2 DEF Occurrence
<1>3. CASE r.kind = "every"
  <2> DEFINE x == t - r.at
             y == u - r.at
  <2>1. x \in Int /\ y \in Int /\ x <= y  BY <1>1
  <2>2. Occurrence(r, t) = r.at + (x \div Interval) * Interval
    BY <1>3 DEF Occurrence
  <2>3. Occurrence(r, u) = r.at + (y \div Interval) * Interval
    BY <1>3 DEF Occurrence
  <2>4. ASSUME r.at <= t  PROVE 0 <= x
    BY <1>1, <2>4
  <2>5. t = r.at + x  BY <1>1
  <2> HIDE DEF x, y
  <2>6. /\ x \div Interval \in Int /\ y \div Interval \in Int
        /\ (x \div Interval) * Interval <= (y \div Interval) * Interval
    BY <2>1, <1>1, DivMonotone
  <2>7. (x \div Interval) * Interval <= x
    BY <2>1, <1>1, DivMonotone
  <2>8. (x \div Interval) * Interval \in Int /\ (y \div Interval) * Interval \in Int
    BY <2>6, <1>1
  <2>9. ASSUME 0 <= x  PROVE 0 <= (x \div Interval) * Interval
    <3>1. 0 \div Interval = 0  BY <1>1
    <3>2. (0 \div Interval) * Interval <= (x \div Interval) * Interval
      BY <2>1, <2>9, <1>1, DivMonotone
    <3> QED  BY <3>1, <3>2, <1>1
  <2> QED
    BY <1>1, <2>1, <2>2, <2>3, <2>4, <2>5, <2>6, <2>7, <2>8, <2>9
<1> QED  BY <1>2, <1>3

\* A dispatched record goes on behind all of its past, or not at all.
LEMMA AdvanceIs ==
    ASSUME NEW r \in Records, NEW t \in Nat, r.at <= t
    PROVE  /\ Advance(r, t) \subseteq Records /\ IsFiniteSet(Advance(r, t))
           /\ \A q \in Advance(r, t) : q.id = r.id /\ Occurrence(r, t) < q.at
           /\ \A q, x \in Advance(r, t) : q = x
<1>1. r.at \in Nat /\ Interval \in Nat \ {0}
  BY ParametersAssumption DEF Records
<1>2. Occurrence(r, t) \in Int /\ r.at <= Occurrence(r, t)
  BY OccurrenceIs
<1> DEFINE q == [r EXCEPT !.at = Occurrence(r, t) + Interval]
<1>3. q \in Records /\ q.id = r.id /\ q.at = Occurrence(r, t) + Interval
  BY <1>1, <1>2 DEF Records
<1>4. Advance(r, t) \in {{}, {q}}  BY DEF Advance
<1> HIDE DEF q
<1>5. IsFiniteSet({}) /\ IsFiniteSet({q})  BY FS_EmptySet, FS_Singleton
<1>6. Occurrence(r, t) < q.at  BY <1>1, <1>2, <1>3
<1> QED  BY <1>3, <1>4, <1>5, <1>6

\* A fold with another active set, field by field.
LEMMA Updated ==
    ASSUME NEW f, f \in Folds, NEW a
    PROVE  [f EXCEPT !.active = a] = [active |-> a, seen |-> f.seen, corrupt |-> f.corrupt]
BY DEF Folds

\* A fold that is not marked stays as it is.
LEMMA Unmarked ==
    ASSUME NEW f, f \in Folds, NEW b, b = FALSE
    PROVE  [f EXCEPT !.corrupt = b] = f
BY DEF Folds

\* A create of the next id adds its reminder.
LEMMA ApplyCreate ==
    ASSUME NEW f, Well(f), NEW r \in Records, r.id = Cardinality(f.seen) + 1,
           NEW e, e.op = "create", e.id = r.id, e.record = r
    PROVE  /\ Apply(f, e).active = f.active \cup {r}
           /\ Apply(f, e).seen = f.seen \cup {r.id}
           /\ r.id \notin f.seen
           /\ Well(Apply(f, e))
<1> DEFINE g == [active |-> f.active \cup {r}, seen |-> f.seen \cup {r.id}, corrupt |-> f.corrupt]
<1>1. PICK k \in Nat : f.seen = 1..k  BY DEF Well, Folds
<1>2. Cardinality(1..k) = k  BY <1>1, FS_Interval
<1>3. r.id = k + 1  BY <1>1, <1>2
<1>4. r.id \notin f.seen /\ f.seen \cup {r.id} = 1..(k + 1)  BY <1>1, <1>3
<1>5. f \in Folds /\ f.corrupt = FALSE  BY DEF Well, Folds
<1> DEFINE others == {x \in f.active : x.id # e.id}
           advanced == {[x EXCEPT !.at = Occurrence(x, e.time) + Interval] :
                          x \in {x \in f.active : x.id = e.id /\ x.kind = "every"}}
           refused == CASE e.op = "create" -> e.id \in f.seen
                        [] e.op \in {"delete", "dispatch"} -> others = f.active
                        [] OTHER -> FALSE
           checked == [f EXCEPT !.corrupt = @ \/ refused]
<1>61. ~refused  BY <1>4
<1> HIDE DEF refused
<1>62. checked = f
  <2>1. (f.corrupt \/ refused) = FALSE  BY <1>5, <1>61
  <2> QED  BY <1>5, <2>1, Unmarked, Zenon
<1> HIDE DEF checked
<1>63. Apply(f, e) = [checked EXCEPT !.active = @ \cup {e.record}, !.seen = @ \cup {e.id}]
  BY DEF Apply, checked, refused
<1>64. Apply(f, e) = [f EXCEPT !.active = f.active \cup {r}, !.seen = f.seen \cup {r.id}]
  BY <1>62, <1>63
<1> DEFINE a == f.active \cup {r}
           b == f.seen \cup {r.id}
<1> HIDE DEF a, b
<1>65. [f EXCEPT !.active = a, !.seen = b] = [active |-> a, seen |-> b, corrupt |-> f.corrupt]
  <2>1. [f EXCEPT !.active = a] = [active |-> a, seen |-> f.seen, corrupt |-> f.corrupt]
    BY <1>5, Updated
  <2>2. [f EXCEPT !.active = a, !.seen = b] = [[f EXCEPT !.active = a] EXCEPT !.seen = b]
    BY <1>5, SMT DEF Folds
  <2>3. [[active |-> a, seen |-> f.seen, corrupt |-> f.corrupt] EXCEPT !.seen = b]
          = [active |-> a, seen |-> b, corrupt |-> f.corrupt]
    BY SMT
  <2> QED  BY <2>1, <2>2, <2>3
<1>66. [f EXCEPT !.active = f.active \cup {r}, !.seen = f.seen \cup {r.id}] = g
  BY <1>65 DEF a, b
<1>6. Apply(f, e) = g
  BY <1>64, <1>66, Zenon
<1>7. f.active \cup {r} \subseteq Records /\ f.seen \cup {r.id} \subseteq Nat
  BY <1>1, <1>4 DEF Well, Folds
<1>8. IsFiniteSet(f.active \cup {r})
  BY FS_AddElement DEF Well, Folds
<1>9. Well(g)
  <2>1. \A q \in f.active : q.id # r.id  BY <1>4 DEF Well, Folds
  <2>2. g \in Folds  BY <1>5, <1>7 DEF Folds
  <2>3. \E n \in Nat : g.seen = 1..n  BY <1>4, <1>1
  <2>4. \A x \in g.active : x.id \in g.seen  BY DEF Well
  <2>5. \A x, q \in g.active : x.id = q.id => x = q  BY <2>1 DEF Well
  <2> QED  BY <1>8, <2>2, <2>3, <2>4, <2>5 DEF Well
<1> QED  BY <1>4, <1>6, <1>9

\* A delete of an active reminder takes it away.
LEMMA ApplyDelete ==
    ASSUME NEW f, Well(f), NEW r \in f.active, NEW e, e.op = "delete", e.id = r.id
    PROVE  /\ Apply(f, e).active = f.active \ {r}
           /\ Apply(f, e).seen = f.seen
           /\ Well(Apply(f, e))
<1> DEFINE g == [active |-> f.active \ {r}, seen |-> f.seen, corrupt |-> f.corrupt]
<1>1. {x \in f.active : x.id # e.id} = f.active \ {r}  BY DEF Well, Folds
<1>2. f.active \ {r} # f.active  OBVIOUS
<1>5. f \in Folds /\ f.corrupt = FALSE  BY DEF Well, Folds
<1> DEFINE others == {x \in f.active : x.id # e.id}
           advanced == {[x EXCEPT !.at = Occurrence(x, e.time) + Interval] :
                          x \in {x \in f.active : x.id = e.id /\ x.kind = "every"}}
           refused == CASE e.op = "create" -> e.id \in f.seen
                        [] e.op \in {"delete", "dispatch"} -> others = f.active
                        [] OTHER -> FALSE
           checked == [f EXCEPT !.corrupt = @ \/ refused]
<1>61. ~refused  BY <1>1, <1>2
<1> HIDE DEF refused
<1>62. checked = f
  <2>1. (f.corrupt \/ refused) = FALSE  BY <1>5, <1>61
  <2> QED  BY <1>5, <2>1, Unmarked, Zenon
<1> HIDE DEF checked
<1>63. Apply(f, e) = [checked EXCEPT !.active = others]
  BY DEF Apply, checked, refused
<1>64. Apply(f, e) = [f EXCEPT !.active = others]
  BY <1>62, <1>63
<1>65. [f EXCEPT !.active = others] = g
  BY <1>5, <1>1, Updated
<1>6. Apply(f, e) = g
  BY <1>64, <1>65
<1>8. IsFiniteSet(f.active \ {r})
  BY FS_Difference DEF Well, Folds
<1>9. Well(g)
  BY <1>8 DEF Well, Folds
<1> QED  BY <1>6, <1>9

\* A dispatch of an overdue reminder ends or advances it; every other one stays.
LEMMA ApplyDispatch ==
    ASSUME NEW f, Well(f), NEW r \in f.active, NEW t \in Nat, r.at <= t,
           NEW e, e.op = "dispatch", e.id = r.id, e.time = t
    PROVE  /\ Apply(f, e).active = (f.active \ {r}) \cup Advance(r, t)
           /\ Apply(f, e).seen = f.seen
           /\ Well(Apply(f, e))
<1> DEFINE g == [active |-> (f.active \ {r}) \cup Advance(r, t), seen |-> f.seen,
                 corrupt |-> f.corrupt]
<1>1. {x \in f.active : x.id # e.id} = f.active \ {r}  BY DEF Well, Folds
<1>2. f.active \ {r} # f.active  OBVIOUS
<1>3. {x \in f.active : x.id = e.id /\ x.kind = "every"} = IF r.kind = "every" THEN {r} ELSE {}
  BY DEF Well, Folds
<1>4. {[x EXCEPT !.at = Occurrence(x, e.time) + Interval] :
          x \in {x \in f.active : x.id = e.id /\ x.kind = "every"}} = Advance(r, t)
  BY <1>3 DEF Advance
<1>5. f \in Folds /\ f.corrupt = FALSE  BY DEF Well, Folds
<1> DEFINE others == {x \in f.active : x.id # e.id}
           advanced == {[x EXCEPT !.at = Occurrence(x, e.time) + Interval] :
                          x \in {x \in f.active : x.id = e.id /\ x.kind = "every"}}
           refused == CASE e.op = "create" -> e.id \in f.seen
                        [] e.op \in {"delete", "dispatch"} -> others = f.active
                        [] OTHER -> FALSE
           checked == [f EXCEPT !.corrupt = @ \/ refused]
<1>61. ~refused  BY <1>1, <1>2
<1> HIDE DEF refused
<1>62. checked = f
  <2>1. (f.corrupt \/ refused) = FALSE  BY <1>5, <1>61
  <2> QED  BY <1>5, <2>1, Unmarked, Zenon
<1> HIDE DEF checked
<1>63. Apply(f, e) = [checked EXCEPT !.active = others \cup advanced]
  BY DEF Apply, checked, refused
<1>64. others \cup advanced = (f.active \ {r}) \cup Advance(r, t)  BY <1>1, <1>4
<1> HIDE DEF others, advanced
<1>65. Apply(f, e) = [f EXCEPT !.active = (f.active \ {r}) \cup Advance(r, t)]
  BY <1>62, <1>63, <1>64
<1>6. Apply(f, e) = g
  BY <1>5, <1>65, Updated
<1>7. r \in Records /\ f.active \subseteq Records  BY DEF Well, Folds
<1>8. IsFiniteSet((f.active \ {r}) \cup Advance(r, t))
  BY <1>7, AdvanceIs, FS_Difference, FS_Union DEF Well, Folds
<1>9. Well(g)
  <2>1. Advance(r, t) \subseteq Records /\ \A q \in Advance(r, t) : q.id = r.id
    BY <1>7, AdvanceIs
  <2>2. \A q, x \in Advance(r, t) : q = x  BY <1>7, AdvanceIs
  <2>3. (f.active \ {r}) \cup Advance(r, t) \in SUBSET Records /\ f.seen \in SUBSET Nat
    BY <1>7, <2>1 DEF Well, Folds
  <2>4. g \in Folds  BY <1>5, <2>3 DEF Folds
  <2>5. \E k \in Nat : g.seen = 1..k  BY DEF Well
  <2>6. \A x \in g.active : x.id \in g.seen  BY <2>1 DEF Well
  <2>7. \A x, q \in g.active : x.id = q.id => x = q  BY <2>1, <2>2 DEF Well
  <2> QED  BY <1>8, <2>4, <2>5, <2>6, <2>7 DEF Well
<1> QED  BY <1>6, <1>9

\* A message changes nothing of the fold.
LEMMA ApplyMessage ==
    ASSUME NEW f, NEW e, e.op = "message"
    PROVE  Apply(f, e) = f
BY DEF Apply

\* The entries of a log.
Facts == [op : {"create"}, id : Nat, record : Records]
           \cup [op : {"delete"}, id : Nat]
           \cup [op : {"dispatch"}, id : Nat, time : Nat]
           \cup [op : {"message"}, id : {0}, life : Nat, due : SUBSET (Nat \X Nat)]

\* Every prefix of the log can be read: a crash may cut it anywhere.
WellFolded(s) == \A n \in 0..Len(s) : Well(Replay(s)[n])

\* A dispatch of id among the entries a to b.
Dispatched(s, id, a, b) == \E k \in a..b : s[k].op = "dispatch" /\ s[k].id = id

\* What a delete names is over: it is never active again and no message has it.
Gone(s) ==
    \A i \in 1..Len(s) : s[i].op = "delete" =>
        /\ \A n \in i..Len(s) : /\ s[i].id \in Replay(s)[n].seen
                                /\ \A r \in Replay(s)[n].active : r.id # s[i].id
        /\ \A j \in (i + 1)..Len(s) : s[j].op = "message" => \A d \in s[j].due : d[1] # s[i].id

\* The entry is a message that has an occurrence of the reminder.
Covered(s, i, id) == s[i].op = "message" /\ \E d \in s[i].due : d[1] = id

\* A dispatch has its message before it, and no other dispatch between.
Recorded(s) ==
    \A i \in 1..Len(s) : s[i].op = "dispatch" =>
        \E j \in 1..(i - 1) : Covered(s, j, s[i].id) /\ ~Dispatched(s, s[i].id, j + 1, i - 1)

\* What became of a reminder since its message: it is ahead of the message once
\* a dispatch followed, and until then its next occurrence is no earlier one.
Passed(s, d, i, n, t) ==
    /\ d[1] \in Replay(s)[n].seen
    /\ \A r \in Replay(s)[n].active : r.id = d[1] =>
          IF Dispatched(s, d[1], i, n) THEN d[2] < r.at ELSE d[2] <= Occurrence(r, t)

\* Every message is of an occurrence that its reminder had not passed.
Advanced(s, t) ==
    \A i \in 1..Len(s) : s[i].op = "message" =>
        \A d \in s[i].due, n \in i..Len(s) : Passed(s, d, i, n, t)

\* An occurrence is in two messages only of two lives, without its dispatch.
Once(s) ==
    \A i, j \in 1..Len(s) :
        (i < j /\ s[i].op = "message" /\ s[j].op = "message") =>
            \A d \in s[i].due \cap s[j].due :
                s[i].life # s[j].life /\ ~Dispatched(s, d[1], i, j)

\* No message is of a life to come.
Lived(s, life) == \A i \in 1..Len(s) : s[i].op = "message" => s[i].life <= life

\* The part of the invariant that speaks of the log alone; a prefix has it too.
LogOK(s, t, life) ==
    /\ s \in Seq(Facts)
    /\ WellFolded(s) /\ Gone(s) /\ Recorded(s) /\ Advanced(s, t) /\ Once(s) /\ Lived(s, life)

\* Everything a life queued is dispatched.
Settled(s, life) ==
    \A i \in 1..Len(s) : (s[i].op = "message" /\ s[i].life = life) =>
        \A d \in s[i].due : Dispatched(s, d[1], i, Len(s))

\* What may be appended to a log at time t in a life.
Legal(s, e, t, life) ==
    \/ /\ e.op = "create"
       /\ e.record \in Records /\ e.id = e.record.id /\ e.id = Cardinality(Fold(s).seen) + 1
    \/ /\ e.op = "delete"
       /\ \E r \in Active(s) : r.id = e.id
    \/ /\ e.op = "dispatch" /\ e.time = t
       /\ \E r \in Active(s) : r.id = e.id /\ r.at <= t
       /\ \E j \in 1..Len(s) : Covered(s, j, e.id) /\ ~Dispatched(s, e.id, j + 1, Len(s))
    \/ /\ e.op = "message" /\ e.life = life
       /\ Settled(s, life)
       /\ \A d \in e.due : \E r \in Active(s) : r.at <= t /\ d = <<r.id, Occurrence(r, t)>>

-----------------------------------------------------------------------------
\* An entry never makes the log unreadable.
LEMMA FoldGrows ==
    ASSUME NEW f, Well(f), NEW s, f = Fold(s), NEW e, NEW t \in Nat, NEW life, Legal(s, e, t, life),
           NEW g, g = Apply(f, e)
    PROVE  /\ Well(g) /\ f.seen \subseteq g.seen
           /\ e.op \in {"create", "delete"} => e.id \in g.seen
           /\ e.op = "delete" => \A r \in g.active : r.id # e.id
           /\ \A r \in g.active :
                 \/ r \in f.active /\ ~(e.op = "dispatch" /\ e.id = r.id)
                 \/ r.id \notin f.seen
                 \/ /\ e.op = "dispatch" /\ e.id = r.id
                    /\ \E q \in f.active : /\ q.id = r.id /\ q.at <= t
                                           /\ Occurrence(q, t) < r.at
<1>1. CASE e.op = "create"
  <2>1. e.record \in Records /\ e.id = e.record.id /\ e.record.id = Cardinality(f.seen) + 1
    BY <1>1 DEF Legal
  <2>2. /\ g.active = f.active \cup {e.record}
        /\ g.seen = f.seen \cup {e.record.id}
        /\ e.record.id \notin f.seen /\ Well(g)
    BY <1>1, <2>1, ApplyCreate
  <2> QED  BY <1>1, <2>1, <2>2
<1>2. CASE e.op = "delete"
  <2>1. PICK r \in f.active : r.id = e.id
    BY <1>2 DEF Legal, Active
  <2>2. g.active = f.active \ {r} /\ g.seen = f.seen /\ Well(g)
    BY <1>2, <2>1, ApplyDelete
  <2> QED  BY <1>2, <2>1, <2>2 DEF Well
<1>3. CASE e.op = "dispatch"
  <2>1. e.time = t  BY <1>3 DEF Legal
  <2>2. PICK r \in f.active : r.id = e.id /\ r.at <= t
    BY <1>3 DEF Legal, Active
  <2>3. g.active = (f.active \ {r}) \cup Advance(r, t) /\ g.seen = f.seen /\ Well(g)
    BY <1>3, <2>1, <2>2, ApplyDispatch
  <2>4. r \in Records  BY DEF Well, Folds
  <2>5. \A q \in Advance(r, t) : q.id = r.id /\ Occurrence(r, t) < q.at
    BY <2>2, <2>4, AdvanceIs
  <2>6. \A q \in f.active \ {r} : q.id # e.id  BY <2>2 DEF Well
  <2> QED  BY <1>3, <2>2, <2>3, <2>5, <2>6
<1>4. CASE e.op = "message"
  <2>1. g = f  BY <1>4, ApplyMessage
  <2> QED  BY <1>4, <2>1
<1> QED  BY <1>1, <1>2, <1>3, <1>4 DEF Legal

\* The log u is s with one more entry, a legal one.
Grown(s, e, u) ==
    /\ Len(s) \in Nat /\ Len(u) = Len(s) + 1 /\ u[Len(u)] = e
    /\ \A i \in 1..Len(s) : u[i] = s[i]
    /\ \A n \in 0..Len(s) : Replay(u)[n] = Replay(s)[n]
    /\ Replay(u)[Len(u)] = Apply(Fold(s), e)

\* A log with one more entry, in terms of its places.
LEMMA GrownIs ==
    ASSUME NEW s \in Seq(Facts), NEW e \in Facts
    PROVE  Grown(s, e, Append(s, e)) /\ Append(s, e) \in Seq(Facts)
<1> DEFINE u == Append(s, e)
<1>1. u \in Seq(Facts) /\ Len(s) \in Nat /\ Len(u) = Len(s) + 1 /\ u[Len(s) + 1] = e
  OBVIOUS
<1>2. \A i \in 1..Len(s) : u[i] = s[i]
  OBVIOUS
<1>3. /\ \A n \in 0..Len(s) : Replay(u)[n] = Replay(s)[n]
      /\ Replay(u)[Len(s) + 1] = Apply(Fold(s), e)
  BY ReplayAppend
<1> HIDE DEF u
<1>4. Grown(s, e, u)  BY <1>1, <1>2, <1>3 DEF Grown
<1> QED  BY <1>1, <1>4 DEF u

\* The dispatches of a log with one more entry.
LEMMA DispatchedGrows ==
    ASSUME NEW s, NEW e, NEW u, Grown(s, e, u), NEW id, NEW a \in Nat \ {0}
    PROVE  /\ \A b \in 0..Len(s) : Dispatched(u, id, a, b) <=> Dispatched(s, id, a, b)
           /\ a <= Len(u) => (Dispatched(u, id, a, Len(u)) <=>
                                Dispatched(s, id, a, Len(s)) \/ (e.op = "dispatch" /\ e.id = id))
<1>0. Len(s) \in Nat /\ Len(u) = Len(s) + 1 /\ u[Len(u)] = e /\ \A i \in 1..Len(s) : u[i] = s[i]
  BY DEF Grown
<1>1. ASSUME NEW b \in 0..Len(s)
      PROVE  Dispatched(u, id, a, b) <=> Dispatched(s, id, a, b)
  <2>1. \A k \in a..b : u[k] = s[k]  BY <1>0
  <2> QED  BY <2>1 DEF Dispatched
<1>2. ASSUME a <= Len(u)
      PROVE  Dispatched(u, id, a, Len(u)) <=>
               Dispatched(s, id, a, Len(s)) \/ (e.op = "dispatch" /\ e.id = id)
  <2>1. \A k \in a..Len(s) : u[k] = s[k]  BY <1>0
  <2>2. a..Len(u) = (a..Len(s)) \cup {Len(u)}  BY <1>0, <1>2
  <2> QED  BY <1>0, <2>1, <2>2 DEF Dispatched
<1> QED  BY <1>1, <1>2

\* Every prefix stays readable when the last fold does.
LEMMA WellFoldedGrows ==
    ASSUME NEW s, NEW e, NEW u, Grown(s, e, u), WellFolded(s), Well(Apply(Fold(s), e))
    PROVE  WellFolded(u)
<1>1. Len(s) \in Nat /\ Len(u) = Len(s) + 1  BY DEF Grown
<1>2. 0..Len(u) = (0..Len(s)) \cup {Len(u)}  BY <1>1
<1> QED  BY <1>2 DEF WellFolded, Grown

\* The new entry's own fold, and what a legal entry does to it.
Folding(f, g, e, t) ==
    /\ f.seen \subseteq g.seen
    /\ e.op \in {"create", "delete"} => e.id \in g.seen
    /\ e.op = "delete" => \A r \in g.active : r.id # e.id
    /\ \A r \in g.active :
          \/ r \in f.active /\ ~(e.op = "dispatch" /\ e.id = r.id)
          \/ r.id \notin f.seen
          \/ /\ e.op = "dispatch" /\ e.id = r.id
             /\ \E q \in f.active : q.id = r.id /\ q.at <= t /\ Occurrence(q, t) < r.at

\* What a delete named stays gone: ids are not given again, and messages and
\* dispatches are of active reminders.
LEMMA GoneGrows ==
    ASSUME NEW s, NEW e, NEW u, Grown(s, e, u), Gone(s), NEW t \in Nat, NEW life,
           Legal(s, e, t, life), Folding(Fold(s), Apply(Fold(s), e), e, t)
    PROVE  Gone(u)
<1> DEFINE L == Len(s)
           f == Replay(s)[L]
           g == Replay(u)[L + 1]
<1>1. L \in Nat /\ Len(u) = L + 1 /\ u[L + 1] = e /\ \A i \in 1..L : u[i] = s[i]
  BY DEF Grown
<1>2. \A n \in 0..L : Replay(u)[n] = Replay(s)[n]  BY DEF Grown
<1>3. Folding(f, g, e, t)  BY <1>1 DEF Fold, Grown
<1> HIDE DEF L, f, g
<1>4. ASSUME NEW i \in 1..L, s[i].op = "delete"
      PROVE  /\ s[i].id \in f.seen /\ \A r \in f.active : r.id # s[i].id
  BY <1>1, <1>4 DEF Gone, L, f
<1>5. ASSUME NEW i \in 1..(L + 1), u[i].op = "delete"
      PROVE  u[i].id \in g.seen /\ \A r \in g.active : r.id # u[i].id
  <2>1. CASE i = L + 1
    BY <1>1, <1>3, <1>5, <2>1 DEF Folding
  <2>2. CASE i \in 1..L
    <3>1. s[i].op = "delete" /\ u[i] = s[i]  BY <1>1, <1>5, <2>2
    <3>2. s[i].id \in f.seen /\ \A r \in f.active : r.id # s[i].id  BY <1>4, <2>2, <3>1
    <3> QED  BY <1>3, <3>1, <3>2 DEF Folding
  <2> QED  BY <1>1, <2>1, <2>2
<1>6. ASSUME NEW i \in 1..L, s[i].op = "delete", e.op = "message", NEW d \in e.due
      PROVE  d[1] # s[i].id
  <2>1. PICK r \in f.active : d = <<r.id, Occurrence(r, t)>>
    BY <1>6 DEF Legal, Active, Fold, f, L
  <2> QED  BY <1>4, <1>6, <2>1
<1>7. ASSUME NEW i \in 1..(L + 1), u[i].op = "delete", NEW n \in i..(L + 1)
      PROVE  u[i].id \in Replay(u)[n].seen /\ \A r \in Replay(u)[n].active : r.id # u[i].id
  <2>1. CASE n = L + 1
    BY <1>5, <1>7, <2>1 DEF g
  <2>2. CASE n # L + 1
    <3>1. i \in 1..L /\ n \in i..L /\ n \in 0..L  BY <1>1, <1>7, <2>2
    <3> QED  BY <1>1, <1>2, <1>7, <3>1 DEF Gone, L
  <2> QED  BY <2>1, <2>2
<1>8. ASSUME NEW i \in 1..(L + 1), u[i].op = "delete",
             NEW j \in (i + 1)..(L + 1), u[j].op = "message", NEW d \in u[j].due
      PROVE  d[1] # u[i].id
  <2>0. i \in 1..L  BY <1>1, <1>8
  <2>1. CASE j = L + 1
    BY <1>1, <1>6, <1>8, <2>0, <2>1
  <2>2. CASE j # L + 1
    <3>1. j \in (i + 1)..L /\ j \in 1..L  BY <1>1, <1>8, <2>2
    <3> QED  BY <1>1, <1>8, <2>0, <3>1 DEF Gone, L
  <2> QED  BY <2>1, <2>2
<1> QED  BY <1>1, <1>7, <1>8 DEF Gone

\* A dispatch comes with the message it acknowledges.
LEMMA RecordedGrows ==
    ASSUME NEW s, NEW e, NEW u, Grown(s, e, u), Recorded(s), NEW t, NEW life, Legal(s, e, t, life)
    PROVE  Recorded(u)
<1>0. Len(s) \in Nat /\ Len(u) = Len(s) + 1 /\ u[Len(s) + 1] = e /\ \A i \in 1..Len(s) : u[i] = s[i]
  BY DEF Grown
<1> SUFFICES ASSUME NEW i \in 1..Len(u), u[i].op = "dispatch"
             PROVE  \E j \in 1..(i - 1) :
                      Covered(u, j, u[i].id) /\ ~Dispatched(u, u[i].id, j + 1, i - 1)
  BY DEF Recorded
<1>1. i \in Nat /\ i - 1 \in 0..Len(s)  BY <1>0
<1>2. PICK j \in 1..(i - 1) :
         Covered(s, j, u[i].id) /\ ~Dispatched(s, u[i].id, j + 1, i - 1)
  <2>1. CASE i = Len(s) + 1
    BY <1>0, <2>1 DEF Legal
  <2>2. CASE i \in 1..Len(s)
    BY <1>0, <2>2 DEF Recorded
  <2> QED  BY <1>0, <2>1, <2>2
<1>3. j \in 1..Len(s) /\ j + 1 \in Nat \ {0}  BY <1>1
<1>4. Covered(u, j, u[i].id)  BY <1>0, <1>2, <1>3 DEF Covered
<1>5. ~Dispatched(u, u[i].id, j + 1, i - 1)
  <2> DEFINE a == j + 1
             b == i - 1
  <2>1. a \in Nat \ {0} /\ b \in 0..Len(s)  BY <1>1, <1>3
  <2>2. ~Dispatched(s, u[i].id, a, b)  BY <1>2
  <2> HIDE DEF a, b
  <2>3. ~Dispatched(u, u[i].id, a, b)  BY <2>1, <2>2, DispatchedGrows
  <2> QED  BY <2>3 DEF a, b
<1> QED  BY <1>4, <1>5

\* The message of an active reminder: it is what its next occurrence is.
LEMMA MessageIs ==
    ASSUME NEW s, NEW e, NEW t, NEW life, Legal(s, e, t, life), e.op = "message",
           Well(Fold(s)), NEW d \in e.due
    PROVE  /\ e.life = life /\ Settled(s, life)
           /\ d[1] \in Fold(s).seen
           /\ \A r \in Fold(s).active : r.id = d[1] => r.at <= t /\ d[2] = Occurrence(r, t)
           /\ \E r \in Fold(s).active : r.id = d[1]
<1>1. PICK r \in Fold(s).active : r.at <= t /\ d = <<r.id, Occurrence(r, t)>>
  BY DEF Legal, Active
<1> QED  BY <1>1 DEF Legal, Well

\* A message is of an occurrence its reminder has not passed; a dispatch passes it.
LEMMA AdvancedGrows ==
    ASSUME NEW s \in Seq(Facts), NEW e \in Facts, NEW u, Grown(s, e, u),
           NEW t \in Nat, NEW life, Legal(s, e, t, life),
           WellFolded(s), Advanced(s, t), Folding(Fold(s), Apply(Fold(s), e), e, t)
    PROVE  Advanced(u, t)
<1> DEFINE L == Len(s)
           f == Fold(s)
           g == Apply(Fold(s), e)
<1>1. L \in Nat /\ Len(u) = L + 1 /\ u[L + 1] = e /\ \A i \in 1..L : u[i] = s[i]
  BY DEF Grown
<1>2. \A n \in 0..L : Replay(u)[n] = Replay(s)[n]  BY DEF Grown
<1>3. Folding(f, g, e, t) /\ Replay(u)[L + 1] = g /\ f = Replay(s)[L] /\ Well(f)
  BY <1>1 DEF Fold, Grown, WellFolded
<1>4. \A i \in 1..L : s[i].op = "message" => \A d \in s[i].due : d[2] \in Nat
  BY DEF Facts
<1>5. f.active \subseteq Records /\ \A r \in f.active : r.at \in Nat
  BY <1>3 DEF Well, Folds, Records
<1> HIDE DEF L, f, g
\* What was passed before the last entry is passed behind it.
<1>6. ASSUME NEW i \in 1..L, s[i].op = "message", NEW d \in s[i].due
      PROVE  Passed(u, d, i, L + 1, t)
  <2>1. L \in i..L  BY <1>1
  <2>2. Passed(s, d, i, L, t)  BY <1>6, <2>1 DEF Advanced, L
  <2>3. d[1] \in f.seen /\ d[1] \in g.seen  BY <1>3, <2>2 DEF Passed, Folding
  <2>4. i \in Nat \ {0} /\ i <= Len(u)  BY <1>1
  <2>5. Dispatched(u, d[1], i, Len(u)) <=>
          Dispatched(s, d[1], i, Len(s)) \/ (e.op = "dispatch" /\ e.id = d[1])
    BY <2>4, DispatchedGrows
  <2>6. ASSUME NEW r \in g.active, r.id = d[1]
        PROVE  IF Dispatched(u, d[1], i, L + 1) THEN d[2] < r.at ELSE d[2] <= Occurrence(r, t)
    <3>1. CASE r \in f.active /\ ~(e.op = "dispatch" /\ e.id = r.id)
      <4>1. IF Dispatched(s, d[1], i, L) THEN d[2] < r.at ELSE d[2] <= Occurrence(r, t)
        BY <1>3, <2>2, <2>6, <3>1 DEF Passed
      <4> QED  BY <1>1, <2>5, <2>6, <3>1, <4>1 DEF L
    <3>2. CASE r.id \notin f.seen
      BY <2>3, <2>6, <3>2
    <3>3. CASE /\ e.op = "dispatch" /\ e.id = r.id
               /\ \E q \in f.active : /\ q.id = r.id /\ q.at <= t
                                      /\ Occurrence(q, t) < r.at
      <4>1. PICK q \in f.active : q.id = r.id /\ q.at <= t /\ Occurrence(q, t) < r.at
        BY <3>3
      <4>2. IF Dispatched(s, d[1], i, L) THEN d[2] < q.at ELSE d[2] <= Occurrence(q, t)
        BY <1>3, <2>2, <2>6, <4>1 DEF Passed
      <4>3. Occurrence(q, t) \in Int /\ q.at <= Occurrence(q, t)
        BY <1>5, <4>1, OccurrenceIs
      <4>4. q.at \in Nat /\ d[2] \in Nat  BY <1>4, <1>5, <1>6
      <4>5. d[2] <= Occurrence(q, t)  BY <4>2, <4>3, <4>4
      <4>6. r.at \in Nat
        <5>1. Well(g)  BY <1>3, FoldGrows DEF f, g
        <5> QED  BY <2>6, <5>1 DEF Well, Folds, Records
      <4>7. d[2] < r.at  BY <4>1, <4>3, <4>4, <4>5, <4>6
      <4>8. Dispatched(u, d[1], i, L + 1)  BY <1>1, <2>5, <2>6, <3>3
      <4> QED  BY <4>7, <4>8
    <3> QED  BY <1>3, <2>6, <3>1, <3>2, <3>3 DEF Folding
  <2> QED  BY <1>3, <2>3, <2>6 DEF Passed
<1>7. ASSUME e.op = "message", NEW d \in e.due
      PROVE  Passed(u, d, L + 1, L + 1, t)
  <2>1. g = f  BY <1>7, ApplyMessage DEF f, g
  <2>2. d[1] \in f.seen /\ \A r \in f.active : r.id = d[1] => d[2] = Occurrence(r, t)
    BY <1>3, <1>7, MessageIs DEF f
  <2>3. ~Dispatched(u, d[1], L + 1, L + 1)  BY <1>1, <1>7 DEF Dispatched
  <2>4. \A r \in f.active : r.id = d[1] => d[2] <= Occurrence(r, t)
    <3> SUFFICES ASSUME NEW r \in f.active, r.id = d[1]  PROVE d[2] <= Occurrence(r, t)
      OBVIOUS
    <3>1. Occurrence(r, t) \in Int  BY <1>5, OccurrenceIs
    <3> QED  BY <2>2, <3>1
  <2> QED  BY <1>3, <2>1, <2>2, <2>3, <2>4 DEF Passed
<1>8. ASSUME NEW i \in 1..(L + 1), u[i].op = "message", NEW d \in u[i].due, NEW n \in i..(L + 1)
      PROVE  Passed(u, d, i, n, t)
  <2>1. CASE i = L + 1
    BY <1>1, <1>7, <1>8, <2>1
  <2>2. CASE i # L + 1 /\ n = L + 1
    BY <1>1, <1>6, <1>8, <2>2
  <2>3. CASE i # L + 1 /\ n # L + 1
    <3>1. i \in 1..L /\ n \in i..L /\ n \in 0..L /\ i \in Nat \ {0}  BY <1>1, <1>8, <2>3
    <3>2. s[i].op = "message" /\ d \in s[i].due  BY <1>1, <1>8, <3>1
    <3>3. Passed(s, d, i, n, t)  BY <3>1, <3>2 DEF Advanced, L
    <3>4. Dispatched(u, d[1], i, n) <=> Dispatched(s, d[1], i, n)
      BY <3>1, DispatchedGrows DEF L
    <3> QED  BY <1>2, <3>1, <3>3, <3>4 DEF Passed
  <2> QED  BY <2>1, <2>2, <2>3
<1> QED  BY <1>1, <1>8 DEF Advanced

\* An occurrence is queued again only in another life: in the same one its
\* dispatch was recorded, and its reminder is ahead of it.
LEMMA OnceGrows ==
    ASSUME NEW s \in Seq(Facts), NEW e \in Facts, NEW u, Grown(s, e, u),
           NEW t \in Nat, NEW life, Legal(s, e, t, life),
           WellFolded(s), Advanced(s, t), Once(s)
    PROVE  Once(u)
<1> DEFINE L == Len(s)
           f == Fold(s)
<1>1. L \in Nat /\ Len(u) = L + 1 /\ u[L + 1] = e /\ \A i \in 1..L : u[i] = s[i]
  BY DEF Grown
<1>3. f = Replay(s)[L] /\ Well(f)
  BY <1>1 DEF Fold, Grown, WellFolded
<1>4. \A i \in 1..L : s[i].op = "message" => \A d \in s[i].due : d[2] \in Nat
  BY DEF Facts
<1>5. f.active \subseteq Records /\ \A r \in f.active : r.at \in Nat
  BY <1>3 DEF Well, Folds, Records
<1> HIDE DEF L, f
<1>6. ASSUME NEW i \in 1..L, s[i].op = "message", e.op = "message", NEW d \in s[i].due \cap e.due
      PROVE  s[i].life # e.life /\ ~Dispatched(u, d[1], i, L + 1)
  <2>1. /\ e.life = life /\ Settled(s, life)
        /\ \A r \in f.active : r.id = d[1] => r.at <= t /\ d[2] = Occurrence(r, t)
        /\ \E r \in f.active : r.id = d[1]
    BY <1>3, <1>6, MessageIs DEF f
  <2>2. PICK r \in f.active : r.id = d[1]  BY <2>1
  <2>3. r.at <= t /\ d[2] = Occurrence(r, t)  BY <2>1, <2>2
  <2>4. r.at <= Occurrence(r, t) /\ Occurrence(r, t) \in Int /\ r.at \in Nat
    BY <1>5, <2>3, OccurrenceIs
  <2>5. L \in i..L  BY <1>1
  <2>6. Passed(s, d, i, L, t)  BY <1>6, <2>5 DEF Advanced, L
  <2>7. ~Dispatched(s, d[1], i, L)
    <3> SUFFICES ASSUME Dispatched(s, d[1], i, L)  PROVE FALSE
      OBVIOUS
    <3>1. d[2] < r.at  BY <1>3, <2>2, <2>6 DEF Passed
    <3> QED  BY <2>3, <2>4, <3>1
  <2>8. i \in Nat \ {0} /\ i <= Len(u)  BY <1>1
  <2>9. ~Dispatched(u, d[1], i, Len(u))
    BY <1>6, <2>7, <2>8, DispatchedGrows DEF L
  <2>10. s[i].life # life
    BY <1>6, <2>1, <2>7 DEF Settled, L
  <2> QED  BY <1>1, <2>1, <2>9, <2>10
<1>7. ASSUME NEW i \in 1..(L + 1), NEW j \in 1..(L + 1), i < j,
             u[i].op = "message", u[j].op = "message", NEW d \in u[i].due \cap u[j].due
      PROVE  u[i].life # u[j].life /\ ~Dispatched(u, d[1], i, j)
  <2>1. CASE j = L + 1
    <3>1. i \in 1..L  BY <1>1, <1>7, <2>1
    <3> QED  BY <1>1, <1>6, <1>7, <2>1, <3>1
  <2>2. CASE j # L + 1
    <3>1. i \in 1..L /\ j \in 1..L /\ j \in 0..L /\ i \in Nat \ {0}  BY <1>1, <1>7, <2>2
    <3>2. s[i].life # s[j].life /\ ~Dispatched(s, d[1], i, j)
      BY <1>1, <1>7, <3>1 DEF Once, L
    <3>3. ~Dispatched(u, d[1], i, j)
      BY <3>1, <3>2, DispatchedGrows DEF L
    <3> QED  BY <1>1, <3>1, <3>2, <3>3
  <2> QED  BY <2>1, <2>2
<1> QED  BY <1>1, <1>7 DEF Once

\* A message bears the life that queued it.
LEMMA LivedGrows ==
    ASSUME NEW s, NEW e, NEW u, Grown(s, e, u), NEW t, NEW life \in Nat, Legal(s, e, t, life),
           Lived(s, life)
    PROVE  Lived(u, life)
<1>1. \A i \in 1..Len(u) : (i \in 1..Len(s) /\ u[i] = s[i]) \/ u[i] = e
  BY DEF Grown
<1>2. e.op = "message" => e.life <= life  BY DEF Legal
<1> QED  BY <1>1, <1>2 DEF Lived

\* A legal entry keeps the log in order.
LEMMA LogGrows ==
    ASSUME NEW s, NEW e \in Facts, NEW t \in Nat, NEW life \in Nat,
           LogOK(s, t, life), Legal(s, e, t, life)
    PROVE  /\ LogOK(Append(s, e), t, life)
           /\ Fold(Append(s, e)) = Apply(Fold(s), e)
<1> DEFINE u == Append(s, e)
<1>1. s \in Seq(Facts)  BY DEF LogOK
<1>2. Grown(s, e, u) /\ u \in Seq(Facts)  BY <1>1, GrownIs
<1>3. Len(s) \in Nat  BY <1>1
<1>4. Well(Fold(s))  BY <1>3 DEF LogOK, WellFolded, Fold
<1>5. Well(Apply(Fold(s), e)) /\ Folding(Fold(s), Apply(Fold(s), e), e, t)
  BY <1>4, FoldGrows DEF Folding
<1>6. Fold(u) = Apply(Fold(s), e)  BY <1>1, ReplayAppend
<1> HIDE DEF u
<1>7. WellFolded(u)  BY <1>2, <1>5, WellFoldedGrows DEF LogOK
<1>8. Gone(u)  BY <1>2, <1>5, GoneGrows DEF LogOK
<1>9. Recorded(u)  BY <1>2, RecordedGrows DEF LogOK
<1>10. Advanced(u, t)  BY <1>1, <1>2, <1>5, AdvancedGrows DEF LogOK
<1>11. Once(u)  BY <1>1, <1>2, OnceGrows DEF LogOK
<1>12. Lived(u, life)  BY <1>2, LivedGrows DEF LogOK
<1> QED  BY <1>2, <1>6, <1>7, <1>8, <1>9, <1>10, <1>11, <1>12 DEF LogOK, u

\* The empty log is in order.
LEMMA LogEmpty ==
    ASSUME NEW t, NEW life
    PROVE  LogOK(<< >>, t, life) /\ Fold(<< >>) = Empty
<1>1. << >> \in Seq(Facts) /\ Len(<< >>) = 0  OBVIOUS
<1>2. Replay(<< >>)[0] = Empty  BY <1>1, ReplayIs
<1>3. Well(Empty)
  <2>1. IsFiniteSet({})  BY FS_EmptySet
  <2>2. {} = 1..0  OBVIOUS
  <2> QED  BY <2>1, <2>2 DEF Well, Folds, Empty
<1>4. WellFolded(<< >>)  BY <1>1, <1>2, <1>3 DEF WellFolded
<1>5. \A i \in 1..Len(<< >>) : FALSE  BY <1>1
<1> HIDE DEF Empty
<1>6. Gone(<< >>) /\ Recorded(<< >>) /\ Advanced(<< >>, t) /\ Once(<< >>) /\ Lived(<< >>, life)
  BY <1>5 DEF Gone, Recorded, Advanced, Once, Lived
<1> QED  BY <1>1, <1>2, <1>4, <1>6 DEF LogOK, Fold

\* What a crash leaves is in order.
LEMMA LogCut ==
    ASSUME NEW s, NEW t, NEW life, LogOK(s, t, life), NEW m \in 0..Len(s)
    PROVE  LogOK(SubSeq(s, 1, m), t, life)
<1> DEFINE u == SubSeq(s, 1, m)
<1>0. s \in Seq(Facts) /\ Len(s) \in Nat  BY DEF LogOK
<1>1. u \in Seq(Facts) /\ Len(u) = m /\ \A i \in 1..m : u[i] = s[i]
  BY <1>0, SubSeqProperties
<1>2. \A n \in 0..m : Replay(u)[n] = Replay(s)[n]  BY <1>0, ReplayPrefix
<1>3. m \in Nat /\ m <= Len(s)  BY <1>0
<1> HIDE DEF u
<1>4. \A id : \A a \in Nat \ {0}, b \in 0..m : Dispatched(u, id, a, b) <=> Dispatched(s, id, a, b)
  BY <1>1, <1>3 DEF Dispatched
<1>5. WellFolded(u)  BY <1>0, <1>1, <1>2, <1>3 DEF WellFolded, LogOK
<1>6. Gone(u)
  <2> SUFFICES ASSUME NEW i \in 1..m, u[i].op = "delete"
               PROVE  /\ \A n \in i..m : /\ u[i].id \in Replay(u)[n].seen
                                         /\ \A r \in Replay(u)[n].active : r.id # u[i].id
                      /\ \A j \in (i + 1)..m : u[j].op = "message" =>
                            \A d \in u[j].due : d[1] # u[i].id
    BY <1>1 DEF Gone
  <2>1. i \in 1..Len(s) /\ s[i].op = "delete" /\ u[i] = s[i]  BY <1>1, <1>3
  <2>2. \A n \in i..m : n \in i..Len(s) /\ n \in 0..m  BY <1>3
  <2>3. \A j \in (i + 1)..m : j \in (i + 1)..Len(s) /\ u[j] = s[j]  BY <1>1, <1>3
  <2> QED  BY <1>2, <2>1, <2>2, <2>3 DEF Gone, LogOK
<1>7. Recorded(u)
  <2> SUFFICES ASSUME NEW i \in 1..m, u[i].op = "dispatch"
               PROVE  \E j \in 1..(i - 1) :
                        Covered(u, j, u[i].id) /\ ~Dispatched(u, u[i].id, j + 1, i - 1)
    BY <1>1 DEF Recorded
  <2>1. i \in 1..Len(s) /\ s[i].op = "dispatch" /\ u[i] = s[i]  BY <1>1, <1>3
  <2>2. PICK j \in 1..(i - 1) : Covered(s, j, s[i].id) /\ ~Dispatched(s, s[i].id, j + 1, i - 1)
    BY <2>1 DEF Recorded, LogOK
  <2>3. j \in 1..m /\ i - 1 \in 0..m /\ j + 1 \in Nat \ {0}  BY <1>3
  <2>4. Covered(u, j, u[i].id)  BY <1>1, <2>1, <2>2, <2>3 DEF Covered
  <2>5. ~Dispatched(u, u[i].id, j + 1, i - 1)  BY <1>4, <2>1, <2>2, <2>3
  <2> QED  BY <2>4, <2>5
<1>8. Advanced(u, t)
  <2> SUFFICES ASSUME NEW i \in 1..m, u[i].op = "message", NEW d \in u[i].due, NEW n \in i..m
               PROVE  Passed(u, d, i, n, t)
    BY <1>1 DEF Advanced
  <2>1. /\ i \in 1..Len(s) /\ s[i].op = "message" /\ u[i] = s[i] /\ n \in i..Len(s)
        /\ n \in 0..m /\ i \in Nat \ {0}
    BY <1>1, <1>3
  <2>2. Passed(s, d, i, n, t)  BY <2>1 DEF Advanced, LogOK
  <2>3. Dispatched(u, d[1], i, n) <=> Dispatched(s, d[1], i, n)  BY <1>4, <2>1
  <2> QED  BY <1>2, <2>1, <2>2, <2>3 DEF Passed
<1>9. Once(u)
  <2> SUFFICES ASSUME NEW i \in 1..m, NEW j \in 1..m, i < j,
                      u[i].op = "message", u[j].op = "message", NEW d \in u[i].due \cap u[j].due
               PROVE  u[i].life # u[j].life /\ ~Dispatched(u, d[1], i, j)
    BY <1>1 DEF Once
  <2>1. /\ i \in 1..Len(s) /\ j \in 1..Len(s) /\ u[i] = s[i] /\ u[j] = s[j]
        /\ i \in Nat \ {0} /\ j \in 0..m
    BY <1>1, <1>3
  <2>2. s[i].life # s[j].life /\ ~Dispatched(s, d[1], i, j)  BY <2>1 DEF Once, LogOK
  <2> QED  BY <1>4, <2>1, <2>2
<1>10. Lived(u, life)  BY <1>1, <1>3 DEF Lived, LogOK
<1> QED  BY <1>1, <1>5, <1>6, <1>7, <1>8, <1>9, <1>10 DEF LogOK, u

\* Time and lives that pass leave the log in order.
LEMMA LogLater ==
    ASSUME NEW s, NEW t \in Nat, NEW life \in Nat, LogOK(s, t, life),
           NEW later \in Nat, t <= later, NEW next \in Nat, life <= next
    PROVE  LogOK(s, later, next)
<1>0. s \in Seq(Facts) /\ Len(s) \in Nat  BY DEF LogOK
<1>1. Advanced(s, later)
  <2> SUFFICES ASSUME NEW i \in 1..Len(s), s[i].op = "message", NEW d \in s[i].due,
                      NEW n \in i..Len(s)
               PROVE  Passed(s, d, i, n, later)
    BY DEF Advanced
  <2>1. Passed(s, d, i, n, t)  BY DEF Advanced, LogOK
  <2>2. n \in 0..Len(s)  BY <1>0
  <2>3. Replay(s)[n].active \subseteq Records  BY <2>2 DEF LogOK, WellFolded, Well, Folds
  <2>4. d[2] \in Nat  BY <1>0 DEF Facts
  <2>5. ASSUME NEW r \in Replay(s)[n].active, d[2] <= Occurrence(r, t)
        PROVE  d[2] <= Occurrence(r, later)
    <3>1. /\ Occurrence(r, t) \in Int /\ Occurrence(r, later) \in Int
          /\ Occurrence(r, t) <= Occurrence(r, later)
      BY <2>3, OccurrenceIs
    <3> QED  BY <2>4, <2>5, <3>1
  <2> QED  BY <2>1, <2>5 DEF Passed
<1>2. Lived(s, next)
  <2>1. \A i \in 1..Len(s) : s[i].op = "message" => s[i].life \in Nat  BY <1>0 DEF Facts
  <2> QED  BY <2>1 DEF Lived, LogOK
<1> QED  BY <1>1, <1>2 DEF LogOK

\* A new life has queued nothing yet.
LEMMA NewLife ==
    ASSUME NEW s, NEW t, NEW life \in Nat, LogOK(s, t, life)
    PROVE  Settled(s, life + 1)
<1>1. \A i \in 1..Len(s) : s[i].op = "message" => s[i].life \in Nat
  BY DEF LogOK, Facts
<1> QED  BY <1>1 DEF Settled, Lived, LogOK

\* q lists what precedes by R, n of S.
Ordered(q, n, S, R) == /\ q \in [1..n -> S]
                       /\ \A i, j \in 1..n : i < j => <<q[i], q[j]>> \in R

Linear(R, S) == /\ \A x \in S : <<x, x>> \notin R
                /\ \A x, y \in S : x # y => <<x, y>> \in R \/ <<y, x>> \in R
                /\ \A x, y, z \in S : <<x, y>> \in R /\ <<y, z>> \in R => <<x, z>> \in R

\* Insertion: one more element has its place in an ordered list.
LEMMA OrderGrows ==
    ASSUME NEW U, NEW R, Linear(R, U), NEW S \in SUBSET U, NEW x \in S, NEW n \in Nat,
           NEW q, Ordered(q, n, S \ {x}, R)
    PROVE  \E p : Ordered(p, n + 1, S, R)
<1> DEFINE K == {i \in 1..n : <<x, q[i]>> \in R}
<1>0. q \in [1..n -> S \ {x}] /\ \A i, j \in 1..n : i < j => <<q[i], q[j]>> \in R
  BY DEF Ordered
<1>1. PICK k \in 1..(n + 1) : \A i \in 1..n : IF i < k THEN <<q[i], x>> \in R
                                                      ELSE <<x, q[i]>> \in R
  <2>1. CASE K = {}
    <3>1. \A i \in 1..n : <<q[i], x>> \in R
      BY <1>0, <2>1 DEF Linear
    <3>2. n + 1 \in 1..(n + 1) /\ \A i \in 1..n : i < n + 1  OBVIOUS
    <3> QED  BY <3>1, <3>2
  <2>2. CASE K # {}
    <3>1. PICK k \in K : \A i \in K : k <= i
      <4>1. K \in SUBSET Nat  OBVIOUS
      <4> HIDE DEF K
      <4> QED  BY <2>2, <4>1, LeastOf
    <3>2. k \in 1..(n + 1) /\ k \in 1..n /\ <<x, q[k]>> \in R  OBVIOUS
    <3>3. ASSUME NEW i \in 1..n, i < k  PROVE <<q[i], x>> \in R
      <4>1. i \notin K  BY <3>1, <3>2, <3>3
      <4> QED  BY <1>0, <3>3, <4>1 DEF Linear
    <3>4. ASSUME NEW i \in 1..n, ~(i < k)  PROVE <<x, q[i]>> \in R
      <4>1. CASE i = k  BY <3>2, <4>1
      <4>2. CASE k < i
        <5>1. <<q[k], q[i]>> \in R  BY <1>0, <3>2, <4>2
        <5>2. q[k] \in U /\ q[i] \in U /\ x \in U  BY <1>0, <3>2
        <5> QED  BY <3>2, <5>1, <5>2 DEF Linear
      <4> QED  BY <3>2, <3>4, <4>1, <4>2
    <3> QED  BY <3>2, <3>3, <3>4
  <2> QED  BY <2>1, <2>2
<1> DEFINE p == [i \in 1..(n + 1) |-> IF i < k THEN q[i] ELSE IF i = k THEN x ELSE q[i - 1]]
<1>2. p \in [1..(n + 1) -> S]
  <2> SUFFICES ASSUME NEW i \in 1..(n + 1)
               PROVE  (IF i < k THEN q[i] ELSE IF i = k THEN x ELSE q[i - 1]) \in S
    OBVIOUS
  <2>1. i < k => i \in 1..n  OBVIOUS
  <2>2. k < i => i - 1 \in 1..n  OBVIOUS
  <2> QED  BY <1>0, <2>1, <2>2
<1>3. ASSUME NEW i \in 1..(n + 1), NEW j \in 1..(n + 1), i < j
      PROVE  <<p[i], p[j]>> \in R
  <2>1. CASE j < k
    <3>1. i \in 1..n /\ j \in 1..n /\ i < k  BY <1>3, <2>1
    <3> QED  BY <1>0, <1>3, <2>1, <3>1
  <2>2. CASE j = k
    <3>1. i \in 1..n /\ i < k /\ p[i] = q[i] /\ p[j] = x  BY <1>3, <2>2
    <3> HIDE DEF p
    <3> QED  BY <1>1, <3>1
  <2>3. CASE k < j
    <3>0. j - 1 \in 1..n /\ ~(j - 1 < k) /\ p[j] = q[j - 1]  BY <2>3
    <3>1. CASE i < k
      <4>1. i \in 1..n /\ i < j - 1  BY <2>3, <3>1
      <4> QED  BY <1>0, <3>0, <3>1, <4>1
    <3>2. CASE i = k
      <4>1. p[i] = x  BY <3>2
      <4> HIDE DEF p
      <4> QED  BY <1>1, <3>0, <4>1
    <3>3. CASE k < i
      <4>1. i - 1 \in 1..n /\ i - 1 < j - 1 /\ p[i] = q[i - 1]  BY <1>3, <3>3
      <4> QED  BY <1>0, <3>0, <4>1
    <3> QED  BY <3>1, <3>2, <3>3
  <2> QED  BY <2>1, <2>2, <2>3
<1> HIDE DEF p
<1>4. Ordered(p, n + 1, S, R)  BY <1>2, <1>3 DEF Ordered
<1> QED  BY <1>4

\* What is ordered linearly can be listed in that order.
LEMMA OrderExists ==
    ASSUME NEW U, NEW R, Linear(R, U), NEW S \in SUBSET U, IsFiniteSet(S)
    PROVE  \E q : Ordered(q, Cardinality(S), S, R)
<1> DEFINE P == {n \in Nat : \A T \in SUBSET U : IsFiniteSet(T) /\ Cardinality(T) = n =>
                                \E q : Ordered(q, n, T, R)}
<1>1. 0 \in P
  <2> SUFFICES ASSUME NEW T \in SUBSET U, IsFiniteSet(T), Cardinality(T) = 0
               PROVE  \E q : Ordered(q, 0, T, R)
    OBVIOUS
  <2>1. Ordered([i \in 1..0 |-> i], 0, T, R)  BY DEF Ordered
  <2> QED  BY <2>1
<1>2. ASSUME NEW n \in P  PROVE n + 1 \in P
  <2>0. n \in Nat  OBVIOUS
  <2> SUFFICES ASSUME NEW T \in SUBSET U, IsFiniteSet(T), Cardinality(T) = n + 1
               PROVE  \E q : Ordered(q, n + 1, T, R)
    OBVIOUS
  <2>1. T # {}  BY <2>0, FS_EmptySet
  <2>2. PICK x \in T : TRUE  BY <2>1
  <2>3. IsFiniteSet(T \ {x}) /\ Cardinality(T \ {x}) = n
    <3> HIDE DEF P
    <3>1. IsFiniteSet(T \ {x}) /\ Cardinality(T \ {x}) = Cardinality(T) - 1
      BY FS_RemoveElement
    <3> QED  BY <2>0, <3>1
  <2>4. T \ {x} \in SUBSET U  OBVIOUS
  <2>5. PICK q : Ordered(q, n, T \ {x}, R)  BY <2>3, <2>4
  <2> QED  BY <2>0, <2>5, OrderGrows
<1> HIDE DEF P
<1>3. Nat \subseteq P  BY <1>1, <1>2, ByInduction
<1>4. Cardinality(S) \in Nat  BY FS_CardinalityType
<1> QED  BY <1>3, <1>4 DEF P

\* A list of all of S, each once.
Lists(q, S) ==
    /\ Cardinality(S) \in Nat
    /\ q \in [1..Cardinality(S) -> S]
    /\ \A i, j \in 1..Cardinality(S) : i # j => q[i] # q[j]
    /\ \A x \in S : \E i \in 1..Cardinality(S) : q[i] = x

\* An ordered list of a set has every element once.
LEMMA OrderedLists ==
    ASSUME NEW S, IsFiniteSet(S), NEW R, Linear(R, S), NEW q, Ordered(q, Cardinality(S), S, R)
    PROVE  Lists(q, S)
<1> DEFINE n == Cardinality(S)
<1>1. n \in Nat  BY FS_CardinalityType
<1>2. q \in [1..n -> S]  BY DEF Ordered
<1> HIDE DEF n
<1>3. ASSUME NEW i \in 1..n, NEW j \in 1..n, i # j  PROVE q[i] # q[j]
  <2>1. CASE i < j  BY <1>2, <2>1 DEF Ordered, Linear, n
  <2>2. CASE j < i  BY <1>2, <2>2 DEF Ordered, Linear, n
  <2> QED  BY <1>1, <1>3, <2>1, <2>2
<1>4. q \in Injection(1..n, S)
  BY <1>2, <1>3 DEF Injection, IsInjective
<1>5. Cardinality(1..n) = n  BY <1>1, FS_Interval
<1>6. q \in Surjection(1..n, S)
  BY <1>4, <1>5, FS_Injection DEF n
<1>7. \A x \in S : \E i \in 1..n : q[i] = x
  BY <1>6 DEF Surjection
<1> QED  BY <1>1, <1>2, <1>3, <1>7 DEF Lists, n

\* One reminder of each id.
Distinct(S) == \A r, q \in S : r.id = q.id => r = q

\* The two orders of the model list what they are asked for.
LEMMA EarlierLists ==
    ASSUME NEW S \in SUBSET Records, IsFiniteSet(S), Distinct(S)
    PROVE  Lists(InOrder(S, Earlier), S)
<1> DEFINE R == {ss \in S \X S : Earlier(ss[1], ss[2])}
           n == Cardinality(S)
<1>1. \A x, y \in S : <<x, y>> \in R <=> Earlier(x, y)  OBVIOUS
<1>2. \A x \in S : x.id \in Nat /\ x.at \in Nat  BY DEF Records
<1> HIDE DEF R
<1>3. Linear(R, S)
  <2>1. \A x \in S : <<x, x>> \notin R  BY <1>1, <1>2 DEF Earlier
  <2>2. \A x, y \in S : x # y => <<x, y>> \in R \/ <<y, x>> \in R
    BY <1>1, <1>2 DEF Earlier, Distinct
  <2>3. \A x, y, z \in S : <<x, y>> \in R /\ <<y, z>> \in R => <<x, z>> \in R
    BY <1>1, <1>2 DEF Earlier
  <2> QED  BY <2>1, <2>2, <2>3 DEF Linear
<1>4. PICK p : Ordered(p, n, S, R)  BY <1>3, OrderExists
<1>5. p \in [1..n -> S] /\ \A i, j \in DOMAIN p : i < j => Earlier(p[i], p[j])
  BY <1>1, <1>4 DEF Ordered
<1> DEFINE q == InOrder(S, Earlier)
<1>6. q \in [1..n -> S] /\ \A i, j \in DOMAIN q : i < j => Earlier(q[i], q[j])
  BY <1>5 DEF InOrder
<1> HIDE DEF q
<1>7. Ordered(q, n, S, R)  BY <1>1, <1>6 DEF Ordered
<1> HIDE DEF n
<1> QED  BY <1>3, <1>7, OrderedLists DEF q, n

\* Reminders in the order of their ids.
LEMMA ByIdLists ==
    ASSUME NEW S \in SUBSET Records, IsFiniteSet(S), Distinct(S)
    PROVE  Lists(InOrder(S, ById), S)
<1> DEFINE R == {ss \in S \X S : ById(ss[1], ss[2])}
           n == Cardinality(S)
<1>1. \A x, y \in S : <<x, y>> \in R <=> ById(x, y)  OBVIOUS
<1>2. \A x \in S : x.id \in Nat  BY DEF Records
<1> HIDE DEF R
<1>3. Linear(R, S)
  <2>1. \A x \in S : <<x, x>> \notin R  BY <1>1, <1>2 DEF ById
  <2>2. \A x, y \in S : x # y => <<x, y>> \in R \/ <<y, x>> \in R
    BY <1>1, <1>2 DEF ById, Distinct
  <2>3. \A x, y, z \in S : <<x, y>> \in R /\ <<y, z>> \in R => <<x, z>> \in R
    BY <1>1, <1>2 DEF ById
  <2> QED  BY <2>1, <2>2, <2>3 DEF Linear
<1>4. PICK p : Ordered(p, n, S, R)  BY <1>3, OrderExists
<1>5. p \in [1..n -> S] /\ \A i, j \in DOMAIN p : i < j => ById(p[i], p[j])
  BY <1>1, <1>4 DEF Ordered
<1> DEFINE q == InOrder(S, ById)
<1>6. q \in [1..n -> S] /\ \A i, j \in DOMAIN q : i < j => ById(q[i], q[j])
  BY <1>5 DEF InOrder
<1> HIDE DEF q
<1>7. Ordered(q, n, S, R)  BY <1>1, <1>6 DEF Ordered
<1> HIDE DEF n
<1> QED  BY <1>3, <1>7, OrderedLists DEF q, n

\* The log s with the first m of the entries ds.
Part(s, ds, m) == s \o SubSeq(ds, 1, m)

IsPart(p, s, ds, m) == /\ Len(p) = Len(s) + m
                       /\ \A i \in 1..Len(s) : p[i] = s[i]
                       /\ \A i \in 1..m : p[Len(s) + i] = ds[i]

\* The entries of a log and of the first part of what follows.
LEMMA PartIs ==
    ASSUME NEW T, NEW s \in Seq(T), NEW ds \in Seq(T), NEW m \in 0..Len(ds)
    PROVE  Part(s, ds, m) \in Seq(T) /\ IsPart(Part(s, ds, m), s, ds, m)
<1>0. Len(s) \in Nat /\ Len(ds) \in Nat  OBVIOUS
<1> DEFINE d == SubSeq(ds, 1, m)
<1>1. d \in Seq(T) /\ Len(d) = m /\ \A i \in 1..m : d[i] = ds[i]  BY <1>0, SubSeqProperties
<1> HIDE DEF d
<1> DEFINE c == s \o d
<1>2. /\ c \in Seq(T) /\ Len(c) = Len(s) + Len(d)
      /\ \A i \in 1..Len(s) + Len(d) : c[i] = IF i <= Len(s) THEN s[i] ELSE d[i - Len(s)]
  BY <1>1, ConcatProperties
<1> HIDE DEF c
<1>3. \A i \in 1..Len(s) : c[i] = s[i]
  BY <1>0, <1>1, <1>2
<1>4. ASSUME NEW i \in 1..m  PROVE c[Len(s) + i] = ds[i]
  <2>1. Len(s) + i \in 1..Len(s) + Len(d) /\ ~(Len(s) + i <= Len(s)) /\ (Len(s) + i) - Len(s) = i
    BY <1>0, <1>1, <1>4
  <2> QED  BY <1>1, <1>2, <2>1
<1>5. IsPart(c, s, ds, m)  BY <1>1, <1>2, <1>3, <1>4 DEF IsPart
<1> QED  BY <1>2, <1>5 DEF Part, c, d

\* Nothing and all of what follows.
LEMMA PartEnds ==
    ASSUME NEW T, NEW s \in Seq(T), NEW ds \in Seq(T)
    PROVE  Part(s, ds, 0) = s /\ Part(s, ds, Len(ds)) = s \o ds
<1>1. SubSeq(ds, 1, 0) = << >>  BY SubSeqEmpty
<1>2. SubSeq(ds, 1, Len(ds)) \in Seq(T) /\ Len(SubSeq(ds, 1, Len(ds))) = Len(ds)
         /\ \A i \in 1..Len(ds) : SubSeq(ds, 1, Len(ds))[i] = ds[i]
  BY SubSeqProperties
<1>3. SubSeq(ds, 1, Len(ds)) = ds  BY <1>2, SeqEqual
<1> QED  BY <1>1, <1>3, ConcatEmptySeq DEF Part

\* One more of what follows.
LEMMA PartStep ==
    ASSUME NEW T, NEW s \in Seq(T), NEW ds \in Seq(T), NEW m \in 0..(Len(ds) - 1)
    PROVE  Part(s, ds, m + 1) = Append(Part(s, ds, m), ds[m + 1])
<1> DEFINE a == Part(s, ds, m + 1)
           b == Part(s, ds, m)
<1>0. Len(s) \in Nat /\ Len(ds) \in Nat
        /\ m \in 0..Len(ds) /\ m + 1 \in 0..Len(ds) /\ m \in Nat /\ ds[m + 1] \in T
  OBVIOUS
<1>6. a \in Seq(T) /\ IsPart(a, s, ds, m + 1)  BY <1>0, PartIs
<1>7. b \in Seq(T) /\ IsPart(b, s, ds, m)  BY <1>0, PartIs
<1> HIDE DEF a, b
<1>1. /\ a \in Seq(T) /\ Len(a) = Len(s) + (m + 1)
      /\ \A i \in 1..Len(s) : a[i] = s[i]
      /\ \A i \in 1..(m + 1) : a[Len(s) + i] = ds[i]
  BY <1>6 DEF IsPart
<1>2. /\ b \in Seq(T) /\ Len(b) = Len(s) + m
      /\ \A i \in 1..Len(s) : b[i] = s[i]
      /\ \A i \in 1..m : b[Len(s) + i] = ds[i]
  BY <1>7 DEF IsPart
<1>3. /\ Append(b, ds[m + 1]) \in Seq(T) /\ Len(Append(b, ds[m + 1])) = Len(a)
      /\ \A i \in 1..Len(b) : Append(b, ds[m + 1])[i] = b[i]
      /\ Append(b, ds[m + 1])[Len(b) + 1] = ds[m + 1]
  BY <1>0, <1>1, <1>2
<1>4. ASSUME NEW i \in 1..Len(a)  PROVE a[i] = Append(b, ds[m + 1])[i]
  <2>1. CASE i <= Len(s)
    BY <1>0, <1>1, <1>2, <1>3, <2>1
  <2>2. CASE Len(s) < i /\ i <= Len(s) + m
    <3>0. PICK k \in 1..m : i = Len(s) + k
      <4>1. i - Len(s) \in 1..m /\ Len(s) + (i - Len(s)) = i
        BY <1>0, <1>1, <2>2
      <4> QED  BY <4>1
    <3>1. k \in 1..(m + 1) /\ i \in 1..Len(b)  BY <1>0, <1>2, <3>0
    <3>2. a[i] = ds[k] /\ b[i] = ds[k]  BY <1>1, <1>2, <3>0, <3>1
    <3> QED  BY <1>3, <3>1, <3>2
  <2>3. CASE i = Len(s) + (m + 1)
    <3>1. m + 1 \in 1..(m + 1) /\ i = Len(b) + 1  BY <1>0, <1>2, <2>3
    <3> QED  BY <1>1, <1>3, <2>3, <3>1
  <2>4. i \in Nat /\ i <= Len(s) + (m + 1)  BY <1>0, <1>1
  <2>5. i <= Len(s) \/ (Len(s) < i /\ i <= Len(s) + m) \/ i = Len(s) + (m + 1)
    BY <1>0, <2>4
  <2> QED  BY <2>1, <2>2, <2>3, <2>5
<1>5. a = Append(b, ds[m + 1])  BY <1>1, <1>3, <1>4, SeqEqual
<1> QED  BY <1>5 DEF a, b

\* What a readable log says of its reminders.
LEMMA LogHasFold ==
    ASSUME NEW s, NEW t, NEW life, LogOK(s, t, life)
    PROVE  /\ Len(s) \in Nat /\ Well(Fold(s)) /\ Active(s) = Fold(s).active
           /\ Active(s) \in SUBSET Records /\ IsFiniteSet(Active(s)) /\ Distinct(Active(s))
           /\ Fold(s).seen \in SUBSET Nat
<1>1. Len(s) \in Nat  BY DEF LogOK
<1>2. Well(Fold(s))  BY <1>1 DEF LogOK, WellFolded, Fold
<1> QED  BY <1>1, <1>2 DEF Well, Folds, Active, Distinct

\* The log takes the create of the next id.
LEMMA CreateKeeps ==
    ASSUME NEW s, NEW t \in Nat, NEW life \in Nat, LogOK(s, t, life),
           NEW r \in Records, r.id = Cardinality(Fold(s).seen) + 1,
           NEW e \in Facts, e.op = "create", e.id = r.id, e.record = r
    PROVE  /\ LogOK(Append(s, e), t, life)
           /\ Fold(Append(s, e)).seen = Fold(s).seen \cup {r.id}
           /\ r.id \notin Fold(s).seen
<1>1. Legal(s, e, t, life)  BY DEF Legal
<1>2. LogOK(Append(s, e), t, life) /\ Fold(Append(s, e)) = Apply(Fold(s), e)  BY <1>1, LogGrows
<1>3. Well(Fold(s))  BY LogHasFold
<1> QED  BY <1>2, <1>3, ApplyCreate

\* The log takes the delete of an active reminder.
LEMMA DeleteKeeps ==
    ASSUME NEW s, NEW t \in Nat, NEW life \in Nat, LogOK(s, t, life),
           NEW r \in Active(s), NEW e \in Facts, e.op = "delete", e.id = r.id
    PROVE  /\ LogOK(Append(s, e), t, life)
           /\ Fold(Append(s, e)).seen = Fold(s).seen
           /\ Active(Append(s, e)) = Active(s) \ {r}
<1>1. Legal(s, e, t, life)  BY DEF Legal
<1>2. LogOK(Append(s, e), t, life) /\ Fold(Append(s, e)) = Apply(Fold(s), e)  BY <1>1, LogGrows
<1>3. Well(Fold(s)) /\ r \in Fold(s).active  BY LogHasFold
<1> QED  BY <1>2, <1>3, ApplyDelete DEF Active

\* The log takes a message of overdue occurrences when all before it are settled.
LEMMA MessageKeeps ==
    ASSUME NEW s, NEW t \in Nat, NEW life \in Nat, LogOK(s, t, life), Settled(s, life),
           NEW e \in Facts, e.op = "message", e.life = life,
           \A d \in e.due : \E r \in Active(s) : r.at <= t /\ d = <<r.id, Occurrence(r, t)>>
    PROVE  LogOK(Append(s, e), t, life) /\ Fold(Append(s, e)) = Fold(s)
<1>1. Legal(s, e, t, life)  BY DEF Legal
<1>2. LogOK(Append(s, e), t, life) /\ Fold(Append(s, e)) = Apply(Fold(s), e)  BY <1>1, LogGrows
<1> QED  BY <1>2, ApplyMessage

\* The log takes the dispatch of an overdue reminder after its message.
LEMMA DispatchKeeps ==
    ASSUME NEW s, NEW t \in Nat, NEW life \in Nat, LogOK(s, t, life),
           NEW r \in Active(s), r.at <= t,
           NEW e \in Facts, e.op = "dispatch", e.id = r.id, e.time = t,
           NEW j \in 1..Len(s), Covered(s, j, r.id), ~Dispatched(s, r.id, j + 1, Len(s))
    PROVE  /\ LogOK(Append(s, e), t, life)
           /\ Fold(Append(s, e)).seen = Fold(s).seen
           /\ Active(s) \ {r} \subseteq Active(Append(s, e))
<1>1. Legal(s, e, t, life)  BY DEF Legal
<1>2. LogOK(Append(s, e), t, life) /\ Fold(Append(s, e)) = Apply(Fold(s), e)  BY <1>1, LogGrows
<1>3. Well(Fold(s)) /\ r \in Fold(s).active  BY LogHasFold
<1> QED  BY <1>2, <1>3, ApplyDispatch DEF Active

\* A function on 1..n is a sequence.
LEMMA ListIsSeq ==
    ASSUME NEW T, NEW n \in Nat, NEW f \in [1..n -> T]
    PROVE  f \in Seq(T) /\ Len(f) = n
OBVIOUS

Deletes(order) == [i \in DOMAIN order |-> [op |-> "delete", id |-> order[i].id]]

\* The deletions of a stop, one by one.
LEMMA StopKeeps ==
    ASSUME NEW s, NEW t \in Nat, NEW life \in Nat, LogOK(s, t, life),
           NEW order, Lists(order, Active(s))
    PROVE  LET ds == Deletes(order)
               u == s \o ds
           IN  /\ ds \in Seq(Facts) /\ Len(u) = Len(s) + Len(ds)
               /\ LogOK(u, t, life) /\ Fold(u).seen = Fold(s).seen
               /\ \A i \in 1..Len(s) : u[i] = s[i]
               /\ \A i \in (Len(s) + 1)..Len(u) : u[i].op = "delete"
               /\ \A r \in Active(s) : \E i \in 1..Len(u) : u[i].op = "delete" /\ u[i].id = r.id
<1> DEFINE n == Cardinality(Active(s))
           ds == Deletes(order)
<1>1. /\ n \in Nat /\ order \in [1..n -> Active(s)]
      /\ \A i, j \in 1..n : i # j => order[i] # order[j]
      /\ \A x \in Active(s) : \E i \in 1..n : order[i] = x
  BY DEF Lists
<1>2. Active(s) \in SUBSET Records /\ s \in Seq(Facts) /\ Len(s) \in Nat
  BY LogHasFold DEF LogOK
<1>3. ds \in [1..n -> Facts] /\ \A i \in 1..n : ds[i].op = "delete" /\ ds[i].id = order[i].id
  BY <1>1, <1>2 DEF Deletes, Facts, Records
<1>4. ds \in Seq(Facts) /\ Len(ds) = n
  BY <1>1, <1>3, ListIsSeq
<1> HIDE DEF n, ds
<1> DEFINE P == {m \in Nat : m <= n =>
                    /\ LogOK(Part(s, ds, m), t, life)
                    /\ Fold(Part(s, ds, m)).seen = Fold(s).seen
                    /\ \A i \in (m + 1)..n : order[i] \in Active(Part(s, ds, m))}
<1>5. 0 \in P
  <2>1. Part(s, ds, 0) = s  BY <1>2, <1>4, PartEnds
  <2>2. \A i \in 1..n : order[i] \in Active(s)  BY <1>1
  <2> QED  BY <2>1, <2>2
<1>6. ASSUME NEW m \in P  PROVE m + 1 \in P
  <2> SUFFICES ASSUME m + 1 <= n
               PROVE  /\ LogOK(Part(s, ds, m + 1), t, life)
                      /\ Fold(Part(s, ds, m + 1)).seen = Fold(s).seen
                      /\ \A i \in ((m + 1) + 1)..n : order[i] \in Active(Part(s, ds, m + 1))
    OBVIOUS
  <2> DEFINE v == Part(s, ds, m)
  <2>0. m \in Nat /\ m <= n /\ m + 1 \in 1..n /\ m + 1 \in (m + 1)..n /\ m \in 0..(Len(ds) - 1)
    BY <1>1, <1>4
  <2>1. LogOK(v, t, life) /\ Fold(v).seen = Fold(s).seen
        /\ \A i \in (m + 1)..n : order[i] \in Active(v)
    BY <2>0
  <2>2. Part(s, ds, m + 1) = Append(v, ds[m + 1])
    BY <1>2, <1>4, <2>0, PartStep
  <2>3. order[m + 1] \in Active(v) /\ ds[m + 1] \in Facts
        /\ ds[m + 1].op = "delete" /\ ds[m + 1].id = order[m + 1].id
    BY <1>3, <2>0, <2>1
  <2> HIDE DEF v
  <2>4. /\ LogOK(Append(v, ds[m + 1]), t, life)
        /\ Fold(Append(v, ds[m + 1])).seen = Fold(v).seen
        /\ Active(Append(v, ds[m + 1])) = Active(v) \ {order[m + 1]}
    BY <2>1, <2>3, DeleteKeeps
  <2>5. ASSUME NEW i \in ((m + 1) + 1)..n  PROVE order[i] \in Active(v) \ {order[m + 1]}
    <3>1. i \in (m + 1)..n /\ i \in 1..n /\ i # m + 1  BY <2>0, <2>5, <1>1
    <3> QED  BY <1>1, <2>0, <2>1, <3>1
  <2> QED  BY <2>1, <2>2, <2>4, <2>5
<1> HIDE DEF P
<1>7. Nat \subseteq P  BY <1>5, <1>6, ByInduction
<1>8. LogOK(Part(s, ds, n), t, life) /\ Fold(Part(s, ds, n)).seen = Fold(s).seen
  BY <1>1, <1>7 DEF P
<1> DEFINE u == s \o ds
<1>9. Part(s, ds, n) = u  BY <1>2, <1>4, PartEnds
<1>10. n \in 0..Len(ds)  BY <1>1, <1>4
<1>11. /\ Len(u) = Len(s) + n /\ \A i \in 1..Len(s) : u[i] = s[i]
       /\ \A i \in 1..n : u[Len(s) + i] = ds[i]
  <2>1. IsPart(Part(s, ds, n), s, ds, n)  BY <1>2, <1>4, <1>10, PartIs
  <2> HIDE DEF u
  <2>2. IsPart(u, s, ds, n)  BY <1>9, <2>1
  <2> QED  BY <2>2 DEF IsPart
<1> HIDE DEF u
<1>12. ASSUME NEW i \in (Len(s) + 1)..Len(u)  PROVE u[i].op = "delete"
  <2>1. i - Len(s) \in 1..n /\ Len(s) + (i - Len(s)) = i  BY <1>1, <1>2, <1>11
  <2> QED  BY <1>3, <1>11, <2>1
<1>13. ASSUME NEW r \in Active(s)
       PROVE  \E i \in 1..Len(u) : u[i].op = "delete" /\ u[i].id = r.id
  <2>1. PICK k \in 1..n : order[k] = r  BY <1>1
  <2>2. Len(s) + k \in 1..Len(u)  BY <1>1, <1>2, <1>11
  <2>3. u[Len(s) + k].op = "delete" /\ u[Len(s) + k].id = r.id  BY <1>3, <1>11, <2>1
  <2> QED  BY <2>2, <2>3
<1> QED  BY <1>4, <1>8, <1>9, <1>11, <1>12, <1>13 DEF u, ds

-----------------------------------------------------------------------------
(* Deliveries.                                                               *)

\* What a batch may have, and its entries in terms of a log, a time and a life.
Overdue(s, t) == {r \in Active(s) : r.at <= t}
MessageOf(due, t, life) == [op |-> "message", id |-> 0, life |-> life,
                            due |-> {<<r.id, Occurrence(r, t)>> : r \in due}]
DispatchesOf(order, t) ==
    [i \in DOMAIN order |-> [op |-> "dispatch", id |-> order[i].id, time |-> t]]

IsDelivery(s, v, m) ==
    /\ Len(v) = Len(s) + 1 + m /\ Fold(v).seen = Fold(s).seen
    /\ \A i \in 1..Len(s) : v[i] = s[i]
    /\ \A i \in (Len(s) + 1)..Len(v) : v[i].op \in {"message", "dispatch"}

\* A batch that is about to be delivered, and what delivering m of it leaves.
IsBatch(s, t, life, due, e, order, ds) ==
    /\ t \in Nat /\ life \in Nat /\ LogOK(s, t, life) /\ Settled(s, life)
    /\ due \in SUBSET Overdue(s, t)
    /\ e = MessageOf(due, t, life) /\ Lists(order, due) /\ ds = DispatchesOf(order, t)
Delivers(s, t, life, due, e, ds, v, m) ==
    /\ ds \in Seq(Facts) /\ Len(ds) = Cardinality(due)
    /\ Append(s, e) \in Seq(Facts)
    /\ LogOK(v, t, life) /\ IsDelivery(s, v, m)
    /\ m = Cardinality(due) => Settled(v, life)

\* The dispatches of a batch after its message, one by one and wherever they stop.
LEMMA DeliverKeeps ==
    ASSUME NEW s, NEW t, NEW life, NEW due, NEW e, NEW order, NEW ds,
           IsBatch(s, t, life, due, e, order, ds), NEW m \in 0..Cardinality(due)
    PROVE  Delivers(s, t, life, due, e, ds, Part(Append(s, e), ds, m), m)
<1> PICK v : v = Part(Append(s, e), ds, m)  OBVIOUS
<1> SUFFICES Delivers(s, t, life, due, e, ds, v, m)  OBVIOUS
<1>a. /\ t \in Nat /\ life \in Nat /\ LogOK(s, t, life) /\ Settled(s, life)
      /\ due \in SUBSET Overdue(s, t)
      /\ e = MessageOf(due, t, life) /\ Lists(order, due) /\ ds = DispatchesOf(order, t)
  BY DEF IsBatch
<1> USE <1>a
<1>0. due \in SUBSET Active(s) /\ \A r \in due : r.at <= t  BY DEF Overdue
<1> USE <1>0
<1> DEFINE n == Cardinality(due)
           b == Append(s, e)
<1>1. /\ n \in Nat /\ order \in [1..n -> due]
      /\ \A i, j \in 1..n : i # j => order[i] # order[j]
      /\ \A x \in due : \E i \in 1..n : order[i] = x
  BY DEF Lists
<1>2. /\ Active(s) \in SUBSET Records /\ s \in Seq(Facts) /\ Len(s) \in Nat
      /\ Well(Fold(s)) /\ Active(s) = Fold(s).active /\ Distinct(Active(s))
  BY LogHasFold DEF LogOK
<1>3. ASSUME NEW i \in 1..n
      PROVE  /\ order[i] \in due /\ order[i] \in Records /\ order[i].id \in Nat /\ order[i].at <= t
             /\ ds[i] \in Facts
             /\ ds[i].op = "dispatch" /\ ds[i].id = order[i].id /\ ds[i].time = t
  <2>1. order[i] \in due /\ order[i] \in Records /\ order[i].id \in Nat  BY <1>1, <1>2 DEF Records
  <2>2. ds[i] = [op |-> "dispatch", id |-> order[i].id, time |-> t]  BY <1>1 DEF DispatchesOf
  <2>3. ds[i] \in Facts  BY <2>1, <2>2 DEF Facts
  <2> QED  BY <2>1, <2>2, <2>3
<1>4. ds \in Seq(Facts) /\ Len(ds) = n
  <2>1. ds \in [1..n -> Facts]  BY <1>1, <1>3 DEF DispatchesOf
  <2> QED  BY <1>1, <2>1, ListIsSeq
<1>5. e \in Facts /\ e.op = "message" /\ e.life = life
      /\ e.due = {<<r.id, Occurrence(r, t)>> : r \in due}
  <2>1. ASSUME NEW r \in due  PROVE <<r.id, Occurrence(r, t)>> \in Nat \X Nat
    <3>1. r \in Records /\ r.id \in Nat /\ r.at \in Nat  BY <1>2 DEF Records
    <3>2. Occurrence(r, t) \in Int /\ r.at <= Occurrence(r, t)  BY <3>1, OccurrenceIs
    <3> QED  BY <3>1, <3>2
  <2>2. {<<r.id, Occurrence(r, t)>> : r \in due} \in SUBSET (Nat \X Nat)  BY <2>1
  <2> QED  BY <2>2 DEF Facts, MessageOf
<1>6. LogOK(b, t, life) /\ Fold(b) = Fold(s)
  <2>1. \A d \in e.due : \E r \in Active(s) : r.at <= t /\ d = <<r.id, Occurrence(r, t)>>
    BY <1>5
  <2> QED  BY <1>5, <2>1, MessageKeeps
<1>7. b \in Seq(Facts) /\ Len(b) = Len(s) + 1 /\ b[Len(s) + 1] = e /\ \A i \in 1..Len(s) : b[i] = s[i]
  BY <1>2, <1>5
<1> HIDE DEF n, b
<1>8. ASSUME NEW k \in 0..n
      PROVE  /\ Len(Part(b, ds, k)) = Len(s) + 1 + k
             /\ \A i \in 1..Len(s) : Part(b, ds, k)[i] = s[i]
             /\ Part(b, ds, k)[Len(s) + 1] = e
             /\ \A i \in 1..k : /\ Part(b, ds, k)[Len(s) + 1 + i].op = "dispatch"
                                /\ Part(b, ds, k)[Len(s) + 1 + i].id = order[i].id
  <2> DEFINE w == Part(b, ds, k)
  <2>1. IsPart(w, b, ds, k)  BY <1>4, <1>7, <1>8, PartIs
  <2> HIDE DEF w
  <2>2. /\ Len(w) = Len(b) + k /\ \A i \in 1..Len(b) : w[i] = b[i]
        /\ \A i \in 1..k : w[Len(b) + i] = ds[i]
    BY <2>1 DEF IsPart
  <2>3. Len(w) = Len(s) + 1 + k  BY <2>2, <1>7
  <2>4. \A i \in 1..Len(s) : w[i] = s[i]  BY <1>2, <1>7, <2>2
  <2>5. w[Len(s) + 1] = e  BY <1>2, <1>7, <2>2
  <2>6. ASSUME NEW i \in 1..k
        PROVE  w[Len(s) + 1 + i].op = "dispatch" /\ w[Len(s) + 1 + i].id = order[i].id
    <3>1. i \in 1..n  BY <1>1
    <3>2. w[Len(s) + 1 + i] = ds[i]  BY <2>2, <1>7
    <3> QED  BY <1>3, <3>1, <3>2
  <2> QED  BY <2>3, <2>4, <2>5, <2>6 DEF w
<1> DEFINE P == {k \in Nat : k <= n =>
                    /\ LogOK(Part(b, ds, k), t, life)
                    /\ Fold(Part(b, ds, k)).seen = Fold(s).seen
                    /\ \A i \in (k + 1)..n : order[i] \in Active(Part(b, ds, k))}
<1>9. 0 \in P
  <2>1. Part(b, ds, 0) = b  BY <1>7, <1>4, PartEnds
  <2>2. Active(b) = Active(s)  BY <1>6 DEF Active
  <2>3. \A i \in 1..n : order[i] \in Active(b)  BY <1>1, <2>2
  <2> QED  BY <1>6, <2>1, <2>3
<1>10. ASSUME NEW k \in P  PROVE k + 1 \in P
  <2> SUFFICES ASSUME k + 1 <= n
               PROVE  /\ LogOK(Part(b, ds, k + 1), t, life)
                      /\ Fold(Part(b, ds, k + 1)).seen = Fold(s).seen
                      /\ \A i \in ((k + 1) + 1)..n : order[i] \in Active(Part(b, ds, k + 1))
    OBVIOUS
  <2> DEFINE w == Part(b, ds, k)
             j == Len(s) + 1
  <2>0. /\ k \in Nat /\ k <= n /\ k + 1 \in 1..n /\ k + 1 \in (k + 1)..n /\ k \in 0..(Len(ds) - 1)
        /\ k \in 0..n
    BY <1>1, <1>4
  <2>1. LogOK(w, t, life) /\ Fold(w).seen = Fold(s).seen
        /\ \A i \in (k + 1)..n : order[i] \in Active(w)
    BY <2>0
  <2>2. Part(b, ds, k + 1) = Append(w, ds[k + 1])
    BY <1>4, <1>7, <2>0, PartStep
  <2>3. /\ Len(w) = Len(s) + 1 + k
        /\ w[Len(s) + 1] = e
        /\ \A i \in 1..k : /\ w[Len(s) + 1 + i].op = "dispatch"
                           /\ w[Len(s) + 1 + i].id = order[i].id
    BY <1>8, <2>0
  <2>4. /\ order[k + 1] \in Active(w) /\ order[k + 1] \in due /\ order[k + 1].at <= t
        /\ ds[k + 1] \in Facts
        /\ ds[k + 1].op = "dispatch" /\ ds[k + 1].id = order[k + 1].id /\ ds[k + 1].time = t
    BY <1>3, <2>0, <2>1
  <2> HIDE DEF w
  <2>5. j \in 1..Len(w)  BY <1>2, <2>0, <2>3
  <2>6. Covered(w, j, order[k + 1].id)
    <3> DEFINE d == <<order[k + 1].id, Occurrence(order[k + 1], t)>>
    <3>1. d \in e.due /\ d[1] = order[k + 1].id  BY <1>5, <2>4
    <3> HIDE DEF d
    <3>2. w[j] = e /\ w[j].op = "message"  BY <1>5, <2>3
    <3>3. d \in w[j].due  BY <3>1, <3>2
    <3> QED  BY <3>1, <3>2, <3>3 DEF Covered
  <2>7. ~Dispatched(w, order[k + 1].id, j + 1, Len(w))
    <3> SUFFICES ASSUME NEW x \in (j + 1)..Len(w), w[x].op = "dispatch", w[x].id = order[k + 1].id
                 PROVE  FALSE
      BY DEF Dispatched
    <3>1. x - j \in 1..k /\ Len(s) + 1 + (x - j) = x  BY <1>2, <2>0, <2>3
    <3>2. w[x].id = order[x - j].id  BY <2>3, <3>1
    <3>3. x - j \in 1..n /\ x - j # k + 1  BY <1>1, <2>0, <3>1
    <3>4. order[x - j] \in due /\ order[x - j] # order[k + 1]  BY <1>1, <2>0, <3>3
    <3> QED  BY <1>2, <2>4, <3>2, <3>4 DEF Distinct
  <2> HIDE DEF j
  <2>8. /\ LogOK(Append(w, ds[k + 1]), t, life)
        /\ Fold(Append(w, ds[k + 1])).seen = Fold(w).seen
        /\ Active(w) \ {order[k + 1]} \subseteq Active(Append(w, ds[k + 1]))
    BY <2>1, <2>4, <2>5, <2>6, <2>7, DispatchKeeps
  <2>9. ASSUME NEW i \in ((k + 1) + 1)..n  PROVE order[i] \in Active(w) \ {order[k + 1]}
    <3>1. i \in (k + 1)..n /\ i \in 1..n /\ i # k + 1  BY <2>0, <2>9, <1>1
    <3> QED  BY <1>1, <2>0, <2>1, <3>1
  <2> QED  BY <2>1, <2>2, <2>8, <2>9
<1> HIDE DEF P
<1>11. Nat \subseteq P  BY <1>9, <1>10, ByInduction
<1>12. m \in Nat /\ m <= n /\ m \in 0..n  BY <1>1 DEF n
<1>18. v = Part(b, ds, m)  BY DEF b
<1>13. LogOK(v, t, life) /\ Fold(v).seen = Fold(s).seen
  BY <1>11, <1>12, <1>18 DEF P
<1>14. /\ Len(v) = Len(s) + 1 + m
       /\ \A i \in 1..Len(s) : v[i] = s[i]
       /\ v[Len(s) + 1] = e
       /\ \A i \in 1..m : v[Len(s) + 1 + i].op = "dispatch" /\ v[Len(s) + 1 + i].id = order[i].id
  <2>1. /\ Len(Part(b, ds, m)) = Len(s) + 1 + m
        /\ \A i \in 1..Len(s) : Part(b, ds, m)[i] = s[i]
        /\ Part(b, ds, m)[Len(s) + 1] = e
        /\ \A i \in 1..m : /\ Part(b, ds, m)[Len(s) + 1 + i].op = "dispatch"
                           /\ Part(b, ds, m)[Len(s) + 1 + i].id = order[i].id
    BY <1>8, <1>12
  <2> QED  BY <1>18, <2>1, Zenon
<1>15. ASSUME NEW i \in (Len(s) + 2)..Len(v)  PROVE v[i].op = "dispatch"
  <2>1. i - (Len(s) + 1) \in 1..m /\ Len(s) + 1 + (i - (Len(s) + 1)) = i  BY <1>2, <1>12, <1>14
  <2> QED  BY <1>14, <2>1
<1>16. \A i \in (Len(s) + 1)..Len(v) : v[i].op \in {"message", "dispatch"}
  <2> SUFFICES ASSUME NEW i \in (Len(s) + 1)..Len(v)  PROVE v[i].op \in {"message", "dispatch"}
    OBVIOUS
  <2>1. i = Len(s) + 1 \/ i \in (Len(s) + 2)..Len(v)  BY <1>2, <1>12, <1>14
  <2> QED  BY <1>5, <1>14, <1>15, <2>1
<1>17. ASSUME m = n  PROVE Settled(v, life)
  <2> SUFFICES ASSUME NEW i \in 1..Len(v), v[i].op = "message", v[i].life = life, NEW d \in v[i].due
               PROVE  Dispatched(v, d[1], i, Len(v))
    BY DEF Settled
  <2>1. CASE i \in 1..Len(s)
    <3>1. s[i] = v[i]  BY <1>14, <2>1
    <3>2. Dispatched(s, d[1], i, Len(s))  BY <2>1, <3>1 DEF Settled
    <3>3. PICK k \in i..Len(s) : s[k].op = "dispatch" /\ s[k].id = d[1]  BY <3>2 DEF Dispatched
    <3>4. k \in i..Len(v) /\ v[k] = s[k]  BY <1>2, <1>12, <1>14, <2>1, <3>3
    <3> QED  BY <3>3, <3>4 DEF Dispatched
  <2>2. CASE i = Len(s) + 1
    <3>1. d \in e.due  BY <1>14, <2>2
    <3>2. PICK r \in due : d = <<r.id, Occurrence(r, t)>>  BY <1>5, <3>1
    <3>3. PICK k \in 1..n : order[k] = r  BY <1>1
    <3>4. Len(s) + 1 + k \in i..Len(v)  BY <1>2, <1>12, <1>14, <2>2, <1>17, <1>1
    <3>5. v[Len(s) + 1 + k].op = "dispatch" /\ v[Len(s) + 1 + k].id = d[1]
      BY <1>14, <1>17, <3>2, <3>3
    <3> QED  BY <3>4, <3>5 DEF Dispatched
  <2>3. i \in 1..Len(s) \/ i = Len(s) + 1 \/ i \in (Len(s) + 2)..Len(v)  BY <1>2, <1>12, <1>14
  <2> QED  BY <1>15, <2>1, <2>2, <2>3
<1>19. IsDelivery(s, v, m)  BY <1>13, <1>14, <1>16 DEF IsDelivery
<1> QED  BY <1>4, <1>7, <1>13, <1>17, <1>19 DEF n, b, Delivers

\* The decision of a drive: nothing is decided only if nothing is due.
LEMMA DueIs ==
    ASSUME NEW s, NEW t \in Nat, NEW life, LogOK(s, t, life)
    PROVE  /\ Due(s, t) \in SUBSET Active(s) /\ IsFiniteSet(Due(s, t))
           /\ \A r \in Due(s, t) : r.at <= t
           /\ Due(s, t) = {} => \A r \in Active(s) : r.at > t
<1>1. Active(s) \in SUBSET Records /\ IsFiniteSet(Active(s)) /\ Distinct(Active(s))
  BY LogHasFold
<1> DEFINE overdue == {r \in Active(s) : r.at <= t}
           ones == {r \in overdue : r.kind = "after"}
           first == {r \in ones : \A q \in ones \ {r} : Earlier(r, q)}
<1>2. Due(s, t) = IF ones # {} THEN first ELSE overdue  BY DEF Due
<1>3. Due(s, t) \subseteq overdue  BY <1>2
<1>4. IsFiniteSet(Due(s, t))
  <2>1. Due(s, t) \subseteq Active(s)  BY <1>3
  <2> QED  BY <1>1, <2>1, FS_Subset
<1>5. ASSUME ones # {}  PROVE first # {}
  <2> DEFINE A == {r.at : r \in ones}
  <2>1. A \in SUBSET Nat /\ A # {}  BY <1>1, <1>5 DEF Records
  <2> HIDE DEF A
  <2>2. PICK a \in A : \A x \in A : a <= x  BY <2>1, LeastOf
  <2> DEFINE B == {r \in ones : r.at = a}
             I == {r.id : r \in B}
  <2>3. B # {}  BY <2>2 DEF A
  <2>4. I \in SUBSET Nat /\ I # {}  BY <1>1, <2>3 DEF Records
  <2> HIDE DEF I
  <2>5. PICK i \in I : \A x \in I : i <= x  BY <2>4, LeastOf
  <2>6. PICK r \in B : r.id = i  BY <2>5 DEF I
  <2>7. ASSUME NEW q \in ones \ {r}  PROVE Earlier(r, q)
    <3>1. q.at \in Nat /\ r.at \in Nat /\ q.id \in Nat /\ r.id \in Nat  BY <1>1 DEF Records
    <3>2. r.at <= q.at  BY <2>2 DEF A
    <3>3. q.id # r.id  BY <1>1 DEF Distinct
    <3>4. ASSUME q.at = r.at  PROVE r.id < q.id
      <4>1. q \in B  BY <3>4
      <4>2. q.id \in I  BY <4>1 DEF I
      <4>3. r.id <= q.id  BY <2>5, <2>6, <4>2
      <4> QED  BY <3>1, <3>3, <4>3
    <3> QED  BY <3>1, <3>2, <3>4 DEF Earlier
  <2> QED  BY <2>7
<1>6. ASSUME Due(s, t) = {}, NEW r \in Active(s)  PROVE r.at > t
  <2>1. overdue = {}  BY <1>2, <1>5, <1>6
  <2>2. r.at \in Nat  BY <1>1 DEF Records
  <2> QED  BY <2>1, <2>2
<1> QED  BY <1>3, <1>4, <1>6

\* The least of a set of numbers.
LEMMA MinIs ==
    ASSUME NEW S \in SUBSET Nat, S # {}
    PROVE  Min(S) \in S /\ \A x \in S : Min(S) <= x
BY LeastOf DEF Min

\* How a list of what is due becomes entries, in the words of the model.
LEMMA DispatchesIs ==
    ASSUME NEW due, Lists(InOrder(due, Earlier), due)
    PROVE  Dispatches(due) = DispatchesOf(InOrder(due, Earlier), now)
BY DEF Dispatches, DispatchesOf

-----------------------------------------------------------------------------
(* The owner.                                                                *)

\* The transactions of a queue, and the runtime.
Entries == [kind : {"drive", "list", "stop"}]
             \cup [kind : {"create"}, rule : Rules, wait : Nat \ {0}]
             \cup [kind : {"delete"}, id : Nat]

Drive == [kind |-> "drive"]

Owners == [state : {"up", "stopping", "stopped", "down"}, queue : Seq(Entries),
           phase : {"queued", "preflight", "barrier"}, pending : SUBSET Nat, run : BOOLEAN,
           requested : BOOLEAN, timer : {NoTimer} \cup 1..(MaxTime + MaxDelay),
           idleWait : BOOLEAN, faulted : BOOLEAN, stalled : BOOLEAN]

HasDrive(q) == \E i \in 1..Len(q) : q[i].kind = "drive"
SoleDrive(q) == \A i, j \in 1..Len(q) : q[i].kind = "drive" /\ q[j].kind = "drive" => i = j

\* The queue's drive and the flag of the run agree, and there is one of them.
Sole(o) == (o.run <=> HasDrive(o.queue)) /\ SoleDrive(o.queue)

\* A runtime that stops has no timer and no wait.
Quiet(o) == o.state \in {"stopping", "stopped"} => o.timer = NoTimer /\ ~o.idleWait

\* What a call to come may still create.
Creates(o) == {i \in 1..Len(o.queue) :
                 o.queue[i].kind = "create" /\ (i > 1 \/ o.phase # "barrier")}

\* Finitely many calls wait.
LEMMA CreatesFinite ==
    ASSUME NEW o \in Owners
    PROVE  IsFiniteSet(Creates(o)) /\ Cardinality(Creates(o)) \in Nat
<1>1. Len(o.queue) \in Nat  BY DEF Owners
<1>2. IsFiniteSet(1..Len(o.queue))  BY <1>1, FS_Interval
<1>3. Creates(o) \subseteq 1..Len(o.queue)  BY DEF Creates
<1> QED  BY <1>2, <1>3, FS_Subset, FS_CardinalityType

\* Fewer calls, a smaller number.
LEMMA CreatesLess ==
    ASSUME NEW o \in Owners, NEW p \in Owners, Creates(p) \subseteq Creates(o)
    PROVE  Cardinality(Creates(p)) <= Cardinality(Creates(o))
BY CreatesFinite, FS_Subset

\* One more entry at the end of the queue.
LEMMA QueueGrows ==
    ASSUME NEW q \in Seq(Entries), NEW e \in Entries
    PROVE  LET p == Append(q, e)
           IN  /\ p \in Seq(Entries) /\ Len(p) = Len(q) + 1 /\ p # << >>
               /\ \A i \in 1..Len(q) : p[i] = q[i]
               /\ p[Len(q) + 1] = e
               /\ q # << >> => Head(p) = Head(q)
               /\ HasDrive(p) <=> HasDrive(q) \/ e.kind = "drive"
               /\ SoleDrive(q) /\ ~(HasDrive(q) /\ e.kind = "drive") => SoleDrive(p)
<1> DEFINE p == Append(q, e)
<1>1. /\ p \in Seq(Entries) /\ Len(p) = Len(q) + 1 /\ p # << >> /\ Len(q) \in Nat
      /\ \A i \in 1..Len(q) : p[i] = q[i]
      /\ p[Len(q) + 1] = e
  BY AppendProperties
<1>5. ASSUME q # << >>  PROVE Head(p) = Head(q)
  <2>1. Head(q) = q[1] /\ Len(q) \in Nat \ {0} /\ Head(p) = p[1]
    BY <1>1, <1>5, HeadTailProperties
  <2> QED  BY <1>1, <2>1
<1> HIDE DEF p
<1>2. \A i : i \in 1..Len(p) <=> i \in 1..Len(q) \/ i = Len(q) + 1  BY <1>1
<1>3. HasDrive(p) <=> HasDrive(q) \/ e.kind = "drive"
  BY <1>1, <1>2 DEF HasDrive
<1>4. ASSUME SoleDrive(q), ~(HasDrive(q) /\ e.kind = "drive")  PROVE SoleDrive(p)
  <2> SUFFICES ASSUME NEW i \in 1..Len(p), NEW j \in 1..Len(p),
                      p[i].kind = "drive", p[j].kind = "drive"
               PROVE  i = j
    BY DEF SoleDrive
  <2>1. CASE e.kind = "drive"
    <3>1. ~(i \in 1..Len(q)) /\ ~(j \in 1..Len(q))  BY <1>1, <1>4, <2>1 DEF HasDrive
    <3> QED  BY <1>2, <3>1
  <2>2. CASE e.kind # "drive"
    <3>1. i \in 1..Len(q) /\ j \in 1..Len(q)  BY <1>1, <1>2, <2>2
    <3>2. q[i].kind = "drive" /\ q[j].kind = "drive"  BY <1>1, <3>1
    <3> QED  BY <1>4, <3>1, <3>2 DEF SoleDrive
  <2> QED  BY <2>1, <2>2
<1> QED  BY <1>1, <1>3, <1>4, <1>5 DEF p

\* The head leaves the queue.
LEMMA QueueShrinks ==
    ASSUME NEW q \in Seq(Entries), q # << >>, SoleDrive(q)
    PROVE  LET p == Tail(q)
           IN  /\ p \in Seq(Entries) /\ Len(p) = Len(q) - 1
               /\ Head(q) = q[1] /\ Head(q) \in Entries
               /\ \A i \in 1..Len(p) : p[i] = q[i + 1] /\ i + 1 \in 1..Len(q)
               /\ SoleDrive(p)
               /\ HasDrive(p) <=> HasDrive(q) /\ Head(q).kind # "drive"
<1> DEFINE p == Tail(q)
<1>1. /\ p \in Seq(Entries) /\ Len(p) = Len(q) - 1 /\ Len(q) \in Nat \ {0} /\ Len(p) \in Nat
      /\ Head(q) = q[1] /\ Head(q) \in Entries
      /\ \A i \in 1..Len(p) : p[i] = q[i + 1]
  BY HeadTailProperties
<1> HIDE DEF p
<1>2. \A i \in 1..Len(p) : i + 1 \in 1..Len(q) /\ i + 1 # 1  BY <1>1
<1>3. SoleDrive(p)
  <2> SUFFICES ASSUME NEW i \in 1..Len(p), NEW j \in 1..Len(p),
                      p[i].kind = "drive", p[j].kind = "drive"
               PROVE  i = j
    BY DEF SoleDrive
  <2>1. i + 1 = j + 1  BY <1>1, <1>2 DEF SoleDrive
  <2> QED  BY <2>1, <1>1
<1>4. ASSUME HasDrive(p)  PROVE HasDrive(q) /\ Head(q).kind # "drive"
  <2>1. PICK i \in 1..Len(p) : p[i].kind = "drive"  BY <1>4 DEF HasDrive
  <2>2. i + 1 \in 1..Len(q) /\ q[i + 1].kind = "drive" /\ i + 1 # 1 /\ 1 \in 1..Len(q)
    BY <1>1, <1>2, <2>1
  <2> QED  BY <1>1, <2>2 DEF HasDrive, SoleDrive
<1>5. ASSUME HasDrive(q), Head(q).kind # "drive"  PROVE HasDrive(p)
  <2>1. PICK i \in 1..Len(q) : q[i].kind = "drive"  BY <1>5 DEF HasDrive
  <2>2. i # 1  BY <1>1, <1>5, <2>1
  <2>3. i - 1 \in 1..Len(p) /\ (i - 1) + 1 = i  BY <1>1, <2>2
  <2>4. p[i - 1] = q[i]  BY <1>1, <2>3
  <2> QED  BY <2>1, <2>3, <2>4 DEF HasDrive
<1> QED  BY <1>1, <1>2, <1>3, <1>4, <1>5 DEF p

\* The parts of the invariant that speak of the runtime alone.
Fine(o) == o \in Owners /\ Sole(o) /\ Quiet(o)
Faultless(o) == o.faulted => ~o.run

\* The head of a queue that is not empty stays the head.
SameHead(o, p) == o.queue # << >> => p.queue # << >> /\ Head(p.queue) = Head(o.queue)

\* A request for a drive starts a run or is taken up by the one in progress; a
\* queue has one drive still.
LEMMA RequestDriveIs ==
    ASSUME NEW o, Fine(o), Faultless(o), NEW p, p = RequestDrive(o)
    PROVE  /\ Fine(p) /\ Faultless(p)
           /\ p.state = o.state /\ p.phase = o.phase /\ p.pending = o.pending
           /\ p.idleWait = o.idleWait /\ p.faulted = o.faulted /\ p.stalled = o.stalled
           /\ (Works(p) <=> Works(o)) /\ (Works(o) => p.run) /\ (o.run => p.run)
           /\ p.timer \in {o.timer, NoTimer}
           /\ SameHead(o, p) /\ Creates(p) = Creates(o)
<1>0. /\ o \in Owners /\ o.queue \in Seq(Entries) /\ o.state \in {"up", "stopping", "stopped", "down"}
      /\ o.faulted \in BOOLEAN /\ o.run \in BOOLEAN /\ Len(o.queue) \in Nat
      /\ (o.run <=> HasDrive(o.queue)) /\ SoleDrive(o.queue)
      /\ Quiet(o)
  BY DEF Fine, Owners, Sole
<1>1. CASE ~Works(o)
  <2>1. p = o  BY <1>1 DEF RequestDrive
  <2> QED  BY <2>1, <1>1 DEF SameHead
<1>2. CASE Works(o) /\ o.run
  <2>1. p = [o EXCEPT !.timer = NoTimer, !.requested = TRUE]  BY <1>2 DEF RequestDrive
  <2>2. p \in Owners  BY <1>0, <2>1 DEF Owners
  <2>3. /\ p.state = o.state /\ p.queue = o.queue /\ p.phase = o.phase /\ p.pending = o.pending
        /\ p.run = o.run /\ p.timer = NoTimer
        /\ p.idleWait = o.idleWait /\ p.faulted = o.faulted /\ p.stalled = o.stalled
    BY <1>0, <2>1 DEF Owners
  <2>4. Creates(p) = Creates(o)  BY <2>3 DEF Creates
  <2> HIDE DEF Creates
  <2>5. Fine(p)  BY <1>0, <2>2, <2>3 DEF Fine, Sole, Quiet
  <2> QED  BY <1>2, <2>2, <2>3, <2>4, <2>5 DEF Faultless, Works, SameHead
<1>3. CASE Works(o) /\ ~o.run
  <2>1. p = [o EXCEPT !.timer = NoTimer, !.run = TRUE, !.queue = Append(o.queue, Drive)]
    BY <1>3 DEF RequestDrive, Drive
  <2> DEFINE q == Append(o.queue, Drive)
  <2>2. Drive \in Entries /\ Drive.kind = "drive"  BY DEF Entries, Drive
  <2>3. /\ q \in Seq(Entries) /\ Len(q) = Len(o.queue) + 1 /\ q # << >>
        /\ \A i \in 1..Len(o.queue) : q[i] = o.queue[i]
        /\ q[Len(o.queue) + 1] = Drive
        /\ o.queue # << >> => Head(q) = Head(o.queue)
        /\ HasDrive(q) <=> HasDrive(o.queue) \/ Drive.kind = "drive"
        /\ SoleDrive(o.queue) /\ ~(HasDrive(o.queue) /\ Drive.kind = "drive") => SoleDrive(q)
    BY <1>0, <2>2, QueueGrows
  <2> HIDE DEF q
  <2>4. p = [o EXCEPT !.timer = NoTimer, !.run = TRUE, !.queue = q]  BY <2>1 DEF q
  <2>5. p \in Owners  BY <1>0, <2>3, <2>4 DEF Owners
  <2>6. /\ p.state = o.state /\ p.queue = q /\ p.phase = o.phase /\ p.pending = o.pending
        /\ p.run = TRUE /\ p.timer = NoTimer
        /\ p.idleWait = o.idleWait /\ p.faulted = o.faulted /\ p.stalled = o.stalled
    BY <1>0, <2>4 DEF Owners
  <2>7. Sole(p)  BY <1>0, <1>3, <2>2, <2>3, <2>6 DEF Sole
  <2>8. Fine(p)  BY <1>0, <2>5, <2>6, <2>7 DEF Fine, Quiet
  <2>9. Creates(p) = Creates(o)
    <3>1. \A i \in 1..Len(q) : i \in 1..Len(o.queue) \/ q[i].kind = "drive"
      BY <1>0, <2>2, <2>3
    <3>2. \A i \in 1..Len(o.queue) : i \in 1..Len(q)  BY <1>0, <2>3
    <3> QED  BY <2>3, <2>6, <3>1, <3>2 DEF Creates
  <2>10. SameHead(o, p)  BY <2>3, <2>6 DEF SameHead
  <2> QED  BY <1>3, <2>6, <2>8, <2>9, <2>10 DEF Faultless, Works
<1> QED  BY <1>1, <1>2, <1>3

\* The head transaction ends without touching the run.
LEMMA LeavesIs ==
    ASSUME NEW o, o \in Owners, SoleDrive(o.queue), o.queue # << >>, NEW p, p = Leaves(o)
    PROVE  /\ p \in Owners /\ p.queue = Tail(o.queue) /\ p.phase = "queued" /\ p.pending = {}
           /\ p.state = o.state /\ p.run = o.run /\ p.requested = o.requested
           /\ p.timer = o.timer /\ p.idleWait = o.idleWait
           /\ p.faulted = o.faulted /\ p.stalled = o.stalled
           /\ (Works(p) <=> Works(o))
           /\ SoleDrive(p.queue)
           /\ HasDrive(p.queue) <=> HasDrive(o.queue) /\ Head(o.queue).kind # "drive"
           /\ Cardinality(Creates(p)) <= Cardinality(Creates(o))
<1>0. o.queue \in Seq(Entries) /\ Len(o.queue) \in Nat  BY DEF Owners
<1> DEFINE q == Tail(o.queue)
<1>1. /\ q \in Seq(Entries) /\ Len(q) = Len(o.queue) - 1
      /\ \A i \in 1..Len(q) : q[i] = o.queue[i + 1] /\ i + 1 \in 1..Len(o.queue)
      /\ SoleDrive(q)
      /\ HasDrive(q) <=> HasDrive(o.queue) /\ Head(o.queue).kind # "drive"
  BY <1>0, QueueShrinks
<1> HIDE DEF q
<1>2. p = [o EXCEPT !.queue = q, !.phase = "queued", !.pending = {}]  BY DEF Leaves, q
<1>3. p \in Owners  BY <1>1, <1>2 DEF Owners
<1>4. /\ p.queue = q /\ p.phase = "queued" /\ p.pending = {}
      /\ p.state = o.state /\ p.run = o.run /\ p.requested = o.requested
      /\ p.timer = o.timer /\ p.idleWait = o.idleWait
      /\ p.faulted = o.faulted /\ p.stalled = o.stalled
  BY <1>2 DEF Owners
<1>5. Cardinality(Creates(p)) <= Cardinality(Creates(o))
  <2> DEFINE A == Creates(p)
             B == Creates(o)
             f == [i \in A |-> i + 1]
  <2>1. IsFiniteSet(B)  BY CreatesFinite
  <2>2. ASSUME NEW i \in A  PROVE i + 1 \in B /\ i \in Nat
    <3>1. i \in 1..Len(q) /\ q[i].kind = "create"  BY <1>4 DEF Creates
    <3>2. i + 1 \in 1..Len(o.queue) /\ o.queue[i + 1].kind = "create" /\ i + 1 > 1
      BY <1>1, <3>1
    <3> QED  BY <3>1, <3>2 DEF Creates
  <2> HIDE DEF A, B
  <2>3. f \in Injection(A, B)  BY <2>2 DEF Injection, IsInjective
  <2>4. IsFiniteSet(A)  BY <1>3, CreatesFinite DEF A
  <2> HIDE DEF f
  <2> QED  BY <2>1, <2>3, FS_Injection DEF A, B
<1> QED  BY <1>1, <1>3, <1>4, <1>5 DEF Works, q

\* A drive ends: with or without a next one, the queue and the run agree again.
LEMMA EndDriveIs ==
    ASSUME NEW o, o \in Owners, SoleDrive(o.queue), Quiet(o), o.queue # << >>,
           Head(o.queue).kind = "drive", o.run, NEW p, p = EndDrive(o)
    PROVE  /\ Fine(p) /\ Faultless(p)
           /\ p.state = o.state /\ p.timer = o.timer /\ p.idleWait = o.idleWait
           /\ p.faulted = o.faulted /\ p.stalled = o.stalled
           /\ p.pending = {} /\ (Works(p) <=> Works(o))
           /\ (o.requested /\ Works(o) => p.run)
           /\ Cardinality(Creates(p)) <= Cardinality(Creates(o))
<1>0. PICK l : l = Leaves(o)  OBVIOUS
<1>1. /\ l \in Owners /\ l.phase = "queued" /\ l.pending = {}
      /\ l.state = o.state /\ l.run = o.run /\ l.requested = o.requested
      /\ l.timer = o.timer /\ l.idleWait = o.idleWait
      /\ l.faulted = o.faulted /\ l.stalled = o.stalled
      /\ SoleDrive(l.queue) /\ ~HasDrive(l.queue)
      /\ Cardinality(Creates(l)) <= Cardinality(Creates(o))
  <2>1. /\ l \in Owners /\ l.queue = Tail(o.queue) /\ l.phase = "queued" /\ l.pending = {}
        /\ l.state = o.state /\ l.run = o.run /\ l.requested = o.requested
        /\ l.timer = o.timer /\ l.idleWait = o.idleWait
        /\ l.faulted = o.faulted /\ l.stalled = o.stalled
        /\ (Works(l) <=> Works(o))
        /\ SoleDrive(l.queue)
        /\ (HasDrive(l.queue) <=> HasDrive(o.queue) /\ Head(o.queue).kind # "drive")
        /\ Cardinality(Creates(l)) <= Cardinality(Creates(o))
    BY <1>0, LeavesIs, Zenon
  <2> QED  BY <2>1
<1>2. p = IF o.requested /\ Works(o)
          THEN [l EXCEPT !.requested = FALSE, !.queue = Append(l.queue, Drive)]
          ELSE [l EXCEPT !.run = FALSE]
  BY <1>0 DEF EndDrive, Drive
<1>3. l.queue \in Seq(Entries) /\ Len(l.queue) \in Nat  BY <1>1 DEF Owners
<1>4. CASE o.requested /\ Works(o)
  <2> DEFINE q == Append(l.queue, Drive)
  <2>1. p = [l EXCEPT !.requested = FALSE, !.queue = q]  BY <1>2, <1>4
  <2>2. Drive \in Entries /\ Drive.kind = "drive"  BY DEF Entries, Drive
  <2>3. /\ q \in Seq(Entries) /\ Len(q) = Len(l.queue) + 1
        /\ \A i \in 1..Len(l.queue) : q[i] = l.queue[i]
        /\ q[Len(l.queue) + 1] = Drive
        /\ HasDrive(q) /\ SoleDrive(q)
    BY <1>1, <1>3, <2>2, QueueGrows
  <2> HIDE DEF q
  <2>4. p \in Owners  BY <1>1, <2>1, <2>3 DEF Owners
  <2>5. /\ p.queue = q /\ p.phase = l.phase /\ p.pending = l.pending /\ p.state = l.state
        /\ p.run = l.run /\ p.timer = l.timer /\ p.idleWait = l.idleWait
        /\ p.faulted = l.faulted /\ p.stalled = l.stalled
    BY <1>1, <2>1 DEF Owners
  <2>6. Creates(p) = Creates(l)
    <3>1. \A i \in 1..Len(q) : i \in 1..Len(l.queue) \/ q[i].kind = "drive"
      BY <1>3, <2>2, <2>3
    <3>2. \A i \in 1..Len(l.queue) : i \in 1..Len(q)  BY <1>3, <2>3
    <3> QED  BY <2>2, <2>3, <2>5, <3>1, <3>2 DEF Creates
  <2>7. Fine(p)  BY <1>1, <2>3, <2>4, <2>5 DEF Fine, Sole, Quiet
  <2>8. Faultless(p)  BY <1>1, <1>4, <2>5 DEF Faultless, Works
  <2> QED  BY <1>1, <2>5, <2>6, <2>7, <2>8 DEF Works
<1>5. CASE ~(o.requested /\ Works(o))
  <2>1. p = [l EXCEPT !.run = FALSE]  BY <1>2, <1>5
  <2>4. p \in Owners  BY <1>1, <2>1 DEF Owners
  <2>5. /\ p.queue = l.queue /\ p.phase = l.phase /\ p.pending = l.pending /\ p.state = l.state
        /\ p.run = FALSE /\ p.timer = l.timer /\ p.idleWait = l.idleWait
        /\ p.faulted = l.faulted /\ p.stalled = l.stalled
    BY <1>1, <2>1 DEF Owners
  <2>6. Creates(p) = Creates(l)  BY <2>5 DEF Creates
  <2>7. Fine(p)  BY <1>1, <2>4, <2>5 DEF Fine, Sole, Quiet
  <2> QED  BY <1>1, <1>5, <2>5, <2>6, <2>7 DEF Faultless, Works
<1> QED  BY <1>4, <1>5

\* One field of an owner is set.
LEMMA StalledIs ==
    ASSUME NEW o \in Owners, NEW p, p = [o EXCEPT !.stalled = TRUE]
    PROVE  /\ p \in Owners /\ p.stalled = TRUE
           /\ p.state = o.state /\ p.queue = o.queue /\ p.phase = o.phase /\ p.pending = o.pending
           /\ p.run = o.run /\ p.requested = o.requested /\ p.timer = o.timer
           /\ p.idleWait = o.idleWait /\ p.faulted = o.faulted
BY DEF Owners

\* The fields of an owner with another timer ...
LEMMA TimerIs ==
    ASSUME NEW o \in Owners, NEW x \in {NoTimer} \cup 1..(MaxTime + MaxDelay),
           NEW p, p = [o EXCEPT !.timer = x]
    PROVE  /\ p \in Owners /\ p.timer = x
           /\ p.state = o.state /\ p.queue = o.queue /\ p.phase = o.phase /\ p.pending = o.pending
           /\ p.run = o.run /\ p.requested = o.requested
           /\ p.idleWait = o.idleWait /\ p.faulted = o.faulted /\ p.stalled = o.stalled
BY DEF Owners

\* ... with another wait for idle ...
LEMMA IdleWaitIs ==
    ASSUME NEW o \in Owners, NEW x \in BOOLEAN, NEW p, p = [o EXCEPT !.idleWait = x]
    PROVE  /\ p \in Owners /\ p.idleWait = x
           /\ p.state = o.state /\ p.queue = o.queue /\ p.phase = o.phase /\ p.pending = o.pending
           /\ p.run = o.run /\ p.requested = o.requested /\ p.timer = o.timer
           /\ p.faulted = o.faulted /\ p.stalled = o.stalled
BY DEF Owners

\* ... in another phase of its transaction.
LEMMA PhaseIs ==
    ASSUME NEW o \in Owners, NEW x \in {"queued", "preflight", "barrier"},
           NEW p, p = [o EXCEPT !.phase = x]
    PROVE  /\ p \in Owners /\ p.phase = x
           /\ p.state = o.state /\ p.queue = o.queue /\ p.pending = o.pending
           /\ p.run = o.run /\ p.requested = o.requested /\ p.timer = o.timer
           /\ p.idleWait = o.idleWait /\ p.faulted = o.faulted /\ p.stalled = o.stalled
BY DEF Owners

\* The entry that waits in the queue is one more.
LEMMA QueueIs ==
    ASSUME NEW o \in Owners, NEW x \in Seq(Entries), NEW p, p = [o EXCEPT !.queue = x]
    PROVE  /\ p \in Owners /\ p.queue = x
           /\ p.state = o.state /\ p.phase = o.phase /\ p.pending = o.pending
           /\ p.run = o.run /\ p.requested = o.requested /\ p.timer = o.timer
           /\ p.idleWait = o.idleWait /\ p.faulted = o.faulted /\ p.stalled = o.stalled
BY DEF Owners

\* A tool's transaction joins the queue behind what is there.
LEMMA SubmitsIs ==
    ASSUME NEW o, Fine(o), Faultless(o), NEW e \in Entries, e.kind # "drive",
           NEW p, p = [o EXCEPT !.queue = Append(@, e)]
    PROVE  /\ Fine(p) /\ Faultless(p) /\ SameHead(o, p)
           /\ p.state = o.state /\ p.phase = o.phase /\ p.pending = o.pending
           /\ p.run = o.run /\ p.timer = o.timer
           /\ p.idleWait = o.idleWait /\ p.faulted = o.faulted /\ p.stalled = o.stalled
           /\ Cardinality(Creates(p)) <= Cardinality(Creates(o))
                                           + (IF e.kind = "create" THEN 1 ELSE 0)
<1>0. /\ o \in Owners /\ o.queue \in Seq(Entries) /\ Len(o.queue) \in Nat
      /\ (o.run <=> HasDrive(o.queue)) /\ SoleDrive(o.queue) /\ Quiet(o)
  BY DEF Fine, Owners, Sole
<1> DEFINE q == Append(o.queue, e)
<1>1. /\ q \in Seq(Entries) /\ Len(q) = Len(o.queue) + 1 /\ q # << >>
      /\ \A i \in 1..Len(o.queue) : q[i] = o.queue[i]
      /\ q[Len(o.queue) + 1] = e
      /\ o.queue # << >> => Head(q) = Head(o.queue)
      /\ HasDrive(q) <=> HasDrive(o.queue)
      /\ SoleDrive(q)
  BY <1>0, QueueGrows
<1>2. p = [o EXCEPT !.queue = q]  OBVIOUS
<1> HIDE DEF q
<1>3. /\ p \in Owners /\ p.queue = q
      /\ p.state = o.state /\ p.phase = o.phase /\ p.pending = o.pending
      /\ p.run = o.run /\ p.timer = o.timer
      /\ p.idleWait = o.idleWait /\ p.faulted = o.faulted /\ p.stalled = o.stalled
  BY <1>0, <1>1, <1>2, QueueIs
<1>4. Fine(p) /\ Faultless(p) /\ SameHead(o, p)
  BY <1>0, <1>1, <1>3 DEF Fine, Sole, Quiet, Faultless, SameHead
<1>5. Cardinality(Creates(p)) <= Cardinality(Creates(o)) + (IF e.kind = "create" THEN 1 ELSE 0)
  <2> DEFINE A == Creates(p)
             B == Creates(o)
             n == Len(o.queue) + 1
  <2>1. IsFiniteSet(B) /\ Cardinality(B) \in Nat  BY <1>0, CreatesFinite
  <2> HIDE DEF n, B
  <2>2. IsFiniteSet(B \cup {n}) /\ Cardinality(B \cup {n}) <= Cardinality(B) + 1
    <3>1. Cardinality(B \cup {n}) = IF n \in B THEN Cardinality(B) ELSE Cardinality(B) + 1
      BY <2>1, FS_AddElement
    <3>2. IsFiniteSet(B \cup {n})  BY <2>1, FS_AddElement
    <3> QED  BY <2>1, <3>1, <3>2
  <2>3. \A i \in A : i \in B \/ (i = n /\ e.kind = "create")
    <3> SUFFICES ASSUME NEW i \in A  PROVE i \in B \/ (i = n /\ e.kind = "create")
      OBVIOUS
    <3>1. i \in 1..Len(q) /\ q[i].kind = "create" /\ (i > 1 \/ p.phase # "barrier")
      BY <1>3 DEF Creates
    <3>2. CASE i \in 1..Len(o.queue)
      <4>1. o.queue[i].kind = "create" /\ (i > 1 \/ o.phase # "barrier")  BY <1>1, <1>3, <3>1, <3>2
      <4> QED  BY <3>2, <4>1 DEF Creates, B
    <3>3. CASE i = Len(o.queue) + 1
      BY <1>1, <3>1, <3>3 DEF n
    <3> QED  BY <1>0, <1>1, <3>1, <3>2, <3>3
  <2>4. IsFiniteSet(A) /\ Cardinality(A) \in Nat  BY <1>3, CreatesFinite
  <2> HIDE DEF A, B, n
  <2>5. CASE e.kind = "create"
    <3>1. A \subseteq B \cup {n}  BY <2>3
    <3>2. Cardinality(A) <= Cardinality(B \cup {n}) /\ Cardinality(B \cup {n}) \in Nat
      BY <2>2, <3>1, FS_Subset, FS_CardinalityType
    <3> QED  BY <2>1, <2>2, <2>4, <2>5, <3>2 DEF A, B
  <2>6. CASE e.kind # "create"
    <3>1. A \subseteq B  BY <2>3, <2>6
    <3>2. Cardinality(A) <= Cardinality(B)  BY <2>1, <3>1, FS_Subset
    <3> QED  BY <2>1, <2>4, <2>6, <3>2 DEF A, B
  <2> QED  BY <2>5, <2>6
<1> QED  BY <1>3, <1>4, <1>5

\* A segment of the timer ends by the earliest reminder to come.
LEMMA ArmIs ==
    ASSUME NEW o \in Owners, NEW life, LogOK(log, now, life), now \in 0..MaxTime,
           NEW p, p = Arm(o)
    PROVE  /\ p \in Owners
           /\ p.state = o.state /\ p.queue = o.queue /\ p.phase = o.phase /\ p.pending = o.pending
           /\ p.run = o.run /\ p.requested = o.requested
           /\ p.idleWait = o.idleWait /\ p.faulted = o.faulted /\ p.stalled = o.stalled
           /\ (\A r \in Active(log) : r.at > now) =>
                 \A r \in Active(log) : p.timer # NoTimer /\ p.timer <= r.at
<1> DEFINE targets == {r.at : r \in {x \in Active(log) : x.at > now}}
           x == IF Min(targets) - now < MaxDelay THEN Min(targets) ELSE now + MaxDelay
<1>0. /\ now \in Nat /\ now <= MaxTime /\ MaxTime \in Nat /\ MaxDelay \in Nat \ {0}
      /\ Active(log) \in SUBSET Records
  BY ParametersAssumption, LogHasFold
<1>1. targets \in SUBSET Nat /\ \A y \in targets : y > now
  BY <1>0 DEF Records
<1>2. p = IF targets = {} THEN o ELSE [o EXCEPT !.timer = x]
  BY DEF Arm
<1>3. \A r \in Active(log) : r.at > now => r.at \in targets  OBVIOUS
<1> HIDE DEF targets
<1>4. CASE targets = {}
  <2>1. p = o  BY <1>2, <1>4
  <2> QED  BY <1>3, <1>4, <2>1
<1>5. CASE targets # {}
  <2>1. Min(targets) \in targets /\ \A y \in targets : Min(targets) <= y  BY <1>1, <1>5, MinIs
  <2>2. Min(targets) \in Nat /\ Min(targets) > now  BY <1>1, <2>1
  <2>3. x \in 1..(MaxTime + MaxDelay) /\ x <= Min(targets)  BY <1>0, <2>2
  <2>4. p = [o EXCEPT !.timer = x]  BY <1>2, <1>5
  <2> HIDE DEF x
  <2>5. /\ p \in Owners /\ p.timer = x
        /\ p.state = o.state /\ p.queue = o.queue /\ p.phase = o.phase /\ p.pending = o.pending
        /\ p.run = o.run /\ p.requested = o.requested
        /\ p.idleWait = o.idleWait /\ p.faulted = o.faulted /\ p.stalled = o.stalled
    BY <2>3, <2>4, TimerIs
  <2>6. ASSUME \A r \in Active(log) : r.at > now, NEW r \in Active(log)
        PROVE  p.timer # NoTimer /\ p.timer <= r.at
    <3>1. r.at \in targets /\ r.at \in Nat  BY <1>0, <1>3, <2>6 DEF Records
    <3>2. Min(targets) <= r.at  BY <2>1, <3>1
    <3> QED  BY <1>0, <2>2, <2>3, <2>5, <3>1, <3>2 DEF NoTimer
  <2> QED  BY <2>5, <2>6
<1> QED  BY <1>4, <1>5

\* A change of the reminder is among the first n entries.
Happened(s, id, op, n) == \E i \in 1..n : s[i].op = op /\ s[i].id = id

\* What the transaction at its barrier has recorded and not reported.
PendingOK(o, s) ==
    \A id \in o.pending :
        /\ o.queue # << >> /\ o.phase = "barrier" /\ id \in 1..MaxCreates
        /\ Happened(s, id, IF Head(o.queue).kind = "create" THEN "create" ELSE "delete", Len(s))

\* What was reported is among the first n entries.
ToldOK(t, s, n) ==
    /\ t \in [created : SUBSET (1..MaxCreates), deleted : SUBSET (1..MaxCreates)]
    /\ \A id \in t.created : Happened(s, id, "create", n)
    /\ \A id \in t.deleted : Happened(s, id, "delete", n)

\* Every id ever given, and every one that is still asked for, took a call.
Bounded(o, s, calls) == Cardinality(Fold(s).seen) + Cardinality(Creates(o)) <= calls

\* Nothing under way means that the timer is there.
Fits(o, s) ==
    (Works(o) /\ ~o.run /\ ~o.idleWait /\ ~o.stalled) =>
        \A r \in Active(s) : o.timer # NoTimer /\ o.timer <= r.at

Agents == [pc : {"idle", "turn", "maintenance"}, cancelled : BOOLEAN]
Usages == [creates : 0..MaxCreates, manages : Nat, turns : Nat, disturbances : Nat, lives : Nat]

\* The owner may deliver, or may after it resumed.
Lives(o) == Works(o) \/ o.state = "down"

\* The inductive invariant.  The log it speaks of is every log a crash may leave;
\* an owner that may still deliver has no message of this life without its
\* dispatches, which is what a faulted owner may have and a new life need not
\* care about; and ids are bounded by the calls that asked for them.
IInv ==
    /\ durable \in 0..Len(log) /\ now \in 0..MaxTime /\ agent \in Agents /\ used \in Usages
    /\ LogOK(log, now, used.lives)
    /\ Lives(owner) => Settled(log, used.lives)
    /\ Fine(owner) /\ Faultless(owner)
    /\ PendingOK(owner, log) /\ ToldOK(told, log, durable)
    /\ Bounded(owner, log, used.creates) /\ Fits(owner, log)

\* The ids ever given are an initial segment of the numbers.
LEMMA SeenIs ==
    ASSUME NEW s, NEW t, NEW life, LogOK(s, t, life)
    PROVE  \E k \in Nat : /\ Fold(s).seen = 1..k /\ Cardinality(Fold(s).seen) = k
                          /\ \A r \in Active(s) : r.id \in 1..k
<1>1. Well(Fold(s)) /\ Active(s) = Fold(s).active  BY LogHasFold
<1>2. PICK k \in Nat : Fold(s).seen = 1..k  BY <1>1 DEF Well
<1>3. Cardinality(1..k) = k  BY FS_Interval
<1>4. \A r \in Active(s) : r.id \in 1..k  BY <1>1, <1>2 DEF Well
<1> QED  BY <1>2, <1>3, <1>4

\* A log that only grew tells what it told.
LEMMA ToldGrows ==
    ASSUME NEW t, NEW s, NEW n, n \in 0..Len(s), Len(s) \in Nat, ToldOK(t, s, n),
           NEW u, NEW m \in Nat, n <= m, \A i \in 1..n : u[i] = s[i]
    PROVE  ToldOK(t, u, m)
<1>1. \A i \in 1..n : i \in 1..m  OBVIOUS
<1>2. \A id, op : Happened(s, id, op, n) => Happened(u, id, op, m)  BY <1>1 DEF Happened
<1> QED  BY <1>2 DEF ToldOK

\* A step of the owner with the log as it is.
LEMMA OwnerTells ==
    ASSUME IInv, log' = log, now' = now, durable' \in 0..Len(log), ToldOK(told', log, durable'),
           agent' \in Agents, used' \in Usages, used'.lives = used.lives,
           Fine(owner'), Faultless(owner'), Lives(owner') => Lives(owner),
           \/ owner'.pending = {}
           \/ /\ owner'.pending = owner.pending /\ owner'.phase = owner.phase
              /\ SameHead(owner, owner'),
           Cardinality(Creates(owner')) + used.creates
             <= Cardinality(Creates(owner)) + used'.creates,
           Fits(owner', log)
    PROVE  IInv'
<1>2. LogOK(log', now', used'.lives)  BY DEF IInv
<1>3. Lives(owner') => Settled(log', used'.lives)  BY DEF IInv
<1>4. PendingOK(owner', log')  BY DEF IInv, PendingOK, SameHead
<1>6. Bounded(owner', log', used'.creates)
  <2>1. Cardinality(Creates(owner)) \in Nat /\ Cardinality(Creates(owner')) \in Nat
    BY CreatesFinite DEF IInv, Fine
  <2>2. Cardinality(Fold(log).seen) \in Nat  BY SeenIs DEF IInv
  <2>3. used.creates \in Nat /\ used'.creates \in Nat  BY ParametersAssumption DEF IInv, Usages
  <2> DEFINE a == Cardinality(Creates(owner))
             b == Cardinality(Creates(owner'))
             c == Cardinality(Fold(log).seen)
  <2>4. c + a <= used.creates  BY DEF IInv, Bounded
  <2> HIDE DEF a, b, c
  <2>5. c + b <= used'.creates  BY <2>1, <2>2, <2>3, <2>4 DEF a, b, c
  <2> QED  BY <2>5 DEF Bounded, b, c
<1>7. now' \in 0..MaxTime /\ durable' \in 0..Len(log') /\ ToldOK(told', log', durable')
  BY DEF IInv
<1> QED  BY <1>2, <1>3, <1>4, <1>6, <1>7 DEF IInv

\* The same when nothing is reported.
LEMMA OwnerMoves ==
    ASSUME IInv, log' = log, now' = now, told' = told, durable' \in {durable, Len(log)},
           agent' \in Agents, used' \in Usages, used'.lives = used.lives,
           Fine(owner'), Faultless(owner'), Lives(owner') => Lives(owner),
           \/ owner'.pending = {}
           \/ /\ owner'.pending = owner.pending /\ owner'.phase = owner.phase
              /\ SameHead(owner, owner'),
           Cardinality(Creates(owner')) + used.creates
             <= Cardinality(Creates(owner)) + used'.creates,
           Fits(owner', log)
    PROVE  IInv'
<1>1. Len(log) \in Nat /\ durable \in 0..Len(log) /\ durable' \in 0..Len(log) /\ durable <= durable'
  BY DEF IInv, LogOK
<1>2. ToldOK(told', log, durable')
  <2>1. ToldOK(told, log, durable')  BY <1>1, ToldGrows DEF IInv
  <2> QED  BY <2>1
<1> QED  BY <1>1, <1>2, OwnerTells

\* A step that appends to the log, after a flush of all of it.
LEMMA LogMoves ==
    ASSUME IInv, now' = now, told' = told, durable' = Len(log),
           Len(log') \in Nat, Len(log) <= Len(log'), \A i \in 1..Len(log) : log'[i] = log[i],
           agent' \in Agents, used' \in Usages, used'.lives = used.lives,
           LogOK(log', now, used.lives), Lives(owner') => Settled(log', used.lives),
           Fine(owner'), Faultless(owner'), PendingOK(owner', log'),
           Bounded(owner', log', used'.creates), Fits(owner', log')
    PROVE  IInv'
<1>1. Len(log) \in Nat /\ durable \in 0..Len(log) /\ durable' \in 0..Len(log') /\ durable <= durable'
      /\ durable' \in Nat /\ \A i \in 1..durable : log'[i] = log[i]
  BY DEF IInv, LogOK
<1>2. ToldOK(told', log', durable')
  <2>1. ToldOK(told, log', durable')  BY <1>1, ToldGrows DEF IInv
  <2> QED  BY <2>1
<1> QED  BY <1>1, <1>2 DEF IInv

\* The owner's fields that a step must leave alone to keep a timer that fits.
LEMMA FitsStays ==
    ASSUME NEW o, NEW p, NEW s, Fits(o, s), Works(p) => Works(o), p.run = o.run,
           p.idleWait = o.idleWait, p.stalled = o.stalled, p.timer = o.timer
    PROVE  Fits(p, s)
BY DEF Fits

\* What the invariant says of the parts, in the form that most steps need.
LEMMA Basics ==
    ASSUME IInv
    PROVE  /\ owner \in Owners /\ owner.queue \in Seq(Entries) /\ SoleDrive(owner.queue)
           /\ (owner.run <=> HasDrive(owner.queue)) /\ owner.run \in BOOLEAN
           /\ Quiet(owner) /\ Fine(owner) /\ Faultless(owner) /\ Fits(owner, log)
           /\ log \in Seq(Facts) /\ Len(log) \in Nat /\ agent \in Agents /\ used \in Usages
           /\ Cardinality(Creates(owner)) \in Nat /\ used.creates \in Nat /\ used.lives \in Nat
           /\ now \in Nat
           /\ owner.phase # "barrier" => owner.pending = {}
<1>1. owner \in Owners /\ owner.run \in BOOLEAN  BY DEF IInv, Fine, Owners
<1>2. Cardinality(Creates(owner)) \in Nat  BY <1>1, CreatesFinite
<1>3. log \in Seq(Facts) /\ Len(log) \in Nat  BY DEF IInv, LogOK
<1>4. used.creates \in Nat /\ used.lives \in Nat  BY ParametersAssumption DEF IInv, Usages
<1>5. owner.phase # "barrier" => owner.pending = {}  BY DEF IInv, PendingOK
<1> QED  BY <1>1, <1>2, <1>3, <1>4, <1>5 DEF IInv, Fine, Sole, Owners

\* What the head of the queue says of the queue.
LEMMA HeadIs ==
    ASSUME IInv, owner.queue # << >>
    PROVE  /\ Len(owner.queue) \in Nat \ {0} /\ Head(owner.queue) = owner.queue[1]
           /\ Head(owner.queue) \in Entries
           /\ Head(owner.queue).kind = "drive" => owner.run /\ ~owner.faulted
<1>1. /\ Len(owner.queue) \in Nat \ {0} /\ Head(owner.queue) = owner.queue[1]
      /\ Head(owner.queue) \in Entries
  BY Basics, HeadTailProperties
<1>2. 1 \in 1..Len(owner.queue)  BY <1>1
<1> QED  BY <1>1, <1>2, Basics DEF HasDrive, Faultless

\* Using up a bound that counts neither creations nor lives.
LEMMA UsesIs ==
    ASSUME used \in Usages, NEW what \in {"manages", "turns", "disturbances"}, NEW max, Uses(what, max)
    PROVE  used' \in Usages /\ used'.lives = used.lives /\ used'.creates = used.creates
BY DEF Uses, Usages

\* No call came or went.
LEMMA SameCalls ==
    ASSUME IInv, NEW o, Creates(o) = Creates(owner), NEW u, u = used
    PROVE  Cardinality(Creates(o)) + used.creates <= Cardinality(Creates(owner)) + u.creates
<1> DEFINE a == Cardinality(Creates(owner))
           b == used.creates
<1>1. a \in Nat /\ b \in Nat  BY Basics
<1> HIDE DEF a, b
<1>2. a + b <= a + b  BY <1>1
<1> QED  BY <1>2 DEF a, b

\* The fields of an owner whose timer is cleared.
LEMMA NoTimerIs ==
    ASSUME NEW o \in Owners, NEW p, p = [o EXCEPT !.timer = NoTimer]
    PROVE  /\ p \in Owners /\ p.timer = NoTimer
           /\ p.state = o.state /\ p.queue = o.queue /\ p.phase = o.phase /\ p.pending = o.pending
           /\ p.run = o.run /\ p.requested = o.requested
           /\ p.idleWait = o.idleWait /\ p.faulted = o.faulted /\ p.stalled = o.stalled
BY DEF Owners

\* A drive that ends keeps the invariant if it leaves a reason to be woken.
LEMMA DriveEnds ==
    ASSUME IInv, owner.queue # << >>, Head(owner.queue).kind = "drive",
           NEW o \in Owners, o.queue = owner.queue, o.run = owner.run, Quiet(o),
           Lives(o) => Lives(owner), owner' = EndDrive(o),
           log' = log, now' = now, told' = told, durable' \in {durable, Len(log)},
           agent' = agent, used' \in Usages, used'.lives = used.lives, used'.creates = used.creates,
           \/ ~Works(o) \/ o.idleWait \/ o.stalled \/ o.requested
           \/ \A r \in Active(log) : o.timer # NoTimer /\ o.timer <= r.at
    PROVE  IInv'
<1> DEFINE p == owner'
<1>1. SoleDrive(o.queue) /\ o.run  BY Basics, HeadIs
<1>2. /\ Fine(p) /\ Faultless(p)
      /\ p.state = o.state /\ p.timer = o.timer /\ p.idleWait = o.idleWait
      /\ p.faulted = o.faulted /\ p.stalled = o.stalled
      /\ p.pending = {} /\ (Works(p) <=> Works(o)) /\ (o.requested /\ Works(o) => p.run)
      /\ Cardinality(Creates(p)) <= Cardinality(Creates(o))
  BY <1>1, EndDriveIs
<1>3. Creates(o) = Creates(owner)
  <2>1. owner.queue[1].kind = "drive" /\ Len(owner.queue) \in Nat  BY HeadIs
  <2>2. \A i \in 1..Len(owner.queue) : i = 1 \/ i > 1  BY <2>1
  <2> QED  BY <2>1, <2>2 DEF Creates
<1>4. Fits(p, log)  BY <1>2 DEF Fits
<1>5. Cardinality(Creates(p)) + used.creates <= Cardinality(Creates(owner)) + used'.creates
  <2>1. p \in Owners  BY <1>2 DEF Fine
  <2>2. Cardinality(Creates(p)) \in Nat  BY <2>1, CreatesFinite
  <2> DEFINE a == Cardinality(Creates(owner))
             b == Cardinality(Creates(p))
  <2>3. b <= a /\ a \in Nat /\ b \in Nat /\ used.creates \in Nat  BY <1>2, <1>3, <2>2, Basics
  <2> HIDE DEF a, b
  <2>4. b + used.creates <= a + used'.creates  BY <2>3
  <2> QED  BY <2>4 DEF a, b
<1>6. agent' \in Agents  BY Basics
<1>7. Lives(p) => Lives(owner)  BY <1>2 DEF Lives
<1> QED  BY <1>2, <1>4, <1>5, <1>6, <1>7, OwnerMoves

\* driveOnce starts: the timer goes, the run is still in progress.
LEMMA DriveStartsKeeps == IInv /\ DriveStarts => IInv'
<1> SUFFICES ASSUME IInv, DriveStarts  PROVE IInv'
  OBVIOUS
<1>1. /\ owner.queue # << >> /\ Head(owner.queue).kind = "drive" /\ owner.phase = "queued"
      /\ log' = log /\ durable' = durable /\ now' = now /\ agent' = agent /\ told' = told
      /\ used' = used
  BY DEF DriveStarts, At, IsKind
<1>2. CASE Up(owner)
  <2> DEFINE p == owner'
  <2>0. p = [owner EXCEPT !.timer = NoTimer, !.phase = "preflight", !.stalled = FALSE]
    BY <1>2 DEF DriveStarts
  <2>1. /\ p \in Owners /\ p.state = owner.state /\ p.queue = owner.queue /\ p.phase = "preflight"
        /\ p.pending = owner.pending /\ p.run = owner.run /\ p.timer = NoTimer
        /\ p.idleWait = owner.idleWait /\ p.faulted = owner.faulted
    BY <2>0, Basics DEF Owners
  <2>2. owner.pending = {} /\ owner.run  BY <1>1, Basics, HeadIs
  <2>3. Fine(p) /\ Faultless(p) /\ (Lives(p) => Lives(owner))
    BY <2>1, Basics DEF Fine, Sole, Quiet, Faultless, Works, Lives
  <2>4. Creates(p) = Creates(owner)  BY <1>1, <2>1 DEF Creates
  <2>5. Fits(p, log)  BY <2>1, <2>2 DEF Fits
  <2>6. Cardinality(Creates(p)) + used.creates <= Cardinality(Creates(owner)) + used'.creates
    BY <1>1, <2>4, SameCalls
  <2>7. /\ p.pending = {} /\ agent' \in Agents /\ used' \in Usages /\ used'.lives = used.lives
    BY <1>1, <2>1, <2>2, Basics
  <2> QED  BY <1>1, <2>3, <2>5, <2>6, <2>7, OwnerMoves
<1>3. CASE ~Up(owner)
  <2>1. PICK o : o = [owner EXCEPT !.timer = NoTimer]  OBVIOUS
  <2>2. /\ o \in Owners /\ o.timer = NoTimer /\ o.state = owner.state /\ o.queue = owner.queue
        /\ o.run = owner.run /\ o.idleWait = owner.idleWait
    BY <2>1, Basics, NoTimerIs
  <2>3. Quiet(o) /\ ~Works(o) /\ (Lives(o) => Lives(owner))
    BY <1>3, <2>2, Basics DEF Quiet, Works, Lives, Up
  <2>4. owner' = EndDrive(o)  BY <1>3, <2>1 DEF DriveStarts
  <2> QED  BY <1>1, <2>2, <2>3, <2>4, Basics, DriveEnds
<1> QED  BY <1>2, <1>3

\* A drive of a disposed runtime ends.
LEMMA DriveIsStoppedKeeps == IInv /\ DriveIsStopped => IInv'
<1> SUFFICES ASSUME IInv, DriveIsStopped  PROVE IInv'
  OBVIOUS
<1>1. /\ owner.queue # << >> /\ Head(owner.queue).kind = "drive" /\ ~Up(owner)
      /\ log' = log /\ durable' = Len(log) /\ now' = now /\ agent' = agent /\ told' = told
      /\ used' = used /\ owner' = EndDrive(owner)
  BY DEF DriveIsStopped, At, IsKind
<1>2. ~Works(owner)  BY <1>1 DEF Works, Up
<1> QED  BY <1>1, <1>2, Basics, DriveEnds

\* A drive that found nothing due leaves a timer no later than any reminder.
LEMMA DriveArmsKeeps == IInv /\ DriveArms => IInv'
<1> SUFFICES ASSUME IInv, DriveArms  PROVE IInv'
  OBVIOUS
<1>1. /\ owner.queue # << >> /\ Head(owner.queue).kind = "drive" /\ Up(owner) /\ Due(log, now) = {}
      /\ log' = log /\ durable' = Len(log) /\ now' = now /\ agent' = agent /\ told' = told
      /\ used' = used /\ owner' = EndDrive(Arm(owner))
  BY DEF DriveArms, At, IsKind
<1>2. PICK o : o = Arm(owner)  OBVIOUS
<1>3. /\ o \in Owners /\ o.state = owner.state /\ o.queue = owner.queue
      /\ o.run = owner.run /\ o.idleWait = owner.idleWait /\ o.faulted = owner.faulted
      /\ (\A r \in Active(log) : r.at > now) =>
            \A r \in Active(log) : o.timer # NoTimer /\ o.timer <= r.at
  BY <1>2, Basics, ArmIs DEF IInv
<1>4. \A r \in Active(log) : r.at > now  BY <1>1, Basics, DueIs DEF IInv
<1>5. Quiet(o) /\ (Lives(o) => Lives(owner))  BY <1>1, <1>3 DEF Quiet, Works, Lives, Up
<1>6. owner' = EndDrive(o)  BY <1>1, <1>2
<1> QED  BY <1>1, <1>3, <1>4, <1>5, <1>6, Basics, DriveEnds

\* A drive that found the agent busy leaves a wait for its idleness.
LEMMA DriveIsBusyKeeps == IInv /\ DriveIsBusy => IInv'
<1> SUFFICES ASSUME IInv, DriveIsBusy  PROVE IInv'
  OBVIOUS
<1>1. /\ owner.queue # << >> /\ Head(owner.queue).kind = "drive" /\ Up(owner)
      /\ log' = log /\ durable' = Len(log) /\ now' = now /\ agent' = agent /\ told' = told
      /\ used' = used /\ owner' = EndDrive([owner EXCEPT !.idleWait = TRUE])
  BY DEF DriveIsBusy, At, IsKind
<1>2. PICK o : o = [owner EXCEPT !.idleWait = TRUE]  OBVIOUS
<1>3. /\ o \in Owners /\ o.idleWait = TRUE /\ o.state = owner.state /\ o.queue = owner.queue
      /\ o.run = owner.run /\ o.faulted = owner.faulted
  BY <1>2, Basics, IdleWaitIs
<1>4. Quiet(o) /\ (Lives(o) => Lives(owner))  BY <1>1, <1>3 DEF Quiet, Works, Lives, Up
<1>5. owner' = EndDrive(o)  BY <1>1, <1>2
<1> QED  BY <1>1, <1>3, <1>4, <1>5, Basics, DriveEnds

\* The three ways of giving up.
LEMMA GiveUpKeeps ==
    ASSUME IInv, owner.queue # << >>, Head(owner.queue).kind = "drive", owner' = GiveUp(owner),
           log' = log, now' = now, told' = told, durable' \in {durable, Len(log)}, agent' = agent,
           Disturbs
    PROVE  IInv'
<1>1. used' \in Usages /\ used'.lives = used.lives /\ used'.creates = used.creates
  BY Basics, UsesIs DEF Disturbs
<1>2. PICK o : o = [owner EXCEPT !.stalled = TRUE]  OBVIOUS
<1>3. /\ o \in Owners /\ o.stalled = TRUE /\ o.state = owner.state /\ o.queue = owner.queue
      /\ o.run = owner.run /\ o.faulted = owner.faulted
      /\ o.timer = owner.timer /\ o.idleWait = owner.idleWait
  BY <1>2, Basics, StalledIs
<1>4. Quiet(o) /\ (Lives(o) => Lives(owner))  BY <1>3, Basics DEF Quiet, Works, Lives
<1>5. owner' = EndDrive(o)  BY <1>2 DEF GiveUp
<1> QED  BY <1>1, <1>3, <1>4, <1>5, Basics, DriveEnds

\* A drive that could not queue its message gives up.
LEMMA QueueingFailsKeeps == IInv /\ QueueingFails => IInv'
BY GiveUpKeeps DEF QueueingFails, At, IsKind

\* A drive whose flush failed gives up.
LEMMA DriveFlushFailsKeeps == IInv /\ DriveFlushFails => IInv'
BY GiveUpKeeps DEF DriveFlushFails, At, IsKind

\* A drive that delivered asks for the next one.
LEMMA DispatchIsDurableKeeps == IInv /\ DispatchIsDurable => IInv'
<1> SUFFICES ASSUME IInv, DispatchIsDurable  PROVE IInv'
  OBVIOUS
<1>1. /\ owner.queue # << >> /\ Head(owner.queue).kind = "drive"
      /\ log' = log /\ durable' = Len(log) /\ now' = now /\ agent' = agent /\ told' = told
      /\ used' = used /\ owner' = EndDrive(RequestDrive(owner))
  BY DEF DispatchIsDurable, At, IsKind
<1>2. owner.run = TRUE  BY <1>1, Basics, HeadIs
<1>3. PICK o : o = RequestDrive(owner)  OBVIOUS
<1>4. /\ Fine(o) /\ o.state = owner.state /\ o.faulted = owner.faulted
      /\ (owner.run => o.run) /\ (Works(o) <=> Works(owner))
  BY <1>3, Basics, RequestDriveIs
<1>5. o.queue = owner.queue /\ o.run = owner.run /\ (Works(o) => o.requested)
  <2>1. CASE ~Works(owner)
    <3>1. o = owner  BY <1>3, <2>1 DEF RequestDrive
    <3> QED  BY <2>1, <3>1
  <2>2. CASE Works(owner)
    <3>1. o = [owner EXCEPT !.timer = NoTimer, !.requested = TRUE]
      BY <1>2, <1>3, <2>2 DEF RequestDrive
    <3> QED  BY <3>1, Basics DEF Owners
  <2> QED  BY <2>1, <2>2
<1>6. o \in Owners /\ Quiet(o) /\ (Lives(o) => Lives(owner))  BY <1>4 DEF Fine, Lives
<1>7. owner' = EndDrive(o)  BY <1>1, <1>3
<1> QED  BY <1>1, <1>5, <1>6, <1>7, Basics, DriveEnds

\* A trigger from outside of the queue.
LEMMA RequestKeeps ==
    ASSUME IInv, NEW o \in Owners, o.queue = owner.queue, o.phase = owner.phase,
           o.pending = owner.pending, o.run = owner.run, o.state = owner.state,
           o.faulted = owner.faulted, Quiet(o), owner' = RequestDrive(o),
           log' = log, now' = now, told' = told, durable' = durable, agent' \in Agents, used' = used
    PROVE  IInv'
<1> DEFINE p == owner'
<1>1. Fine(o) /\ Faultless(o)  BY Basics DEF Fine, Sole, Faultless
<1>2. /\ Fine(p) /\ Faultless(p)
      /\ p.state = o.state /\ p.phase = o.phase /\ p.pending = o.pending
      /\ p.faulted = o.faulted
      /\ (Works(p) <=> Works(o)) /\ (Works(o) => p.run)
      /\ SameHead(o, p) /\ Creates(p) = Creates(o)
  BY <1>1, RequestDriveIs
<1>3. Fits(p, log)  BY <1>2 DEF Fits
<1>4. Creates(p) = Creates(owner)  BY <1>2 DEF Creates
<1>5. Cardinality(Creates(p)) + used.creates <= Cardinality(Creates(owner)) + used'.creates
  BY <1>4, SameCalls
<1>6. Lives(p) => Lives(owner)  BY <1>2 DEF Lives, Works
<1>7. SameHead(owner, p)  BY <1>2 DEF SameHead
<1>8. used' \in Usages /\ used'.lives = used.lives  BY Basics
<1> QED  BY <1>2, <1>3, <1>5, <1>6, <1>7, <1>8, OwnerMoves

\* The timer fires.
LEMMA TimerFiresKeeps == IInv /\ TimerFires => IInv'
<1> SUFFICES ASSUME IInv, TimerFires  PROVE IInv'
  OBVIOUS
<1>1. PICK o : o = [owner EXCEPT !.timer = NoTimer]  OBVIOUS
<1>2. /\ o \in Owners /\ o.timer = NoTimer
      /\ o.state = owner.state /\ o.queue = owner.queue /\ o.phase = owner.phase
      /\ o.pending = owner.pending /\ o.run = owner.run
      /\ o.idleWait = owner.idleWait /\ o.faulted = owner.faulted /\ o.stalled = owner.stalled
  BY <1>1, Basics, NoTimerIs
<1>3. owner' = RequestDrive(o) /\ UNCHANGED <<log, durable, now, agent, told, used>>
  BY <1>1 DEF TimerFires
<1>4. Quiet(o)  BY <1>2, Basics DEF Quiet
<1> QED  BY <1>2, <1>3, <1>4, Basics, RequestKeeps

\* The wait for idle ends.
LEMMA IdleWaitEndsKeeps == IInv /\ IdleWaitEnds => IInv'
<1> SUFFICES ASSUME IInv, IdleWaitEnds  PROVE IInv'
  OBVIOUS
<1>1. PICK o : o = [owner EXCEPT !.idleWait = FALSE]  OBVIOUS
<1>2. /\ o \in Owners /\ o.idleWait = FALSE
      /\ o.state = owner.state /\ o.queue = owner.queue /\ o.phase = owner.phase
      /\ o.pending = owner.pending /\ o.run = owner.run
      /\ o.timer = owner.timer /\ o.faulted = owner.faulted
  BY <1>1, Basics DEF Owners
<1>3. owner' = RequestDrive(o) /\ UNCHANGED <<log, durable, now, agent, told, used>>
  BY <1>1 DEF IdleWaitEnds
<1>4. Quiet(o)  BY <1>2, Basics DEF Quiet
<1> QED  BY <1>2, <1>3, <1>4, Basics, RequestKeeps

\* Steps that leave the queue and the log alone.
LEMMA OwnerRests ==
    ASSUME IInv, UNCHANGED <<log, durable, now, told>>, agent' \in Agents,
           used' \in Usages, used'.lives = used.lives, used'.creates = used.creates,
           owner' \in Owners, owner'.queue = owner.queue, owner'.phase = owner.phase,
           owner'.pending = owner.pending, owner'.run = owner.run, Quiet(owner'),
           owner'.faulted = owner.faulted, Lives(owner') => Lives(owner), Fits(owner', log)
    PROVE  IInv'
<1>1. Fine(owner') /\ Faultless(owner') /\ SameHead(owner, owner')
  BY Basics DEF Fine, Sole, Faultless, SameHead
<1>2. Creates(owner') = Creates(owner)  BY DEF Creates
<1>3. Cardinality(Creates(owner')) + used.creates <= Cardinality(Creates(owner)) + used'.creates
  <2>1. PICK u : u = used  OBVIOUS
  <2>2. Cardinality(Creates(owner')) + used.creates <= Cardinality(Creates(owner)) + u.creates
    BY <1>2, <2>1, SameCalls
  <2> QED  BY <2>1, <2>2
<1> QED  BY <1>1, <1>3, OwnerMoves

\* A disposal clears the timer and the wait.
LEMMA DisposeStartsKeeps == IInv /\ DisposeStarts => IInv'
<1> SUFFICES ASSUME IInv, DisposeStarts  PROVE IInv'
  OBVIOUS
<1>1. /\ owner' = [owner EXCEPT !.state = "stopping", !.requested = FALSE, !.timer = NoTimer,
                                !.idleWait = FALSE]
      /\ UNCHANGED <<log, durable, now, agent, told, used>>
  BY DEF DisposeStarts
<1>2. /\ owner' \in Owners /\ owner'.queue = owner.queue /\ owner'.phase = owner.phase
      /\ owner'.pending = owner.pending /\ owner'.run = owner.run
      /\ owner'.faulted = owner.faulted /\ owner'.state = "stopping"
      /\ owner'.timer = NoTimer /\ owner'.idleWait = FALSE
  BY <1>1, Basics DEF Owners
<1>3. Quiet(owner') /\ (Lives(owner') => Lives(owner)) /\ Fits(owner', log)
  BY <1>2 DEF Quiet, Lives, Works, Fits
<1> QED  BY <1>1, <1>2, <1>3, Basics, OwnerRests

\* A disposal ends with no run in progress.
LEMMA DisposeEndsKeeps == IInv /\ DisposeEnds => IInv'
<1> SUFFICES ASSUME IInv, DisposeEnds  PROVE IInv'
  OBVIOUS
<1>1. /\ owner' = [owner EXCEPT !.state = "stopped"] /\ owner.state = "stopping"
      /\ UNCHANGED <<log, durable, now, agent, told, used>>
  BY DEF DisposeEnds
<1>2. /\ owner' \in Owners /\ owner'.queue = owner.queue /\ owner'.phase = owner.phase
      /\ owner'.pending = owner.pending /\ owner'.run = owner.run
      /\ owner'.faulted = owner.faulted /\ owner'.state = "stopped"
      /\ owner'.timer = owner.timer /\ owner'.idleWait = owner.idleWait
  BY <1>1, Basics DEF Owners
<1>3. Quiet(owner') /\ (Lives(owner') => Lives(owner)) /\ Fits(owner', log)
  BY <1>1, <1>2, Basics DEF Quiet, Lives, Works, Fits
<1> QED  BY <1>1, <1>2, <1>3, Basics, OwnerRests

-----------------------------------------------------------------------------
(* The agent and the clock.                                                  *)

\* Steps of the agent alone.
LEMMA AgentKeeps ==
    ASSUME IInv, UNCHANGED <<log, durable, now, owner, told>>, agent' \in Agents,
           used' \in Usages, used'.lives = used.lives, used'.creates = used.creates
    PROVE  IInv'
BY Basics, OwnerRests

\* What a step makes of the agent.
LEMMA AgentsAre ==
    ASSUME agent \in Agents, NEW pc \in {"idle", "turn", "maintenance"}
    PROVE  /\ [agent EXCEPT !.pc = pc] \in Agents
           /\ [agent EXCEPT !.pc = pc, !.cancelled = FALSE] \in Agents
           /\ [agent EXCEPT !.cancelled = TRUE] \in Agents
BY DEF Agents

\* Turns and jobs of maintenance.
LEMMA TurnsKeep == IInv /\ (TurnStarts \/ TurnIsCancelled \/ MaintenanceStarts \/ MaintenanceEnds)
                     => IInv'
<1> SUFFICES ASSUME IInv, TurnStarts \/ TurnIsCancelled \/ MaintenanceStarts \/ MaintenanceEnds
             PROVE  IInv'
  OBVIOUS
<1>1. UNCHANGED <<log, durable, now, owner, told>> /\ agent' \in Agents
  BY Basics, AgentsAre DEF TurnStarts, TurnIsCancelled, MaintenanceStarts, MaintenanceEnds
<1>2. used' \in Usages /\ used'.lives = used.lives /\ used'.creates = used.creates
  <2>1. used' = used \/ Uses("turns", MaxTurns) \/ Uses("disturbances", MaxDisturbances)
    BY DEF TurnStarts, TurnIsCancelled, MaintenanceStarts, MaintenanceEnds, Disturbs
  <2> QED  BY <2>1, Basics, UsesIs
<1> QED  BY <1>1, <1>2, AgentKeeps

\* A turn ends and may ask for a drive.
LEMMA TurnEndsKeeps == IInv /\ TurnEnds => IInv'
<1> SUFFICES ASSUME IInv, TurnEnds  PROVE IInv'
  OBVIOUS
<1>1. /\ owner' = RequestDrive(owner) \/ owner' = owner
      /\ UNCHANGED <<log, durable, now, told, used>> /\ agent' \in Agents
  BY Basics, AgentsAre DEF TurnEnds
<1>2. CASE owner' = owner  BY <1>1, <1>2, Basics, AgentKeeps
<1>3. CASE owner' = RequestDrive(owner)  BY <1>1, <1>3, Basics, RequestKeeps
<1> QED  BY <1>1, <1>2, <1>3

\* Time passes: occurrences grow, and nothing else speaks of the clock.
LEMMA TickKeeps == IInv /\ Tick => IInv'
<1> SUFFICES ASSUME IInv, Tick  PROVE IInv'
  OBVIOUS
<1>1. /\ now' = now + 1 /\ now < MaxTime /\ UNCHANGED <<log, durable, agent, owner, told, used>>
  BY DEF Tick
<1>2. now' \in 0..MaxTime /\ now' \in Nat /\ now <= now'
  BY <1>1, Basics, ParametersAssumption
<1>3. LogOK(log, now', used.lives)  BY <1>2, Basics, LogLater DEF IInv
<1> QED  BY <1>1, <1>2, <1>3 DEF IInv

-----------------------------------------------------------------------------
(* The calls.                                                                *)

\* A call joins the queue; a creation is counted before it waits.
LEMMA CallKeeps ==
    ASSUME IInv, NEW e \in Entries, e.kind # "drive", Submits(e),
           UNCHANGED <<log, durable, now, agent, told>>, used' \in Usages, used'.lives = used.lives,
           used'.creates = used.creates + (IF e.kind = "create" THEN 1 ELSE 0)
    PROVE  IInv'
<1> DEFINE p == owner'
<1>1. p = [owner EXCEPT !.queue = Append(@, e)]  BY DEF Submits
<1>2. /\ Fine(p) /\ Faultless(p) /\ SameHead(owner, p)
      /\ p.state = owner.state /\ p.phase = owner.phase /\ p.pending = owner.pending
      /\ p.run = owner.run /\ p.timer = owner.timer
      /\ p.idleWait = owner.idleWait /\ p.faulted = owner.faulted /\ p.stalled = owner.stalled
      /\ Cardinality(Creates(p)) <= Cardinality(Creates(owner))
                                      + (IF e.kind = "create" THEN 1 ELSE 0)
  <2>1. Fine(owner) /\ Faultless(owner)  BY Basics
  <2> HIDE DEF p
  <2> QED  BY <1>1, <2>1, SubmitsIs
<1>3. Cardinality(Creates(p)) + used.creates <= Cardinality(Creates(owner)) + used'.creates
  <2>1. p \in Owners  BY <1>2 DEF Fine
  <2> DEFINE a == Cardinality(Creates(owner))
             b == Cardinality(Creates(p))
             c == IF e.kind = "create" THEN 1 ELSE 0
  <2>2. a \in Nat /\ b \in Nat /\ c \in Nat /\ used.creates \in Nat /\ b <= a + c
        /\ used'.creates = used.creates + c
    BY <1>2, <2>1, Basics, CreatesFinite
  <2> HIDE DEF a, b, c
  <2>3. b + used.creates <= a + used'.creates  BY <2>2
  <2> QED  BY <2>3 DEF a, b
<1>4. (Lives(p) => Lives(owner)) /\ Fits(p, log)
  <2>1. (Works(p) => Works(owner)) /\ (Lives(p) => Lives(owner))  BY <1>2 DEF Works, Lives
  <2> QED  BY <1>2, <2>1, Basics, FitsStays
<1>5. agent' \in Agents  BY Basics
<1> HIDE DEF p
<1> QED  BY <1>2, <1>3, <1>4, <1>5, OwnerMoves DEF p

\* schedule_create is called.
LEMMA CreateIsCalledKeeps == IInv /\ CreateIsCalled => IInv'
<1> SUFFICES ASSUME IInv, CreateIsCalled  PROVE IInv'
  OBVIOUS
<1>1. UNCHANGED <<log, durable, now, agent, told>> /\ Uses("creates", MaxCreates)
  BY DEF CreateIsCalled
<1>2. used' \in Usages /\ used'.lives = used.lives /\ used'.creates = used.creates + 1
  <2>1. used' = [used EXCEPT !.creates = used.creates + 1] /\ used.creates < MaxCreates
    BY <1>1 DEF Uses
  <2>2. used \in Usages /\ used.creates + 1 \in 0..MaxCreates
    BY <2>1, Basics, ParametersAssumption
  <2> QED  BY <2>1, <2>2 DEF Usages
<1>3. CASE \E delay \in Delays : Submits([kind |-> "create", rule |-> "after", wait |-> delay])
  <2>1. PICK delay \in Delays : Submits([kind |-> "create", rule |-> "after", wait |-> delay])
    BY <1>3
  <2>2. PICK e : e = [kind |-> "create", rule |-> "after", wait |-> delay]  OBVIOUS
  <2>3. delay \in Nat \ {0}  BY ParametersAssumption
  <2>4. e \in Entries /\ e.kind = "create" /\ Submits(e)  BY <2>1, <2>2, <2>3 DEF Entries, Rules
  <2> QED  BY <1>1, <1>2, <2>4, CallKeeps
<1>4. CASE Submits([kind |-> "create", rule |-> "every", wait |-> Interval])
  <2>2. PICK e : e = [kind |-> "create", rule |-> "every", wait |-> Interval]  OBVIOUS
  <2>3. Interval \in Nat \ {0}  BY ParametersAssumption
  <2>4. e \in Entries /\ e.kind = "create" /\ Submits(e)  BY <1>4, <2>2, <2>3 DEF Entries, Rules
  <2> QED  BY <1>1, <1>2, <2>4, CallKeeps
<1> QED  BY <1>3, <1>4 DEF CreateIsCalled

\* The other tools and the stop of an archive are called.
LEMMA ManagesAreCalledKeeps ==
    IInv /\ (DeleteIsCalled \/ ListIsCalled \/ StopIsCalled) => IInv'
<1> SUFFICES ASSUME IInv, DeleteIsCalled \/ ListIsCalled \/ StopIsCalled  PROVE IInv'
  OBVIOUS
<1>1. UNCHANGED <<log, durable, now, agent, told>> /\ Uses("manages", MaxManages)
  BY DEF DeleteIsCalled, ListIsCalled, StopIsCalled
<1>2. used' \in Usages /\ used'.lives = used.lives /\ used'.creates = used.creates + 0
  BY <1>1, Basics, UsesIs
<1>3. PICK e : e \in Entries /\ e.kind \notin {"drive", "create"} /\ Submits(e)
  <2>1. CASE DeleteIsCalled
    <3>1. PICK id \in 1..MaxCreates : Submits([kind |-> "delete", id |-> id])
      BY <2>1 DEF DeleteIsCalled
    <3>2. id \in Nat  BY ParametersAssumption
    <3>3. [kind |-> "delete", id |-> id] \in Entries  BY <3>2 DEF Entries
    <3> QED  BY <3>1, <3>3
  <2>2. CASE ListIsCalled
    <3>1. Submits([kind |-> "list"])  BY <2>2 DEF ListIsCalled
    <3>2. [kind |-> "list"] \in Entries  BY DEF Entries
    <3> QED  BY <3>1, <3>2
  <2>3. CASE StopIsCalled
    <3>1. Submits([kind |-> "stop"])  BY <2>3 DEF StopIsCalled
    <3>2. [kind |-> "stop"] \in Entries  BY DEF Entries
    <3> QED  BY <3>1, <3>2
  <2> QED  BY <2>1, <2>2, <2>3
<1> QED  BY <1>1, <1>2, <1>3, CallKeeps

\* A transaction other than a drive ends.
LEMMA LeavesFine ==
    ASSUME NEW o, Fine(o), Faultless(o), o.queue # << >>, Head(o.queue).kind # "drive",
           NEW p, p = Leaves(o)
    PROVE  /\ Fine(p) /\ Faultless(p) /\ p.pending = {} /\ p.run = o.run /\ p.timer = o.timer
           /\ p.state = o.state /\ p.idleWait = o.idleWait /\ p.faulted = o.faulted
           /\ p.stalled = o.stalled /\ Cardinality(Creates(p)) <= Cardinality(Creates(o))
<1>1. o \in Owners /\ SoleDrive(o.queue) /\ Quiet(o) /\ (o.run <=> HasDrive(o.queue))
  BY DEF Fine, Sole
<1>2. /\ p \in Owners /\ p.queue = Tail(o.queue) /\ p.phase = "queued" /\ p.pending = {}
      /\ p.state = o.state /\ p.run = o.run /\ p.requested = o.requested
      /\ p.timer = o.timer /\ p.idleWait = o.idleWait
      /\ p.faulted = o.faulted /\ p.stalled = o.stalled
      /\ (Works(p) <=> Works(o))
      /\ SoleDrive(p.queue)
      /\ (HasDrive(p.queue) <=> HasDrive(o.queue) /\ Head(o.queue).kind # "drive")
      /\ Cardinality(Creates(p)) <= Cardinality(Creates(o))
  BY <1>1, LeavesIs, Zenon
<1> QED  BY <1>1, <1>2 DEF Fine, Sole, Quiet, Faultless

\* A transaction of a tool leaves the queue with the log as it is.
LEMMA LeavesKeeps ==
    ASSUME IInv, owner.queue # << >>, Head(owner.queue).kind # "drive",
           owner' = Leaves(owner) \/ owner' = Leaves(RequestDrive(owner)),
           UNCHANGED <<log, now, agent>>, used' \in Usages, used'.lives = used.lives,
           used'.creates = used.creates,
           durable' \in 0..Len(log), ToldOK(told', log, durable')
    PROVE  IInv'
<1>1. PICK o : /\ o = owner \/ o = RequestDrive(owner)
               /\ owner' = Leaves(o)
  OBVIOUS
<1>2. /\ Fine(o) /\ Faultless(o) /\ SameHead(owner, o) /\ Creates(o) = Creates(owner)
      /\ o.state = owner.state /\ o.faulted = owner.faulted /\ Fits(o, log)
  <2>1. CASE o = owner  BY <2>1, Basics DEF SameHead
  <2>2. CASE o = RequestDrive(owner)
    <3>1. /\ Fine(o) /\ Faultless(o) /\ SameHead(owner, o) /\ Creates(o) = Creates(owner)
          /\ o.state = owner.state /\ o.faulted = owner.faulted
          /\ (Works(o) <=> Works(owner)) /\ (Works(owner) => o.run)
      BY <2>2, Basics, RequestDriveIs
    <3> QED  BY <3>1 DEF Fits
  <2> QED  BY <1>1, <2>1, <2>2
<1>3. o.queue # << >> /\ Head(o.queue).kind # "drive"  BY <1>2 DEF SameHead
<1> DEFINE p == owner'
<1>4. /\ Fine(p) /\ Faultless(p) /\ p.pending = {} /\ p.run = o.run /\ p.timer = o.timer
      /\ p.state = o.state /\ p.idleWait = o.idleWait /\ p.faulted = o.faulted
      /\ p.stalled = o.stalled /\ Cardinality(Creates(p)) <= Cardinality(Creates(o))
  BY <1>1, <1>2, <1>3, LeavesFine
<1>5. (Lives(p) => Lives(owner)) /\ Fits(p, log)
  <2>1. (Works(p) => Works(o)) /\ (Lives(p) => Lives(owner))  BY <1>2, <1>4 DEF Works, Lives
  <2> QED  BY <1>2, <1>4, <2>1, FitsStays
<1>6. Cardinality(Creates(p)) + used.creates <= Cardinality(Creates(owner)) + used'.creates
  <2>1. p \in Owners  BY <1>4 DEF Fine
  <2> DEFINE a == Cardinality(Creates(owner))
             b == Cardinality(Creates(p))
  <2>2. a \in Nat /\ b \in Nat /\ used.creates \in Nat /\ b <= a
    BY <1>2, <1>4, <2>1, Basics, CreatesFinite
  <2> HIDE DEF a, b
  <2>3. b + used.creates <= a + used'.creates  BY <2>2
  <2> QED  BY <2>3 DEF a, b
<1>7. agent' \in Agents  BY Basics
<1> HIDE DEF p
<1> QED  BY <1>4, <1>5, <1>6, <1>7, OwnerTells DEF p

\* A transaction of a tool starts, or returns cancelled.
LEMMA ManageStartsKeeps == IInv /\ ManageStarts => IInv'
<1> SUFFICES ASSUME IInv, ManageStarts  PROVE IInv'
  OBVIOUS
<1>1. /\ owner.queue # << >> /\ Head(owner.queue).kind # "drive" /\ owner.phase = "queued"
      /\ UNCHANGED <<log, durable, now, agent, told, used>>
      /\ owner' = Leaves(owner) \/ owner' = [owner EXCEPT !.phase = "preflight"]
  BY DEF ManageStarts, At, IsKind, Calls
<1>2. durable' \in 0..Len(log) /\ ToldOK(told', log, durable')
  BY <1>1 DEF IInv
<1>3. CASE owner' = Leaves(owner)
  BY <1>1, <1>2, <1>3, Basics, LeavesKeeps
<1>4. CASE owner' = [owner EXCEPT !.phase = "preflight"]
  <2> DEFINE p == owner'
  <2>1. /\ p \in Owners /\ p.phase = "preflight"
        /\ p.state = owner.state /\ p.queue = owner.queue /\ p.pending = owner.pending
        /\ p.run = owner.run /\ p.timer = owner.timer
        /\ p.idleWait = owner.idleWait /\ p.faulted = owner.faulted /\ p.stalled = owner.stalled
    BY <1>4, Basics DEF Owners
  <2>2. Fine(p) /\ Faultless(p) /\ (Lives(p) => Lives(owner)) /\ (Works(p) => Works(owner))
    BY <2>1, Basics DEF Fine, Sole, Quiet, Faultless, Works, Lives
  <2>3. Creates(p) = Creates(owner)  BY <1>1, <2>1 DEF Creates
  <2>4. Fits(p, log)  BY <2>1, <2>2, Basics, FitsStays
  <2>5. Cardinality(Creates(p)) + used.creates <= Cardinality(Creates(owner)) + used'.creates
    BY <1>1, <2>3, SameCalls
  <2>6. p.pending = {} /\ agent' \in Agents /\ used' \in Usages /\ used'.lives = used.lives
    BY <1>1, <2>1, Basics
  <2> HIDE DEF p
  <2> QED  BY <1>1, <2>2, <2>4, <2>5, <2>6, OwnerMoves DEF p
<1> QED  BY <1>1, <1>3, <1>4

\* schedule_list reads.
LEMMA ListKeeps == IInv /\ List => IInv'
<1> SUFFICES ASSUME IInv, List  PROVE IInv'
  OBVIOUS
<1>1. /\ owner.queue # << >> /\ Head(owner.queue).kind # "drive"
      /\ UNCHANGED <<log, now, agent, told, used>> /\ durable' = Len(log)
      /\ owner' = Leaves(RequestDrive(owner))
  BY DEF List, At, IsKind
<1>2. durable' \in 0..Len(log) /\ durable <= durable' /\ durable' \in Nat /\ durable \in 0..Len(log)
  BY <1>1, Basics DEF IInv
<1>3. ToldOK(told, log, durable')  BY <1>2, Basics, ToldGrows DEF IInv
<1>4. ToldOK(told', log, durable')  BY <1>1, <1>3
<1> QED  BY <1>1, <1>2, <1>4, Basics, LeavesKeeps

\* A flush of a tool fails and nothing is promised.
LEMMA ManageFlushFailsKeeps == IInv /\ ManageFlushFails => IInv'
<1> SUFFICES ASSUME IInv, ManageFlushFails  PROVE IInv'
  OBVIOUS
<1>1. /\ owner.queue # << >> /\ Head(owner.queue).kind # "drive"
      /\ UNCHANGED <<log, now, agent, told, durable>> /\ Uses("disturbances", MaxDisturbances)
      /\ owner' = Leaves(owner)
  BY DEF ManageFlushFails, At, IsKind, Calls, Disturbs
<1>2. durable' \in 0..Len(log) /\ ToldOK(told', log, durable')
  BY <1>1 DEF IInv
<1>3. used' \in Usages /\ used'.lives = used.lives /\ used'.creates = used.creates
  BY <1>1, Basics, UsesIs
<1> QED  BY <1>1, <1>2, <1>3, LeavesKeeps

\* The barrier of a change: what is told is in the log, which is now durable.
LEMMA ManageIsDurableKeeps == IInv /\ ManageIsDurable => IInv'
<1> SUFFICES ASSUME IInv, ManageIsDurable  PROVE IInv'
  OBVIOUS
<1>1. /\ owner.queue # << >> /\ Head(owner.queue).kind # "drive"
      /\ UNCHANGED <<log, now, agent, used>> /\ durable' = Len(log)
      /\ owner' = Leaves(owner) \/ owner' = Leaves(RequestDrive(owner))
      /\ told' = IF Head(owner.queue).kind = "create"
                 THEN [told EXCEPT !.created = @ \cup owner.pending]
                 ELSE [told EXCEPT !.deleted = @ \cup owner.pending]
  BY DEF ManageIsDurable, At, IsKind, Calls
<1>2. durable' \in 0..Len(log) /\ durable <= durable' /\ durable' \in Nat /\ durable \in 0..Len(log)
  BY <1>1, Basics DEF IInv
<1>3. ToldOK(told, log, durable')  BY <1>2, Basics, ToldGrows DEF IInv
<1>4. \A id \in owner.pending :
         /\ id \in 1..MaxCreates
         /\ Happened(log, id, IF Head(owner.queue).kind = "create" THEN "create" ELSE "delete", durable')
  BY <1>1 DEF IInv, PendingOK
<1>5. told \in [created : SUBSET (1..MaxCreates), deleted : SUBSET (1..MaxCreates)]
      /\ owner.pending \in SUBSET (1..MaxCreates)
  BY <1>4 DEF IInv, ToldOK
<1>6. ToldOK(told', log, durable')
  <2>1. CASE Head(owner.queue).kind = "create"
    <3>1. told' = [told EXCEPT !.created = @ \cup owner.pending]  BY <1>1, <2>1
    <3>2. /\ told' \in [created : SUBSET (1..MaxCreates), deleted : SUBSET (1..MaxCreates)]
          /\ told'.created = told.created \cup owner.pending /\ told'.deleted = told.deleted
      BY <1>5, <3>1
    <3>3. \A id \in owner.pending : Happened(log, id, "create", durable')  BY <1>4, <2>1
    <3> QED  BY <1>3, <3>2, <3>3 DEF ToldOK
  <2>2. CASE Head(owner.queue).kind # "create"
    <3>1. told' = [told EXCEPT !.deleted = @ \cup owner.pending]  BY <1>1, <2>2
    <3>2. /\ told' \in [created : SUBSET (1..MaxCreates), deleted : SUBSET (1..MaxCreates)]
          /\ told'.deleted = told.deleted \cup owner.pending /\ told'.created = told.created
      BY <1>5, <3>1
    <3>3. \A id \in owner.pending : Happened(log, id, "delete", durable')  BY <1>4, <2>2
    <3> QED  BY <1>3, <3>2, <3>3 DEF ToldOK
  <2> QED  BY <2>1, <2>2
<1> QED  BY <1>1, <1>2, <1>6, Basics, LeavesKeeps

-----------------------------------------------------------------------------
(* The process.                                                              *)

\* The runtime of a new process.
LEMMA NewOwnerIs ==
    /\ Fine(NewOwner) /\ Faultless(NewOwner) /\ NewOwner.state = "up" /\ NewOwner.pending = {}
    /\ NewOwner.queue = << >> /\ Creates(NewOwner) = {} /\ Works(NewOwner)
<1>1. << >> \in Seq(Entries) /\ Len(<< >>) = 0  OBVIOUS
<1>2. NewOwner \in Owners  BY <1>1 DEF NewOwner, Owners
<1>3. /\ NewOwner.queue = << >> /\ NewOwner.run = FALSE /\ NewOwner.faulted = FALSE
      /\ NewOwner.state = "up" /\ NewOwner.pending = {}
  BY DEF NewOwner
<1>4. ~HasDrive(<< >>) /\ SoleDrive(<< >>)  BY <1>1 DEF HasDrive, SoleDrive
<1>5. Creates(NewOwner) = {}  BY <1>1, <1>3 DEF Creates
<1> QED  BY <1>2, <1>3, <1>4, <1>5 DEF Fine, Sole, Quiet, Faultless, Works

\* No call, number zero.
LEMMA NoCreates ==
    ASSUME NEW o \in Owners, Creates(o) = {}
    PROVE  Cardinality(Creates(o)) = 0
BY FS_EmptySet

\* The session is resumed.
LEMMA ResumeKeeps == IInv /\ Resume => IInv'
<1> SUFFICES ASSUME IInv, Resume  PROVE IInv'
  OBVIOUS
<1>1. /\ owner.state = "down" /\ owner' = RequestDrive(NewOwner)
      /\ UNCHANGED <<log, durable, now, agent, told, used>>
  BY DEF Resume
<1> DEFINE p == owner'
<1>2. /\ Fine(p) /\ Faultless(p) /\ p.pending = NewOwner.pending
      /\ (Works(p) <=> Works(NewOwner)) /\ (Works(NewOwner) => p.run)
      /\ Creates(p) = Creates(NewOwner)
  BY <1>1, NewOwnerIs, RequestDriveIs
<1>3. Fits(p, log)  BY <1>2, NewOwnerIs DEF Fits
<1>4. Lives(owner)  BY <1>1 DEF Lives
<1>5. Cardinality(Creates(p)) = 0  BY <1>2, NewOwnerIs, NoCreates DEF Fine
<1>6. Cardinality(Creates(p)) + used.creates <= Cardinality(Creates(owner)) + used'.creates
  <2> DEFINE a == Cardinality(Creates(owner))
             b == Cardinality(Creates(p))
  <2>1. b = 0 /\ a \in Nat /\ used.creates \in Nat /\ used'.creates = used.creates
    BY <1>1, <1>5, Basics
  <2> HIDE DEF a, b
  <2>2. b + used.creates <= a + used'.creates  BY <2>1
  <2> QED  BY <2>2 DEF a, b
<1>7. p.pending = {} /\ agent' \in Agents /\ used' \in Usages /\ used'.lives = used.lives
  BY <1>1, <1>2, NewOwnerIs, Basics
<1> HIDE DEF p
<1> QED  BY <1>1, <1>2, <1>3, <1>4, <1>6, <1>7, OwnerMoves DEF p

\* An id once seen stays seen.
LEMMA ApplySeen ==
    ASSUME NEW f, f \in Folds, NEW e, e \in Facts
    PROVE  f.seen \subseteq Apply(f, e).seen
<1> DEFINE others == {r \in f.active : r.id # e.id}
           advanced == {[r EXCEPT !.at = Occurrence(r, e.time) + Interval] :
                          r \in {x \in f.active : x.id = e.id /\ x.kind = "every"}}
           refused == CASE e.op = "create" -> e.id \in f.seen
                        [] e.op \in {"delete", "dispatch"} -> others = f.active
                        [] OTHER -> FALSE
           checked == [f EXCEPT !.corrupt = @ \/ refused]
<1>1. checked.active = f.active /\ checked.seen = f.seen
      /\ checked \in [active : {f.active}, seen : {f.seen}, corrupt : {checked.corrupt}]
  BY DEF Folds
<1> HIDE DEF checked
<1>2. CASE e.op = "create"
  <2>1. Apply(f, e) = [checked EXCEPT !.active = @ \cup {e.record}, !.seen = @ \cup {e.id}]
    BY <1>2 DEF Apply, checked
  <2> QED  BY <1>1, <2>1
<1>3. CASE e.op = "delete"
  <2>1. Apply(f, e) = [checked EXCEPT !.active = others]  BY <1>3 DEF Apply, checked
  <2> QED  BY <1>1, <2>1
<1>4. CASE e.op = "dispatch"
  <2>1. Apply(f, e) = [checked EXCEPT !.active = others \cup advanced]
    BY <1>4 DEF Apply, checked
  <2> HIDE DEF others, advanced
  <2> QED  BY <1>1, <2>1
<1>5. CASE e.op = "message"
  BY <1>5, ApplyMessage
<1> QED  BY <1>2, <1>3, <1>4, <1>5 DEF Facts

\* A prefix has given no more ids than the log.
LEMMA SeenGrows ==
    ASSUME NEW s, NEW t, NEW life, LogOK(s, t, life), NEW n \in 0..Len(s)
    PROVE  Replay(s)[n].seen \subseteq Fold(s).seen
<1> DEFINE P == {k \in Nat : n + k <= Len(s) => Replay(s)[n].seen \subseteq Replay(s)[n + k].seen}
<1>0. s \in Seq(Facts) /\ Len(s) \in Nat /\ n \in Nat /\ WellFolded(s)  BY DEF LogOK
<1>1. 0 \in P
  <2>1. n + 0 = n  BY <1>0
  <2> QED  BY <2>1
<1>2. ASSUME NEW k \in P  PROVE k + 1 \in P
  <2> SUFFICES ASSUME n + (k + 1) <= Len(s)
               PROVE  Replay(s)[n].seen \subseteq Replay(s)[n + (k + 1)].seen
    OBVIOUS
  <2>1. /\ n + k \in 0..Len(s) /\ n + (k + 1) \in 1..Len(s) /\ (n + (k + 1)) - 1 = n + k
        /\ n + k <= Len(s)
    BY <1>0
  <2>2. Replay(s)[n].seen \subseteq Replay(s)[n + k].seen  BY <2>1
  <2> DEFINE j == n + (k + 1)
             i == n + k
  <2>3. j \in 1..Len(s) /\ j - 1 = i /\ i \in 0..Len(s)  BY <2>1
  <2> HIDE DEF i, j
  <2>4. Replay(s)[j] = Apply(Replay(s)[j - 1], s[j])  BY <1>0, <2>3, ReplayIs
  <2>5. Replay(s)[i] \in Folds /\ s[j] \in Facts  BY <1>0, <2>3 DEF WellFolded, Well
  <2>6. Replay(s)[i].seen \subseteq Replay(s)[j].seen  BY <2>3, <2>4, <2>5, ApplySeen
  <2> QED  BY <2>2, <2>6 DEF i, j
<1>3. Nat \subseteq P  BY <1>1, <1>2, ByInduction
<1>4. PICK k \in Nat : n + k = Len(s)
  <2>1. Len(s) - n \in Nat /\ n + (Len(s) - n) = Len(s)  BY <1>0
  <2> QED  BY <2>1
<1>5. k \in P /\ n + k <= Len(s)  BY <1>0, <1>3, <1>4
<1>6. Replay(s)[n].seen \subseteq Replay(s)[n + k].seen  BY <1>5
<1> QED  BY <1>4, <1>6 DEF Fold

\* A crash keeps a prefix that covers what was told; whatever it cut off is of a
\* life that is over.
LEMMA CrashKeeps == IInv /\ Crash => IInv'
<1> SUFFICES ASSUME IInv, Crash  PROVE IInv'
  OBVIOUS
<1>1. PICK n \in durable..Len(log) : log' = SubSeq(log, 1, n) /\ durable' = n
  BY DEF Crash
<1>2. /\ used' = [used EXCEPT !.disturbances = @ + 1, !.lives = @ + 1]
      /\ owner' = [NewOwner EXCEPT !.state = "down"]
      /\ agent' = [pc |-> "idle", cancelled |-> FALSE] /\ UNCHANGED <<now, told>>
  BY DEF Crash
<1>3. durable \in 0..Len(log) /\ n \in 0..Len(log) /\ n \in Nat /\ durable <= n
  BY <1>1, Basics DEF IInv
<1>4. /\ used' \in Usages /\ used'.lives = used.lives + 1 /\ used'.creates = used.creates
  <2> DEFINE v == [used EXCEPT !.disturbances = used.disturbances + 1]
  <2>1. used \in Usages /\ used.disturbances + 1 \in Nat /\ used.lives + 1 \in Nat
    BY Basics DEF Usages
  <2>2. v \in Usages /\ v.lives = used.lives /\ v.creates = used.creates  BY <2>1 DEF Usages
  <2>3. used' = [v EXCEPT !.lives = used.lives + 1]  BY <1>2, <2>1 DEF Usages
  <2> HIDE DEF v
  <2> QED  BY <2>1, <2>2, <2>3 DEF Usages
<1> DEFINE u == log'
<1>5. /\ Len(u) = n /\ u \in Seq(Facts) /\ \A i \in 1..n : u[i] = log[i]
      /\ Fold(u) = Replay(log)[n]
  <2>1. log \in Seq(Facts)  BY Basics
  <2> QED  BY <1>1, <1>3, <2>1, SubSeqProperties, ReplayPrefix
<1>6. LogOK(u, now, used.lives)  BY <1>1, <1>3, LogCut DEF IInv
<1>7. LogOK(u, now, used.lives + 1) /\ Settled(u, used.lives + 1)
  <2>1. used.lives + 1 \in Nat /\ used.lives <= used.lives + 1 /\ now <= now  BY Basics
  <2> QED  BY <1>6, <2>1, Basics, LogLater, NewLife
<1>8. ToldOK(told, u, n)
  <2>1. \A i \in 1..durable : u[i] = log[i]  BY <1>3, <1>5
  <2> QED  BY <1>3, <2>1, Basics, ToldGrows DEF IInv
<1> DEFINE p == owner'
<1>9. /\ p \in Owners /\ p.state = "down" /\ p.queue = NewOwner.queue /\ p.phase = NewOwner.phase
      /\ p.pending = NewOwner.pending /\ p.run = NewOwner.run /\ p.faulted = NewOwner.faulted
      /\ NewOwner \in Owners
  <2>1. NewOwner \in Owners  BY NewOwnerIs DEF Fine
  <2> QED  BY <1>2, <2>1 DEF Owners
<1>10. Fine(p) /\ Faultless(p) /\ ~Works(p)
  BY <1>9, NewOwnerIs DEF Fine, Sole, Quiet, Faultless, Works
<1>11. PendingOK(p, u) /\ Fits(p, u)
  BY <1>9, <1>10, NewOwnerIs DEF PendingOK, Fits
<1>12. Bounded(p, u, used.creates)
  <2>1. Creates(p) = {}  BY <1>9, NewOwnerIs DEF Creates
  <2>2. Cardinality(Creates(p)) = 0  BY <1>9, <2>1, NoCreates
  <2>3. Fold(u).seen \subseteq Fold(log).seen  BY <1>3, <1>5, SeenGrows DEF IInv
  <2> DEFINE a == Cardinality(Fold(log).seen)
             b == Cardinality(Fold(u).seen)
             c == Cardinality(Creates(owner))
  <2>4. PICK k \in Nat : Fold(log).seen = 1..k /\ a = k  BY SeenIs DEF IInv
  <2>10. IsFiniteSet(1..k)  BY FS_Interval
  <2>5. IsFiniteSet(Fold(log).seen)  BY <2>4, <2>10
  <2>6. IsFiniteSet(Fold(u).seen) /\ b <= a  BY <2>3, <2>5, FS_Subset
  <2>7. b \in Nat /\ a \in Nat /\ c \in Nat /\ used.creates \in Nat
    BY <2>4, <2>6, FS_CardinalityType, Basics
  <2>8. a + c <= used.creates  BY DEF IInv, Bounded
  <2> HIDE DEF a, b, c
  <2>9. b + 0 <= used.creates  BY <2>6, <2>7, <2>8
  <2> QED  BY <2>2, <2>9 DEF Bounded, b
<1>13. agent' \in Agents /\ now' \in 0..MaxTime  BY <1>2 DEF Agents, IInv
<1>14. durable' \in 0..Len(u) /\ ToldOK(told', u, durable')  BY <1>1, <1>2, <1>3, <1>5, <1>8
<1>15. LogOK(u, now', used'.lives) /\ Settled(u, used'.lives) /\ Bounded(p, u, used'.creates)
  BY <1>2, <1>4, <1>7, <1>12
<1> HIDE DEF u, p
<1> QED  BY <1>4, <1>10, <1>11, <1>13, <1>14, <1>15 DEF IInv, u, p

\* What is dispatched stays dispatched, and a message is needed for more.
LEMMA SettledGrows ==
    ASSUME NEW s, NEW life, Settled(s, life), Len(s) \in Nat, NEW u, Len(u) \in Nat,
           Len(s) <= Len(u), \A i \in 1..Len(s) : u[i] = s[i],
           \A i \in (Len(s) + 1)..Len(u) : u[i].op # "message"
    PROVE  Settled(u, life)
<1> SUFFICES ASSUME NEW i \in 1..Len(u), u[i].op = "message", u[i].life = life, NEW d \in u[i].due
             PROVE  Dispatched(u, d[1], i, Len(u))
  BY DEF Settled
<1>1. i \in 1..Len(s)  OBVIOUS
<1>2. Dispatched(s, d[1], i, Len(s))  BY <1>1 DEF Settled
<1>3. PICK k \in i..Len(s) : s[k].op = "dispatch" /\ s[k].id = d[1]  BY <1>2 DEF Dispatched
<1>4. k \in i..Len(u) /\ u[k] = s[k]  BY <1>1, <1>3
<1> QED  BY <1>3, <1>4 DEF Dispatched

\* A change is recorded and its barrier to come.
Mark(o, ids) == [o EXCEPT !.phase = "barrier", !.pending = ids]

\* The head transaction moves on to its barrier with what it recorded.
LEMMA MarkIs ==
    ASSUME NEW o, Fine(o), Faultless(o), NEW ids \in SUBSET Nat,
           NEW p, p = Mark(o, ids)
    PROVE  /\ Fine(p) /\ Faultless(p) /\ p.phase = "barrier" /\ p.pending = ids
           /\ p.state = o.state /\ p.queue = o.queue /\ p.run = o.run /\ p.timer = o.timer
           /\ p.idleWait = o.idleWait /\ p.faulted = o.faulted /\ p.stalled = o.stalled
<1>1. o \in Owners  BY DEF Fine
<1>2. /\ p \in Owners /\ p.phase = "barrier" /\ p.pending = ids
      /\ p.state = o.state /\ p.queue = o.queue /\ p.run = o.run /\ p.timer = o.timer
      /\ p.idleWait = o.idleWait /\ p.faulted = o.faulted /\ p.stalled = o.stalled
  BY <1>1 DEF Owners, Mark
<1> QED  BY <1>2 DEF Fine, Sole, Quiet, Faultless

\* A tool or a stop that recorded its change: what is the same for all of them.
LEMMA RecordedIs ==
    ASSUME IInv, owner.queue # << >>, Head(owner.queue).kind # "drive", owner.phase = "preflight",
           NEW ids \in SUBSET Nat,
           owner' = [RequestDrive(owner) EXCEPT !.phase = "barrier", !.pending = ids],
           NEW u, Len(u) \in Nat, Len(log) <= Len(u), \A i \in 1..Len(log) : u[i] = log[i],
           \A i \in (Len(log) + 1)..Len(u) : u[i].op # "message"
    PROVE  /\ Fine(owner') /\ Faultless(owner') /\ Fits(owner', u)
           /\ owner'.pending = ids /\ owner'.phase = "barrier"
           /\ owner'.queue # << >> /\ Head(owner'.queue) = Head(owner.queue)
           /\ Lives(owner') => Settled(u, used.lives)
           /\ Creates(owner') = Creates(owner) \ {1}
<1>1. PICK o : o = RequestDrive(owner)  OBVIOUS
<1>2. /\ Fine(o) /\ Faultless(o) /\ o.state = owner.state /\ o.phase = owner.phase
      /\ o.faulted = owner.faulted
      /\ (Works(o) <=> Works(owner)) /\ (Works(owner) => o.run)
      /\ SameHead(owner, o) /\ Creates(o) = Creates(owner)
  BY <1>1, Basics, RequestDriveIs
<1> DEFINE p == owner'
<1>3. p = Mark(o, ids)  BY <1>1 DEF Mark
<1>4. /\ Fine(p) /\ Faultless(p) /\ p.phase = "barrier" /\ p.pending = ids
      /\ p.state = o.state /\ p.queue = o.queue /\ p.run = o.run /\ p.timer = o.timer
      /\ p.idleWait = o.idleWait /\ p.faulted = o.faulted /\ p.stalled = o.stalled
  <2>1. Fine(o) /\ Faultless(o)  BY <1>2
  <2> HIDE DEF p
  <2> QED  BY <1>3, <2>1, MarkIs
<1>5. Works(p) => p.run  BY <1>2, <1>4 DEF Works
<1>6. Fits(p, u)  BY <1>5 DEF Fits
<1>7. Lives(p) => Settled(u, used.lives)
  <2>1. Lives(p) => Lives(owner)  BY <1>2, <1>4 DEF Lives, Works
  <2>2. Lives(owner) => Settled(log, used.lives)  BY DEF IInv
  <2> QED  BY <2>1, <2>2, Basics, SettledGrows
<1>8. Creates(p) = Creates(owner) \ {1}
  <2>1. o \in Owners /\ Len(o.queue) \in Nat  BY <1>2 DEF Fine, Owners
  <2>2. Creates(p) = Creates(o) \ {1}  BY <1>2, <1>4, <2>1 DEF Creates
  <2> QED  BY <1>2, <2>2
<1> QED  BY <1>2, <1>4, <1>6, <1>7, <1>8 DEF SameHead

\* A creation is recorded.
LEMMA CreateKept == IInv /\ Create => IInv'
<1> SUFFICES ASSUME IInv, Create  PROVE IInv'
  OBVIOUS
<1>1. /\ owner.queue # << >> /\ Head(owner.queue).kind = "create" /\ owner.phase = "preflight"
      /\ UNCHANGED <<now, agent, told, used>> /\ durable' = Len(log)
  BY DEF Create, At, IsKind
<1>2. durable' \in 0..Len(log) /\ durable <= durable' /\ durable' \in Nat /\ durable \in 0..Len(log)
  BY <1>1, Basics DEF IInv
<1>3. CASE agent.cancelled
  <2>1. log' = log /\ owner' = Leaves(RequestDrive(owner))  BY <1>3 DEF Create
  <2>2. ToldOK(told, log, durable')  BY <1>2, Basics, ToldGrows DEF IInv
  <2>3. ToldOK(told', log, durable')  BY <1>1, <2>2
  <2> QED  BY <1>1, <1>2, <2>1, <2>3, Basics, LeavesKeeps
<1>4. CASE ~agent.cancelled
  <2> DEFINE call == Head(owner.queue)
             k == Cardinality(Fold(log).seen)
  <2>1. PICK r : r = [id |-> FreshId(log), kind |-> call.rule, at |-> now + call.wait]  OBVIOUS
  <2>2. PICK e : e = [op |-> "create", id |-> r.id, record |-> r]  OBVIOUS
  <2>3. log' = Append(log, e) /\ owner' = [RequestDrive(owner) EXCEPT !.phase = "barrier",
                                                                      !.pending = {r.id}]
    BY <1>4, <2>1, <2>2 DEF Create
  <2>4. call \in Entries /\ call.rule \in Rules /\ call.wait \in Nat \ {0}
    BY <1>1, HeadIs DEF Entries
  <2>5. k \in Nat /\ IsFiniteSet(Fold(log).seen)
    <3>1. PICK n \in Nat : Fold(log).seen = 1..n /\ k = n  BY SeenIs DEF IInv
    <3>2. IsFiniteSet(1..n)  BY FS_Interval
    <3> QED  BY <3>1, <3>2
  <2>6. r.id = k + 1 /\ r \in Records
    <3>1. FreshId(log) = k + 1  BY DEF FreshId
    <3> HIDE DEF k, call
    <3>2. now + call.wait \in Nat /\ k + 1 \in Nat \ {0}  BY <2>4, <2>5, Basics
    <3> QED  BY <2>1, <2>4, <3>1, <3>2 DEF Records
  <2>7. e \in Facts /\ e.op = "create" /\ e.id = r.id /\ e.record = r
    BY <2>2, <2>6 DEF Facts, Records
  <2> HIDE DEF call
  <2> DEFINE u == log'
  <2>8. /\ LogOK(u, now, used.lives)
        /\ Fold(u).seen = Fold(log).seen \cup {r.id} /\ r.id \notin Fold(log).seen
    BY <2>3, <2>6, <2>7, Basics, CreateKeeps DEF IInv, k
  <2>9. /\ Len(u) = Len(log) + 1 /\ Len(u) \in Nat /\ Len(log) <= Len(u)
        /\ \A i \in 1..Len(log) : u[i] = log[i]
        /\ u[Len(log) + 1] = e
    BY <2>3, <2>7, Basics
  <2> HIDE DEF u
  <2>10. \A i \in (Len(log) + 1)..Len(u) : u[i].op # "message"
    <3>1. \A i \in (Len(log) + 1)..Len(u) : i = Len(log) + 1  BY <2>9, Basics
    <3> QED  BY <2>7, <2>9, <3>1
  <2> DEFINE p == owner'
             ids == {r.id}
  <2>11. ids \in SUBSET Nat  BY <2>6 DEF Records
  <2>12. /\ Fine(p) /\ Faultless(p) /\ Fits(p, u)
         /\ p.pending = ids /\ p.phase = "barrier"
         /\ p.queue # << >> /\ Head(p.queue) = Head(owner.queue)
         /\ Lives(p) => Settled(u, used.lives)
         /\ Creates(p) = Creates(owner) \ {1}
    BY <1>1, <2>3, <2>9, <2>10, <2>11, RecordedIs
  <2>13. Bounded(p, u, used'.creates) /\ k + 1 <= used.creates
    <3>1. 1 \in Creates(owner)
      <4>1. 1 \in 1..Len(owner.queue) /\ owner.queue[1].kind = "create"  BY <1>1, HeadIs
      <4> QED  BY <1>1, <4>1 DEF Creates
    <3>2. IsFiniteSet(Creates(owner))  BY Basics, CreatesFinite
    <3>3. Cardinality(Creates(p)) = Cardinality(Creates(owner)) - 1
      BY <2>12, <3>1, <3>2, FS_RemoveElement
    <3>4. Cardinality(Fold(u).seen) = k + 1
      <4>1. Cardinality(Fold(log).seen \cup {r.id}) = k + 1  BY <2>5, <2>8, FS_AddElement
      <4> QED  BY <2>8, <4>1
    <3>5. k + Cardinality(Creates(owner)) <= used.creates  BY DEF IInv, Bounded
    <3>6. p \in Owners  BY <2>12 DEF Fine
    <3>7. used'.creates = used.creates  BY <1>1
    <3> DEFINE a == Cardinality(Creates(owner))
               b == Cardinality(Creates(p))
    <3>8. a \in Nat /\ b \in Nat /\ used.creates \in Nat /\ k \in Nat /\ b = a - 1
          /\ k + a <= used.creates
      BY <2>5, <3>3, <3>5, <3>6, Basics, CreatesFinite
    <3> HIDE DEF a, b, k
    <3>9. (k + 1) + b <= used.creates /\ k + 1 <= used.creates  BY <3>8
    <3> QED  BY <3>4, <3>7, <3>9 DEF Bounded, b
  <2> HIDE DEF k
  <2>14. PendingOK(p, u)
    <3>1. r.id \in 1..MaxCreates
      <4>1. used.creates \in 0..MaxCreates  BY Basics DEF Usages
      <4> QED  BY <2>5, <2>6, <2>13, <4>1, ParametersAssumption
    <3>2. Happened(u, r.id, "create", Len(u))
      <4>1. Len(log) + 1 \in 1..Len(u)  BY <2>9, Basics
      <4> QED  BY <2>7, <2>9, <4>1 DEF Happened
    <3> QED  BY <1>1, <2>12, <3>1, <3>2 DEF PendingOK
  <2>15. agent' \in Agents /\ used' \in Usages /\ used'.lives = used.lives  BY <1>1, Basics
  <2> HIDE DEF p
  <2> QED  BY <1>1, <2>8, <2>9, <2>12, <2>13, <2>14, <2>15, LogMoves DEF p, u
<1> QED  BY <1>3, <1>4

\* Deletions are recorded, by a tool or a stop.
LEMMA DeletedKeeps ==
    ASSUME IInv, owner.queue # << >>, Head(owner.queue).kind \notin {"drive", "create"},
           owner.phase = "preflight",
           NEW ids, \A id \in ids : \E r \in Active(log) : r.id = id,
           owner' = [RequestDrive(owner) EXCEPT !.phase = "barrier", !.pending = ids],
           UNCHANGED <<now, agent, told, used>>, durable' = Len(log),
           Len(log') \in Nat, Len(log) <= Len(log'), \A i \in 1..Len(log) : log'[i] = log[i],
           \A i \in (Len(log) + 1)..Len(log') : log'[i].op = "delete",
           \A id \in ids : Happened(log', id, "delete", Len(log')),
           LogOK(log', now, used.lives), Fold(log').seen = Fold(log).seen
    PROVE  IInv'
<1> DEFINE p == owner'
           u == log'
<1>1. PICK k \in Nat : /\ Fold(log).seen = 1..k /\ Cardinality(Fold(log).seen) = k
                       /\ \A r \in Active(log) : r.id \in 1..k
  BY SeenIs DEF IInv
<1>2. ids \in SUBSET Nat /\ \A id \in ids : id \in 1..k  BY <1>1
<1>3. \A i \in (Len(log) + 1)..Len(u) : u[i].op # "message"  OBVIOUS
<1>4. /\ Fine(p) /\ Faultless(p) /\ Fits(p, u)
      /\ p.pending = ids /\ p.phase = "barrier"
      /\ p.queue # << >> /\ Head(p.queue) = Head(owner.queue)
      /\ Lives(p) => Settled(u, used.lives)
      /\ Creates(p) = Creates(owner) \ {1}
  BY <1>2, <1>3, RecordedIs
<1> DEFINE a == Cardinality(Creates(owner))
           b == Cardinality(Creates(p))
<1>5. b <= a /\ a \in Nat /\ b \in Nat
  <2>1. p \in Owners  BY <1>4 DEF Fine
  <2>2. owner \in Owners  BY Basics
  <2>3. Creates(p) \subseteq Creates(owner)  BY <1>4
  <2> QED  BY <2>1, <2>2, <2>3, CreatesFinite, CreatesLess
<1>6. k + a <= used.creates  BY <1>1 DEF IInv, Bounded
<1> HIDE DEF a, b
<1>7. k + b <= used.creates /\ k <= used.creates  BY <1>5, <1>6, Basics
<1>8. Bounded(p, u, used'.creates)  BY <1>1, <1>7 DEF Bounded, b
<1>9. \A id \in ids : id \in 1..MaxCreates
  <2>1. used.creates \in 0..MaxCreates /\ MaxCreates \in Nat
    BY Basics, ParametersAssumption DEF Usages
  <2>2. k <= MaxCreates  BY <1>7, <2>1, Basics
  <2> QED  BY <1>2, <2>1, <2>2
<1>10. PendingOK(p, u)  BY <1>4, <1>9 DEF PendingOK
<1>11. agent' \in Agents /\ used' \in Usages /\ used'.lives = used.lives  BY Basics
<1> HIDE DEF p, u
<1> QED  BY <1>4, <1>8, <1>10, <1>11, LogMoves DEF p, u

\* A deletion is recorded, or its id is not active.
LEMMA DeleteKept == IInv /\ Delete => IInv'
<1> SUFFICES ASSUME IInv, Delete  PROVE IInv'
  OBVIOUS
<1>1. /\ owner.queue # << >> /\ Head(owner.queue).kind = "delete" /\ owner.phase = "preflight"
      /\ UNCHANGED <<now, agent, told, used>> /\ durable' = Len(log)
  BY DEF Delete, At, IsKind
<1>2. durable' \in 0..Len(log) /\ durable <= durable' /\ durable' \in Nat /\ durable \in 0..Len(log)
  BY <1>1, Basics DEF IInv
<1> DEFINE id == Head(owner.queue).id
<1>3. CASE agent.cancelled \/ ~IsActive(log, id)
  <2>1. log' = log /\ owner' = Leaves(RequestDrive(owner))  BY <1>3 DEF Delete
  <2>2. ToldOK(told, log, durable')  BY <1>2, Basics, ToldGrows DEF IInv
  <2>3. ToldOK(told', log, durable')  BY <1>1, <2>2
  <2> QED  BY <1>1, <1>2, <2>1, <2>3, Basics, LeavesKeeps
<1>4. CASE ~(agent.cancelled \/ ~IsActive(log, id))
  <2>1. PICK r \in Active(log) : r.id = id  BY <1>4 DEF IsActive
  <2>2. PICK e : e = [op |-> "delete", id |-> id]  OBVIOUS
  <2>3. /\ log' = Append(log, e)
        /\ owner' = [RequestDrive(owner) EXCEPT !.phase = "barrier", !.pending = {id}]
    BY <1>4, <2>2 DEF Delete
  <2>4. id \in Nat  BY <2>1, LogHasFold DEF IInv, Records
  <2>5. e \in Facts /\ e.op = "delete" /\ e.id = r.id  BY <2>1, <2>2, <2>4 DEF Facts
  <2> DEFINE u == log'
  <2>6. LogOK(u, now, used.lives) /\ Fold(u).seen = Fold(log).seen
    BY <2>3, <2>5, Basics, DeleteKeeps DEF IInv
  <2>7. /\ Len(u) = Len(log) + 1 /\ Len(u) \in Nat /\ Len(log) <= Len(u)
        /\ \A i \in 1..Len(log) : u[i] = log[i]
        /\ u[Len(log) + 1] = e
    BY <2>3, <2>5, Basics
  <2> HIDE DEF u, id
  <2>8. \A i \in (Len(log) + 1)..Len(u) : u[i].op = "delete"
    <3>1. \A i \in (Len(log) + 1)..Len(u) : i = Len(log) + 1  BY <2>7, Basics
    <3> QED  BY <2>5, <2>7, <3>1
  <2>9. Happened(u, id, "delete", Len(u))
    <3>1. Len(log) + 1 \in 1..Len(u)  BY <2>7, Basics
    <3> QED  BY <2>1, <2>5, <2>7, <3>1 DEF Happened
  <2> DEFINE ids == {id}
  <2>10. (\A i \in ids : \E q \in Active(log) : q.id = i)
         /\ \A i \in ids : Happened(u, i, "delete", Len(u))
    BY <2>1, <2>9
  <2>11. owner' = [RequestDrive(owner) EXCEPT !.phase = "barrier", !.pending = ids]  BY <2>3
  <2> HIDE DEF ids
  <2> QED  BY <1>1, <2>6, <2>7, <2>8, <2>10, <2>11, DeletedKeeps DEF u
<1> QED  BY <1>3, <1>4

\* The stop of an archive deletes everything that is active.
LEMMA StopKept == IInv /\ Stop => IInv'
<1> SUFFICES ASSUME IInv, Stop  PROVE IInv'
  OBVIOUS
<1> DEFINE order == InOrder(Active(log), ById)
           ds == Deletes(order)
           ids == {r.id : r \in Active(log)}
<1>1. /\ owner.queue # << >> /\ Head(owner.queue).kind = "stop" /\ owner.phase = "preflight"
      /\ UNCHANGED <<now, agent, told, used>> /\ durable' = Len(log)
  BY DEF Stop, At, IsKind
<1>2. durable' \in 0..Len(log) /\ durable <= durable' /\ durable' \in Nat /\ durable \in 0..Len(log)
  BY <1>1, Basics DEF IInv
<1>3. CASE ~Works(owner) \/ order = << >>
  <2>1. log' = log /\ owner' = Leaves(owner)  BY <1>3 DEF Stop
  <2>2. ToldOK(told, log, durable')  BY <1>2, Basics, ToldGrows DEF IInv
  <2>3. ToldOK(told', log, durable')  BY <1>1, <2>2
  <2> QED  BY <1>1, <1>2, <2>1, <2>3, Basics, LeavesKeeps
<1>4. CASE ~(~Works(owner) \/ order = << >>)
  <2>1. /\ log' = log \o ds
        /\ owner' = [RequestDrive(owner) EXCEPT !.phase = "barrier", !.pending = ids]
    BY <1>4 DEF Stop, Deletes
  <2>2. LogOK(log, now, used.lives) /\ now \in Nat /\ used.lives \in Nat  BY Basics DEF IInv
  <2>3. Lists(order, Active(log))  BY <2>2, LogHasFold, ByIdLists
  <2> HIDE DEF order
  <2>4. LET u == log \o ds
        IN  /\ ds \in Seq(Facts) /\ Len(u) = Len(log) + Len(ds)
            /\ LogOK(u, now, used.lives) /\ Fold(u).seen = Fold(log).seen
            /\ \A i \in 1..Len(log) : u[i] = log[i]
            /\ \A i \in (Len(log) + 1)..Len(u) : u[i].op = "delete"
            /\ \A r \in Active(log) : \E i \in 1..Len(u) : u[i].op = "delete" /\ u[i].id = r.id
    BY <2>2, <2>3, StopKeeps
  <2> HIDE DEF ds
  <2> DEFINE u == log'
  <2>5. /\ ds \in Seq(Facts) /\ Len(u) = Len(log) + Len(ds)
        /\ LogOK(u, now, used.lives) /\ Fold(u).seen = Fold(log).seen
        /\ \A i \in 1..Len(log) : u[i] = log[i]
        /\ \A i \in (Len(log) + 1)..Len(u) : u[i].op = "delete"
        /\ \A r \in Active(log) : \E i \in 1..Len(u) : u[i].op = "delete" /\ u[i].id = r.id
    BY <2>1, <2>4
  <2> HIDE DEF u
  <2>6. Len(u) \in Nat /\ Len(log) <= Len(u)
    <3>1. Len(ds) \in Nat  BY <2>5
    <3> QED  BY <2>5, <3>1, Basics
  <2>7. (\A i \in ids : \E q \in Active(log) : q.id = i)
        /\ \A i \in ids : Happened(u, i, "delete", Len(u))
    BY <2>5 DEF Happened
  <2> HIDE DEF ids
  <2> QED  BY <1>1, <2>1, <2>5, <2>6, <2>7, DeletedKeeps DEF u
<1> QED  BY <1>3, <1>4

\* What a delivery appends, whole or up to an append that fails.
LEMMA Delivered ==
    ASSUME IInv, Works(owner), NEW due, due = Due(log, now), NEW m \in 0..Cardinality(due),
           NEW u, u = Part(Append(log, Reminder(due)), Dispatches(due), m)
    PROVE  /\ Len(u) \in Nat /\ Len(log) <= Len(u) /\ \A i \in 1..Len(log) : u[i] = log[i]
           /\ LogOK(u, now, used.lives) /\ Fold(u).seen = Fold(log).seen
           /\ m = Cardinality(due) => /\ Settled(u, used.lives)
                                      /\ u = Append(log, Reminder(due)) \o Dispatches(due)
<1>1. LogOK(log, now, used.lives) /\ Settled(log, used.lives) /\ now \in Nat /\ used.lives \in Nat
  BY Basics DEF IInv, Lives
<1>2. /\ due \in SUBSET Active(log) /\ IsFiniteSet(due) /\ \A r \in due : r.at <= now
  BY <1>1, DueIs
<1>3. Active(log) \in SUBSET Records /\ Distinct(Active(log))  BY <1>1, LogHasFold
<1>4. due \in SUBSET Records /\ Distinct(due)  BY <1>2, <1>3 DEF Distinct
<1>5. PICK order : order = InOrder(due, Earlier) /\ Lists(order, due)
  BY <1>2, <1>4, EarlierLists
<1>6. PICK ds : ds = DispatchesOf(order, now) /\ ds = Dispatches(due)
  BY <1>5, DispatchesIs
<1>7. PICK e : e = Reminder(due)  OBVIOUS
<1>8. e = MessageOf(due, now, used.lives)  BY <1>7 DEF Reminder, MessageOf
<1>9. u = Part(Append(log, e), ds, m)  BY <1>6, <1>7
<1>11. /\ ds \in Seq(Facts) /\ Len(ds) = Cardinality(due)
       /\ Append(log, e) \in Seq(Facts)
       /\ Len(u) = Len(log) + 1 + m
       /\ LogOK(u, now, used.lives) /\ Fold(u).seen = Fold(log).seen
       /\ \A i \in 1..Len(log) : u[i] = log[i]
       /\ m = Cardinality(due) => Settled(u, used.lives)
  <2>1. due \in SUBSET Overdue(log, now)  BY <1>2 DEF Overdue
  <2>2. IsBatch(log, now, used.lives, due, e, order, ds)
    BY <1>1, <1>5, <1>6, <1>8, <2>1 DEF IsBatch
  <2>3. Delivers(log, now, used.lives, due, e, ds, u, m)  BY <1>9, <2>2, DeliverKeeps
  <2> QED  BY <2>3 DEF IsDelivery, Delivers
<1>12. m \in Nat /\ Cardinality(due) \in Nat  BY <1>2, FS_CardinalityType
<1>13. Len(u) \in Nat /\ Len(log) <= Len(u)  BY <1>11, <1>12, Basics
<1>14. ASSUME m = Cardinality(due)  PROVE u = Append(log, Reminder(due)) \o Dispatches(due)
  <2>1. m = Len(ds)  BY <1>11, <1>14
  <2>2. Part(Append(log, e), ds, Len(ds)) = Append(log, e) \o ds  BY <1>11, PartEnds
  <2> QED  BY <1>6, <1>7, <1>9, <2>1, <2>2
<1> QED  BY <1>11, <1>13, <1>14

\* The calls that wait do not change while ids do not.
LEMMA BoundedStays ==
    ASSUME IInv, NEW o, Creates(o) = Creates(owner), NEW p \in Owners,
           Cardinality(Creates(p)) <= Cardinality(Creates(o)),
           NEW u, Fold(u).seen = Fold(log).seen
    PROVE  Bounded(p, u, used.creates)
<1> DEFINE a == Cardinality(Creates(owner))
           b == Cardinality(Creates(p))
           k == Cardinality(Fold(log).seen)
<1>1. a \in Nat /\ b \in Nat /\ b <= a  BY Basics, CreatesFinite
<1>2. k \in Nat  BY SeenIs DEF IInv
<1>3. k + a <= used.creates  BY DEF IInv, Bounded
<1> HIDE DEF a, b, k
<1>4. k + b <= used.creates  BY <1>1, <1>2, <1>3, Basics
<1> QED  BY <1>4 DEF Bounded, b, k

\* A drive at the head has no part in the calls that wait.
LEMMA DriveCreates ==
    ASSUME IInv, owner.queue # << >>, Head(owner.queue).kind = "drive",
           NEW o, o.queue = owner.queue
    PROVE  Creates(o) = Creates(owner)
<1>1. owner.queue[1].kind = "drive" /\ Len(owner.queue) \in Nat  BY HeadIs
<1>2. \A i \in 1..Len(owner.queue) : i = 1 \/ i > 1  BY <1>1
<1> QED  BY <1>1, <1>2 DEF Creates

\* A drive delivers what is due.
LEMMA DriveDeliversKeeps == IInv /\ DriveDelivers => IInv'
<1> SUFFICES ASSUME IInv, DriveDelivers  PROVE IInv'
  OBVIOUS
<1>1. PICK due : due = Due(log, now)  OBVIOUS
<1>2. /\ owner.queue # << >> /\ Head(owner.queue).kind = "drive" /\ owner.phase = "preflight"
      /\ Up(owner) /\ durable' = Len(log)
      /\ log' = Append(log, Reminder(due)) \o Dispatches(due)
      /\ agent' = [agent EXCEPT !.pc = "turn", !.cancelled = FALSE]
      /\ owner' = [owner EXCEPT !.phase = "barrier"]
      /\ UNCHANGED <<now, told, used>>
  BY <1>1 DEF DriveDelivers, At, IsKind
<1>3. Works(owner) /\ owner.run  BY <1>2, HeadIs DEF Works, Up
<1>4. Cardinality(due) \in 0..Cardinality(due) /\ Cardinality(due) \in Nat
  <2>1. IsFiniteSet(due)  BY <1>1, Basics, DueIs DEF IInv
  <2>2. Cardinality(due) \in Nat  BY <2>1, FS_CardinalityType
  <2> QED  BY <2>2
<1>5. PICK u : u = Part(Append(log, Reminder(due)), Dispatches(due), Cardinality(due))  OBVIOUS
<1>6. /\ Len(u) \in Nat /\ Len(log) <= Len(u) /\ \A i \in 1..Len(log) : u[i] = log[i]
      /\ LogOK(u, now, used.lives) /\ Fold(u).seen = Fold(log).seen
      /\ Settled(u, used.lives)
      /\ u = Append(log, Reminder(due)) \o Dispatches(due)
  BY <1>1, <1>3, <1>4, <1>5, Delivered
<1>7. log' = u  BY <1>2, <1>6
<1> DEFINE p == owner'
<1>8. /\ p \in Owners /\ p.phase = "barrier"
      /\ p.state = owner.state /\ p.queue = owner.queue /\ p.pending = owner.pending
      /\ p.run = owner.run /\ p.timer = owner.timer
      /\ p.idleWait = owner.idleWait /\ p.faulted = owner.faulted /\ p.stalled = owner.stalled
  BY <1>2, Basics DEF Owners
<1>9. Fine(p) /\ Faultless(p)  BY <1>8, Basics DEF Fine, Sole, Quiet, Faultless
<1>10. Fits(p, u)  BY <1>3, <1>8 DEF Fits
<1>11. PendingOK(p, u)  BY <1>2, <1>8, Basics DEF PendingOK
<1>12. Creates(p) = Creates(owner)  BY <1>2, <1>8, DriveCreates
<1>13. Bounded(p, u, used.creates)
  <2>1. Cardinality(Creates(p)) <= Cardinality(Creates(p))
    <3>1. Cardinality(Creates(p)) \in Nat  BY <1>8, CreatesFinite
    <3> QED  BY <3>1
  <2> QED  BY <1>6, <1>8, <1>12, <2>1, BoundedStays
<1>14. agent' \in Agents /\ used' \in Usages /\ used'.lives = used.lives
  BY <1>2, Basics, AgentsAre
<1>15. Bounded(p, log', used'.creates)  BY <1>2, <1>7, <1>13
<1> HIDE DEF p
<1> QED  BY <1>2, <1>6, <1>7, <1>9, <1>10, <1>11, <1>14, <1>15, LogMoves DEF p

\* A drive fails among its dispatches: the owner is faulted and decides nothing more.
LEMMA DispatchFailsKeeps == IInv /\ DispatchFails => IInv'
<1> SUFFICES ASSUME IInv, DispatchFails  PROVE IInv'
  OBVIOUS
<1>1. PICK due : due = Due(log, now)  OBVIOUS
<1>2. PICK m \in 0..(Cardinality(due) - 1) :
             log' = Append(log, Reminder(due)) \o SubSeq(Dispatches(due), 1, m)
  BY <1>1 DEF DispatchFails
<1>3. /\ owner.queue # << >> /\ Head(owner.queue).kind = "drive" /\ owner.phase = "preflight"
      /\ Up(owner) /\ durable' = Len(log) /\ Uses("disturbances", MaxDisturbances)
      /\ agent' = [agent EXCEPT !.pc = "turn", !.cancelled = FALSE]
      /\ owner' = EndDrive([owner EXCEPT !.faulted = TRUE, !.timer = NoTimer])
      /\ UNCHANGED <<now, told>>
  BY DEF DispatchFails, At, IsKind, Disturbs
<1>4. Works(owner) /\ owner.run  BY <1>3, HeadIs DEF Works, Up
<1>5. m \in 0..Cardinality(due)
  <2>1. IsFiniteSet(due)  BY <1>1, Basics, DueIs DEF IInv
  <2>2. Cardinality(due) \in Nat  BY <2>1, FS_CardinalityType
  <2> QED  BY <1>2, <2>2
<1>6. PICK u : u = Part(Append(log, Reminder(due)), Dispatches(due), m)  OBVIOUS
<1>7. /\ Len(u) \in Nat /\ Len(log) <= Len(u) /\ \A i \in 1..Len(log) : u[i] = log[i]
      /\ LogOK(u, now, used.lives) /\ Fold(u).seen = Fold(log).seen
  BY <1>1, <1>4, <1>5, <1>6, Delivered
<1>8. log' = u  BY <1>2, <1>6 DEF Part
<1>9. PICK o : o = [owner EXCEPT !.faulted = TRUE, !.timer = NoTimer]  OBVIOUS
<1>10. /\ o \in Owners /\ o.faulted = TRUE /\ o.timer = NoTimer
       /\ o.state = owner.state /\ o.queue = owner.queue /\ o.run = owner.run
       /\ o.idleWait = owner.idleWait
  BY <1>9, Basics DEF Owners
<1>11. Quiet(o) /\ SoleDrive(o.queue)  BY <1>10, Basics DEF Quiet
<1> DEFINE p == owner'
<1>12. /\ Fine(p) /\ Faultless(p) /\ p.state = o.state /\ p.faulted = o.faulted /\ p.pending = {}
       /\ Cardinality(Creates(p)) <= Cardinality(Creates(o))
  BY <1>3, <1>4, <1>9, <1>10, <1>11, EndDriveIs
<1>13. ~Lives(p) /\ ~Works(p)  BY <1>3, <1>10, <1>12 DEF Lives, Works, Up
<1>14. Fits(p, u) /\ PendingOK(p, u)  BY <1>12, <1>13 DEF Fits, PendingOK
<1>15. Creates(o) = Creates(owner)  BY <1>3, <1>10, DriveCreates
<1>16. Bounded(p, u, used.creates)
  <2>1. p \in Owners  BY <1>12 DEF Fine
  <2> QED  BY <1>7, <1>12, <1>15, <2>1, BoundedStays
<1>17. /\ agent' \in Agents /\ used' \in Usages /\ used'.lives = used.lives
       /\ used'.creates = used.creates
  BY <1>3, Basics, AgentsAre, UsesIs
<1>18. Bounded(p, log', used'.creates)  BY <1>8, <1>16, <1>17
<1> HIDE DEF p
<1> QED  BY <1>3, <1>7, <1>8, <1>12, <1>13, <1>14, <1>17, <1>18, LogMoves DEF p

\* The first state: an empty log, and an owner that starts with a drive.
LEMMA InitInv == Init => IInv
<1> SUFFICES ASSUME Init  PROVE IInv
  OBVIOUS
<1>1. /\ log = << >> /\ durable = 0 /\ now = 0 /\ agent = [pc |-> "idle", cancelled |-> FALSE]
      /\ owner = RequestDrive(NewOwner) /\ told = [created |-> {}, deleted |-> {}]
      /\ used = [creates |-> 0, manages |-> 0, turns |-> 0, disturbances |-> 0, lives |-> 1]
  BY DEF Init
<1>2. << >> \in Seq(Facts) /\ Len(log) = 0  BY <1>1
<1>3. LogOK(log, now, used.lives) /\ Fold(log) = Empty  BY <1>1, LogEmpty
<1>4. Settled(log, used.lives)  BY <1>2 DEF Settled
<1>5. /\ Fine(owner) /\ Faultless(owner) /\ owner.pending = NewOwner.pending
      /\ (Works(owner) <=> Works(NewOwner)) /\ (Works(NewOwner) => owner.run)
      /\ Creates(owner) = Creates(NewOwner)
  BY <1>1, NewOwnerIs, RequestDriveIs
<1>6. Fits(owner, log)  BY <1>5, NewOwnerIs DEF Fits
<1>7. PendingOK(owner, log)  BY <1>5, NewOwnerIs DEF PendingOK
<1>8. ToldOK(told, log, durable)  BY <1>1 DEF ToldOK
<1>9. Bounded(owner, log, used.creates)
  <2>1. Cardinality(Creates(owner)) = 0  BY <1>5, NewOwnerIs, NoCreates DEF Fine
  <2>2. Cardinality(Fold(log).seen) = 0  BY <1>3, FS_EmptySet DEF Empty
  <2>3. used.creates = 0  BY <1>1
  <2> QED  BY <2>1, <2>2, <2>3 DEF Bounded
<1>10. agent \in Agents /\ used \in Usages
  BY <1>1, ParametersAssumption DEF Agents, Usages
<1>11. durable \in 0..Len(log) /\ now \in 0..MaxTime
  BY <1>1, <1>2, ParametersAssumption
<1> QED  BY <1>3, <1>4, <1>5, <1>6, <1>7, <1>8, <1>9, <1>10, <1>11 DEF IInv

\* Every step keeps the invariant.
LEMMA NextInv == IInv /\ [Next]_vars => IInv'
<1> SUFFICES ASSUME IInv, [Next]_vars  PROVE IInv'
  OBVIOUS
<1>1. CASE Transact
  BY <1>1, DriveStartsKeeps, DriveIsStoppedKeeps, DriveArmsKeeps, DriveIsBusyKeeps,
     DriveDeliversKeeps, DispatchIsDurableKeeps, ManageStartsKeeps, CreateKept, DeleteKept,
     ListKeeps, StopKept, ManageIsDurableKeeps DEF Transact
<1>2. CASE Requests
  BY <1>2, CreateIsCalledKeeps, ManagesAreCalledKeeps DEF Requests
<1>3. CASE Fails
  BY <1>3, QueueingFailsKeeps, DispatchFailsKeeps, DriveFlushFailsKeeps, ManageFlushFailsKeeps
     DEF Fails
<1>4. CASE TimerFires \/ IdleWaitEnds \/ DisposeStarts \/ DisposeEnds
  BY <1>4, TimerFiresKeeps, IdleWaitEndsKeeps, DisposeStartsKeeps, DisposeEndsKeeps
<1>5. CASE TurnStarts \/ TurnIsCancelled \/ TurnEnds \/ MaintenanceStarts \/ MaintenanceEnds
  BY <1>5, TurnsKeep, TurnEndsKeeps
<1>6. CASE Tick \/ Crash \/ Resume
  BY <1>6, TickKeeps, CrashKeeps, ResumeKeeps
<1>7. CASE UNCHANGED vars
  BY <1>7 DEF vars, IInv
<1> QED  BY <1>1, <1>2, <1>3, <1>4, <1>5, <1>6, <1>7 DEF Next

\* The invariant holds in every state of every behaviour.
LEMMA Invariant == Spec => []IInv
<1> QED  BY InitInv, NextInv, PTL DEF Spec

-----------------------------------------------------------------------------
(* The theorems.                                                             *)

\* A creation or deletion that a tool or the stop of an archive reported after its
\* flush is on the durable part of the log, whatever crashes follow, and no
\* reminder that was deleted is queued again.
THEOREM ReportsAreKept == Spec => []ReportsSurvive
<1>1. IInv => ReportsSurvive
  <2> SUFFICES ASSUME IInv  PROVE ReportsSurvive
    OBVIOUS
  <2>1. ToldOK(told, log, durable) /\ Gone(log) /\ durable \in 0..Len(log) /\ Len(log) \in Nat
    BY Basics DEF IInv, LogOK
  <2>2. \A id \in told.created : \E i \in 1..durable : log[i].op = "create" /\ log[i].id = id
    BY <2>1 DEF ToldOK, Happened
  <2>3. ASSUME NEW id \in told.deleted
        PROVE  \E i \in 1..durable :
                 /\ log[i].op = "delete" /\ log[i].id = id
                 /\ \A j \in (i + 1)..Len(log) : log[j].op = "message" =>
                       \A d \in log[j].due : d[1] # id
    <3>1. PICK i \in 1..durable : log[i].op = "delete" /\ log[i].id = id
      BY <2>1 DEF ToldOK, Happened
    <3>2. i \in 1..Len(log)  BY <2>1
    <3> QED  BY <2>1, <3>1, <3>2 DEF Gone
  <2> QED  BY <2>2, <2>3 DEF ReportsSurvive
<1> QED  BY <1>1, Invariant, PTL

\* applyScheduleChanges never refuses the log, a dispatch that driveOnce recorded has
\* its message before it, and an occurrence is queued a second time only by
\* another life of the process that found no dispatch of it.
THEOREM DeliveriesAreExplained == Spec => []DeliveredOnce
<1>1. IInv => DeliveredOnce
  <2> SUFFICES ASSUME IInv  PROVE DeliveredOnce
    OBVIOUS
  <2>1. LogOK(log, now, used.lives) /\ DOMAIN log = 1..Len(log) /\ Len(log) \in Nat
    BY Basics DEF IInv
  <2>2. ~Fold(log).corrupt
    <3>1. Well(Fold(log))  BY <2>1, LogHasFold
    <3> QED  BY <3>1 DEF Well, Folds
  <2>3. ASSUME NEW i \in 1..Len(log), log[i].op = "dispatch"
        PROVE  \E j \in 1..(i - 1) : /\ Covers(j, log[i].id)
                                     /\ \A k \in (j + 1)..(i - 1) :
                                           ~(log[k].op = "dispatch" /\ log[k].id = log[i].id)
    BY <2>1, <2>3 DEF LogOK, Recorded, Covered, Covers, Dispatched
  <2>4. ASSUME NEW i \in 1..Len(log), NEW j \in 1..Len(log),
               i < j, log[i].op = "message", log[j].op = "message",
               NEW d \in log[i].due \cap log[j].due
        PROVE  /\ log[i].life # log[j].life
               /\ \A k \in i..j : ~(log[k].op = "dispatch" /\ log[k].id = d[1])
    BY <2>1, <2>4 DEF LogOK, Once, Dispatched
  <2> QED  BY <2>1, <2>2, <2>3, <2>4 DEF DeliveredOnce
<1> QED  BY <1>1, Invariant, PTL

\* Every variable has its type, and a runtime with no run, no wait for idle and no
\* failed drive has a timer armed no later than its earliest reminder.
THEOREM TimersAreKept == Spec => []TimerKept
<1>1. IInv => TimerKept
  <2> SUFFICES ASSUME IInv  PROVE TimerKept
    OBVIOUS
  <2>1. DOMAIN log = 1..Len(log) /\ DOMAIN owner.queue = 1..Len(owner.queue)
    BY Basics
  <2>2. \A i \in 1..Len(log) : log[i].op \in {"create", "delete", "message", "dispatch"}
    <3>1. \A i \in 1..Len(log) : log[i] \in Facts  BY Basics
    <3> QED  BY <3>1 DEF Facts
  <2>3. /\ owner.state \in {"up", "stopping", "stopped", "down"}
        /\ owner.phase \in {"queued", "preflight", "barrier"}
        /\ owner.timer \in {NoTimer} \cup 1..(MaxTime + MaxDelay)
        /\ {owner.run, owner.requested, owner.idleWait, owner.faulted, owner.stalled}
              \subseteq BOOLEAN
    BY Basics DEF Owners
  <2>4. owner.run <=> \E i \in DOMAIN owner.queue : owner.queue[i].kind = "drive"
    BY <2>1, Basics DEF HasDrive
  <2>5. told.created \cup told.deleted \subseteq 1..MaxCreates
    BY DEF IInv, ToldOK
  <2>6. durable \in 0..Len(log) /\ now \in 0..MaxTime
        /\ agent \in [pc : {"idle", "turn", "maintenance"}, cancelled : BOOLEAN]
    BY DEF IInv, Agents
  <2>7. TypeOK  BY <2>1, <2>2, <2>3, <2>4, <2>5, <2>6 DEF TypeOK
  <2>8. owner.queue = << >> => ~owner.run  BY <2>1, <2>4
  <2> QED  BY <2>7, <2>8, Basics DEF TimerKept, Fits
<1> QED  BY <1>1, Invariant, PTL

\* The helpers of a transaction leave the state of the runtime alone.
LEMMA StateIs ==
    ASSUME NEW o \in Owners
    PROVE  /\ RequestDrive(o).state = o.state /\ Leaves(o).state = o.state
           /\ EndDrive(o).state = o.state
BY DEF RequestDrive, Leaves, EndDrive, Owners

\* Only a crash ends a disposal otherwise than by its end.
LEMMA StopsStop ==
    ASSUME IInv, Next, owner.state \in {"stopping", "stopped"}, owner'.state # "down"
    PROVE  owner'.state \in {"stopping", "stopped"}
<1>1. owner \in Owners /\ RequestDrive(owner) \in Owners  BY Basics, RequestDriveIs DEF Fine
<1>2. ~Up(owner) /\ ~Works(owner) /\ owner.state # "down"  BY DEF Up, Works
<1>3. [owner EXCEPT !.timer = NoTimer] \in Owners /\ [owner EXCEPT !.idleWait = FALSE] \in Owners
      /\ [owner EXCEPT !.timer = NoTimer].state = owner.state
      /\ [owner EXCEPT !.idleWait = FALSE].state = owner.state
      /\ [owner EXCEPT !.stalled = TRUE] \in Owners
      /\ [owner EXCEPT !.stalled = TRUE].state = owner.state
  BY <1>1 DEF Owners
<1>4. CASE DriveStarts \/ DriveIsStopped
  BY <1>1, <1>2, <1>3, <1>4, StateIs DEF DriveStarts, DriveIsStopped
<1>5. CASE DispatchIsDurable \/ TimerFires \/ IdleWaitEnds \/ QueueingFails \/ DriveFlushFails
  BY <1>1, <1>2, <1>3, <1>5, StateIs
     DEF DispatchIsDurable, TimerFires, IdleWaitEnds, QueueingFails, DriveFlushFails, GiveUp
<1>6. CASE ManageStarts
  BY <1>1, <1>6, StateIs DEF ManageStarts, Owners
<1>7. CASE Create \/ Delete \/ Stop
  <2> DEFINE o == RequestDrive(owner)
  <2>1. o \in Owners /\ o.state = owner.state  BY <1>1, StateIs
  <2>2. \A ids : [o EXCEPT !.phase = "barrier", !.pending = ids].state = o.state
    BY <2>1 DEF Owners
  <2>3. Leaves(o).state = o.state /\ Leaves(owner).state = owner.state  BY <1>1, <2>1, StateIs
  <2> QED  BY <1>7, <2>1, <2>2, <2>3 DEF Create, Delete, Stop
<1>8. CASE List \/ ManageIsDurable \/ ManageFlushFails
  BY <1>1, <1>8, StateIs DEF List, ManageIsDurable, ManageFlushFails
<1>9. CASE Requests
  BY <1>1, <1>2, <1>9
     DEF Requests, CreateIsCalled, DeleteIsCalled, ListIsCalled, StopIsCalled
<1>10. CASE TurnEnds
  BY <1>1, <1>10, StateIs DEF TurnEnds
<1>11. CASE DisposeEnds
  BY <1>1, <1>11 DEF DisposeEnds, Owners
<1>12. CASE TurnStarts \/ TurnIsCancelled \/ MaintenanceStarts \/ MaintenanceEnds \/ Tick
  BY <1>12 DEF TurnStarts, TurnIsCancelled, MaintenanceStarts, MaintenanceEnds, Tick
<1>13. CASE Crash
  BY <1>13 DEF Crash, NewOwner
<1>14. ~(DriveArms \/ DriveIsBusy \/ DriveDelivers \/ DispatchFails \/ DisposeStarts \/ Resume)
  BY <1>2 DEF DriveArms, DriveIsBusy, DriveDelivers, DispatchFails, DisposeStarts, Resume
<1> QED  BY <1>4, <1>5, <1>6, <1>7, <1>8, <1>9, <1>10, <1>11, <1>12, <1>13, <1>14
         DEF Next, Transact, Fails

\* A runtime that stops queues nothing: what its tools append is no message.
LEMMA StopsAppend ==
    ASSUME IInv, Next, owner.state \in {"stopping", "stopped"}, owner'.state # "down",
           NEW i \in (Len(log) + 1)..Len(log')
    PROVE  log'[i].op # "message"
<1>1. ~Up(owner) /\ ~Works(owner) /\ owner.state # "down"  BY DEF Up, Works
<1>2. log \in Seq(Facts) /\ Len(log) \in Nat  BY Basics
<1>3. log' # log  BY <1>2
<1>4. CASE Create
  <2>1. PICK record : log' = Append(log, [op |-> "create", id |-> record.id, record |-> record])
    BY <1>3, <1>4 DEF Create
  <2>2. PICK e : e = [op |-> "create", id |-> record.id, record |-> record]  OBVIOUS
  <2>3. log' = Append(log, e) /\ e.op = "create"  BY <2>1, <2>2
  <2>4. log'[i] = e  BY <1>2, <2>3
  <2> QED  BY <2>3, <2>4
<1>5. CASE Delete
  <2>1. PICK e : e = [op |-> "delete", id |-> Head(owner.queue).id]  OBVIOUS
  <2>2. log' = Append(log, e) /\ e.op = "delete"  BY <1>3, <1>5, <2>1 DEF Delete
  <2>3. log'[i] = e  BY <1>2, <2>2
  <2> QED  BY <2>2, <2>3
<1>6. ~Stop  BY <1>1, <1>3 DEF Stop
<1>7. ~Crash  BY DEF Crash, NewOwner
<1>8. ~(DriveArms \/ DriveIsBusy \/ DriveDelivers \/ DispatchFails \/ DisposeStarts \/ Resume)
  BY <1>1 DEF DriveArms, DriveIsBusy, DriveDelivers, DispatchFails, DisposeStarts, Resume
<1>9. ~(DriveStarts \/ DriveIsStopped \/ DispatchIsDurable \/ ManageStarts \/ List
        \/ ManageIsDurable)
  BY <1>3 DEF DriveStarts, DriveIsStopped, DispatchIsDurable, ManageStarts, List, ManageIsDurable
<1>10. ~(QueueingFails \/ DriveFlushFails \/ ManageFlushFails \/ TimerFires \/ IdleWaitEnds)
  BY <1>3 DEF QueueingFails, DriveFlushFails, ManageFlushFails, TimerFires, IdleWaitEnds
<1>11. ~Requests
  BY <1>3 DEF Requests, CreateIsCalled, DeleteIsCalled, ListIsCalled, StopIsCalled
<1>12. ~(DisposeEnds \/ TurnStarts \/ TurnIsCancelled \/ TurnEnds \/ MaintenanceStarts
         \/ MaintenanceEnds \/ Tick)
  BY <1>3 DEF DisposeEnds, TurnStarts, TurnIsCancelled, TurnEnds, MaintenanceStarts,
              MaintenanceEnds, Tick
<1> QED  BY <1>4, <1>5, <1>6, <1>7, <1>8, <1>9, <1>10, <1>11, <1>12 DEF Next, Transact, Fails

\* From the start of dispose on, the drive that was under way queues no reminder
\* and neither it nor a tool arms a timer or a wait again.
THEOREM DisposalIsQuiet == Spec => DisposedIsQuiet
<1> DEFINE A == owner.state \in {"stopping", "stopped"} /\ owner'.state # "down" =>
                  /\ owner'.timer = NoTimer /\ ~owner'.idleWait
                  /\ \A i \in (Len(log) + 1)..Len(log') : log'[i].op # "message"
<1>1. IInv /\ IInv' /\ [Next]_vars => [A]_vars
  <2> SUFFICES ASSUME IInv, IInv', Next, owner.state \in {"stopping", "stopped"},
                      owner'.state # "down"
               PROVE  /\ owner'.timer = NoTimer /\ ~owner'.idleWait
                      /\ \A i \in (Len(log) + 1)..Len(log') : log'[i].op # "message"
    OBVIOUS
  <2>1. owner'.state \in {"stopping", "stopped"}  BY StopsStop
  <2>2. Quiet(owner')  BY DEF IInv, Fine
  <2>3. \A i \in (Len(log) + 1)..Len(log') : log'[i].op # "message"  BY StopsAppend
  <2> QED  BY <2>1, <2>2, <2>3 DEF Quiet
<1> HIDE DEF A
<1>2. Spec => [][A]_vars  BY <1>1, Invariant, PTL DEF Spec
<1> QED  BY <1>2 DEF A, DisposedIsQuiet
=============================================================================
