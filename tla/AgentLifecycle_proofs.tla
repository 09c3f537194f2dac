----------------------- MODULE AgentLifecycle_proofs ------------------------
(***************************************************************************)
(* Safety of the agent factory, for any number of attempts on a session    *)
(* id: PlaceIsHeld and NothingLeft.                                        *)
(* The invariant is local.  Fits says, of one attempt, which stages of its *)
(* call, its driver, scope, handle and teardown go together, and ties them *)
(* to its place in the registries and to its claim; an action moves one    *)
(* attempt and gives or takes no place and no claim but its own, so it is  *)
(* enough to look at that attempt (OneMoves).                              *)
(***************************************************************************)
EXTENDS AgentLifecycle, TLAPS

Early == {"new", "opening", "reading", "repairing", "opened", "closing"}
Untouched(l) == l.machine = "none" /\ l.scope = "none" /\ l.disposal = "none" /\ l.told = "nothing"

\* What an attempt is, by its stage; `in`: it occupies the registries.
Stages(l, in) ==
    /\ l.pc \in Early => Untouched(l) /\ ~in
    /\ l.pc \in {"setup", "storing"} => l.told = "nothing" /\ ~in
    /\ l.pc \in {"setup", "storing", "announcing"} =>
         l.machine = "maintenance" /\ l.scope # "none" /\ l.disposal \in {"none", "stopping"}
    /\ l.pc = "ready" =>
         /\ l.scope # "none"
         /\ l.machine = "idle" \/ (l.machine = "running" /\ l.disposal \in {"none", "stopping"})
    /\ l.pc = "rollback" => l.machine = "idle" /\ l.scope # "none" /\ l.disposal # "none"
    /\ l.pc = "failed" => \/ Untouched(l) /\ ~in /\ l.handle # "open"
                          \/ l.machine = "idle" /\ l.disposal = "done"
    /\ l.pc \in {"announcing", "ready"} /\ l.disposal # "done" => in

\* Its handle, and whether it `holds` the claim.
Handles(l, holds) ==
    /\ holds <=> l.handle \in {"open", "closing"}
    /\ l.pc \in {"new", "opening"} => l.handle = "none"
    /\ l.pc \in {"reading", "repairing"} => l.handle = "open" /\ mounted
    /\ l.pc = "opened" => l.handle = IF mounted THEN "open" ELSE "none"
    /\ l.pc = "closing" => l.handle \in {"none", "closing", "closed"}
    /\ l.handle = "pending" => l.pc = "failed" /\ l.disposal = "none"
    /\ mounted /\ l.scope # "none" /\ l.disposal \in {"none", "stopping", "unwinding"} =>
         l.handle = "open"

\* Its teardown.
Tearing(l, in) ==
    /\ l.disposal # "none" => l.scope # "none"
    /\ l.disposal \in {"closing", "done"} => l.scope = "gone" /\ l.handle # "open"
    /\ l.disposal = "done" => ~in /\ l.handle \in {"none", "closed"}
    /\ l.told = "created" <=> in

Fits(l, in, holds) == Stages(l, in) /\ Handles(l, holds) /\ Tearing(l, in)

\* What the factory waits for before it is down.
Settled(l) ==
    l.pc \in {"new", "ready", "failed"} /\ ~Tracked(l) /\ l.scope \in {"none", "gone"}

Inv == /\ TypeOK /\ agents = sessions
       /\ \A a \in Attempts : Fits(life[a], sessions = a, claim = a)
       /\ factory = "down" => \A a \in Attempts : Settled(life[a])

-----------------------------------------------------------------------------
(* The operators on one attempt's record.                                  *)

Same(k, l, fields) ==
    /\ k \in Lives
    /\ "pc" \in fields => k.pc = l.pc
    /\ "machine" \in fields => k.machine = l.machine
    /\ "scope" \in fields => k.scope = l.scope
    /\ "handle" \in fields => k.handle = l.handle
    /\ "disposal" \in fields => k.disposal = l.disposal
    /\ "told" \in fields => k.told = l.told

\* dispose() is memoized: the first call starts it, the others find it begun.
LEMMA DisposeStarts ==
    ASSUME NEW l \in Lives
    PROVE  /\ Same(Dispose(l), l, {"pc", "machine", "scope", "handle", "told"})
           /\ Dispose(l).disposal = IF l.disposal = "none" THEN "stopping" ELSE l.disposal
  BY DEF Dispose, Same, Lives

\* So is the unwinding of the scope.
LEMMA UnwindStarts ==
    ASSUME NEW l \in Lives
    PROVE  /\ Same(Unwind(l), l, {"pc", "machine", "disposal", "handle", "told"})
           /\ Unwind(l).scope = IF l.scope = "open" THEN "unwinding" ELSE l.scope
  BY DEF Unwind, Same, Lives

\* So is the close of the write handle.
LEMMA CloseStarts ==
    ASSUME NEW l \in Lives
    PROVE  /\ Same(Close(l), l, {"pc", "machine", "scope", "disposal", "told"})
           /\ Close(l).handle = IF l.handle = "open" THEN "closing" ELSE l.handle
  BY DEF Close, Same, Lives

\* An attempt that fails disposes of itself and turns idle.
LEMMA FailingDisposes ==
    ASSUME NEW l \in Lives
    PROVE  /\ Same(Failing(l), l, {"scope", "handle", "told"})
           /\ Failing(l).pc = "rollback" /\ Failing(l).machine = "idle"
           /\ Failing(l).disposal = IF l.disposal = "none" THEN "stopping" ELSE l.disposal
  <1> DEFINE k == [l EXCEPT !.pc = "rollback", !.machine = "idle"]
  <1>1. k \in Lives /\ k.pc = "rollback" /\ k.machine = "idle"
        /\ k.scope = l.scope /\ k.handle = l.handle /\ k.told = l.told /\ k.disposal = l.disposal
    BY DEF Lives
  <1>2. Failing(l) = Dispose(k)
    BY DEF Failing
  <1> HIDE DEF k
  <1> QED
    BY <1>1, <1>2, DisposeStarts DEF Same

\* The updates of Prepare, of Publish and of Left.
LEMMA Prepared ==
    ASSUME NEW l \in Lives,
           NEW k, k = [l EXCEPT !.pc = "setup", !.scope = "open", !.machine = "maintenance"]
    PROVE  /\ Same(k, l, {"handle", "disposal", "told"})
           /\ k.pc = "setup" /\ k.scope = "open" /\ k.machine = "maintenance"
  <1> DEFINE i == [l EXCEPT !.pc = "setup"]
             j == [i EXCEPT !.scope = "open"]
  <1>1. k = [j EXCEPT !.machine = "maintenance"]
    BY DEF Lives
  <1>2. i \in Lives /\ i.pc = "setup"
        /\ i.handle = l.handle /\ i.disposal = l.disposal /\ i.told = l.told
    BY DEF Lives
  <1> HIDE DEF i
  <1>3. j \in Lives /\ j.pc = i.pc /\ j.scope = "open"
        /\ j.handle = i.handle /\ j.disposal = i.disposal /\ j.told = i.told
    BY <1>2 DEF Lives
  <1> HIDE DEF j
  <1>4. k \in Lives /\ k.pc = j.pc /\ k.scope = j.scope /\ k.machine = "maintenance"
        /\ k.handle = j.handle /\ k.disposal = j.disposal /\ k.told = j.told
    BY <1>1, <1>3 DEF Lives
  <1> QED
    BY <1>2, <1>3, <1>4 DEF Same

\* Publication announces the agent and waits for its listeners.
LEMMA Entered ==
    ASSUME NEW l \in Lives, NEW k, k = [l EXCEPT !.told = "created", !.pc = "announcing"]
    PROVE  /\ Same(k, l, {"machine", "scope", "handle", "disposal"})
           /\ k.told = "created" /\ k.pc = "announcing"
  <1> DEFINE j == [l EXCEPT !.told = "created"]
  <1>1. k = [j EXCEPT !.pc = "announcing"]
    BY DEF Lives
  <1>2. j \in Lives /\ j.told = "created" /\ j.machine = l.machine /\ j.scope = l.scope
        /\ j.handle = l.handle /\ j.disposal = l.disposal
    BY DEF Lives
  <1> HIDE DEF j
  <1>3. k \in Lives /\ k.told = j.told /\ k.pc = "announcing" /\ k.machine = j.machine
        /\ k.scope = j.scope /\ k.handle = j.handle /\ k.disposal = j.disposal
    BY <1>1, <1>2 DEF Lives
  <1> QED
    BY <1>2, <1>3 DEF Same

\* The end of a teardown and what it announces.
LEMMA Over ==
    ASSUME NEW l \in Lives, NEW told \in {"nothing", "created", "disposed"},
           NEW k, k = [l EXCEPT !.disposal = "done", !.told = told]
    PROVE  /\ Same(k, l, {"pc", "machine", "scope", "handle"})
           /\ k.disposal = "done" /\ k.told = told
  <1> DEFINE j == [l EXCEPT !.disposal = "done"]
  <1>1. k = [j EXCEPT !.told = told]
    BY DEF Lives
  <1>2. j \in Lives /\ j.disposal = "done" /\ j.pc = l.pc /\ j.machine = l.machine
        /\ j.scope = l.scope /\ j.handle = l.handle
    BY DEF Lives
  <1> HIDE DEF j
  <1>3. k \in Lives /\ k.disposal = j.disposal /\ k.told = told /\ k.pc = j.pc
        /\ k.machine = j.machine /\ k.scope = j.scope /\ k.handle = j.handle
    BY <1>1, <1>2 DEF Lives
  <1> QED
    BY <1>2, <1>3 DEF Same

\* A failing prepared attempt fits its place, whatever else it is.
LEMMA FailingFits ==
    ASSUME NEW l \in Lives, NEW in \in BOOLEAN, NEW holds \in BOOLEAN, mounted \in BOOLEAN,
           l.pc \in {"setup", "storing", "announcing"}, Handles(l, holds), Tearing(l, in),
           l.machine = "maintenance" /\ l.scope # "none" /\ l.disposal \in {"none", "stopping"}
    PROVE  Fits(Failing(l), in, holds)
  <1> DEFINE k == Failing(l)
  <1>1. /\ k.pc = "rollback" /\ k.machine = "idle" /\ k.scope = l.scope
        /\ k.handle = l.handle /\ k.told = l.told /\ k.disposal = "stopping"
    BY FailingDisposes DEF Same
  <1> HIDE DEF k
  <1>2. Fits(k, in, holds)
    BY <1>1 DEF Fits, Stages, Handles, Tearing, Early
  <1> QED
    BY <1>2 DEF k

-----------------------------------------------------------------------------
(* One attempt moves.                                                      *)

\* A step of one attempt that gives or takes only its own place and claim.
LEMMA OneMoves ==
    ASSUME Inv, NEW a \in Attempts, NEW l \in Lives, life' = [life EXCEPT ![a] = l],
           sessions' \in Attempts \union {NoOne}, claim' \in Attempts \union {NoOne},
           agents' = sessions', factory' = factory, mounted' = mounted,
           \A b \in Attempts \ {a} : (sessions' = b <=> sessions = b) /\ (claim' = b <=> claim = b),
           Fits(l, sessions' = a, claim' = a), factory = "down" => Settled(l)
    PROVE  Inv'
  <1>1. life' \in [Attempts -> Lives] /\ life'[a] = l
    BY DEF Inv, TypeOK
  <1>2. \A b \in Attempts \ {a} : life'[b] = life[b]
    BY DEF Inv, TypeOK
  <1>3. TypeOK'
    BY <1>1 DEF Inv, TypeOK
  <1>4. ASSUME NEW b \in Attempts PROVE Fits(life[b], sessions = b, claim = b)'
    <2>1. CASE b = a
      BY <1>1, <2>1 DEF Fits, Stages, Handles, Tearing
    <2>2. CASE b # a
      <3>1. life'[b] = life[b] /\ (sessions' = b <=> sessions = b) /\ (claim' = b <=> claim = b)
        BY <1>2, <2>2
      <3>2. Fits(life[b], sessions = b, claim = b)
        BY DEF Inv
      <3> QED
        BY <3>1, <3>2 DEF Fits, Stages, Handles, Tearing
    <2> QED
      BY <2>1, <2>2
  <1>5. factory' = "down" => \A b \in Attempts : Settled(life'[b])
    BY <1>1, <1>2 DEF Inv, Settled
  <1> QED
    BY <1>3, <1>4, <1>5 DEF Inv, Settled, Tracked

\* ... and leaves the registries and the claims alone.
LEMMA OneMovesAlone ==
    ASSUME Inv, NEW a \in Attempts, NEW l \in Lives, life' = [life EXCEPT ![a] = l],
           UNCHANGED <<Registries, claim, Rest>>,
           Fits(l, sessions = a, claim = a), factory = "down" => Settled(l)
    PROVE  Inv'
  <1>1. /\ sessions \in Attempts \union {NoOne} /\ claim \in Attempts \union {NoOne}
        /\ agents = sessions
    BY DEF Inv, TypeOK
  <1>2. /\ sessions' = sessions /\ agents' = agents /\ claim' = claim
        /\ factory' = factory /\ mounted' = mounted
    BY DEF Registries, Rest
  <1> QED
    BY <1>1, <1>2, OneMoves

\* What holds of one attempt.
LEMMA OneFits ==
    ASSUME Inv, NEW a \in Attempts
    PROVE  /\ life[a] \in Lives /\ mounted \in BOOLEAN
           /\ Fits(life[a], sessions = a, claim = a)
           /\ factory = "down" => Settled(life[a])
  BY DEF Inv, TypeOK

-----------------------------------------------------------------------------
(* The actions, one after the other.                                       *)

\* A resume begins: it asks for the claim of the id.
LEMMA ResumeKeeps ==
    ASSUME Inv, NEW a \in Attempts, Resume(a)
    PROVE  Inv'
  <1> DEFINE l == [life[a] EXCEPT !.pc = "opening"]
  <1>1. /\ life[a] \in Lives /\ mounted \in BOOLEAN
        /\ Fits(life[a], sessions = a, claim = a)
        /\ factory = "down" => Settled(life[a])
    BY OneFits
  <1>2. /\ l \in Lives /\ l.pc = "opening"
        /\ l.machine = life[a].machine /\ l.scope = life[a].scope /\ l.handle = life[a].handle
        /\ l.disposal = life[a].disposal /\ l.told = life[a].told
    BY <1>1 DEF Lives
  <1>3. life' = [life EXCEPT ![a] = l] /\ UNCHANGED <<Registries, claim, Rest>>
    BY DEF Resume
  <1> HIDE DEF l
  <1>4. Fits(l, sessions = a, claim = a)
    BY <1>1, <1>2 DEF Resume, Fits, Stages, Handles, Tearing, Untouched, Early, Calls
  <1>5. factory = "down" => Settled(l)
    BY <1>1, <1>2 DEF Resume, Settled, Tracked, Fits, Stages, Tearing, Untouched, Early, Calls
  <1> QED
    BY <1>1, <1>2, <1>3, <1>4, <1>5, OneMovesAlone

\* The backend refuses the open.
LEMMA OpenFailsKeeps ==
    ASSUME Inv, NEW a \in Attempts, OpenFails(a)
    PROVE  Inv'
  <1> DEFINE l == [life[a] EXCEPT !.pc = "failed"]
  <1>1. /\ life[a] \in Lives /\ mounted \in BOOLEAN
        /\ Fits(life[a], sessions = a, claim = a)
        /\ factory = "down" => Settled(life[a])
    BY OneFits
  <1>2. /\ l \in Lives /\ l.pc = "failed"
        /\ l.machine = life[a].machine /\ l.scope = life[a].scope /\ l.handle = life[a].handle
        /\ l.disposal = life[a].disposal /\ l.told = life[a].told
    BY <1>1 DEF Lives
  <1>3. life' = [life EXCEPT ![a] = l] /\ UNCHANGED <<Registries, claim, Rest>>
    BY DEF OpenFails
  <1> HIDE DEF l
  <1>4. Fits(l, sessions = a, claim = a)
    BY <1>1, <1>2 DEF OpenFails, Fits, Stages, Handles, Tearing, Untouched, Early
  <1>5. factory = "down" => Settled(l)
    BY <1>1, <1>2 DEF OpenFails, Settled, Tracked, Fits, Stages, Tearing, Untouched, Early
  <1> QED
    BY <1>1, <1>2, <1>3, <1>4, <1>5, OneMovesAlone

\* An attempt that was never prepared is over when its handle is closed.
LEMMA SettleKeeps ==
    ASSUME Inv, NEW a \in Attempts, Settle(a)
    PROVE  Inv'
  <1> DEFINE l == [life[a] EXCEPT !.pc = "failed"]
  <1>1. /\ life[a] \in Lives /\ mounted \in BOOLEAN
        /\ Fits(life[a], sessions = a, claim = a)
        /\ factory = "down" => Settled(life[a])
    BY OneFits
  <1>2. /\ l \in Lives /\ l.pc = "failed"
        /\ l.machine = life[a].machine /\ l.scope = life[a].scope /\ l.handle = life[a].handle
        /\ l.disposal = life[a].disposal /\ l.told = life[a].told
    BY <1>1 DEF Lives
  <1>3. life' = [life EXCEPT ![a] = l] /\ UNCHANGED <<Registries, claim, Rest>>
    BY DEF Settle
  <1> HIDE DEF l
  <1>4. Fits(l, sessions = a, claim = a)
    BY <1>1, <1>2 DEF Settle, Fits, Stages, Handles, Tearing, Untouched, Early
  <1>5. factory = "down" => Settled(l)
    BY <1>1, <1>2 DEF Settle, Settled, Tracked, Fits, Stages, Tearing, Untouched, Early
  <1> QED
    BY <1>1, <1>2, <1>3, <1>4, <1>5, OneMovesAlone

\* The setup callback settles.
LEMMA SetupSettlesKeeps ==
    ASSUME Inv, NEW a \in Attempts, SetupSettles(a)
    PROVE  Inv'
  <1> DEFINE l == [life[a] EXCEPT !.pc = "storing"]
  <1>1. /\ life[a] \in Lives /\ mounted \in BOOLEAN
        /\ Fits(life[a], sessions = a, claim = a)
        /\ factory = "down" => Settled(life[a])
    BY OneFits
  <1>2. /\ l \in Lives /\ l.pc = "storing"
        /\ l.machine = life[a].machine /\ l.scope = life[a].scope /\ l.handle = life[a].handle
        /\ l.disposal = life[a].disposal /\ l.told = life[a].told
    BY <1>1 DEF Lives
  <1>3. life' = [life EXCEPT ![a] = l] /\ UNCHANGED <<Registries, claim, Rest>>
    BY DEF SetupSettles
  <1> HIDE DEF l
  <1>4. Fits(l, sessions = a, claim = a)
    BY <1>1, <1>2 DEF SetupSettles, Fits, Stages, Handles, Tearing, Untouched, Early, Aborted
  <1>5. factory = "down" => Settled(l)
    BY <1>1, <1>2 DEF SetupSettles, Settled, Tracked, Fits, Stages, Tearing, Untouched, Early, Aborted
  <1> QED
    BY <1>1, <1>2, <1>3, <1>4, <1>5, OneMovesAlone

\* A failed attempt throws once its own disposal is over.
LEMMA RolledBackKeeps ==
    ASSUME Inv, NEW a \in Attempts, RolledBack(a)
    PROVE  Inv'
  <1> DEFINE l == [life[a] EXCEPT !.pc = "failed"]
  <1>1. /\ life[a] \in Lives /\ mounted \in BOOLEAN
        /\ Fits(life[a], sessions = a, claim = a)
        /\ factory = "down" => Settled(life[a])
    BY OneFits
  <1>2. /\ l \in Lives /\ l.pc = "failed"
        /\ l.machine = life[a].machine /\ l.scope = life[a].scope /\ l.handle = life[a].handle
        /\ l.disposal = life[a].disposal /\ l.told = life[a].told
    BY <1>1 DEF Lives
  <1>3. life' = [life EXCEPT ![a] = l] /\ UNCHANGED <<Registries, claim, Rest>>
    BY DEF RolledBack
  <1> HIDE DEF l
  <1>4. Fits(l, sessions = a, claim = a)
    BY <1>1, <1>2 DEF RolledBack, Fits, Stages, Handles, Tearing, Untouched, Early
  <1>5. factory = "down" => Settled(l)
    BY <1>1, <1>2 DEF RolledBack, Settled, Tracked, Fits, Stages, Tearing, Untouched, Early
  <1> QED
    BY <1>1, <1>2, <1>3, <1>4, <1>5, OneMovesAlone

\* The published agent starts a turn.
LEMMA TurnStartsKeeps ==
    ASSUME Inv, NEW a \in Attempts, TurnStarts(a)
    PROVE  Inv'
  <1> DEFINE l == [life[a] EXCEPT !.machine = "running"]
  <1>1. /\ life[a] \in Lives /\ mounted \in BOOLEAN
        /\ Fits(life[a], sessions = a, claim = a)
        /\ factory = "down" => Settled(life[a])
    BY OneFits
  <1>2. /\ l \in Lives /\ l.machine = "running"
        /\ l.pc = life[a].pc /\ l.scope = life[a].scope /\ l.handle = life[a].handle
        /\ l.disposal = life[a].disposal /\ l.told = life[a].told
    BY <1>1 DEF Lives
  <1>3. life' = [life EXCEPT ![a] = l] /\ UNCHANGED <<Registries, claim, Rest>>
    BY DEF TurnStarts
  <1> HIDE DEF l
  <1>4. Fits(l, sessions = a, claim = a)
    BY <1>1, <1>2 DEF TurnStarts, Fits, Stages, Handles, Tearing, Untouched, Early
  <1>5. factory = "down" => Settled(l)
    BY <1>1, <1>2 DEF TurnStarts, Settled, Tracked, Fits, Stages, Tearing, Untouched, Early
  <1> QED
    BY <1>1, <1>2, <1>3, <1>4, <1>5, OneMovesAlone

\* Its turn ends.
LEMMA TurnEndsKeeps ==
    ASSUME Inv, NEW a \in Attempts, TurnEnds(a)
    PROVE  Inv'
  <1> DEFINE l == [life[a] EXCEPT !.machine = "idle"]
  <1>1. /\ life[a] \in Lives /\ mounted \in BOOLEAN
        /\ Fits(life[a], sessions = a, claim = a)
        /\ factory = "down" => Settled(life[a])
    BY OneFits
  <1>2. /\ l \in Lives /\ l.machine = "idle"
        /\ l.pc = life[a].pc /\ l.scope = life[a].scope /\ l.handle = life[a].handle
        /\ l.disposal = life[a].disposal /\ l.told = life[a].told
    BY <1>1 DEF Lives
  <1>3. life' = [life EXCEPT ![a] = l] /\ UNCHANGED <<Registries, claim, Rest>>
    BY DEF TurnEnds
  <1> HIDE DEF l
  <1>4. Fits(l, sessions = a, claim = a)
    BY <1>1, <1>2 DEF TurnEnds, Fits, Stages, Handles, Tearing, Untouched, Early
  <1>5. factory = "down" => Settled(l)
    BY <1>1, <1>2 DEF TurnEnds, Settled, Tracked, Fits, Stages, Tearing, Untouched, Early
  <1> QED
    BY <1>1, <1>2, <1>3, <1>4, <1>5, OneMovesAlone

\* The scope is unwound.
LEMMA ScopeUnwindsKeeps ==
    ASSUME Inv, NEW a \in Attempts, ScopeUnwinds(a)
    PROVE  Inv'
  <1> DEFINE l == [life[a] EXCEPT !.scope = "gone"]
  <1>1. /\ life[a] \in Lives /\ mounted \in BOOLEAN
        /\ Fits(life[a], sessions = a, claim = a)
        /\ factory = "down" => Settled(life[a])
    BY OneFits
  <1>2. /\ l \in Lives /\ l.scope = "gone"
        /\ l.pc = life[a].pc /\ l.machine = life[a].machine /\ l.handle = life[a].handle
        /\ l.disposal = life[a].disposal /\ l.told = life[a].told
    BY <1>1 DEF Lives
  <1>3. life' = [life EXCEPT ![a] = l] /\ UNCHANGED <<Registries, claim, Rest>>
    BY DEF ScopeUnwinds
  <1> HIDE DEF l
  <1>4. Fits(l, sessions = a, claim = a)
    BY <1>1, <1>2 DEF ScopeUnwinds, Fits, Stages, Handles, Tearing, Untouched, Early
  <1>5. factory = "down" => Settled(l)
    BY <1>1, <1>2 DEF ScopeUnwinds, Settled, Tracked, Fits, Stages, Tearing, Untouched, Early
  <1> QED
    BY <1>1, <1>2, <1>3, <1>4, <1>5, OneMovesAlone

\* The owner's fiber unloads.
LEMMA OwnerUnloadedKeeps ==
    ASSUME Inv, NEW a \in Attempts, OwnerUnloaded(a)
    PROVE  Inv'
  <1> DEFINE l == [life[a] EXCEPT !.owner = "gone"]
  <1>1. /\ life[a] \in Lives /\ mounted \in BOOLEAN
        /\ Fits(life[a], sessions = a, claim = a)
        /\ factory = "down" => Settled(life[a])
    BY OneFits
  <1>2. /\ l \in Lives
        /\ l.pc = life[a].pc /\ l.machine = life[a].machine /\ l.scope = life[a].scope
        /\ l.handle = life[a].handle /\ l.disposal = life[a].disposal /\ l.told = life[a].told
    BY <1>1 DEF Lives
  <1>3. life' = [life EXCEPT ![a] = l] /\ UNCHANGED <<Registries, claim, Rest>>
    BY DEF OwnerUnloaded
  <1> HIDE DEF l
  <1>4. Fits(l, sessions = a, claim = a)
    BY <1>1, <1>2 DEF OwnerUnloaded, Fits, Stages, Handles, Tearing, Untouched, Early
  <1>5. factory = "down" => Settled(l)
    BY <1>1, <1>2 DEF OwnerUnloaded, Settled, Tracked, Fits, Stages, Tearing, Untouched, Early
  <1> QED
    BY <1>1, <1>2, <1>3, <1>4, <1>5, OneMovesAlone

\* The caller's signal aborts.
LEMMA CallerAbortsKeeps ==
    ASSUME Inv, NEW a \in Attempts, CallerAborts(a)
    PROVE  Inv'
  <1> DEFINE l == [life[a] EXCEPT !.aborted = TRUE]
  <1>1. /\ life[a] \in Lives /\ mounted \in BOOLEAN
        /\ Fits(life[a], sessions = a, claim = a)
        /\ factory = "down" => Settled(life[a])
    BY OneFits
  <1>2. /\ l \in Lives
        /\ l.pc = life[a].pc /\ l.machine = life[a].machine /\ l.scope = life[a].scope
        /\ l.handle = life[a].handle /\ l.disposal = life[a].disposal /\ l.told = life[a].told
    BY <1>1 DEF Lives
  <1>3. life' = [life EXCEPT ![a] = l] /\ UNCHANGED <<Registries, claim, Rest>>
    BY DEF CallerAborts
  <1> HIDE DEF l
  <1>4. Fits(l, sessions = a, claim = a)
    BY <1>1, <1>2 DEF CallerAborts, Fits, Stages, Handles, Tearing, Untouched, Early
  <1>5. factory = "down" => Settled(l)
    BY <1>1, <1>2 DEF CallerAborts, Settled, Tracked, Fits, Stages, Tearing, Untouched, Early
  <1> QED
    BY <1>1, <1>2, <1>3, <1>4, <1>5, OneMovesAlone

\* An open is given up on the abort signal and stays pending.
LEMMA OpenAbortedKeeps ==
    ASSUME Inv, NEW a \in Attempts, OpenAborted(a)
    PROVE  Inv'
  <1> DEFINE l == [life[a] EXCEPT !.pc = "failed", !.handle = IF mounted THEN "pending" ELSE "none"]
  <1>1. /\ life[a] \in Lives /\ mounted \in BOOLEAN
        /\ Fits(life[a], sessions = a, claim = a)
        /\ factory = "down" => Settled(life[a])
    BY OneFits
  <1>2. /\ l \in Lives /\ l.pc = "failed" /\ l.handle = (IF mounted THEN "pending" ELSE "none")
        /\ l.machine = life[a].machine /\ l.scope = life[a].scope /\ l.disposal = life[a].disposal
        /\ l.told = life[a].told
    BY <1>1 DEF Lives
  <1>3. life' = [life EXCEPT ![a] = l] /\ UNCHANGED <<Registries, claim, Rest>>
    BY DEF OpenAborted
  <1> HIDE DEF l
  <1>4. Fits(l, sessions = a, claim = a)
    BY <1>1, <1>2 DEF OpenAborted, Fits, Stages, Handles, Tearing, Untouched, Early
  <1>5. factory = "down" => Settled(l)
    BY <1>1, <1>2 DEF OpenAborted, Settled, Tracked, Fits, Stages, Tearing, Untouched, Early
  <1> QED
    BY <1>1, <1>2, <1>3, <1>4, <1>5, OneMovesAlone

\* A create begins.
LEMMA CreateAgentKeeps ==
    ASSUME Inv, NEW a \in Attempts, CreateAgent(a)
    PROVE  Inv'
  <1> DEFINE l == [life[a] EXCEPT !.pc = IF sessions = NoOne THEN "opening" ELSE "failed"]
  <1>1. /\ life[a] \in Lives /\ mounted \in BOOLEAN
        /\ Fits(life[a], sessions = a, claim = a)
        /\ factory = "down" => Settled(life[a])
    BY OneFits
  <1>2. /\ l \in Lives /\ l.pc \in {"opening", "failed"} /\ l.handle = life[a].handle
          /\ l.machine = life[a].machine /\ l.scope = life[a].scope
          /\ l.disposal = life[a].disposal /\ l.told = life[a].told
    BY <1>1 DEF Lives
  <1>3. life' = [life EXCEPT ![a] = l] /\ UNCHANGED <<Registries, claim, Rest>>
    BY DEF CreateAgent
  <1> HIDE DEF l
  <1>4. Fits(l, sessions = a, claim = a)
    BY <1>1, <1>2 DEF CreateAgent, Calls, Fits, Stages, Handles, Tearing, Untouched, Early
  <1>5. factory = "down" => Settled(l)
    BY DEF CreateAgent, Calls
  <1> QED
    BY <1>1, <1>2, <1>3, <1>4, <1>5, OneMovesAlone

\* The claim is taken, for the attempt alone.
LEMMA OpenSucceedsKeeps ==
    ASSUME Inv, NEW a \in Attempts, OpenSucceeds(a)
    PROVE  Inv'
  <1>1. /\ life[a] \in Lives /\ mounted \in BOOLEAN
        /\ Fits(life[a], sessions = a, claim = a)
        /\ factory = "down" => Settled(life[a])
    BY OneFits
  <1>2. /\ sessions' = sessions /\ agents' = agents /\ factory' = factory /\ mounted' = mounted
        /\ agents = sessions /\ sessions \in Attempts \union {NoOne}
        /\ claim \in Attempts \union {NoOne}
    BY DEF OpenSucceeds, Registries, Rest, Inv, TypeOK
  <1>3. factory # "down"
    BY <1>1 DEF OpenSucceeds, Settled
  <1>4. CASE mounted
    <2> DEFINE l == [life[a] EXCEPT !.pc = IF a \in Resumes THEN "reading" ELSE "opened",
                                    !.handle = "open"]
    <2>1. /\ l \in Lives /\ l.pc \in {"reading", "opened"} /\ l.handle = "open"
          /\ l.machine = life[a].machine /\ l.scope = life[a].scope
          /\ l.disposal = life[a].disposal /\ l.told = life[a].told
      BY <1>1 DEF Lives
    <2>2. life' = [life EXCEPT ![a] = l] /\ claim = NoOne /\ claim' = a
      BY <1>4 DEF OpenSucceeds
    <2> HIDE DEF l
    <2>3. \A b \in Attempts \ {a} : claim' = b <=> claim = b
      BY <2>2, AttemptsAssumption
    <2>4. Fits(l, sessions = a, TRUE)
      BY <1>1, <1>4, <2>1 DEF OpenSucceeds, Fits, Stages, Handles, Tearing, Untouched, Early
    <2>5. Fits(l, sessions' = a, claim' = a)
      BY <1>2, <2>2, <2>4 DEF Fits, Stages, Handles, Tearing
    <2> QED
      BY <1>2, <1>3, <2>1, <2>2, <2>3, <2>5, OneMoves
  <1>5. CASE ~mounted
    <2> DEFINE l == [life[a] EXCEPT !.pc = "opened"]
    <2>1. /\ l \in Lives /\ l.pc = "opened" /\ l.handle = life[a].handle
          /\ l.machine = life[a].machine /\ l.scope = life[a].scope
          /\ l.disposal = life[a].disposal /\ l.told = life[a].told
      BY <1>1 DEF Lives
    <2>2. life' = [life EXCEPT ![a] = l] /\ UNCHANGED <<Registries, claim, Rest>>
      BY <1>5 DEF OpenSucceeds
    <2> HIDE DEF l
    <2>3. Fits(l, sessions = a, claim = a)
      BY <1>1, <1>5, <2>1 DEF OpenSucceeds, Fits, Stages, Handles, Tearing, Untouched, Early
    <2> QED
      BY <1>3, <2>1, <2>2, <2>3, OneMovesAlone
  <1> QED
    BY <1>1, <1>4, <1>5

\* An open that was given up settles: its handle is closed, if it got one.
LEMMA LateOpenKeeps ==
    ASSUME Inv, NEW a \in Attempts, LateOpen(a)
    PROVE  Inv'
  <1>1. /\ life[a] \in Lives /\ mounted \in BOOLEAN
        /\ Fits(life[a], sessions = a, claim = a)
        /\ factory = "down" => Settled(life[a])
    BY OneFits
  <1>2. /\ sessions' = sessions /\ agents' = agents /\ factory' = factory /\ mounted' = mounted
        /\ agents = sessions /\ sessions \in Attempts \union {NoOne}
        /\ claim \in Attempts \union {NoOne}
    BY DEF LateOpen, Registries, Rest, Inv, TypeOK
  <1>3. CASE claim = NoOne /\ claim' = a /\ life' = [life EXCEPT ![a].handle = "closing"]
    <2> DEFINE l == [life[a] EXCEPT !.handle = "closing"]
    <2>1. /\ l \in Lives /\ l.handle = "closing" /\ l.pc = life[a].pc
          /\ l.machine = life[a].machine /\ l.scope = life[a].scope
          /\ l.disposal = life[a].disposal /\ l.told = life[a].told
      BY <1>1 DEF Lives
    <2>2. life' = [life EXCEPT ![a] = l]
      BY <1>3
    <2> HIDE DEF l
    <2>3. \A b \in Attempts \ {a} : claim' = b <=> claim = b
      BY <1>3, AttemptsAssumption
    <2>4. Fits(l, sessions = a, TRUE)
      BY <1>1, <2>1 DEF LateOpen, Fits, Stages, Handles, Tearing, Untouched, Early
    <2>5. Fits(l, sessions' = a, claim' = a)
      BY <1>2, <1>3, <2>4 DEF Fits, Stages, Handles, Tearing
    <2>6. factory = "down" => Settled(l)
      BY <1>1, <2>1 DEF Settled, Tracked
    <2> QED
      BY <1>2, <1>3, <2>1, <2>2, <2>3, <2>5, <2>6, OneMoves
  <1>4. CASE life' = [life EXCEPT ![a].handle = "none"] /\ UNCHANGED claim
    <2> DEFINE l == [life[a] EXCEPT !.handle = "none"]
    <2>1. /\ l \in Lives /\ l.handle = "none" /\ l.pc = life[a].pc
          /\ l.machine = life[a].machine /\ l.scope = life[a].scope
          /\ l.disposal = life[a].disposal /\ l.told = life[a].told
      BY <1>1 DEF Lives
    <2>2. life' = [life EXCEPT ![a] = l] /\ UNCHANGED <<Registries, claim, Rest>>
      BY <1>4 DEF LateOpen
    <2> HIDE DEF l
    <2>3. Fits(l, sessions = a, claim = a)
      BY <1>1, <2>1 DEF LateOpen, Fits, Stages, Handles, Tearing, Untouched, Early
    <2>4. factory = "down" => Settled(l)
      BY <1>1, <2>1 DEF Settled, Tracked
    <2> QED
      BY <2>1, <2>2, <2>3, <2>4, OneMovesAlone
  <1> QED
    BY <1>3, <1>4 DEF LateOpen

\* An attempt that stops before it is prepared closes its handle.
LEMMA ClosingKeeps ==
    ASSUME Inv, NEW a \in Attempts, life[a].pc \in {"reading", "repairing", "opened"},
           life' = [life EXCEPT ![a] = Close([life[a] EXCEPT !.pc = "closing"])],
           UNCHANGED <<Registries, claim, Rest>>
    PROVE  Inv'
  <1> DEFINE k == [life[a] EXCEPT !.pc = "closing"]
             l == Close(k)
  <1>1. /\ life[a] \in Lives /\ mounted \in BOOLEAN
        /\ Fits(life[a], sessions = a, claim = a)
        /\ factory = "down" => Settled(life[a])
    BY OneFits
  <1>2. /\ k \in Lives /\ k.pc = "closing" /\ k.handle = life[a].handle
        /\ k.machine = life[a].machine /\ k.scope = life[a].scope
        /\ k.disposal = life[a].disposal /\ k.told = life[a].told
    BY <1>1 DEF Lives
  <1>4. life' = [life EXCEPT ![a] = l]
    OBVIOUS
  <1> HIDE DEF k
  <1>3. /\ l \in Lives /\ l.pc = "closing" /\ l.machine = k.machine /\ l.scope = k.scope
        /\ l.disposal = k.disposal /\ l.told = k.told
        /\ l.handle = IF k.handle = "open" THEN "closing" ELSE k.handle
    BY <1>2, CloseStarts DEF Same
  <1> HIDE DEF l
  <1>5. Fits(l, sessions = a, claim = a)
    BY <1>1, <1>2, <1>3 DEF Fits, Stages, Handles, Tearing, Untouched, Early
  <1>6. factory = "down" => Settled(l)
    BY <1>1 DEF Settled
  <1> QED
    BY <1>3, <1>4, <1>5, <1>6, OneMovesAlone

\* The cold read of a resume.
LEMMA ReadKeeps ==
    ASSUME Inv, NEW a \in Attempts, Read(a)
    PROVE  Inv'
  <1>1. /\ life[a] \in Lives /\ mounted \in BOOLEAN
        /\ Fits(life[a], sessions = a, claim = a)
        /\ factory = "down" => Settled(life[a])
    BY OneFits
  <1>2. CASE life' = [life EXCEPT ![a].pc = "repairing"]
    <2> DEFINE l == [life[a] EXCEPT !.pc = "repairing"]
    <2>1. /\ l \in Lives /\ l.pc = "repairing" /\ l.handle = life[a].handle
          /\ l.machine = life[a].machine /\ l.scope = life[a].scope
          /\ l.disposal = life[a].disposal /\ l.told = life[a].told
      BY <1>1 DEF Lives
    <2>2. life' = [life EXCEPT ![a] = l] /\ UNCHANGED <<Registries, claim, Rest>>
      BY <1>2 DEF Read
    <2> HIDE DEF l
    <2>3. Fits(l, sessions = a, claim = a)
      BY <1>1, <2>1 DEF Read, Fits, Stages, Handles, Tearing, Untouched, Early
    <2>4. factory = "down" => Settled(l)
      BY <1>1 DEF Read, Settled
    <2> QED
      BY <2>1, <2>2, <2>3, <2>4, OneMovesAlone
  <1>3. CASE life' = [life EXCEPT ![a] = Close([@ EXCEPT !.pc = "closing"])]
    <2>1. /\ life' = [life EXCEPT ![a] = Close([life[a] EXCEPT !.pc = "closing"])]
          /\ life[a].pc \in {"reading", "repairing", "opened"}
          /\ UNCHANGED <<Registries, claim, Rest>>
      BY <1>3 DEF Read
    <2> QED
      BY <2>1, ClosingKeeps
  <1> QED
    BY <1>2, <1>3 DEF Read

\* The appends of the closers of a resume.
LEMMA RepairKeeps ==
    ASSUME Inv, NEW a \in Attempts, Repair(a)
    PROVE  Inv'
  <1>1. /\ life[a] \in Lives /\ mounted \in BOOLEAN
        /\ Fits(life[a], sessions = a, claim = a)
        /\ factory = "down" => Settled(life[a])
    BY OneFits
  <1>2. CASE life' = [life EXCEPT ![a].pc = "opened"]
    <2> DEFINE l == [life[a] EXCEPT !.pc = "opened"]
    <2>1. /\ l \in Lives /\ l.pc = "opened" /\ l.handle = life[a].handle
          /\ l.machine = life[a].machine /\ l.scope = life[a].scope
          /\ l.disposal = life[a].disposal /\ l.told = life[a].told
      BY <1>1 DEF Lives
    <2>2. life' = [life EXCEPT ![a] = l] /\ UNCHANGED <<Registries, claim, Rest>>
      BY <1>2 DEF Repair
    <2> HIDE DEF l
    <2>3. Fits(l, sessions = a, claim = a)
      BY <1>1, <2>1 DEF Repair, Fits, Stages, Handles, Tearing, Untouched, Early
    <2>4. factory = "down" => Settled(l)
      BY <1>1 DEF Repair, Settled
    <2> QED
      BY <2>1, <2>2, <2>3, <2>4, OneMovesAlone
  <1>3. CASE life' = [life EXCEPT ![a] = Close([@ EXCEPT !.pc = "closing"])]
    <2>1. /\ life' = [life EXCEPT ![a] = Close([life[a] EXCEPT !.pc = "closing"])]
          /\ life[a].pc \in {"reading", "repairing", "opened"}
          /\ UNCHANGED <<Registries, claim, Rest>>
      BY <1>3 DEF Repair
    <2> QED
      BY <2>1, ClosingKeeps
  <1> QED
    BY <1>2, <1>3 DEF Repair

\* The attempt is prepared, or closes its handle because somebody gave it up.
LEMMA PrepareKeeps ==
    ASSUME Inv, NEW a \in Attempts, Prepare(a)
    PROVE  Inv'
  <1>1. /\ life[a] \in Lives /\ mounted \in BOOLEAN
        /\ Fits(life[a], sessions = a, claim = a)
        /\ factory = "down" => Settled(life[a])
    BY OneFits
  <1>2. CASE life[a].owner = "active" /\ factory = "up" /\ ~life[a].aborted
    <2> DEFINE l == [life[a] EXCEPT !.pc = "setup", !.scope = "open", !.machine = "maintenance"]
    <2>1. /\ l \in Lives /\ l.pc = "setup" /\ l.scope = "open" /\ l.machine = "maintenance"
          /\ l.handle = life[a].handle /\ l.disposal = life[a].disposal /\ l.told = life[a].told
      <3>1. l = [life[a] EXCEPT !.pc = "setup", !.scope = "open", !.machine = "maintenance"]
        OBVIOUS
      <3> HIDE DEF l
      <3>2. /\ Same(l, life[a], {"handle", "disposal", "told"})
            /\ l.pc = "setup" /\ l.scope = "open" /\ l.machine = "maintenance"
        BY <1>1, <3>1, Prepared
      <3> QED
        BY <3>2 DEF Same
    <2>2. life' = [life EXCEPT ![a] = l] /\ UNCHANGED <<Registries, claim, Rest>>
      BY <1>2 DEF Prepare
    <2> HIDE DEF l
    <2>3. Fits(l, sessions = a, claim = a)
      BY <1>1, <2>1 DEF Prepare, Fits, Stages, Handles, Tearing, Untouched, Early
    <2> QED
      BY <1>2, <2>1, <2>2, <2>3, OneMovesAlone
  <1>3. CASE ~(life[a].owner = "active" /\ factory = "up" /\ ~life[a].aborted)
    <2>1. /\ life' = [life EXCEPT ![a] = Close([life[a] EXCEPT !.pc = "closing"])]
          /\ life[a].pc \in {"reading", "repairing", "opened"}
          /\ UNCHANGED <<Registries, claim, Rest>>
      BY <1>3 DEF Prepare
    <2> QED
      BY <2>1, ClosingKeeps
  <1> QED
    BY <1>2, <1>3

\* A prepared attempt fails.
LEMMA FailingKeeps ==
    ASSUME Inv, NEW a \in Attempts, life[a].pc \in {"setup", "storing", "announcing"},
           life' = [life EXCEPT ![a] = Failing(life[a])],
           UNCHANGED <<Registries, claim, Rest>>
    PROVE  Inv'
  <1>1. /\ life[a] \in Lives /\ mounted \in BOOLEAN
        /\ Fits(life[a], sessions = a, claim = a)
        /\ factory = "down" => Settled(life[a])
    BY OneFits
  <1>2. /\ Handles(life[a], claim = a) /\ Tearing(life[a], sessions = a)
        /\ life[a].machine = "maintenance" /\ life[a].scope # "none"
        /\ life[a].disposal \in {"none", "stopping"}
    BY <1>1 DEF Fits, Stages
  <1>3. Fits(Failing(life[a]), sessions = a, claim = a)
    BY <1>1, <1>2, FailingFits
  <1>4. Failing(life[a]) \in Lives
    BY <1>1, FailingDisposes DEF Same
  <1>5. factory # "down"
    BY <1>1 DEF Settled
  <1> QED
    BY <1>3, <1>4, <1>5, OneMovesAlone

\* An awaited stage throws.
LEMMA StageFailsKeeps ==
    ASSUME Inv, NEW a \in Attempts, StageFails(a)
    PROVE  Inv'
  BY FailingKeeps DEF StageFails

\* The registries are entered, when nobody occupies them.
LEMMA PublishKeeps ==
    ASSUME Inv, NEW a \in Attempts, Publish(a)
    PROVE  Inv'
  <1>1. /\ life[a] \in Lives /\ mounted \in BOOLEAN
        /\ Fits(life[a], sessions = a, claim = a)
        /\ factory = "down" => Settled(life[a])
    BY OneFits
  <1>2. CASE Aborted(a) \/ sessions # NoOne
    BY <1>2, FailingKeeps DEF Publish
  <1>3. CASE ~(Aborted(a) \/ sessions # NoOne)
    <2> DEFINE k == [life[a] EXCEPT !.told = "created", !.pc = "announcing"]
    <2>1. /\ k \in Lives /\ k.pc = "announcing" /\ k.told = "created" /\ k.handle = life[a].handle
          /\ k.machine = life[a].machine /\ k.scope = life[a].scope /\ k.disposal = life[a].disposal
      BY <1>1, Entered DEF Same
    <2>2. /\ sessions' = a /\ agents' = a /\ claim' = claim
          /\ factory' = factory /\ mounted' = mounted /\ claim \in Attempts \union {NoOne}
      BY <1>3 DEF Publish, Rest, Inv, TypeOK
    <2>3. \/ life' = [life EXCEPT ![a] = k]
          \/ life' = [life EXCEPT ![a] = Failing(k)]
      BY <1>3 DEF Publish
    <2> HIDE DEF k
    <2>4. \A b \in Attempts \ {a} : sessions' = b <=> sessions = b
      BY <1>3, <2>2, AttemptsAssumption
    <2>5. /\ k.machine = "maintenance" /\ k.scope # "none" /\ k.disposal \in {"none", "stopping"}
          /\ Handles(k, claim = a) /\ Tearing(k, TRUE)
      BY <1>1, <2>1 DEF Publish, Fits, Stages, Handles, Tearing, Untouched, Early
    <2>6. factory # "down"
      BY <1>1 DEF Publish, Settled
    <2>7. Fits(k, TRUE, claim = a)
      BY <2>1, <2>5 DEF Fits, Stages, Early
    <2>8. Fits(Failing(k), TRUE, claim = a) /\ Failing(k) \in Lives
      BY <1>1, <2>1, <2>5, FailingFits, FailingDisposes DEF Same
    <2>9. ASSUME NEW l \in Lives, Fits(l, TRUE, claim = a), life' = [life EXCEPT ![a] = l]
          PROVE  Inv'
      <3>1. Fits(l, sessions' = a, claim' = a)
        BY <2>2, <2>9 DEF Fits, Stages, Handles, Tearing
      <3> QED
        BY <2>2, <2>4, <2>6, <2>9, <3>1, OneMoves
    <2> QED
      BY <2>1, <2>3, <2>7, <2>8, <2>9
  <1> QED
    BY <1>2, <1>3

\* The agent/created listeners have returned, or one of them vetoed.
LEMMA AnnouncedKeeps ==
    ASSUME Inv, NEW a \in Attempts, Announced(a)
    PROVE  Inv'
  <1>1. /\ life[a] \in Lives /\ mounted \in BOOLEAN
        /\ Fits(life[a], sessions = a, claim = a)
        /\ factory = "down" => Settled(life[a])
    BY OneFits
  <1>2. ASSUME NEW machine \in {"idle", "running"}, ~Aborted(a),
               life' = [life EXCEPT ![a] = [@ EXCEPT !.pc = "ready", !.machine = machine]]
        PROVE  Inv'
    <2> DEFINE l == [life[a] EXCEPT !.pc = "ready", !.machine = machine]
    <2>1. /\ l \in Lives /\ l.pc = "ready" /\ l.machine = machine /\ l.handle = life[a].handle
          /\ l.scope = life[a].scope /\ l.disposal = life[a].disposal /\ l.told = life[a].told
      BY <1>1 DEF Lives
    <2>2. life' = [life EXCEPT ![a] = l] /\ UNCHANGED <<Registries, claim, Rest>>
      BY <1>2 DEF Announced
    <2> HIDE DEF l
    <2>3. Fits(l, sessions = a, claim = a)
      BY <1>1, <1>2, <2>1 DEF Announced, Fits, Stages, Handles, Tearing, Untouched, Early
    <2>4. factory # "down"
      BY <1>1 DEF Announced, Settled
    <2> QED
      BY <2>1, <2>2, <2>3, <2>4, OneMovesAlone
  <1>3. CASE life' = [life EXCEPT ![a] = Failing(@)]
    BY <1>3, FailingKeeps DEF Announced
  <1> QED
    BY <1>2, <1>3 DEF Announced

\* The holder disposes of the agent.
LEMMA HandleDisposesKeeps ==
    ASSUME Inv, NEW a \in Attempts, HandleDisposes(a)
    PROVE  Inv'
  <1> DEFINE l == Dispose(life[a])
  <1>1. /\ life[a] \in Lives /\ mounted \in BOOLEAN
        /\ Fits(life[a], sessions = a, claim = a)
        /\ factory = "down" => Settled(life[a])
    BY OneFits
  <1>2. /\ l \in Lives /\ l.disposal = "stopping" /\ l.pc = life[a].pc /\ l.machine = life[a].machine
        /\ l.scope = life[a].scope /\ l.handle = life[a].handle /\ l.told = life[a].told
    BY <1>1, DisposeStarts DEF Same, HandleDisposes
  <1>3. life' = [life EXCEPT ![a] = l] /\ UNCHANGED <<Registries, claim, Rest>>
    BY DEF HandleDisposes
  <1> HIDE DEF l
  <1>4. Fits(l, sessions = a, claim = a)
    BY <1>1, <1>2 DEF HandleDisposes, Fits, Stages, Handles, Tearing, Untouched, Early
  <1>5. factory = "down" => Settled(l)
    BY <1>1 DEF HandleDisposes, Settled, Tracked, Fits, Stages, Handles, Tearing, Untouched, Early
  <1> QED
    BY <1>2, <1>3, <1>4, <1>5, OneMovesAlone

\* The driver is idle: the teardown unwinds the scope.
LEMMA DrainedKeeps ==
    ASSUME Inv, NEW a \in Attempts, Drained(a)
    PROVE  Inv'
  <1> DEFINE k == [life[a] EXCEPT !.disposal = "unwinding"]
             l == Unwind(k)
  <1>1. /\ life[a] \in Lives /\ mounted \in BOOLEAN
        /\ Fits(life[a], sessions = a, claim = a)
        /\ factory = "down" => Settled(life[a])
    BY OneFits
  <1>2. /\ k \in Lives /\ k.disposal = "unwinding" /\ k.pc = life[a].pc
        /\ k.machine = life[a].machine /\ k.scope = life[a].scope
        /\ k.handle = life[a].handle /\ k.told = life[a].told
    BY <1>1 DEF Lives
  <1>3. life' = [life EXCEPT ![a] = l] /\ UNCHANGED <<Registries, claim, Rest>>
    BY DEF Drained
  <1> HIDE DEF k
  <1>4. /\ l \in Lives /\ l.disposal = k.disposal /\ l.pc = k.pc /\ l.machine = k.machine
        /\ l.handle = k.handle /\ l.told = k.told
        /\ l.scope = IF k.scope = "open" THEN "unwinding" ELSE k.scope
    BY <1>2, UnwindStarts DEF Same
  <1> HIDE DEF l
  <1>5. Fits(l, sessions = a, claim = a)
    BY <1>1, <1>2, <1>4 DEF Drained, Fits, Stages, Handles, Tearing, Untouched, Early
  <1>6. factory # "down"
    BY <1>1 DEF Drained, Settled, Tracked, Fits, Tearing
  <1> QED
    BY <1>3, <1>4, <1>5, <1>6, OneMovesAlone

\* The scope is gone: the teardown closes the handle.
LEMMA UnwoundKeeps ==
    ASSUME Inv, NEW a \in Attempts, Unwound(a)
    PROVE  Inv'
  <1> DEFINE k == [life[a] EXCEPT !.disposal = "closing"]
             l == Close(k)
  <1>1. /\ life[a] \in Lives /\ mounted \in BOOLEAN
        /\ Fits(life[a], sessions = a, claim = a)
        /\ factory = "down" => Settled(life[a])
    BY OneFits
  <1>2. /\ k \in Lives /\ k.disposal = "closing" /\ k.pc = life[a].pc
        /\ k.machine = life[a].machine /\ k.scope = life[a].scope
        /\ k.handle = life[a].handle /\ k.told = life[a].told
    BY <1>1 DEF Lives
  <1>3. life' = [life EXCEPT ![a] = l] /\ UNCHANGED <<Registries, claim, Rest>>
    BY DEF Unwound
  <1> HIDE DEF k
  <1>4. /\ l \in Lives /\ l.disposal = k.disposal /\ l.pc = k.pc /\ l.machine = k.machine
        /\ l.scope = k.scope /\ l.told = k.told
        /\ l.handle = IF k.handle = "open" THEN "closing" ELSE k.handle
    BY <1>2, CloseStarts DEF Same
  <1> HIDE DEF l
  <1>5. Fits(l, sessions = a, claim = a)
    BY <1>1, <1>2, <1>4 DEF Unwound, Fits, Stages, Handles, Tearing, Untouched, Early
  <1>6. factory # "down"
    BY <1>1 DEF Unwound, Settled, Tracked, Fits, Tearing
  <1> QED
    BY <1>3, <1>4, <1>5, <1>6, OneMovesAlone

\* The claim is given back, by its holder.
LEMMA HandleClosesKeeps ==
    ASSUME Inv, NEW a \in Attempts, HandleCloses(a)
    PROVE  Inv'
  <1> DEFINE l == [life[a] EXCEPT !.handle = "closed"]
  <1>1. /\ life[a] \in Lives /\ mounted \in BOOLEAN
        /\ Fits(life[a], sessions = a, claim = a)
        /\ factory = "down" => Settled(life[a])
    BY OneFits
  <1>2. /\ sessions' = sessions /\ agents' = agents /\ factory' = factory /\ mounted' = mounted
        /\ agents = sessions /\ sessions \in Attempts \union {NoOne}
        /\ claim' = NoOne
    BY DEF HandleCloses, Registries, Rest, Inv, TypeOK
  <1>3. /\ l \in Lives /\ l.handle = "closed" /\ l.pc = life[a].pc
          /\ l.machine = life[a].machine /\ l.scope = life[a].scope
          /\ l.disposal = life[a].disposal /\ l.told = life[a].told
    BY <1>1 DEF Lives
  <1>4. life' = [life EXCEPT ![a] = l]
    BY DEF HandleCloses
  <1> HIDE DEF l
  <1>5. claim = a
    BY <1>1 DEF HandleCloses, Fits, Handles
  <1>6. \A b \in Attempts \ {a} : claim' = b <=> claim = b
    BY <1>2, <1>5, AttemptsAssumption
  <1>7. Fits(l, sessions = a, FALSE)
    BY <1>1, <1>3 DEF HandleCloses, Fits, Stages, Handles, Tearing, Untouched, Early
  <1>8. Fits(l, sessions' = a, claim' = a)
    <2>1. ~(claim' = a)
      BY <1>2, AttemptsAssumption
    <2> QED
      BY <1>2, <1>7, <2>1 DEF Fits, Stages, Handles, Tearing
  <1>9. factory = "down" => Settled(l)
    BY <1>1, <1>3 DEF Settled, Tracked
  <1> QED
    BY <1>2, <1>3, <1>4, <1>6, <1>8, <1>9, OneMoves

\* The registries are left, by their occupant.
LEMMA LeftKeeps ==
    ASSUME Inv, NEW a \in Attempts, Left(a)
    PROVE  Inv'
  <1> DEFINE told == IF life[a].told = "created" THEN "disposed" ELSE life[a].told
             l == [life[a] EXCEPT !.disposal = "done", !.told = told]
  <1>1. /\ life[a] \in Lives /\ mounted \in BOOLEAN
        /\ Fits(life[a], sessions = a, claim = a)
        /\ factory = "down" => Settled(life[a])
    BY OneFits
  <1>2. /\ claim' = claim /\ factory' = factory /\ mounted' = mounted
        /\ agents = sessions /\ sessions \in Attempts \union {NoOne}
        /\ claim \in Attempts \union {NoOne}
        /\ sessions' = IF sessions = a THEN NoOne ELSE sessions
        /\ agents' = sessions'
    BY DEF Left, Rest, Inv, TypeOK
  <1>3. /\ l \in Lives /\ l.disposal = "done" /\ l.handle = life[a].handle /\ l.pc = life[a].pc
        /\ l.machine = life[a].machine /\ l.scope = life[a].scope
        /\ l.told = told
    <2>1. told \in {"nothing", "created", "disposed"}
      BY <1>1 DEF Lives
    <2>2. l = [life[a] EXCEPT !.disposal = "done", !.told = told]
      OBVIOUS
    <2> HIDE DEF told, l
    <2>3. /\ Same(l, life[a], {"pc", "machine", "scope", "handle"})
          /\ l.disposal = "done" /\ l.told = told
      <3>1. ASSUME NEW m \in Lives, NEW t \in {"nothing", "created", "disposed"},
                   l = [m EXCEPT !.disposal = "done", !.told = t]
            PROVE  /\ Same(l, m, {"pc", "machine", "scope", "handle"})
                   /\ l.disposal = "done" /\ l.told = t
        BY <3>1, Over
      <3> QED
        BY <1>1, <2>1, <2>2, <3>1
    <2> QED
      BY <2>3 DEF Same
  <1>4. life' = [life EXCEPT ![a] = l]
    BY DEF Left
  <1> HIDE DEF l
  <1>5. /\ \A b \in Attempts \ {a} : sessions' = b <=> sessions = b
        /\ sessions' # a /\ sessions' \in Attempts \union {NoOne}
    BY <1>2, AttemptsAssumption
  <1>6. Fits(l, FALSE, claim = a)
    BY <1>1, <1>3 DEF Left, Fits, Stages, Handles, Tearing, Untouched, Early
  <1>7. Fits(l, sessions' = a, claim' = a)
    BY <1>2, <1>5, <1>6 DEF Fits, Stages, Handles, Tearing
  <1>8. factory # "down"
    BY <1>1 DEF Left, Settled, Tracked, Fits, Tearing
  <1> QED
    BY <1>2, <1>3, <1>4, <1>5, <1>7, <1>8, OneMoves

\* The owner's unload starts the disposal, or finds it begun and unwinds the
\* scope; `owner` and `waits` are nothing Fits looks at.
LEMMA OwnerUnloadsKeeps ==
    ASSUME Inv, NEW a \in Attempts, OwnerUnloads(a)
    PROVE  Inv'
  <1> DEFINE k == [life[a] EXCEPT !.owner = "unloading"]
             d == Dispose(k)
             u == Unwind(k)
  <1>1. /\ life[a] \in Lives /\ mounted \in BOOLEAN
        /\ Fits(life[a], sessions = a, claim = a)
        /\ factory = "down" => Settled(life[a])
    BY OneFits
  <1>2. Same(k, life[a], {"pc", "machine", "scope", "handle", "disposal", "told"})
    BY <1>1 DEF Same, Lives
  <1>3. /\ \/ ~Tracked(k) /\ life' = [life EXCEPT ![a] = k]
           \/ Tracked(k) /\ k.disposal = "none"
              /\ life' = [life EXCEPT ![a] = [d EXCEPT !.waits = "disposal"]]
           \/ Tracked(k) /\ k.disposal # "none"
              /\ life' = [life EXCEPT ![a] = [u EXCEPT !.waits = "scope"]]
        /\ UNCHANGED <<Registries, claim, Rest>>
    BY DEF OwnerUnloads
  <1> HIDE DEF k
  <1>4. Fits(k, sessions = a, claim = a) /\ (factory = "down" => Settled(k))
    BY <1>1, <1>2 DEF Same, Fits, Stages, Handles, Tearing, Untouched, Settled, Tracked
  <1>5. k \in Lives
    BY <1>2 DEF Same
  <1>6. CASE ~Tracked(k) /\ life' = [life EXCEPT ![a] = k]
    BY <1>3, <1>4, <1>5, <1>6, OneMovesAlone
  <1>7. CASE Tracked(k) /\ k.disposal = "none"
             /\ life' = [life EXCEPT ![a] = [d EXCEPT !.waits = "disposal"]]
    <2> DEFINE l == [d EXCEPT !.waits = "disposal"]
    <2>1. /\ Same(d, k, {"pc", "machine", "scope", "handle", "told"})
          /\ d.disposal = "stopping"
      BY <1>5, <1>7, DisposeStarts
    <2>2. life' = [life EXCEPT ![a] = l]
      BY <1>7
    <2> HIDE DEF d
    <2>3. Same(l, d, {"pc", "machine", "scope", "handle", "disposal", "told"})
      BY <2>1 DEF Same, Lives
    <2> HIDE DEF l
    <2>4. Fits(l, sessions = a, claim = a)
      BY <1>1, <1>4, <1>7, <2>1, <2>3
      DEF Same, Fits, Stages, Handles, Tearing, Untouched, Early, Tracked
    <2>5. factory # "down"
      BY <1>4, <1>7 DEF Settled
    <2> QED
      BY <1>3, <2>2, <2>3, <2>4, <2>5, OneMovesAlone DEF Same
  <1>8. CASE Tracked(k) /\ k.disposal # "none"
             /\ life' = [life EXCEPT ![a] = [u EXCEPT !.waits = "scope"]]
    <2> DEFINE l == [u EXCEPT !.waits = "scope"]
    <2>1. /\ Same(u, k, {"pc", "machine", "disposal", "handle", "told"})
          /\ u.scope = IF k.scope = "open" THEN "unwinding" ELSE k.scope
      BY <1>5, UnwindStarts
    <2>2. life' = [life EXCEPT ![a] = l]
      BY <1>8
    <2> HIDE DEF u
    <2>3. Same(l, u, {"pc", "machine", "scope", "handle", "disposal", "told"})
      BY <2>1 DEF Same, Lives
    <2> HIDE DEF l
    <2>4. Fits(l, sessions = a, claim = a)
      BY <1>1, <1>4, <1>8, <2>1, <2>3
      DEF Same, Fits, Stages, Handles, Tearing, Untouched, Early, Tracked
    <2>5. factory # "down"
      BY <1>4, <1>8 DEF Settled
    <2> QED
      BY <1>3, <2>2, <2>3, <2>4, <2>5, OneMovesAlone DEF Same
  <1> QED
    BY <1>3, <1>6, <1>7, <1>8

\* The factory's unload moves every tracked attempt at once.
LEMMA FactoryUnloadsKeeps ==
    ASSUME Inv, FactoryUnloads
    PROVE  Inv'
  <1>1. /\ sessions' = sessions /\ agents' = agents /\ claim' = claim /\ mounted' = mounted
        /\ factory' = "unloading"
        /\ life' = [a \in Attempts |->
                       IF Tracked(life[a]) THEN Unwind(Dispose(life[a])) ELSE life[a]]
    BY DEF FactoryUnloads, Registries
  <1>2. ASSUME NEW a \in Attempts
        PROVE  life'[a] \in Lives /\ Fits(life'[a], sessions = a, claim = a)
    <2> DEFINE d == Dispose(life[a])
               l == Unwind(d)
    <2>1. life[a] \in Lives /\ mounted \in BOOLEAN /\ Fits(life[a], sessions = a, claim = a)
      BY OneFits
    <2>2. CASE ~Tracked(life[a])
      BY <1>1, <2>1, <2>2
    <2>3. CASE Tracked(life[a])
      <3>1. /\ Same(d, life[a], {"pc", "machine", "scope", "handle", "told"})
            /\ d.disposal = IF life[a].disposal = "none" THEN "stopping" ELSE life[a].disposal
        BY <2>1, DisposeStarts
      <3>2. life'[a] = l
        BY <1>1, <2>3
      <3> HIDE DEF d
      <3>3. /\ Same(l, d, {"pc", "machine", "disposal", "handle", "told"})
            /\ l.scope = IF d.scope = "open" THEN "unwinding" ELSE d.scope
        BY <3>1, UnwindStarts DEF Same
      <3> HIDE DEF l
      <3>4. Fits(l, sessions = a, claim = a)
        BY <2>1, <2>3, <3>1, <3>3
        DEF Same, Fits, Stages, Handles, Tearing, Untouched, Early, Tracked
      <3> QED
        BY <3>2, <3>3, <3>4 DEF Same
    <2> QED
      BY <2>2, <2>3
  <1>3. TypeOK'
    <2>1. life' \in [Attempts -> Lives]
      BY <1>1, <1>2
    <2> QED
      BY <1>1, <2>1 DEF Inv, TypeOK
  <1>4. \A a \in Attempts : Fits(life[a], sessions = a, claim = a)'
    BY <1>1, <1>2 DEF Fits, Stages, Handles, Tearing
  <1> QED
    BY <1>1, <1>3, <1>4 DEF Inv

\* The factory's unload ends when nothing it owned is left.
LEMMA FactoryDownKeeps ==
    ASSUME Inv, FactoryDown
    PROVE  Inv'
  BY DEF Inv, FactoryDown, TypeOK, Settled, Tracked, Registries, Fits, Stages, Handles, Tearing

-----------------------------------------------------------------------------
(* Put together.                                                           *)

\* No attempt has begun.
LEMMA InvInit == Init => Inv
  <1> SUFFICES ASSUME Init PROVE Inv
    OBVIOUS
  <1>1. TypeOK
    BY DEF Init, TypeOK, Lives
  <1>2. ASSUME NEW a \in Attempts PROVE Fits(life[a], sessions = a, claim = a)
    BY AttemptsAssumption DEF Init, Fits, Stages, Handles, Tearing, Untouched, Early
  <1> QED
    BY <1>1, <1>2 DEF Inv, Init

\* Every step keeps the invariant.
LEMMA InvNext == Inv /\ [Next]_vars => Inv'
  <1> SUFFICES ASSUME Inv, [Next]_vars PROVE Inv'
    OBVIOUS
  <1>1. CASE FactoryUnloads
    BY <1>1, FactoryUnloadsKeeps
  <1>2. CASE FactoryDown
    BY <1>2, FactoryDownKeeps
  <1>3. ASSUME NEW a \in Attempts,
               \/ CreateAgent(a) \/ Resume(a) \/ OpenSucceeds(a) \/ OpenFails(a)
               \/ OpenAborted(a) \/ LateOpen(a) \/ Read(a) \/ Repair(a)
               \/ Prepare(a) \/ Settle(a) \/ SetupSettles(a) \/ StageFails(a)
               \/ Publish(a) \/ Announced(a) \/ RolledBack(a)
        PROVE  Inv'
    BY <1>3, CreateAgentKeeps, ResumeKeeps, OpenSucceedsKeeps, OpenFailsKeeps, OpenAbortedKeeps,
       LateOpenKeeps, ReadKeeps, RepairKeeps, PrepareKeeps, SettleKeeps, SetupSettlesKeeps,
       StageFailsKeeps, PublishKeeps, AnnouncedKeeps, RolledBackKeeps
  <1>4. ASSUME NEW a \in Attempts,
               \/ TurnStarts(a) \/ TurnEnds(a)
               \/ HandleDisposes(a) \/ Drained(a) \/ ScopeUnwinds(a) \/ Unwound(a)
               \/ HandleCloses(a) \/ Left(a)
               \/ OwnerUnloads(a) \/ OwnerUnloaded(a) \/ CallerAborts(a)
        PROVE  Inv'
    BY <1>4, TurnStartsKeeps, TurnEndsKeeps, HandleDisposesKeeps, DrainedKeeps, ScopeUnwindsKeeps,
       UnwoundKeeps, HandleClosesKeeps, LeftKeeps, OwnerUnloadsKeeps, OwnerUnloadedKeeps,
       CallerAbortsKeeps
  <1>5. CASE UNCHANGED vars
    BY <1>5 DEF vars, Inv, TypeOK, Fits, Stages, Handles, Tearing, Settled, Tracked
  <1> QED
    BY <1>1, <1>2, <1>3, <1>4, <1>5 DEF Next

\* A place belongs to the one attempt the registries name.
LEMMA InvHolds == Inv => PlaceIsHeld
  <1> SUFFICES ASSUME Inv PROVE PlaceIsHeld
    OBVIOUS
  <1>1. ASSUME NEW a \in Attempts
        PROVE  /\ life[a].pc \in {"announcing", "ready"} /\ life[a].disposal # "done" => agents = a
               /\ Driving(a) /\ mounted => claim = a
    BY OneFits DEF Inv, Fits, Stages, Handles, Tearing, Driving, Lives, Untouched, Early
  <1> QED
    BY <1>1 DEF PlaceIsHeld, Inv

\* An attempt that is over has given back what it took.
LEMMA InvLeaves == Inv => NothingLeft
  <1> SUFFICES ASSUME Inv, NEW a \in Attempts,
                      life[a].pc = "failed" \/ life[a].disposal = "done" \/ factory = "down"
               PROVE  /\ a \notin {sessions, agents}
                      /\ life[a].scope \in {"none", "gone"}
                      /\ ~Driving(a)
                      /\ life[a].told # "created"
                      /\ claim = a => life[a].handle = "closing"
    BY DEF NothingLeft
  <1>1. life[a] \in Lives /\ mounted \in BOOLEAN
    BY OneFits
  <1>2. Fits(life[a], sessions = a, claim = a) /\ (factory = "down" => Settled(life[a]))
    BY OneFits
  <1> QED
    BY <1>1, <1>2
    DEF Inv, Fits, Stages, Handles, Tearing, Untouched, Early, Settled, Tracked, Driving, Lives

(* However many calls race for a session id, and whoever tears down what:  *)
(* a published attempt keeps its place in both registries until its        *)
(* teardown is over, and no other attempt writes the log it drives         *)
(* (index.ts, prepareAgent, publish and the `enter`s of the registries).   *)
THEOREM PlaceHeld == Spec => []PlaceIsHeld
  BY InvInit, InvNext, InvHolds, PTL DEF Spec

(* A rolled back, disposed or unloaded attempt leaves no registry entry,   *)
(* scope, driver, unpaired announcement or held write path (index.ts, the  *)
(* memoized `dispose` and the rollbacks of createAgent and resume).        *)
THEOREM NothingIsLeft == Spec => []NothingLeft
  BY InvInit, InvNext, InvLeaves, PTL DEF Spec
=============================================================================
