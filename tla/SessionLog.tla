----------------------------- MODULE SessionLog -----------------------------
(***************************************************************************)
(* The abstract specification of everything that appends to a session log: *)
(* one contract-abiding event after the other.  The turn driver and the    *)
(* tool scheduler are each shown to implement it.                          *)
(***************************************************************************)
EXTENDS SessionTrace

VARIABLES
    trace,       \* the companion's SessionTrace record
    event        \* the event committed last

vars == <<trace, event>>

Init ==
    /\ trace = FreshTrace(FirstTurn)
    /\ event.type = "session/end-seed"

\* One accepted append.  An append that fails validation is vetoed before the
\* log changes, so it is no step of this specification.
Commit ==
    /\ event'.type \in EventTypes
    /\ Valid(trace, event')
    /\ trace' = Fold(trace, event')

Spec == Init /\ [][Commit]_vars
=============================================================================
