---------------------------- MODULE SessionTrace ----------------------------
(***************************************************************************)
(* The relational contract of one session's append-only event log, as the  *)
(* session invariant companion (packages/core/session/src/invariant.ts)    *)
(* states it: which core execution event may follow the events already     *)
(* committed.  The companion keeps a bounded trace of the log instead of   *)
(* the log itself, and so does this module.                                *)
(***************************************************************************)
EXTENDS Naturals

CONSTANTS
    FirstTurn,   \* turn number the next turn/start must carry
    CallIds      \* tool call identities

ASSUME FirstTurnAssumption == FirstTurn \in Nat \ {0}

\* No open turn, no open step: turns and steps are numbered from one.
None == 0

\* A "tool/not-started" event is a tool/result whose error code is
\* TOOL_NOT_STARTED; the companion treats it apart.
StepTypes == {"assistant/attempt", "assistant/message", "system/message", "developer/message"}
TurnTypes == {"request/header", "request/context"}
FreeTypes == {"user/message", "agent/inbox/spliced", "session/end-seed"}
EventTypes == StepTypes \cup TurnTypes \cup FreeTypes \cup
    {"turn/start", "turn/end", "step/start", "step/end", "tool/call", "tool/result",
     "tool/not-started"}

\* call is the call of a tool event, and of an assistant message the sequence
\* of its tool calls.
Event(type, turn, step, call) == [type |-> type, turn |-> turn, step |-> step, call |-> call]

Traces == [openTurn : Nat, openStep : Nat, nextTurn : Nat \ {0}, nextStep : Nat \ {0},
           pendingCalls : SUBSET CallIds]

FreshTrace(turn) == [openTurn |-> None, openStep |-> None, nextTurn |-> turn, nextStep |-> 1,
                     pendingCalls |-> {}]

\* Whether a candidate event may be appended after the events t summarises.
InOpenStep(t, e) == e.step # None /\ t.openTurn = e.turn /\ t.openStep = e.step

Valid(t, e) ==
    CASE e.type = "turn/start"   -> t.openTurn = None /\ e.turn = t.nextTurn
      [] e.type = "turn/end"     -> t.openTurn = e.turn /\ e.turn # None /\ t.openStep = None
      [] e.type = "step/start"   -> /\ t.openTurn = e.turn /\ e.turn # None
                                    /\ t.openStep = None /\ e.step = t.nextStep
      [] e.type \in StepTypes \cup {"step/end", "tool/call", "tool/not-started"} -> InOpenStep(t, e)
      [] e.type = "tool/result"  -> InOpenStep(t, e) /\ e.call \in t.pendingCalls
      [] e.type \in TurnTypes    -> t.openTurn # None
      [] OTHER                   -> TRUE

\* The trace after event e commits.
Fold(t, e) ==
    CASE e.type = "turn/start"  -> [t EXCEPT !.openTurn = e.turn, !.nextStep = 1]
      [] e.type = "turn/end"    -> [t EXCEPT !.openTurn = None, !.nextTurn = @ + 1]
      [] e.type = "step/start"  -> [t EXCEPT !.openStep = e.step]
      [] e.type = "step/end"    -> [t EXCEPT !.openStep = None, !.nextStep = @ + 1,
                                             !.pendingCalls = {}]
      [] e.type = "tool/call"   -> [t EXCEPT !.pendingCalls = @ \cup {e.call}]
      [] e.type \in {"tool/result", "tool/not-started"} -> [t EXCEPT !.pendingCalls = @ \ {e.call}]
      [] OTHER                  -> t
=============================================================================
