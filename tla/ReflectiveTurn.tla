--------------------------- MODULE ReflectiveTurn ---------------------------
(***************************************************************************)
(* What the orchestrator promises about a turn of a conversation: a turn   *)
(* is answered at once, or after plans that are executed and judged.  A    *)
(* plan that failed is followed by another one until there have been       *)
(* MaxIterations of them; only then, or after one that passed, is the      *)
(* planned turn answered.  A turn is answered at most once, and may be     *)
(* given up at any time.                                                   *)
(*                                                                         *)
(* Orchestrator implements this specification (see Refines there).         *)
(***************************************************************************)
EXTENDS Naturals

CONSTANT MaxIterations   \* plans of one turn

VARIABLES
    phase,               \* where the turn in progress stands, or "idle"
    plans,               \* plans made in it
    asked,               \* number of the latest turn
    answered             \* turns that were answered

tvars == <<phase, plans, asked, answered>>

TInit ==
    /\ phase = "idle"
    /\ plans = 0
    /\ asked = 0
    /\ answered = {}

Ask ==
    /\ phase = "idle"
    /\ phase' = "open"
    /\ asked' = asked + 1
    /\ UNCHANGED <<plans, answered>>

Plan ==
    /\ phase \in {"open", "failed"}
    /\ plans < MaxIterations
    /\ phase' = "planned"
    /\ plans' = plans + 1
    /\ UNCHANGED <<asked, answered>>

Verdict ==
    /\ phase = "planned"
    /\ phase' \in {"passed", "failed"}
    /\ UNCHANGED <<plans, asked, answered>>

Answer ==
    /\ \/ phase \in {"open", "passed"}
       \/ phase = "failed" /\ plans = MaxIterations
    /\ phase' = "idle"
    /\ plans' = 0
    /\ answered' = answered \union {asked}
    /\ UNCHANGED asked

GiveUp ==
    /\ phase # "idle"
    /\ phase' = "idle"
    /\ plans' = 0
    /\ UNCHANGED <<asked, answered>>

TNext == Ask \/ Plan \/ Verdict \/ Answer \/ GiveUp

TSpec == TInit /\ [][TNext]_tvars

-----------------------------------------------------------------------------
\* What follows for who asks: a turn ends after MaxIterations plans at most, and
\* is never answered a second time.
PlansBounded == plans <= MaxIterations
AnsweredOnce == phase # "idle" => asked \notin answered

=============================================================================
