-------------------------- MODULE AtLeastOnceQueue --------------------------
(***************************************************************************)
(* What the message service of the agent engine promises to the parts that *)
(* publish tasks through it: a task the broker has accepted stays with the *)
(* broker until its handler has completed or until it is parked in the     *)
(* dead letter queue.  Nothing is said about order or about how often a    *)
(* handler runs: a task may complete several times, and a task that has    *)
(* completed may still be dead-lettered through a duplicate of it.         *)
(*                                                                         *)
(* MQService implements this specification (see Refines there).            *)
(***************************************************************************)
CONSTANT Msgs            \* the tasks that may be published

VARIABLES
    accepted,            \* tasks the broker has accepted and routed
    held,                \* tasks of which the broker still keeps a copy
    done,                \* tasks whose handler has returned normally
    dead                 \* tasks parked in the dead letter queue

qvars == <<accepted, held, done, dead>>

QInit ==
    /\ accepted = {}
    /\ held = {}
    /\ done = {}
    /\ dead = {}

\* A task enters the queue.
Accept(m) ==
    /\ m \notin accepted
    /\ accepted' = accepted \union {m}
    /\ held' = held \union {m}
    /\ UNCHANGED <<done, dead>>

\* The handler of a held task returns; the queue keeps the task for now.
Complete(m) ==
    /\ m \in held
    /\ done' = done \union {m}
    /\ UNCHANGED <<accepted, held, dead>>

\* A copy of the task is parked; other copies of it may remain held.
DeadLetter(m) ==
    /\ m \in held
    /\ dead' = dead \union {m}
    /\ held' \in {held, held \ {m}}
    /\ UNCHANGED <<accepted, done>>

\* The queue forgets a task, which it may do only once the task is settled.
Release(m) ==
    /\ m \in held
    /\ m \in done \union dead
    /\ held' = held \ {m}
    /\ UNCHANGED <<accepted, done, dead>>

QNext == \E m \in Msgs : Accept(m) \/ Complete(m) \/ DeadLetter(m) \/ Release(m)

QSpec == QInit /\ [][QNext]_qvars

-----------------------------------------------------------------------------
\* Every accepted task is still held, or was completed, or was parked.
NothingForgotten == accepted \subseteq held \union done \union dead

=============================================================================
