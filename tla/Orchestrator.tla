---------------------------- MODULE Orchestrator ----------------------------
(***************************************************************************)
(* The orchestrator graph of one session (src/app/core/orchestrator): the  *)
(* nodes and edges of graph.py, run by LangGraph one after another for     *)
(* each request of api/v1/agent.py.                                        *)
(*                                                                         *)
(* A node reads and writes the OrchestratorState; LangGraph checkpoints it *)
(* when the node has returned, so that a turn cut short leaves the thread  *)
(* as the last node but one left it.  The next request starts at the       *)
(* router with all fields but the messages set anew.  What the nodes do to *)
(* the memories is in ShortMemory and LongTermExtract; requests of one     *)
(* session that overlap are in RedisPostgresSaver.                         *)
(*                                                                         *)
(* A model call has any outcome, failure included, at any time.            *)
(***************************************************************************)
EXTENDS Integers, Sequences

CONSTANTS
    MaxIterations,    \* max_iterations, api/v1/agent.py:41
    MaxTurns,         \* bound of the model: requests of the session
    MaxSteps          \* bound of the model: steps of an execution plan

ASSUME IterationsAssumption == MaxIterations \in Nat \ {0}
ASSUME BoundsAssumption == MaxTurns \in Nat /\ MaxSteps \in Nat

VARIABLES
    node,         \* the node that runs, or "idle"
    thread,       \* messages of the run in progress
    saved,        \* messages of the latest checkpoint
    plan,         \* execution_plan
    step,         \* current_step_index
    iteration,    \* iteration_count
    verdict,      \* passed of judge_result, "none" when there is no result
    turns,        \* requests so far, at most MaxTurns
    returned,     \* the message the request was answered with
    answered,     \* history: turns that ran to the end of the graph
    cut           \* history: turns that were cut short from outside

state == <<plan, step, iteration, verdict>>
history == <<answered, cut>>
vars == <<node, thread, saved, state, turns, returned, history>>

Nodes == {"router", "simple_handler", "analyzer", "executor", "executor_loop", "judge",
          "reporter", "code_retriever", "vulnerability_analyzer", "audit_reporter"}

\* A message and the turn it belongs to.  A step has the number of its plan in
\* the turn and its own number in the plan; an answer may be an empty text.
Message == [kind : {"user", "step", "answer", "empty"}, turn : 1..MaxTurns,
            plan : 0..MaxIterations, n : 0..MaxSteps]
Msg(kind) == [kind |-> kind, turn |-> turns, plan |-> 0, n |-> 0]
StepMsg(p, n) == [kind |-> "step", turn |-> turns, plan |-> p, n |-> n]

\* A plan has `steps` steps; `about` is the message it was made for.
NoPlan == [steps |-> 0, about |-> "none"]
Plan == {NoPlan} \union [steps : 0..MaxSteps, about : {"user", "step", "answer", "empty"}]
NoMessage == [kind |-> "none"]

TypeOK ==
    /\ node \in Nodes \union {"idle"}
    /\ thread \in Seq(Message)
    /\ saved \in Seq(Message)
    /\ plan \in Plan
    /\ step \in 0..MaxSteps
    /\ iteration \in 0..MaxIterations
    /\ verdict \in {"none", "passed", "failed"}
    /\ turns \in 0..MaxTurns
    /\ returned \in {NoMessage} \union Message
    /\ answered \subseteq 1..turns
    /\ cut \subseteq 1..turns

Init ==
    /\ node = "idle"
    /\ thread = <<>>
    /\ saved = <<>>
    /\ plan = NoPlan
    /\ step = 0
    /\ iteration = 0
    /\ verdict = "none"
    /\ turns = 0
    /\ returned = NoMessage
    /\ answered = {}
    /\ cut = {}

\* A node returns these messages: LangGraph checkpoints them and goes on to the
\* next node.
Goto(next, messages) ==
    /\ node' = next
    /\ thread' = messages
    /\ saved' = messages
    /\ UNCHANGED <<turns, returned, answered, cut>>

\* The latest message that is the model's and not empty, if there is any.
Speaks(m) == m.kind \in {"step", "answer"}
LatestSpoken(messages) ==
    IF \E i \in DOMAIN messages : Speaks(messages[i])
    THEN messages[CHOOSE i \in DOMAIN messages :
                     /\ Speaks(messages[i])
                     /\ \A j \in (i + 1)..Len(messages) : ~Speaks(messages[j])]
    ELSE NoMessage

\* The last node returns these messages: the graph has ended, and the endpoint
\* answers with the latest of them that says something.
End(messages) ==
    /\ node' = "idle"
    /\ thread' = messages
    /\ saved' = messages
    /\ answered' = answered \union {turns}
    /\ returned' = LatestSpoken(messages)
    /\ UNCHANGED <<turns, cut>>

-----------------------------------------------------------------------------
(* A request and its route.                                                *)

\* The initial state sets all fields anew and adds the user's message.
Request ==
    /\ node = "idle"
    /\ turns < MaxTurns
    /\ turns' = turns + 1
    /\ node' = "router"
    /\ thread' = Append(saved, [kind |-> "user", turn |-> turns', plan |-> 0, n |-> 0])
    /\ saved' = thread'
    /\ plan' = NoPlan
    /\ step' = 0
    /\ iteration' = 0
    /\ verdict' = "none"
    /\ returned' = NoMessage
    /\ UNCHANGED <<answered, cut>>

\* Patterns or the model tell what kind of task it is.
Router ==
    /\ node = "router"
    /\ \E next \in {"simple_handler", "analyzer", "code_retriever"} : Goto(next, thread)
    /\ UNCHANGED state

\* The model call of the router is the one that is not guarded.
RouterRaises ==
    /\ node = "router"
    /\ node' = "idle"
    /\ cut' = cut \union {turns}
    /\ UNCHANGED <<thread, saved, state, turns, returned, answered>>

\* The reply, an error message, or whatever little the model has said.
SimpleHandler ==
    /\ node = "simple_handler"
    /\ \E kind \in {"answer", "empty"} : End(Append(thread, Msg(kind)))
    /\ UNCHANGED state

-----------------------------------------------------------------------------
(* Plan, execute, judge, report.                                           *)

\* Mutant: the step index of the old plan stays.
BugKeepIndex ==
    /\ node = "analyzer"
    /\ \E n \in 0..MaxSteps : plan' = [steps |-> n, about |-> thread[Len(thread)].kind]
    /\ Goto("executor", thread)
    /\ UNCHANGED <<step, iteration, verdict>>

\* The last message is what a plan is made for.  When the model call fails the
\* plan is empty, and the step index stays where the old plan left it.
Analyzer ==
    /\ node = "analyzer"
    /\ LET about == thread[Len(thread)].kind
       IN  \/ /\ \E n \in 0..MaxSteps : plan' = [steps |-> n, about |-> about]
              /\ step' = 0
           \/ /\ plan' = [steps |-> 0, about |-> about]
              /\ step' = step
    /\ Goto("executor", thread)
    /\ UNCHANGED <<iteration, verdict>>

\* No plan, no steps, or all of them done.
ExecutorSkips ==
    /\ node = "executor"
    /\ plan.steps = 0 \/ step >= plan.steps
    /\ Goto("judge", thread)
    /\ UNCHANGED state

ExecutorStarts ==
    /\ node = "executor"
    /\ step < plan.steps
    /\ node' = "executor_loop"
    /\ UNCHANGED <<thread, saved, state, turns, returned, history>>

\* A step that fails leaves a message like one that does not.
ExecuteStep ==
    /\ node = "executor_loop"
    /\ step < plan.steps
    /\ thread' = Append(thread, StepMsg(iteration + 1, step + 1))
    /\ step' = step + 1
    /\ UNCHANGED <<node, saved, plan, iteration, verdict, turns, returned, history>>

ExecutorEnds ==
    /\ node = "executor_loop"
    /\ step >= plan.steps
    /\ Goto("judge", thread)
    /\ UNCHANGED state

\* Mutants: one plan too many; no bound on the plans of a turn.
BugOneMore(v, count) == v = "failed" /\ count <= MaxIterations
BugNoBound(v, count) == v = "failed"

\* route_judge: whether there is another plan.
Replans(v, count) == v = "failed" /\ count < MaxIterations

\* Mutant: a model call that fails is not caught.
BugJudgeRaises ==
    /\ node = "judge"
    /\ \/ /\ verdict' \in IF plan.steps = 0 THEN {"passed"} ELSE {"passed", "failed"}
          /\ iteration' = iteration + 1
          /\ Goto(IF Replans(verdict', iteration') THEN "analyzer" ELSE "reporter", thread)
       \/ /\ node' = "idle"
          /\ UNCHANGED <<thread, saved, iteration, verdict, turns, returned, history>>
    /\ UNCHANGED <<plan, step>>

\* An empty plan passes, any other as the model says, and fails when it cannot
\* be asked.
Judge ==
    /\ node = "judge"
    /\ verdict' \in IF plan.steps = 0 THEN {"passed"} ELSE {"passed", "failed"}
    /\ iteration' = iteration + 1
    /\ Goto(IF Replans(verdict', iteration') THEN "analyzer" ELSE "reporter", thread)
    /\ UNCHANGED <<plan, step>>

\* Mutant: a summary that fails leaves no message.
BugSilentReporter ==
    /\ node = "reporter"
    /\ End(Append(thread, Msg("answer"))) \/ End(thread)
    /\ UNCHANGED state

\* The summary or an error message.  Cutting the list of messages down does not
\* take any from the thread: add_messages only adds and replaces.
Reporter ==
    /\ node = "reporter"
    /\ \E kind \in {"answer", "empty"} : End(Append(thread, Msg(kind)))
    /\ UNCHANGED state

-----------------------------------------------------------------------------
(* The chain of a code audit.                                              *)

\* A failed retrieval gives an empty context.
CodeRetriever ==
    /\ node = "code_retriever"
    /\ Goto("vulnerability_analyzer", thread)
    /\ UNCHANGED state

\* A file whose analysis fails is left out or reported as unknown.
VulnerabilityAnalyzer ==
    /\ node = "vulnerability_analyzer"
    /\ Goto("audit_reporter", thread)
    /\ UNCHANGED state

\* The report of the model, or the fallback report.
AuditReporter ==
    /\ node = "audit_reporter"
    /\ \E kind \in {"answer", "empty"} : End(Append(thread, Msg(kind)))
    /\ UNCHANGED state

-----------------------------------------------------------------------------

\* The client goes away or the process stops: what the running node has done to
\* the state is lost.
CutShort ==
    /\ node # "idle"
    /\ node' = "idle"
    /\ thread' = saved
    /\ cut' = cut \union {turns}
    /\ UNCHANGED <<saved, state, turns, returned, answered>>

Run ==
    \/ Router
    \/ RouterRaises
    \/ SimpleHandler
    \/ Analyzer
    \/ ExecutorSkips
    \/ ExecutorStarts
    \/ ExecuteStep
    \/ ExecutorEnds
    \/ Judge
    \/ Reporter
    \/ CodeRetriever
    \/ VulnerabilityAnalyzer
    \/ AuditReporter

Next == Request \/ Run \/ CutShort

\* A node that runs goes on: a model call returns or fails.
Spec == Init /\ [][Next]_vars /\ WF_vars(Run)

-----------------------------------------------------------------------------
(* Properties.                                                             *)

\* When the judge runs (judge.py:56-61), the thread ends with the messages of
\* all steps of the plan it judges, in order, whatever earlier plans, turns cut
\* short and failed analyses have left in the state.
JudgesWholePlan ==
    node = "judge" =>
        /\ Len(thread) > plan.steps
        /\ \A n \in 1..plan.steps :
              thread[Len(thread) - plan.steps + n] = StepMsg(iteration + 1, n)

\* What the endpoint returns (api/v1/agent.py:105-110) is the answer of this
\* very turn, unless that answer is empty.
AnswersOwnTurn ==
    node = "idle" /\ turns \in answered =>
        \/ returned = Msg("answer")
        \/ thread[Len(thread)] = Msg("empty")

\* Every request comes to an answer, unless its router raised or it was cut
\* short: failing model calls of other nodes, empty plans and failed verdicts
\* do not keep it from one.
EveryTurnAnswered ==
    \A t \in 1..MaxTurns : turns = t ~> t \in answered \union cut

\* A turn of the graph is a reflective turn: replanning goes on until a plan
\* has passed or max_iterations is reached, never further.
Phase ==
    IF node = "idle" THEN "idle"
    ELSE IF node \in {"executor", "executor_loop", "judge"} THEN "planned"
    ELSE IF verdict = "none" THEN "open"
    ELSE verdict

Plans ==
    CASE Phase = "idle" -> 0
      [] Phase = "planned" -> iteration + 1
      [] OTHER -> iteration

Contract == INSTANCE ReflectiveTurn WITH phase <- Phase, plans <- Plans, asked <- turns

Refines == Contract!TSpec

\* Each plan is made for the user's message (README.md:164).
PlannedForRequest == plan # NoPlan => plan.about = "user"

=============================================================================
