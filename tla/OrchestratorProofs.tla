------------------------- MODULE OrchestratorProofs -------------------------
(***************************************************************************)
(* Proofs about Orchestrator for every bound on the plans of a turn and    *)
(* for sessions and plans of any length.                                   *)
(***************************************************************************)
EXTENDS Orchestrator, SequenceTheorems, WellFoundedInduction, TLAPS

(***************************************************************************)
(* The inductive invariant.                                                *)
(***************************************************************************)

\* A turn runs for a request that was not answered before, on a thread with at
\* least the message of the request.
InTurn ==
    node # "idle" =>
        /\ turns \in 1..MaxTurns
        /\ turns \notin answered
        /\ Len(thread) > 0

\* Only the steps inside the executor are ahead of the checkpoint.
AheadInLoop == node # "executor_loop" => thread = saved

\* What has been counted and judged when a node runs.
Counted ==
    /\ node \in {"router", "simple_handler", "code_retriever",
                 "vulnerability_analyzer", "audit_reporter"} =>
           iteration = 0 /\ verdict = "none"
    /\ node = "analyzer" =>
           /\ iteration < MaxIterations
           /\ verdict \in {"none", "failed"}
    /\ node \in {"executor", "executor_loop", "judge"} => iteration < MaxIterations
    /\ node = "reporter" =>
           verdict = "passed" \/ (verdict = "failed" /\ iteration = MaxIterations)

\* The thread ends with the messages of the first k steps of the current plan.
Latest(k) ==
    /\ Len(thread) > k
    /\ \A n \in 1..k : thread[Len(thread) - k + n] = StepMsg(iteration + 1, n)

\* The steps done so far, and no other, are at the end of the thread.
StepsDone ==
    /\ node = "executor" => step = 0 \/ plan.steps = 0
    /\ node = "executor_loop" => step <= plan.steps /\ Latest(step)

IInv ==
    /\ TypeOK
    /\ InTurn
    /\ AheadInLoop
    /\ Counted
    /\ StepsDone
    /\ JudgesWholePlan
    /\ AnswersOwnTurn

(***************************************************************************)
(* Messages and threads.                                                   *)
(***************************************************************************)

\* What a turn writes is a message.
LEMMA MsgType ==
    ASSUME turns \in 1..MaxTurns, NEW kind \in {"user", "step", "answer", "empty"}
    PROVE  Msg(kind) \in Message
<1>1. 0 \in 0..MaxIterations /\ 0 \in 0..MaxSteps
  BY IterationsAssumption, BoundsAssumption
<1> QED
  BY <1>1 DEF Msg, Message

\* So is the message of a step, within the bounds on plans and steps.
LEMMA StepMsgType ==
    ASSUME turns \in 1..MaxTurns, NEW p \in 0..MaxIterations, NEW n \in 0..MaxSteps
    PROVE  StepMsg(p, n) \in Message
  BY DEF StepMsg, Message

\* A non-empty set of indices up to n has a greatest element.
LEMMA GreatestIndex ==
    ASSUME NEW n \in Nat, NEW S, S \subseteq 1..n, S # {}
    PROVE  \E i \in S : \A j \in S : j <= i
<1> DEFINE T == {n - i : i \in S}
<1>1. T \subseteq Nat /\ T # {}
  <2>1. \A i \in S : n - i \in Nat
    OBVIOUS
  <2> QED
    BY <2>1
<1>2. \E x \in T : \A y \in T : ~(<<y, x>> \in OpToRel(<, Nat))
  BY <1>1, NatLessThanWellFounded, WFMin
<1>3. PICK x \in T : \A y \in T : ~(y < x)
  BY <1>1, <1>2 DEF OpToRel
<1>4. PICK i \in S : x = n - i
  OBVIOUS
<1>5. \A j \in S : ~(n - j < n - i)
  BY <1>3, <1>4
<1> QED
  BY <1>5

\* A thread ends with the message that was added last, and if that one says
\* something it is what the endpoint finds.
LEMMA LatestIsLast ==
    ASSUME NEW s \in Seq(Message), NEW m \in Message
    PROVE  /\ LatestSpoken(Append(s, m)) \in {NoMessage} \union Message
           /\ Speaks(m) => LatestSpoken(Append(s, m)) = m
<1> DEFINE t == Append(s, m)
           Last(i) == Speaks(t[i]) /\ \A j \in (i + 1)..Len(t) : ~Speaks(t[j])
<1>1. /\ t \in Seq(Message)
      /\ Len(t) = Len(s) + 1
      /\ t[Len(t)] = m
      /\ Len(t) \in Nat
      /\ DOMAIN t = 1..Len(t)
  BY AppendProperties
<1> HIDE DEF t
<1>2. ASSUME Speaks(m)
      PROVE  LatestSpoken(t) = m
  <2>1. Len(t) \in DOMAIN t /\ Last(Len(t))
    BY <1>1, <1>2
  <2>2. \A i \in DOMAIN t : Last(i) => i = Len(t)
    BY <1>1, <1>2
  <2>3. (CHOOSE i \in DOMAIN t : Last(i)) = Len(t)
    BY <2>1, <2>2
  <2> QED
    BY <1>1, <2>1, <2>3 DEF LatestSpoken
<1>3. ASSUME \E i \in DOMAIN t : Speaks(t[i])
      PROVE  \E i \in DOMAIN t : Last(i)
  <2>1. PICK i \in {j \in DOMAIN t : Speaks(t[j])} :
            \A j \in {k \in DOMAIN t : Speaks(t[k])} : j <= i
    BY <1>1, <1>3, GreatestIndex
  <2>2. \A j \in (i + 1)..Len(t) : j \in DOMAIN t /\ ~(j <= i)
    BY <1>1
  <2> QED
    BY <2>1, <2>2
<1>4. LatestSpoken(t) \in {NoMessage} \union Message
  <2>1. CASE \E i \in DOMAIN t : Last(i)
    <3>1. (CHOOSE i \in DOMAIN t : Last(i)) \in DOMAIN t
      BY <2>1
    <3> QED
      BY <1>1, <2>1, <3>1 DEF LatestSpoken
  <2>2. CASE ~\E i \in DOMAIN t : Speaks(t[i])
    BY <2>2 DEF LatestSpoken
  <2> QED
    BY <1>3, <2>1, <2>2
<1> QED
  BY <1>2, <1>4 DEF t

(***************************************************************************)
(* Type correctness and the other parts of the invariant, action by        *)
(* action.                                                                 *)
(***************************************************************************)

\* The invariant holds before the first request.
LEMMA InitInv == Init => IInv
<1> SUFFICES ASSUME Init
             PROVE  IInv
  OBVIOUS
<1>1. TypeOK
  BY IterationsAssumption, BoundsAssumption DEF Init, TypeOK, Plan
<1>2. InTurn /\ AheadInLoop /\ Counted /\ StepsDone
  BY DEF Init, InTurn, AheadInLoop, Counted, StepsDone
<1>3. JudgesWholePlan /\ AnswersOwnTurn
  BY DEF Init, JudgesWholePlan, AnswersOwnTurn
<1> QED
  BY <1>1, <1>2, <1>3 DEF IInv

\* While a node runs nothing is said about answers.
LEMMA RunsUnanswered ==
    ASSUME node # "idle"
    PROVE  AnswersOwnTurn
  BY DEF AnswersOwnTurn

\* The request that starts a turn, with the fields of the last one reset, keeps it.
LEMMA RequestInv ==
    ASSUME IInv, Request
    PROVE  IInv'
<1> DEFINE m == [kind |-> "user", turn |-> turns', plan |-> 0, n |-> 0]
<1>1. turns' \in 1..MaxTurns /\ turns' = turns + 1
  BY BoundsAssumption DEF Request, IInv, TypeOK
<1>2. m \in Message
  BY <1>1, IterationsAssumption, BoundsAssumption DEF Message
<1>3. /\ thread' \in Seq(Message)
      /\ Len(thread') > 0
  <2>1. thread' = Append(saved, m) /\ saved \in Seq(Message)
    BY DEF Request, IInv, TypeOK
  <2>2. Len(saved) \in Nat
    BY <2>1
  <2> QED
    BY <1>2, <2>1, <2>2, AppendProperties
<1>4. TypeOK'
  BY <1>1, <1>3, IterationsAssumption, BoundsAssumption
     DEF Request, IInv, TypeOK, Plan, Nodes
<1>5. InTurn'
  BY <1>1, <1>3 DEF Request, IInv, TypeOK, InTurn
<1>6. AheadInLoop' /\ Counted' /\ StepsDone' /\ JudgesWholePlan' /\ AnswersOwnTurn'
  BY DEF Request, AheadInLoop, Counted, StepsDone, JudgesWholePlan, AnswersOwnTurn
<1> QED
  BY <1>4, <1>5, <1>6 DEF IInv

\* An action that ends the graph answers the turn, with the answer when there
\* is one.
LEMMA EndInv ==
    ASSUME IInv, node # "idle", UNCHANGED state,
           NEW kind \in {"answer", "empty"}, End(Append(thread, Msg(kind)))
    PROVE  IInv'
<1>1. /\ turns \in 1..MaxTurns
      /\ turns' = turns
      /\ answered' = answered \union {turns}
  BY DEF IInv, InTurn, End
<1>2. Msg(kind) \in Message
  BY <1>1, MsgType
<1>3. /\ thread' = Append(thread, Msg(kind))
      /\ thread' \in Seq(Message)
      /\ thread'[Len(thread')] = Msg(kind)
  <2>1. thread' = Append(thread, Msg(kind)) /\ thread \in Seq(Message)
    BY DEF End, IInv, TypeOK
  <2> QED
    BY <1>2, <2>1, AppendProperties
<1>4. /\ returned' \in {NoMessage} \union Message
      /\ Speaks(Msg(kind)) => returned' = Msg(kind)
  BY <1>2, LatestIsLast DEF End, IInv, TypeOK
<1>5. TypeOK'
  BY <1>1, <1>3, <1>4 DEF End, state, IInv, TypeOK
<1>6. AnswersOwnTurn'
  <2>1. kind = "answer" => Speaks(Msg(kind))
    BY DEF Msg, Speaks
  <2>2. Msg("answer")' = Msg("answer") /\ Msg("empty")' = Msg("empty")
    BY <1>1 DEF Msg
  <2> QED
    BY <1>3, <1>4, <2>1, <2>2 DEF AnswersOwnTurn
<1>7. InTurn' /\ AheadInLoop' /\ Counted' /\ StepsDone' /\ JudgesWholePlan'
  BY DEF End, InTurn, AheadInLoop, Counted, StepsDone, JudgesWholePlan
<1> QED
  BY <1>5, <1>6, <1>7 DEF IInv

\* A node that goes on leaves a thread that is checkpointed, in the same turn.
LEMMA GotoInv ==
    ASSUME IInv, node # "idle", NEW next \in Nodes, Goto(next, thread)
    PROVE  /\ node' = next
           /\ thread' = thread
           /\ Len(thread) > 0
           /\ UNCHANGED <<turns, returned, answered, cut>>
           /\ InTurn'
           /\ AheadInLoop'
           /\ AnswersOwnTurn'
<1>1. node' = next /\ thread' = thread /\ saved' = thread
  BY DEF Goto
<1>2. UNCHANGED <<turns, returned, answered, cut>>
  BY DEF Goto
<1>3. next # "idle"
  BY DEF Nodes
<1> QED
  BY <1>1, <1>2, <1>3 DEF IInv, InTurn, AheadInLoop, AnswersOwnTurn

\* The router keeps it, whatever it decides and if it fails.
LEMMA RouterInv ==
    ASSUME IInv, Router
    PROVE  IInv'
<1> PICK next \in {"simple_handler", "analyzer", "code_retriever"} : Goto(next, thread)
  BY DEF Router
<1>1. next \in Nodes /\ node # "idle"
  BY DEF Nodes, Router
<1>2. /\ node' = next
      /\ thread' = thread
      /\ UNCHANGED <<turns, returned, answered, cut>>
      /\ InTurn' /\ AheadInLoop' /\ AnswersOwnTurn'
  BY <1>1, GotoInv
<1>3. TypeOK'
  BY <1>1, <1>2 DEF Router, Goto, state, IInv, TypeOK
<1>4. Counted'
  BY <1>2, IterationsAssumption DEF Router, state, IInv, Counted
<1>5. StepsDone' /\ JudgesWholePlan'
  BY <1>2 DEF StepsDone, JudgesWholePlan
<1> QED
  BY <1>2, <1>3, <1>4, <1>5 DEF IInv

\* A turn that is cut short leaves its last checkpoint and no answer.
LEMMA AbandonInv ==
    ASSUME IInv, node # "idle", node' = "idle", thread' = saved,
           cut' = cut \union {turns},
           UNCHANGED <<saved, state, turns, returned, answered>>
    PROVE  IInv'
<1>1. turns \in 1..turns /\ turns \notin answered
  BY BoundsAssumption DEF IInv, InTurn
<1>2. TypeOK'
  BY <1>1 DEF IInv, TypeOK, state
<1>3. AnswersOwnTurn'
  BY <1>1 DEF AnswersOwnTurn
<1>4. InTurn' /\ AheadInLoop' /\ Counted' /\ StepsDone' /\ JudgesWholePlan'
  BY DEF InTurn, AheadInLoop, Counted, StepsDone, JudgesWholePlan
<1> QED
  BY <1>2, <1>3, <1>4 DEF IInv

\* The analyzer keeps it, with a new plan or with none.
LEMMA AnalyzerInv ==
    ASSUME IInv, Analyzer
    PROVE  IInv'
<1>1. "executor" \in Nodes /\ node # "idle"
  BY DEF Nodes, Analyzer
<1>2. /\ node' = "executor"
      /\ thread' = thread
      /\ Len(thread) > 0
      /\ UNCHANGED <<turns, returned, answered, cut>>
      /\ InTurn' /\ AheadInLoop' /\ AnswersOwnTurn'
  BY <1>1, GotoInv DEF Analyzer
<1>3. thread[Len(thread)].kind \in {"user", "step", "answer", "empty"}
  <2>1. thread \in Seq(Message) /\ Len(thread) \in 1..Len(thread)
    BY <1>2 DEF IInv, TypeOK
  <2>2. thread[Len(thread)] \in Message
    BY <2>1
  <2> QED
    BY <2>2 DEF Message
<1>4. /\ plan' \in Plan
      /\ step' = 0 \/ (plan'.steps = 0 /\ step' = step)
  BY <1>3, BoundsAssumption DEF Analyzer, Plan
<1>5. TypeOK'
  BY <1>1, <1>2, <1>4, BoundsAssumption DEF Analyzer, Goto, IInv, TypeOK
<1>6. Counted' /\ StepsDone' /\ JudgesWholePlan'
  BY <1>2, <1>4 DEF Analyzer, IInv, Counted, StepsDone, JudgesWholePlan
<1> QED
  BY <1>2, <1>5, <1>6 DEF IInv

\* A plan has a number of steps within the bound.
LEMMA PlanSteps ==
    ASSUME TypeOK
    PROVE  plan.steps \in 0..MaxSteps
  BY BoundsAssumption DEF TypeOK, Plan, NoPlan

\* From the executor the judge gets only plans without steps.
LEMMA ExecutorSkipsInv ==
    ASSUME IInv, ExecutorSkips
    PROVE  IInv'
<1>1. "judge" \in Nodes /\ node # "idle"
  BY DEF Nodes, ExecutorSkips
<1>2. /\ node' = "judge"
      /\ thread' = thread
      /\ Len(thread) > 0
      /\ UNCHANGED <<turns, returned, answered, cut>>
      /\ InTurn' /\ AheadInLoop' /\ AnswersOwnTurn'
  BY <1>1, GotoInv DEF ExecutorSkips
<1>3. TypeOK'
  BY <1>1, <1>2 DEF ExecutorSkips, Goto, state, IInv, TypeOK
<1>4. plan.steps = 0
  BY PlanSteps DEF ExecutorSkips, IInv, StepsDone
<1>5. JudgesWholePlan'
  BY <1>2, <1>4 DEF ExecutorSkips, state, JudgesWholePlan
<1>6. Counted' /\ StepsDone'
  BY <1>2 DEF ExecutorSkips, state, IInv, Counted, StepsDone
<1> QED
  BY <1>2, <1>3, <1>5, <1>6 DEF IInv

\* The check of the step index at the start of the executor keeps it.
LEMMA ExecutorStartsInv ==
    ASSUME IInv, ExecutorStarts
    PROVE  IInv'
<1>1. plan.steps \in 0..MaxSteps /\ step \in 0..MaxSteps
  BY PlanSteps DEF IInv, TypeOK
<1>2. TypeOK'
  BY DEF ExecutorStarts, state, history, IInv, TypeOK, Nodes
<1>3. InTurn' /\ AheadInLoop' /\ Counted' /\ JudgesWholePlan' /\ AnswersOwnTurn'
  BY DEF ExecutorStarts, state, history, IInv, InTurn, AheadInLoop, Counted,
         JudgesWholePlan, AnswersOwnTurn
<1>4. step = 0 /\ Len(thread) > 0
  BY <1>1 DEF ExecutorStarts, IInv, StepsDone, InTurn
<1>5. StepsDone'
  BY <1>1, <1>4 DEF ExecutorStarts, state, StepsDone, Latest
<1> QED
  BY <1>2, <1>3, <1>5 DEF IInv

\* A step adds its message to those of the steps before it.
LEMMA ExecuteStepInv ==
    ASSUME IInv, ExecuteStep
    PROVE  IInv'
<1> DEFINE m == StepMsg(iteration + 1, step + 1)
<1>1. /\ plan.steps \in 0..MaxSteps
      /\ step \in 0..MaxSteps
      /\ step < plan.steps
      /\ iteration \in 0..MaxIterations
      /\ iteration < MaxIterations
      /\ turns \in 1..MaxTurns
      /\ thread \in Seq(Message)
      /\ Len(thread) \in Nat
      /\ step' = step + 1
  BY PlanSteps DEF ExecuteStep, IInv, TypeOK, Counted, InTurn
<1>2. m \in Message
  BY <1>1, IterationsAssumption, BoundsAssumption, StepMsgType
<1>3. /\ thread' \in Seq(Message)
      /\ Len(thread') = Len(thread) + 1
      /\ \A i \in 1..Len(thread) : thread'[i] = thread[i]
      /\ thread'[Len(thread) + 1] = m
  BY <1>1, <1>2, AppendProperties DEF ExecuteStep
<1>4. TypeOK'
  BY <1>1, <1>3, BoundsAssumption DEF ExecuteStep, history, IInv, TypeOK
<1>5. InTurn' /\ AheadInLoop' /\ Counted' /\ JudgesWholePlan' /\ AnswersOwnTurn'
  BY <1>1, <1>3 DEF ExecuteStep, history, IInv, InTurn, AheadInLoop, Counted,
         JudgesWholePlan, AnswersOwnTurn
<1>6. Latest(step)'
  <2>1. Latest(step)
    BY DEF ExecuteStep, IInv, StepsDone
  <2>2. Len(thread') > step'
    BY <1>1, <1>3, <2>1 DEF Latest
  <2>3. ASSUME NEW n \in 1..step'
        PROVE  thread'[Len(thread') - step' + n] = StepMsg(iteration + 1, n)
    <3>1. CASE n \in 1..step
      <4>1. /\ thread[Len(thread) - step + n] = StepMsg(iteration + 1, n)
            /\ Len(thread) - step + n \in 1..Len(thread)
        BY <1>1, <2>1, <3>1 DEF Latest
      <4>2. Len(thread') - step' + n = Len(thread) - step + n
        BY <1>1, <1>3
      <4> QED
        BY <1>3, <4>1, <4>2
    <3>2. CASE n = step + 1
      <4>1. Len(thread') - step' + n = Len(thread) + 1
        BY <1>1, <1>3, <3>2
      <4> QED
        BY <1>3, <3>2, <4>1
    <3> QED
      BY <1>1, <3>1, <3>2
  <2>4. \A n : StepMsg(iteration + 1, n)' = StepMsg(iteration + 1, n)
    BY DEF ExecuteStep, StepMsg
  <2> QED
    BY <2>2, <2>3, <2>4 DEF Latest, ExecuteStep, StepMsg
<1>7. StepsDone'
  BY <1>1, <1>6 DEF ExecuteStep, StepsDone
<1> QED
  BY <1>4, <1>5, <1>7 DEF IInv

\* The judge is reached from the loop with all steps done.
LEMMA ExecutorEndsInv ==
    ASSUME IInv, ExecutorEnds
    PROVE  IInv'
<1>1. "judge" \in Nodes /\ node # "idle"
  BY DEF Nodes, ExecutorEnds
<1>2. /\ node' = "judge"
      /\ thread' = thread
      /\ UNCHANGED <<turns, returned, answered, cut>>
      /\ InTurn' /\ AheadInLoop' /\ AnswersOwnTurn'
  BY <1>1, GotoInv DEF ExecutorEnds
<1>3. TypeOK'
  BY <1>1, <1>2 DEF ExecutorEnds, Goto, state, IInv, TypeOK
<1>4. step = plan.steps
  BY PlanSteps DEF ExecutorEnds, IInv, StepsDone, TypeOK
<1>5. JudgesWholePlan'
  BY <1>2, <1>4 DEF ExecutorEnds, state, IInv, StepsDone, Latest, JudgesWholePlan, StepMsg
<1>6. Counted' /\ StepsDone'
  BY <1>2 DEF ExecutorEnds, state, IInv, Counted, StepsDone
<1> QED
  BY <1>2, <1>3, <1>5, <1>6 DEF IInv

\* The judge keeps it, whatever its verdict.
LEMMA JudgeInv ==
    ASSUME IInv, Judge
    PROVE  IInv'
<1> DEFINE next == IF Replans(verdict', iteration') THEN "analyzer" ELSE "reporter"
<1>1. next \in Nodes /\ node # "idle" /\ Goto(next, thread)
  BY DEF Nodes, Judge
<1> HIDE DEF next
<1>2. /\ node' = next
      /\ thread' = thread
      /\ UNCHANGED <<turns, returned, answered, cut>>
      /\ InTurn' /\ AheadInLoop' /\ AnswersOwnTurn'
  BY <1>1, GotoInv
<1>3. /\ iteration' = iteration + 1
      /\ iteration' \in 0..MaxIterations
      /\ verdict' \in {"passed", "failed"}
  BY IterationsAssumption DEF Judge, IInv, TypeOK, Counted
<1>4. TypeOK'
  BY <1>1, <1>2, <1>3 DEF Judge, Goto, IInv, TypeOK
<1>5. Counted'
  BY <1>2, <1>3, IterationsAssumption DEF next, Replans, Counted
<1>6. StepsDone' /\ JudgesWholePlan'
  BY <1>2 DEF next, StepsDone, JudgesWholePlan
<1> QED
  BY <1>2, <1>4, <1>5, <1>6 DEF IInv

\* The nodes of the audit go on to the next of them.
LEMMA AuditInv ==
    ASSUME IInv, CodeRetriever \/ VulnerabilityAnalyzer
    PROVE  IInv'
<1> PICK next \in {"vulnerability_analyzer", "audit_reporter"} : Goto(next, thread)
  BY DEF CodeRetriever, VulnerabilityAnalyzer
<1>1. next \in Nodes /\ node \in {"code_retriever", "vulnerability_analyzer"}
  BY DEF Nodes, CodeRetriever, VulnerabilityAnalyzer
<1>2. /\ node' = next
      /\ thread' = thread
      /\ UNCHANGED <<turns, returned, answered, cut>>
      /\ InTurn' /\ AheadInLoop' /\ AnswersOwnTurn'
  BY <1>1, GotoInv
<1>3. UNCHANGED state
  BY DEF CodeRetriever, VulnerabilityAnalyzer
<1>4. TypeOK'
  BY <1>1, <1>2, <1>3 DEF Goto, state, IInv, TypeOK
<1>5. Counted' /\ StepsDone' /\ JudgesWholePlan'
  BY <1>1, <1>2, <1>3 DEF state, IInv, Counted, StepsDone, JudgesWholePlan
<1> QED
  BY <1>2, <1>4, <1>5 DEF IInv

\* The invariant is inductive.
LEMMA NextInv == IInv /\ [Next]_vars => IInv'
<1> SUFFICES ASSUME IInv, [Next]_vars
             PROVE  IInv'
  OBVIOUS
<1>1. CASE Request
  BY <1>1, RequestInv
<1>2. CASE Router
  BY <1>2, RouterInv
<1>3. CASE RouterRaises
  BY <1>3, AbandonInv DEF RouterRaises, IInv, AheadInLoop
<1>4. CASE SimpleHandler
  BY <1>4, EndInv DEF SimpleHandler
<1>5. CASE Analyzer
  BY <1>5, AnalyzerInv
<1>6. CASE ExecutorSkips
  BY <1>6, ExecutorSkipsInv
<1>7. CASE ExecutorStarts
  BY <1>7, ExecutorStartsInv
<1>8. CASE ExecuteStep
  BY <1>8, ExecuteStepInv
<1>9. CASE ExecutorEnds
  BY <1>9, ExecutorEndsInv
<1>10. CASE Judge
  BY <1>10, JudgeInv
<1>11. CASE Reporter
  BY <1>11, EndInv DEF Reporter
<1>12. CASE CodeRetriever \/ VulnerabilityAnalyzer
  BY <1>12, AuditInv
<1>13. CASE AuditReporter
  BY <1>13, EndInv DEF AuditReporter
<1>14. CASE CutShort
  BY <1>14, AbandonInv DEF CutShort
<1>15. CASE UNCHANGED vars
  BY <1>15 DEF vars, state, history, IInv, TypeOK, InTurn, AheadInLoop, Counted, StepsDone,
               Latest, StepMsg, Msg, JudgesWholePlan, AnswersOwnTurn
<1> QED
  BY <1>1, <1>2, <1>3, <1>4, <1>5, <1>6, <1>7, <1>8, <1>9, <1>10, <1>11, <1>12, <1>13,
     <1>14, <1>15 DEF Next, Run

\* What IInv says holds in every state a session reaches.
THEOREM Inductive == Spec => []IInv
  BY InitInv, NextInv, PTL DEF Spec

\* Every variable keeps its type, whatever the bounds: the counters of plans
\* and steps stay within them, and the thread is a list of messages.
THEOREM TypeCorrect == Spec => []TypeOK
<1>1. IInv => TypeOK
  BY DEF IInv
<1> QED
  BY <1>1, Inductive, PTL

\* The judge always sees the messages of all steps of the plan it judges at the
\* end of the thread, in order, whatever came before (judge.py:56-61).
THEOREM WholePlanJudged == Spec => []JudgesWholePlan
<1>1. IInv => JudgesWholePlan
  BY DEF IInv
<1> QED
  BY <1>1, Inductive, PTL

\* The endpoint never answers a request with a message of another turn, unless
\* its own answer is empty (api/v1/agent.py:105-110).
THEOREM OwnTurnAnswered == Spec => []AnswersOwnTurn
<1>1. IInv => AnswersOwnTurn
  BY DEF IInv
<1> QED
  BY <1>1, Inductive, PTL

(***************************************************************************)
(* The graph implements a reflective turn.                                 *)
(***************************************************************************)

\* What the contract sees of a node.
LEMMA PhaseOf ==
    /\ node = "idle" => Phase = "idle" /\ Plans = 0
    /\ node \in {"executor", "executor_loop", "judge"} =>
           Phase = "planned" /\ Plans = iteration + 1
    /\ node \in Nodes \ {"executor", "executor_loop", "judge"}
         /\ verdict \in {"none", "passed", "failed"} =>
           /\ Phase = IF verdict = "none" THEN "open" ELSE verdict
           /\ Plans = iteration
<1>1. CASE node = "idle"
  <2>1. Phase = "idle"
    BY <1>1 DEF Phase
  <2> QED
    BY <1>1, <2>1 DEF Plans, Nodes
<1>2. CASE node \in {"executor", "executor_loop", "judge"}
  <2>1. Phase = "planned"
    BY <1>2 DEF Phase
  <2> QED
    BY <1>2, <2>1 DEF Plans, Nodes
<1>3. CASE /\ node \in Nodes \ {"executor", "executor_loop", "judge"}
           /\ verdict \in {"none", "passed", "failed"}
  <2>1. node # "idle" /\ node \notin {"executor", "executor_loop", "judge"}
    BY <1>3 DEF Nodes
  <2>2. Phase = IF verdict = "none" THEN "open" ELSE verdict
    BY <1>3, <2>1 DEF Phase
  <2>3. Phase # "idle" /\ Phase # "planned"
    BY <1>3, <2>2
  <2> QED
    BY <2>1, <2>2, <2>3 DEF Plans
<1> QED
  BY <1>1, <1>2, <1>3

\* The same after a step.
LEMMA PhaseOfNext ==
    /\ node' = "idle" => Phase' = "idle" /\ Plans' = 0
    /\ node' \in {"executor", "executor_loop", "judge"} =>
           Phase' = "planned" /\ Plans' = iteration' + 1
    /\ node' \in Nodes \ {"executor", "executor_loop", "judge"}
         /\ verdict' \in {"none", "passed", "failed"} =>
           /\ Phase' = IF verdict' = "none" THEN "open" ELSE verdict'
           /\ Plans' = iteration'
<1>1. CASE node' = "idle"
  <2>1. Phase' = "idle"
    BY <1>1 DEF Phase
  <2> QED
    BY <1>1, <2>1 DEF Plans, Nodes
<1>2. CASE node' \in {"executor", "executor_loop", "judge"}
  <2>1. Phase' = "planned"
    BY <1>2 DEF Phase
  <2> QED
    BY <1>2, <2>1 DEF Plans, Nodes
<1>3. CASE /\ node' \in Nodes \ {"executor", "executor_loop", "judge"}
           /\ verdict' \in {"none", "passed", "failed"}
  <2>1. node' # "idle" /\ node' \notin {"executor", "executor_loop", "judge"}
    BY <1>3 DEF Nodes
  <2>2. Phase' = IF verdict' = "none" THEN "open" ELSE verdict'
    BY <1>3, <2>1 DEF Phase
  <2>3. Phase' # "idle" /\ Phase' # "planned"
    BY <1>3, <2>2
  <2> QED
    BY <2>1, <2>2, <2>3 DEF Plans
<1> QED
  BY <1>1, <1>2, <1>3

\* An initial state of the graph is one of the contract.
LEMMA InitRefines == Init => Contract!TInit
  BY PhaseOf DEF Init, Contract!TInit, Plans

\* Each action is one of the contract's or leaves what it speaks of alone.
LEMMA NextRefines == IInv /\ IInv' /\ [Next]_vars => [Contract!TNext]_(Contract!tvars)
<1> SUFFICES ASSUME IInv, IInv', [Next]_vars
             PROVE  [Contract!TNext]_(Contract!tvars)
  OBVIOUS
<1> USE PhaseOf, PhaseOfNext
<1>0. /\ iteration \in 0..MaxIterations /\ iteration' \in 0..MaxIterations
      /\ verdict \in {"none", "passed", "failed"}
      /\ verdict' \in {"none", "passed", "failed"}
  BY DEF IInv, TypeOK
<1>a. ASSUME Phase' = Phase, Plans' = Plans, turns' = turns, answered' = answered
      PROVE  UNCHANGED Contract!tvars
  BY <1>a DEF Contract!tvars, Plans
<1>b. ASSUME node # "idle", node' = "idle", turns' = turns, answered' = answered
      PROVE  Contract!GiveUp
  <2>1. Phase # "idle"
    BY <1>0, <1>b DEF Phase, Nodes, IInv, TypeOK
  <2> QED
    BY <1>b, <2>1 DEF Contract!GiveUp, Plans
<1>c. ASSUME node \in Nodes, NEW m, End(m),
             \/ Phase \in {"open", "passed"}
             \/ Phase = "failed" /\ Plans = MaxIterations
      PROVE  Contract!Answer
  BY <1>c DEF End, Contract!Answer, Plans
<1>1. CASE Request
  <2>1. Phase = "idle" /\ Plans = 0 /\ Phase' = "open" /\ Plans' = 0
    BY <1>1 DEF Request, Nodes
  <2>2. Contract!Ask
    BY <1>1, <2>1 DEF Request, Contract!Ask, Plans
  <2> QED
    BY <2>2 DEF Contract!TNext
<1>2. CASE Router
  <2>1. Phase' = Phase /\ Plans' = Plans
    BY <1>0, <1>2 DEF Router, Goto, state, Nodes
  <2> QED
    BY <1>2, <1>a, <2>1 DEF Router, Goto
<1>3. CASE RouterRaises
  BY <1>3, <1>b DEF RouterRaises, Contract!TNext
<1>4. CASE SimpleHandler \/ AuditReporter
  <2>1. Phase = "open" /\ node \in Nodes
    BY <1>0, <1>4 DEF SimpleHandler, AuditReporter, IInv, Counted, Nodes
  <2> QED
    BY <1>4, <1>c, <2>1 DEF SimpleHandler, AuditReporter, Contract!TNext
<1>5. CASE Analyzer
  <2>1. Phase \in {"open", "failed"} /\ Plans = iteration
    BY <1>0, <1>5 DEF Analyzer, IInv, Counted, Nodes
  <2>2. Phase' = "planned" /\ Plans' = iteration + 1
    BY <1>5 DEF Analyzer, Goto
  <2>3. iteration < MaxIterations
    BY <1>5 DEF Analyzer, IInv, Counted
  <2>4. Contract!Plan
    BY <1>5, <2>1, <2>2, <2>3 DEF Analyzer, Goto, Contract!Plan, Plans
  <2> QED
    BY <2>4 DEF Contract!TNext
<1>6. CASE ExecutorSkips \/ ExecutorStarts \/ ExecuteStep \/ ExecutorEnds
  <2>1. Phase' = Phase /\ Plans' = Plans
    BY <1>6 DEF ExecutorSkips, ExecutorStarts, ExecuteStep, ExecutorEnds, Goto, state
  <2> QED
    BY <1>6, <1>a, <2>1
       DEF ExecutorSkips, ExecutorStarts, ExecuteStep, ExecutorEnds, Goto, history
<1>7. CASE Judge
  <2>1. node = "judge" /\ node' \in {"analyzer", "reporter"}
    BY <1>7 DEF Judge, Goto
  <2>2. verdict' \in {"passed", "failed"} /\ iteration' = iteration + 1
    BY <1>7 DEF Judge
  <2>3. Phase = "planned" /\ Phase' = verdict' /\ Plans' = Plans
    BY <2>1, <2>2 DEF Nodes
  <2>4. Contract!Verdict
    BY <1>7, <2>2, <2>3 DEF Judge, Goto, Contract!Verdict, Plans
  <2> QED
    BY <2>4 DEF Contract!TNext
<1>8. CASE Reporter
  <2>1. /\ node \in Nodes
        /\ \/ Phase \in {"open", "passed"}
           \/ Phase = "failed" /\ Plans = MaxIterations
    BY <1>0, <1>8 DEF Reporter, IInv, Counted, Nodes
  <2> QED
    BY <1>8, <1>c, <2>1 DEF Reporter, Contract!TNext
<1>9. CASE CodeRetriever \/ VulnerabilityAnalyzer
  <2>1. Phase' = Phase /\ Plans' = Plans
    BY <1>0, <1>9 DEF CodeRetriever, VulnerabilityAnalyzer, Goto, state, Nodes
  <2> QED
    BY <1>9, <1>a, <2>1 DEF CodeRetriever, VulnerabilityAnalyzer, Goto
<1>10. CASE CutShort
  BY <1>10, <1>b DEF CutShort, Contract!TNext
<1>11. CASE UNCHANGED vars
  BY <1>11, <1>a DEF vars, state, history, Phase, Plans
<1> QED
  BY <1>1, <1>2, <1>3, <1>4, <1>5, <1>6, <1>7, <1>8, <1>9, <1>10, <1>11 DEF Next, Run

\* The graph plans, judges and answers as ReflectiveTurn says: a failed plan is
\* followed by another until there have been max_iterations of them, never
\* more, and a turn is answered after a plan that passed, after the last one
\* that may fail, or without a plan.
THEOREM Refinement == Spec => Refines
<1>1. Init => Contract!TInit
  BY InitRefines
<1>2. IInv /\ IInv' /\ [Next]_vars => [Contract!TNext]_(Contract!tvars)
  BY NextRefines
<1> QED
  BY <1>1, <1>2, Inductive, PTL DEF Spec, Refines, Contract!TSpec

\* So, by the contract alone, a request causes max_iterations plans at most
\* (graph.py, route_judge) and no turn that was answered is answered again.
THEOREM ContractKept == Spec => [](Contract!PlansBounded /\ Contract!AnsweredOnce)
<1> DEFINE Numbered == /\ Plans \in Nat /\ turns \in Nat
                       /\ answered \subseteq 1..turns
                       /\ Phase # "idle" => turns > 0
                       /\ Contract!PlansBounded /\ Contract!AnsweredOnce
<1>1. Contract!TInit => Numbered
  BY IterationsAssumption DEF Contract!TInit, Contract!PlansBounded, Contract!AnsweredOnce
<1>2. ASSUME Numbered, [Contract!TNext]_(Contract!tvars)
      PROVE  Numbered'
  <2>1. CASE Contract!Ask
    BY <1>2, <2>1 DEF Contract!Ask, Contract!PlansBounded, Contract!AnsweredOnce
  <2>2. CASE Contract!Plan
    BY <1>2, <2>2, IterationsAssumption
       DEF Contract!Plan, Contract!PlansBounded, Contract!AnsweredOnce
  <2>3. CASE Contract!Verdict
    BY <1>2, <2>3 DEF Contract!Verdict, Contract!PlansBounded, Contract!AnsweredOnce
  <2>4. CASE Contract!Answer
    <3>1. turns \in 1..turns
      BY <1>2, <2>4 DEF Contract!Answer, Contract!AnsweredOnce
    <3> QED
      BY <1>2, <2>4, <3>1, IterationsAssumption
         DEF Contract!Answer, Contract!PlansBounded, Contract!AnsweredOnce
  <2>5. CASE Contract!GiveUp
    BY <1>2, <2>5, IterationsAssumption
       DEF Contract!GiveUp, Contract!PlansBounded, Contract!AnsweredOnce
  <2>6. CASE UNCHANGED Contract!tvars
    BY <1>2, <2>6 DEF Contract!tvars, Contract!PlansBounded, Contract!AnsweredOnce
  <2> QED
    BY <1>2, <2>1, <2>2, <2>3, <2>4, <2>5, <2>6 DEF Contract!TNext
<1>3. Numbered => Contract!PlansBounded /\ Contract!AnsweredOnce
  OBVIOUS
<1> QED
  <2> HIDE DEF Numbered
  <2> QED
    BY <1>1, <1>2, <1>3, Refinement, PTL DEF Refines, Contract!TSpec

=============================================================================
