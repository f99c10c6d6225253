--------------------------- MODULE MQServiceProofs --------------------------
(***************************************************************************)
(* Proofs about MQService for every set of tasks, every prefetch window,   *)
(* every retry limit and any number of faults.                             *)
(***************************************************************************)
EXTENDS MQService, FiniteSetTheorems, FunctionTheorems, TLAPS

(***************************************************************************)
(* Deliveries.                                                             *)
(***************************************************************************)

\* What a busy consumer task works on is a copy with a legal retry count.
LEMMA BusyType ==
    ASSUME TypeOK, NEW t \in Tasks, Busy(t)
    PROVE  /\ task[t] \in [pc : Steps, m : Msgs, r : Retries]
           /\ task[t].pc \in Steps
           /\ task[t].m \in Msgs
           /\ task[t].r \in Retries
           /\ task[t].r \in Nat
<1>1. task[t] \in Delivery
  BY DEF TypeOK
<1>2. task[t] # Idle
  BY DEF Busy, Idle
<1>3. task[t] \in [pc : Steps, m : Msgs, r : Retries]
  BY <1>1, <1>2 DEF Delivery
<1> QED
  BY <1>3 DEF Retries

\* The names of the steps are all different from "idle".
LEMMA StepsBusy == \A s \in Steps : s # "idle"
  BY DEF Steps

\* The number of unacknowledged copies is a number, and is positive exactly
\* when there is one.
LEMMA UnackedCount ==
    ASSUME NEW c
    PROVE  /\ Cardinality(Unacked(c)) \in Nat
           /\ Cardinality(Unacked(c)) > 0 <=> Unacked(c) # {}
<1>1. Unacked(c) \subseteq Tasks
  BY DEF Unacked
<1>2. IsFiniteSet(Unacked(c))
  BY <1>1, TasksAssumption, FS_Subset
<1>3. Cardinality(Unacked(c)) \in Nat
  BY <1>2, FS_CardinalityType
<1>4. Cardinality(Unacked(c)) = 0 <=> Unacked(c) = {}
  BY <1>2, FS_EmptySet
<1> QED
  BY <1>3, <1>4

\* A busy task holds its copy at the broker.
LEMMA BusyHolds ==
    ASSUME NEW t \in Tasks, Busy(t)
    PROVE  Holds(task[t].m, task[t].r)
  BY DEF Holds, Unacked, CopyOf

(***************************************************************************)
(* How each action changes what the broker holds.                          *)
(***************************************************************************)

\* An action that leaves the queue alone and lets no task start or finish
\* leaves the held copies alone.
LEMMA SameHolds ==
    ASSUME ready' = ready,
           \A t \in Tasks : Busy(t)' <=> Busy(t),
           \A t \in Tasks : Busy(t) => CopyOf(t)' = CopyOf(t),
           NEW m, NEW r
    PROVE  Holds(m, r)' <=> Holds(m, r)
<1>1. Unacked(<<m, r>>)' = Unacked(<<m, r>>)
  BY DEF Unacked
<1> QED
  BY <1>1 DEF Holds

\* A step inside _on_message that keeps the copy keeps what is held.
LEMMA StepHolds ==
    ASSUME TypeOK, NEW t \in Tasks, Busy(t), NEW s \in Steps,
           task' = [task EXCEPT ![t].pc = s],
           ready' = ready,
           NEW m, NEW r
    PROVE  Holds(m, r)' <=> Holds(m, r)
<1>1. task[t] \in [pc : Steps, m : Msgs, r : Retries]
  BY BusyType
<1>2. task'[t] = [pc |-> s, m |-> task[t].m, r |-> task[t].r]
  BY <1>1 DEF TypeOK
<1>3. \A u \in Tasks : u # t => task'[u] = task[u]
  BY DEF TypeOK
<1>4. s # "idle"
  BY StepsBusy
<1>5. \A u \in Tasks : Busy(u)' <=> Busy(u)
  BY <1>2, <1>3, <1>4 DEF Busy
<1>6. \A u \in Tasks : Busy(u) => CopyOf(u)' = CopyOf(u)
  BY <1>2, <1>3 DEF CopyOf
<1> QED
  BY <1>5, <1>6, SameHolds

\* Giving the unacknowledged copies back to the queue loses none and adds
\* none.
LEMMA RequeueHolds ==
    ASSUME TypeOK, RequeueUnacked, NEW m \in Msgs, NEW r \in Retries
    PROVE  Holds(m, r)' <=> Holds(m, r)
<1> DEFINE c == <<m, r>>
<1>1. c \in Copies
  BY DEF Copies
<1>2. ready[c] \in Nat
  BY <1>1 DEF TypeOK
<1>3. ready'[c] = ready[c] + Cardinality(Unacked(c))
  BY <1>1 DEF RequeueUnacked
<1>4. \A t \in Tasks : ~Busy(t)'
  BY DEF RequeueUnacked, Busy, Idle
<1>5. Unacked(c)' = {}
  BY <1>4 DEF Unacked
<1>6. Holds(m, r)' <=> ready'[c] > 0
  BY <1>5 DEF Holds
<1>7. Holds(m, r) <=> ready[c] > 0 \/ Unacked(c) # {}
  BY DEF Holds
<1>8. /\ Cardinality(Unacked(c)) \in Nat
      /\ Cardinality(Unacked(c)) > 0 <=> Unacked(c) # {}
  BY UnackedCount
<1> HIDE DEF c
<1> QED
  BY <1>2, <1>3, <1>6, <1>7, <1>8

\* Delivering a copy moves it from the queue to a task.
LEMMA DeliverHolds ==
    ASSUME TypeOK, NEW t \in Tasks, NEW c \in Copies, Deliver(t, c),
           NEW m \in Msgs, NEW r \in Retries
    PROVE  Holds(m, r)' <=> Holds(m, r)
<1>1. task'[t] = [pc |-> "handling", m |-> c[1], r |-> c[2]]
  BY DEF Deliver, TypeOK
<1>2. c = <<c[1], c[2]>>
  BY DEF Copies
<1>3. t \in Unacked(c)'
  BY <1>1, <1>2 DEF Unacked, Busy, CopyOf
<1>4. \A u \in Tasks : u # t => task'[u] = task[u]
  BY DEF Deliver, TypeOK
<1>5. ~Busy(t)
  BY DEF Deliver
<1>6. CASE c = <<m, r>>
  <2>1. ready[c] > 0
    BY DEF Deliver
  <2> QED
    BY <1>3, <1>6, <2>1 DEF Holds
<1>7. CASE c # <<m, r>>
  <2>1. <<m, r>> \in Copies
    BY DEF Copies
  <2>2. ready'[<<m, r>>] = ready[<<m, r>>]
    BY <1>7, <2>1 DEF Deliver, TypeOK
  <2>3. t \notin Unacked(<<m, r>>)'
    BY <1>1, <1>2, <1>7 DEF Unacked, CopyOf
  <2>4. t \notin Unacked(<<m, r>>)
    BY <1>5 DEF Unacked
  <2>5. \A u \in Tasks : u # t => (u \in Unacked(<<m, r>>)' <=> u \in Unacked(<<m, r>>))
    BY <1>4 DEF Unacked, Busy, CopyOf
  <2>6. Unacked(<<m, r>>)' = Unacked(<<m, r>>)
    <3>1. Unacked(<<m, r>>) \subseteq Tasks
      BY DEF Unacked
    <3>2. Unacked(<<m, r>>)' \subseteq Tasks
      BY DEF Unacked
    <3> QED
      BY <2>3, <2>4, <2>5, <3>1, <3>2
  <2> QED
    BY <2>2, <2>6 DEF Holds
<1> QED
  BY <1>6, <1>7

\* A task that becomes idle releases its own copy and no other.
LEMMA ReleaseHolds ==
    ASSUME TypeOK, NEW t \in Tasks, Busy(t),
           task' = [task EXCEPT ![t] = Idle],
           ready' = ready,
           NEW m, NEW r
    PROVE  /\ Holds(m, r)' => Holds(m, r)
           /\ Holds(m, r) => Holds(m, r)' \/ CopyOf(t) = <<m, r>>
<1>1. task'[t] = Idle
  BY DEF TypeOK
<1>2. ~Busy(t)'
  BY <1>1 DEF Busy, Idle
<1>3. \A u \in Tasks : u # t => task'[u] = task[u]
  BY DEF TypeOK
<1>4. \A u \in Tasks : u # t => (u \in Unacked(<<m, r>>)' <=> u \in Unacked(<<m, r>>))
  BY <1>3 DEF Unacked, Busy, CopyOf
<1>5. t \notin Unacked(<<m, r>>)'
  BY <1>2 DEF Unacked
<1>6. Unacked(<<m, r>>)' \subseteq Unacked(<<m, r>>)
  <2>1. Unacked(<<m, r>>)' \subseteq Tasks
    BY DEF Unacked
  <2> QED
    BY <1>4, <1>5, <2>1
<1>7. Unacked(<<m, r>>) \ {t} \subseteq Unacked(<<m, r>>)'
  <2>1. Unacked(<<m, r>>) \subseteq Tasks
    BY DEF Unacked
  <2> QED
    BY <1>4, <2>1
<1>8. t \in Unacked(<<m, r>>) => CopyOf(t) = <<m, r>>
  BY DEF Unacked
<1> QED
  BY <1>6, <1>7, <1>8 DEF Holds

\* Publishing a task adds the copy with retry count 0.
LEMMA PublishHolds ==
    ASSUME TypeOK, NEW p \in Msgs, Publish(p), NEW m \in Msgs, NEW r \in Retries
    PROVE  Holds(m, r)' <=> Holds(m, r) \/ <<m, r>> = <<p, 0>>
<1>1. 0 \in Retries
  BY MaxRetriesAssumption DEF Retries
<1>2. <<p, 0>> \in Copies /\ <<m, r>> \in Copies
  BY <1>1 DEF Copies
<1>3. ready'[<<p, 0>>] > 0
  BY <1>2 DEF Publish, TypeOK
<1>4. <<m, r>> # <<p, 0>> => ready'[<<m, r>>] = ready[<<m, r>>]
  BY <1>2 DEF Publish, TypeOK
<1>5. Unacked(<<m, r>>)' = Unacked(<<m, r>>)
  BY DEF Publish, Unacked, Busy, CopyOf
<1> QED
  BY <1>3, <1>4, <1>5 DEF Holds

\* Republishing adds the copy with the next retry count.
LEMMA RepublishHolds ==
    ASSUME TypeOK, NEW t \in Tasks, Republish(t), NEW m \in Msgs, NEW r \in Retries
    PROVE  Holds(m, r)' <=> Holds(m, r) \/ <<m, r>> = <<task[t].m, task[t].r + 1>>
<1> DEFINE n == <<task[t].m, task[t].r + 1>>
<1>1. Busy(t)
  BY DEF Republish, Busy
<1>2. task[t] \in [pc : Steps, m : Msgs, r : Retries]
  BY <1>1, BusyType
<1>3. n \in Copies /\ <<m, r>> \in Copies
  BY <1>2, MaxRetriesAssumption DEF Republish, Copies, Retries
<1>4. ready'[n] > 0
  BY <1>3 DEF Republish, TypeOK
<1>5. <<m, r>> # n => ready'[<<m, r>>] = ready[<<m, r>>]
  BY <1>3 DEF Republish, TypeOK
<1>6. task'[t] = [pc |-> "republished", m |-> task[t].m, r |-> task[t].r]
  BY <1>2 DEF Republish, TypeOK
<1>7. \A u \in Tasks : u # t => task'[u] = task[u]
  BY DEF Republish, TypeOK
<1>8. \A u \in Tasks : /\ Busy(u)' <=> Busy(u)
                       /\ Busy(u) => CopyOf(u)' = CopyOf(u)
  BY <1>1, <1>6, <1>7 DEF Busy, CopyOf
<1>9. Unacked(<<m, r>>)' = Unacked(<<m, r>>)
  BY <1>8 DEF Unacked
<1> HIDE DEF n
<1>10. QED
  BY <1>4, <1>5, <1>9 DEF Holds, n

(***************************************************************************)
(* Type correctness.                                                       *)
(***************************************************************************)

\* A busy task's record with another step is still a delivery.
LEMMA StepType ==
    ASSUME TypeOK, NEW t \in Tasks, Busy(t), NEW s \in Steps
    PROVE  [task EXCEPT ![t].pc = s] \in [Tasks -> Delivery]
<1>1. task[t] \in [pc : Steps, m : Msgs, r : Retries]
  BY BusyType
<1>2. [task[t] EXCEPT !.pc = s] = [pc |-> s, m |-> task[t].m, r |-> task[t].r]
  BY <1>1
<1>3. [pc |-> s, m |-> task[t].m, r |-> task[t].r] \in Delivery
  BY <1>1 DEF Delivery
<1> QED
  BY <1>2, <1>3 DEF TypeOK

\* Requeueing keeps the counters natural numbers.
LEMMA RequeueType ==
    ASSUME TypeOK, RequeueUnacked
    PROVE  /\ ready' \in [Copies -> Nat]
           /\ redelivered' \in [Msgs -> Nat]
           /\ task' \in [Tasks -> Delivery]
<1>1. ready' \in [Copies -> Nat]
  <2>1. \A c \in Copies : ready[c] + Cardinality(Unacked(c)) \in Nat
    BY UnackedCount DEF TypeOK
  <2> QED
    BY <2>1 DEF RequeueUnacked
<1>2. redelivered' \in [Msgs -> Nat]
  <2> SUFFICES ASSUME NEW m \in Msgs
               PROVE  redelivered[m]
                        + Cardinality({t \in Tasks : Busy(t) /\ task[t].m = m}) \in Nat
    BY DEF RequeueUnacked
  <2> DEFINE out == {t \in Tasks : Busy(t) /\ task[t].m = m}
  <2>1. IsFiniteSet(out)
    BY TasksAssumption, FS_Subset
  <2>2. Cardinality(out) \in Nat
    BY <2>1, FS_CardinalityType
  <2> QED
    BY <2>2 DEF TypeOK
<1>3. task' \in [Tasks -> Delivery]
  BY DEF RequeueUnacked, Delivery
<1> QED
  BY <1>1, <1>2, <1>3

\* A fault stays in its bound.
LEMMA FaultType ==
    ASSUME TypeOK, Fault
    PROVE  faults' \in 0..MaxFaults
  BY MaxFaultsAssumption DEF TypeOK, Fault

\* The initial states are type correct.
LEMMA InitType == Init => TypeOK
<1> SUFFICES ASSUME Init
             PROVE  TypeOK
  OBVIOUS
<1>1. ready \in [Copies -> Nat]
  BY DEF Init
<1>2. task \in [Tasks -> Delivery]
  BY DEF Init, Delivery
<1>3. failures \in [Msgs -> Nat] /\ redelivered \in [Msgs -> Nat]
  BY DEF Init
<1>4. faults \in 0..MaxFaults
  BY MaxFaultsAssumption DEF Init
<1> QED
  BY <1>1, <1>2, <1>3, <1>4 DEF Init, TypeOK

\* Every step keeps every variable in its type.
LEMMA NextType == TypeOK /\ [Next]_vars => TypeOK'
<1> SUFFICES ASSUME TypeOK, [Next]_vars
             PROVE  TypeOK'
  OBVIOUS
<1>1. CASE StartWorkers
  BY <1>1 DEF StartWorkers, TypeOK, history
<1>2. CASE StartWorkersFails
  BY <1>2, FaultType DEF StartWorkersFails, TypeOK, history
<1>3. CASE ConnectionLost
  BY <1>3, FaultType, RequeueType DEF ConnectionLost, TypeOK
<1>4. CASE Reconnect
  BY <1>4 DEF Reconnect, TypeOK, history, broker
<1>5. CASE Restart
  BY <1>5, FaultType, RequeueType DEF Restart, TypeOK
<1>6. ASSUME NEW m \in Msgs, Publish(m)
      PROVE  TypeOK'
  <2>1. <<m, 0>> \in Copies
    BY MaxRetriesAssumption DEF Copies, Retries
  <2>2. ready' \in [Copies -> Nat]
    BY <1>6, <2>1 DEF Publish, TypeOK
  <2> QED
    BY <1>6, <2>2 DEF Publish, TypeOK
<1>7. ASSUME NEW t \in Tasks, NEW c \in Copies, Deliver(t, c)
      PROVE  TypeOK'
  <2>1. ready' \in [Copies -> Nat]
    BY <1>7 DEF Deliver, TypeOK
  <2>2. [pc |-> "handling", m |-> c[1], r |-> c[2]] \in Delivery
    BY DEF Delivery, Steps, Copies
  <2>3. task' \in [Tasks -> Delivery]
    BY <1>7, <2>2 DEF Deliver, TypeOK
  <2> QED
    BY <1>7, <2>1, <2>3 DEF Deliver, TypeOK, history
<1>8. ASSUME NEW t \in Tasks, OnMessage(t)
      PROVE  TypeOK'
  <2>1. Busy(t)
    BY <1>8 DEF OnMessage, HandlerReturns, HandlerRaises, Ack, Republish,
                RepublishRefused, DeadLetter, Busy
  <2>2. task[t].m \in Msgs /\ task[t].r \in Retries
    BY <2>1, BusyType
  <2>3. \A s \in Steps : [task EXCEPT ![t].pc = s] \in [Tasks -> Delivery]
    BY <2>1, StepType
  <2>4. [task EXCEPT ![t] = Idle] \in [Tasks -> Delivery]
    BY DEF TypeOK, Delivery
  <2>5. {"returned", "raised", "republished", "stuck"} \subseteq Steps
    BY DEF Steps
  <2>6. CASE HandlerReturns(t)
    BY <2>2, <2>3, <2>5, <2>6 DEF HandlerReturns, TypeOK, broker
  <2>7. CASE HandlerRaises(t)
    <3>1. failures' \in [Msgs -> Nat]
      BY <2>2, <2>7 DEF HandlerRaises, TypeOK
    <3> QED
      BY <2>3, <2>5, <2>7, <3>1 DEF HandlerRaises, TypeOK, broker
  <2>8. CASE Ack(t)
    BY <2>4, <2>8 DEF Ack, TypeOK, broker, history
  <2>9. CASE Republish(t)
    <3>1. <<task[t].m, task[t].r + 1>> \in Copies
      BY <2>2, <2>9, MaxRetriesAssumption DEF Republish, Copies, Retries
    <3>2. ready' \in [Copies -> Nat]
      BY <2>9, <3>1 DEF Republish, TypeOK
    <3> QED
      BY <2>3, <2>5, <2>9, <3>2 DEF Republish, TypeOK, history
  <2>10. CASE RepublishRefused(t)
    BY <2>3, <2>5, <2>10, FaultType DEF RepublishRefused, TypeOK, broker, history
  <2>11. CASE DeadLetter(t)
    BY <2>2, <2>4, <2>11 DEF DeadLetter, TypeOK, history
  <2> QED
    BY <1>8, <2>6, <2>7, <2>8, <2>9, <2>10, <2>11 DEF OnMessage
<1>9. CASE UNCHANGED vars
  BY <1>9 DEF vars, TypeOK
<1> QED
  BY <1>1, <1>2, <1>3, <1>4, <1>5, <1>6, <1>7, <1>8, <1>9 DEF Next

\* Every reachable state is type correct: in particular a retry count never
\* leaves 0..MAX_RETRIES and a task's delivery is always a known task.
THEOREM TypeCorrect == Spec => []TypeOK
<1>1. Init => TypeOK
  BY InitType
<1>2. TypeOK /\ [Next]_vars => TypeOK'
  BY NextType
<1> QED
  BY <1>1, <1>2, PTL DEF Spec

(***************************************************************************)
(* The inductive invariant.                                                *)
(***************************************************************************)

\* The parts of the invariant that follow from each other once an action is
\* known to forget no copy: published tasks stay held or settled.
LEMMA KeepsMessages ==
    ASSUME NoMessageLost,
           published' = published, done \subseteq done', dlq \subseteq dlq',
           published \subseteq Msgs,
           \A m \in Msgs, r \in Retries : Holds(m, r) => Holds(m, r)'
    PROVE  NoMessageLost'
<1> SUFFICES ASSUME NEW m \in published
             PROVE  Settled(m)' \/ \E r \in Retries : Holds(m, r)'
  BY DEF NoMessageLost
<1>1. Settled(m) => Settled(m)'
  BY DEF Settled
<1> QED
  BY <1>1 DEF NoMessageLost

\* A republished copy stays covered while no copy is forgotten and no other
\* task reaches the step after the republication.
LEMMA KeepsCovered ==
    ASSUME TypeOK, RetryCovered,
           done \subseteq done', dlq \subseteq dlq',
           \A m \in Msgs, r \in Retries : Holds(m, r) => Holds(m, r)',
           \A t \in Tasks : task'[t].pc = "republished" => task'[t] = task[t]
    PROVE  RetryCovered'
<1> SUFFICES ASSUME NEW t \in Tasks, NEW m \in Msgs, NEW q \in Retries,
                    task'[t] = [pc |-> "republished", m |-> m, r |-> q]
             PROVE  Settled(m)' \/ \E r \in Retries : r > q /\ Holds(m, r)'
  BY DEF RetryCovered
<1>1. task[t] = [pc |-> "republished", m |-> m, r |-> q]
  OBVIOUS
<1>2. Settled(m) => Settled(m)'
  BY DEF Settled
<1>3. Settled(m) \/ \E r \in Retries : r > q /\ Holds(m, r)
  BY <1>1 DEF RetryCovered
<1> QED
  BY <1>2, <1>3

\* A step of a task that puts it in a step other than "republished" changes
\* no republished task.
LEMMA OtherTasks ==
    ASSUME TypeOK, NEW t \in Tasks, NEW d,
           task' = [task EXCEPT ![t] = d], d.pc # "republished"
    PROVE  \A u \in Tasks : task'[u].pc = "republished" => task'[u] = task[u]
<1> TAKE u \in Tasks
<1>1. CASE u = t
  BY <1>1 DEF TypeOK
<1>2. CASE u # t
  BY <1>2 DEF TypeOK
<1> QED
  BY <1>1, <1>2

\* The counts in headers: no copy is ahead of the failures of its task.
LEMMA KeepsCounts ==
    ASSUME TypeOK, TypeOK', RetriesCounted,
           \A m \in Msgs, r \in Retries : Holds(m, r)' => Holds(m, r),
           \A m \in Msgs : failures'[m] >= failures[m],
           \A t \in Tasks : task'[t].pc \in {"raised", "republished", "stuck"} =>
               /\ Busy(t)
               /\ task'[t].m = task[t].m
               /\ task'[t].r = task[t].r
               /\ \/ task[t].pc \in {"raised", "republished", "stuck"}
                  \/ failures'[task[t].m] >= task[t].r + 1
    PROVE  RetriesCounted'
<1>1. \A m \in Msgs : failures[m] \in Nat /\ failures'[m] \in Nat
  BY DEF TypeOK
<1>2. ASSUME NEW m \in Msgs, NEW r \in Retries, Holds(m, r)'
      PROVE  failures'[m] >= r
  <2>1. failures[m] >= r
    BY <1>2 DEF RetriesCounted
  <2> QED
    BY <1>1, <2>1 DEF Retries
<1>3. ASSUME NEW t \in Tasks, task'[t].pc \in {"raised", "republished", "stuck"}
      PROVE  failures'[task'[t].m] >= task'[t].r + 1
  <2>1. /\ task[t].m \in Msgs
        /\ task[t].r \in Nat
    BY <1>3, BusyType
  <2>2. CASE task[t].pc \in {"raised", "republished", "stuck"}
    <3>1. failures[task[t].m] >= task[t].r + 1
      BY <2>2 DEF RetriesCounted
    <3>2. failures'[task[t].m] >= task[t].r + 1
      BY <1>1, <2>1, <3>1
    <3> QED
      BY <1>3, <3>2
  <2> QED
    BY <1>3, <2>2
<1> QED
  BY <1>2, <1>3 DEF RetriesCounted

\* The invariant holds initially.
LEMMA InitIInv == Init => IInv
<1> SUFFICES ASSUME Init
             PROVE  IInv
  OBVIOUS
<1>1. TypeOK
  BY InitType
<1>2. \A t \in Tasks : task[t].pc = "idle"
  BY DEF Init, Idle
<1>3. \A m \in Msgs, r \in Retries : ~Holds(m, r)
  <2> SUFFICES ASSUME NEW m \in Msgs, NEW r \in Retries
               PROVE  ~Holds(m, r)
    OBVIOUS
  <2>1. ready[<<m, r>>] = 0
    BY DEF Init, Copies
  <2>2. Unacked(<<m, r>>) = {}
    BY <1>2 DEF Unacked, Busy
  <2> QED
    BY <2>1, <2>2 DEF Holds
<1>4. NoMessageLost /\ NoEarlyDeadLetter
  BY DEF Init, NoMessageLost, NoEarlyDeadLetter
<1>5. RetryCovered
  BY <1>2 DEF RetryCovered
<1>6. RetriesCounted
  BY <1>2, <1>3 DEF RetriesCounted
<1>7. OnlyPublished
  BY <1>3 DEF Init, OnlyPublished
<1>8. ReturnedDone
  BY <1>2 DEF ReturnedDone
<1> QED
  BY <1>1, <1>4, <1>5, <1>6, <1>7, <1>8 DEF IInv

\* Actions that neither forget nor add a copy, settle nothing and move no task
\* inside _on_message: starting the workers, losing the connection,
\* reconnecting, restarting and delivering.
LEMMA QuietStep ==
    ASSUME IInv, TypeOK',
           published' = published, done' = done, dlq' = dlq, failures' = failures,
           \A m \in Msgs, r \in Retries : Holds(m, r)' <=> Holds(m, r),
           \A t \in Tasks : task'[t] = task[t] \/ task'[t].pc \in {"idle", "handling"}
    PROVE  IInv'
<1> USE DEF IInv
<1>1. NoMessageLost'
  BY KeepsMessages DEF TypeOK
<1>2. RetryCovered'
  <2>1. \A t \in Tasks : task'[t].pc = "republished" => task'[t] = task[t]
    OBVIOUS
  <2> QED
    BY <2>1, KeepsCovered
<1>3. NoEarlyDeadLetter'
  BY DEF NoEarlyDeadLetter
<1>4. RetriesCounted'
  <2>1. \A m \in Msgs : failures'[m] >= failures[m]
    BY DEF TypeOK
  <2>2. \A t \in Tasks : task'[t].pc \in {"raised", "republished", "stuck"} =>
            Busy(t) /\ task'[t] = task[t]
    BY DEF Busy
  <2> QED
    BY <2>1, <2>2, KeepsCounts
<1>5. OnlyPublished'
  BY DEF OnlyPublished
<1>6. ReturnedDone'
  BY DEF ReturnedDone
<1> QED
  BY <1>1, <1>2, <1>3, <1>4, <1>5, <1>6

\* Every step of the service's surroundings keeps the invariant.
LEMMA EnvironmentIInv ==
    ASSUME IInv, TypeOK',
           \/ StartWorkers \/ StartWorkersFails \/ ConnectionLost \/ Reconnect
           \/ Restart \/ (\E t \in Tasks, c \in Copies : Deliver(t, c))
           \/ UNCHANGED vars
    PROVE  IInv'
<1> USE DEF IInv
<1>1. ASSUME ready' = ready, task' = task,
             published' = published, done' = done, dlq' = dlq, failures' = failures
      PROVE  IInv'
  <2>1. \A m \in Msgs, r \in Retries : Holds(m, r)' <=> Holds(m, r)
    BY <1>1, SameHolds DEF Busy, CopyOf
  <2> QED
    BY <1>1, <2>1, QuietStep
<1>2. ASSUME RequeueUnacked,
             published' = published, done' = done, dlq' = dlq, failures' = failures
      PROVE  IInv'
  <2>1. \A m \in Msgs, r \in Retries : Holds(m, r)' <=> Holds(m, r)
    BY <1>2, RequeueHolds
  <2>2. \A t \in Tasks : task'[t].pc = "idle"
    BY <1>2 DEF RequeueUnacked, Idle
  <2> QED
    BY <1>2, <2>1, <2>2, QuietStep
<1>3. ASSUME NEW t \in Tasks, NEW c \in Copies, Deliver(t, c)
      PROVE  IInv'
  <2>1. \A m \in Msgs, r \in Retries : Holds(m, r)' <=> Holds(m, r)
    BY <1>3, DeliverHolds
  <2>2. \A u \in Tasks : task'[u] = task[u] \/ task'[u].pc = "handling"
    BY <1>3 DEF Deliver, TypeOK
  <2>3. published' = published /\ done' = done /\ dlq' = dlq /\ failures' = failures
    BY <1>3 DEF Deliver, history
  <2> QED
    BY <2>1, <2>2, <2>3, QuietStep
<1>4. CASE StartWorkers
  BY <1>1, <1>4 DEF StartWorkers, history
<1>5. CASE StartWorkersFails
  BY <1>1, <1>5 DEF StartWorkersFails, history
<1>6. CASE ConnectionLost
  BY <1>2, <1>6 DEF ConnectionLost
<1>7. CASE Reconnect
  BY <1>1, <1>7 DEF Reconnect, history, broker
<1>8. CASE Restart
  BY <1>2, <1>8 DEF Restart
<1>9. CASE UNCHANGED vars
  BY <1>1, <1>9 DEF vars
<1> QED
  BY <1>3, <1>4, <1>5, <1>6, <1>7, <1>8, <1>9

\* Publishing keeps the invariant: the new task is held with count 0.
LEMMA PublishIInv ==
    ASSUME IInv, TypeOK', NEW p \in Msgs, Publish(p)
    PROVE  IInv'
<1> USE DEF IInv
<1>1. \A m \in Msgs, r \in Retries : Holds(m, r)' <=> Holds(m, r) \/ <<m, r>> = <<p, 0>>
  BY PublishHolds
<1>2. /\ published' = published \union {p}
      /\ done' = done /\ dlq' = dlq /\ failures' = failures /\ task' = task
  BY DEF Publish
<1>3. 0 \in Retries
  BY MaxRetriesAssumption DEF Retries
<1>4. NoMessageLost'
  <2> SUFFICES ASSUME NEW m \in published'
               PROVE  Settled(m)' \/ \E r \in Retries : Holds(m, r)'
    BY DEF NoMessageLost
  <2>1. CASE m = p
    BY <1>1, <1>3, <2>1
  <2>2. CASE m \in published
    <3>1. m \in Msgs
      BY <2>2 DEF TypeOK
    <3>2. Settled(m) => Settled(m)'
      BY <1>2 DEF Settled
    <3> QED
      BY <1>1, <2>2, <3>1, <3>2 DEF NoMessageLost
  <2> QED
    BY <1>2, <2>1, <2>2
<1>5. RetryCovered'
  BY <1>1, <1>2, KeepsCovered
<1>6. NoEarlyDeadLetter'
  BY <1>2 DEF NoEarlyDeadLetter
<1>7. RetriesCounted'
  <2>1. \A m \in Msgs : failures[m] \in Nat
    BY DEF TypeOK
  <2>2. \A m \in Msgs, r \in Retries : Holds(m, r)' => failures'[m] >= r
    BY <1>1, <1>2, <2>1 DEF RetriesCounted
  <2> QED
    BY <1>2, <2>2 DEF RetriesCounted
<1>8. OnlyPublished'
  BY <1>1, <1>2 DEF OnlyPublished
<1>9. ReturnedDone'
  BY <1>2 DEF ReturnedDone
<1> QED
  BY <1>4, <1>5, <1>6, <1>7, <1>8, <1>9

\* A copy that is acked or parked is no longer needed: its task is settled,
\* or a copy with a larger retry count remains.  The covering argument cannot
\* be circular because retry counts grow along it.
LEMMA ReleaseIInv ==
    ASSUME IInv, TypeOK', NEW t \in Tasks, Busy(t),
           NEW a \in Msgs, NEW k \in Retries, task[t].m = a, task[t].r = k,
           task' = [task EXCEPT ![t] = Idle],
           ready' = ready, published' = published, done' = done,
           failures' = failures,
           dlq \subseteq dlq', dlq' \subseteq dlq \union {a},
           a \in dlq' => a \in dlq \/ failures[a] >= MAX_RETRIES + 1,
           Settled(a)' \/ \E r \in Retries : r > k /\ Holds(a, r)
    PROVE  IInv'
<1> USE DEF IInv
<1>1. k \in Nat
  BY DEF Retries
<1>2. \A m \in Msgs, r \in Retries :
          /\ Holds(m, r)' => Holds(m, r)
          /\ Holds(m, r) => Holds(m, r)' \/ (m = a /\ r = k)
  BY ReleaseHolds DEF CopyOf
<1>3. /\ task'[t] = Idle
      /\ \A u \in Tasks : u # t => task'[u] = task[u]
  BY DEF TypeOK
<1>4. \A m : Settled(m) => m \in done' \/ m \in dlq'
  BY DEF Settled
<1>5. (a \in done' \/ a \in dlq') \/ \E r \in Retries : r > k /\ Holds(a, r)'
  <2>1. CASE Settled(a)'
    BY <2>1 DEF Settled
  <2>2. CASE \E r \in Retries : r > k /\ Holds(a, r)
    <3>1. PICK r \in Retries : r > k /\ Holds(a, r)
      BY <2>2
    <3>2. r # k
      BY <1>1, <3>1 DEF Retries
    <3>3. Holds(a, r)'
      BY <1>1, <1>2, <3>1, <3>2
    <3> QED
      BY <3>1, <3>3
  <2> QED
    BY <2>1, <2>2
<1>6. NoMessageLost'
  <2> SUFFICES ASSUME NEW m \in published
               PROVE  (m \in done' \/ m \in dlq') \/ \E r \in Retries : Holds(m, r)'
    BY DEF NoMessageLost, Settled
  <2>1. m \in Msgs
    BY DEF TypeOK
  <2>2. CASE m = a
    BY <1>5, <2>2
  <2>3. CASE m # a
    BY <1>2, <1>4, <2>1, <2>3 DEF NoMessageLost
  <2> QED
    BY <2>2, <2>3
<1>7. RetryCovered'
  <2> SUFFICES ASSUME NEW u \in Tasks, NEW m \in Msgs, NEW q \in Retries,
                      task'[u] = [pc |-> "republished", m |-> m, r |-> q]
               PROVE  (m \in done' \/ m \in dlq') \/ \E r \in Retries : r > q /\ Holds(m, r)'
    BY DEF RetryCovered, Settled
  <2>1. u # t
    BY <1>3 DEF Idle
  <2>2. task[u] = [pc |-> "republished", m |-> m, r |-> q]
    BY <1>3, <2>1
  <2>3. CASE Settled(m)
    BY <1>4, <2>3
  <2>4. CASE \E r \in Retries : r > q /\ Holds(m, r)
    <3>1. PICK r \in Retries : r > q /\ Holds(m, r)
      BY <2>4
    <3>2. CASE m = a /\ r = k
      <4>1. \A s \in Retries : s > k => s > q
        BY <1>1, <3>1, <3>2 DEF Retries
      <4> QED
        BY <1>5, <3>2, <4>1
    <3>3. CASE ~(m = a /\ r = k)
      BY <1>2, <3>1, <3>3
    <3> QED
      BY <3>2, <3>3
  <2> QED
    BY <2>2, <2>3, <2>4 DEF RetryCovered
<1>8. NoEarlyDeadLetter'
  BY DEF NoEarlyDeadLetter
<1>9. RetriesCounted'
  <2>1. \A m \in Msgs : failures'[m] >= failures[m]
    BY DEF TypeOK
  <2>2. \A u \in Tasks : task'[u].pc \in {"raised", "republished", "stuck"} =>
            Busy(u) /\ task'[u] = task[u]
    BY <1>3 DEF Busy, Idle
  <2> QED
    BY <1>2, <2>1, <2>2, KeepsCounts
<1>10. OnlyPublished'
  <2>1. Holds(a, k)
    BY BusyHolds
  <2>2. a \in published
    BY <1>1, <2>1 DEF OnlyPublished
  <2> QED
    BY <1>2, <2>2 DEF OnlyPublished
<1>11. ReturnedDone'
  BY <1>3 DEF ReturnedDone, Idle
<1> QED
  BY <1>6, <1>7, <1>8, <1>9, <1>10, <1>11

\* Each step of _on_message keeps the invariant.
LEMMA OnMessageIInv ==
    ASSUME IInv, TypeOK', NEW t \in Tasks, OnMessage(t)
    PROVE  IInv'
<1> USE DEF IInv
<1>1. Busy(t)
  BY DEF OnMessage, HandlerReturns, HandlerRaises, Ack, Republish,
         RepublishRefused, DeadLetter, Busy
<1>2. PICK a \in Msgs, k \in Retries : task[t].m = a /\ task[t].r = k
  BY <1>1, BusyType
<1>3. task[t] \in [pc : Steps, m : Msgs, r : Retries]
  BY <1>1, BusyType
<1>4. a \in published
  BY <1>1, <1>2, BusyHolds DEF OnlyPublished
<1>5. k \in Nat /\ \A m \in Msgs : failures[m] \in Nat
  BY DEF Retries, TypeOK
<1>6. ASSUME NEW s \in Steps, s # "republished",
             task' = [task EXCEPT ![t].pc = s], ready' = ready,
             published' = published, dlq' = dlq, done \subseteq done',
             done' \subseteq done \union {a},
             \A m \in Msgs : failures'[m] >= failures[m],
             s = "returned" => a \in done',
             s \in {"raised", "stuck"} =>
                 task[t].pc = "raised" \/ failures'[a] >= k + 1
      PROVE  IInv'
  <2>1. \A m \in Msgs, r \in Retries : Holds(m, r)' <=> Holds(m, r)
    BY <1>1, <1>6, StepHolds
  <2>2. /\ task'[t] = [pc |-> s, m |-> a, r |-> k]
        /\ \A u \in Tasks : u # t => task'[u] = task[u]
    BY <1>2, <1>3, <1>6 DEF TypeOK
  <2>3. NoMessageLost'
    BY <1>6, <2>1, KeepsMessages DEF TypeOK
  <2>4. RetryCovered'
    <3>1. \A u \in Tasks : task'[u].pc = "republished" => task'[u] = task[u]
      BY <1>6, <2>2
    <3> QED
      BY <1>6, <2>1, <3>1, KeepsCovered
  <2>5. NoEarlyDeadLetter'
    <3>1. \A m \in dlq : m \in Msgs /\ failures[m] \in Nat /\ failures'[m] \in Nat
      BY DEF TypeOK
    <3> QED
      BY <1>6, <3>1, MaxRetriesAssumption DEF NoEarlyDeadLetter
  <2>6. RetriesCounted'
    <3>1. \A u \in Tasks : task'[u].pc \in {"raised", "republished", "stuck"} =>
              /\ Busy(u)
              /\ task'[u].m = task[u].m
              /\ task'[u].r = task[u].r
              /\ \/ task[u].pc \in {"raised", "republished", "stuck"}
                 \/ failures'[task[u].m] >= task[u].r + 1
      BY <1>1, <1>2, <1>6, <2>2 DEF Busy
    <3> QED
      BY <1>6, <2>1, <3>1, KeepsCounts
  <2>7. OnlyPublished'
    BY <1>4, <1>6, <2>1 DEF OnlyPublished
  <2>8. ReturnedDone'
    BY <1>6, <2>2 DEF ReturnedDone
  <2> QED
    BY <2>3, <2>4, <2>5, <2>6, <2>7, <2>8
<1>7. CASE HandlerReturns(t)
  <2>1. \A m \in Msgs : failures'[m] >= failures[m]
    BY <1>5, <1>7 DEF HandlerReturns
  <2> QED
    BY <1>2, <1>6, <1>7, <2>1 DEF HandlerReturns, broker, Steps
<1>8. CASE HandlerRaises(t)
  <2>1. failures' = [failures EXCEPT ![a] = failures[a] + 1]
    BY <1>2, <1>8 DEF HandlerRaises
  <2>2. /\ failures'[a] = failures[a] + 1
        /\ \A m \in Msgs : m # a => failures'[m] = failures[m]
    BY <2>1 DEF TypeOK
  <2>3. \A m \in Msgs : failures'[m] >= failures[m]
    BY <1>5, <2>2
  <2>4. failures[a] >= k
    BY <1>1, <1>2, BusyHolds DEF RetriesCounted
  <2>5. failures'[a] >= k + 1
    BY <1>5, <2>2, <2>4
  <2> QED
    BY <1>6, <1>8, <2>3, <2>5 DEF HandlerRaises, broker, Steps
<1>9. CASE RepublishRefused(t)
  <2>1. \A m \in Msgs : failures'[m] >= failures[m]
    BY <1>5, <1>9 DEF RepublishRefused, history
  <2> QED
    BY <1>6, <1>9, <2>1 DEF RepublishRefused, broker, history, Steps
<1>10. CASE Ack(t)
  <2>1. Settled(a)' \/ \E r \in Retries : r > k /\ Holds(a, r)
    <3>1. CASE task[t].pc = "returned"
      BY <1>2, <1>10, <3>1 DEF ReturnedDone, Settled, Ack, history
    <3>2. CASE task[t].pc = "republished"
      <4>1. task[t] = [pc |-> "republished", m |-> a, r |-> k]
        BY <1>2, <1>3, <3>2
      <4>2. Settled(a) => Settled(a)'
        BY <1>10 DEF Settled, Ack, history, broker
      <4> QED
        BY <4>1, <4>2 DEF RetryCovered
    <3> QED
      BY <1>10, <3>1, <3>2 DEF Ack
  <2> QED
    BY <1>1, <1>2, <1>10, <2>1, ReleaseIInv DEF Ack, broker, history
<1>11. CASE DeadLetter(t)
  <2>1. dlq' = dlq \union {a}
    BY <1>2, <1>11 DEF DeadLetter
  <2>2. failures[a] >= MAX_RETRIES + 1
    <3>1. failures[a] >= k + 1
      BY <1>2, <1>11 DEF DeadLetter, RetriesCounted
    <3>2. k + 1 > MAX_RETRIES
      BY <1>2, <1>11 DEF DeadLetter
    <3> QED
      BY <1>5, <3>1, <3>2, MaxRetriesAssumption
  <2>3. Settled(a)'
    BY <2>1 DEF Settled
  <2> QED
    BY <1>1, <1>2, <1>11, <2>1, <2>2, <2>3, ReleaseIInv DEF DeadLetter, history
<1>12. CASE Republish(t)
  <2>1. \A m \in Msgs, r \in Retries :
            Holds(m, r)' <=> Holds(m, r) \/ <<m, r>> = <<a, k + 1>>
    BY <1>2, <1>12, RepublishHolds
  <2>2. k + 1 \in Retries
    BY <1>2, <1>5, <1>12, MaxRetriesAssumption DEF Republish, Retries
  <2>3. /\ task'[t] = [pc |-> "republished", m |-> a, r |-> k]
        /\ \A u \in Tasks : u # t => task'[u] = task[u]
    BY <1>2, <1>3, <1>12 DEF Republish, TypeOK
  <2>4. published' = published /\ done' = done /\ dlq' = dlq /\ failures' = failures
    BY <1>12 DEF Republish, history
  <2>5. failures[a] >= k + 1
    BY <1>2, <1>12 DEF Republish, RetriesCounted
  <2>6. NoMessageLost'
    BY <2>1, <2>4, KeepsMessages DEF TypeOK
  <2>7. RetryCovered'
    <3> SUFFICES ASSUME NEW u \in Tasks, NEW m \in Msgs, NEW q \in Retries,
                        task'[u] = [pc |-> "republished", m |-> m, r |-> q]
                 PROVE  Settled(m)' \/ \E r \in Retries : r > q /\ Holds(m, r)'
      BY DEF RetryCovered
    <3>1. CASE u = t
      <4>1. m = a /\ q = k
        BY <2>3, <3>1
      <4>2. Holds(a, k + 1)' /\ k + 1 > k
        BY <1>5, <2>1, <2>2
      <4> QED
        BY <2>2, <4>1, <4>2
    <3>2. CASE u # t
      <4>1. task[u] = [pc |-> "republished", m |-> m, r |-> q]
        BY <2>3, <3>2
      <4>2. Settled(m) => Settled(m)'
        BY <2>4 DEF Settled
      <4> QED
        BY <2>1, <4>1, <4>2 DEF RetryCovered
    <3> QED
      BY <3>1, <3>2
  <2>8. NoEarlyDeadLetter'
    BY <2>4 DEF NoEarlyDeadLetter
  <2>9. RetriesCounted'
    <3>1. \A m \in Msgs, r \in Retries : Holds(m, r)' => failures'[m] >= r
      BY <2>1, <2>4, <2>5 DEF RetriesCounted
    <3>2. \A u \in Tasks : task'[u].pc \in {"raised", "republished", "stuck"} =>
              failures'[task'[u].m] >= task'[u].r + 1
      BY <2>3, <2>4, <2>5 DEF RetriesCounted
    <3> QED
      BY <3>1, <3>2 DEF RetriesCounted
  <2>10. OnlyPublished'
    BY <1>4, <2>1, <2>4 DEF OnlyPublished
  <2>11. ReturnedDone'
    BY <2>3, <2>4 DEF ReturnedDone
  <2> QED
    BY <2>6, <2>7, <2>8, <2>9, <2>10, <2>11
<1> QED
  BY <1>7, <1>8, <1>9, <1>10, <1>11, <1>12 DEF OnMessage

\* The invariant is inductive.
LEMMA NextIInv == IInv /\ [Next]_vars => IInv'
<1> SUFFICES ASSUME IInv, [Next]_vars
             PROVE  IInv'
  OBVIOUS
<1>1. TypeOK'
  BY NextType DEF IInv
<1>2. ASSUME NEW m \in Msgs, Publish(m)
      PROVE  IInv'
  BY <1>1, <1>2, PublishIInv
<1>3. ASSUME NEW t \in Tasks, OnMessage(t)
      PROVE  IInv'
  BY <1>1, <1>3, OnMessageIInv
<1> QED
  BY <1>1, <1>2, <1>3, EnvironmentIInv DEF Next

\* The inductive invariant holds in every reachable state.
THEOREM Inductive == Spec => []IInv
<1>1. Init => IInv
  BY InitIInv
<1>2. IInv /\ [Next]_vars => IInv'
  BY NextIInv
<1> QED
  BY <1>1, <1>2, PTL DEF Spec

\* No published task is ever lost between the republish and the ack of a
\* retry, a lost connection or a restart, for any number of tasks, slots,
\* retries and faults.
THEOREM NeverLost == Spec => []NoMessageLost
<1>1. IInv => NoMessageLost
  BY DEF IInv
<1> QED
  BY <1>1, Inductive, PTL

\* The dead letter queue only ever receives tasks whose handler raised
\* MAX_RETRIES + 1 times.
THEOREM ParkedAfterRetries == Spec => []NoEarlyDeadLetter
<1>1. IInv => NoEarlyDeadLetter
  BY DEF IInv
<1> QED
  BY <1>1, Inductive, PTL

(***************************************************************************)
(* Refinement: MQService implements AtLeastOnceQueue.                      *)
(***************************************************************************)

\* An initial state of the message service is one of the abstract queue.
LEMMA InitRefines == Init => Abstract!QInit
<1> SUFFICES ASSUME Init
             PROVE  Abstract!QInit
  OBVIOUS
<1>1. \A m \in Msgs, r \in Retries : ~Holds(m, r)
  BY DEF Init, Holds, Unacked, Busy, Idle, Copies
<1> QED
  BY <1>1 DEF Init, Abstract!QInit, HeldTasks

\* A step that forgets and adds no copy and settles nothing is a stutter.
LEMMA StutterRefines ==
    ASSUME published' = published, done' = done, dlq' = dlq,
           \A m \in Msgs, r \in Retries : Holds(m, r)' <=> Holds(m, r)
    PROVE  UNCHANGED Abstract!qvars
<1>1. HeldTasks' = HeldTasks
  BY DEF HeldTasks
<1> QED
  BY <1>1 DEF Abstract!qvars

\* Releasing a copy of task a leaves the held tasks alone or removes a.
LEMMA ReleaseHeld ==
    ASSUME TypeOK, NEW t \in Tasks, Busy(t),
           NEW a \in Msgs, NEW k \in Retries, task[t].m = a, task[t].r = k,
           task' = [task EXCEPT ![t] = Idle], ready' = ready
    PROVE  /\ HeldTasks' \in {HeldTasks, HeldTasks \ {a}}
           /\ (\E r \in Retries : r # k /\ Holds(a, r)) => HeldTasks' = HeldTasks
<1>1. \A m \in Msgs, r \in Retries :
          /\ Holds(m, r)' => Holds(m, r)
          /\ Holds(m, r) => Holds(m, r)' \/ (m = a /\ r = k)
  BY ReleaseHolds DEF CopyOf
<1>2. \A m \in Msgs : m # a => (m \in HeldTasks' <=> m \in HeldTasks)
  BY <1>1 DEF HeldTasks
<1>3. a \in HeldTasks' => a \in HeldTasks
  BY <1>1 DEF HeldTasks
<1>4. HeldTasks' \subseteq Msgs /\ HeldTasks \subseteq Msgs
  BY DEF HeldTasks
<1>5. HeldTasks' \in {HeldTasks, HeldTasks \ {a}}
  BY <1>2, <1>3, <1>4
<1>6. ASSUME NEW r \in Retries, r # k, Holds(a, r)
      PROVE  HeldTasks' = HeldTasks
  <2>1. Holds(a, r)'
    BY <1>1, <1>6
  <2>2. a \in HeldTasks' /\ a \in HeldTasks
    BY <1>6, <2>1 DEF HeldTasks
  <2> QED
    BY <1>2, <1>4, <2>2
<1> QED
  BY <1>5, <1>6

\* Each step of _on_message is a step of the abstract queue or a stutter.
LEMMA OnMessageRefines ==
    ASSUME IInv, NEW t \in Tasks, OnMessage(t)
    PROVE  [Abstract!QNext]_(Abstract!qvars)
<1> USE DEF IInv
<1>1. Busy(t)
  BY DEF OnMessage, HandlerReturns, HandlerRaises, Ack, Republish,
         RepublishRefused, DeadLetter, Busy
<1>2. PICK a \in Msgs, k \in Retries : task[t].m = a /\ task[t].r = k
  BY <1>1, BusyType
<1>3. task[t] \in [pc : Steps, m : Msgs, r : Retries] /\ k \in Nat
  BY <1>1, BusyType DEF Retries
<1>4. Holds(a, k) /\ a \in HeldTasks
  BY <1>1, <1>2, BusyHolds DEF HeldTasks
<1>5. ASSUME NEW s \in Steps, task' = [task EXCEPT ![t].pc = s], ready' = ready
      PROVE  /\ \A m \in Msgs, r \in Retries : Holds(m, r)' <=> Holds(m, r)
             /\ HeldTasks' = HeldTasks
  <2>1. \A m \in Msgs, r \in Retries : Holds(m, r)' <=> Holds(m, r)
    BY <1>1, <1>5, StepHolds
  <2> QED
    BY <2>1 DEF HeldTasks
<1>6. CASE HandlerReturns(t)
  <2>1. HeldTasks' = HeldTasks
    BY <1>5, <1>6 DEF HandlerReturns, broker, Steps
  <2>2. Abstract!Complete(a)
    BY <1>2, <1>4, <1>6, <2>1 DEF HandlerReturns, broker, Abstract!Complete
  <2> QED
    BY <2>2 DEF Abstract!QNext
<1>7. CASE HandlerRaises(t)
  BY <1>5, <1>7, StutterRefines DEF HandlerRaises, broker, Steps
<1>8. CASE RepublishRefused(t)
  BY <1>5, <1>8, StutterRefines DEF RepublishRefused, broker, history, Steps
<1>9. CASE Ack(t)
  <2>1. /\ HeldTasks' \in {HeldTasks, HeldTasks \ {a}}
        /\ (\E r \in Retries : r # k /\ Holds(a, r)) => HeldTasks' = HeldTasks
    BY <1>1, <1>2, <1>9, ReleaseHeld DEF Ack, broker
  <2>2. a \in done \union dlq \/ \E r \in Retries : r # k /\ Holds(a, r)
    <3>1. CASE task[t].pc = "returned"
      BY <1>2, <3>1 DEF ReturnedDone
    <3>2. CASE task[t].pc = "republished"
      <4>1. task[t] = [pc |-> "republished", m |-> a, r |-> k]
        BY <1>2, <1>3, <3>2
      <4>2. \A r \in Retries : r > k => r # k
        BY <1>3 DEF Retries
      <4> QED
        BY <4>1, <4>2 DEF RetryCovered, Settled
    <3> QED
      BY <1>9, <3>1, <3>2 DEF Ack
  <2>3. published' = published /\ done' = done /\ dlq' = dlq
    BY <1>9 DEF Ack, broker, history
  <2>4. CASE HeldTasks' = HeldTasks
    BY <2>3, <2>4 DEF Abstract!qvars
  <2>5. CASE HeldTasks' # HeldTasks
    <3>1. Abstract!Release(a)
      BY <1>4, <2>1, <2>2, <2>3, <2>5 DEF Abstract!Release
    <3> QED
      BY <3>1 DEF Abstract!QNext
  <2> QED
    BY <2>4, <2>5
<1>10. CASE DeadLetter(t)
  <2>1. HeldTasks' \in {HeldTasks, HeldTasks \ {a}}
    BY <1>1, <1>2, <1>10, ReleaseHeld DEF DeadLetter
  <2>2. Abstract!DeadLetter(a)
    BY <1>2, <1>4, <1>10, <2>1 DEF DeadLetter, history, Abstract!DeadLetter
  <2> QED
    BY <2>2 DEF Abstract!QNext
<1>11. CASE Republish(t)
  <2>1. \A m \in Msgs, r \in Retries :
            Holds(m, r)' <=> Holds(m, r) \/ <<m, r>> = <<a, k + 1>>
    BY <1>2, <1>11, RepublishHolds
  <2>2. HeldTasks' = HeldTasks
    BY <1>4, <2>1 DEF HeldTasks
  <2>3. published' = published /\ done' = done /\ dlq' = dlq
    BY <1>11 DEF Republish, history
  <2> QED
    BY <2>2, <2>3 DEF Abstract!qvars
<1> QED
  BY <1>6, <1>7, <1>8, <1>9, <1>10, <1>11 DEF OnMessage

\* Every step of the service is a step of the abstract queue or a stutter.
LEMMA NextRefines == IInv /\ [Next]_vars => [Abstract!QNext]_(Abstract!qvars)
<1> SUFFICES ASSUME IInv, [Next]_vars
             PROVE  [Abstract!QNext]_(Abstract!qvars)
  OBVIOUS
<1> USE DEF IInv
<1>1. ASSUME ready' = ready, task' = task,
             published' = published, done' = done, dlq' = dlq
      PROVE  UNCHANGED Abstract!qvars
  <2>1. \A m \in Msgs, r \in Retries : Holds(m, r)' <=> Holds(m, r)
    BY <1>1, SameHolds DEF Busy, CopyOf
  <2> QED
    BY <1>1, <2>1, StutterRefines
<1>2. ASSUME RequeueUnacked,
             published' = published, done' = done, dlq' = dlq
      PROVE  UNCHANGED Abstract!qvars
  BY <1>2, RequeueHolds, StutterRefines
<1>3. CASE StartWorkers
  BY <1>1, <1>3 DEF StartWorkers, history
<1>4. CASE StartWorkersFails
  BY <1>1, <1>4 DEF StartWorkersFails, history
<1>5. CASE ConnectionLost
  BY <1>2, <1>5 DEF ConnectionLost
<1>6. CASE Reconnect
  BY <1>1, <1>6 DEF Reconnect, history, broker
<1>7. CASE Restart
  BY <1>2, <1>7 DEF Restart
<1>8. ASSUME NEW p \in Msgs, Publish(p)
      PROVE  Abstract!QNext
  <2>1. \A m \in Msgs, r \in Retries :
            Holds(m, r)' <=> Holds(m, r) \/ <<m, r>> = <<p, 0>>
    BY <1>8, PublishHolds
  <2>2. 0 \in Retries
    BY MaxRetriesAssumption DEF Retries
  <2>3. HeldTasks' = HeldTasks \union {p}
    BY <2>1, <2>2 DEF HeldTasks
  <2>4. Abstract!Accept(p)
    BY <1>8, <2>3 DEF Publish, Abstract!Accept
  <2> QED
    BY <2>4 DEF Abstract!QNext
<1>9. ASSUME NEW t \in Tasks, NEW c \in Copies, Deliver(t, c)
      PROVE  UNCHANGED Abstract!qvars
  <2>1. \A m \in Msgs, r \in Retries : Holds(m, r)' <=> Holds(m, r)
    BY <1>9, DeliverHolds
  <2> QED
    BY <1>9, <2>1, StutterRefines DEF Deliver, history
<1>10. ASSUME NEW t \in Tasks, OnMessage(t)
       PROVE  [Abstract!QNext]_(Abstract!qvars)
  BY <1>10, OnMessageRefines
<1>11. CASE UNCHANGED vars
  BY <1>1, <1>11 DEF vars
<1> QED
  BY <1>3, <1>4, <1>5, <1>6, <1>7, <1>8, <1>9, <1>10, <1>11 DEF Next

\* The message service, with its retries, its duplicates and its lost
\* connections, implements the at-least-once queue its publishers rely on.
THEOREM Refinement == Spec => Refines
<1>1. Init => Abstract!QInit
  BY InitRefines
<1>2. IInv /\ [Next]_vars => [Abstract!QNext]_(Abstract!qvars)
  BY NextRefines
<1> QED
  BY <1>1, <1>2, Inductive, PTL DEF Spec, Refines, Abstract!QSpec

\* What the publishers rely on follows from the abstract queue alone: a task
\* whose publication was accepted is held until it was handled or parked.
THEOREM ContractKept == Spec => []Abstract!NothingForgotten
<1>1. Abstract!QInit => Abstract!NothingForgotten
  BY DEF Abstract!QInit, Abstract!NothingForgotten
<1>2. Abstract!NothingForgotten /\ [Abstract!QNext]_(Abstract!qvars) => Abstract!NothingForgotten'
  BY DEF Abstract!NothingForgotten, Abstract!QNext, Abstract!qvars, Abstract!Accept,
         Abstract!Complete, Abstract!DeadLetter, Abstract!Release
<1> QED
  BY <1>1, <1>2, Refinement, PTL DEF Refines, Abstract!QSpec

(***************************************************************************)
(* Retrying stops.  The runs a copy may still cause are counted as a set,  *)
(* one element per run, so that giving copies back, republishing and       *)
(* delivering them add and remove elements.                                *)
(***************************************************************************)

\* How often a handler may yet run on a copy with retry count r and on the
\* copies republished from it.
RunsLeft(r) == MAX_RETRIES + 1 - r

\* The runs of w that stand for x.
Block(x, w) == {x} \X (1..w)

\* The runs of f[r] copies with each retry count r, and of g[t] runs of each
\* consumer task t.
Tokens(f) == {k \in (Retries \X Nat) \X Nat :
                 k[1][2] \in 1..f[k[1][1]] /\ k[2] \in 1..RunsLeft(k[1][1])}
Runs(g) == {k \in Tasks \X Nat : k[2] \in 1..g[k[1]]}

\* The copies of m that wait, and the runs of m left to the consumer tasks: the
\* one that is going on counts, one that has raised leaves those of its retry copy.
Queue(m) == [r \in Retries |-> ready[<<m, r>>]]
Left(t) == IF task[t].pc = "handling" THEN RunsLeft(task[t].r)
           ELSE IF task[t].pc = "raised" THEN RunsLeft(task[t].r + 1) ELSE 0
Work(m) == [t \in Tasks |-> IF Busy(t) /\ task[t].m = m THEN Left(t) ELSE 0]

\* What publishing a task and giving copies of it back allow.
Granted(m) == (MAX_RETRIES + 1) * ((IF m \in published THEN 1 ELSE 0) + redelivered[m])

\* The runs that failed and those that may follow stay within what was granted.
Budget(m) ==
    /\ IsFiniteSet(Tokens(Queue(m))) /\ IsFiniteSet(Runs(Work(m)))
    /\ failures[m] + Cardinality(Tokens(Queue(m))) + Cardinality(Runs(Work(m))) <= Granted(m)
Budgeted == \A m \in Msgs : Budget(m)

\* A block has as many elements as runs.
LEMMA BlockCount ==
    ASSUME NEW x, NEW w \in Nat
    PROVE  IsFiniteSet(Block(x, w)) /\ Cardinality(Block(x, w)) = w
<1>1. IsFiniteSet({x}) /\ Cardinality({x}) = 1
  BY FS_Singleton
<1>2. IsFiniteSet(1..w) /\ Cardinality(1..w) = w
  BY FS_Interval
<1>3. /\ IsFiniteSet({x} \X (1..w))
      /\ Cardinality({x} \X (1..w)) = Cardinality({x}) * Cardinality(1..w)
  BY <1>1, <1>2, FS_Product
<1> QED
  BY <1>1, <1>2, <1>3 DEF Block

\* Adding elements that were not there, or taking out some that were.
LEMMA AddBlock ==
    ASSUME NEW S, IsFiniteSet(S), NEW B, IsFiniteSet(B), S \intersect B = {}
    PROVE  /\ IsFiniteSet(S \union B)
           /\ Cardinality(S \union B) = Cardinality(S) + Cardinality(B)
           /\ Cardinality(S) \in Nat /\ Cardinality(B) \in Nat
<1>1. PICK n \in Nat : n = Cardinality(S)
  BY FS_CardinalityType
<1>2. PICK k \in Nat : k = Cardinality(B)
  BY FS_CardinalityType
<1>3. Cardinality(S \intersect B) = 0
  BY FS_EmptySet
<1>4. /\ IsFiniteSet(S \union B)
      /\ Cardinality(S \union B) = Cardinality(S) + Cardinality(B) - Cardinality(S \intersect B)
  BY FS_Union
<1>5. Cardinality(S \union B) = n + k - 0
  BY <1>1, <1>2, <1>3, <1>4
<1> QED
  BY <1>1, <1>2, <1>4, <1>5

\* What is left of a set of runs when a block is taken out of it.
LEMMA TakeBlock ==
    ASSUME NEW S, IsFiniteSet(S), NEW B, IsFiniteSet(B), B \subseteq S
    PROVE  /\ IsFiniteSet(S \ B)
           /\ Cardinality(S \ B) = Cardinality(S) - Cardinality(B)
           /\ Cardinality(S) \in Nat
<1>1. Cardinality(S) \in Nat
  BY FS_CardinalityType
<1>2. S \intersect B = B
  OBVIOUS
<1>3. /\ IsFiniteSet(S \ B)
      /\ Cardinality(S \ B) = Cardinality(S) - Cardinality(S \intersect B)
  BY FS_Difference
<1> QED
  BY <1>1, <1>2, <1>3

\* A retry count leaves a number of runs, and the one after it one run fewer.
LEMMA LeftType ==
    ASSUME NEW r \in Retries
    PROVE  /\ RunsLeft(r) \in Nat /\ RunsLeft(r + 1) \in Nat
           /\ RunsLeft(r) = RunsLeft(r + 1) + 1
           /\ RunsLeft(r) <= MAX_RETRIES + 1 /\ RunsLeft(0) = MAX_RETRIES + 1
BY MaxRetriesAssumption DEF RunsLeft, Retries

\* One copy more.
LEMMA MoreTokens ==
    ASSUME NEW f \in [Retries -> Nat], IsFiniteSet(Tokens(f)), NEW r \in Retries, NEW g,
           g = [f EXCEPT ![r] = @ + 1]
    PROVE  /\ IsFiniteSet(Tokens(g)) /\ Cardinality(Tokens(f)) \in Nat
           /\ Cardinality(Tokens(g)) = Cardinality(Tokens(f)) + RunsLeft(r)
<1>1. PICK n \in Nat : n = f[r]
  OBVIOUS
<1>2. g[r] = n + 1 /\ \A q \in Retries : q # r => g[q] = f[q]
  BY <1>1
<1>3. RunsLeft(r) \in Nat
  BY LeftType
<1>4. Tokens(f) \intersect Block(<<r, n + 1>>, RunsLeft(r)) = {}
  BY <1>1 DEF Tokens, Block
<1>5. Tokens(g) = Tokens(f) \union Block(<<r, n + 1>>, RunsLeft(r))
  <2>1. ASSUME NEW k \in (Retries \X Nat) \X Nat
        PROVE  k \in Tokens(g) <=> k \in Tokens(f) \/ k \in Block(<<r, n + 1>>, RunsLeft(r))
    <3>1. PICK q \in Retries, i \in Nat, j \in Nat : k = <<<<q, i>>, j>>
      OBVIOUS
    <3>2. k[1][1] = q /\ k[1][2] = i /\ k[2] = j
      BY <3>1
    <3>3. k \in Tokens(g) <=> i \in 1..g[q] /\ j \in 1..RunsLeft(q)
      BY <3>2 DEF Tokens
    <3>4. k \in Tokens(f) <=> i \in 1..f[q] /\ j \in 1..RunsLeft(q)
      BY <3>2 DEF Tokens
    <3>5. k \in Block(<<r, n + 1>>, RunsLeft(r)) <=> q = r /\ i = n + 1 /\ j \in 1..RunsLeft(r)
      BY <3>1 DEF Block
    <3>6. CASE q = r
      <4>1. i \in 1..g[q] <=> i \in 1..f[q] \/ i = n + 1
        BY <1>1, <1>2, <3>6
      <4> QED
        BY <3>3, <3>4, <3>5, <3>6, <4>1
    <3>7. CASE q # r
      BY <1>2, <3>3, <3>4, <3>5, <3>7
    <3> QED
      BY <3>6, <3>7
  <2>2. Block(<<r, n + 1>>, RunsLeft(r)) \subseteq (Retries \X Nat) \X Nat
    BY <1>3 DEF Block
  <2> QED
    BY <2>1, <2>2 DEF Tokens
<1>6. PICK B : /\ B = Block(<<r, n + 1>>, RunsLeft(r))
               /\ IsFiniteSet(B) /\ Cardinality(B) = RunsLeft(r)
  BY <1>3, BlockCount
<1>7. Tokens(f) \intersect B = {} /\ Tokens(g) = Tokens(f) \union B
  BY <1>4, <1>5, <1>6
<1> QED
  BY <1>6, <1>7, AddBlock

\* One copy fewer.
LEMMA FewerTokens ==
    ASSUME NEW f \in [Retries -> Nat], IsFiniteSet(Tokens(f)), NEW r \in Retries, f[r] > 0, NEW g,
           g = [f EXCEPT ![r] = @ - 1]
    PROVE  /\ IsFiniteSet(Tokens(g)) /\ Cardinality(Tokens(f)) \in Nat
           /\ Cardinality(Tokens(g)) = Cardinality(Tokens(f)) - RunsLeft(r)
<1>1. g \in [Retries -> Nat] /\ f = [g EXCEPT ![r] = @ + 1]
  <2>1. PICK n \in Nat : n = f[r] - 1
    OBVIOUS
  <2>2. f[r] = n + 1 /\ g = [f EXCEPT ![r] = n]
    BY <2>1
  <2>3. g \in [Retries -> Nat] /\ g[r] = n
    BY <2>2
  <2>4. ASSUME NEW q \in Retries PROVE f[q] = [g EXCEPT ![r] = n + 1][q]
    BY <2>2, <2>3
  <2>5. f = [g EXCEPT ![r] = n + 1]
    BY <2>3, <2>4
  <2> QED
    BY <2>3, <2>5
<1>2. Tokens(g) \in SUBSET Tokens(f)
  <2>1. \A q \in Retries : g[q] \in Nat /\ f[q] \in Nat /\ g[q] <= f[q]
    OBVIOUS
  <2> QED
    BY <2>1 DEF Tokens
<1>3. IsFiniteSet(Tokens(g)) /\ Cardinality(Tokens(g)) \in Nat
  BY <1>2, FS_Subset, FS_CardinalityType
<1>4. Cardinality(Tokens(f)) = Cardinality(Tokens(g)) + RunsLeft(r)
  BY <1>1, <1>3, MoreTokens
<1> QED
  BY <1>3, <1>4, LeftType

\* A consumer task with another number of runs left.
LEMMA OtherRuns ==
    ASSUME NEW g \in [Tasks -> Nat], IsFiniteSet(Runs(g)), NEW t \in Tasks, NEW w \in Nat, NEW h,
           h = [g EXCEPT ![t] = w]
    PROVE  /\ IsFiniteSet(Runs(h)) /\ Cardinality(Runs(g)) \in Nat
           /\ Cardinality(Runs(h)) = Cardinality(Runs(g)) - g[t] + w
<1>1. PICK n \in Nat : n = g[t]
  OBVIOUS
<1>2. PICK A : A = Block(t, n) /\ IsFiniteSet(A) /\ Cardinality(A) = n
  BY BlockCount
<1>3. PICK S : S = Runs(g) \ A
  OBVIOUS
<1>4. /\ IsFiniteSet(S) /\ Cardinality(S) = Cardinality(Runs(g)) - n
      /\ Cardinality(Runs(g)) \in Nat
  <2>1. A \subseteq Runs(g)
    BY <1>1, <1>2 DEF Block, Runs
  <2> QED
    BY <1>2, <1>3, <2>1, TakeBlock
<1>5. S \intersect Block(t, w) = {}
  BY <1>1, <1>2, <1>3 DEF Block, Runs
<1>6. Runs(h) = S \union Block(t, w)
  <2>1. ASSUME NEW k \in Tasks \X Nat
        PROVE  k \in Runs(h) <=> k \in S \/ k \in Block(t, w)
    BY <1>1, <1>2, <1>3 DEF Block, Runs
  <2>2. Block(t, w) \subseteq Tasks \X Nat
    BY DEF Block
  <2> QED
    BY <1>3, <2>1, <2>2 DEF Runs
<1>7. /\ IsFiniteSet(Runs(h)) /\ Cardinality(Runs(h)) = Cardinality(S) + w
  <2>1. PICK B : B = Block(t, w) /\ IsFiniteSet(B) /\ Cardinality(B) = w
    BY BlockCount
  <2>2. S \intersect B = {} /\ Runs(h) = S \union B
    BY <1>5, <1>6, <2>1
  <2> QED
    BY <1>4, <2>1, <2>2, AddBlock
<1> QED
  BY <1>1, <1>4, <1>7

\* Copies given back: those of one retry count are as many as the consumer tasks
\* of B that had one, and each brings at most MAX_RETRIES + 1 runs.
LEMMA BackTokens ==
    ASSUME NEW f \in [Retries -> Nat], IsFiniteSet(Tokens(f)), NEW B, IsFiniteSet(B),
           NEW u \in [Retries -> SUBSET B],
           \A q, r \in Retries : q # r => u[q] \intersect u[r] = {},
           NEW g, g = [r \in Retries |-> f[r] + Cardinality(u[r])]
    PROVE  /\ IsFiniteSet(Tokens(g))
           /\ Cardinality(Tokens(f)) \in Nat /\ Cardinality(Tokens(g)) \in Nat
           /\ Cardinality(B) \in Nat
           /\ Cardinality(Tokens(g)) <= Cardinality(Tokens(f)) + (MAX_RETRIES + 1) * Cardinality(B)
<1> DEFINE Numbers(r, e) == /\ e \in [1..Cardinality(u[r]) -> u[r]]
                            /\ \A x, y \in 1..Cardinality(u[r]) : e[x] = e[y] => x = y
<1>1. ASSUME NEW r \in Retries
      PROVE  Cardinality(u[r]) \in Nat /\ \E e : Numbers(r, e)
  <2>1. IsFiniteSet(u[r])
    BY FS_Subset
  <2>2. Cardinality(u[r]) \in Nat /\ ExistsBijection(1..Cardinality(u[r]), u[r])
    BY <2>1, FS_CardinalityType
  <2> QED
    BY <2>2 DEF ExistsBijection, Bijection, Injection, IsInjective
<1>2. PICK b : b = [r \in Retries |-> CHOOSE e : Numbers(r, e)]
  OBVIOUS
<1>3. \A r \in Retries : Numbers(r, b[r])
  <2> HIDE DEF Numbers
  <2> QED
    BY <1>1, <1>2
<1>4. \A r \in Retries : g[r] = f[r] + Cardinality(u[r]) /\ f[r] \in Nat /\ f[r] <= g[r] /\ g[r] \in Nat
  BY <1>1
<1>5. PICK N : N = Tokens(g) \ Tokens(f)
  OBVIOUS
<1>6. ASSUME NEW k \in N
      PROVE  \E q \in Retries, i \in Nat, j \in Nat :
                 /\ k = <<<<q, i>>, j>> /\ k[1][1] = q /\ k[1][2] = i /\ k[2] = j
                 /\ i - f[q] \in 1..Cardinality(u[q]) /\ j \in 1..(MAX_RETRIES + 1)
                 /\ b[q][i - f[q]] \in u[q]
  <2>1. k \in Tokens(g) /\ k \notin Tokens(f)
    BY <1>5
  <2>2. PICK q \in Retries, i \in Nat, j \in Nat : k = <<<<q, i>>, j>>
    BY <2>1 DEF Tokens
  <2>3. k[1][1] = q /\ k[1][2] = i /\ k[2] = j
    BY <2>2
  <2>4. i \in 1..g[q] /\ j \in 1..RunsLeft(q) /\ ~(i \in 1..f[q])
    BY <2>1, <2>2, <2>3 DEF Tokens
  <2>5. PICK n \in Nat, c \in Nat : n = f[q] /\ c = Cardinality(u[q])
    BY <1>1
  <2>6. i - n \in 1..c
    BY <1>4, <2>4, <2>5
  <2>7. j \in 1..(MAX_RETRIES + 1)
    BY <2>4, LeftType, MaxRetriesAssumption
  <2>8. b[q][i - f[q]] \in u[q]
    BY <1>3, <2>5, <2>6
  <2> QED
    BY <2>2, <2>3, <2>5, <2>6, <2>7, <2>8
<1>7. PICK D : D = B \X (1..(MAX_RETRIES + 1))
  OBVIOUS
<1>8. PICK F : F = [k \in N |-> <<b[k[1][1]][k[1][2] - f[k[1][1]]], k[2]>>]
  OBVIOUS
<1>9. F \in [N -> D]
  <2> SUFFICES ASSUME NEW k \in N PROVE F[k] \in D
    BY <1>8
  <2>1. PICK q \in Retries, i \in Nat, j \in Nat :
                 /\ k = <<<<q, i>>, j>> /\ k[1][1] = q /\ k[1][2] = i /\ k[2] = j
                 /\ i - f[q] \in 1..Cardinality(u[q]) /\ j \in 1..(MAX_RETRIES + 1)
                 /\ b[q][i - f[q]] \in u[q]
    BY <1>6
  <2>2. F[k] = <<b[q][i - f[q]], j>>
    BY <1>8, <2>1
  <2> QED
    BY <1>7, <2>1, <2>2
<1>10. ASSUME NEW k \in N, NEW l \in N, F[k] = F[l]
       PROVE  k = l
  <2>1. PICK q \in Retries, i \in Nat, j \in Nat :
                 /\ k = <<<<q, i>>, j>> /\ k[1][1] = q /\ k[1][2] = i /\ k[2] = j
                 /\ i - f[q] \in 1..Cardinality(u[q]) /\ j \in 1..(MAX_RETRIES + 1)
                 /\ b[q][i - f[q]] \in u[q]
    BY <1>6
  <2>2. PICK p \in Retries, x \in Nat, y \in Nat :
                 /\ l = <<<<p, x>>, y>> /\ l[1][1] = p /\ l[1][2] = x /\ l[2] = y
                 /\ x - f[p] \in 1..Cardinality(u[p]) /\ y \in 1..(MAX_RETRIES + 1)
                 /\ b[p][x - f[p]] \in u[p]
    BY <1>6
  <2>3. F[k] = <<b[q][i - f[q]], j>> /\ F[l] = <<b[p][x - f[p]], y>>
    BY <1>8, <2>1, <2>2
  <2>4. b[q][i - f[q]] = b[p][x - f[p]] /\ j = y
    <3>1. PICK v : v = b[q][i - f[q]]
      OBVIOUS
    <3>2. PICK z : z = b[p][x - f[p]]
      OBVIOUS
    <3>3. F[k] = <<v, j>> /\ F[l] = <<z, y>>
      BY <2>3, <3>1, <3>2
    <3>4. v = z /\ j = y
      <4>1. <<v, j>> = <<z, y>>
        BY <1>10, <3>3, Zenon
      <4>2. \A c, d : <<v, c>> = <<z, d>> => v = z /\ c = d
        OBVIOUS
      <4> QED
        BY <4>1, <4>2, Zenon
    <3> QED
      BY <3>1, <3>2, <3>4
  <2>5. q = p
    BY <2>1, <2>2, <2>4
  <2>6. PICK n \in Nat : n = f[q]
    BY <1>4
  <2>7. i - n = x - n
    BY <1>3, <2>1, <2>2, <2>4, <2>5, <2>6
  <2>8. i = x
    BY <2>7
  <2> QED
    BY <2>1, <2>2, <2>4, <2>5, <2>8
<1>11. F \in Injection(N, D)
  BY <1>9, <1>10, Fun_IsInj
<1>12. PICK m \in Nat : m = Cardinality(B)
  BY FS_CardinalityType
<1>13. IsFiniteSet(D) /\ Cardinality(D) = m * (MAX_RETRIES + 1)
  <2>1. IsFiniteSet(1..(MAX_RETRIES + 1)) /\ Cardinality(1..(MAX_RETRIES + 1)) = MAX_RETRIES + 1
    BY MaxRetriesAssumption, FS_Interval
  <2> QED
    BY <1>7, <1>12, <2>1, FS_Product
<1>14. /\ IsFiniteSet(N) /\ Cardinality(N) <= m * (MAX_RETRIES + 1)
       /\ Cardinality(N) \in Nat
  BY <1>11, <1>13, FS_Injection, FS_CardinalityType
<1>15. Tokens(g) = Tokens(f) \union N /\ Tokens(f) \intersect N = {}
  <2>1. Tokens(f) \subseteq Tokens(g)
    BY <1>4 DEF Tokens
  <2> QED
    BY <1>5, <2>1
<1>16. /\ IsFiniteSet(Tokens(g)) /\ Cardinality(Tokens(f)) \in Nat
       /\ Cardinality(Tokens(g)) = Cardinality(Tokens(f)) + Cardinality(N)
  BY <1>14, <1>15, AddBlock
<1>17. m * (MAX_RETRIES + 1) = (MAX_RETRIES + 1) * m /\ (MAX_RETRIES + 1) * m \in Nat
  BY MaxRetriesAssumption
<1> QED
  BY <1>12, <1>14, <1>16, <1>17

\* Queues, work and grants are numbers.
LEMMA BudgetType ==
    ASSUME TypeOK, NEW m \in Msgs
    PROVE  /\ Queue(m) \in [Retries -> Nat]
           /\ Work(m) \in [Tasks -> Nat]
           /\ Granted(m) \in Nat
           /\ failures[m] \in Nat
<1>1. Queue(m) \in [Retries -> Nat]
  BY DEF TypeOK, Queue, Copies
<1>2. ASSUME NEW t \in Tasks, Busy(t) PROVE Left(t) \in Nat
  BY <1>2, BusyType, LeftType DEF Left
<1>3. Work(m) \in [Tasks -> Nat]
  BY <1>2 DEF Work
<1>4. Granted(m) \in Nat
  <2>1. PICK d \in Nat : d = redelivered[m]
    BY DEF TypeOK
  <2>2. PICK n \in Nat : n = (IF m \in published THEN 1 ELSE 0) + redelivered[m]
    BY <2>1
  <2> QED
    BY <2>2, MaxRetriesAssumption DEF Granted
<1> QED
  BY <1>1, <1>3, <1>4 DEF TypeOK

\* The numbers a budget is about.
LEMMA BudgetNumbers ==
    ASSUME TypeOK, NEW m \in Msgs, Budget(m)
    PROVE  \E n, q, w, g \in Nat :
               /\ n = failures[m] /\ q = Cardinality(Tokens(Queue(m)))
               /\ w = Cardinality(Runs(Work(m))) /\ g = Granted(m)
               /\ n + q + w <= g
<1>1. /\ Cardinality(Tokens(Queue(m))) \in Nat
      /\ Cardinality(Runs(Work(m))) \in Nat
  BY FS_CardinalityType DEF Budget
<1> QED
  BY <1>1, BudgetType DEF Budget

\* A task whose copies, work, failures and grant stay keeps its budget.
LEMMA SameBudget ==
    ASSUME NEW m, Budget(m), Queue(m)' = Queue(m), Work(m)' = Work(m),
           failures'[m] = failures[m], Granted(m)' = Granted(m)
    PROVE  Budget(m)'
BY DEF Budget

\* What is published and given back decides what is granted.
LEMMA SameGrant ==
    ASSUME NEW m, published' = published, redelivered' = redelivered
    PROVE  Granted(m)' = Granted(m)
BY DEF Granted

\* An idle consumer task has no work; a busy one has that of its own task.
LEMMA WorkOf ==
    ASSUME NEW m, NEW t \in Tasks
    PROVE  Work(m)[t] = IF Busy(t) /\ task[t].m = m THEN Left(t) ELSE 0
BY DEF Work

\* One consumer task goes on with a copy of a: only the work on a changes.
LEMMA OneTask ==
    ASSUME TypeOK, NEW t \in Tasks, NEW a \in Msgs,
           Busy(t) => task[t].m = a, Busy(t)' => task'[t].m = a,
           \A u \in Tasks : u # t => task'[u] = task[u]
    PROVE  /\ \A m \in Msgs : m # a => Work(m)' = Work(m)
           /\ Work(a)' = [Work(a) EXCEPT ![t] = IF Busy(t)' THEN Left(t)' ELSE 0]
           /\ Work(a)[t] = IF Busy(t) THEN Left(t) ELSE 0
<1>1. \A u \in Tasks : u # t => (Busy(u)' <=> Busy(u)) /\ Left(u)' = Left(u)
  BY DEF Busy, Left
<1>2. ASSUME NEW m \in Msgs, m # a PROVE Work(m)' = Work(m)
  <2>1. \A u \in Tasks :
          (IF Busy(u)' /\ task'[u].m = m THEN Left(u)' ELSE 0)
              = IF Busy(u) /\ task[u].m = m THEN Left(u) ELSE 0
    BY <1>1, <1>2
  <2> QED
    BY <2>1 DEF Work
<1>3. Work(a)' = [Work(a) EXCEPT ![t] = IF Busy(t)' THEN Left(t)' ELSE 0]
  <2>1. \A u \in Tasks : u # t =>
          (IF Busy(u)' /\ task'[u].m = a THEN Left(u)' ELSE 0)
              = IF Busy(u) /\ task[u].m = a THEN Left(u) ELSE 0
    BY <1>1
  <2>2. (IF Busy(t)' /\ task'[t].m = a THEN Left(t)' ELSE 0) = IF Busy(t)' THEN Left(t)' ELSE 0
    OBVIOUS
  <2> QED
    BY <2>1, <2>2 DEF Work
<1>4. Work(a)[t] = IF Busy(t) THEN Left(t) ELSE 0
  BY WorkOf
<1> QED
  BY <1>2, <1>3, <1>4

\* One more or one fewer copy of a changes the queue of a only.
LEMMA OneCopy ==
    ASSUME TypeOK, NEW a \in Msgs, NEW r \in Retries, NEW d \in {1, -1},
           ready' = [ready EXCEPT ![<<a, r>>] = @ + d]
    PROVE  /\ \A m \in Msgs : m # a => Queue(m)' = Queue(m)
           /\ Queue(a)' = [Queue(a) EXCEPT ![r] = @ + d]
<1>1. ready \in [Copies -> Nat] /\ \A m \in Msgs, q \in Retries : <<m, q>> \in Copies
  BY DEF TypeOK, Copies
<1>2. \A m \in Msgs, q \in Retries :
        ready'[<<m, q>>] = IF m = a /\ q = r THEN ready[<<a, r>>] + d ELSE ready[<<m, q>>]
  BY <1>1
<1>3. \A m \in Msgs : m # a => Queue(m)' = Queue(m)
  BY <1>2 DEF Queue
<1>4. Queue(a)' = [Queue(a) EXCEPT ![r] = @ + d]
  BY <1>2 DEF Queue
<1> QED
  BY <1>3, <1>4

\* The queue of a task that lost or gained nothing.
LEMMA SameQueue ==
    ASSUME NEW m, ready' = ready
    PROVE  Queue(m)' = Queue(m)
BY DEF Queue

\* The runs left to the consumer tasks when one goes on.
LEMMA WorkMoved ==
    ASSUME TypeOK, NEW a \in Msgs, Budget(a), NEW t \in Tasks,
           NEW v \in Nat, Work(a)' = [Work(a) EXCEPT ![t] = v]
    PROVE  /\ IsFiniteSet(Runs(Work(a))')
           /\ Cardinality(Runs(Work(a)))' = Cardinality(Runs(Work(a))) - Work(a)[t] + v
<1>1. PICK g \in [Tasks -> Nat] : g = Work(a) /\ IsFiniteSet(Runs(g))
  BY BudgetType DEF Budget
<1>2. PICK h : h = Work(a)' /\ h = [g EXCEPT ![t] = v]
  BY <1>1
<1>3. IsFiniteSet(Runs(h)) /\ Cardinality(Runs(h)) = Cardinality(Runs(g)) - g[t] + v
  <2>1. IsFiniteSet(Runs(g))
    BY <1>1
  <2>2. h = [g EXCEPT ![t] = v]
    BY <1>2
  <2> QED
    BY <2>1, <2>2, OtherRuns
<1>4. Runs(Work(a))' = Runs(h) /\ Runs(Work(a)) = Runs(g)
  BY <1>1, <1>2 DEF Runs
<1> QED
  BY <1>1, <1>3, <1>4

\* A step of _on_message takes a run off what is left and counts it as failed,
\* moves the runs left to a new copy, or gives some up.
LEMMA OnMessageBudget ==
    ASSUME TypeOK, Budgeted, NEW t \in Tasks, OnMessage(t)
    PROVE  Budgeted'
<1>1. Busy(t)
  BY DEF OnMessage, HandlerReturns, HandlerRaises, Ack, Republish,
         RepublishRefused, DeadLetter, Busy
<1>2. PICK a \in Msgs, r \in Retries : task[t].m = a /\ task[t].r = r
  BY <1>1, BusyType
<1>3. task[t] \in [pc : Steps, m : Msgs, r : Retries]
  BY <1>1, BusyType
<1>4. \A u \in Tasks : u # t => task'[u] = task[u]
  BY DEF OnMessage, HandlerReturns, HandlerRaises, Ack, Republish, RepublishRefused, DeadLetter,
         TypeOK
<1>5. ASSUME NEW s, task' = [task EXCEPT ![t].pc = s]
      PROVE  task'[t] = [pc |-> s, m |-> a, r |-> r]
  BY <1>2, <1>3, <1>5 DEF TypeOK
<1>6. ASSUME task' = [task EXCEPT ![t] = Idle]
      PROVE  task'[t] = Idle
  BY <1>6 DEF TypeOK
<1>7. Busy(t)' => task'[t].m = a
  <2>1. CASE task' = [task EXCEPT ![t] = Idle]
    BY <1>6, <2>1 DEF Busy, Idle
  <2>2. CASE \E s : task' = [task EXCEPT ![t].pc = s]
    <3> PICK s : task' = [task EXCEPT ![t].pc = s]
      BY <2>2
    <3>1. task'[t] = [pc |-> s, m |-> a, r |-> r]
      BY <1>5
    <3> QED
      BY <3>1
  <2> QED
    BY <2>1, <2>2 DEF OnMessage, HandlerReturns, HandlerRaises, Ack, Republish, RepublishRefused,
                      DeadLetter
<1>8. /\ \A m \in Msgs : m # a => Work(m)' = Work(m)
      /\ Work(a)' = [Work(a) EXCEPT ![t] = IF Busy(t)' THEN Left(t)' ELSE 0]
      /\ Work(a)[t] = Left(t)
  BY <1>1, <1>2, <1>4, <1>7, OneTask
<1>9. /\ published' = published /\ redelivered' = redelivered
      /\ \A m \in Msgs : m # a => failures'[m] = failures[m]
  BY <1>2 DEF OnMessage, HandlerReturns, HandlerRaises, Ack, Republish, RepublishRefused,
              DeadLetter, history, TypeOK
<1>10. \A m \in Msgs : m # a => Queue(m)' = Queue(m)
  <2>1. CASE Republish(t)
    <3>1. r + 1 \in Retries
      BY <1>2, <2>1, MaxRetriesAssumption DEF Republish, Retries
    <3>2. ready' = [ready EXCEPT ![<<a, r + 1>>] = @ + 1]
      BY <1>2, <2>1 DEF Republish
    <3> QED
      BY <3>1, <3>2, OneCopy
  <2>2. CASE ~Republish(t)
    <3>1. ready' = ready
      BY <2>2 DEF OnMessage, HandlerReturns, HandlerRaises, Ack, RepublishRefused, DeadLetter,
                  broker
    <3> QED
      BY <3>1, SameQueue
  <2> QED
    BY <2>1, <2>2
<1>11. ASSUME NEW m \in Msgs, m # a PROVE Budget(m)'
  BY <1>8, <1>9, <1>10, <1>11, SameBudget, SameGrant DEF Budgeted
<1>12. Budget(a) /\ Granted(a)' = Granted(a)
  BY <1>9, SameGrant DEF Budgeted
<1>13. PICK n, q, w, g \in Nat :
          /\ n = failures[a] /\ q = Cardinality(Tokens(Queue(a)))
          /\ w = Cardinality(Runs(Work(a))) /\ g = Granted(a)
          /\ n + q + w <= g
  BY <1>12, BudgetNumbers
<1>14. PICK k \in Nat : k = RunsLeft(r + 1) /\ RunsLeft(r) = k + 1
  BY LeftType
<1>15. ASSUME NEW v \in Nat, v = IF Busy(t)' THEN Left(t)' ELSE 0, NEW o \in Nat, o = Left(t),
              Queue(a)' = Queue(a), failures'[a] \in Nat, failures'[a] + v <= n + o
       PROVE  Budget(a)'
  <2>1. /\ IsFiniteSet(Runs(Work(a))') /\ Cardinality(Runs(Work(a)))' = w - o + v
    <3>1. Work(a)' = [Work(a) EXCEPT ![t] = v] /\ Work(a)[t] = o
      BY <1>8, <1>15
    <3>2. /\ IsFiniteSet(Runs(Work(a))')
          /\ Cardinality(Runs(Work(a)))' = Cardinality(Runs(Work(a))) - Work(a)[t] + v
      BY <1>12, <3>1, WorkMoved
    <3> QED
      BY <1>13, <3>1, <3>2
  <2>2. /\ IsFiniteSet(Tokens(Queue(a)))' /\ Cardinality(Tokens(Queue(a)))' = q
    BY <1>12, <1>13, <1>15 DEF Budget
  <2>3. PICK x \in Nat : x = failures'[a]
    BY <1>15
  <2>4. x + q + (w - o + v) <= g
    BY <1>13, <1>15, <2>3
  <2> QED
    BY <1>12, <1>13, <2>1, <2>2, <2>3, <2>4 DEF Budget
<1>16. CASE HandlerReturns(t)
  <2>1. task'[t] = [pc |-> "returned", m |-> a, r |-> r]
    BY <1>5, <1>16 DEF HandlerReturns
  <2>2. Left(t) = k + 1 /\ (IF Busy(t)' THEN Left(t)' ELSE 0) = 0
    BY <1>2, <1>14, <1>16, <2>1 DEF HandlerReturns, Left
  <2>3. failures'[a] = n /\ Queue(a)' = Queue(a)
    BY <1>13, <1>16, SameQueue DEF HandlerReturns, broker
  <2>4. Budget(a)'
    BY <1>15, <2>2, <2>3
  <2> QED
    BY <1>11, <2>4 DEF Budgeted
<1>17. CASE HandlerRaises(t)
  <2>1. task'[t] = [pc |-> "raised", m |-> a, r |-> r]
    BY <1>5, <1>17 DEF HandlerRaises
  <2>2. Left(t) = k + 1 /\ (IF Busy(t)' THEN Left(t)' ELSE 0) = k
    BY <1>2, <1>14, <1>17, <2>1 DEF HandlerRaises, Left, Busy
  <2>3. failures'[a] = n + 1 /\ Queue(a)' = Queue(a)
    BY <1>2, <1>13, <1>17, SameQueue DEF HandlerRaises, broker, TypeOK
  <2>4. Budget(a)'
    BY <1>15, <2>2, <2>3
  <2> QED
    BY <1>11, <2>4 DEF Budgeted
<1>18. CASE Ack(t)
  <2>1. Left(t) = 0 /\ (IF Busy(t)' THEN Left(t)' ELSE 0) = 0
    BY <1>6, <1>18 DEF Ack, Left, Busy, Idle
  <2>2. failures'[a] = n /\ Queue(a)' = Queue(a)
    BY <1>13, <1>18, SameQueue DEF Ack, broker, history
  <2>3. Budget(a)'
    BY <1>15, <2>1, <2>2
  <2> QED
    BY <1>11, <2>3 DEF Budgeted
<1>19. CASE RepublishRefused(t)
  <2>1. task'[t] = [pc |-> "stuck", m |-> a, r |-> r]
    BY <1>5, <1>19 DEF RepublishRefused
  <2>2. Left(t) = k /\ (IF Busy(t)' THEN Left(t)' ELSE 0) = 0
    BY <1>2, <1>14, <1>19, <2>1 DEF RepublishRefused, Left
  <2>3. failures'[a] = n /\ Queue(a)' = Queue(a)
    BY <1>13, <1>19, SameQueue DEF RepublishRefused, broker, history
  <2>4. Budget(a)'
    BY <1>15, <2>2, <2>3
  <2> QED
    BY <1>11, <2>4 DEF Budgeted
<1>20. CASE DeadLetter(t)
  <2>1. Left(t) = k /\ (IF Busy(t)' THEN Left(t)' ELSE 0) = 0
    BY <1>2, <1>6, <1>14, <1>20 DEF DeadLetter, Left, Busy, Idle
  <2>2. failures'[a] = n /\ Queue(a)' = Queue(a)
    BY <1>13, <1>20, SameQueue DEF DeadLetter, history
  <2>3. Budget(a)'
    BY <1>15, <2>1, <2>2
  <2> QED
    BY <1>11, <2>3 DEF Budgeted
<1>21. CASE Republish(t)
  <2>1. task'[t] = [pc |-> "republished", m |-> a, r |-> r]
    BY <1>5, <1>21 DEF Republish
  <2>2. Left(t) = k /\ (IF Busy(t)' THEN Left(t)' ELSE 0) = 0
    BY <1>2, <1>14, <1>21, <2>1 DEF Republish, Left
  <2>3. r + 1 \in Retries
    BY <1>2, <1>21, MaxRetriesAssumption DEF Republish, Retries
  <2>4. ready' = [ready EXCEPT ![<<a, r + 1>>] = @ + 1]
    BY <1>2, <1>21 DEF Republish
  <2>5. Queue(a)' = [Queue(a) EXCEPT ![r + 1] = @ + 1]
    BY <2>3, <2>4, OneCopy
  <2>6. PICK f : f = Queue(a)'
    OBVIOUS
  <2>7. IsFiniteSet(Tokens(f)) /\ Cardinality(Tokens(f)) = q + k
    <3>1. Queue(a) \in [Retries -> Nat] /\ IsFiniteSet(Tokens(Queue(a)))
      BY <1>12, BudgetType DEF Budget
    <3> QED
      BY <1>13, <1>14, <2>3, <2>5, <2>6, <3>1, MoreTokens
  <2>8. Tokens(Queue(a))' = Tokens(f)
    BY <2>6 DEF Tokens
  <2>9. /\ IsFiniteSet(Runs(Work(a))') /\ Cardinality(Runs(Work(a)))' = w - k + 0
    <3>1. Work(a)' = [Work(a) EXCEPT ![t] = 0] /\ Work(a)[t] = k
      BY <1>8, <2>2
    <3>2. /\ IsFiniteSet(Runs(Work(a))')
          /\ Cardinality(Runs(Work(a)))' = Cardinality(Runs(Work(a))) - Work(a)[t] + 0
      BY <1>12, <3>1, WorkMoved
    <3> QED
      BY <1>13, <3>1, <3>2
  <2>10. failures'[a] = n
    BY <1>13, <1>21 DEF Republish, history
  <2>11. n + (q + k) + (w - k + 0) <= g
    BY <1>13
  <2>12. Budget(a)'
    BY <1>12, <1>13, <2>7, <2>8, <2>9, <2>10, <2>11 DEF Budget
  <2> QED
    BY <1>11, <2>12 DEF Budgeted
<1> QED
  BY <1>16, <1>17, <1>18, <1>19, <1>20, <1>21 DEF OnMessage

\* A delivery turns the runs of a waiting copy into those of the consumer task.
LEMMA DeliverBudget ==
    ASSUME TypeOK, Budgeted, NEW t \in Tasks, NEW c \in Copies, Deliver(t, c)
    PROVE  Budgeted'
<1>1. PICK a \in Msgs, r \in Retries : c = <<a, r>>
  BY DEF Copies
<1>2. /\ ~Busy(t) /\ ready[<<a, r>>] > 0
      /\ ready' = [ready EXCEPT ![<<a, r>>] = @ + (-1)]
      /\ task' = [task EXCEPT ![t] = [pc |-> "handling", m |-> a, r |-> r]]
      /\ published' = published /\ redelivered' = redelivered /\ failures' = failures
  <2>1. ready[<<a, r>>] \in Nat
    BY <1>1 DEF TypeOK
  <2>2. ready[<<a, r>>] - 1 = ready[<<a, r>>] + (-1)
    BY <2>1
  <2> QED
    BY <1>1, <2>2 DEF Deliver, history
<1>3. /\ task'[t] = [pc |-> "handling", m |-> a, r |-> r]
      /\ \A u \in Tasks : u # t => task'[u] = task[u]
  BY <1>2 DEF TypeOK
<1>4. PICK k \in Nat : k = RunsLeft(r)
  BY LeftType
<1>5. Busy(t)' /\ Left(t)' = k /\ task'[t].m = a
  BY <1>3, <1>4 DEF Busy, Left
<1>6. /\ \A m \in Msgs : m # a => Work(m)' = Work(m)
      /\ Work(a)' = [Work(a) EXCEPT ![t] = k]
      /\ Work(a)[t] = 0
  <2>1. /\ \A m \in Msgs : m # a => Work(m)' = Work(m)
        /\ Work(a)' = [Work(a) EXCEPT ![t] = IF Busy(t)' THEN Left(t)' ELSE 0]
        /\ Work(a)[t] = IF Busy(t) THEN Left(t) ELSE 0
    BY <1>2, <1>3, <1>5, OneTask
  <2> QED
    BY <1>2, <1>5, <2>1
<1>7. /\ \A m \in Msgs : m # a => Queue(m)' = Queue(m)
      /\ Queue(a)' = [Queue(a) EXCEPT ![r] = @ + (-1)]
  BY <1>2, OneCopy
<1>8. ASSUME NEW m \in Msgs, m # a PROVE Budget(m)'
  BY <1>2, <1>6, <1>7, <1>8, SameBudget, SameGrant DEF Budgeted
<1>9. Budget(a) /\ Granted(a)' = Granted(a)
  BY <1>2, SameGrant DEF Budgeted
<1>10. PICK n, q, w, g \in Nat :
          /\ n = failures[a] /\ q = Cardinality(Tokens(Queue(a)))
          /\ w = Cardinality(Runs(Work(a))) /\ g = Granted(a)
          /\ n + q + w <= g
  BY <1>9, BudgetNumbers
<1>11. PICK e \in [Retries -> Nat] : e = Queue(a) /\ IsFiniteSet(Tokens(e)) /\ e[r] > 0
  <2>1. Queue(a)[r] > 0
    BY <1>2 DEF Queue
  <2> QED
    BY <1>9, <2>1, BudgetType DEF Budget
<1>12. PICK f : f = Queue(a)' /\ f = [e EXCEPT ![r] = @ - 1]
  <2>1. e[r] + (-1) = e[r] - 1
    BY <1>11
  <2> QED
    BY <1>7, <1>11, <2>1
<1>13. IsFiniteSet(Tokens(f)) /\ Cardinality(Tokens(f)) = q - k
  <2>1. f = [e EXCEPT ![r] = @ - 1] /\ e[r] > 0 /\ IsFiniteSet(Tokens(e))
    BY <1>11, <1>12
  <2>2. IsFiniteSet(Tokens(f)) /\ Cardinality(Tokens(f)) = Cardinality(Tokens(e)) - RunsLeft(r)
    BY <2>1, FewerTokens
  <2> QED
    BY <1>4, <1>10, <1>11, <2>2
<1>14. Tokens(Queue(a))' = Tokens(f)
  BY <1>12 DEF Tokens
<1>15. IsFiniteSet(Runs(Work(a))') /\ Cardinality(Runs(Work(a)))' = w + k
  <2>1. /\ IsFiniteSet(Runs(Work(a))')
        /\ Cardinality(Runs(Work(a)))' = Cardinality(Runs(Work(a))) - Work(a)[t] + k
    BY <1>6, <1>9, WorkMoved
  <2> QED
    BY <1>6, <1>10, <2>1
<1>16. failures'[a] = n /\ n + (q - k) + (w + k) <= g
  BY <1>2, <1>10
<1>17. Budget(a)'
  BY <1>9, <1>10, <1>13, <1>14, <1>15, <1>16 DEF Budget
<1> QED
  BY <1>8, <1>17 DEF Budgeted

\* A published task brings the runs of one copy, and is granted them.
LEMMA PublishBudget ==
    ASSUME TypeOK, Budgeted, NEW a \in Msgs, Publish(a)
    PROVE  Budgeted'
<1>1. /\ a \notin published /\ published' = published \union {a}
      /\ ready' = [ready EXCEPT ![<<a, 0>>] = @ + 1]
      /\ task' = task /\ redelivered' = redelivered /\ failures' = failures
  BY DEF Publish
<1>2. 0 \in Retries
  BY MaxRetriesAssumption DEF Retries
<1>3. \A m \in Msgs : Work(m)' = Work(m)
  BY <1>1 DEF Work, Busy, Left
<1>4. /\ \A m \in Msgs : m # a => Queue(m)' = Queue(m)
      /\ Queue(a)' = [Queue(a) EXCEPT ![0] = @ + 1]
  BY <1>1, <1>2, OneCopy
<1>5. ASSUME NEW m \in Msgs, m # a PROVE Budget(m)'
  <2>1. Granted(m)' = Granted(m)
    BY <1>1, <1>5 DEF Granted
  <2> QED
    BY <1>1, <1>3, <1>4, <1>5, <2>1, SameBudget DEF Budgeted
<1>6. Budget(a)
  BY DEF Budgeted
<1>7. PICK n, q, w, g \in Nat :
          /\ n = failures[a] /\ q = Cardinality(Tokens(Queue(a)))
          /\ w = Cardinality(Runs(Work(a))) /\ g = Granted(a)
          /\ n + q + w <= g
  BY <1>6, BudgetNumbers
<1>8. PICK k \in Nat : k = MAX_RETRIES + 1 /\ k = RunsLeft(0)
  BY <1>2, LeftType
<1>9. Granted(a)' = g + k
  <2>1. PICK d \in Nat : d = redelivered[a]
    BY DEF TypeOK
  <2>2. g = k * (0 + d) /\ Granted(a)' = k * (1 + d)
    BY <1>1, <1>7, <1>8, <2>1 DEF Granted
  <2>3. \A x, y \in Nat : x * (1 + y) = x * (0 + y) + x
    OBVIOUS
  <2> QED
    BY <2>2, <2>3
<1>10. PICK e \in [Retries -> Nat] : e = Queue(a) /\ IsFiniteSet(Tokens(e))
  BY <1>6, BudgetType DEF Budget
<1>11. PICK f : f = Queue(a)' /\ f = [e EXCEPT ![0] = @ + 1]
  BY <1>4, <1>10
<1>12. IsFiniteSet(Tokens(f)) /\ Cardinality(Tokens(f)) = q + k
  <2>1. f = [e EXCEPT ![0] = @ + 1] /\ IsFiniteSet(Tokens(e))
    BY <1>10, <1>11
  <2>2. IsFiniteSet(Tokens(f)) /\ Cardinality(Tokens(f)) = Cardinality(Tokens(e)) + RunsLeft(0)
    BY <1>2, <2>1, MoreTokens
  <2> QED
    BY <1>7, <1>8, <1>10, <2>2
<1>13. Tokens(Queue(a))' = Tokens(f)
  BY <1>11 DEF Tokens
<1>14. IsFiniteSet(Runs(Work(a)))' /\ Cardinality(Runs(Work(a)))' = w
  BY <1>3, <1>6, <1>7 DEF Budget
<1>15. failures'[a] = n /\ n + (q + k) + w <= g + k
  BY <1>1, <1>7
<1>16. Budget(a)'
  BY <1>9, <1>12, <1>13, <1>14, <1>15 DEF Budget
<1> QED
  BY <1>5, <1>16 DEF Budgeted

\* A closed channel gives each copy back once, and is granted a copy's runs for it.
LEMMA RequeueBudget ==
    ASSUME TypeOK, Budgeted, RequeueUnacked, published' = published, failures' = failures
    PROVE  Budgeted'
<1> SUFFICES ASSUME NEW m \in Msgs PROVE Budget(m)'
  BY DEF Budgeted
<1>1. Budget(m)
  BY DEF Budgeted
<1>2. PICK n, q, w, g \in Nat :
          /\ n = failures[m] /\ q = Cardinality(Tokens(Queue(m)))
          /\ w = Cardinality(Runs(Work(m))) /\ g = Granted(m)
          /\ n + q + w <= g
  BY <1>1, BudgetNumbers
<1>3. PICK B : B = {t \in Tasks : Busy(t) /\ task[t].m = m}
  OBVIOUS
<1>4. IsFiniteSet(B)
  BY <1>3, TasksAssumption, FS_Subset
<1>5. PICK u : u = [r \in Retries |-> Unacked(<<m, r>>)]
  OBVIOUS
<1>6. u \in [Retries -> SUBSET B]
  BY <1>3, <1>5 DEF Unacked, CopyOf
<1>7. \A x, y \in Retries : x # y => u[x] \intersect u[y] = {}
  BY <1>5 DEF Unacked, CopyOf
<1>8. PICK f \in [Retries -> Nat] : f = Queue(m) /\ IsFiniteSet(Tokens(f))
  BY <1>1, BudgetType DEF Budget
<1>9. PICK h : h = Queue(m)' /\ h = [r \in Retries |-> f[r] + Cardinality(u[r])]
  <2>1. \A r \in Retries : ready'[<<m, r>>] = ready[<<m, r>>] + Cardinality(Unacked(<<m, r>>))
    BY DEF RequeueUnacked, Copies
  <2>2. \A r \in Retries : f[r] = ready[<<m, r>>] /\ u[r] = Unacked(<<m, r>>)
    BY <1>5, <1>8 DEF Queue
  <2> QED
    BY <2>1, <2>2 DEF Queue
<1>10. PICK b \in Nat : b = Cardinality(B)
  BY <1>4, FS_CardinalityType
<1>11. PICK k \in Nat : k = MAX_RETRIES + 1
  BY MaxRetriesAssumption
<1>12. PICK p \in Nat : IsFiniteSet(Tokens(h)) /\ p = Cardinality(Tokens(h)) /\ p <= q + k * b
  <2>1. h = [r \in Retries |-> f[r] + Cardinality(u[r])] /\ IsFiniteSet(Tokens(f))
    BY <1>8, <1>9
  <2>2. /\ IsFiniteSet(Tokens(h)) /\ Cardinality(Tokens(h)) \in Nat
        /\ Cardinality(Tokens(h)) <= Cardinality(Tokens(f)) + (MAX_RETRIES + 1) * Cardinality(B)
    BY <1>4, <1>6, <1>7, <2>1, BackTokens
  <2> QED
    BY <1>2, <1>8, <1>10, <1>11, <2>2
<1>13. Tokens(Queue(m))' = Tokens(h)
  BY <1>9 DEF Tokens
<1>14. IsFiniteSet(Runs(Work(m)))' /\ Cardinality(Runs(Work(m)))' = 0
  <2>1. \A t \in Tasks : Work(m)'[t] = 0
    BY DEF Work, RequeueUnacked, Busy, Idle
  <2>2. Runs(Work(m))' = {}
    BY <2>1 DEF Runs
  <2> QED
    BY <2>2, FS_EmptySet
<1>15. Granted(m)' = g + k * b
  <2>1. PICK d \in Nat : d = redelivered[m]
    BY DEF TypeOK
  <2>2. redelivered'[m] = d + b
    BY <1>3, <1>10, <2>1 DEF RequeueUnacked
  <2>3. PICK i \in Nat : i = IF m \in published THEN 1 ELSE 0
    OBVIOUS
  <2>4. g = k * (i + d) /\ Granted(m)' = k * (i + (d + b))
    BY <1>2, <1>11, <2>1, <2>2, <2>3 DEF Granted
  <2>5. \A x, y, z, v \in Nat : x * (y + (z + v)) = x * (y + z) + x * v
    OBVIOUS
  <2> QED
    BY <1>10, <1>11, <2>1, <2>3, <2>4, <2>5
<1>16. failures'[m] = n /\ n + p + 0 <= g + k * b
  <2>1. PICK s \in Nat : s = k * b
    BY <1>10, <1>11
  <2> QED
    BY <1>2, <1>12, <2>1
<1> QED
  BY <1>12, <1>13, <1>14, <1>15, <1>16 DEF Budget

\* At first there are no copies and no runs.
LEMMA InitBudget == Init => Budgeted
<1> SUFFICES ASSUME Init, NEW m \in Msgs PROVE Budget(m)
  BY DEF Budgeted
<1>1. \A r \in Retries : Queue(m)[r] = 0
  BY DEF Init, Queue, Copies
<1>2. Tokens(Queue(m)) = {}
  BY <1>1 DEF Tokens
<1>3. \A t \in Tasks : Work(m)[t] = 0
  BY DEF Init, Work, Busy, Idle
<1>4. Runs(Work(m)) = {}
  BY <1>3 DEF Runs
<1>5. failures[m] = 0 /\ Granted(m) \in Nat
  BY InitType, BudgetType DEF Init
<1> QED
  BY <1>2, <1>4, <1>5, FS_EmptySet DEF Budget

\* Every step keeps to the budget.
LEMMA NextBudget ==
    ASSUME TypeOK, Budgeted, [Next]_vars
    PROVE  Budgeted'
<1>1. ASSUME ready' = ready, task' = task, published' = published, failures' = failures,
             redelivered' = redelivered
      PROVE  Budgeted'
  BY <1>1 DEF Budgeted, Budget, Queue, Work, Busy, Left, Granted
<1>2. CASE StartWorkers
  BY <1>1, <1>2 DEF StartWorkers, history
<1>3. CASE StartWorkersFails
  BY <1>1, <1>3 DEF StartWorkersFails, history
<1>4. CASE ConnectionLost
  BY <1>4, RequeueBudget DEF ConnectionLost
<1>5. CASE Reconnect
  BY <1>1, <1>5 DEF Reconnect, history, broker
<1>6. CASE Restart
  BY <1>6, RequeueBudget DEF Restart
<1>7. ASSUME NEW m \in Msgs, Publish(m) PROVE Budgeted'
  BY <1>7, PublishBudget
<1>8. ASSUME NEW t \in Tasks, NEW c \in Copies, Deliver(t, c) PROVE Budgeted'
  BY <1>8, DeliverBudget
<1>9. ASSUME NEW t \in Tasks, OnMessage(t) PROVE Budgeted'
  BY <1>9, OnMessageBudget
<1>10. CASE UNCHANGED vars
  BY <1>1, <1>10 DEF vars
<1> QED
  BY <1>2, <1>3, <1>4, <1>5, <1>6, <1>7, <1>8, <1>9, <1>10 DEF Next

\* Retrying stops: whatever the interleaving of republications, lost connections
\* and restarts, a task fails at most MAX_RETRIES + 1 times, and that many times
\* again for each copy that a closed channel gave back.
THEOREM RetryingStops == Spec => []RetriesBounded
<1>1. Init => TypeOK /\ Budgeted
  BY InitType, InitBudget
<1>2. TypeOK /\ Budgeted /\ [Next]_vars => TypeOK' /\ Budgeted'
  BY NextType, NextBudget
<1>3. TypeOK /\ Budgeted => RetriesBounded
  <2> SUFFICES ASSUME TypeOK, Budgeted, NEW m \in Msgs
               PROVE  failures[m] <= (MAX_RETRIES + 1) * (1 + redelivered[m])
    BY DEF RetriesBounded
  <2>1. PICK n, q, w, g \in Nat :
          /\ n = failures[m] /\ q = Cardinality(Tokens(Queue(m)))
          /\ w = Cardinality(Runs(Work(m))) /\ g = Granted(m)
          /\ n + q + w <= g
    BY BudgetNumbers DEF Budgeted
  <2>2. PICK d, k, i \in Nat :
          /\ d = redelivered[m] /\ k = MAX_RETRIES + 1
          /\ i = (IF m \in published THEN 1 ELSE 0) /\ i <= 1
    BY MaxRetriesAssumption DEF TypeOK
  <2>3. g = k * (i + d)
    BY <2>1, <2>2 DEF Granted
  <2>4. \A x, y, z \in Nat : z <= 1 => x * (z + y) <= x * (1 + y)
    OBVIOUS
  <2>5. g <= k * (1 + d)
    BY <2>2, <2>3, <2>4
  <2>6. PICK s \in Nat : s = k * (1 + d)
    OBVIOUS
  <2>7. n <= s
    BY <2>1, <2>5, <2>6
  <2> QED
    BY <2>1, <2>2, <2>6, <2>7
<1> QED
  BY <1>1, <1>2, <1>3, PTL DEF Spec

=============================================================================
