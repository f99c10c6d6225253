----------------------------- MODULE MQService ------------------------------
(***************************************************************************)
(* The message service of src/app/core/memory/mq/service.py (class         *)
(* MQService), the publisher of src/app/infrastructure/mq_publisher.py and *)
(* the RabbitMQ broker behind them, for one of the task queues.            *)
(*                                                                         *)
(* A published task travels as copies <<m, r>>: task m with the header     *)
(* x-retry-count = r.  The broker delivers copies to consumer tasks        *)
(* (aiormq starts one asyncio task per delivery, so as many handlers run   *)
(* at once as the channel's prefetch count allows) and keeps an            *)
(* unacknowledged copy until it is acked, nacked, or the channel closes.   *)
(* _on_message runs the handler and then acks; when the handler raises it  *)
(* first publishes a copy with the next retry count and then acks the old  *)
(* one, two steps with an await between them; past MAX_RETRIES it nacks,   *)
(* and the broker parks the task in the dead letter queue.                 *)
(*                                                                         *)
(* The handler itself is abstract here: it returns or raises.              *)
(***************************************************************************)
EXTENDS Integers, FiniteSets

CONSTANTS
    Msgs,          \* the tasks that may be published
    Tasks,         \* consumer tasks: one per delivery slot of the prefetch window
    MAX_RETRIES,   \* service.py:29
    MaxFaults      \* bound of the model on crashes, lost connections and refusals

ASSUME TasksAssumption == IsFiniteSet(Tasks)
ASSUME MaxRetriesAssumption == MAX_RETRIES \in Nat
ASSUME MaxFaultsAssumption == MaxFaults \in Nat

VARIABLES
    workers,       \* "stopped", "consuming", or "failed" once start_workers raised
    connected,     \* whether the AMQP connection is up
    declared,      \* whether the durable queue exists and is bound
    ready,         \* [Copies -> Nat]: copies waiting in the queue
    task,          \* [Tasks -> Delivery]: what each consumer task is doing
    dlq,           \* tasks parked in q.dlq
    published,     \* history: tasks the broker accepted into the queue
    done,          \* history: tasks whose handler returned
    failures,      \* history: [Msgs -> Nat], handler runs that raised
    redelivered,   \* history: [Msgs -> Nat], copies given back by a closed channel
    faults         \* faults so far, at most MaxFaults

broker == <<declared, ready, dlq>>
history == <<published, done, failures, redelivered>>
vars == <<workers, connected, declared, ready, task, dlq, published, done,
          failures, redelivered, faults>>

Retries == 0..MAX_RETRIES
Copies == Msgs \X Retries

\* The steps of _on_message: the handler is running; it has returned and the
\* ack is next; it has raised and the retry decision is next; the retry copy
\* is published and the ack is next; the method itself raised and its copy
\* stays unacknowledged.
Steps == {"handling", "returned", "raised", "republished", "stuck"}
Idle == [pc |-> "idle"]
Delivery == {Idle} \union [pc : Steps, m : Msgs, r : Retries]

Busy(t) == task[t].pc # "idle"
CopyOf(t) == <<task[t].m, task[t].r>>

\* The copies of c that are out with a consumer task, unacknowledged.
Unacked(c) == {t \in Tasks : Busy(t) /\ CopyOf(t) = c}

\* The broker still keeps a copy of m with retry count r.
Holds(m, r) == ready[<<m, r>>] > 0 \/ Unacked(<<m, r>>) # {}

Settled(m) == m \in done \/ m \in dlq

TypeOK ==
    /\ workers \in {"stopped", "consuming", "failed"}
    /\ connected \in BOOLEAN
    /\ declared \in BOOLEAN
    /\ ready \in [Copies -> Nat]
    /\ task \in [Tasks -> Delivery]
    /\ dlq \subseteq Msgs
    /\ published \subseteq Msgs
    /\ done \subseteq Msgs
    /\ failures \in [Msgs -> Nat]
    /\ redelivered \in [Msgs -> Nat]
    /\ faults \in 0..MaxFaults

Init ==
    /\ workers = "stopped"
    /\ connected = TRUE
    /\ declared = FALSE
    /\ ready = [c \in Copies |-> 0]
    /\ task = [t \in Tasks |-> Idle]
    /\ dlq = {}
    /\ published = {}
    /\ done = {}
    /\ failures = [m \in Msgs |-> 0]
    /\ redelivered = [m \in Msgs |-> 0]
    /\ faults = 0

Fault ==
    /\ faults < MaxFaults
    /\ faults' = faults + 1

-----------------------------------------------------------------------------
(* start_workers, stop_workers and the connection.                         *)

\* start_workers declares the exchange, the queues and their bindings and
\* starts consuming.
StartWorkers ==
    /\ workers = "stopped"
    /\ connected
    /\ workers' = "consuming"
    /\ declared' = TRUE
    /\ UNCHANGED <<connected, ready, task, dlq, history, faults>>

\* A call in start_workers raises.  _running is already TRUE and main.py only
\* logs the failure, so nothing starts the consumers again in this process;
\* the queue may or may not have been declared and bound before the failure.
StartWorkersFails ==
    /\ workers = "stopped"
    /\ Fault
    /\ workers' = "failed"
    /\ declared' \in {declared, TRUE}
    /\ UNCHANGED <<connected, ready, task, dlq, history>>

\* Mutant: the consumer is started with no_ack, so a closed channel gives
\* nothing back.
BugNoRequeue ==
    /\ ready' = ready
    /\ redelivered' = redelivered
    /\ task' = [t \in Tasks |-> Idle]

\* The channel closes: the broker puts every unacknowledged copy back in the
\* queue and aiormq cancels the consumer tasks; CancelledError is no
\* Exception, so the except branch of _on_message does not run.
RequeueUnacked ==
    /\ ready' = [c \in Copies |-> ready[c] + Cardinality(Unacked(c))]
    /\ redelivered' = [m \in Msgs |->
           redelivered[m] + Cardinality({t \in Tasks : Busy(t) /\ task[t].m = m})]
    /\ task' = [t \in Tasks |-> Idle]

ConnectionLost ==
    /\ connected
    /\ Fault
    /\ connected' = FALSE
    /\ RequeueUnacked
    /\ UNCHANGED <<workers, declared, dlq, published, done, failures>>

\* RobustConnection reconnects and restores the consumers.
Reconnect ==
    /\ ~connected
    /\ connected' = TRUE
    /\ UNCHANGED <<workers, broker, task, history, faults>>

\* The process dies or shuts down and starts again.  On a shutdown
\* stop_workers cancels nothing (the channel has no basic_cancel, and the
\* exception is swallowed) and close_mq closes the connection under the
\* running handlers.
Restart ==
    /\ Fault
    /\ workers' = "stopped"
    /\ connected' = TRUE
    /\ RequeueUnacked
    /\ UNCHANGED <<declared, dlq, published, done, failures>>

-----------------------------------------------------------------------------
(* Publishing and delivering.                                              *)

\* MQPublisher.publish returns True and the broker has routed the message.
\* Without a connection, publish logs the exception and returns False: the
\* task is dropped by the caller and never was in the queue.
Publish(m) ==
    /\ connected
    /\ declared
    /\ m \notin published
    /\ published' = published \union {m}
    /\ ready' = [ready EXCEPT ![<<m, 0>>] = @ + 1]
    /\ UNCHANGED <<workers, connected, declared, task, dlq, done, failures,
                   redelivered, faults>>

\* The broker delivers a copy and aiormq starts a task running the handler.
Deliver(t, c) ==
    /\ connected
    /\ workers = "consuming"
    /\ ~Busy(t)
    /\ ready[c] > 0
    /\ ready' = [ready EXCEPT ![c] = @ - 1]
    /\ task' = [task EXCEPT ![t] = [pc |-> "handling", m |-> c[1], r |-> c[2]]]
    /\ UNCHANGED <<workers, connected, declared, dlq, history, faults>>

-----------------------------------------------------------------------------
(* _on_message.                                                            *)

HandlerReturns(t) ==
    /\ task[t].pc = "handling"
    /\ task' = [task EXCEPT ![t].pc = "returned"]
    /\ done' = done \union {task[t].m}
    /\ UNCHANGED <<workers, connected, broker, published, failures,
                   redelivered, faults>>

\* Mutant: the retry count is incremented in the message being handled.
BugCountInPlace(t) ==
    /\ task[t].pc = "handling"
    /\ task' = [task EXCEPT ![t].pc = "raised", ![t].r = @ + 1]
    /\ failures' = [failures EXCEPT ![task[t].m] = @ + 1]
    /\ UNCHANGED <<workers, connected, broker, published, done, redelivered,
                   faults>>

HandlerRaises(t) ==
    /\ task[t].pc = "handling"
    /\ task' = [task EXCEPT ![t].pc = "raised"]
    /\ failures' = [failures EXCEPT ![task[t].m] = @ + 1]
    /\ UNCHANGED <<workers, connected, broker, published, done, redelivered,
                   faults>>

\* Mutants: the message is acked before its retry copy is published; the ack
\* after the republication is missing.
BugAckFirst(t) ==
    /\ task[t].pc \in {"returned", "raised", "republished"}
    /\ task' = [task EXCEPT ![t] = Idle]
    /\ UNCHANGED <<workers, connected, broker, history, faults>>

BugNoAckAfterRetry(t) ==
    /\ task[t].pc = "returned"
    /\ task' = [task EXCEPT ![t] = Idle]
    /\ UNCHANGED <<workers, connected, broker, history, faults>>

\* message.ack(), after the handler returned or after the retry copy is out.
Ack(t) ==
    /\ task[t].pc \in {"returned", "republished"}
    /\ task' = [task EXCEPT ![t] = Idle]
    /\ UNCHANGED <<workers, connected, broker, history, faults>>

\* Mutants: the retry copy goes out without its routing key, so that no queue
\* gets it; without its header; with a header that skips a count.
BugNoRoutingKey(t) ==
    /\ task[t].pc = "raised"
    /\ task[t].r + 1 <= MAX_RETRIES
    /\ task' = [task EXCEPT ![t].pc = "republished"]
    /\ UNCHANGED <<workers, connected, broker, history, faults>>

BugNoHeader(t) ==
    /\ task[t].pc = "raised"
    /\ task[t].r + 1 <= MAX_RETRIES
    /\ ready' = [ready EXCEPT ![<<task[t].m, 0>>] = @ + 1]
    /\ task' = [task EXCEPT ![t].pc = "republished"]
    /\ UNCHANGED <<workers, connected, declared, dlq, history, faults>>

BugHeaderSkips(t) ==
    /\ task[t].pc = "raised"
    /\ task[t].r + 2 <= MAX_RETRIES
    /\ ready' = [ready EXCEPT ![<<task[t].m, task[t].r + 2>>] = @ + 1]
    /\ task' = [task EXCEPT ![t].pc = "republished"]
    /\ UNCHANGED <<workers, connected, declared, dlq, history, faults>>

\* _requeue_with_retry: a new copy with retry_count + 1, while the old copy
\* is still unacknowledged.
Republish(t) ==
    /\ task[t].pc = "raised"
    /\ task[t].r + 1 <= MAX_RETRIES
    /\ ready' = [ready EXCEPT ![<<task[t].m, task[t].r + 1>>] = @ + 1]
    /\ task' = [task EXCEPT ![t].pc = "republished"]
    /\ UNCHANGED <<workers, connected, declared, dlq, history, faults>>

\* The broker refuses the retry copy.  The exception leaves _on_message, and
\* the old copy stays unacknowledged, holding a slot of the prefetch window,
\* until the channel closes.
RepublishRefused(t) ==
    /\ task[t].pc = "raised"
    /\ task[t].r + 1 <= MAX_RETRIES
    /\ Fault
    /\ task' = [task EXCEPT ![t].pc = "stuck"]
    /\ UNCHANGED <<workers, connected, broker, history>>

\* Mutant: the comparison with MAX_RETRIES is off by one.
BugParkEarly(t) ==
    /\ task[t].pc = "raised"
    /\ task[t].r + 1 >= MAX_RETRIES
    /\ dlq' = dlq \union {task[t].m}
    /\ task' = [task EXCEPT ![t] = Idle]
    /\ UNCHANGED <<workers, connected, declared, ready, history, faults>>

\* message.nack(requeue=False): the broker moves the copy to the dead letter
\* queue.
DeadLetter(t) ==
    /\ task[t].pc = "raised"
    /\ task[t].r + 1 > MAX_RETRIES
    /\ dlq' = dlq \union {task[t].m}
    /\ task' = [task EXCEPT ![t] = Idle]
    /\ UNCHANGED <<workers, connected, declared, ready, history, faults>>

OnMessage(t) ==
    \/ HandlerReturns(t)
    \/ HandlerRaises(t)
    \/ Ack(t)
    \/ Republish(t)
    \/ RepublishRefused(t)
    \/ DeadLetter(t)

Next ==
    \/ StartWorkers
    \/ StartWorkersFails
    \/ ConnectionLost
    \/ Reconnect
    \/ Restart
    \/ \E m \in Msgs : Publish(m)
    \/ \E t \in Tasks, c \in Copies : Deliver(t, c)
    \/ \E t \in Tasks : OnMessage(t)

Spec == Init /\ [][Next]_vars

\* Startup runs start_workers once, RobustConnection keeps reconnecting, the
\* broker delivers what it can, and the event loop resumes every handler.  A
\* handler ends (its calls return or raise) but need not ever succeed, and no
\* fault is forced.
Fairness ==
    /\ WF_vars(StartWorkers)
    /\ WF_vars(Reconnect)
    /\ WF_vars(\E t \in Tasks, c \in Copies : Deliver(t, c))
    /\ \A t \in Tasks :
          /\ WF_vars(HandlerReturns(t) \/ HandlerRaises(t))
          /\ WF_vars(Ack(t))
          /\ WF_vars(Republish(t))
          /\ WF_vars(DeadLetter(t))

FairSpec == Spec /\ Fairness

-----------------------------------------------------------------------------
(* Properties.                                                             *)

\* A published task is never lost: at every moment its handler has returned,
\* or it is in the dead letter queue, or the broker still keeps a copy of it,
\* whatever the interleaving of the republish and the ack with lost
\* connections and restarts.
NoMessageLost ==
    \A m \in published : Settled(m) \/ \E r \in Retries : Holds(m, r)

\* Why that is so between the two steps of a retry: while an old copy waits
\* for the ack that follows its republication, a copy with a larger retry
\* count exists, unless the task was settled meanwhile.
RetryCovered ==
    \A t \in Tasks, m \in Msgs, q \in Retries :
        task[t] = [pc |-> "republished", m |-> m, r |-> q] =>
            Settled(m) \/ \E r \in Retries : r > q /\ Holds(m, r)

\* A task is parked only after its handler raised MAX_RETRIES + 1 times, in
\* whichever process and on whichever copies those runs took place.
NoEarlyDeadLetter == \A m \in dlq : failures[m] >= MAX_RETRIES + 1

\* A retry count in a header never runs ahead of the failures it stands for.
RetriesCounted ==
    /\ \A m \in Msgs, r \in Retries : Holds(m, r) => failures[m] >= r
    /\ \A t \in Tasks : task[t].pc \in {"raised", "republished", "stuck"} =>
           failures[task[t].m] >= task[t].r + 1

\* Retrying stops: a task fails at most MAX_RETRIES + 1 times, and that many
\* times again for each copy that a closed channel gave back to the broker.
RetriesBounded ==
    \A m \in Msgs : failures[m] <= (MAX_RETRIES + 1) * (1 + redelivered[m])

\* Only published tasks are worked on.
OnlyPublished ==
    /\ \A m \in Msgs, r \in Retries : Holds(m, r) => m \in published
    /\ done \union dlq \subseteq published

\* A task about to ack a handler that returned works on a completed task.
ReturnedDone == \A t \in Tasks : task[t].pc = "returned" => task[t].m \in done

\* The inductive invariant: what the proofs of the above rest on.
IInv ==
    /\ TypeOK
    /\ NoMessageLost
    /\ RetryCovered
    /\ NoEarlyDeadLetter
    /\ RetriesCounted
    /\ OnlyPublished
    /\ ReturnedDone

\* MQService implements the at-least-once queue: a task is held there when
\* some copy of it is in the queue or with a consumer task here.
HeldTasks == {m \in Msgs : \E r \in Retries : Holds(m, r)}

Abstract == INSTANCE AtLeastOnceQueue WITH
    accepted <- published,
    held <- HeldTasks,
    dead <- dlq

Refines == Abstract!QSpec

\* Who can keep a task waiting forever: start_workers failed, every slot of
\* the prefetch window is taken by an unacknowledged copy whose republication
\* was refused, or the task itself sits in such a slot.
Stranded(m) ==
    \/ workers = "failed"
    \/ \A t \in Tasks : task[t].pc = "stuck"
    \/ \E t \in Tasks : task[t].pc = "stuck" /\ task[t].m = m

\* Every published task is eventually handled or parked, unless it is
\* stranded in one of those ways: crashes, lost connections and failing
\* handlers only delay it.
EventuallySettled ==
    \A m \in Msgs : m \in published ~> (Settled(m) \/ Stranded(m))

\* A slot whose handler ended is eventually free again unless its republish
\* was refused: the prefetch window does not fill up with finished work.
SlotsFreed ==
    \A t \in Tasks : Busy(t) ~> (~Busy(t) \/ task[t].pc = "stuck")

=============================================================================
