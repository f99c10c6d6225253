-------------------------- MODULE LongTermExtract ---------------------------
(***************************************************************************)
(* Long-term memory of one session: the extraction position in Redis, the  *)
(* turns that publish extraction tasks (trigger_longterm_extract in        *)
(* src/app/core/orchestrator/utils.py) and the consumers that extract and  *)
(* store memories (handle_longterm_extract in core/memory/mq/handlers.py,  *)
(* LongTermExtractor in core/memory/longterm/extractor.py).                *)
(*                                                                         *)
(* Messages are their positions 0, 1, 2, ... in the thread.  A memory is   *)
(* known by the turn whose messages it was extracted from.  Turns of one   *)
(* session follow each other; extraction tasks run beside them, one step   *)
(* per await.  The queue is the one AtLeastOnceQueue describes: a task may *)
(* run any number of times and is in the end completed or dead-lettered.   *)
(***************************************************************************)
EXTENDS Integers, Sequences, FiniteSets

CONSTANTS
    LONGTERM_EXTRACT_INTERVAL,  \* extractor.py:12
    Categories,                 \* profile, preference, project, relation
    MaxItems,                   \* bound of the model: memories of one extraction
    Workers,                    \* consumer tasks of q.longterm.extract
    MaxTurns,                   \* bound of the model: turns of the session
    MaxSteps,                   \* bound of the model: steps of an execution plan
    FaultKinds,                 \* which faults may happen, see Fault
    MaxFaults                   \* bound of the model: faults

ASSUME IntervalAssumption == LONGTERM_EXTRACT_INTERVAL \in Nat \ {0}
ASSUME BoundsAssumption == {MaxItems, MaxTurns, MaxSteps, MaxFaults} \subseteq Nat
ASSUME KindsAssumption ==
    FaultKinds \subseteq {"read", "write", "publish", "open", "aput", "disconnect", "restart"}

VARIABLES
    len,        \* messages of the thread in the last checkpoint
    users,      \* positions of the user's messages among them
    position,   \* Redis: ltm_last_extract, 0 when absent
    turn,       \* the turn in progress
    queue,      \* extraction tasks the broker still keeps
    worker,     \* [Workers -> what each consumer task is doing]
    memory,     \* the store: [Keys -> turn whose memory is there, 0 when none]
    turns,      \* turns started, at most MaxTurns
    faults,     \* faults so far, at most MaxFaults
    newest,     \* history: [Keys -> latest turn a memory was ever stored for]
    offered,    \* history: messages that were in a task the broker accepted
    repeated,   \* history: messages that were in two such tasks
    excused,    \* history: messages passed over by a known accident
    broken      \* history: what has gone wrong, see Flags

work == <<queue, worker, memory, newest>>
history == <<offered, repeated, excused>>
vars == <<len, users, position, turn, work, turns, faults, history, broken>>

Span(from, to) == from..(to - 1)
Positions == 0..(MaxTurns * (MaxSteps + 2))

\* The key of the index-th memory of an extraction; the thread is always the same.
Keys == Categories \X (1..MaxItems)
Extractions == UNION {[1..n -> Categories] : n \in 0..MaxItems}

\* The body of a longterm.extract message: which turn sent it and its messages,
\* from start up to total_msg_count.
Task == [by : 1..MaxTurns, start : Nat, total : Nat]

NoTurn == [pc |-> "idle"]
Turn == {NoTurn} \union
    [pc : {"reply", "publish", "set", "finish"}, total : Nat, last : Nat]

NoWork == [pc |-> "idle"]
Work == {NoWork} \union
    [pc : {"extract", "store", "position", "ack"}, task : Task,
     items : Extractions, next : 1..(MaxItems + 1)]
Working(w) == worker[w].pc # "idle"

\* "overlap": a task was published while another was still in the queue;
\* "misread": the position could not be read; "unset": a turn could not set
\* it; "cut": a turn was cut short.
Flags == {"overlap", "misread", "unset", "cut"}

TypeOK ==
    /\ len \in Nat
    /\ users \subseteq Span(0, len)
    /\ position \in Nat
    /\ turn \in Turn
    /\ queue \subseteq Task
    /\ worker \in [Workers -> Work]
    /\ memory \in [Keys -> 0..MaxTurns]
    /\ newest \in [Keys -> 0..MaxTurns]
    /\ turns \in 0..MaxTurns
    /\ faults \in 0..MaxFaults
    /\ offered \union repeated \union excused \subseteq Positions
    /\ broken \subseteq Flags

Init ==
    /\ len = 0
    /\ users = {}
    /\ position = 0
    /\ turn = NoTurn
    /\ queue = {}
    /\ worker = [w \in Workers |-> NoWork]
    /\ memory = [k \in Keys |-> 0]
    /\ newest = [k \in Keys |-> 0]
    /\ turns = 0
    /\ faults = 0
    /\ offered = {}
    /\ repeated = {}
    /\ excused = {}
    /\ broken = {}

\* A fault of one kind: a Redis read or write that fails (RedisService swallows
\* it), a publication that fails (MQPublisher swallows it), a store that cannot
\* be opened (the handler raises), an aput that fails (the extractor swallows
\* it), a client that goes away, a restart or lost connection.  As every swallowed
\* failure is ignored, one that has taken effect all the same is like a success.
Fault(kind) ==
    /\ kind \in FaultKinds
    /\ faults < MaxFaults
    /\ faults' = faults + 1

NoFault == faults' = faults
Breaks(flags) == broken' = broken \union flags

-----------------------------------------------------------------------------
(* A turn.                                                                 *)

\* The user's message is checkpointed and the graph runs.
TurnStart ==
    /\ turn = NoTurn
    /\ turns < MaxTurns
    /\ turns' = turns + 1
    /\ len' = len + 1
    /\ users' = users \union {len}
    /\ turn' = [pc |-> "reply", total |-> 0, last |-> 0]
    /\ UNCHANGED <<position, work, faults, history, broken>>

\* A turn that triggers no extraction: a code audit, with or without a report,
\* or a request whose router raised.
UntriggeredTurn ==
    /\ turn = NoTurn
    /\ turns < MaxTurns
    /\ turns' = turns + 1
    /\ len' \in {len + 1, len + 2}
    /\ users' = users \union {len}
    /\ UNCHANGED <<position, turn, work, faults, history, broken>>

\* Mutants: the first new message is skipped; the last old one is taken along.
BugStartAfter(last, total) == IF last >= total THEN 0 ELSE last + 1
BugStartBefore(last, total) == IF last >= total THEN 0 ELSE last - 1

StartOf(last, total) == IF last >= total THEN 0 ELSE last
WorthExtracting(n) == n >= LONGTERM_EXTRACT_INTERVAL

\* The reply, one message of simple_handler or those of the steps of a plan and
\* the reporter's; then get_longterm_extract_position, 0 when it fails, and the
\* count of the user's messages that are new.
ReadPosition ==
    /\ turn.pc = "reply"
    /\ \E read \in {position, 0}, total \in (len + 1)..(len + 1 + MaxSteps) :
          LET start == StartOf(read, total)
              new == Cardinality(users \intersect Span(start, total))
          IN  /\ \/ read = position /\ NoFault /\ Breaks({})
                 \/ read = 0 /\ Fault("read") /\ Breaks({"misread"})
              /\ turn' = [total |-> total, last |-> start, pc |->
                    IF WorthExtracting(new) THEN "publish" ELSE "finish"]
    /\ UNCHANGED <<len, users, position, work, turns, history>>

\* publish_longterm_extract: the broker accepts the task, or it does not and the
\* messages are passed over, as nobody looks at the result.
PublishTask ==
    /\ turn.pc = "publish"
    /\ LET task == [by |-> turns, start |-> turn.last, total |-> turn.total]
           range == Span(task.start, task.total)
       IN  \/ /\ NoFault
              /\ queue' = queue \union {task}
              /\ offered' = offered \union range
              /\ repeated' = repeated \union (offered \intersect range)
              /\ Breaks(IF queue = {} THEN {} ELSE {"overlap"})
              /\ UNCHANGED excused
           \/ /\ Fault("publish")
              /\ excused' = excused \union (range \ offered)
              /\ UNCHANGED <<queue, offered, repeated, broken>>
    /\ turn' = [turn EXCEPT !.pc = "set"]
    /\ UNCHANGED <<len, users, position, worker, memory, newest, turns>>

\* set_longterm_extract_position, whatever became of the publication.
SetPosition ==
    /\ turn.pc = "set"
    /\ \/ NoFault /\ position' = turn.total /\ Breaks({})
       \/ Fault("write") /\ position' = position /\ Breaks({"unset"})
    /\ turn' = [turn EXCEPT !.pc = "finish"]
    /\ UNCHANGED <<len, users, work, turns, history>>

\* The node returns and its messages are checkpointed.
TurnEnd ==
    /\ turn.pc = "finish"
    /\ len' = turn.total
    /\ turn' = NoTurn
    /\ UNCHANGED <<users, position, work, turns, faults, history, broken>>

-----------------------------------------------------------------------------
(* An extraction task.                                                     *)

\* The handler starts on a task no other consumer has.
Take(w, task) ==
    /\ ~Working(w)
    /\ task \in queue
    /\ \A v \in Workers : Working(v) => worker[v].task # task
    /\ worker' = [worker EXCEPT ![w] =
          [pc |-> "extract", task |-> task, items |-> <<>>, next |-> 1]]
    /\ UNCHANGED <<len, users, position, turn, queue, memory, newest, turns, faults, history, broken>>

\* get_longterm_store raises, and so does the handler: _on_message sends the
\* task round again, or to the dead letter queue.
OpenFails(w) ==
    /\ worker[w].pc = "extract"
    /\ Fault("open")
    /\ worker' = [worker EXCEPT ![w] = NoWork]
    /\ queue' \in {queue, queue \ {worker[w].task}}
    /\ UNCHANGED <<len, users, position, turn, memory, newest, turns,
                   history, broken>>

\* Mutant: the task is acked before its memories are stored.
BugAckFirst(w) ==
    /\ worker[w].pc = "extract"
    /\ queue' = queue \ {worker[w].task}
    /\ \E items \in Extractions \ {<<>>} :
          worker' = [worker EXCEPT ![w].items = items, ![w].pc = "store"]
    /\ UNCHANGED <<len, users, position, turn, memory, newest, turns, faults, history, broken>>

\* The store is open; _extract: any memories, none of them when the model call fails.
Extract(w) ==
    /\ worker[w].pc = "extract"
    /\ \E items \in Extractions :
          worker' = [worker EXCEPT ![w].items = items, ![w].pc =
                IF items = <<>> THEN "position" ELSE "store"]
    /\ UNCHANGED <<len, users, position, turn, queue, memory, newest, turns, faults, history, broken>>

\* aput of the next memory under thread, category and index, over whatever is
\* there.  A failure is logged and the next one is stored.
Store(w) ==
    /\ worker[w].pc = "store"
    /\ LET n == worker[w].next
           key == <<worker[w].items[n], n>>
           by == worker[w].task.by
       IN  /\ \/ /\ NoFault
                 /\ memory' = [memory EXCEPT ![key] = by]
                 /\ newest' = [newest EXCEPT ![key] = IF by > @ THEN by ELSE @]
              \/ Fault("aput") /\ UNCHANGED <<memory, newest>>
           /\ worker' = [worker EXCEPT ![w].next = n + 1, ![w].pc =
                 IF n = Len(worker[w].items) THEN "position" ELSE "store"]
    /\ UNCHANGED <<len, users, position, turn, queue, turns,
                   history, broken>>

\* Mutant: the handler sets the start of its range.
BugSetStart(w) ==
    /\ worker[w].pc = "position"
    /\ NoFault
    /\ position' = worker[w].task.start
    /\ worker' = [worker EXCEPT ![w].pc = "ack"]
    /\ UNCHANGED <<len, users, turn, queue, memory, newest, turns, history, broken>>

\* set_longterm_extract_position once more, to what the list held when the task
\* was sent.
SetTaskPosition(w) ==
    /\ worker[w].pc = "position"
    /\ \/ NoFault /\ position' = worker[w].task.total
       \/ Fault("write") /\ position' = position
    /\ worker' = [worker EXCEPT ![w].pc = "ack"]
    /\ UNCHANGED <<len, users, turn, queue, memory, newest, turns, history, broken>>

\* The handler has returned; _on_message acks.
Ack(w) ==
    /\ worker[w].pc = "ack"
    /\ queue' = queue \ {worker[w].task}
    /\ worker' = [worker EXCEPT ![w] = NoWork]
    /\ UNCHANGED <<len, users, position, turn, memory, newest, turns, faults, history, broken>>

Handle(w) ==
    \/ OpenFails(w) \/ Extract(w) \/ Store(w)
    \/ SetTaskPosition(w) \/ Ack(w)

-----------------------------------------------------------------------------
(* Faults that stop work half-way.                                         *)

\* The messages the turn had not checkpointed are lost.  Others will take their
\* positions, which an extraction has perhaps gone past already.
LoseTurn ==
    /\ turn # NoTurn
    /\ turn' = NoTurn
    /\ offered' = offered \intersect Span(0, len)
    /\ repeated' = repeated \intersect Span(0, len)
    /\ excused' = excused \union (offered \ Span(0, len))
    /\ Breaks({"cut"})

\* The client of a streamed reply goes away, or the graph raises.
Disconnect ==
    /\ Fault("disconnect")
    /\ LoseTurn
    /\ UNCHANGED <<len, users, position, work, turns>>

\* The MQ connection is lost: running handlers are cancelled, their tasks will
\* be delivered again.
ConnectionLost ==
    /\ \E w \in Workers : Working(w)
    /\ Fault("restart")
    /\ worker' = [w \in Workers |-> NoWork]
    /\ UNCHANGED <<len, users, position, turn, queue, memory, newest, turns, history, broken>>

\* The process restarts: the turn is lost, and so are the running handlers.
Restart ==
    /\ Fault("restart")
    /\ LoseTurn
    /\ worker' = [w \in Workers |-> NoWork]
    /\ UNCHANGED <<len, users, position, queue, memory, newest, turns>>

Next ==
    \/ TurnStart
    \/ UntriggeredTurn
    \/ ReadPosition
    \/ PublishTask
    \/ SetPosition
    \/ TurnEnd
    \/ \E w \in Workers, task \in queue : Take(w, task)
    \/ \E w \in Workers : Handle(w)
    \/ Disconnect
    \/ ConnectionLost
    \/ Restart

Spec == Init /\ [][Next]_vars

-----------------------------------------------------------------------------
(* Properties.                                                             *)

\* A message before the extraction position (utils.py:145, handlers.py:67) was
\* in a task the broker accepted, however late, often or incompletely handlers
\* run and whatever Redis calls fail, but for two accidents: the publication of
\* its own task was refused, or it took the position of an offered message that
\* a turn cut short has lost.
OfferedOrExcused ==
    Span(0, position) \intersect Span(0, len) \subseteq offered \union excused

\* A message is offered for extraction once (utils.py:104-107), also with
\* redelivered, failing and dead-lettered tasks, failed writes of the handler
\* and refused publications: only a handler that is overtaken by the next task,
\* a turn cut short, or a turn that cannot read or set the position repeats one.
OfferedOnceUnlessBroken == broken = {} => repeated = {}

\* What lies under a key of the store (extractor.py:47) is the latest memory
\* stored under it, in spite of redelivery, unless a task was published while
\* another was in the queue.
NewestKept == "overlap" \notin broken => memory = newest

=============================================================================
