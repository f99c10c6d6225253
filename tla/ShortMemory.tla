---------------------------- MODULE ShortMemory -----------------------------
(***************************************************************************)
(* Short-term memory of one session: the Redis keys summary, msg_count and *)
(* last_compress_idx, the turns that read and count messages               *)
(* (simple_handler, executor and src/app/core/memory/shortmem.py) and the  *)
(* compression tasks they send through the message queue                   *)
(* (handle_shortmem_compress in src/app/core/memory/mq/handlers.py).       *)
(*                                                                         *)
(* Messages are their positions 0, 1, 2, ... in the thread.  A summary is  *)
(* the set of positions it has taken in: asking the model to summarise     *)
(* some messages and an old summary gives the union of the two.            *)
(*                                                                         *)
(* Turns of one session follow each other; compression tasks run beside    *)
(* them and beside each other, one step per await.  The queue delivers at  *)
(* least once (AtLeastOnceQueue): a task stays in it until its handler has *)
(* returned and the ack is out, and a closed channel makes it run again.   *)
(***************************************************************************)
EXTENDS Integers, FiniteSets

CONSTANTS
    COMPRESS_THRESHOLD,   \* shortmem.py:20
    KEEP_FRESH_MESSAGES,  \* shortmem.py:21
    Workers,              \* consumer tasks that may compress at the same time
    MaxTurns,             \* bound of the model: turns, and replans, of the session
    MaxSteps,             \* bound of the model: steps of an execution plan
    MaxIterations,        \* max_iterations, api/v1/agent.py:41: plans of one turn
    FaultKinds,           \* which faults may happen, see Fault
    MaxFaults             \* bound of the model: faults

\* 30 and 20 in the code.  A reply of simple_handler is counted twice.
ASSUME ThresholdAssumption ==
    COMPRESS_THRESHOLD \in Nat /\ COMPRESS_THRESHOLD > KEEP_FRESH_MESSAGES
ASSUME KeepAssumption == KEEP_FRESH_MESSAGES \in Nat /\ KEEP_FRESH_MESSAGES >= 2
ASSUME StepsAssumption == MaxSteps \in Nat /\ MaxSteps < KEEP_FRESH_MESSAGES
ASSUME BoundsAssumption ==
    MaxTurns \in Nat /\ MaxFaults \in Nat /\ MaxIterations \in Nat \ {0}
ASSUME KindsAssumption ==
    FaultKinds \subseteq {"read", "write", "llm", "publish", "disconnect", "restart"}

VARIABLES
    len,       \* messages of the thread in the last checkpoint
    summary,   \* Redis: positions the summary has taken in, {} when absent
    count,     \* Redis: msg_count, 0 when absent
    idx,       \* Redis: last_compress_idx, 0 when absent
    turn,      \* the turn in progress
    queue,     \* compression tasks the broker still keeps
    worker,    \* [Workers -> what each consumer task is doing]
    turns,     \* turns and replans started, at most MaxTurns
    faults,    \* faults so far, at most MaxFaults
    clean      \* history: FALSE once a turn began amid a compression or without
               \* the summary, or a model call failed

redis == <<summary, count, idx>>
vars == <<len, summary, count, idx, turn, queue, worker, turns, faults, clean>>

Positions == 0..(MaxTurns * (MaxSteps + 2))
Span(from, to) == from..(to - 1)

\* The body of a shortmem.compress message: the old summary, the range to
\* compress, and how many messages come with it; `by` tells two messages with
\* the same body apart.
Job == [by : 1..MaxTurns, old : SUBSET Positions, start : Nat, end : Nat, total : Nat]

\* A turn: how often it has planned, the old summary and the window it read,
\* the messages it has added but not yet checkpointed, and the length of the
\* list it hands to increment_and_check_compress.
NoTurn == [pc |-> "idle"]
Turn == {NoTurn} \union
    [pc : {"init", "count", "reply", "incr", "trigger", "finish"},
     kind : {"simple", "plan"}, plans : 1..MaxIterations, old : SUBSET Positions, window : Nat,
     added : Nat, total : Nat]

NoWork == [pc |-> "idle"]
Work == {NoWork} \union
    [pc : {"summarise", "set_summary", "set_count", "set_idx", "ack"},
     job : Job, text : SUBSET Positions]

Working(w) == worker[w].pc # "idle"

TypeOK ==
    /\ len \in Nat
    /\ summary \subseteq Positions
    /\ count \in Nat
    /\ idx \in Nat
    /\ turn \in Turn
    /\ queue \subseteq Job
    /\ worker \in [Workers -> Work]
    /\ turns \in 0..MaxTurns
    /\ faults \in 0..MaxFaults
    /\ clean \in BOOLEAN

Init ==
    /\ len = 0
    /\ summary = {}
    /\ count = 0
    /\ idx = 0
    /\ turn = NoTurn
    /\ queue = {}
    /\ worker = [w \in Workers |-> NoWork]
    /\ turns = 0
    /\ faults = 0
    /\ clean = TRUE

\* A fault of one kind: a Redis read or write that fails (RedisService
\* swallows it), a model call that fails, a publication that fails
\* (MQPublisher swallows it), a client that goes away, a restart or lost
\* connection.
Fault(kind) ==
    /\ kind \in FaultKinds
    /\ faults < MaxFaults
    /\ faults' = faults + 1

NoFault == faults' = faults

\* A Redis read returns the stored value, or the default when it fails.
ReadsOrDefault(stored, default, value) ==
    \/ value = stored /\ NoFault
    \/ value = default /\ Fault("read")

-----------------------------------------------------------------------------
(* A turn.                                                                 *)

\* The node reads the summary; the thread then has n messages.  The history
\* variable remembers whether compression was under way by then.
Begin(kind, plans, n) ==
    /\ turns < MaxTurns
    /\ turns' = turns + 1
    /\ len' = n
    /\ \E old \in {summary, {}} :
          /\ ReadsOrDefault(summary, {}, old)
          /\ turn' = [pc |-> "init", kind |-> kind, plans |-> plans, old |-> old,
                      window |-> 0, added |-> 0, total |-> 0]
          /\ clean' = (clean /\ queue = {} /\ old = summary)
    /\ UNCHANGED <<redis, queue, worker>>

\* The user's message is in the thread and simple_handler or the executor runs.
TurnStart(kind) == turn = NoTurn /\ Begin(kind, 1, len + 1)

\* The judge sends the plan back, and the executor runs again in the same
\* turn: route_judge allows MaxIterations plans.
Replan ==
    /\ turn.pc = "finish"
    /\ turn.kind = "plan"
    /\ turn.plans < MaxIterations
    /\ Begin("plan", turn.plans + 1, len + turn.added)

\* A turn that touches no counter: a code audit, or a plan without steps.  A
\* restart may lose its report.
UncountedTurn ==
    /\ turn = NoTurn
    /\ turns < MaxTurns
    /\ turns' = turns + 1
    /\ len' \in {len + 1, len + 2}
    /\ UNCHANGED <<redis, turn, queue, worker, faults, clean>>

\* init_msg_count_if_needed: with a summary but no counter, start it at
\* KEEP_FRESH_MESSAGES.  The only other write that could come between its read
\* and its write stores the same value.
InitMsgCount ==
    /\ turn.pc = "init"
    /\ \E current \in {count, 0} :
          /\ ReadsOrDefault(count, 0, current)
          /\ count' = IF turn.old # {} /\ current = 0 THEN KEEP_FRESH_MESSAGES
                                                      ELSE count
    /\ turn' = [turn EXCEPT !.pc = "count"]
    /\ UNCHANGED <<len, summary, idx, queue, worker, turns, clean>>

\* get_msg_count, and the window of messages the prompt will carry.  A plan
\* without a summary looks at the thread itself, not at the counter (the cap
\* of 50 messages lies beyond the bounds of the model).
ReadWindow ==
    /\ turn.pc = "count"
    /\ \E current \in {count, 0} :
          /\ ReadsOrDefault(count, 0, current)
          /\ turn' = [turn EXCEPT !.pc = "reply", !.window =
                IF turn.kind = "plan" /\ turn.old = {} THEN len - 1
                ELSE IF current = 0 THEN COMPRESS_THRESHOLD ELSE current]
    /\ UNCHANGED <<len, redis, queue, worker, turns, clean>>

\* The reply.  simple_handler appends it to state["messages"], of which
\* `messages` is an alias, and then adds it again to the list it passes on;
\* the executor appends one message per step of the plan and passes the thread.
SimpleReply ==
    /\ turn.pc = "reply"
    /\ turn.kind = "simple"
    /\ turn' = [turn EXCEPT !.pc = "incr", !.added = 1, !.total = len + 2]
    /\ UNCHANGED <<len, redis, queue, worker, turns, faults, clean>>

PlanReply ==
    /\ turn.pc = "reply"
    /\ turn.kind = "plan"
    /\ \E n \in 1..MaxSteps :
          turn' = [turn EXCEPT !.pc = "incr", !.added = n, !.total = len + n]
    /\ UNCHANGED <<len, redis, queue, worker, turns, faults, clean>>

\* Mutants: the threshold only counts when it is hit exactly; the newest
\* messages are not kept.
BugExactly(c) == c = COMPRESS_THRESHOLD
BugKeepNothing(total) == total

ReachesThreshold(c) == c >= COMPRESS_THRESHOLD
CompressEnd(total) == total - KEEP_FRESH_MESSAGES
WorthCompressing(end, last) == end > last

\* increment_msg_count, and the comparison with the threshold.  A failed
\* increment reports 0, even if Redis did increment and only the answer is lost.
Increment ==
    /\ turn.pc = "incr"
    /\ \/ /\ NoFault
          /\ count' = count + 1
          /\ turn' = [turn EXCEPT !.pc =
                IF ReachesThreshold(count + 1) THEN "trigger" ELSE "finish"]
       \/ /\ Fault("write")
          /\ count' \in {count, count + 1}
          /\ turn' = [turn EXCEPT !.pc = "finish"]
    /\ UNCHANGED <<len, summary, idx, queue, worker, turns, clean>>

\* get_last_compress_idx, the range, and the publication with the summary
\* read when the turn began.
Trigger ==
    /\ turn.pc = "trigger"
    /\ \E last \in {idx, 0} :
          LET end == CompressEnd(turn.total)
              job == [by |-> turns, old |-> turn.old, start |-> last,
                      end |-> end, total |-> turn.total]
          IN  \/ /\ WorthCompressing(end, last)
                 /\ ReadsOrDefault(idx, 0, last)
                 /\ queue' = queue \union {job}
              \/ /\ WorthCompressing(end, last)
                 /\ last = idx
                 /\ Fault("publish")
                 /\ queue' = queue
              \/ /\ ~WorthCompressing(end, last)
                 /\ ReadsOrDefault(idx, 0, last)
                 /\ queue' = queue
    /\ turn' = [turn EXCEPT !.pc = "finish"]
    /\ UNCHANGED <<len, redis, worker, turns, clean>>

\* The node returns and its messages are checkpointed; after a plan the
\* reporter adds its own.
TurnEnd ==
    /\ turn.pc = "finish"
    /\ len' = len + turn.added + (IF turn.kind = "plan" THEN 1 ELSE 0)
    /\ turn' = NoTurn
    /\ UNCHANGED <<redis, queue, worker, turns, faults, clean>>

-----------------------------------------------------------------------------
(* A compression task.                                                     *)

\* The handler starts on a task no other consumer has.
Take(w, job) ==
    /\ ~Working(w)
    /\ job \in queue
    /\ \A v \in Workers : Working(v) => worker[v].job # job
    /\ worker' = [worker EXCEPT ![w] =
          [pc |-> "summarise", job |-> job, text |-> {}]]
    /\ UNCHANGED <<len, redis, turn, queue, turns, faults, clean>>

\* _generate_summary: the old summary of the message with the range taken in,
\* or the old summary alone when the model call fails.
Summarise(w) ==
    /\ worker[w].pc = "summarise"
    /\ LET job == worker[w].job
       IN  \/ /\ NoFault
              /\ clean' = clean
              /\ worker' = [worker EXCEPT ![w].pc = "set_summary",
                    ![w].text = job.old \union Span(job.start, job.end)]
           \/ /\ Fault("llm")
              /\ clean' = FALSE
              /\ worker' = [worker EXCEPT ![w].pc = "set_summary",
                    ![w].text = job.old]
    /\ UNCHANGED <<len, redis, turn, queue, turns>>

\* Mutant: the outcome of set_short_term_summary is not looked at.
BugIgnoreFailure(w) ==
    /\ worker[w].pc = "set_summary"
    /\ \/ NoFault /\ summary' = worker[w].text
       \/ Fault("write") /\ summary' = summary
    /\ worker' = [worker EXCEPT ![w].pc = "set_count"]
    /\ UNCHANGED <<len, count, idx, turn, queue, turns, clean>>

\* set_short_term_summary; when it fails, although Redis may have the summary,
\* the handler logs and returns.
SetSummary(w) ==
    /\ worker[w].pc = "set_summary"
    /\ \/ /\ NoFault
          /\ summary' = worker[w].text
          /\ worker' = [worker EXCEPT ![w].pc = "set_count"]
       \/ /\ Fault("write")
          /\ summary' \in {summary, worker[w].text}
          /\ worker' = [worker EXCEPT ![w].pc = "ack"]
    /\ UNCHANGED <<len, count, idx, turn, queue, turns, clean>>

\* Mutant: the compressed messages are subtracted from the counter.
BugSubtract(w) ==
    /\ worker[w].pc = "set_count"
    /\ NoFault
    /\ count' = count - (worker[w].job.end - worker[w].job.start)
    /\ worker' = [worker EXCEPT ![w].pc = "set_idx"]
    /\ UNCHANGED <<len, summary, idx, turn, queue, turns, clean>>

\* reset_msg_count_after_compress: the counter, then the position.  Failed
\* writes go unnoticed.
SetCount(w) ==
    /\ worker[w].pc = "set_count"
    /\ \/ NoFault /\ count' = KEEP_FRESH_MESSAGES
       \/ Fault("write") /\ count' = count
    /\ worker' = [worker EXCEPT ![w].pc = "set_idx"]
    /\ UNCHANGED <<len, summary, idx, turn, queue, turns, clean>>

SetIdx(w) ==
    /\ worker[w].pc = "set_idx"
    /\ \/ NoFault /\ idx' = worker[w].job.end
       \/ Fault("write") /\ idx' = idx
    /\ worker' = [worker EXCEPT ![w].pc = "ack"]
    /\ UNCHANGED <<len, summary, count, turn, queue, turns, clean>>

\* The handler has returned; _on_message acks.
Ack(w) ==
    /\ worker[w].pc = "ack"
    /\ queue' = queue \ {worker[w].job}
    /\ worker' = [worker EXCEPT ![w] = NoWork]
    /\ UNCHANGED <<len, redis, turn, turns, faults, clean>>

Compress(w) == Summarise(w) \/ SetSummary(w) \/ SetCount(w) \/ SetIdx(w) \/ Ack(w)

-----------------------------------------------------------------------------
(* Faults that stop work half-way.                                         *)

\* The MQ connection is lost: handlers are cancelled where they stand and
\* their tasks will be delivered again.
ConnectionLost ==
    /\ \E w \in Workers : Working(w)
    /\ Fault("restart")
    /\ worker' = [w \in Workers |-> NoWork]
    /\ UNCHANGED <<len, redis, turn, queue, turns, clean>>

\* The client of a streamed reply goes away, or the graph raises: the turn is
\* cut short with the messages it had not checkpointed.
Disconnect ==
    /\ turn # NoTurn
    /\ Fault("disconnect")
    /\ turn' = NoTurn
    /\ UNCHANGED <<len, redis, queue, worker, turns, clean>>

\* The process restarts: the turn is lost with the messages it had not
\* checkpointed, and so are the running handlers.
Restart ==
    /\ turn # NoTurn
    /\ Fault("restart")
    /\ turn' = NoTurn
    /\ worker' = [w \in Workers |-> NoWork]
    /\ UNCHANGED <<len, redis, queue, turns, clean>>

Next ==
    \/ \E kind \in {"simple", "plan"} : TurnStart(kind)
    \/ Replan
    \/ UncountedTurn
    \/ InitMsgCount
    \/ ReadWindow
    \/ SimpleReply
    \/ PlanReply
    \/ Increment
    \/ Trigger
    \/ TurnEnd
    \/ \E w \in Workers : \E job \in queue : Take(w, job)
    \/ \E w \in Workers : Compress(w)
    \/ ConnectionLost
    \/ Disconnect
    \/ Restart

Spec == Init /\ [][Next]_vars

-----------------------------------------------------------------------------
(* Properties.                                                             *)

Quiet == turn = NoTurn /\ queue = {} /\ \A w \in Workers : ~Working(w)

\* What has been summarised exists: neither the summary nor
\* last_compress_idx, nor a task still to run, ever reaches past the messages
\* the thread has, although tasks are cut from lists holding replies that a
\* restart may lose.
SummaryOfExisting ==
    /\ summary \subseteq Span(0, len)
    /\ idx <= len
    /\ \A job \in queue : job.end <= len /\ job.old \subseteq Span(0, len)

\* How far a list handed to increment_and_check_compress may reach past a
\* thread that lost the replies in it, beyond the next user's message.
Lead == IF MaxSteps > 2 THEN MaxSteps - 1 ELSE 1

\* Compression that went wrong is made up for: when nothing is under way, the
\* counter is past the threshold by at most one turn per fault, or, where plans
\* are longer, per message that a fault lets last_compress_idx run ahead.
CounterBounded == Quiet => count < COMPRESS_THRESHOLD + faults * Lead

\* Every message before last_compress_idx is in the summary.
SummaryCoversIdx == Span(0, idx) \subseteq summary

\* At the latest when nothing is under way it is: nothing that is no longer
\* due for compression is left out of the summary.
NothingDropped == Quiet => SummaryCoversIdx

\* It always is as long as no turn began while a compression was under way, every
\* summary was read and every model call succeeded, whatever Redis writes and
\* publications fail, and wherever handlers and turns are cut short.
CoversWhenClean == clean => SummaryCoversIdx

=============================================================================
