------------------------ MODULE RedisPostgresSaver --------------------------
(***************************************************************************)
(* The two-level checkpoint store of one thread (class RedisPostgresSaver  *)
(* in src/app/core/memory/checkpoint/saver.py), the requests that read and *)
(* write it through LangGraph, and the consumers that bring checkpoints to *)
(* PostgreSQL (handle_checkpoint_persist in core/memory/mq/handlers.py).   *)
(*                                                                         *)
(* Checkpoint ids are 1, 2, 3, ... in the order of their creation: they    *)
(* are time-ordered UUIDs.  A checkpoint is the set of requests whose      *)
(* messages it holds.  A request loads the latest checkpoint, adds itself  *)
(* and puts one checkpoint after another; LangGraph starts a put when the  *)
(* one before it has ended.  Nothing keeps two requests from running on    *)
(* the same thread at once.                                                *)
(*                                                                         *)
(* The persist queue delivers at least once (QueueRefines).  The handler   *)
(* never raises: DbService reports a failed insert by returning False,     *)
(* which nobody looks at, so no retry and no dead letter is modelled.      *)
(***************************************************************************)
EXTENDS Integers, Sequences, FiniteSets

CONSTANTS
    Requests,     \* requests on the thread, each made once
    Workers,      \* consumer tasks of q.checkpoint.persist
    MaxRunning,   \* bound of the model: requests running at once
    MaxPuts,      \* bound of the model: checkpoints of one request
    FaultKinds,   \* which faults may happen, see Fault
    MaxFaults     \* bound of the model: faults

ASSUME RequestsAssumption == IsFiniteSet(Requests)
ASSUME BoundsAssumption == {MaxRunning, MaxPuts, MaxFaults} \subseteq Nat
ASSUME KindsAssumption ==
    FaultKinds \subseteq {"get", "set", "sadd", "publish", "insert", "select",
                          "expire", "connection", "restart"}

VARIABLES
    content,    \* [Ids -> SUBSET Requests]: the checkpoints created so far
    keys,       \* Redis: ids with a cp:{thread_id}:{ns}:{id} key
    ids,        \* Redis: the set cp_ids:{thread_id}:{ns}
    queue,      \* persist tasks the broker still keeps
    worker,     \* [Workers -> the task each is about to ack, if any]
    rows,       \* PostgreSQL: ids in the order of created_at
    request,    \* [Requests -> what each request is doing]
    ended,      \* history: checkpoints whose aput has returned
    accepted,   \* history: persist tasks the broker accepted
    handled,    \* history: persist tasks whose handler returned
    broken,     \* history: what has gone wrong, see Flags
    faults      \* faults so far, at most MaxFaults

redis == <<keys, ids>>
history == <<ended, accepted, handled>>
vars == <<content, redis, queue, worker, rows, request, history, broken, faults>>

Ids == 1..(Cardinality(Requests) * MaxPuts)
MaxOf(S) == CHOOSE i \in S : \A j \in S : j <= i
RowIds == {rows[i] : i \in DOMAIN rows}

NotBegun == [pc |-> "idle"]
Ended == [pc : {"done", "dead"}]
Reading == [pc : {"payload", "select"}, before : SUBSET Requests, latest : {0} \union Ids]
Writing == [pc : {"put", "sadd", "publish"}, base : SUBSET Requests,
            before : SUBSET Requests, id : {0} \union Ids, puts : 0..MaxPuts]
Running(r) == request[r].pc \notin {"idle", "done", "dead"}

None == 0

\* "overlap": two requests ran at once; "unlisted": an id did not get into
\* the Redis set; "lost": a publication or an insert failed; "disorder": a
\* checkpoint was inserted after a newer one; "fallback": a request fell back
\* on PostgreSQL and found it incomplete, disordered or not answering.
Flags == {"overlap", "unlisted", "lost", "disorder", "fallback"}

TypeOK ==
    /\ DOMAIN content \subseteq Ids
    /\ \A i \in DOMAIN content : content[i] \subseteq Requests
    /\ keys \union ids \union queue \union RowIds \subseteq DOMAIN content
    /\ accepted \union handled \union ended \subseteq DOMAIN content
    /\ Len(rows) = Cardinality(RowIds)
    /\ worker \in [Workers -> {None} \union Ids]
    /\ request \in [Requests -> {NotBegun} \union Ended \union Reading \union Writing]
    /\ broken \subseteq Flags
    /\ faults \in 0..MaxFaults

Init ==
    /\ content = <<>>
    /\ keys = {}
    /\ ids = {}
    /\ queue = {}
    /\ worker = [w \in Workers |-> None]
    /\ rows = <<>>
    /\ request = [r \in Requests |-> NotBegun]
    /\ ended = {}
    /\ accepted = {}
    /\ handled = {}
    /\ broken = {}
    /\ faults = 0

\* A fault of one kind: a Redis read, SET or SADD, a publication, an INSERT
\* or a SELECT that fails and whose caller swallows it; keys that expire; a
\* lost MQ connection; a restart of the process.
Fault(kind) ==
    /\ kind \in FaultKinds
    /\ faults < MaxFaults
    /\ faults' = faults + 1

NoFault == faults' = faults

-----------------------------------------------------------------------------
(* A request: aget_tuple for the latest checkpoint.                        *)

\* get_checkpoint_ids: SMEMBERS; the latest id is the largest.
Begin(r) ==
    /\ request[r].pc = "idle"
    /\ Cardinality({q \in Requests : Running(q)}) < MaxRunning
    /\ broken' = IF \E q \in Requests : Running(q) THEN broken \union {"overlap"}
                                                  ELSE broken
    /\ LET well == {q \in Requests : request[q].pc = "done"}
       IN  \/ /\ ids # {}
              /\ NoFault
              /\ request' = [request EXCEPT ![r] =
                    [pc |-> "payload", before |-> well, latest |-> MaxOf(ids)]]
           \/ /\ IF ids = {} THEN NoFault ELSE Fault("get")
              /\ request' = [request EXCEPT ![r] =
                    [pc |-> "select", before |-> well, latest |-> 0]]
    /\ UNCHANGED <<content, redis, queue, worker, rows, history>>

Loaded(r, base) ==
    [pc |-> "put", base |-> base, before |-> request[r].before, id |-> 0, puts |-> 0]

\* get_checkpoint_by_id; a missing key or a failed GET sends the request on
\* to PostgreSQL.
ReadPayload(r) ==
    /\ request[r].pc = "payload"
    /\ LET latest == request[r].latest
       IN  \/ /\ latest \in keys
              /\ NoFault
              /\ request' = [request EXCEPT ![r] = Loaded(r, content[latest])]
           \/ /\ IF latest \notin keys THEN NoFault ELSE Fault("get")
              /\ request' = [request EXCEPT ![r].pc = "select", ![r].latest = 0]
    /\ UNCHANGED <<content, redis, queue, worker, rows, history, broken>>

\* ORDER BY created_at DESC LIMIT 1
NewestRow == rows[Len(rows)]

\* _load_from_db; without a row, or with a failed SELECT, the thread starts
\* from nothing.
Select(r) ==
    /\ request[r].pc = "select"
    /\ \/ /\ NoFault
          /\ request' = [request EXCEPT ![r] =
                Loaded(r, IF rows = <<>> THEN {} ELSE content[NewestRow])]
          /\ broken' = IF queue # {} \/ broken \intersect {"lost", "disorder"} # {}
                       THEN broken \union {"fallback"} ELSE broken
       \/ /\ Fault("select")
          /\ request' = [request EXCEPT ![r] = Loaded(r, {})]
          /\ broken' = broken \union {"fallback"}
    /\ UNCHANGED <<content, redis, queue, worker, rows, history>>

-----------------------------------------------------------------------------
(* A request: aput.                                                        *)

\* Mutant: when set_checkpoint_by_id fails, set_checkpoint leaves the id out.
BugSkipSadd(r) ==
    /\ request[r].pc = "sadd"
    /\ ids' = IF request[r].id \in keys THEN ids \union {request[r].id} ELSE ids
    /\ broken' = broken
    /\ NoFault
    /\ request' = [request EXCEPT ![r].pc = "publish"]
    /\ UNCHANGED <<content, keys, queue, worker, rows, history>>

\* A checkpoint is created; set_checkpoint_by_id writes its key.
Put(r) ==
    /\ request[r].pc = "put"
    /\ request[r].puts < MaxPuts
    /\ LET id == Len(content) + 1
       IN  /\ content' = Append(content, request[r].base \union {r})
           /\ request' = [request EXCEPT ![r].pc = "sadd", ![r].id = id,
                                         ![r].puts = @ + 1]
           /\ \/ NoFault /\ keys' = keys \union {id}
              \/ Fault("set") /\ keys' = keys
    /\ UNCHANGED <<ids, queue, worker, rows, history, broken>>

\* add_checkpoint_id, whether or not the key was written.
Sadd(r) ==
    /\ request[r].pc = "sadd"
    /\ \/ /\ NoFault
          /\ ids' = ids \union {request[r].id}
          /\ broken' = broken
       \/ /\ Fault("sadd")
          /\ ids' = ids
          /\ broken' = broken \union {"unlisted"}
    /\ request' = [request EXCEPT ![r].pc = "publish"]
    /\ UNCHANGED <<content, keys, queue, worker, rows, history>>

\* Mutant: the checkpoint is published only when its key was not written.
BugPublishMissing(r) ==
    /\ request[r].pc = "publish"
    /\ NoFault
    /\ LET missing == {request[r].id} \ keys
       IN  queue' = queue \union missing /\ accepted' = accepted \union missing
    /\ broken' = broken
    /\ ended' = ended \union {request[r].id}
    /\ request' = [request EXCEPT ![r].pc = "put", ![r].id = 0]
    /\ UNCHANGED <<content, redis, worker, rows, handled>>

\* publish_checkpoint_persist.  MQPublisher.publish swallows its failures, so
\* the except branch of aput that would write to PostgreSQL is never taken.
Publish(r) ==
    /\ request[r].pc = "publish"
    /\ \/ /\ NoFault
          /\ queue' = queue \union {request[r].id}
          /\ accepted' = accepted \union {request[r].id}
          /\ broken' = broken
       \/ /\ Fault("publish")
          /\ broken' = broken \union {"lost"}
          /\ UNCHANGED <<queue, accepted>>
    /\ ended' = ended \union {request[r].id}
    /\ request' = [request EXCEPT ![r].pc = "put", ![r].id = 0]
    /\ UNCHANGED <<content, redis, worker, rows, handled>>

\* The run of the graph is over and its last put has ended.
Finish(r) ==
    /\ request[r].pc = "put"
    /\ request[r].puts > 0
    /\ request' = [request EXCEPT ![r] = [pc |-> "done"]]
    /\ UNCHANGED <<content, redis, queue, worker, rows, history, broken, faults>>

\* The graph raises or the client goes away between two puts.
Abandon(r) ==
    /\ request[r].pc = "put"
    /\ request' = [request EXCEPT ![r] = [pc |-> "dead"]]
    /\ UNCHANGED <<content, redis, queue, worker, rows, history, broken, faults>>

-----------------------------------------------------------------------------
(* handle_checkpoint_persist.                                              *)

\* Mutants: a repeated insert makes a new row time, or a second row.
BugTouch(id) == Append(SelectSeq(rows, LAMBDA i : i # id), id)
BugInsertAgain(id) == Append(rows, id)

\* INSERT ... ON CONFLICT DO UPDATE: created_at stays that of the first insert.
Upsert(id) == IF id \in RowIds THEN rows ELSE Append(rows, id)

\* Mutant: a task is acked as it is delivered.
BugAckFirst(w, id) ==
    /\ worker[w] = None
    /\ \A v \in Workers : worker[v] # id
    /\ NoFault
    /\ queue' = queue \ {id}
    /\ worker' = [worker EXCEPT ![w] = id]
    /\ UNCHANGED <<content, redis, rows, request, history, broken>>

\* A task is delivered, its checkpoint inserted, and the handler returns.  (A
\* task delivered and interrupted before its insert is as good as queued.)
Persist(w, id) ==
    /\ worker[w] = None
    /\ \A v \in Workers : worker[v] # id
    /\ \/ /\ NoFault
          /\ rows' = Upsert(id)
          /\ broken' = IF id \notin RowIds /\ \E i \in RowIds : i > id
                       THEN broken \union {"disorder"} ELSE broken
       \/ /\ Fault("insert")
          /\ rows' = rows
          /\ broken' = broken \union {"lost"}
    /\ handled' = handled \union {id}
    /\ worker' = [worker EXCEPT ![w] = id]
    /\ UNCHANGED <<content, redis, queue, request, ended, accepted>>

\* The message is acked.
Ack(w) ==
    /\ worker[w] # None
    /\ queue' = queue \ {worker[w]}
    /\ worker' = [worker EXCEPT ![w] = None]
    /\ UNCHANGED <<content, redis, rows, request, history, broken, faults>>

-----------------------------------------------------------------------------
(* The environment.                                                        *)

\* Keys live for three days, so none that a running request wrote expires.
\* The id set lives on with each id added to it, and goes after its keys.
Expire(k) ==
    /\ Fault("expire")
    /\ k \in keys
    /\ \A r \in Requests, i \in 1..k : Running(r) => r \notin content[i]
    /\ keys' = keys \ (1..k)
    /\ \/ ids' = ids
       \/ keys' \intersect ids = {} /\ ids' = {}
    /\ UNCHANGED <<content, queue, worker, rows, request, history, broken>>

\* Unacknowledged tasks are delivered again.
ConnectionLost ==
    /\ \E w \in Workers : worker[w] # None
    /\ Fault("connection")
    /\ worker' = [w \in Workers |-> None]
    /\ UNCHANGED <<content, redis, queue, rows, request, history, broken>>

\* Requests are cut short wherever they are, and are not resumed.
Restart ==
    /\ \E r \in Requests : Running(r)
    /\ Fault("restart")
    /\ request' = [r \in Requests |->
          IF Running(r) THEN [pc |-> "dead"] ELSE request[r]]
    /\ worker' = [w \in Workers |-> None]
    /\ UNCHANGED <<content, redis, queue, rows, history, broken>>

Next ==
    \/ \E r \in Requests :
          \/ Begin(r)
          \/ ReadPayload(r)
          \/ Select(r)
          \/ Put(r)
          \/ Sadd(r)
          \/ Publish(r)
          \/ Finish(r)
          \/ Abandon(r)
    \/ \E w \in Workers, id \in queue : Persist(w, id)
    \/ \E w \in Workers : Ack(w)
    \/ \E k \in keys : Expire(k)
    \/ ConnectionLost
    \/ Restart

Spec == Init /\ [][Next]_vars

-----------------------------------------------------------------------------
(* Properties.                                                             *)

HasLoaded(r) == request[r].pc \in {"put", "sadd", "publish"}
Forgets(r) == ~(request[r].before \subseteq request[r].base)

\* A request starts from a checkpoint with the messages of every request that
\* ended before it began, whichever level it came from, whatever expired,
\* however tasks were delivered again and wherever requests were cut short: a
\* key that was not written is made up for by PostgreSQL, a lost or late row by
\* Redis.  Three things break it: overlapping requests, an id that did not
\* get into the Redis set, and needing PostgreSQL while it is not in order.
Remembers ==
    \A r \in Requests :
        HasLoaded(r) /\ Forgets(r) =>
            broken \intersect {"overlap", "unlisted", "fallback"} # {}

\* The history in PostgreSQL is complete or will be: a checkpoint whose put
\* has ended is a row or a task in the queue, whatever happened to Redis and
\* however handlers are interrupted, unless a publication or an insert failed.
HistoryKept == ended \subseteq queue \union RowIds \/ "lost" \in broken

\* The queue of persist tasks, as the handlers here use it, is the
\* at-least-once queue MQService provides.
PersistQueue == INSTANCE AtLeastOnceQueue WITH
    Msgs <- Ids, held <- queue, done <- handled, dead <- {}

QueueRefines == PersistQueue!QSpec

\* No request forgets one that ended before it began.
NothingForgotten == \A r \in Requests : HasLoaded(r) => ~Forgets(r)

=============================================================================
