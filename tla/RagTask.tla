------------------------------ MODULE RagTask -------------------------------
(***************************************************************************)
(* Ingestion of code into the vector store of one project: submission      *)
(* (src/app/api/v1/rag.py), the handlers of the two ingestion queues       *)
(* (core/memory/mq/handlers.py), RAGEngine and GitRepoLoader (core/rag),   *)
(* the documents of RetrievalStore, the status of each task in Redis and   *)
(* the deletion of the project.  How RetrievalStore is opened is in        *)
(* AppResources; here an attempt may fail.                                 *)
(*                                                                         *)
(* Handlers and deletions interleave at every await.  A chunk is known by  *)
(* its task and its number.  The queue is the one AtLeastOnceQueue         *)
(* describes; these handlers never raise, so that a task is not retried    *)
(* and not dead-lettered, only redelivered.                                *)
(***************************************************************************)
EXTENDS Integers, FiniteSets

CONSTANTS
    Tasks,          \* task ids, one uuid4 per submission
    RepoTasks,      \* those of /ingest/repo; the others are of /ingest/files
    Workers,        \* consumer tasks of the two queues
    MaxChunks,      \* bound of the model: chunks of one task
    Bodies,         \* bound of the model: [Tasks -> what its message may ask for]
    MaxDeletes,     \* bound of the model: deletions
    MaxFaults       \* bound of the model: faults

ASSUME TasksAssumption == RepoTasks \subseteq Tasks
ASSUME WorkersAssumption == IsFiniteSet(Workers)
ASSUME BoundsAssumption == {MaxChunks, MaxDeletes, MaxFaults} \subseteq Nat

\* A message either lacks parameters or asks for some chunks.
Body == [wanting : {TRUE}, chunks : {0}] \union [wanting : {FALSE}, chunks : 0..MaxChunks]
NoBody == [wanting |-> FALSE, chunks |-> 0]

ASSUME BodiesAssumption == Bodies \in [Tasks -> SUBSET Body]

VARIABLES
    answer,         \* [Tasks -> what the submitting client was told]
    body,           \* [Tasks -> what the message asks for]
    queue,          \* tasks the broker still keeps
    worker,         \* [Workers -> what each consumer task is doing]
    status,         \* Redis: [Tasks -> rag_task:{task_id}]
    docs,           \* the table: [Tasks -> [chunk -> copies of it]]
    dirs,           \* temporary directories on disk
    deletes,        \* deletions so far, at most MaxDeletes
    faults,         \* faults so far, at most MaxFaults
    interrupted,    \* history: [Tasks -> handlers stopped before their ack]
    unrecorded,     \* history: tasks whose final status could not be written
    purged,         \* history: tasks that lost documents to a deletion
    abandoned       \* history: directories nobody is going to remove

submission == <<answer, body>>
broker == <<queue, interrupted>>
record == <<status, unrecorded>>
disk == <<docs, purged>>
temp == <<dirs, abandoned>>
vars == <<submission, broker, worker, record, disk, temp, deletes, faults>>

Chunks == 1..MaxChunks
Final == {"completed", "failed"}
Idle == [pc |-> "idle"]

\* A handler at work.  "next" is the chunk to add, "outcome" the status to set.
Work == [pc : {"start", "clone", "open", "add", "cleanup", "finish", "ack"},
         task : Tasks, next : Nat \ {0}, outcome : Final]

Busy(w) == worker[w] # Idle
HasDir(w) == worker[w].pc \in {"open", "add", "cleanup"} /\ worker[w].task \in RepoTasks
Cloned == {w \in Workers : HasDir(w)}

TypeOK ==
    /\ answer \in [Tasks -> {"none", "processing", "error"}]
    /\ body \in [Tasks -> Body]
    /\ queue \subseteq Tasks
    /\ worker \in [Workers -> {Idle} \union Work]
    /\ status \in [Tasks -> {"none", "processing"} \union Final]
    /\ docs \in [Tasks -> [Chunks -> Nat]]
    /\ {dirs, abandoned} \subseteq Nat
    /\ deletes \in 0..MaxDeletes
    /\ faults \in 0..MaxFaults
    /\ interrupted \in [Tasks -> 0..MaxFaults]
    /\ unrecorded \union purged \subseteq Tasks

Init ==
    /\ answer = [t \in Tasks |-> "none"]
    /\ body = [t \in Tasks |-> NoBody]
    /\ queue = {}
    /\ worker = [w \in Workers |-> Idle]
    /\ status = [t \in Tasks |-> "none"]
    /\ docs = [t \in Tasks |-> [i \in Chunks |-> 0]]
    /\ dirs = 0
    /\ deletes = 0
    /\ faults = 0
    /\ interrupted = [t \in Tasks |-> 0]
    /\ unrecorded = {}
    /\ purged = {}
    /\ abandoned = 0

Fault == faults < MaxFaults /\ faults' = faults + 1
NoFault == faults' = faults

-----------------------------------------------------------------------------
(* Submission.                                                             *)

\* ingest_repo, ingest_files: the task is published and the client told it is
\* being processed.  No status is stored.  A publication that fails is answered
\* 500, also when only the broker's confirmation was lost.
Submit(t) ==
    /\ answer[t] = "none"
    /\ \/ NoFault /\ answer' = [answer EXCEPT ![t] = "processing"]
       \/ Fault /\ answer' = [answer EXCEPT ![t] = "error"]
    /\ \/ /\ queue' = queue \union {t}
          /\ \E b \in Bodies[t] : body' = [body EXCEPT ![t] = b]
       \/ answer'[t] = "error" /\ UNCHANGED <<queue, body>>
    /\ UNCHANGED <<interrupted, worker, record, disk, temp, deletes>>

-----------------------------------------------------------------------------
(* A handler.                                                              *)

Goto(w, pc) == worker' = [worker EXCEPT ![w].pc = pc]

\* Where a run of the engine ends with an outcome: ingest_repo removes its
\* directory (finally), ingest_files has none.
Ends(w, outcome) == worker' = [worker EXCEPT ![w].outcome = outcome,
    ![w].pc = IF HasDir(w) THEN "cleanup" ELSE "finish"]

\* A handler starts on a task; one without a project, repository or files
\* returns at once and sets no status.
Take(w, t) ==
    /\ ~Busy(w)
    /\ t \in queue
    /\ \A v \in Workers : Busy(v) => worker[v].task # t
    /\ worker' = [worker EXCEPT ![w] =
          [pc |-> IF body[t].wanting THEN "ack" ELSE "start",
           task |-> t, next |-> 1, outcome |-> "completed"]]
    /\ UNCHANGED <<submission, broker, record, disk, temp, deletes, faults>>

\* set_rag_task_status(processing); a failed write is swallowed.
SetProcessing(w) ==
    /\ worker[w].pc = "start"
    /\ \/ NoFault /\ status' = [status EXCEPT ![worker[w].task] = "processing"]
       \/ Fault /\ UNCHANGED status
    /\ Goto(w, IF worker[w].task \in RepoTasks THEN "clone" ELSE "open")
    /\ UNCHANGED <<submission, broker, unrecorded, disk, temp, deletes>>

\* clone_repo makes a directory and clones into it.  When the clone fails the
\* directory stays: there is no RepoInfo yet for ingest_repo to clean up.
Clone(w) ==
    /\ worker[w].pc = "clone"
    /\ dirs' = dirs + 1
    /\ \/ NoFault /\ Goto(w, "open") /\ UNCHANGED abandoned
       \/ Fault /\ Ends(w, "failed") /\ abandoned' = abandoned + 1
    /\ UNCHANGED <<submission, broker, record, disk, deletes>>

\* scan_files_async for a repository, then ensure_store and the chunker: without
\* chunks the ingestion is over.
Open(w) ==
    /\ worker[w].pc = "open"
    /\ \/ /\ NoFault
          /\ IF body[worker[w].task].chunks = 0 THEN Ends(w, "completed") ELSE Goto(w, "add")
       \/ Fault /\ Ends(w, "failed")
    /\ UNCHANGED <<submission, broker, record, disk, temp, deletes>>

\* Mutant: a failed insertion is swallowed.
BugAddSwallows(w) ==
    /\ worker[w].pc = "add"
    /\ Fault
    /\ Ends(w, "completed")
    /\ UNCHANGED <<submission, broker, record, disk, temp, deletes>>

\* aadd_documents inserts the chunks one after another, each under a new id; it
\* may raise when some are in.
AddDocument(w) ==
    /\ worker[w].pc = "add"
    /\ LET t == worker[w].task
           i == worker[w].next
       IN  \/ /\ NoFault
              /\ docs' = [docs EXCEPT ![t][i] = @ + 1]
              /\ IF i = body[t].chunks THEN Ends(w, "completed")
                 ELSE worker' = [worker EXCEPT ![w].next = i + 1]
           \/ Fault /\ Ends(w, "failed") /\ UNCHANGED docs
    /\ UNCHANGED <<submission, broker, record, purged, temp, deletes>>

\* Mutants: a directory is removed only after a success; it is removed twice.
BugCleanupOnSuccess(w) ==
    /\ worker[w].pc = "cleanup"
    /\ NoFault
    /\ dirs' = IF worker[w].outcome = "completed" THEN dirs - 1 ELSE dirs
    /\ Goto(w, "finish")
    /\ UNCHANGED <<submission, broker, record, disk, abandoned, deletes>>

BugCleanupTwice(w) ==
    /\ worker[w].pc = "cleanup"
    /\ NoFault
    /\ dirs' = dirs - 2
    /\ Goto(w, "finish")
    /\ UNCHANGED <<submission, broker, record, disk, abandoned, deletes>>

\* loader.cleanup removes the directory; its failure is swallowed.
Cleanup(w) ==
    /\ worker[w].pc = "cleanup"
    /\ \/ NoFault /\ dirs' = dirs - 1 /\ UNCHANGED abandoned
       \/ Fault /\ abandoned' = abandoned + 1 /\ UNCHANGED dirs
    /\ Goto(w, "finish")
    /\ UNCHANGED <<submission, broker, record, disk, deletes>>

\* Mutants: the exception of a failed ingestion leaves the handler, and the task
\* goes round again; a failed ingestion sets no status.
BugFailureRaises(w) ==
    /\ worker[w].pc = "finish"
    /\ NoFault
    /\ status' = [status EXCEPT ![worker[w].task] = worker[w].outcome]
    /\ worker' = [worker EXCEPT ![w] = Idle]
    /\ UNCHANGED <<submission, broker, unrecorded, disk, temp, deletes>>

BugNoFailedStatus(w) ==
    /\ worker[w].pc = "finish"
    /\ NoFault
    /\ status' = IF worker[w].outcome = "completed"
          THEN [status EXCEPT ![worker[w].task] = "completed"] ELSE status
    /\ Goto(w, "ack")
    /\ UNCHANGED <<submission, broker, unrecorded, disk, temp, deletes>>

\* set_rag_task_status(completed or failed); a failed write is swallowed, and
\* so was the exception that made the ingestion fail: the handler returns.
SetFinal(w) ==
    /\ worker[w].pc = "finish"
    /\ \/ /\ NoFault
          /\ status' = [status EXCEPT ![worker[w].task] = worker[w].outcome]
          /\ UNCHANGED unrecorded
       \/ Fault /\ unrecorded' = unrecorded \union {worker[w].task} /\ UNCHANGED status
    /\ Goto(w, "ack")
    /\ UNCHANGED <<submission, broker, disk, temp, deletes>>

\* The handler has returned; _on_message acks.
Ack(w) ==
    /\ worker[w].pc = "ack"
    /\ queue' = queue \ {worker[w].task}
    /\ worker' = [worker EXCEPT ![w] = Idle]
    /\ UNCHANGED <<submission, interrupted, record, disk, temp, deletes, faults>>

Handle(w) ==
    \/ SetProcessing(w) \/ Clone(w) \/ Open(w) \/ AddDocument(w)
    \/ Cleanup(w) \/ SetFinal(w) \/ Ack(w)

-----------------------------------------------------------------------------
(* Deletion, expiry and what stops handlers.                               *)

\* delete_project: one statement deletes what is there.  An ingestion of the
\* project that is under way goes on.
DeleteProject ==
    /\ deletes < MaxDeletes
    /\ deletes' = deletes + 1
    /\ docs' = [t \in Tasks |-> [i \in Chunks |-> 0]]
    /\ purged' = purged \union {t \in Tasks : \E i \in Chunks : docs[t][i] > 0}
    /\ UNCHANGED <<submission, broker, worker, record, temp, faults>>

\* ex=86400: a status is forgotten a day after it was written, by which time the
\* task is supposed to be over.
Expire(t) ==
    /\ status[t] # "none"
    /\ t \notin queue
    /\ status' = [status EXCEPT ![t] = "none"]
    /\ UNCHANGED <<submission, broker, worker, unrecorded, disk, temp, deletes, faults>>

\* The handlers stop where they are.  A clone that is under way has perhaps made
\* its directory.
Stop(removed) ==
    /\ Fault
    /\ worker' = [w \in Workers |-> Idle]
    /\ interrupted' = [t \in Tasks |-> interrupted[t] +
           Cardinality({w \in Workers : Busy(w) /\ worker[w].task = t})]
    /\ \E cloning \in SUBSET {w \in Workers : worker[w].pc = "clone"} :
          /\ dirs' = dirs + Cardinality(cloning) - Cardinality(removed)
          /\ abandoned' = abandoned + Cardinality(cloning) + Cardinality(Cloned \ removed)
    /\ UNCHANGED <<submission, queue, record, disk, deletes>>

\* The MQ connection is lost and the running handlers are cancelled.  The
\* finally clause of ingest_repo still removes the directory; a clone that is
\* cancelled goes on in its thread and its directory stays.
ConnectionLost == (\E w \in Workers : Busy(w)) /\ Stop(Cloned)

\* The process restarts: the directories stay.
Restart == Stop({})

Next ==
    \/ \E t \in Tasks : Submit(t) \/ Expire(t)
    \/ \E w \in Workers, t \in queue : Take(w, t)
    \/ \E w \in Workers : Handle(w)
    \/ DeleteProject
    \/ ConnectionLost
    \/ Restart

Spec == Init /\ [][Next]_vars

\* RobustConnection restores the consumers, the broker delivers what it keeps
\* and the event loop resumes every handler; its calls return or raise.
Fairness ==
    /\ WF_vars(\E w \in Workers, t \in queue : Take(w, t))
    /\ \A w \in Workers : WF_vars(Handle(w))

FairSpec == Spec /\ Fairness

-----------------------------------------------------------------------------
(* Properties.                                                             *)

\* A task that reads "completed" has every chunk in the table (handlers.py:230,
\* 269), whatever failed or was redelivered on the way, unless a deletion of the
\* project took some of them.
CompletedIsStored ==
    \A t \in Tasks \ purged : status[t] = "completed" =>
        \A i \in 1..body[t].chunks : docs[t][i] > 0

\* The chunks of a task are in the table once, and once more for every time its
\* handler was stopped before its ack and ran again (engine.py:104): a failed
\* ingestion is not retried.
CopiesExplained ==
    \A t \in Tasks : \A i \in Chunks : docs[t][i] <= 1 + interrupted[t]

\* A client that saw a final status does not see another one later
\* (handlers.py:218, 260), unless the handler was stopped between setting it and
\* its ack.
FinalStays ==
    [][\A t \in Tasks : (status[t] \in Final /\ interrupted[t] = 0) =>
           status'[t] \in {status[t], "none"}]_vars

\* Every temporary directory on disk belongs to a handler that will remove it,
\* but for failed clones, failed removals, cancelled clones and restarts
\* (git_loader.py:30-52).
DirsAccounted == dirs = abandoned + Cardinality(Cloned)

\* A task whose client was told it is being processed gets a final status
\* (handlers.py:230-244), through failures, redelivery and restarts, unless
\* parameters are missing or Redis refuses that very write.
GetsSettled ==
    \A t \in Tasks : <>(answer[t] = "processing" /\ ~body[t].wanting) =>
        <>(status[t] \in Final \/ t \in unrecorded)

=============================================================================
