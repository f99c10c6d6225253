---------------------------- MODULE RagTaskProofs ---------------------------
(***************************************************************************)
(* Proofs about RagTask for every set of tasks, every finite set of        *)
(* consumer tasks, and any number of chunks, deletions and faults.         *)
(***************************************************************************)
EXTENDS RagTask, FiniteSetTheorems, TLAPS

(***************************************************************************)
(* The inductive invariant.                                                *)
(***************************************************************************)

Handles(w, t) == Busy(w) /\ worker[w].task = t

\* A task is with at most one handler, and while it is, the broker keeps it.
OneHandler ==
    /\ \A v, w \in Workers : Busy(v) /\ Busy(w) /\ worker[v].task = worker[w].task => v = w
    /\ \A w \in Workers : Busy(w) => worker[w].task \in queue

\* Nothing is known of a task before its submission.
Unsubmitted ==
    \A t \in Tasks : answer[t] = "none" =>
        /\ t \notin queue
        /\ status[t] = "none"
        /\ \A i \in Chunks : docs[t][i] = 0

\* Each interruption is a fault.
InterruptionsCounted == \A t \in Tasks : interrupted[t] <= faults

\* A task has no more copies of a chunk than it was interrupted, and no final
\* status when it was not.
Fresh(t) ==
    /\ \A i \in Chunks : docs[t][i] <= interrupted[t]
    /\ interrupted[t] = 0 => status[t] \notin Final

\* The chunks 1 to n of a task are in the table, unless a deletion took some.
StoredTo(t, n) == t \notin purged => \A i \in 1..n : docs[t][i] > 0

\* What a handler has done, and what it can rely on for the rest.
Progress(w) ==
    LET t == worker[w].task
    IN  /\ worker[w].pc \in {"clone", "cleanup"} => t \in RepoTasks
        /\ worker[w].pc \in {"start", "clone", "open"} => worker[w].next = 1
        /\ worker[w].pc \in {"start", "clone", "open", "add"} =>
              \A i \in Chunks : i >= worker[w].next => docs[t][i] <= interrupted[t]
        /\ worker[w].pc = "add" =>
              /\ worker[w].next <= body[t].chunks
              /\ StoredTo(t, worker[w].next - 1)
        /\ worker[w].pc \in {"cleanup", "finish"} /\ worker[w].outcome = "completed" =>
              StoredTo(t, body[t].chunks)
        /\ worker[w].pc # "ack" /\ interrupted[t] = 0 => status[t] \notin Final

HandlersProgress == \A w \in Workers : Busy(w) => Progress(w)

WaitingFresh == \A t \in queue : (\E w \in Workers : Handles(w, t)) \/ Fresh(t)

IInv ==
    /\ TypeOK
    /\ OneHandler
    /\ Unsubmitted
    /\ InterruptionsCounted
    /\ HandlersProgress
    /\ WaitingFresh
    /\ CompletedIsStored
    /\ CopiesExplained
    /\ DirsAccounted

(***************************************************************************)
(* Handlers and directories.                                               *)
(***************************************************************************)

\* What a busy handler works on has the fields of Work.
LEMMA BusyType ==
    ASSUME TypeOK, NEW w \in Workers, Busy(w)
    PROVE  /\ worker[w] \in Work
           /\ worker[w].pc \in {"start", "clone", "open", "add", "cleanup", "finish", "ack"}
           /\ worker[w].task \in Tasks
           /\ worker[w].next \in Nat \ {0}
           /\ worker[w].outcome \in Final
<1>1. worker[w] \in Work
  BY DEF TypeOK, Busy
<1> QED
  BY <1>1 DEF Work

\* A handler with a step to take is busy.
LEMMA AtStepBusy ==
    ASSUME NEW w \in Workers,
           worker[w].pc \in {"start", "clone", "open", "add", "cleanup", "finish", "ack"}
    PROVE  Busy(w)
  BY DEF Busy, Idle

\* What is in Work is not idle.
LEMMA WorkBusy == \A x \in Work : x # Idle
  BY DEF Work, Idle

\* The number of chunks a message asks for is within the bound.
LEMMA BodyType ==
    ASSUME NEW b \in Body
    PROVE  b.chunks \in 0..MaxChunks
<1>1. MaxChunks \in Nat
  BY BoundsAssumption
<1>2. CASE b \in [wanting : {TRUE}, chunks : {0}]
  <2>1. b.chunks = 0
    BY <1>2
  <2> QED
    BY <1>1, <2>1
<1>3. CASE b \in [wanting : {FALSE}, chunks : 0..MaxChunks]
  BY <1>3
<1> QED
  BY <1>2, <1>3 DEF Body

\* The handlers that hold a clone can be counted.
LEMMA ClonedFinite ==
    /\ IsFiniteSet(Cloned)
    /\ Cardinality(Cloned) \in Nat
<1>1. Cloned \subseteq Workers
  BY DEF Cloned
<1>2. IsFiniteSet(Cloned)
  BY <1>1, WorkersAssumption, FS_Subset
<1> QED
  BY <1>2, FS_CardinalityType

\* A step of one handler adds its directory, removes it, or neither.
LEMMA ClonedStep ==
    ASSUME NEW w \in Workers, \A v \in Workers \ {w} : worker'[v] = worker[v]
    PROVE  /\ (HasDir(w)' <=> HasDir(w)) => Cardinality(Cloned') = Cardinality(Cloned)
           /\ HasDir(w)' /\ ~HasDir(w) => Cardinality(Cloned') = Cardinality(Cloned) + 1
           /\ ~HasDir(w)' /\ HasDir(w) => Cardinality(Cloned') = Cardinality(Cloned) - 1
<1>1. \A v \in Workers \ {w} : v \in Cloned' <=> v \in Cloned
  BY DEF Cloned, HasDir
<1>2. (w \in Cloned' <=> HasDir(w)') /\ (w \in Cloned <=> HasDir(w))
  BY DEF Cloned
<1>3. Cloned \subseteq Workers /\ Cloned' \subseteq Workers
  BY DEF Cloned
<1>4. CASE HasDir(w)' <=> HasDir(w)
  <2>1. Cloned' = Cloned
    BY <1>1, <1>2, <1>3, <1>4
  <2> QED
    BY <1>4, <2>1
<1>5. CASE HasDir(w)' /\ ~HasDir(w)
  <2>1. Cloned' = Cloned \union {w} /\ w \notin Cloned
    BY <1>1, <1>2, <1>3, <1>5
  <2> QED
    BY <1>5, <2>1, ClonedFinite, FS_AddElement
<1>6. CASE ~HasDir(w)' /\ HasDir(w)
  <2>1. Cloned' = Cloned \ {w} /\ w \in Cloned
    BY <1>1, <1>2, <1>3, <1>6
  <2> QED
    BY <1>6, <2>1, ClonedFinite, FS_RemoveElement
<1> QED
  BY <1>4, <1>5, <1>6

\* Another copy of one chunk.
LEMMA AddCopy ==
    ASSUME TypeOK, NEW t \in Tasks, NEW i \in Chunks, docs' = [docs EXCEPT ![t][i] = @ + 1]
    PROVE  /\ docs' \in [Tasks -> [Chunks -> Nat]]
           /\ docs'[t][i] = docs[t][i] + 1
           /\ docs[t][i] \in Nat
           /\ \A j \in Chunks : j # i => docs'[t][j] = docs[t][j]
           /\ \A u \in Tasks : u # t => docs'[u] = docs[u]
<1>1. docs[t] \in [Chunks -> Nat]
  BY DEF TypeOK
<1> QED
  BY <1>1 DEF TypeOK

(***************************************************************************)
(* A step of one handler.                                                  *)
(***************************************************************************)

\* A step that touches one task and its own handler only, and leaves the task
\* with the handler, keeps what the others rely on.
LEMMA HandlerStep ==
    ASSUME IInv, NEW w \in Workers, Busy(w),
           \A v \in Workers \ {w} : worker'[v] = worker[v],
           worker'[w] \in Work,
           worker'[w].task = worker[w].task,
           UNCHANGED <<answer, body, queue, interrupted, purged>>,
           \A u \in Tasks : u # worker[w].task => status'[u] = status[u] /\ docs'[u] = docs[u],
           Progress(w)'
    PROVE  OneHandler' /\ Unsubmitted' /\ HandlersProgress' /\ WaitingFresh'
<1> DEFINE t == worker[w].task
<1>1. t \in Tasks /\ t \in queue
  BY BusyType DEF IInv, OneHandler
<1>2. Busy(w)' /\ Handles(w, t) /\ Handles(w, t)'
  BY WorkBusy DEF Busy, Handles
<1>3. \A v \in Workers \ {w} : Busy(v)' <=> Busy(v)
  BY DEF Busy
<1>4. \A v \in Workers : Busy(v)' => Busy(v) /\ worker'[v].task = worker[v].task
  BY <1>3
<1>5. OneHandler'
  BY <1>4 DEF IInv, OneHandler
<1>6. Unsubmitted'
  BY <1>1 DEF IInv, Unsubmitted
<1>7. HandlersProgress'
  <2>1. ASSUME NEW v \in Workers, v # w, Busy(v)'
        PROVE  Progress(v)'
    <3>1. Busy(v) /\ worker'[v] = worker[v]
      BY <1>3, <2>1
    <3>2. worker[v].task # t /\ worker[v].task \in Tasks
      BY <2>1, <3>1, BusyType DEF IInv, OneHandler
    <3>3. Progress(v)
      BY <3>1 DEF IInv, HandlersProgress
    <3> QED
      BY <3>1, <3>2, <3>3 DEF Progress, StoredTo
  <2> QED
    BY <2>1 DEF HandlersProgress
<1>8. WaitingFresh'
  <2> SUFFICES ASSUME NEW u \in queue, \A v \in Workers : ~Handles(v, u)'
               PROVE  Fresh(u)'
    BY DEF WaitingFresh
  <2>1. u # t
    BY <1>2
  <2>2. \A v \in Workers : ~Handles(v, u)
    BY <1>2, <1>3, <2>1 DEF Handles
  <2>3. Fresh(u) /\ u \in Tasks
    BY <2>2 DEF IInv, TypeOK, WaitingFresh
  <2> QED
    BY <2>1, <2>3 DEF Fresh
<1> QED
  BY <1>5, <1>6, <1>7, <1>8

\* A fault counts up and stays in its bound.
LEMMA FaultType ==
    ASSUME TypeOK, Fault \/ NoFault
    PROVE  /\ faults' \in 0..MaxFaults
           /\ faults' >= faults
  BY BoundsAssumption DEF TypeOK, Fault, NoFault

\* Moving a handler on to another step.
LEMMA GotoWorker ==
    ASSUME TypeOK, NEW w \in Workers, Busy(w),
           NEW pc \in {"start", "clone", "open", "add", "cleanup", "finish", "ack"},
           Goto(w, pc)
    PROVE  /\ worker' \in [Workers -> {Idle} \union Work]
           /\ \A v \in Workers \ {w} : worker'[v] = worker[v]
           /\ worker'[w].pc = pc
           /\ worker'[w].task = worker[w].task
           /\ worker'[w].next = worker[w].next
           /\ worker'[w].outcome = worker[w].outcome
           /\ worker'[w] \in Work
           /\ HasDir(w)' <=> pc \in {"open", "add", "cleanup"} /\ worker[w].task \in RepoTasks
<1>1. worker[w] \in Work
  BY BusyType
<1>2. worker'[w] = [worker[w] EXCEPT !.pc = pc]
  BY DEF Goto, TypeOK
<1>3. worker'[w] = [pc |-> pc, task |-> worker[w].task, next |-> worker[w].next,
                    outcome |-> worker[w].outcome]
  BY <1>1, <1>2 DEF Work
<1>4. worker'[w] \in Work
  BY <1>1, <1>3 DEF Work
<1> QED
  BY <1>3, <1>4 DEF Goto, TypeOK, HasDir

\* The end of a run of the engine.
LEMMA EndsWorker ==
    ASSUME TypeOK, NEW w \in Workers, Busy(w), NEW outcome \in Final, Ends(w, outcome)
    PROVE  /\ worker' \in [Workers -> {Idle} \union Work]
           /\ \A v \in Workers \ {w} : worker'[v] = worker[v]
           /\ worker'[w].pc = IF HasDir(w) THEN "cleanup" ELSE "finish"
           /\ worker'[w].task = worker[w].task
           /\ worker'[w].next = worker[w].next
           /\ worker'[w].outcome = outcome
           /\ worker'[w] \in Work
           /\ HasDir(w)' <=> HasDir(w)
<1> DEFINE pc == IF HasDir(w) THEN "cleanup" ELSE "finish"
<1>1. worker[w] \in Work /\ pc \in {"cleanup", "finish"}
  BY BusyType
<1>2. worker'[w] = [[worker[w] EXCEPT !.outcome = outcome] EXCEPT !.pc = pc]
  BY DEF Ends, TypeOK
<1>3. \A v \in Workers \ {w} : worker'[v] = worker[v]
  BY DEF Ends, TypeOK
<1>4. worker'[w] = [pc |-> pc, task |-> worker[w].task, next |-> worker[w].next,
                    outcome |-> outcome]
  BY <1>1, <1>2 DEF Work
<1>5. worker'[w] \in Work
  BY <1>1, <1>4 DEF Work
<1>6. worker' \in [Workers -> {Idle} \union Work]
  BY <1>5 DEF Ends, TypeOK
<1>7. HasDir(w)' <=> HasDir(w)
  BY <1>4 DEF HasDir
<1> QED
  BY <1>3, <1>4, <1>5, <1>6, <1>7

\* A step that leaves the table alone, sets no status "completed" for chunks
\* that are missing, and is not counted as an interruption.
LEMMA SameTable ==
    ASSUME IInv, UNCHANGED <<docs, purged, body, interrupted>>, faults' \in Nat,
           faults' >= faults,
           \A t \in Tasks : status'[t] = "completed" /\ status[t] # "completed" =>
               StoredTo(t, body[t].chunks)
    PROVE  CompletedIsStored' /\ CopiesExplained' /\ InterruptionsCounted'
<1>1. CompletedIsStored'
  BY DEF IInv, CompletedIsStored, StoredTo
<1>2. CopiesExplained'
  BY DEF IInv, CopiesExplained
<1>3. InterruptionsCounted'
  BY BoundsAssumption DEF IInv, TypeOK, InterruptionsCounted
<1> QED
  BY <1>1, <1>2, <1>3

\* The first write of the status keeps the invariant, taken or refused.
LEMMA SetProcessingInv ==
    ASSUME IInv, NEW w \in Workers, SetProcessing(w)
    PROVE  IInv'
<1> DEFINE t == worker[w].task
           pc == IF t \in RepoTasks THEN "clone" ELSE "open"
<1>1. /\ Busy(w) /\ TypeOK /\ t \in Tasks /\ Progress(w)
      /\ worker[w].pc = "start" /\ worker[w].next \in Nat \ {0}
  BY AtStepBusy, BusyType DEF SetProcessing, IInv, HandlersProgress
<1>2. /\ worker' \in [Workers -> {Idle} \union Work]
      /\ \A v \in Workers \ {w} : worker'[v] = worker[v]
      /\ worker'[w].pc = pc /\ worker'[w].task = t /\ worker'[w].next = worker[w].next
      /\ worker'[w] \in Work
      /\ HasDir(w)' <=> pc \in {"open", "add", "cleanup"} /\ t \in RepoTasks
  BY <1>1, GotoWorker DEF SetProcessing
<1>3. faults' \in 0..MaxFaults /\ faults' >= faults
  BY <1>1, FaultType DEF SetProcessing
<1>4. status' = status \/ status' = [status EXCEPT ![t] = "processing"]
  BY DEF SetProcessing
<1>5. UNCHANGED <<submission, broker, unrecorded, disk, temp, deletes>>
  BY DEF SetProcessing
<1>6. TypeOK'
  BY <1>1, <1>2, <1>3, <1>4, <1>5 DEF TypeOK, submission, broker, disk, temp, Final
<1>7. Progress(w)'
  BY <1>1, <1>2, <1>4, <1>5 DEF Progress, submission, broker, disk, Final, TypeOK
<1>8. OneHandler' /\ Unsubmitted' /\ HandlersProgress' /\ WaitingFresh'
  BY <1>1, <1>2, <1>4, <1>5, <1>7, HandlerStep DEF submission, broker, disk, TypeOK
<1>9. CompletedIsStored' /\ CopiesExplained' /\ InterruptionsCounted'
  BY <1>1, <1>3, <1>4, <1>5, BoundsAssumption, SameTable DEF submission, broker, disk, TypeOK
<1>10. ~HasDir(w) /\ ~HasDir(w)'
  BY <1>1, <1>2 DEF HasDir
<1>11. DirsAccounted'
  BY <1>2, <1>5, <1>10, ClonedStep DEF IInv, DirsAccounted, temp
<1> QED
  BY <1>6, <1>8, <1>9, <1>11 DEF IInv

\* A clone's directory is from now on the handler's, or nobody's.
LEMMA CloneInv ==
    ASSUME IInv, NEW w \in Workers, Clone(w)
    PROVE  IInv'
<1> DEFINE t == worker[w].task
<1>1. /\ Busy(w) /\ TypeOK /\ t \in Tasks /\ Progress(w) /\ t \in RepoTasks
      /\ worker[w].pc = "clone" /\ worker[w].next \in Nat \ {0}
  BY AtStepBusy, BusyType DEF Clone, IInv, HandlersProgress, Progress
<1>2. ~HasDir(w)
  BY <1>1 DEF HasDir
<1>3. /\ worker' \in [Workers -> {Idle} \union Work]
      /\ \A v \in Workers \ {w} : worker'[v] = worker[v]
      /\ worker'[w] \in Work
      /\ worker'[w].task = t
      /\ worker'[w].next = worker[w].next
      /\ \/ /\ worker'[w].pc = "open" /\ HasDir(w)' /\ abandoned' = abandoned
         \/ /\ worker'[w].pc = "finish" /\ ~HasDir(w)' /\ abandoned' = abandoned + 1
            /\ worker'[w].outcome = "failed"
  <2>1. CASE Goto(w, "open") /\ UNCHANGED abandoned
    BY <1>1, <2>1, GotoWorker
  <2>2. CASE Ends(w, "failed") /\ abandoned' = abandoned + 1
    BY <1>1, <1>2, <2>2, EndsWorker DEF Final
  <2> QED
    BY <2>1, <2>2 DEF Clone
<1>4. faults' \in 0..MaxFaults /\ faults' >= faults
  BY <1>1, FaultType DEF Clone
<1>5. UNCHANGED <<submission, broker, record, disk, deletes>> /\ dirs' = dirs + 1
  BY DEF Clone
<1>6. TypeOK'
  BY <1>1, <1>3, <1>4, <1>5 DEF TypeOK, submission, broker, record, disk
<1>7. Progress(w)'
  BY <1>1, <1>3, <1>5 DEF Progress, submission, broker, record, disk
<1>8. OneHandler' /\ Unsubmitted' /\ HandlersProgress' /\ WaitingFresh'
  BY <1>1, <1>3, <1>5, <1>7, HandlerStep DEF submission, broker, record, disk
<1>9. CompletedIsStored' /\ CopiesExplained' /\ InterruptionsCounted'
  BY <1>4, <1>5, BoundsAssumption, SameTable DEF submission, broker, record, disk
<1>10. DirsAccounted'
  BY <1>1, <1>2, <1>3, <1>5, ClonedStep, ClonedFinite DEF IInv, DirsAccounted, TypeOK
<1> QED
  BY <1>6, <1>8, <1>9, <1>10 DEF IInv

\* The scan, ensure_store and the chunker keep it, with chunks, with none, and when they fail.
LEMMA OpenInv ==
    ASSUME IInv, NEW w \in Workers, Open(w)
    PROVE  IInv'
<1> DEFINE t == worker[w].task
<1>1. /\ Busy(w) /\ TypeOK /\ t \in Tasks /\ Progress(w)
      /\ worker[w].pc = "open" /\ worker[w].next = 1
      /\ body[t] \in Body
  BY AtStepBusy, BusyType DEF Open, IInv, HandlersProgress, Progress, TypeOK
<1>2. body[t].chunks \in 0..MaxChunks
  BY <1>1, BodyType
<1>3. HasDir(w) <=> t \in RepoTasks
  BY <1>1 DEF HasDir
<1>4. /\ worker' \in [Workers -> {Idle} \union Work]
      /\ \A v \in Workers \ {w} : worker'[v] = worker[v]
      /\ worker'[w] \in Work
      /\ worker'[w].task = t
      /\ worker'[w].next = 1
      /\ HasDir(w)' <=> HasDir(w)
      /\ \/ worker'[w].pc = "add" /\ body[t].chunks # 0
         \/ /\ worker'[w].pc = IF HasDir(w) THEN "cleanup" ELSE "finish"
            /\ worker'[w].outcome = "completed" => body[t].chunks = 0
  <2>1. CASE Ends(w, "completed") /\ body[t].chunks = 0
    BY <1>1, <2>1, EndsWorker DEF Final
  <2>2. CASE Goto(w, "add") /\ body[t].chunks # 0
    BY <1>1, <1>3, <2>2, GotoWorker
  <2>3. CASE Ends(w, "failed")
    BY <1>1, <2>3, EndsWorker DEF Final
  <2> QED
    BY <2>1, <2>2, <2>3 DEF Open
<1>5. faults' \in 0..MaxFaults /\ faults' >= faults
  BY <1>1, FaultType DEF Open
<1>6. UNCHANGED <<submission, broker, record, disk, temp, deletes>>
  BY DEF Open
<1>7. TypeOK'
  BY <1>1, <1>4, <1>5, <1>6 DEF TypeOK, submission, broker, record, disk, temp
<1>8. Progress(w)'
  <2>1. \A n : n = 0 => StoredTo(t, n)'
    BY DEF StoredTo
  <2> QED
    BY <1>1, <1>2, <1>3, <1>4, <1>6, <2>1
       DEF Progress, submission, broker, record, disk
<1>9. OneHandler' /\ Unsubmitted' /\ HandlersProgress' /\ WaitingFresh'
  BY <1>1, <1>4, <1>6, <1>8, HandlerStep DEF submission, broker, record, disk
<1>10. CompletedIsStored' /\ CopiesExplained' /\ InterruptionsCounted'
  BY <1>5, <1>6, BoundsAssumption, SameTable DEF submission, broker, record, disk
<1>11. DirsAccounted'
  BY <1>4, <1>6, ClonedStep DEF IInv, DirsAccounted, temp
<1> QED
  BY <1>7, <1>9, <1>10, <1>11 DEF IInv

\* A chunk that is added is the next one, and the handler was not there before
\* without having been interrupted.
LEMMA AddDocumentInv ==
    ASSUME IInv, NEW w \in Workers, AddDocument(w)
    PROVE  IInv'
<1> DEFINE t == worker[w].task
           i == worker[w].next
<1>1. /\ Busy(w) /\ TypeOK /\ t \in Tasks /\ Progress(w) /\ t \in queue
      /\ worker[w].pc = "add" /\ worker[w] \in Work /\ worker[w].outcome \in Final
      /\ i \in Nat \ {0} /\ i <= body[t].chunks /\ body[t].chunks \in 0..MaxChunks
      /\ MaxChunks \in Nat
  BY AtStepBusy, BusyType, BodyType, BoundsAssumption
     DEF AddDocument, IInv, HandlersProgress, OneHandler, Progress, TypeOK
<1>2. i \in Chunks
  BY <1>1 DEF Chunks
<1>3. HasDir(w) <=> t \in RepoTasks
  BY <1>1 DEF HasDir
<1>4. faults' \in 0..MaxFaults /\ faults' >= faults
  BY <1>1, FaultType DEF AddDocument
<1>5. UNCHANGED <<submission, broker, record, purged, temp, deletes>>
  BY DEF AddDocument
<1>6. CASE Ends(w, "failed") /\ UNCHANGED docs
  <2>1. /\ worker' \in [Workers -> {Idle} \union Work]
        /\ \A v \in Workers \ {w} : worker'[v] = worker[v]
        /\ worker'[w].pc = IF HasDir(w) THEN "cleanup" ELSE "finish"
        /\ worker'[w].task = t
        /\ worker'[w].outcome = "failed"
        /\ worker'[w] \in Work
        /\ HasDir(w)' <=> HasDir(w)
    BY <1>1, <1>6, EndsWorker DEF Final
  <2>2. TypeOK'
    BY <1>1, <1>4, <1>5, <1>6, <2>1 DEF TypeOK, submission, broker, record, temp
  <2>3. Progress(w)'
    BY <1>1, <1>3, <1>5, <1>6, <2>1 DEF Progress, submission, broker, record
  <2>4. OneHandler' /\ Unsubmitted' /\ HandlersProgress' /\ WaitingFresh'
    BY <1>1, <1>5, <1>6, <2>1, <2>3, HandlerStep DEF submission, broker, record
  <2>5. CompletedIsStored' /\ CopiesExplained' /\ InterruptionsCounted'
    BY <1>4, <1>5, <1>6, BoundsAssumption, SameTable DEF submission, broker, record
  <2>6. DirsAccounted'
    BY <1>5, <2>1, ClonedStep DEF IInv, DirsAccounted, temp
  <2> QED
    BY <2>2, <2>4, <2>5, <2>6 DEF IInv
<1>7. CASE /\ docs' = [docs EXCEPT ![t][i] = @ + 1]
           /\ IF i = body[t].chunks THEN Ends(w, "completed")
              ELSE worker' = [worker EXCEPT ![w].next = i + 1]
  <2>1. /\ docs' \in [Tasks -> [Chunks -> Nat]]
        /\ docs'[t][i] = docs[t][i] + 1
        /\ docs[t][i] \in Nat
        /\ \A j \in Chunks : j # i => docs'[t][j] = docs[t][j]
        /\ \A u \in Tasks : u # t => docs'[u] = docs[u]
    BY <1>1, <1>2, <1>7, AddCopy
  <2>2. /\ worker' \in [Workers -> {Idle} \union Work]
        /\ \A v \in Workers \ {w} : worker'[v] = worker[v]
        /\ worker'[w] \in Work
        /\ worker'[w].task = t
        /\ HasDir(w)' <=> HasDir(w)
        /\ \/ /\ i = body[t].chunks
              /\ worker'[w].pc = IF HasDir(w) THEN "cleanup" ELSE "finish"
           \/ /\ i # body[t].chunks
              /\ worker'[w].pc = "add"
              /\ worker'[w].next = i + 1
    <3>1. CASE i = body[t].chunks
      BY <1>1, <1>7, <3>1, EndsWorker DEF Final
    <3>2. CASE i # body[t].chunks
      <4>1. worker' = [worker EXCEPT ![w].next = i + 1]
        BY <1>7, <3>2
      <4>2. worker'[w] = [pc |-> "add", task |-> t, next |-> i + 1,
                          outcome |-> worker[w].outcome]
        BY <1>1, <4>1 DEF TypeOK, Work
      <4>3. worker'[w] \in Work
        BY <1>1, <4>2 DEF Work
      <4> QED
        BY <1>1, <1>3, <3>2, <4>1, <4>2, <4>3 DEF TypeOK, HasDir
    <3> QED
      BY <3>1, <3>2
  <2>3. TypeOK'
    BY <1>1, <1>4, <1>5, <2>1, <2>2 DEF TypeOK, submission, broker, record, temp
  <2>4. t \notin purged => \A j \in 1..i : docs'[t][j] > 0
    <3> SUFFICES ASSUME t \notin purged, NEW j \in 1..i
                 PROVE  docs'[t][j] > 0
      OBVIOUS
    <3>1. j \in Chunks /\ docs[t][j] \in Nat
      BY <1>1, <2>1 DEF Chunks, TypeOK
    <3>2. CASE j = i
      BY <2>1, <3>2
    <3>3. CASE j # i
      <4>1. j \in 1..(i - 1)
        BY <1>1, <3>3
      <4>2. docs[t][j] > 0
        BY <1>1, <4>1 DEF Progress, StoredTo
      <4> QED
        BY <2>1, <3>1, <3>3, <4>2
    <3> QED
      BY <3>2, <3>3
  <2>5. docs[t][i] <= interrupted[t]
    BY <1>1, <1>2 DEF Progress
  <2>6. \A j \in Chunks : j >= i + 1 => docs'[t][j] <= interrupted[t]
    <3> SUFFICES ASSUME NEW j \in Chunks, j >= i + 1
                 PROVE  docs'[t][j] <= interrupted[t]
      OBVIOUS
    <3>1. j >= i /\ j # i
      BY <1>1 DEF Chunks
    <3>2. docs[t][j] <= interrupted[t]
      BY <1>1, <3>1 DEF Progress
    <3> QED
      BY <2>1, <3>1, <3>2
  <2>7. Progress(w)'
    <3>1. CASE i = body[t].chunks
      <4>1. StoredTo(worker[w].task, body[worker[w].task].chunks)'
        BY <1>5, <2>2, <2>4, <3>1 DEF StoredTo, submission
      <4> QED
        BY <1>1, <1>3, <1>5, <2>2, <3>1, <4>1
           DEF Progress, submission, broker, record
    <3>2. CASE i # body[t].chunks
      <4>1. i + 1 <= body[t].chunks /\ (i + 1) - 1 = i
        BY <1>1, <3>2
      <4>2. StoredTo(worker[w].task, worker[w].next - 1)'
        BY <1>5, <2>2, <2>4, <3>2, <4>1 DEF StoredTo
      <4> QED
        BY <1>1, <1>5, <2>2, <2>6, <3>2, <4>1, <4>2
           DEF Progress, submission, broker, record
    <3> QED
      BY <3>1, <3>2
  <2>8. OneHandler' /\ Unsubmitted' /\ HandlersProgress' /\ WaitingFresh'
    BY <1>1, <1>5, <2>1, <2>2, <2>7, HandlerStep DEF submission, broker, record
  <2>9. \A u \in Tasks, j \in Chunks : docs[u][j] > 0 => docs'[u][j] > 0
    BY <2>1 DEF TypeOK
  <2>10. CompletedIsStored'
    <3> SUFFICES ASSUME NEW u \in Tasks \ purged, status[u] = "completed",
                        NEW j \in 1..body[u].chunks
                 PROVE  docs'[u][j] > 0
      BY <1>5 DEF CompletedIsStored, submission, record
    <3>1. body[u].chunks \in 0..MaxChunks
      BY <1>1, BodyType DEF TypeOK
    <3>2. j \in Chunks
      BY <1>1, <3>1 DEF Chunks
    <3> QED
      BY <2>9, <3>2 DEF IInv, CompletedIsStored
  <2>11. CopiesExplained'
    <3> SUFFICES ASSUME NEW u \in Tasks, NEW j \in Chunks
                 PROVE  docs'[u][j] <= 1 + interrupted[u]
      BY <1>5 DEF CopiesExplained, broker
    <3>1. docs[u][j] <= 1 + interrupted[u]
      BY DEF IInv, CopiesExplained
    <3>2. interrupted[u] \in Nat /\ docs[u][j] \in Nat
      BY <1>1 DEF TypeOK
    <3>3. (u = t /\ j = i) \/ docs'[u][j] = docs[u][j]
      BY <2>1
    <3> QED
      BY <2>1, <2>5, <3>1, <3>2, <3>3
  <2>12. InterruptionsCounted'
    BY <1>1, <1>4, <1>5, BoundsAssumption DEF IInv, InterruptionsCounted, broker, TypeOK
  <2>13. DirsAccounted'
    BY <1>5, <2>2, ClonedStep DEF IInv, DirsAccounted, temp
  <2> QED
    BY <2>3, <2>8, <2>10, <2>11, <2>12, <2>13 DEF IInv
<1> QED
  BY <1>6, <1>7 DEF AddDocument

\* The removal of the clone in the finally clause keeps it.
LEMMA CleanupInv ==
    ASSUME IInv, NEW w \in Workers, Cleanup(w)
    PROVE  IInv'
<1> DEFINE t == worker[w].task
<1>1. /\ Busy(w) /\ TypeOK /\ t \in Tasks /\ Progress(w) /\ t \in RepoTasks
      /\ worker[w].pc = "cleanup"
  BY AtStepBusy, BusyType DEF Cleanup, IInv, HandlersProgress, Progress
<1>2. /\ worker' \in [Workers -> {Idle} \union Work]
      /\ \A v \in Workers \ {w} : worker'[v] = worker[v]
      /\ worker'[w].pc = "finish" /\ worker'[w].task = t
      /\ worker'[w].outcome = worker[w].outcome
      /\ worker'[w] \in Work
      /\ ~HasDir(w)'
  BY <1>1, GotoWorker DEF Cleanup
<1>3. HasDir(w)
  BY <1>1 DEF HasDir
<1>4. faults' \in 0..MaxFaults /\ faults' >= faults
  BY <1>1, FaultType DEF Cleanup
<1>5. /\ UNCHANGED <<submission, broker, record, disk, deletes>>
      /\ \/ dirs' = dirs - 1 /\ abandoned' = abandoned
         \/ dirs' = dirs /\ abandoned' = abandoned + 1
  BY DEF Cleanup
<1>6. Cardinality(Cloned') = Cardinality(Cloned) - 1
  BY <1>2, <1>3, ClonedStep
<1>7. Cardinality(Cloned) > 0
  <2>1. w \in Cloned
    BY <1>3 DEF Cloned
  <2> QED
    BY <2>1, ClonedFinite, FS_EmptySet
<1>8. dirs' \in Nat /\ DirsAccounted'
  BY <1>1, <1>5, <1>6, <1>7, ClonedFinite DEF IInv, DirsAccounted, TypeOK
<1>9. TypeOK'
  BY <1>1, <1>2, <1>4, <1>5, <1>8 DEF TypeOK, submission, broker, record, disk
<1>10. Progress(w)'
  BY <1>1, <1>2, <1>5 DEF Progress, submission, broker, record, disk, StoredTo
<1>11. OneHandler' /\ Unsubmitted' /\ HandlersProgress' /\ WaitingFresh'
  BY <1>1, <1>2, <1>5, <1>10, HandlerStep DEF submission, broker, record, disk
<1>12. CompletedIsStored' /\ CopiesExplained' /\ InterruptionsCounted'
  BY <1>4, <1>5, BoundsAssumption, SameTable DEF submission, broker, record, disk
<1> QED
  BY <1>8, <1>9, <1>11, <1>12 DEF IInv

\* "completed" is set when all chunks are in the table.
LEMMA SetFinalInv ==
    ASSUME IInv, NEW w \in Workers, SetFinal(w)
    PROVE  IInv'
<1> DEFINE t == worker[w].task
<1>1. /\ Busy(w) /\ TypeOK /\ t \in Tasks /\ Progress(w)
      /\ worker[w].pc = "finish" /\ worker[w].outcome \in Final
  BY AtStepBusy, BusyType DEF SetFinal, IInv, HandlersProgress
<1>2. /\ worker' \in [Workers -> {Idle} \union Work]
      /\ \A v \in Workers \ {w} : worker'[v] = worker[v]
      /\ worker'[w].pc = "ack" /\ worker'[w].task = t
      /\ worker'[w] \in Work
      /\ ~HasDir(w)'
  BY <1>1, GotoWorker DEF SetFinal
<1>3. ~HasDir(w)
  BY <1>1 DEF HasDir
<1>4. faults' \in 0..MaxFaults /\ faults' >= faults
  BY <1>1, FaultType DEF SetFinal
<1>5. /\ UNCHANGED <<submission, broker, disk, temp, deletes>>
      /\ status' = status \/ status' = [status EXCEPT ![t] = worker[w].outcome]
      /\ unrecorded' \subseteq unrecorded \union {t}
  BY DEF SetFinal
<1>6. TypeOK'
  BY <1>1, <1>2, <1>4, <1>5 DEF TypeOK, submission, broker, disk, temp
<1>7. Progress(w)'
  BY <1>2 DEF Progress
<1>8. OneHandler' /\ Unsubmitted' /\ HandlersProgress' /\ WaitingFresh'
  BY <1>1, <1>2, <1>5, <1>7, HandlerStep DEF submission, broker, disk, TypeOK
<1>9. \A u \in Tasks : status'[u] = "completed" /\ status[u] # "completed" =>
          StoredTo(u, body[u].chunks)
  BY <1>1, <1>5 DEF Progress, TypeOK
<1>10. CompletedIsStored' /\ CopiesExplained' /\ InterruptionsCounted'
  BY <1>4, <1>5, <1>9, BoundsAssumption, SameTable DEF submission, broker, disk
<1>11. DirsAccounted'
  BY <1>2, <1>3, <1>5, ClonedStep DEF IInv, DirsAccounted, temp
<1> QED
  BY <1>6, <1>8, <1>10, <1>11 DEF IInv

\* The ack of an ingestion task keeps it.
LEMMA AckInv ==
    ASSUME IInv, NEW w \in Workers, Ack(w)
    PROVE  IInv'
<1> DEFINE t == worker[w].task
<1>1. /\ Busy(w) /\ TypeOK /\ t \in Tasks /\ worker[w].pc = "ack"
  BY AtStepBusy, BusyType DEF Ack, IInv
<1>2. /\ worker' \in [Workers -> {Idle} \union Work]
      /\ \A v \in Workers \ {w} : worker'[v] = worker[v]
      /\ worker'[w] = Idle
  BY <1>1 DEF Ack, TypeOK
<1>3. /\ UNCHANGED <<submission, interrupted, record, disk, temp, deletes, faults>>
      /\ queue' = queue \ {t}
  BY DEF Ack
<1>4. TypeOK'
  BY <1>1, <1>2, <1>3 DEF TypeOK, submission, record, disk, temp
<1>5. ~Busy(w)' /\ \A v \in Workers \ {w} : Busy(v)' <=> Busy(v)
  BY <1>2 DEF Busy, Idle
<1>6. OneHandler'
  BY <1>1, <1>2, <1>3, <1>5 DEF IInv, OneHandler
<1>7. HandlersProgress'
  <2> SUFFICES ASSUME NEW v \in Workers, Busy(v)'
               PROVE  Progress(v)'
    BY DEF HandlersProgress
  <2>1. v # w /\ Busy(v) /\ Progress(v)
    BY <1>5 DEF IInv, HandlersProgress
  <2> QED
    BY <1>2, <1>3, <2>1 DEF Progress, StoredTo, submission, record, disk
<1>8. WaitingFresh'
  <2> SUFFICES ASSUME NEW u \in queue', \A v \in Workers : ~Handles(v, u)'
               PROVE  Fresh(u)'
    BY DEF WaitingFresh
  <2>1. u \in queue /\ u # t
    BY <1>3
  <2>2. \A v \in Workers : ~Handles(v, u)
    BY <1>2, <1>5, <2>1 DEF Handles
  <2>3. Fresh(u)
    BY <2>1, <2>2 DEF IInv, WaitingFresh
  <2> QED
    BY <1>3, <2>3 DEF Fresh, record, disk
<1>9. Unsubmitted' /\ CompletedIsStored' /\ CopiesExplained' /\ InterruptionsCounted'
  BY <1>3 DEF IInv, Unsubmitted, CompletedIsStored, CopiesExplained, InterruptionsCounted,
              submission, record, disk
<1>10. ~HasDir(w) /\ ~HasDir(w)'
  BY <1>1, <1>2 DEF HasDir, Idle
<1>11. DirsAccounted'
  BY <1>2, <1>3, <1>10, ClonedStep DEF IInv, DirsAccounted, temp
<1> QED
  BY <1>4, <1>6, <1>7, <1>8, <1>9, <1>11 DEF IInv

\* A handler starts on a task that nobody works on.
LEMMA TakeInv ==
    ASSUME IInv, NEW w \in Workers, NEW t \in queue, Take(w, t)
    PROVE  IInv'
<1> DEFINE pc == IF body[t].wanting THEN "ack" ELSE "start"
           work == [pc |-> pc, task |-> t, next |-> 1, outcome |-> "completed"]
<1>1. /\ TypeOK /\ t \in Tasks /\ ~Busy(w)
      /\ \A v \in Workers : Busy(v) => worker[v].task # t
  BY DEF Take, IInv, TypeOK
<1>2. /\ worker' \in [Workers -> {Idle} \union Work]
      /\ \A v \in Workers \ {w} : worker'[v] = worker[v]
      /\ worker'[w] = work /\ work \in Work
  BY <1>1 DEF Take, TypeOK, Work, Final
<1>3. UNCHANGED <<submission, broker, record, disk, temp, deletes, faults>>
  BY DEF Take
<1>4. TypeOK'
  BY <1>1, <1>2, <1>3 DEF TypeOK, submission, broker, record, disk, temp
<1>5. Busy(w)' /\ \A v \in Workers \ {w} : Busy(v)' <=> Busy(v)
  BY <1>2, WorkBusy DEF Busy
<1>6. OneHandler'
  BY <1>1, <1>2, <1>3, <1>5 DEF IInv, OneHandler, broker
<1>7. Fresh(t)
  BY <1>1 DEF IInv, WaitingFresh, Handles
<1>8. Progress(w)'
  <2>1. /\ worker'[w].pc = pc /\ worker'[w].task = t /\ worker'[w].next = 1
        /\ pc \in {"start", "ack"}
    BY <1>2
  <2> QED
    BY <1>3, <1>7, <2>1 DEF Progress, Fresh, broker, record, disk
<1>9. HandlersProgress'
  <2> SUFFICES ASSUME NEW v \in Workers, Busy(v)'
               PROVE  Progress(v)'
    BY DEF HandlersProgress
  <2>1. CASE v # w
    <3>1. Busy(v) /\ Progress(v)
      BY <1>5, <2>1 DEF IInv, HandlersProgress
    <3> QED
      BY <1>2, <1>3, <2>1, <3>1 DEF Progress, StoredTo, submission, broker, record, disk
  <2> QED
    BY <1>8, <2>1
<1>10. WaitingFresh'
  <2> SUFFICES ASSUME NEW u \in queue, \A v \in Workers : ~Handles(v, u)'
               PROVE  Fresh(u)'
    BY <1>3 DEF WaitingFresh, broker
  <2>1. \A v \in Workers : ~Handles(v, u)
    BY <1>1, <1>2, <1>5 DEF Handles
  <2>2. Fresh(u)
    BY <2>1 DEF IInv, WaitingFresh
  <2> QED
    BY <1>3, <2>2 DEF Fresh, broker, record, disk
<1>11. Unsubmitted' /\ CompletedIsStored' /\ CopiesExplained' /\ InterruptionsCounted'
  BY <1>3 DEF IInv, Unsubmitted, CompletedIsStored, CopiesExplained, InterruptionsCounted,
              submission, broker, record, disk
<1>12. ~HasDir(w) /\ ~HasDir(w)'
  <2>1. worker'[w].pc \in {"start", "ack"}
    BY <1>2
  <2> QED
    BY <1>1, <2>1 DEF HasDir, Busy, Idle
<1>13. DirsAccounted'
  BY <1>2, <1>3, <1>12, ClonedStep DEF IInv, DirsAccounted, temp
<1> QED
  BY <1>4, <1>6, <1>9, <1>10, <1>11, <1>13 DEF IInv

(***************************************************************************)
(* Submission, deletion, expiry and stops.                                 *)
(***************************************************************************)

\* The request that submits a task keeps it, accepted or not.
LEMMA SubmitInv ==
    ASSUME IInv, NEW t \in Tasks, Submit(t)
    PROVE  IInv'
<1>1. /\ TypeOK /\ answer[t] = "none" /\ t \notin queue /\ status[t] = "none"
      /\ \A i \in Chunks : docs[t][i] = 0
  BY DEF Submit, IInv, Unsubmitted
<1>2. /\ UNCHANGED <<interrupted, worker, record, disk, temp, deletes>>
      /\ answer' \in [Tasks -> {"none", "processing", "error"}]
      /\ \A u \in Tasks : u # t => answer'[u] = answer[u]
      /\ answer'[t] # "none"
      /\ queue' \subseteq queue \union {t} /\ queue \subseteq queue'
  BY <1>1 DEF Submit, TypeOK
<1>3. /\ body' \in [Tasks -> Body]
      /\ \A u \in Tasks : u # t => body'[u] = body[u]
  BY <1>1, BodiesAssumption DEF Submit, TypeOK
<1>4. faults' \in 0..MaxFaults /\ faults' >= faults
  BY <1>1, FaultType DEF Submit
<1>5. TypeOK'
  BY <1>1, <1>2, <1>3, <1>4 DEF TypeOK, record, disk, temp
<1>6. \A w \in Workers : /\ Busy(w)' <=> Busy(w)
                         /\ Busy(w) => worker[w].task \in Tasks /\ worker[w].task # t
  BY <1>1, <1>2, BusyType DEF IInv, OneHandler, Busy
<1>7. OneHandler'
  BY <1>2, <1>6 DEF IInv, OneHandler
<1>8. Unsubmitted'
  BY <1>2 DEF IInv, Unsubmitted, record, disk
<1>9. HandlersProgress'
  <2> SUFFICES ASSUME NEW w \in Workers, Busy(w)'
               PROVE  Progress(w)'
    BY DEF HandlersProgress
  <2>1. Progress(w)
    BY <1>6 DEF IInv, HandlersProgress
  <2> QED
    BY <1>2, <1>3, <1>6, <2>1 DEF Progress, StoredTo, record, disk
<1>10. WaitingFresh'
  <2> SUFFICES ASSUME NEW u \in queue', \A w \in Workers : ~Handles(w, u)'
               PROVE  Fresh(u)'
    BY DEF WaitingFresh
  <2>1. CASE u = t
    <3>1. interrupted[t] \in Nat
      BY <1>1 DEF TypeOK
    <3> QED
      BY <1>1, <1>2, <2>1, <3>1 DEF Fresh, record, disk, Final
  <2>2. CASE u \in queue
    <3>1. Fresh(u)
      BY <1>2, <1>6, <2>2 DEF IInv, WaitingFresh, Handles
    <3> QED
      BY <1>2, <3>1 DEF Fresh, record, disk
  <2> QED
    BY <1>2, <2>1, <2>2
<1>11. CompletedIsStored' /\ CopiesExplained'
  BY <1>1, <1>2, <1>3 DEF IInv, CompletedIsStored, CopiesExplained, record, disk
<1>12. InterruptionsCounted'
  BY <1>1, <1>2, <1>4, BoundsAssumption DEF IInv, InterruptionsCounted, TypeOK
<1>13. DirsAccounted'
  BY <1>2 DEF IInv, DirsAccounted, Cloned, HasDir, temp
<1> QED
  BY <1>5, <1>7, <1>8, <1>9, <1>10, <1>11, <1>12, <1>13 DEF IInv

\* After a deletion nothing is in the table, and what was is accounted for.
LEMMA DeleteProjectInv ==
    ASSUME IInv, DeleteProject
    PROVE  IInv'
<1>1. /\ docs' = [t \in Tasks |-> [i \in Chunks |-> 0]]
      /\ purged' = purged \union {t \in Tasks : \E i \in Chunks : docs[t][i] > 0}
      /\ UNCHANGED <<submission, broker, worker, record, temp, faults>>
  BY DEF DeleteProject
<1>2. TypeOK
  BY DEF IInv
<1>3. TypeOK'
  BY <1>1, <1>2, BoundsAssumption
     DEF DeleteProject, TypeOK, submission, broker, record, temp
<1>4. OneHandler' /\ InterruptionsCounted' /\ DirsAccounted'
  BY <1>1 DEF IInv, OneHandler, InterruptionsCounted, DirsAccounted, Cloned, HasDir, Busy,
              broker, temp
<1>5. \A t \in Tasks : interrupted[t] \in Nat
  BY <1>2 DEF TypeOK
<1>6. Unsubmitted' /\ CopiesExplained'
  BY <1>1, <1>5 DEF IInv, Unsubmitted, CopiesExplained, submission, broker, record
<1>7. ASSUME NEW t \in Tasks, NEW n \in 0..MaxChunks, StoredTo(t, n)
      PROVE  t \notin purged' => n = 0
  <2> SUFFICES ASSUME t \notin purged', n # 0
               PROVE  FALSE
    OBVIOUS
  <2>1. MaxChunks \in Nat
    BY BoundsAssumption
  <2>2. 1 \in Chunks /\ 1 \in 1..n
    BY <2>1 DEF Chunks
  <2>3. docs[t][1] > 0
    BY <1>1, <1>7, <2>2 DEF StoredTo
  <2> QED
    BY <1>1, <2>2, <2>3
<1>8. HandlersProgress'
  <2> SUFFICES ASSUME NEW w \in Workers, Busy(w)
               PROVE  Progress(w)'
    BY <1>1 DEF HandlersProgress, Busy
  <2> DEFINE t == worker[w].task
             n == worker[w].next - 1
  <2>1. /\ Progress(w) /\ t \in Tasks /\ worker[w].next \in Nat \ {0}
        /\ body[t].chunks \in 0..MaxChunks
    BY <1>2, BusyType, BodyType DEF IInv, HandlersProgress, TypeOK
  <2>2. worker[w].pc = "add" => StoredTo(t, n) /\ n \in 0..MaxChunks
    BY <2>1, BoundsAssumption DEF Progress
  <2>3. worker[w].pc = "add" => (t \notin purged' => n = 0)
    BY <1>7, <2>1, <2>2
  <2>4. worker[w].pc \in {"cleanup", "finish"} /\ worker[w].outcome = "completed" =>
            (t \notin purged' => body[t].chunks = 0)
    BY <1>7, <2>1 DEF Progress
  <2>5. worker[w].pc = "add" => StoredTo(worker[w].task, worker[w].next - 1)'
    <3> SUFFICES ASSUME worker[w].pc = "add", t \notin purged', NEW i \in 1..n
                 PROVE  docs'[t][i] > 0
      BY <1>1 DEF StoredTo
    <3>1. n = 0
      BY <2>3
    <3> HIDE DEF n
    <3> QED
      BY <3>1
  <2>6. worker[w].pc \in {"cleanup", "finish"} /\ worker[w].outcome = "completed" =>
            StoredTo(worker[w].task, body[worker[w].task].chunks)'
    BY <1>1, <2>1, <2>4 DEF StoredTo, submission
  <2>7. \A i \in Chunks : docs'[t][i] <= interrupted[t]
    BY <1>1, <1>5, <2>1
  <2> QED
    BY <1>1, <2>1, <2>5, <2>6, <2>7 DEF Progress, submission, broker, record
<1>9. WaitingFresh'
  BY <1>1, <1>2, <1>5 DEF IInv, WaitingFresh, Fresh, Handles, Busy, broker, record, TypeOK
<1>10. CompletedIsStored'
  <2> SUFFICES ASSUME NEW t \in Tasks \ purged', status[t] = "completed",
                      NEW i \in 1..body[t].chunks
               PROVE  docs'[t][i] > 0
    BY <1>1 DEF CompletedIsStored, submission, record
  <2>1. body[t].chunks \in 0..MaxChunks
    BY <1>2, BodyType DEF TypeOK
  <2>2. StoredTo(t, body[t].chunks)
    BY DEF IInv, CompletedIsStored, StoredTo
  <2>3. body[t].chunks = 0
    BY <1>7, <2>1, <2>2
  <2> QED
    BY <2>3
<1> QED
  BY <1>3, <1>4, <1>6, <1>8, <1>9, <1>10 DEF IInv

\* The expiry of a status keeps it.
LEMMA ExpireInv ==
    ASSUME IInv, NEW t \in Tasks, Expire(t)
    PROVE  IInv'
<1>1. /\ UNCHANGED <<submission, broker, worker, unrecorded, disk, temp, deletes, faults>>
      /\ TypeOK /\ t \notin queue
      /\ status'[t] = "none"
      /\ \A u \in Tasks : u # t => status'[u] = status[u]
      /\ status' \in [Tasks -> {"none", "processing"} \union Final]
  BY DEF Expire, IInv, TypeOK
<1>2. TypeOK'
  BY <1>1 DEF TypeOK, submission, broker, disk, temp
<1>3. OneHandler' /\ Unsubmitted' /\ InterruptionsCounted' /\ DirsAccounted'
  BY <1>1 DEF IInv, OneHandler, Unsubmitted, InterruptionsCounted, DirsAccounted, Cloned,
              HasDir, Busy, submission, broker, disk, temp
<1>4. HandlersProgress'
  <2> SUFFICES ASSUME NEW w \in Workers, Busy(w)
               PROVE  Progress(w)'
    BY <1>1 DEF HandlersProgress, Busy
  <2>1. Progress(w) /\ worker[w].task \in Tasks /\ worker[w].task # t
    BY <1>1, BusyType DEF IInv, HandlersProgress, OneHandler
  <2> QED
    BY <1>1, <2>1 DEF Progress, StoredTo, submission, broker, disk
<1>5. WaitingFresh'
  BY <1>1 DEF IInv, WaitingFresh, Fresh, Handles, Busy, broker, disk, TypeOK
<1>6. CompletedIsStored' /\ CopiesExplained'
  BY <1>1 DEF IInv, CompletedIsStored, CopiesExplained, submission, broker, disk
<1> QED
  BY <1>2, <1>3, <1>4, <1>5, <1>6 DEF IInv

\* A stop interrupts the one handler a task has, if it has one.
LEMMA OneInterrupted ==
    ASSUME TypeOK, OneHandler, NEW t \in Tasks
    PROVE  LET hs == {w \in Workers : Busy(w) /\ worker[w].task = t}
           IN  /\ Cardinality(hs) \in 0..1
               /\ (\E w \in Workers : Handles(w, t)) => Cardinality(hs) = 1
<1> DEFINE hs == {w \in Workers : Busy(w) /\ worker[w].task = t}
<1>1. CASE hs = {}
  <2>1. Cardinality(hs) = 0
    BY <1>1, FS_EmptySet
  <2> QED
    BY <1>1, <2>1 DEF Handles
<1>2. ASSUME NEW w \in hs
      PROVE  Cardinality(hs) = 1
  <2>1. hs = {w}
    BY <1>2 DEF OneHandler
  <2> QED
    BY <2>1, FS_Singleton
<1> QED
  BY <1>1, <1>2

\* Handlers that stop leave their tasks with the broker, with as many copies as
\* the interruption explains.
LEMMA StopInv ==
    ASSUME IInv, NEW removed \in {{}, Cloned}, Stop(removed)
    PROVE  IInv'
<1> DEFINE hs(t) == {w \in Workers : Busy(w) /\ worker[w].task = t}
<1>1. /\ TypeOK
      /\ UNCHANGED <<submission, queue, record, disk, deletes>>
      /\ worker' = [w \in Workers |-> Idle]
      /\ faults' = faults + 1 /\ faults' \in 0..MaxFaults
      /\ faults \in Nat
  BY BoundsAssumption DEF Stop, Fault, IInv, TypeOK
<1>2. PICK cloning \in SUBSET {w \in Workers : worker[w].pc = "clone"} :
          /\ dirs' = dirs + Cardinality(cloning) - Cardinality(removed)
          /\ abandoned' = abandoned + Cardinality(cloning) + Cardinality(Cloned \ removed)
  BY DEF Stop
<1>3. Cardinality(cloning) \in Nat
  <2>1. IsFiniteSet(cloning)
    BY WorkersAssumption, FS_Subset
  <2> QED
    BY <2>1, FS_CardinalityType
<1>4. /\ Cardinality(removed) \in Nat
      /\ Cardinality(Cloned \ removed) \in Nat
      /\ Cardinality(Cloned) = Cardinality(removed) + Cardinality(Cloned \ removed)
  <2>1. Cardinality({}) = 0
    BY FS_EmptySet
  <2>2. CASE removed = {}
    <3>1. Cloned \ removed = Cloned
      BY <2>2
    <3> QED
      BY <2>1, <2>2, <3>1, ClonedFinite
  <2>3. CASE removed = Cloned
    <3>1. Cloned \ removed = {}
      BY <2>3
    <3> QED
      BY <2>1, <2>3, <3>1, ClonedFinite
  <2> QED
    BY <2>2, <2>3
<1>5. \A w \in Workers : worker'[w] = Idle /\ ~Busy(w)'
  BY <1>1 DEF Busy
<1>6. DirsAccounted' /\ {dirs', abandoned'} \subseteq Nat
  <2>1. Cloned' = {}
    BY <1>5 DEF Cloned, HasDir, Idle
  <2>2. Cardinality(Cloned') = 0
    BY <2>1, FS_EmptySet
  <2> QED
    BY <1>1, <1>2, <1>3, <1>4, <2>2 DEF IInv, DirsAccounted, TypeOK
<1>7. \A t \in Tasks : /\ interrupted'[t] = interrupted[t] + Cardinality(hs(t))
                       /\ interrupted[t] \in Nat
                       /\ Cardinality(hs(t)) \in 0..1
                       /\ (\E w \in Workers : Handles(w, t)) => Cardinality(hs(t)) = 1
  BY <1>1, OneInterrupted DEF Stop, IInv, TypeOK
<1> HIDE DEF hs
<1>8. \A t \in Tasks : /\ interrupted'[t] \in Nat
                       /\ interrupted'[t] <= faults'
                       /\ interrupted'[t] >= interrupted[t]
  BY <1>1, <1>7 DEF IInv, InterruptionsCounted
<1>9. interrupted' \in [Tasks -> 0..MaxFaults]
  <2>1. \A t \in Tasks : interrupted'[t] \in 0..MaxFaults
    BY <1>1, <1>8, BoundsAssumption
  <2>2. interrupted' = [t \in Tasks |-> interrupted'[t]]
    BY DEF Stop
  <2> QED
    BY <2>1, <2>2
<1>10. TypeOK'
  BY <1>1, <1>6, <1>9 DEF TypeOK, submission, record, disk
<1>11. OneHandler' /\ Unsubmitted' /\ InterruptionsCounted' /\ HandlersProgress'
  BY <1>1, <1>5, <1>8 DEF IInv, OneHandler, Unsubmitted, InterruptionsCounted,
                          HandlersProgress, submission, record, disk
<1>12. WaitingFresh'
  <2> SUFFICES ASSUME NEW t \in queue
               PROVE  Fresh(t)'
    BY <1>1 DEF WaitingFresh
  <2>1. t \in Tasks
    BY <1>1 DEF TypeOK
  <2>2. CASE \E w \in Workers : Handles(w, t)
    <3>1. interrupted'[t] = interrupted[t] + 1 /\ interrupted[t] \in Nat
      BY <1>7, <2>1, <2>2
    <3>2. \A i \in Chunks : docs[t][i] <= 1 + interrupted[t]
      BY <2>1 DEF IInv, CopiesExplained
    <3> QED
      BY <1>1, <3>1, <3>2 DEF Fresh, record, disk
  <2>3. CASE ~\E w \in Workers : Handles(w, t)
    <3>1. Fresh(t)
      BY <2>3 DEF IInv, WaitingFresh
    <3>2. \A i \in Chunks : docs[t][i] \in Nat
      BY <1>1, <2>1 DEF TypeOK
    <3>3. \A i \in Chunks : docs'[t][i] <= interrupted'[t]
      BY <1>1, <1>7, <1>8, <2>1, <3>1, <3>2 DEF Fresh, disk
    <3>4. interrupted'[t] = 0 => interrupted[t] = 0
      BY <1>7, <1>8, <2>1
    <3> QED
      BY <1>1, <3>1, <3>3, <3>4 DEF Fresh, record
  <2> QED
    BY <2>2, <2>3
<1>13. CompletedIsStored'
  BY <1>1 DEF IInv, CompletedIsStored, submission, record, disk
<1>14. CopiesExplained'
  <2> SUFFICES ASSUME NEW t \in Tasks, NEW i \in Chunks
               PROVE  docs[t][i] <= 1 + interrupted'[t]
    BY <1>1 DEF CopiesExplained, disk
  <2>1. docs[t][i] <= 1 + interrupted[t] /\ docs[t][i] \in Nat
    BY <1>1 DEF IInv, CopiesExplained, TypeOK
  <2> QED
    BY <1>7, <1>8, <2>1
<1> QED
  BY <1>6, <1>10, <1>11, <1>12, <1>13, <1>14 DEF IInv

(***************************************************************************)
(* The theorems.                                                           *)
(***************************************************************************)

\* The invariant holds before the first task.
LEMMA InitInv == Init => IInv
<1> SUFFICES ASSUME Init
             PROVE  IInv
  OBVIOUS
<1>1. NoBody \in Body
  <2>1. 0 \in 0..MaxChunks
    BY BoundsAssumption
  <2> QED
    BY <2>1 DEF NoBody, Body
<1>2. TypeOK
  BY <1>1, BoundsAssumption DEF Init, TypeOK
<1>3. \A w \in Workers : ~Busy(w) /\ ~HasDir(w)
  BY DEF Init, Busy, HasDir, Idle
<1>4. OneHandler /\ HandlersProgress /\ WaitingFresh
  BY <1>3 DEF Init, OneHandler, HandlersProgress, WaitingFresh
<1>5. Unsubmitted /\ InterruptionsCounted /\ CompletedIsStored /\ CopiesExplained
  BY DEF Init, Unsubmitted, InterruptionsCounted, CompletedIsStored, CopiesExplained
<1>6. DirsAccounted
  <2>1. Cloned = {}
    BY <1>3 DEF Cloned
  <2> QED
    BY <2>1, FS_EmptySet DEF Init, DirsAccounted
<1> QED
  BY <1>2, <1>4, <1>5, <1>6 DEF IInv

\* The invariant is inductive.
LEMMA NextInv == IInv /\ [Next]_vars => IInv'
<1> SUFFICES ASSUME IInv, [Next]_vars
             PROVE  IInv'
  OBVIOUS
<1>1. ASSUME NEW t \in Tasks, Submit(t)
      PROVE  IInv'
  BY <1>1, SubmitInv
<1>2. ASSUME NEW t \in Tasks, Expire(t)
      PROVE  IInv'
  BY <1>2, ExpireInv
<1>3. ASSUME NEW w \in Workers, NEW t \in queue, Take(w, t)
      PROVE  IInv'
  BY <1>3, TakeInv
<1>4. ASSUME NEW w \in Workers, Handle(w)
      PROVE  IInv'
  <2>1. CASE SetProcessing(w)
    BY <2>1, SetProcessingInv
  <2>2. CASE Clone(w)
    BY <2>2, CloneInv
  <2>3. CASE Open(w)
    BY <2>3, OpenInv
  <2>4. CASE AddDocument(w)
    BY <2>4, AddDocumentInv
  <2>5. CASE Cleanup(w)
    BY <2>5, CleanupInv
  <2>6. CASE SetFinal(w)
    BY <2>6, SetFinalInv
  <2>7. CASE Ack(w)
    BY <2>7, AckInv
  <2> QED
    BY <1>4, <2>1, <2>2, <2>3, <2>4, <2>5, <2>6, <2>7 DEF Handle
<1>5. CASE DeleteProject
  BY <1>5, DeleteProjectInv
<1>6. CASE ConnectionLost
  BY <1>6, StopInv DEF ConnectionLost
<1>7. CASE Restart
  BY <1>7, StopInv DEF Restart
<1>8. CASE UNCHANGED vars
  <2>1. UNCHANGED <<answer, body, queue, interrupted, worker, status, unrecorded, docs,
                    purged, dirs, abandoned, deletes, faults>>
    BY <1>8 DEF vars, submission, broker, record, disk, temp
  <2>2. TypeOK' /\ OneHandler' /\ Unsubmitted' /\ InterruptionsCounted'
    BY <2>1 DEF IInv, TypeOK, OneHandler, Unsubmitted, InterruptionsCounted, Busy
  <2>3. HandlersProgress' /\ WaitingFresh'
    BY <2>1 DEF IInv, HandlersProgress, WaitingFresh, Progress, StoredTo, Fresh, Handles, Busy
  <2>4. CompletedIsStored' /\ CopiesExplained' /\ DirsAccounted'
    BY <2>1 DEF IInv, CompletedIsStored, CopiesExplained, DirsAccounted, Cloned, HasDir
  <2> QED
    BY <2>2, <2>3, <2>4 DEF IInv
<1> QED
  BY <1>1, <1>2, <1>3, <1>4, <1>5, <1>6, <1>7, <1>8 DEF Next

\* What IInv says holds in every state the ingestion reaches.
THEOREM Inductive == Spec => []IInv
  BY InitInv, NextInv, PTL DEF Spec

\* Every variable keeps its type; no directory is removed that is not there,
\* and no chunk is added that the message did not ask for.
THEOREM TypeCorrect == Spec => []TypeOK
<1>1. IInv => TypeOK
  BY DEF IInv
<1> QED
  BY <1>1, Inductive, PTL

\* A task that reads "completed" has all its chunks in the table, unless a
\* deletion of the project took some (handlers.py:230, 269).
THEOREM CompletedStored == Spec => []CompletedIsStored
<1>1. IInv => CompletedIsStored
  BY DEF IInv
<1> QED
  BY <1>1, Inductive, PTL

\* A chunk has one copy, and one more for every interruption at the most
\* (engine.py:104).
THEOREM CopiesBounded == Spec => []CopiesExplained
<1>1. IInv => CopiesExplained
  BY DEF IInv
<1> QED
  BY <1>1, Inductive, PTL

\* Every temporary directory is a running handler's or one of those that are
\* abandoned by a fault (git_loader.py:30-52).
THEOREM DirsCounted == Spec => []DirsAccounted
<1>1. IInv => DirsAccounted
  BY DEF IInv
<1> QED
  BY <1>1, Inductive, PTL

\* The only steps that write a status write that of a task in progress, and one
\* with a final status is in progress only after an interruption or at its ack.
LEMMA FinalStep ==
    ASSUME IInv, [Next]_vars, NEW t \in Tasks, status[t] \in Final, interrupted[t] = 0
    PROVE  status'[t] \in {status[t], "none"}
<1>1. ASSUME NEW w \in Workers, Busy(w), worker[w].pc # "ack",
             NEW s, status' = [status EXCEPT ![worker[w].task] = s]
      PROVE  status'[t] = status[t]
  <2>1. worker[w].task # t
    BY <1>1 DEF IInv, HandlersProgress, Progress
  <2> QED
    BY <1>1, <2>1 DEF IInv, TypeOK
<1>2. ASSUME NEW w \in Workers, SetProcessing(w) \/ SetFinal(w)
      PROVE  status'[t] = status[t]
  <2>1. Busy(w) /\ worker[w].pc # "ack"
    BY <1>2, AtStepBusy DEF SetProcessing, SetFinal
  <2>2. \/ status' = status
        \/ \E s : status' = [status EXCEPT ![worker[w].task] = s]
    BY <1>2 DEF SetProcessing, SetFinal
  <2> QED
    BY <1>1, <2>1, <2>2
<1>3. ASSUME NEW u \in Tasks, Expire(u)
      PROVE  status'[t] \in {status[t], "none"}
  BY <1>3 DEF Expire, IInv, TypeOK
<1>4. ASSUME \/ \E u \in Tasks : Submit(u)
             \/ \E w \in Workers : \/ \E u \in queue : Take(w, u)
                                   \/ Clone(w) \/ Open(w) \/ AddDocument(w)
                                   \/ Cleanup(w) \/ Ack(w)
             \/ DeleteProject \/ ConnectionLost \/ Restart
             \/ UNCHANGED vars
      PROVE  status'[t] = status[t]
  BY <1>4 DEF Submit, Take, Clone, Open, AddDocument, Cleanup, Ack, DeleteProject,
              ConnectionLost, Restart, Stop, vars, record
<1> QED
  BY <1>2, <1>3, <1>4 DEF Next, Handle

\* A client that saw a final status sees no other one later (handlers.py:218,
\* 260), unless the handler was interrupted.
THEOREM StatusFinal == Spec => FinalStays
<1>1. IInv /\ [Next]_vars => [\A t \in Tasks : (status[t] \in Final /\ interrupted[t] = 0) =>
                                  status'[t] \in {status[t], "none"}]_vars
  BY FinalStep
<1> QED
  BY <1>1, Inductive, PTL DEF Spec, FinalStays

=============================================================================
