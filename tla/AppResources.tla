---------------------------- MODULE AppResources ----------------------------
(***************************************************************************)
(* The resources of the process and its lifespan: AppResources.init_all    *)
(* and close_all (src/app/infrastructure/resources.py), the lifespan in    *)
(* main.py, the request dependency that initialises again (api/deps.py)    *)
(* and the getters behind which each client is made on first use.          *)
(*                                                                         *)
(* A getter checks a module global, takes a lock, checks again, connects   *)
(* and sets the global; RetrievalStore.ensure_store has no lock, and       *)
(* get_longterm_store sets its global before setup has succeeded.  Callers *)
(* interleave at every await: the lifespan, requests, and the handlers of  *)
(* the MQ consumers, which run until the MQ connection is closed.          *)
(***************************************************************************)
EXTENDS Integers, FiniteSets

CONSTANTS
    Requests,       \* HTTP requests, one after another in each
    Handlers,       \* consumer tasks
    MaxUses,        \* bound of the model: calls of getters while serving
    MaxFaults       \* bound of the model: failing calls

ASSUME CallersAssumption ==
    /\ Requests \intersect Handlers = {}
    /\ {"lifespan", "nobody"} \intersect (Requests \union Handlers) = {}
    /\ Requests \union Handlers # {}
    /\ IsFiniteSet(Requests \union Handlers)
ASSUME BoundsAssumption == {MaxUses, MaxFaults} \subseteq Nat

Resources == {"redis", "db", "mq", "longterm", "rag"}
Locked == Resources \ {"rag"}
Callers == {"lifespan"} \union Requests \union Handlers
Nobody == "nobody"

VARIABLES
    phase,          \* of the lifespan
    initialized,    \* AppResources.initialized: the graph is built
    ready,          \* the ..._ready flags
    value,          \* [Resources -> what the module global holds]
    open,           \* [Resources -> clients made and not closed]
    lock,           \* [Locked -> caller that holds the lock]
    lifecycle,      \* caller that holds _lifecycle_lock
    consuming,      \* the MQ consumers run
    proc,           \* [Callers -> what each is doing]
    uses,           \* calls so far, at most MaxUses
    faults,         \* faults so far, at most MaxFaults
    accidents       \* history: what went wrong, see Accidents

globals == <<value, open, lock>>
flags == <<initialized, ready, lifecycle>>
vars == <<phase, flags, globals, consuming, proc, uses, faults, accidents>>

Idle == [pc |-> "idle"]

\* A caller inside a getter: before the first check, waiting for the lock, or
\* awaiting the connection; "enter" waits for the lifecycle lock, "graph" and
\* "close" are steps of init_all and close_all.
Call == [job : {"init", "use", "stop", "close"}, at : Resources \union {"graph"},
         pc : {"enter", "call", "wait", "create", "graph", "close"}]
Busy(c) == proc[c] # Idle
Creating(r) == {c \in Callers : Busy(c) /\ proc[c].at = r /\ proc[c].pc = "create"}

\* "setup": the long-term store could not be set up; "engine": an ensure_store
\* failed or overlapped another; "late": a handler opened again what close_all
\* had closed; "cancelled": a handler was cancelled while it connected; "raised":
\* close_all raised; "early": close_all returned at once.
Accidents == {"setup", "engine", "late", "cancelled", "raised", "early"}

TypeOK ==
    /\ phase \in {"starting", "workers", "serving", "closing", "stopped"}
    /\ initialized \in BOOLEAN
    /\ ready \subseteq Resources
    /\ value \in [Resources -> {"none", "bare", "ready"}]
    /\ open \in [Resources -> Nat]
    /\ lock \in [Locked -> Callers \union {Nobody}]
    /\ lifecycle \in Callers \union {Nobody}
    /\ consuming \in BOOLEAN
    /\ proc \in [Callers -> {Idle} \union Call]
    /\ uses \in 0..MaxUses
    /\ faults \in 0..MaxFaults
    /\ accidents \subseteq Accidents

Init ==
    /\ phase = "starting"
    /\ initialized = FALSE
    /\ ready = {}
    /\ value = [r \in Resources |-> "none"]
    /\ open = [r \in Resources |-> 0]
    /\ lock = [r \in Locked |-> Nobody]
    /\ lifecycle = "lifespan"
    /\ consuming = FALSE
    /\ proc = [c \in Callers |->
          IF c = "lifespan" THEN [job |-> "init", at |-> "redis", pc |-> "call"] ELSE Idle]
    /\ uses = 0
    /\ faults = 0
    /\ accidents = {}

Fault == faults < MaxFaults /\ faults' = faults + 1
NoFault == faults' = faults
Note(what) == accidents' = accidents \union what

-----------------------------------------------------------------------------
(* The getters.                                                            *)

Goto(c, pc) == proc' = [proc EXCEPT ![c].pc = pc]

\* init_all goes from one resource to the next.
Following(r) == CASE r = "redis" -> "db" [] r = "db" -> "mq" [] r = "mq" -> "longterm"
                  [] r = "longterm" -> "rag" [] r = "rag" -> "graph"

\* A getter returns, or raises.  init_all notes which and goes on; a user's call
\* is over; stop_workers, which asks for the channel, makes close_all raise.
Return(c, ok) ==
    LET r == proc[c].at IN
    \/ /\ proc[c].job = "use"
       /\ proc' = [proc EXCEPT ![c] = Idle]
       /\ UNCHANGED <<phase, ready, lifecycle>>
    \/ /\ proc[c].job = "init"
       /\ ready' = IF ok THEN ready \union {r} ELSE ready \ {r}
       /\ proc' = [proc EXCEPT ![c].at = Following(r),
                               ![c].pc = IF r = "rag" THEN "graph" ELSE "call"]
       /\ UNCHANGED <<phase, lifecycle>>
    \/ /\ proc[c].job = "stop" /\ ok
       /\ proc' = [proc EXCEPT ![c].job = "close", ![c].pc = "close"]
       /\ UNCHANGED <<phase, ready, lifecycle>>
    \/ /\ proc[c].job = "stop" /\ ~ok
       /\ proc' = [proc EXCEPT ![c] = Idle]
       /\ phase' = "stopped"
       /\ lifecycle' = Nobody
       /\ UNCHANGED ready

\* The first check of a getter.  ensure_store goes on to make an engine without
\* a lock, over the engine of anyone who is still at it.
Check(c) ==
    LET r == proc[c].at IN
    /\ proc[c].pc = "call"
    /\ \/ /\ value[r] # "none"
          /\ Return(c, TRUE)
          /\ UNCHANGED <<open, accidents>>
       \/ /\ value[r] = "none" /\ r \in Locked
          /\ Goto(c, "wait")
          /\ UNCHANGED <<phase, ready, lifecycle, open, accidents>>
       \/ /\ value[r] = "none" /\ r = "rag"
          /\ Goto(c, "create")
          /\ open' = [open EXCEPT ![r] = @ + 1]
          /\ Note((IF Creating(r) = {} THEN {} ELSE {"engine"})
                  \union (IF phase = "closing" THEN {"late"} ELSE {}))
          /\ UNCHANGED <<phase, ready, lifecycle>>
    /\ UNCHANGED <<initialized, value, lock, consuming, uses, faults>>

\* Mutant: no second check under the lock.
BugNoSecondCheck(c) ==
    LET r == proc[c].at IN
    /\ proc[c].pc = "wait"
    /\ lock[r] = Nobody
    /\ lock' = [lock EXCEPT ![r] = c]
    /\ Goto(c, "create")
    /\ value' = [value EXCEPT ![r] = IF r = "longterm" THEN "bare" ELSE @]
    /\ open' = [open EXCEPT ![r] = IF r = "longterm" THEN @ + 1 ELSE @]
    /\ UNCHANGED <<phase, flags, consuming, uses, faults, accidents>>

\* The lock is free: the second check.  get_longterm_store makes its pool and
\* sets _store, on which it then awaits setup.
Acquire(c) ==
    LET r == proc[c].at IN
    /\ proc[c].pc = "wait"
    /\ lock[r] = Nobody
    /\ \/ /\ value[r] # "none"
          /\ Return(c, TRUE)
          /\ UNCHANGED <<globals, accidents>>
       \/ /\ value[r] = "none"
          /\ lock' = [lock EXCEPT ![r] = c]
          /\ Goto(c, "create")
          /\ IF r = "longterm"
                THEN /\ value' = [value EXCEPT ![r] = "bare"]
                     /\ open' = [open EXCEPT ![r] = @ + 1]
                     /\ Note(IF phase = "closing" THEN {"late"} ELSE {})
                ELSE UNCHANGED <<value, open, accidents>>
          /\ UNCHANGED <<phase, ready, lifecycle>>
    /\ UNCHANGED <<initialized, consuming, uses, faults>>

\* Mutant: the lock is not released.
BugKeepsLock(c) ==
    LET r == proc[c].at IN
    /\ proc[c].pc = "create"
    /\ NoFault
    /\ value' = [value EXCEPT ![r] = "ready"]
    /\ open' = [open EXCEPT ![r] = IF r \in {"longterm", "rag"} THEN @ ELSE @ + 1]
    /\ Return(c, TRUE)
    /\ UNCHANGED <<initialized, lock, consuming, uses, accidents>>

\* The connection is there, or could not be made: then the client is closed
\* again, but for the engine of ensure_store, and for the long-term store, which
\* stays as it is and is what later callers get.
Connected(c) ==
    LET r == proc[c].at IN
    /\ proc[c].pc = "create"
    /\ lock' = IF r \in Locked THEN [lock EXCEPT ![r] = Nobody] ELSE lock
    /\ \/ /\ NoFault
          /\ value' = [value EXCEPT ![r] = "ready"]
          /\ open' = [open EXCEPT ![r] = IF r \in {"longterm", "rag"} THEN @ ELSE @ + 1]
          /\ Return(c, TRUE)
          /\ UNCHANGED accidents
       \/ /\ Fault
          /\ Return(c, FALSE)
          /\ Note(CASE r = "longterm" -> {"setup"} [] r = "rag" -> {"engine"}
                    [] proc[c].job = "stop" -> {"raised"} [] OTHER -> {})
          /\ UNCHANGED <<value, open>>
    /\ UNCHANGED <<initialized, consuming, uses>>

-----------------------------------------------------------------------------
(* init_all and the lifespan.                                              *)

\* The last step of init_all.  Without a long-term store no graph is built.
BuildGraph(c) ==
    /\ proc[c].pc = "graph"
    /\ \/ /\ "longterm" \in ready
          /\ \/ NoFault /\ initialized' = TRUE
             \/ Fault /\ initialized' = FALSE
       \/ "longterm" \notin ready /\ NoFault /\ initialized' = FALSE
    /\ lifecycle' = Nobody
    /\ proc' = [proc EXCEPT ![c] = Idle]
    /\ phase' = IF phase = "starting" THEN "workers" ELSE phase
    /\ UNCHANGED <<ready, globals, consuming, uses, accidents>>

\* _start_mq_workers, at startup only; it may fail when some consumers run.
StartWorkers ==
    /\ phase = "workers"
    /\ phase' = "serving"
    /\ \/ "mq" \in ready /\ NoFault /\ consuming' = TRUE
       \/ "mq" \in ready /\ Fault /\ consuming' \in BOOLEAN
       \/ "mq" \notin ready /\ NoFault /\ UNCHANGED consuming
    /\ UNCHANGED <<flags, globals, proc, uses, accidents>>

\* A request or a handler needs a resource.
Use(c, r) ==
    /\ ~Busy(c)
    /\ \/ c \in Requests /\ phase = "serving" /\ r # "longterm"
       \/ c \in Handlers /\ consuming
    /\ uses < MaxUses
    /\ uses' = uses + 1
    /\ proc' = [proc EXCEPT ![c] = [job |-> "use", at |-> r, pc |-> "call"]]
    /\ UNCHANGED <<phase, flags, globals, consuming, faults, accidents>>

\* get_orchestrator_engine_dep finds the application uninitialised and calls
\* init_all.
InitAgain(c) ==
    /\ ~Busy(c)
    /\ phase = "serving"
    /\ ~initialized
    /\ uses < MaxUses
    /\ uses' = uses + 1
    /\ proc' = [proc EXCEPT ![c] = [job |-> "init", at |-> "redis", pc |-> "enter"]]
    /\ UNCHANGED <<phase, flags, globals, consuming, faults, accidents>>

\* init_all takes the lifecycle lock and looks whether someone was faster.
Enter(c) ==
    /\ proc[c].pc = "enter"
    /\ lifecycle = Nobody
    /\ IF initialized
          THEN proc' = [proc EXCEPT ![c] = Idle] /\ UNCHANGED lifecycle
          ELSE Goto(c, "call") /\ lifecycle' = c
    /\ UNCHANGED <<phase, initialized, ready, globals, consuming, uses, faults, accidents>>

Proceed(c) == Check(c) \/ Acquire(c) \/ Connected(c) \/ BuildGraph(c) \/ Enter(c)

-----------------------------------------------------------------------------
(* close_all.                                                              *)

Closing(r) == [job |-> "close", at |-> r, pc |-> "close"]
ClosingAt(r) == proc["lifespan"] = Closing(r)
CloseNext(step) == proc' = [proc EXCEPT !["lifespan"] = step]
Forget(r) == value' = [value EXCEPT ![r] = "none"]
\* Mutant: a client is closed whether or not there is one.
BugCloseUnopened(r) == open' = [open EXCEPT ![r] = @ - 1]

CloseClient(r) == open' = [open EXCEPT ![r] = IF value[r] = "none" THEN @ ELSE @ - 1]

\* The server has finished its requests.  Without a graph close_all returns at
\* once; otherwise it begins with the RAG store, if init_all had it.
CloseStart ==
    /\ phase = "serving"
    /\ \A c \in Requests : ~Busy(c)
    /\ \/ /\ initialized
          /\ phase' = "closing"
          /\ lifecycle' = "lifespan"
          /\ CloseNext(Closing(IF "rag" \in ready THEN "rag" ELSE "longterm"))
          /\ UNCHANGED accidents
       \/ /\ ~initialized
          /\ phase' = "stopped"
          /\ Note({"early"})
          /\ UNCHANGED <<lifecycle, proc>>
    /\ UNCHANGED <<initialized, ready, globals, consuming, uses, faults>>

\* Mutant: RetrievalStore.aclose forgets the engine without closing it.
BugRagNotClosed ==
    /\ ClosingAt("rag")
    /\ Forget("rag")
    /\ CloseNext(Closing("longterm"))
    /\ UNCHANGED <<phase, flags, open, lock, consuming, uses, faults, accidents>>

CloseRag ==
    /\ ClosingAt("rag")
    /\ Forget("rag")
    /\ CloseClient("rag")
    /\ CloseNext(Closing("longterm"))
    /\ UNCHANGED <<phase, flags, lock, consuming, uses, faults, accidents>>

\* close_longterm_store, under the lock of its getter; then stop_workers, which
\* asks for the channel, connecting if there is no connection.
CloseLongterm ==
    /\ ClosingAt("longterm")
    /\ lock["longterm"] = Nobody
    /\ Forget("longterm")
    /\ CloseClient("longterm")
    /\ CloseNext([job |-> "stop", at |-> "mq", pc |-> "call"])
    /\ UNCHANGED <<phase, flags, lock, consuming, uses, faults, accidents>>

\* close_mq: the connection goes, and with it the running handlers.  One that was
\* connecting to Redis leaves its client behind.
CloseMq ==
    /\ ClosingAt("mq")
    /\ Forget("mq")
    /\ LET redis == Handlers \intersect Creating("redis")
       IN  /\ open' = [open EXCEPT !["mq"] = @ - 1, !["redis"] = @ + Cardinality(redis)]
           /\ Note(IF redis = {} THEN {} ELSE {"cancelled"})
    /\ consuming' = FALSE
    /\ lock' = [r \in Locked |-> IF lock[r] \in Handlers THEN Nobody ELSE lock[r]]
    /\ proc' = [c \in Callers |->
          IF c = "lifespan" THEN Closing("redis") ELSE IF c \in Handlers THEN Idle ELSE proc[c]]
    /\ UNCHANGED <<phase, flags, uses, faults>>

CloseRedis ==
    /\ ClosingAt("redis")
    /\ Forget("redis")
    /\ CloseClient("redis")
    /\ CloseNext(Closing("db"))
    /\ UNCHANGED <<phase, flags, lock, consuming, uses, faults, accidents>>

CloseDb ==
    /\ ClosingAt("db")
    /\ Forget("db")
    /\ CloseClient("db")
    /\ CloseNext(Idle)
    /\ phase' = "stopped"
    /\ initialized' = FALSE
    /\ ready' = {}
    /\ lifecycle' = Nobody
    /\ UNCHANGED <<lock, consuming, uses, faults, accidents>>

CloseStep == CloseRag \/ CloseLongterm \/ CloseMq \/ CloseRedis \/ CloseDb

Next ==
    \/ \E c \in Callers : Proceed(c)
    \/ StartWorkers
    \/ \E c \in Requests \union Handlers, r \in Resources : Use(c, r)
    \/ \E c \in Requests : InitAgain(c)
    \/ CloseStart
    \/ CloseStep

Spec == Init /\ [][Next]_vars

\* The event loop resumes every caller, whose calls return or raise; nothing
\* makes the server stop.
Fairness ==
    /\ \A c \in Callers : WF_vars(Proceed(c))
    /\ WF_vars(StartWorkers)
    /\ WF_vars(CloseStep)

FairSpec == Spec /\ Fairness

-----------------------------------------------------------------------------
(* Properties.                                                             *)

\* The process never has two clients of one kind however many callers ask for it
\* at once, also after attempts that failed or were cancelled (mq_client.py:19-58,
\* redis_client.py, db_client.py, longterm/store.py).  ensure_store, which has no
\* lock (retrieval_store.py:42-61), leaves an engine for every failure, and
\* callers that overlap make one each, but no more; handlers may do so once again
\* after close_all has forgotten the engine.
OneClient ==
    /\ \A r \in Locked : open[r] <= 1
    /\ open["rag"] > 1 =>
          /\ "engine" \in accidents
          /\ open["rag"] <= Cardinality(Requests \union Handlers) + faults
                + (IF accidents \intersect {"late", "raised"} = {} THEN 0
                   ELSE Cardinality(Handlers))

\* A shutdown leaves nothing open (resources.py:115-147), also when clients had
\* to be made again while serving, unless close_all returned early or raised, or
\* a handler opened again what was closed before the consumers were stopped, or
\* was cancelled while connecting, or an ensure_store failed or overlapped.
StoppedClean ==
    (phase = "stopped" /\ accidents \subseteq {"setup"}) =>
        \A r \in Resources : open[r] = 0

\* Every call of a request or a handler, every init_all and every close_all that
\* has begun comes to an end, also when a connection fails while others wait for
\* it, and although close_all waits for the lock of the long-term store while
\* handlers still run.
CallsEnd == \A c \in Callers : Busy(c) ~> ~Busy(c)

=============================================================================
