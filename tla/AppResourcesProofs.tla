------------------------- MODULE AppResourcesProofs -------------------------
(***************************************************************************)
(* Proofs about AppResources for every finite set of requests and          *)
(* consumer tasks, and any number of calls and faults.                     *)
(***************************************************************************)
EXTENDS AppResources, FiniteSetTheorems, TLAPS

(***************************************************************************)
(* The inductive invariant.                                                *)
(***************************************************************************)

InGetter(c) == Busy(c) /\ proc[c].pc \in {"call", "wait", "create"}
CreatesAt(c, r) == Busy(c) /\ proc[c].at = r /\ proc[c].pc = "create"

\* Who may do what, and where in it.
CallOK(c) ==
    LET p == proc[c]
    IN  /\ p.pc \in {"call", "wait", "create"} => p.at \in Resources
        /\ p.pc = "wait" => p.at \in Locked
        /\ p.pc = "graph" <=> p.at = "graph"
        /\ p.pc \in {"graph", "enter"} => p.job = "init"
        /\ p.pc = "enter" => p.at = "redis" /\ c \in Requests
        /\ p.job = "close" <=> p.pc = "close"
        /\ p.job = "stop" => p.at = "mq"
        /\ c \in Requests => p.job \in {"init", "use"} /\ phase = "serving"
        /\ c \in Handlers => p.job = "use" /\ consuming
        /\ c = "lifespan" => \/ p.job = "init" /\ phase = "starting"
                             \/ p.job \in {"stop", "close"} /\ phase = "closing"

CallsOK ==
    /\ \A c \in Callers : Busy(c) => CallOK(c)
    /\ phase \in {"starting", "closing"} => Busy("lifespan")
    /\ consuming => phase \in {"serving", "closing", "stopped"}
    /\ phase \in {"starting", "workers", "serving"} =>
          accidents \intersect {"late", "raised", "early", "cancelled"} = {}
    /\ phase = "closing" => accidents \intersect {"raised", "early"} = {}
    /\ phase = "stopped" /\ consuming => accidents \intersect {"early", "raised"} # {}

\* A lock is held by the one caller that is connecting.
LocksOK ==
    \A r \in Locked :
        /\ \A c \in Callers : lock[r] = c <=> CreatesAt(c, r)
        /\ lock[r] # Nobody => value[r] = IF r = "longterm" THEN "bare" ELSE "none"

\* There is one client when the global is set, and none otherwise.  Only Redis
\* may be left with a client that nobody knows.
ClientsOK ==
    /\ \A r \in Locked :
          \/ open[r] = IF value[r] = "none" THEN 0 ELSE 1
          \/ /\ r = "redis" /\ "cancelled" \in accidents
             /\ open[r] = 1 /\ value[r] = "none"
    /\ "cancelled" \in accidents => ~consuming /\ phase \in {"closing", "stopped"}
    /\ ClosingAt("mq") => value["mq"] # "none"

\* The engines of RetrievalStore.
Overlap == Cardinality(Requests \union Handlers)
RagOK ==
    LET k == Cardinality(Creating("rag"))
    IN  /\ value["rag"] \in {"none", "ready"}
        /\ open["rag"] >= k + IF value["rag"] = "none" THEN 0 ELSE 1
        /\ "rag" \in ready /\ phase \in {"starting", "workers", "serving"} =>
              value["rag"] = "ready"
        /\ phase \notin {"closing", "stopped"} \/ "early" \in accidents =>
              open["rag"] <= faults + IF value["rag"] = "none" THEN k ELSE Overlap
        /\ phase \in {"closing", "stopped"} /\ "early" \notin accidents =>
              IF accidents \intersect {"late", "raised"} = {}
              THEN open["rag"] <= faults + Overlap
              ELSE /\ open["rag"] <= faults + Overlap + Cardinality(Handlers)
                   /\ consuming /\ value["rag"] = "none" => open["rag"] <= faults + Overlap + k
        /\ ClosingAt("rag") => value["rag"] = "ready" /\ open["rag"] <= faults + Overlap

\* After init_all the engine is there, until close_all.
RagSettled ==
    \/ phase \in {"workers", "serving"}
    \/ ClosingAt("rag")
    \/ phase = "starting" /\ proc["lifespan"].at = "graph"
    => "rag" \in ready /\ value["rag"] = "ready"

\* The same while no ensure_store has failed or overlapped another.
RagAlone ==
    "engine" \notin accidents =>
        /\ \/ open["rag"] = IF value["rag"] = "none" THEN Cardinality(Creating("rag")) ELSE 1
           \/ /\ phase \in {"closing", "stopped"} /\ ~consuming
              /\ open["rag"] = 1 /\ value["rag"] = "none" /\ Creating("rag") = {}
        /\ Cardinality(Creating("rag")) <= IF value["rag"] = "none" THEN 1 ELSE 0
        /\ RagSettled

\* What close_all has closed so far.
Closed ==
    IF phase = "stopped" THEN Resources
    ELSE IF phase # "closing" \/ ClosingAt("rag") THEN {}
    ELSE IF ClosingAt("longterm") THEN {"rag"}
    ELSE IF ClosingAt("redis") THEN {"rag", "longterm", "mq"}
    ELSE IF ClosingAt("db") THEN {"rag", "longterm", "mq", "redis"}
    ELSE {"rag", "longterm"}

ClosedOK ==
    /\ accidents \subseteq {"setup"} => \A r \in Closed : open[r] = 0
    /\ phase = "closing" /\ consuming => Closed \subseteq {"rag", "longterm"}

IInv == TypeOK /\ CallsOK /\ LocksOK /\ ClientsOK /\ RagOK /\ RagAlone /\ ClosedOK

(***************************************************************************)
(* Callers.                                                                *)
(***************************************************************************)

\* Callers are finitely many, the lifespan is none of the others, and no caller is Nobody.
LEMMA CallersFacts ==
    /\ IsFiniteSet(Callers)
    /\ IsFiniteSet(Handlers)
    /\ "lifespan" \in Callers
    /\ "lifespan" \notin Requests \union Handlers
    /\ Requests \union Handlers \subseteq Callers
    /\ Nobody \notin Callers
    /\ Cardinality(Handlers) \in Nat
    /\ Overlap \in Nat \ {0}
<1>1. IsFiniteSet(Requests \union Handlers) /\ IsFiniteSet({"lifespan"})
  BY CallersAssumption, FS_Singleton
<1>2. IsFiniteSet(Callers)
  BY <1>1, FS_Union DEF Callers
<1>3. IsFiniteSet(Handlers)
  <2>1. Handlers \subseteq Requests \union Handlers
    OBVIOUS
  <2> QED
    BY <1>1, <2>1, FS_Subset
<1>4. Cardinality(Handlers) \in Nat /\ Overlap \in Nat
  BY <1>1, <1>3, FS_CardinalityType DEF Overlap
<1>5. Overlap # 0
  BY <1>1, CallersAssumption, FS_EmptySet DEF Overlap
<1> QED
  BY <1>2, <1>3, <1>4, <1>5, CallersAssumption DEF Callers, Nobody

\* A caller that is busy is in a call with these fields.
LEMMA BusyCall ==
    ASSUME TypeOK, NEW c \in Callers, Busy(c)
    PROVE  /\ proc[c] \in Call
           /\ proc[c].job \in {"init", "use", "stop", "close"}
           /\ proc[c].at \in Resources \union {"graph"}
           /\ proc[c].pc \in {"enter", "call", "wait", "create", "graph", "close"}
<1>1. proc[c] \in Call
  BY DEF TypeOK, Busy
<1> QED
  BY <1>1 DEF Call

\* A caller at a step of init_all or of a getter is under way.
LEMMA AtStepBusy ==
    ASSUME NEW c \in Callers,
           proc[c].pc \in {"enter", "call", "wait", "create", "graph", "close"}
    PROVE  Busy(c)
  BY DEF Busy, Idle

\* A call under way is not the idle record.
LEMMA CallBusy == \A x \in Call : x # Idle
  BY DEF Call, Idle

\* The callers that are connecting a resource can be counted.
LEMMA CreatingCount ==
    ASSUME NEW r
    PROVE  /\ IsFiniteSet(Creating(r))
           /\ Cardinality(Creating(r)) \in Nat
           /\ Cardinality(Creating(r)) = 0 <=> Creating(r) = {}
<1>1. Creating(r) \subseteq Callers
  BY DEF Creating
<1>2. IsFiniteSet(Creating(r))
  BY <1>1, CallersFacts, FS_Subset
<1> QED
  BY <1>2, FS_CardinalityType, FS_EmptySet

\* Those who connect at one time are the requests and handlers at the most; and
\* when the server closes, handlers.
LEMMA CreatingBound ==
    ASSUME CallsOK
    PROVE  /\ Cardinality(Creating("rag")) <= Overlap
           /\ phase \in {"closing", "stopped"} =>
                 /\ Creating("rag") \subseteq Handlers
                 /\ Cardinality(Creating("rag")) <= Cardinality(Handlers)
<1>1. IsFiniteSet(Requests \union Handlers)
  BY CallersAssumption
<1>2. ASSUME phase # "starting"
      PROVE  "lifespan" \notin Creating("rag")
  BY <1>2 DEF CallsOK, CallOK, Creating, Callers
<1>3. CASE phase = "starting"
  <2>1. Creating("rag") \subseteq {"lifespan"}
    BY <1>3 DEF CallsOK, CallOK, Creating, Callers
  <2>2. Cardinality(Creating("rag")) <= 1
    <3>1. IsFiniteSet({"lifespan"}) /\ Cardinality({"lifespan"}) = 1
      BY FS_Singleton
    <3> QED
      BY <2>1, <3>1, FS_Subset
  <2> QED
    BY <1>3, <2>2, CallersFacts, CreatingCount
<1>4. CASE phase # "starting"
  <2>1. Creating("rag") \subseteq Requests \union Handlers
    BY <1>2, <1>4 DEF Creating, Callers
  <2>2. Cardinality(Creating("rag")) <= Overlap
    BY <1>1, <2>1, FS_Subset DEF Overlap
  <2>3. phase \in {"closing", "stopped"} => Creating("rag") \subseteq Handlers
    BY <2>1 DEF CallsOK, CallOK, Creating, Callers
  <2>4. Creating("rag") \subseteq Handlers =>
            Cardinality(Creating("rag")) <= Cardinality(Handlers)
    BY CallersFacts, FS_Subset
  <2> QED
    BY <2>2, <2>3, <2>4
<1> QED
  BY <1>3, <1>4

\* A step of one caller adds it to those who connect, removes it, or neither.
LEMMA CreatingStep ==
    ASSUME NEW c \in Callers, \A d \in Callers \ {c} : proc'[d] = proc[d], NEW r
    PROVE  /\ (CreatesAt(c, r)' <=> CreatesAt(c, r)) => Creating(r)' = Creating(r)
           /\ CreatesAt(c, r)' /\ ~CreatesAt(c, r) =>
                 Cardinality(Creating(r)') = Cardinality(Creating(r)) + 1
           /\ ~CreatesAt(c, r)' /\ CreatesAt(c, r) =>
                 Cardinality(Creating(r)') = Cardinality(Creating(r)) - 1
<1>1. \A d \in Callers \ {c} : d \in Creating(r)' <=> d \in Creating(r)
  BY DEF Creating, Busy
<1>2. (c \in Creating(r)' <=> CreatesAt(c, r)') /\ (c \in Creating(r) <=> CreatesAt(c, r))
  BY DEF Creating, CreatesAt
<1>3. Creating(r) \subseteq Callers /\ Creating(r)' \subseteq Callers
  BY DEF Creating
<1>4. CASE CreatesAt(c, r)' <=> CreatesAt(c, r)
  BY <1>1, <1>2, <1>3, <1>4
<1>5. CASE CreatesAt(c, r)' /\ ~CreatesAt(c, r)
  <2>1. Creating(r)' = Creating(r) \union {c} /\ c \notin Creating(r)
    BY <1>1, <1>2, <1>3, <1>5
  <2> QED
    BY <1>5, <2>1, CreatingCount, FS_AddElement
<1>6. CASE ~CreatesAt(c, r)' /\ CreatesAt(c, r)
  <2>1. Creating(r)' = Creating(r) \ {c} /\ c \in Creating(r)
    BY <1>1, <1>2, <1>3, <1>6
  <2> QED
    BY <1>6, <2>1, CreatingCount, FS_RemoveElement
<1> QED
  BY <1>4, <1>5, <1>6

\* A fault counts up and stays in its bound.
LEMMA FaultType ==
    ASSUME TypeOK, Fault \/ NoFault
    PROVE  /\ faults' \in 0..MaxFaults
           /\ faults' >= faults
           /\ faults' \in Nat /\ faults \in Nat
           /\ Fault => faults' = faults + 1
  BY BoundsAssumption DEF TypeOK, Fault, NoFault

\* Moving a caller on within its call.
LEMMA GotoCall ==
    ASSUME TypeOK, NEW c \in Callers, Busy(c),
           NEW pc \in {"enter", "call", "wait", "create", "graph", "close"},
           Goto(c, pc)
    PROVE  /\ proc' \in [Callers -> {Idle} \union Call]
           /\ \A d \in Callers \ {c} : proc'[d] = proc[d]
           /\ proc'[c].job = proc[c].job
           /\ proc'[c].at = proc[c].at
           /\ proc'[c].pc = pc
           /\ Busy(c)'
<1>1. proc[c] \in Call
  BY BusyCall
<1>2. proc'[c] = [proc[c] EXCEPT !.pc = pc]
  BY DEF Goto, TypeOK
<1>3. proc'[c] = [job |-> proc[c].job, at |-> proc[c].at, pc |-> pc]
  BY <1>1, <1>2 DEF Call
<1>4. proc'[c] \in Call
  BY <1>1, <1>3 DEF Call
<1> QED
  BY <1>3, <1>4, CallBusy DEF Goto, TypeOK, Busy

\* What becomes of a caller whose getter returns or raises.
LEMMA ReturnCall ==
    ASSUME IInv, NEW c \in Callers, InGetter(c), NEW ok \in BOOLEAN, Return(c, ok)
    PROVE  /\ proc' \in [Callers -> {Idle} \union Call]
           /\ \A d \in Callers \ {c} : proc'[d] = proc[d]
           /\ \A r : ~CreatesAt(c, r)'
           /\ \/ /\ proc[c].job = "use" /\ c # "lifespan"
                 /\ ~Busy(c)'
                 /\ phase' = phase /\ ready' = ready /\ lifecycle' = lifecycle
              \/ /\ proc[c].job = "init" /\ proc[c].at \in Resources
                 /\ Busy(c)' /\ proc'[c].job = "init"
                 /\ \/ proc[c].at = "rag" /\ proc'[c].at = "graph" /\ proc'[c].pc = "graph"
                    \/ proc[c].at # "rag" /\ proc'[c].at \in Resources /\ proc'[c].pc = "call"
                 /\ ready' = IF ok THEN ready \union {proc[c].at} ELSE ready \ {proc[c].at}
                 /\ phase' = phase /\ lifecycle' = lifecycle
              \/ /\ proc[c].job = "stop" /\ c = "lifespan" /\ ok /\ phase = "closing"
                 /\ proc[c].at = "mq"
                 /\ proc'[c] = Closing("mq") /\ Busy(c)'
                 /\ phase' = phase /\ ready' = ready /\ lifecycle' = lifecycle
              \/ /\ proc[c].job = "stop" /\ c = "lifespan" /\ ~ok /\ phase = "closing"
                 /\ proc[c].at = "mq"
                 /\ ~Busy(c)'
                 /\ phase' = "stopped" /\ ready' = ready /\ lifecycle' = Nobody
<1>1. /\ TypeOK /\ Busy(c) /\ CallOK(c) /\ proc[c].pc \in {"call", "wait", "create"}
      /\ proc[c] \in Call /\ proc[c].at \in Resources
      /\ proc[c].job \in {"init", "use", "stop", "close"}
  BY BusyCall DEF IInv, CallsOK, InGetter, CallOK
<1>2. CASE /\ proc[c].job = "use"
           /\ proc' = [proc EXCEPT ![c] = Idle]
           /\ UNCHANGED <<phase, ready, lifecycle>>
  <2>1. c # "lifespan"
    BY <1>1, <1>2, CallersFacts DEF CallOK
  <2>2. proc'[c] = Idle /\ proc' \in [Callers -> {Idle} \union Call]
    BY <1>1, <1>2 DEF TypeOK
  <2>3. ~Busy(c)' /\ \A r : ~CreatesAt(c, r)'
    BY <2>2 DEF Busy, CreatesAt
  <2>4. \A d \in Callers \ {c} : proc'[d] = proc[d]
    BY <1>1, <1>2 DEF TypeOK
  <2> QED
    BY <1>2, <2>1, <2>2, <2>3, <2>4
<1>3. CASE /\ proc[c].job = "init"
           /\ ready' = IF ok THEN ready \union {proc[c].at} ELSE ready \ {proc[c].at}
           /\ proc' = [proc EXCEPT ![c].at = Following(proc[c].at),
                                   ![c].pc = IF proc[c].at = "rag" THEN "graph" ELSE "call"]
           /\ UNCHANGED <<phase, lifecycle>>
  <2> DEFINE at == Following(proc[c].at)
             pc == IF proc[c].at = "rag" THEN "graph" ELSE "call"
  <2>1. /\ proc[c].at = "rag" => at = "graph"
        /\ proc[c].at # "rag" => at \in Resources
        /\ at \in Resources \union {"graph"}
    BY <1>1 DEF Following, Resources
  <2> HIDE DEF at
  <2>2. proc'[c] = [[proc[c] EXCEPT !.at = at] EXCEPT !.pc = pc]
    BY <1>1, <1>3 DEF TypeOK, at
  <2>3. proc'[c] = [job |-> "init", at |-> at, pc |-> pc]
    BY <1>1, <1>3, <2>2 DEF Call
  <2>4. proc'[c] \in Call
    BY <2>1, <2>3 DEF Call
  <2>5. /\ proc' \in [Callers -> {Idle} \union Call]
        /\ \A d \in Callers \ {c} : proc'[d] = proc[d]
    BY <1>1, <1>3, <2>4 DEF TypeOK
  <2>6. Busy(c)' /\ \A r : ~CreatesAt(c, r)'
    BY <2>3, <2>4, CallBusy DEF Busy, CreatesAt
  <2>7. proc'[c].job = "init" /\ proc'[c].at = at /\ proc'[c].pc = pc
    BY <2>3
  <2>8. \/ proc[c].at = "rag" /\ proc'[c].at = "graph" /\ proc'[c].pc = "graph"
        \/ proc[c].at # "rag" /\ proc'[c].at \in Resources /\ proc'[c].pc = "call"
    BY <2>1, <2>7
  <2> QED
    BY <1>1, <1>3, <2>5, <2>6, <2>7, <2>8
<1>4. CASE /\ proc[c].job = "stop" /\ ok
           /\ proc' = [proc EXCEPT ![c].job = "close", ![c].pc = "close"]
           /\ UNCHANGED <<phase, ready, lifecycle>>
  <2>1. c = "lifespan" /\ phase = "closing" /\ proc[c].at = "mq"
    BY <1>1, <1>4 DEF CallOK, Callers
  <2>2. proc'[c] = [[proc[c] EXCEPT !.job = "close"] EXCEPT !.pc = "close"]
    BY <1>1, <1>4 DEF TypeOK
  <2>3. proc'[c] = Closing("mq")
    BY <1>1, <2>1, <2>2 DEF Call, Closing
  <2>4. proc'[c] \in Call
    BY <2>3 DEF Call, Closing, Resources
  <2>5. /\ proc' \in [Callers -> {Idle} \union Call]
        /\ \A d \in Callers \ {c} : proc'[d] = proc[d]
    BY <1>1, <1>4, <2>4 DEF TypeOK
  <2>6. Busy(c)' /\ \A r : ~CreatesAt(c, r)'
    BY <2>3, <2>4, CallBusy DEF Busy, CreatesAt, Closing
  <2> QED
    BY <1>4, <2>1, <2>3, <2>5, <2>6
<1>5. CASE /\ proc[c].job = "stop" /\ ~ok
           /\ proc' = [proc EXCEPT ![c] = Idle]
           /\ phase' = "stopped"
           /\ lifecycle' = Nobody
           /\ UNCHANGED ready
  <2>1. c = "lifespan" /\ phase = "closing" /\ proc[c].at = "mq"
    BY <1>1, <1>5 DEF CallOK, Callers
  <2>2. proc'[c] = Idle /\ proc' \in [Callers -> {Idle} \union Call]
    BY <1>1, <1>5 DEF TypeOK
  <2>3. ~Busy(c)' /\ \A r : ~CreatesAt(c, r)'
    BY <2>2 DEF Busy, CreatesAt
  <2>4. \A d \in Callers \ {c} : proc'[d] = proc[d]
    BY <1>1, <1>5 DEF TypeOK
  <2> QED
    BY <1>5, <2>1, <2>2, <2>3, <2>4
<1> QED
  BY <1>2, <1>3, <1>4, <1>5 DEF Return

\* A caller's step that changes neither the phase nor the consumers leaves the
\* others where they may be.
LEMMA CallsFrame ==
    ASSUME CallsOK, NEW c \in Callers, \A d \in Callers \ {c} : proc'[d] = proc[d],
           phase' = phase, consuming' = consuming,
           Busy(c)' => CallOK(c)',
           c = "lifespan" => Busy(c)',
           phase \in {"starting", "workers", "serving"} =>
               accidents' \intersect {"late", "raised", "early", "cancelled"} = {},
           phase = "closing" => accidents' \intersect {"raised", "early"} = {},
           accidents \subseteq accidents'
    PROVE  CallsOK'
<1>1. \A d \in Callers : Busy(d)' => CallOK(d)'
  <2> SUFFICES ASSUME NEW d \in Callers, d # c, Busy(d)'
               PROVE  CallOK(d)'
    OBVIOUS
  <2>1. Busy(d) /\ CallOK(d)
    BY DEF Busy, CallsOK
  <2> QED
    BY <2>1 DEF CallOK
<1>2. phase \in {"starting", "closing"} => Busy("lifespan")'
  BY CallersFacts DEF CallsOK, Busy
<1> QED
  BY <1>1, <1>2 DEF CallsOK

\* The same for a getter that returns or raises.
LEMMA ReturnCalls ==
    ASSUME IInv, NEW c \in Callers, InGetter(c), NEW ok \in BOOLEAN, Return(c, ok),
           consuming' = consuming,
           phase \in {"starting", "workers", "serving"} =>
               accidents' \intersect {"late", "raised", "early", "cancelled"} = {},
           accidents \subseteq accidents',
           accidents' \subseteq accidents \union {"setup", "engine", "raised", "late"},
           "raised" \in accidents' \ accidents <=> proc[c].job = "stop" /\ ~ok
    PROVE  CallsOK'
<1>1. CallsOK /\ Busy(c) /\ CallOK(c)
  BY DEF IInv, CallsOK, InGetter
<1>2. \A d \in Callers \ {c} : proc'[d] = proc[d]
  BY ReturnCall
<1>a. \/ proc[c].job = "stop" /\ ~ok /\ "raised" \in accidents'
      \/ phase = "closing" => accidents' \intersect {"raised", "early"} = {}
  <2>1. CASE proc[c].job = "stop" /\ ~ok
    BY <2>1
  <2>2. CASE ~(proc[c].job = "stop" /\ ~ok)
    BY <1>1, <2>2 DEF CallsOK
  <2> QED
    BY <2>1, <2>2
<1>3. CASE proc[c].job = "use" /\ c # "lifespan" /\ ~Busy(c)' /\ phase' = phase
  BY <1>1, <1>2, <1>3, <1>a, CallsFrame
<1>4. CASE /\ proc[c].job = "init" /\ phase' = phase /\ proc'[c].job = "init" /\ Busy(c)'
           /\ \/ proc'[c].at = "graph" /\ proc'[c].pc = "graph"
              \/ proc'[c].at \in Resources /\ proc'[c].pc = "call"
  <2>1. "graph" \notin Resources
    BY DEF Resources
  <2>2. CallOK(c)'
    BY <1>1, <1>4, <2>1 DEF CallOK
  <2> QED
    BY <1>1, <1>2, <1>4, <1>a, <2>2, CallsFrame
<1>5. CASE /\ ok /\ c = "lifespan" /\ phase = "closing" /\ phase' = phase
           /\ proc'[c] = Closing("mq") /\ Busy(c)'
  <2>1. CallOK(c)'
    BY <1>5, CallersFacts DEF CallOK, Closing, Resources
  <2> QED
    BY <1>1, <1>2, <1>5, <1>a, <2>1, CallsFrame
<1>6. CASE /\ proc[c].job = "stop" /\ ~ok /\ c = "lifespan" /\ phase = "closing"
           /\ phase' = "stopped" /\ ~Busy(c)'
  <2>1. \A d \in Callers : Busy(d)' => d \in Handlers /\ Busy(d) /\ CallOK(d)
    BY <1>1, <1>2, <1>6 DEF Busy, CallsOK, CallOK, Callers
  <2>2. \A d \in Handlers : CallOK(d) /\ Busy(d)' => CallOK(d)'
    BY <1>2, <1>6, <2>1, CallersFacts, CallersAssumption DEF CallOK
  <2> QED
    BY <1>1, <1>6, <1>a, <2>1, <2>2 DEF CallsOK
<1> QED
  BY <1>3, <1>4, <1>5, <1>6, ReturnCall

\* Nobody else's step moves close_all on.
LEMMA ClosedFrame ==
    ASSUME proc'["lifespan"] = proc["lifespan"], phase' = phase
    PROVE  /\ Closed' = Closed
           /\ \A r : ClosingAt(r)' <=> ClosingAt(r)
  BY DEF Closed, ClosingAt, Closing

\* A step of a caller that neither connects nor has connected, and leaves the
\* clients alone, keeps the invariant.
LEMMA QuietInv ==
    ASSUME IInv, TypeOK', CallsOK', NEW c \in Callers,
           \A d \in Callers \ {c} : proc'[d] = proc[d],
           \A r : ~CreatesAt(c, r) /\ ~CreatesAt(c, r)',
           UNCHANGED <<globals, consuming, accidents>>,
           faults' \in Nat, faults \in Nat, faults' >= faults,
           "rag" \in ready' => "rag" \in ready \/ value["rag"] = "ready",
           phase' = phase \/ (phase = "starting" /\ phase' = "workers"),
           ClosingAt("rag")' => ClosingAt("rag"),
           ClosingAt("mq")' => value["mq"] # "none",
           "engine" \notin accidents => RagSettled',
           Closed' = Closed
    PROVE  IInv'
<1>1. UNCHANGED <<value, open, lock, consuming, accidents>>
  BY DEF globals
<1>2. \A r : Creating(r)' = Creating(r)
  BY CreatingStep
<1>3. LocksOK'
  <2>1. \A r \in Locked, d \in Callers : CreatesAt(d, r)' <=> CreatesAt(d, r)
    BY DEF CreatesAt, Busy
  <2> QED
    BY <1>1, <2>1 DEF IInv, LocksOK
<1>4. ClientsOK'
  BY <1>1 DEF IInv, ClientsOK
<1>5. Cardinality(Creating("rag")) \in Nat /\ open["rag"] \in Nat
  BY CreatingCount DEF IInv, TypeOK, Resources
<1>6. RagOK'
  <2>1. Overlap' = Overlap /\ Overlap \in Nat /\ Cardinality(Handlers) \in Nat
    BY CallersFacts DEF Overlap
  <2>2. CASE phase' = phase
    BY <1>1, <1>2, <1>5, <2>1, <2>2 DEF IInv, RagOK
  <2>3. CASE phase = "starting" /\ phase' = "workers"
    BY <1>1, <1>2, <1>5, <2>1, <2>3 DEF IInv, RagOK
  <2> QED
    BY <2>2, <2>3
<1>7. RagAlone'
  BY <1>1, <1>2 DEF IInv, RagAlone
<1>8. ClosedOK'
  BY <1>1 DEF IInv, ClosedOK
<1> QED
  BY <1>3, <1>4, <1>6, <1>7, <1>8 DEF IInv

\* What a getter's return means for close_all, whose stop_workers it may be.
LEMMA ReturnClosing ==
    ASSUME IInv, NEW c \in Callers, InGetter(c), NEW ok \in BOOLEAN, Return(c, ok)
    PROVE  /\ phase' = phase => Closed' = Closed
           /\ \A r \in Resources \ {"mq"} : ClosingAt(r)' => ClosingAt(r)
           /\ ClosingAt("mq")' => \/ ClosingAt("mq")
                                  \/ ok /\ proc[c].job = "stop" /\ proc[c].at = "mq"
<1>1. CallsOK /\ Busy(c) /\ CallOK(c) /\ proc[c].pc \in {"call", "wait", "create"}
  BY DEF IInv, CallsOK, InGetter
<1>2. \A d \in Callers \ {c} : proc'[d] = proc[d]
  BY ReturnCall
<1>3. CASE c # "lifespan"
  <2>1. proc'["lifespan"] = proc["lifespan"]
    BY <1>2, <1>3, CallersFacts
  <2>2. \A r : ClosingAt(r)' <=> ClosingAt(r)
    BY <2>1 DEF ClosingAt, Closing
  <2> QED
    BY <2>1, <2>2, ClosedFrame
<1>4. CASE c = "lifespan"
  <2>1. \A r : ~ClosingAt(r)
    BY <1>1, <1>4 DEF ClosingAt, Closing
  <2>2. CASE proc[c].job = "init"
    <3>1. phase = "starting" /\ phase' = phase
      BY <1>1, <1>4, <2>2, ReturnCall, CallersFacts DEF CallOK
    <3>2. proc'[c].job = "init"
      BY <2>2, ReturnCall
    <3>3. \A r : ~ClosingAt(r)'
      BY <1>4, <3>2 DEF ClosingAt, Closing
    <3> QED
      BY <3>1, <3>3 DEF Closed
  <2>3. CASE proc[c].job = "stop" /\ ok
    <3>1. phase = "closing" /\ phase' = phase /\ proc[c].at = "mq" /\ proc'[c] = Closing("mq")
      BY <2>3, ReturnCall
    <3>2. \A r \in Resources \ {"mq"} : ~ClosingAt(r)'
      BY <1>4, <3>1 DEF ClosingAt, Closing
    <3>3. Closed' = {"rag", "longterm"} /\ Closed = {"rag", "longterm"}
      BY <2>1, <3>1, <3>2 DEF Closed, Resources
    <3> QED
      BY <2>3, <3>1, <3>2, <3>3
  <2>4. CASE proc[c].job = "stop" /\ ~ok
    <3>1. phase = "closing" /\ phase' = "stopped" /\ ~Busy(c)'
      BY <2>4, ReturnCall
    <3>2. \A r : ~ClosingAt(r)'
      BY <1>4, <3>1 DEF ClosingAt, Closing, Busy, Idle
    <3> QED
      BY <3>1, <3>2
  <2> QED
    BY <1>1, <1>4, <2>2, <2>3, <2>4, ReturnCall
<1> QED
  BY <1>3, <1>4

\* RagSettled survives a return after which the engine is there if init_all
\* notes it.
LEMMA ReturnSettled ==
    ASSUME IInv, NEW c \in Callers, InGetter(c), NEW ok \in BOOLEAN, Return(c, ok),
           RagSettled, phase' = phase, value'["rag"] = value["rag"],
           proc[c].job = "init" /\ proc[c].at = "rag" => ok /\ value["rag"] = "ready"
    PROVE  RagSettled'
<1>1. CallsOK /\ Busy(c) /\ CallOK(c) /\ proc[c].pc \in {"call", "wait", "create"}
  BY DEF IInv, CallsOK, InGetter
<1>2. "rag" \in ready => "rag" \in ready'
  BY ReturnCall
<1>3. ClosingAt("rag")' => ClosingAt("rag")
  BY ReturnClosing DEF Resources
<1>4. ASSUME phase = "starting", proc'["lifespan"].at = "graph"
      PROVE  "rag" \in ready' /\ value["rag"] = "ready"
  <2>1. CASE c = "lifespan"
    <3>1. proc[c].job = "init"
      BY <1>1, <1>4, <2>1, CallersFacts DEF CallOK
    <3>2. proc[c].at = "rag"
      BY <1>4, <2>1, <3>1, ReturnCall DEF Resources
    <3> QED
      BY <3>1, <3>2, ReturnCall
  <2>2. CASE c # "lifespan"
    <3>1. proc'["lifespan"] = proc["lifespan"]
      BY <2>2, ReturnCall, CallersFacts
    <3> QED
      BY <1>2, <1>4, <3>1 DEF RagSettled
  <2> QED
    BY <2>1, <2>2
<1>5. phase \in {"workers", "serving"} \/ ClosingAt("rag") => "rag" \in ready' /\ value["rag"] = "ready"
  BY <1>2 DEF RagSettled
<1> QED
  BY <1>3, <1>4, <1>5 DEF RagSettled

\* The types after a return.
LEMMA ReturnType ==
    ASSUME IInv, NEW c \in Callers, InGetter(c), NEW ok \in BOOLEAN, Return(c, ok)
    PROVE  /\ phase' \in {"starting", "workers", "serving", "closing", "stopped"}
           /\ ready' \subseteq Resources
           /\ lifecycle' \in Callers \union {Nobody}
           /\ proc' \in [Callers -> {Idle} \union Call]
  BY ReturnCall DEF IInv, TypeOK

\* A getter that finds its client and returns it.
LEMMA ReturnQuiet ==
    ASSUME IInv, NEW c \in Callers, InGetter(c), proc[c].pc # "create",
           value[proc[c].at] # "none", Return(c, TRUE),
           UNCHANGED <<initialized, globals, consuming, uses, faults, accidents>>
    PROVE  IInv'
<1>1. TypeOK'
  BY ReturnType DEF IInv, TypeOK, globals
<1>2. CallsOK'
  <2>1. phase \in {"starting", "workers", "serving"} =>
               accidents \intersect {"late", "raised", "early", "cancelled"} = {}
    BY DEF IInv, CallsOK
  <2> QED
    BY <2>1, ReturnCalls
<1>3. \A r : ~CreatesAt(c, r) /\ ~CreatesAt(c, r)'
  BY ReturnCall DEF CreatesAt
<1>4. faults \in Nat
  BY BoundsAssumption DEF IInv, TypeOK
<1>5. value["rag"] \in {"none", "ready"}
  BY DEF IInv, RagOK
<1>6. "rag" \in ready' => "rag" \in ready \/ value["rag"] = "ready"
  BY <1>5, ReturnCall
<1>7. phase' = phase
  BY ReturnCall
<1>8. ClosingAt("mq")' => value["mq"] # "none"
  BY ReturnClosing DEF IInv, ClientsOK
<1>9. "engine" \notin accidents => RagSettled'
  <2>1. value' = value
    BY DEF globals
  <2> QED
    BY <1>5, <1>7, <2>1, ReturnSettled DEF IInv, RagAlone
<1>10. Closed' = Closed /\ (ClosingAt("rag")' => ClosingAt("rag"))
  BY <1>7, ReturnClosing DEF Resources
<1>11. \A d \in Callers \ {c} : proc'[d] = proc[d]
  BY ReturnCall
<1> QED
  BY <1>1, <1>2, <1>3, <1>4, <1>6, <1>7, <1>8, <1>9, <1>10, <1>11, QuietInv

\* Moving on within a call means nothing to close_all.
LEMMA GotoClosing ==
    ASSUME TypeOK, NEW c \in Callers, Busy(c), proc[c].pc # "close",
           NEW pc \in {"enter", "call", "wait", "create", "graph"}, Goto(c, pc),
           phase' = phase
    PROVE  /\ Closed' = Closed
           /\ \A r : ClosingAt(r)' <=> ClosingAt(r)
           /\ ready' = ready /\ value'["rag"] = value["rag"] /\ RagSettled => RagSettled'
<1>1. /\ \A d \in Callers \ {c} : proc'[d] = proc[d]
      /\ proc'[c].pc = pc /\ proc'[c].at = proc[c].at
  BY GotoCall
<1>2. \A r : ClosingAt(r)' <=> ClosingAt(r)
  BY <1>1, CallersFacts DEF ClosingAt, Closing
<1>3. proc'["lifespan"].at = proc["lifespan"].at
  BY <1>1, CallersFacts
<1> QED
  BY <1>2, <1>3 DEF Closed, RagSettled

\* The locks are as they were when no one begins or ceases to connect to
\* resources that have one.
LEMMA LocksFrame ==
    ASSUME LocksOK, NEW c \in Callers, \A d \in Callers \ {c} : proc'[d] = proc[d],
           \A r \in Locked : CreatesAt(c, r)' <=> CreatesAt(c, r),
           lock' = lock, \A r \in Locked : value'[r] = value[r] \/ lock[r] = Nobody
    PROVE  LocksOK'
<1>1. \A r \in Locked, d \in Callers : CreatesAt(d, r)' <=> CreatesAt(d, r)
  BY DEF CreatesAt, Busy
<1> QED
  BY <1>1 DEF LocksOK

\* A step that does not touch the engines of RetrievalStore.
LEMMA RagFrame ==
    ASSUME IInv, value'["rag"] = value["rag"], open'["rag"] = open["rag"],
           Creating("rag")' = Creating("rag"),
           faults' \in Nat, faults \in Nat, faults' >= faults,
           accidents \subseteq accidents', "early" \in accidents' => "early" \in accidents,
           \/ phase' = phase
           \/ phase = "starting" /\ phase' = "workers"
           \/ phase = "workers" /\ phase' = "serving"
           \/ phase = "closing" /\ phase' = "stopped",
           consuming' => consuming \/ phase = "workers",
           "rag" \in ready' => "rag" \in ready \/ value["rag"] = "ready",
           ClosingAt("rag")' => ClosingAt("rag"),
           "engine" \notin accidents' => RagSettled'
    PROVE  RagOK' /\ RagAlone'
<1> DEFINE k == Cardinality(Creating("rag"))
           H == Cardinality(Handlers)
<1>1. /\ k \in Nat /\ k' = k /\ open["rag"] \in Nat /\ H \in Nat /\ Overlap \in Nat
      /\ Overlap' = Overlap /\ H' = H
  BY CreatingCount, CallersFacts DEF IInv, TypeOK, Resources, Overlap
<1>2. RagOK
  BY DEF IInv
<1>3. RagOK'
  <2>1. /\ value'["rag"] \in {"none", "ready"}
        /\ open'["rag"] >= k' + IF value'["rag"] = "none" THEN 0 ELSE 1
    BY <1>1, <1>2 DEF RagOK
  <2>2. "rag" \in ready' /\ phase' \in {"starting", "workers", "serving"} =>
           value'["rag"] = "ready"
    BY <1>2 DEF RagOK
  <2>3. phase' \notin {"closing", "stopped"} \/ "early" \in accidents' =>
              open'["rag"] <= faults' + IF value'["rag"] = "none" THEN k' ELSE Overlap
    BY <1>1, <1>2 DEF RagOK
  <2>4. ASSUME phase' \in {"closing", "stopped"}, "early" \notin accidents'
        PROVE  IF accidents' \intersect {"late", "raised"} = {}
               THEN open'["rag"] <= faults' + Overlap
               ELSE /\ open'["rag"] <= faults' + Overlap + H
                    /\ consuming' /\ value'["rag"] = "none" => open'["rag"] <= faults' + Overlap + k'
    <3>1. phase \in {"closing", "stopped"} /\ "early" \notin accidents
      BY <2>4
    <3>2. IF accidents \intersect {"late", "raised"} = {}
          THEN open["rag"] <= faults + Overlap
          ELSE /\ open["rag"] <= faults + Overlap + H
               /\ consuming /\ value["rag"] = "none" => open["rag"] <= faults + Overlap + k
      BY <1>2, <3>1 DEF RagOK
    <3>3. consuming' => consuming
      BY <3>1
    <3>4. CASE accidents \intersect {"late", "raised"} = {}
      BY <1>1, <3>2, <3>4
    <3>5. CASE accidents \intersect {"late", "raised"} # {}
      BY <1>1, <3>2, <3>3, <3>5
    <3> QED
      BY <3>4, <3>5
  <2>5. ClosingAt("rag")' => value'["rag"] = "ready" /\ open'["rag"] <= faults' + Overlap
    BY <1>1, <1>2 DEF RagOK
  <2> QED
    BY <1>1, <2>1, <2>2, <2>3, <2>4, <2>5 DEF RagOK
<1>4. RagAlone'
  BY <1>1 DEF IInv, RagAlone
<1> QED
  BY <1>3, <1>4

\* ensure_store without an engine: the caller makes one.
LEMMA EngineInv ==
    ASSUME IInv, NEW c \in Callers, Busy(c), proc[c].pc = "call", proc[c].at = "rag",
           value["rag"] = "none", Goto(c, "create"),
           open' = [open EXCEPT !["rag"] = @ + 1],
           Note((IF Creating("rag") = {} THEN {} ELSE {"engine"})
                \union (IF phase = "closing" THEN {"late"} ELSE {})),
           UNCHANGED <<phase, flags, value, lock, consuming, uses, faults>>
    PROVE  IInv'
<1> DEFINE k == Cardinality(Creating("rag"))
           H == Cardinality(Handlers)
<1>1. TypeOK /\ CallsOK /\ LocksOK /\ ClientsOK /\ RagOK /\ RagAlone /\ ClosedOK
  BY DEF IInv
<1>2. UNCHANGED <<phase, initialized, ready, lifecycle, value, lock, consuming, uses, faults>>
  BY DEF flags
<1>3. /\ accidents \subseteq accidents'
      /\ accidents' \subseteq accidents \union {"engine", "late"}
      /\ "late" \in accidents' \ accidents => phase = "closing"
      /\ phase = "closing" => "late" \in accidents'
      /\ "engine" \notin accidents' => Creating("rag") = {}
  BY DEF Note
<1>4. /\ proc' \in [Callers -> {Idle} \union Call]
      /\ \A d \in Callers \ {c} : proc'[d] = proc[d]
      /\ proc'[c].job = proc[c].job /\ proc'[c].at = "rag" /\ proc'[c].pc = "create" /\ Busy(c)'
  BY <1>1, GotoCall
<1>5. /\ open \in [Resources -> Nat] /\ open'["rag"] = open["rag"] + 1 /\ open' \in [Resources -> Nat]
      /\ \A r \in Resources \ {"rag"} : open'[r] = open[r]
  BY <1>1 DEF TypeOK, Resources
<1>6. TypeOK'
  BY <1>1, <1>2, <1>3, <1>4, <1>5 DEF TypeOK, Accidents
<1>7. CallOK(c)
  BY <1>1 DEF CallsOK
<1>8. CallsOK'
  <2>1. CallOK(c)'
    BY <1>2, <1>4, <1>7 DEF CallOK, Resources, Locked
  <2>2. /\ phase \in {"starting", "workers", "serving"} =>
               accidents' \intersect {"late", "raised", "early", "cancelled"} = {}
        /\ phase = "closing" => accidents' \intersect {"raised", "early"} = {}
    BY <1>1, <1>3 DEF CallsOK
  <2> QED
    BY <1>1, <1>2, <1>3, <1>4, <2>1, <2>2, CallsFrame
<1>9. /\ Closed' = Closed
      /\ \A r : ClosingAt(r)' <=> ClosingAt(r)
      /\ RagSettled => RagSettled'
  BY <1>1, <1>2, GotoClosing
<1>10. LocksOK'
  <2>1. \A r \in Locked : CreatesAt(c, r)' <=> CreatesAt(c, r)
    BY <1>4 DEF CreatesAt, Locked
  <2> QED
    BY <1>1, <1>2, <1>4, <2>1, LocksFrame
<1>11. ClientsOK'
  BY <1>1, <1>2, <1>3, <1>5, <1>9 DEF ClientsOK, Locked
<1>12. /\ k' = k + 1 /\ k \in Nat /\ H \in Nat /\ Overlap \in Nat /\ faults \in Nat
       /\ open["rag"] \in Nat
       /\ H' = H /\ Overlap' = Overlap
  <2>1. CreatesAt(c, "rag")' /\ ~CreatesAt(c, "rag")
    BY <1>4 DEF CreatesAt
  <2> QED
    BY <1>1, <1>4, <1>5, <2>1, CreatingStep, CreatingCount, CallersFacts, BoundsAssumption
       DEF TypeOK, Overlap, Resources
<1>13. phase \in {"closing", "stopped"} => c \in Handlers /\ consuming /\ H > 0 /\ k' <= H
  <2>1. phase \in {"closing", "stopped"} => c \in Handlers /\ consuming
    BY <1>1, <1>7 DEF CallOK, Callers
  <2>2. Creating("rag")' \subseteq Creating("rag") \union {c}
    BY <1>4 DEF Creating, Busy
  <2>3. ASSUME phase \in {"closing", "stopped"}
        PROVE  k' <= H
    <3>1. Creating("rag")' \subseteq Handlers
      BY <1>1, <2>1, <2>2, <2>3, CreatingBound
    <3> QED
      BY <3>1, CallersFacts, FS_Subset
  <2> QED
    BY <1>12, <2>1, <2>3
<1>14. phase = "stopped" => accidents \intersect {"early", "raised"} # {}
  BY <1>1, <1>13 DEF CallsOK
<1>15. RagOK'
  <2>1. open'["rag"] >= k' + 0
    BY <1>1, <1>5, <1>12 DEF RagOK
  <2>2. "early" \in accidents' <=> "early" \in accidents
    BY <1>3
  <2>3. phase \notin {"closing", "stopped"} \/ "early" \in accidents =>
            open'["rag"] <= faults + k'
    BY <1>1, <1>5, <1>12 DEF RagOK
  <2>4. ASSUME phase \in {"closing", "stopped"}, "early" \notin accidents
        PROVE  /\ accidents' \intersect {"late", "raised"} # {}
               /\ open'["rag"] <= faults + Overlap + H
               /\ open'["rag"] <= faults + Overlap + k'
    <3>1. accidents' \intersect {"late", "raised"} # {}
      BY <1>3, <1>14, <2>4
    <3>2. open["rag"] <= faults + Overlap + k
      BY <1>1, <1>12, <1>13, <2>4 DEF RagOK
    <3> QED
      BY <1>5, <1>12, <1>13, <2>4, <3>1, <3>2
  <2>5. ~ClosingAt("rag")
    BY <1>1 DEF RagOK
  <2> QED
    BY <1>1, <1>2, <1>9, <1>12, <2>1, <2>2, <2>3, <2>4, <2>5 DEF RagOK
<1>16. RagAlone'
  <2> SUFFICES ASSUME "engine" \notin accidents'
               PROVE  open'["rag"] = k' /\ k' <= 1 /\ RagSettled'
    BY <1>2 DEF RagAlone
  <2>1. k = 0 /\ "engine" \notin accidents
    BY <1>3, CreatingCount
  <2>2. open["rag"] = 0
    BY <1>1, <1>13, <2>1 DEF RagAlone
  <2> QED
    BY <1>1, <1>5, <1>9, <1>12, <2>1, <2>2 DEF RagAlone
<1>17. ClosedOK'
  <2>1. CASE phase \in {"closing", "stopped"}
    <3>1. ~(accidents' \subseteq {"setup"})
      BY <1>3, <1>14, <2>1
    <3> QED
      BY <1>1, <1>2, <1>9, <3>1 DEF ClosedOK
  <2>2. CASE phase \notin {"closing", "stopped"}
    <3>1. Closed' = {}
      BY <1>9, <2>2 DEF Closed
    <3> QED
      BY <1>2, <2>2, <3>1 DEF ClosedOK
  <2> QED
    BY <2>1, <2>2
<1> QED
  BY <1>6, <1>8, <1>10, <1>11, <1>15, <1>16, <1>17 DEF IInv

\* The first look at the module global of a getter keeps the invariant.
LEMMA CheckInv == ASSUME IInv, NEW c \in Callers, Check(c) PROVE IInv'
<1>1. Busy(c) /\ InGetter(c) /\ proc[c].pc = "call" /\ TypeOK /\ CallsOK /\ CallOK(c)
  BY AtStepBusy DEF Check, InGetter, IInv, CallsOK
<1>2. CASE /\ value[proc[c].at] # "none"
           /\ Return(c, TRUE)
           /\ UNCHANGED <<open, accidents>>
  BY <1>1, <1>2, ReturnQuiet DEF Check, globals
<1>3. CASE /\ proc[c].at \in Locked
           /\ Goto(c, "wait")
           /\ UNCHANGED <<phase, ready, lifecycle, open, accidents>>
  <2>1. /\ UNCHANGED <<phase, initialized, ready, lifecycle, value, open, lock>>
        /\ UNCHANGED <<consuming, uses, faults, accidents>>
    BY <1>3 DEF Check
  <2>2. /\ proc' \in [Callers -> {Idle} \union Call]
        /\ \A d \in Callers \ {c} : proc'[d] = proc[d]
        /\ proc'[c].job = proc[c].job /\ proc'[c].at = proc[c].at
        /\ proc'[c].pc = "wait" /\ Busy(c)'
    BY <1>1, <1>3, GotoCall
  <2>3. TypeOK'
    BY <1>1, <2>1, <2>2 DEF TypeOK
  <2>4. CallsOK'
    <3>1. CallOK(c)'
      BY <1>1, <1>3, <2>1, <2>2 DEF CallOK, Locked
    <3> QED
      BY <1>1, <2>1, <2>2, <3>1, CallsFrame DEF CallsOK
  <2>5. \A r : ~CreatesAt(c, r) /\ ~CreatesAt(c, r)'
    BY <1>1, <2>2 DEF CreatesAt
  <2>6. /\ Closed' = Closed
        /\ \A r : ClosingAt(r)' <=> ClosingAt(r)
        /\ RagSettled => RagSettled'
    BY <1>1, <1>3, <2>1, GotoClosing
  <2>7. faults \in Nat /\ faults' >= faults
    BY <1>1, <2>1, BoundsAssumption DEF TypeOK
  <2>8. (ClosingAt("mq")' => value["mq"] # "none") /\ ("engine" \notin accidents => RagSettled')
    BY <2>6 DEF IInv, ClientsOK, RagAlone
  <2> QED
    BY <2>1, <2>2, <2>3, <2>4, <2>5, <2>6, <2>7, <2>8, QuietInv DEF globals
<1>4. CASE /\ value[proc[c].at] = "none" /\ proc[c].at = "rag"
           /\ Goto(c, "create")
           /\ open' = [open EXCEPT ![proc[c].at] = @ + 1]
           /\ Note((IF Creating(proc[c].at) = {} THEN {} ELSE {"engine"})
                   \union (IF phase = "closing" THEN {"late"} ELSE {}))
           /\ UNCHANGED <<phase, ready, lifecycle>>
  BY <1>1, <1>4, EngineInv DEF Check, flags
<1> QED
  BY <1>2, <1>3, <1>4 DEF Check

\* The lock is free and there is no client: the caller takes the lock.
LEMMA TakeLockInv ==
    ASSUME IInv, NEW c \in Callers, Busy(c), proc[c].pc = "wait",
           NEW r, r = proc[c].at, lock[r] = Nobody, value[r] = "none",
           lock' = [lock EXCEPT ![r] = c],
           Goto(c, "create"),
           IF r = "longterm"
              THEN /\ value' = [value EXCEPT ![r] = "bare"]
                   /\ open' = [open EXCEPT ![r] = @ + 1]
                   /\ Note(IF phase = "closing" THEN {"late"} ELSE {})
              ELSE UNCHANGED <<value, open, accidents>>,
           UNCHANGED <<phase, flags, consuming, uses, faults>>
    PROVE  IInv'
<1>1. TypeOK /\ CallsOK /\ LocksOK /\ ClientsOK /\ RagOK /\ RagAlone /\ ClosedOK
  BY DEF IInv
<1>2. UNCHANGED <<phase, initialized, ready, lifecycle, consuming, uses, faults>>
  BY DEF flags
<1>3. CallOK(c) /\ r \in Locked /\ r \in Resources /\ r # "rag"
  BY <1>1 DEF CallsOK, CallOK, Locked
<1>4. /\ accidents \subseteq accidents' /\ accidents' \subseteq accidents \union {"late"}
      /\ "late" \in accidents' \ accidents => phase = "closing"
      /\ r = "longterm" /\ phase = "closing" => "late" \in accidents'
  BY DEF Note
<1>5. /\ proc' \in [Callers -> {Idle} \union Call]
      /\ \A d \in Callers \ {c} : proc'[d] = proc[d]
      /\ proc'[c].job = proc[c].job /\ proc'[c].at = r /\ proc'[c].pc = "create" /\ Busy(c)'
  BY <1>1, GotoCall
<1>6. /\ value' \in [Resources -> {"none", "bare", "ready"}]
      /\ open' \in [Resources -> Nat]
      /\ lock' \in [Locked -> Callers \union {Nobody}]
      /\ \A s \in Resources \ {"longterm"} : value'[s] = value[s] /\ open'[s] = open[s]
      /\ r # "longterm" => value'["longterm"] = value["longterm"] /\ open'["longterm"] = open["longterm"]
      /\ r = "longterm" => value'["longterm"] = "bare" /\ open'["longterm"] = open["longterm"] + 1
      /\ lock'[r] = c /\ \A s \in Locked \ {r} : lock'[s] = lock[s]
  <2>1. CASE r = "longterm"
    BY <1>1, <1>3, <2>1 DEF TypeOK, Resources
  <2>2. CASE r # "longterm"
    BY <1>1, <1>3, <2>2 DEF TypeOK, Resources
  <2> QED
    BY <2>1, <2>2
<1>7. TypeOK'
  BY <1>1, <1>2, <1>4, <1>5, <1>6 DEF TypeOK, Accidents
<1>8. CallsOK'
  <2>1. CallOK(c)'
    BY <1>2, <1>3, <1>5 DEF CallOK
  <2>2. /\ phase \in {"starting", "workers", "serving"} =>
               accidents' \intersect {"late", "raised", "early", "cancelled"} = {}
        /\ phase = "closing" => accidents' \intersect {"raised", "early"} = {}
    BY <1>1, <1>4 DEF CallsOK
  <2> QED
    BY <1>1, <1>2, <1>4, <1>5, <2>1, <2>2, CallsFrame
<1>9. /\ Closed' = Closed
      /\ \A s : ClosingAt(s)' <=> ClosingAt(s)
      /\ RagSettled => RagSettled'
  BY <1>1, <1>2, <1>6, GotoClosing DEF Resources
<1>10. LocksOK'
  <2> SUFFICES ASSUME NEW s \in Locked
               PROVE  /\ \A d \in Callers : lock'[s] = d <=> CreatesAt(d, s)'
                      /\ lock'[s] # Nobody =>
                            value'[s] = IF s = "longterm" THEN "bare" ELSE "none"
    BY DEF LocksOK
  <2>1. \A d \in Callers \ {c} : CreatesAt(d, s)' <=> CreatesAt(d, s)
    BY <1>5 DEF CreatesAt, Busy
  <2>2. (CreatesAt(c, s)' <=> s = r) /\ ~CreatesAt(c, s)
    BY <1>5 DEF CreatesAt
  <2>3. CASE s = r
    <3>1. \A d \in Callers : ~CreatesAt(d, s)
      BY <1>1, <2>3, CallersFacts DEF LocksOK
    <3>2. value'[s] = IF s = "longterm" THEN "bare" ELSE "none"
      BY <1>3, <1>6, <2>3
    <3> QED
      BY <1>6, <2>1, <2>2, <2>3, <3>1, <3>2
  <2>4. CASE s # r
    <3>1. lock'[s] = lock[s] /\ value'[s] = value[s]
      BY <1>6, <2>4 DEF Locked
    <3> QED
      BY <1>1, <2>1, <2>2, <2>4, <3>1 DEF LocksOK
  <2> QED
    BY <2>3, <2>4
<1>11. ClientsOK'
  <2>1. ASSUME NEW s \in Locked
        PROVE  \/ open'[s] = IF value'[s] = "none" THEN 0 ELSE 1
               \/ /\ s = "redis" /\ "cancelled" \in accidents'
                  /\ open'[s] = 1 /\ value'[s] = "none"
    <3>1. CASE s = "longterm" /\ r = "longterm"
      BY <1>1, <1>6, <3>1 DEF ClientsOK
    <3>2. CASE s # "longterm" \/ r # "longterm"
      <4>1. open'[s] = open[s] /\ value'[s] = value[s]
        BY <1>6, <3>2 DEF Locked
      <4> QED
        BY <1>1, <1>4, <4>1 DEF ClientsOK
    <3> QED
      BY <3>1, <3>2
  <2>2. "cancelled" \in accidents' => ~consuming' /\ phase' \in {"closing", "stopped"}
    BY <1>1, <1>2, <1>4 DEF ClientsOK
  <2>3. ClosingAt("mq")' => value'["mq"] # "none"
    BY <1>1, <1>6, <1>9 DEF ClientsOK, Resources
  <2> QED
    BY <2>1, <2>2, <2>3 DEF ClientsOK
<1>12. RagOK' /\ RagAlone'
  <2>1. Creating("rag")' = Creating("rag")
    <3>1. ~CreatesAt(c, "rag")' /\ ~CreatesAt(c, "rag")
      BY <1>3, <1>5 DEF CreatesAt
    <3> QED
      BY <1>5, <3>1, CreatingStep
  <2>2. value'["rag"] = value["rag"] /\ open'["rag"] = open["rag"]
    BY <1>6 DEF Resources
  <2>3. "engine" \notin accidents' => RagSettled'
    BY <1>1, <1>4, <1>9 DEF RagAlone
  <2>4. faults \in Nat
    BY <1>1, BoundsAssumption DEF TypeOK
  <2> QED
    BY <1>2, <1>4, <1>9, <2>1, <2>2, <2>3, <2>4, RagFrame
<1>13. ClosedOK'
  <2>1. CASE r # "longterm"
    <3>1. \A s \in Resources : open'[s] = open[s]
      BY <1>6, <2>1
    <3>2. Closed \subseteq Resources
      BY DEF Closed, Resources
    <3> QED
      BY <1>1, <1>2, <1>4, <1>9, <3>1, <3>2 DEF ClosedOK
  <2>2. CASE r = "longterm" /\ phase \in {"closing", "stopped"}
    <3>1. c \in Handlers /\ consuming
      BY <1>1, <1>3, <2>2 DEF CallOK, Callers
    <3>2. phase = "stopped" => accidents \intersect {"early", "raised"} # {}
      BY <1>1, <3>1 DEF CallsOK
    <3>3. ~(accidents' \subseteq {"setup"})
      BY <1>4, <2>2, <3>2
    <3> QED
      BY <1>1, <1>2, <1>9, <3>3 DEF ClosedOK
  <2>3. CASE phase \notin {"closing", "stopped"}
    <3>1. Closed' = {}
      BY <1>9, <2>3 DEF Closed
    <3> QED
      BY <1>2, <2>3, <3>1 DEF ClosedOK
  <2> QED
    BY <2>1, <2>2, <2>3
<1> QED
  BY <1>7, <1>8, <1>10, <1>11, <1>12, <1>13 DEF IInv

\* The lock and the second look (for the vector store, setting _store) keep it.
LEMMA AcquireInv == ASSUME IInv, NEW c \in Callers, Acquire(c) PROVE IInv'
<1>1. Busy(c) /\ InGetter(c) /\ proc[c].pc = "wait"
  BY AtStepBusy DEF Acquire, InGetter
<1>2. CASE /\ value[proc[c].at] # "none"
           /\ Return(c, TRUE)
           /\ UNCHANGED <<globals, accidents>>
  BY <1>1, <1>2, ReturnQuiet DEF Acquire
<1>3. CASE /\ value[proc[c].at] = "none"
           /\ lock' = [lock EXCEPT ![proc[c].at] = c]
           /\ Goto(c, "create")
           /\ IF proc[c].at = "longterm"
                 THEN /\ value' = [value EXCEPT ![proc[c].at] = "bare"]
                      /\ open' = [open EXCEPT ![proc[c].at] = @ + 1]
                      /\ Note(IF phase = "closing" THEN {"late"} ELSE {})
                 ELSE UNCHANGED <<value, open, accidents>>
           /\ UNCHANGED <<phase, ready, lifecycle>>
  BY <1>1, <1>3, TakeLockInv DEF Acquire, flags
<1> QED
  BY <1>2, <1>3 DEF Acquire

\* What holds of a caller whose connection is decided.
LEMMA ConnectedFacts ==
    ASSUME IInv, NEW c \in Callers, Busy(c), proc[c].pc = "create"
    PROVE  /\ InGetter(c) /\ CallOK(c) /\ CreatesAt(c, proc[c].at)
           /\ proc[c].at \in Resources
           /\ \A r : r # proc[c].at => ~CreatesAt(c, r)
           /\ phase \in {"closing", "stopped"} =>
                 \/ c \in Handlers /\ consuming /\ proc[c].job = "use"
                 \/ c = "lifespan" /\ proc[c].job = "stop" /\ proc[c].at = "mq" /\ phase = "closing"
                    /\ \A r : ~ClosingAt(r)
<1>1. TypeOK /\ CallsOK /\ CallOK(c)
  BY DEF IInv, CallsOK
<1> QED
  BY <1>1 DEF InGetter, CallOK, CreatesAt, Callers, ClosingAt, Closing

\* The lock of a getter that has connected, or failed to, is free again.
LEMMA UnlockLocks ==
    ASSUME LocksOK, lock \in [Locked -> Callers \union {Nobody}],
           NEW c \in Callers, NEW r \in Locked, CreatesAt(c, r),
           \A s : s # r => ~CreatesAt(c, s), \A s : ~CreatesAt(c, s)',
           \A d \in Callers \ {c} : proc'[d] = proc[d],
           lock' = [lock EXCEPT ![r] = Nobody],
           \A s \in Locked \ {r} : value'[s] = value[s]
    PROVE  LocksOK'
<1> SUFFICES ASSUME NEW s \in Locked
             PROVE  /\ \A d \in Callers : lock'[s] = d <=> CreatesAt(d, s)'
                    /\ lock'[s] # Nobody => value'[s] = IF s = "longterm" THEN "bare" ELSE "none"
  BY DEF LocksOK
<1>1. \A d \in Callers \ {c} : CreatesAt(d, s)' <=> CreatesAt(d, s)
  BY DEF CreatesAt, Busy
<1>2. CASE s = r
  <2>1. lock[s] = c /\ lock'[s] = Nobody
    BY <1>2 DEF LocksOK
  <2>2. \A d \in Callers \ {c} : ~CreatesAt(d, s)
    BY <2>1 DEF LocksOK
  <2> QED
    BY <1>1, <2>1, <2>2, CallersFacts
<1>3. CASE s # r
  BY <1>1, <1>3 DEF LocksOK
<1> QED
  BY <1>2, <1>3

\* A client behind a lock is there.
LEMMA ConnectLockedInv ==
    ASSUME IInv, NEW c \in Callers, Busy(c), proc[c].pc = "create",
           NEW r \in Locked, r = proc[c].at,
           lock' = [lock EXCEPT ![r] = Nobody],
           value' = [value EXCEPT ![r] = "ready"],
           open' = [open EXCEPT ![r] = IF r = "longterm" THEN @ ELSE @ + 1],
           Return(c, TRUE),
           UNCHANGED <<initialized, consuming, uses, faults, accidents>>
    PROVE  IInv'
<1>1. TypeOK /\ CallsOK /\ LocksOK /\ ClientsOK /\ RagOK /\ RagAlone /\ ClosedOK
  BY DEF IInv
<1>2. /\ InGetter(c) /\ CallOK(c) /\ CreatesAt(c, r) /\ r \in Resources /\ r # "rag"
      /\ \A s : s # r => ~CreatesAt(c, s)
      /\ phase \in {"closing", "stopped"} =>
            \/ c \in Handlers /\ consuming /\ proc[c].job = "use"
            \/ c = "lifespan" /\ r = "mq" /\ phase = "closing" /\ \A s : ~ClosingAt(s)
  BY ConnectedFacts DEF Locked
<1>3. /\ phase' = phase
      /\ \A d \in Callers \ {c} : proc'[d] = proc[d]
      /\ \A s : ~CreatesAt(c, s)'
  BY <1>2, ReturnCall
<1>4. /\ Closed' = Closed
      /\ ClosingAt("rag")' => ClosingAt("rag")
      /\ ClosingAt("mq")' => ClosingAt("mq") \/ r = "mq"
  BY <1>2, <1>3, ReturnClosing DEF Resources
<1>5. /\ value' \in [Resources -> {"none", "bare", "ready"}]
      /\ open' \in [Resources -> Nat]
      /\ lock' \in [Locked -> Callers \union {Nobody}]
      /\ value'[r] = "ready" /\ \A s \in Resources \ {r} : value'[s] = value[s]
      /\ open'[r] = IF r = "longterm" THEN open[r] ELSE open[r] + 1
      /\ \A s \in Resources \ {r} : open'[s] = open[s]
      /\ \A s \in Locked : s \in Resources
  BY <1>1, <1>2 DEF TypeOK, Locked
<1>6. TypeOK'
  BY <1>1, <1>2, <1>5, ReturnType DEF TypeOK
<1>7. CallsOK'
  <2>1. phase \in {"starting", "workers", "serving"} =>
               accidents \intersect {"late", "raised", "early", "cancelled"} = {}
    BY <1>1 DEF CallsOK
  <2> QED
    BY <1>2, <2>1, ReturnCalls
<1>8. LocksOK'
  BY <1>1, <1>2, <1>3, <1>5, UnlockLocks DEF TypeOK
<1>9. open'[r] = 1
  <2>1. lock[r] # Nobody
    BY <1>1, <1>2, CallersFacts DEF LocksOK
  <2>2. value[r] = IF r = "longterm" THEN "bare" ELSE "none"
    BY <1>1, <2>1 DEF LocksOK
  <2>3. ~(r = "redis" /\ "cancelled" \in accidents)
    BY <1>1, <1>2 DEF ClientsOK
  <2> QED
    BY <1>1, <1>5, <2>2, <2>3 DEF ClientsOK
<1>10. ClientsOK'
  <2>1. ASSUME NEW s \in Locked
        PROVE  \/ open'[s] = IF value'[s] = "none" THEN 0 ELSE 1
               \/ /\ s = "redis" /\ "cancelled" \in accidents'
                  /\ open'[s] = 1 /\ value'[s] = "none"
    <3>1. CASE s = r
      BY <1>5, <1>9, <3>1
    <3>2. CASE s # r
      BY <1>1, <1>5, <3>2 DEF ClientsOK
    <3> QED
      BY <3>1, <3>2
  <2>2. "cancelled" \in accidents' => ~consuming' /\ phase' \in {"closing", "stopped"}
    BY <1>1, <1>3 DEF ClientsOK
  <2>3. ClosingAt("mq")' => value'["mq"] # "none"
    BY <1>1, <1>4, <1>5 DEF ClientsOK, Resources
  <2> QED
    BY <2>1, <2>2, <2>3 DEF ClientsOK
<1>11. RagOK' /\ RagAlone'
  <2>1. Creating("rag")' = Creating("rag")
    BY <1>2, <1>3, CreatingStep
  <2>2. value'["rag"] = value["rag"] /\ open'["rag"] = open["rag"]
    BY <1>2, <1>5 DEF Resources
  <2>3. "engine" \notin accidents' => RagSettled'
    BY <1>1, <1>2, <1>3, <2>2, ReturnSettled DEF RagAlone
  <2>4. faults \in Nat
    BY <1>1, BoundsAssumption DEF TypeOK
  <2>5. "rag" \in ready' => "rag" \in ready
    BY <1>2, ReturnCall
  <2> QED
    BY <1>3, <1>4, <2>1, <2>2, <2>3, <2>4, <2>5, RagFrame
<1>12. ClosedOK'
  <2>1. ASSUME accidents \subseteq {"setup"}, NEW s \in Closed
        PROVE  open'[s] = 0
    <3>1. s \in Resources /\ open[s] = 0
      BY <1>1, <2>1 DEF ClosedOK, Closed, Resources
    <3>2. CASE r = "longterm" \/ s # r
      BY <1>5, <3>1, <3>2
    <3>3. CASE r # "longterm" /\ s = r
      <4>1. phase \in {"closing", "stopped"}
        BY <2>1 DEF Closed
      <4>2. phase # "stopped"
        BY <1>1, <1>2, <2>1 DEF CallsOK
      <4>3. Closed \subseteq {"rag", "longterm"}
        <5>1. CASE consuming
          BY <1>1, <4>1, <4>2, <5>1 DEF ClosedOK
        <5>2. CASE ~consuming
          BY <1>2, <4>1, <4>2, <5>2 DEF Closed
        <5> QED
          BY <5>1, <5>2
      <4> QED
        BY <1>2, <2>1, <3>3, <4>3
    <3> QED
      BY <3>2, <3>3
  <2> QED
    BY <1>1, <1>3, <1>4, <2>1 DEF ClosedOK
<1> QED
  BY <1>6, <1>7, <1>8, <1>10, <1>11, <1>12 DEF IInv

\* A client behind a lock could not be made.
LEMMA FailLockedInv ==
    ASSUME IInv, NEW c \in Callers, Busy(c), proc[c].pc = "create",
           NEW r \in Locked, r = proc[c].at,
           lock' = [lock EXCEPT ![r] = Nobody],
           Return(c, FALSE), Fault,
           Note(IF r = "longterm" THEN {"setup"}
                ELSE IF proc[c].job = "stop" THEN {"raised"} ELSE {}),
           UNCHANGED <<initialized, value, open, consuming, uses>>
    PROVE  IInv'
<1>1. TypeOK /\ CallsOK /\ LocksOK /\ ClientsOK /\ RagOK /\ RagAlone /\ ClosedOK
  BY DEF IInv
<1>2. /\ InGetter(c) /\ CallOK(c) /\ CreatesAt(c, r) /\ r \in Resources /\ r # "rag"
      /\ \A s : s # r => ~CreatesAt(c, s)
  BY ConnectedFacts DEF Locked
<1>3. /\ \A d \in Callers \ {c} : proc'[d] = proc[d]
      /\ \A s : ~CreatesAt(c, s)'
      /\ \/ phase' = phase /\ (proc[c].job # "stop")
         \/ /\ phase = "closing" /\ phase' = "stopped" /\ c = "lifespan"
            /\ proc[c].job = "stop" /\ r = "mq"
  BY <1>2, ReturnCall
<1>4. /\ phase' = phase => Closed' = Closed
      /\ ClosingAt("rag")' => ClosingAt("rag")
      /\ ClosingAt("mq")' => ClosingAt("mq")
  BY <1>2, ReturnClosing DEF Resources
<1>5. /\ accidents \subseteq accidents'
      /\ accidents' \subseteq accidents \union {"setup", "raised"}
      /\ proc[c].job = "stop" => "raised" \in accidents'
      /\ "raised" \in accidents' \ accidents => proc[c].job = "stop"
  BY <1>3 DEF Note
<1>6. faults' \in 0..MaxFaults /\ faults' \in Nat /\ faults \in Nat /\ faults' >= faults
  BY <1>1, FaultType
<1>7. TypeOK'
  BY <1>1, <1>2, <1>5, <1>6, ReturnType DEF TypeOK, Accidents
<1>8. CallsOK'
  <2>1. proc[c].job = "stop" => phase = "closing" /\ "raised" \notin accidents
    BY <1>1, <1>3 DEF CallsOK
  <2>2. phase \in {"starting", "workers", "serving"} =>
               accidents' \intersect {"late", "raised", "early", "cancelled"} = {}
    BY <1>1, <1>5, <2>1 DEF CallsOK
  <2> QED
    BY <1>2, <1>5, <2>1, <2>2, ReturnCalls
<1>9. LocksOK'
  BY <1>1, <1>2, <1>3, UnlockLocks DEF TypeOK
<1>10. ClientsOK'
  BY <1>1, <1>3, <1>4, <1>5 DEF ClientsOK
<1>11. RagOK' /\ RagAlone'
  <2>1. Creating("rag")' = Creating("rag")
    BY <1>2, <1>3, CreatingStep
  <2>2. "engine" \notin accidents' => RagSettled'
    <3> SUFFICES ASSUME "engine" \notin accidents'
                 PROVE  RagSettled'
      OBVIOUS
    <3>1. RagSettled
      BY <1>1, <1>5 DEF RagAlone
    <3>2. CASE phase' = phase
      BY <1>1, <1>2, <3>1, <3>2, ReturnSettled DEF RagAlone
    <3>3. CASE phase' = "stopped" /\ c = "lifespan"
      <4>1. ~ClosingAt("rag")'
        BY <1>4, <3>3 DEF ClosingAt, Closing
      <4> QED
        BY <3>3, <4>1 DEF RagSettled
    <3> QED
      BY <1>3, <3>2, <3>3
  <2>3. "rag" \in ready' => "rag" \in ready
    BY <1>2, ReturnCall
  <2> QED
    BY <1>3, <1>4, <1>5, <1>6, <2>1, <2>2, <2>3, RagFrame
<1>12. ClosedOK'
  BY <1>1, <1>3, <1>4, <1>5 DEF ClosedOK
<1> QED
  BY <1>7, <1>8, <1>9, <1>10, <1>11, <1>12 DEF IInv

\* The engine of RetrievalStore is there.
LEMMA ConnectRagInv ==
    ASSUME IInv, NEW c \in Callers, Busy(c), proc[c].pc = "create", proc[c].at = "rag",
           value' = [value EXCEPT !["rag"] = "ready"],
           Return(c, TRUE),
           UNCHANGED <<initialized, open, lock, consuming, uses, faults, accidents>>
    PROVE  IInv'
<1> DEFINE k == Cardinality(Creating("rag"))
           H == Cardinality(Handlers)
<1>1. TypeOK /\ CallsOK /\ LocksOK /\ ClientsOK /\ RagOK /\ RagAlone /\ ClosedOK
  BY DEF IInv
<1>2. /\ InGetter(c) /\ CallOK(c) /\ CreatesAt(c, "rag") /\ proc[c].at = "rag"
      /\ \A s \in Locked : ~CreatesAt(c, s)
  BY ConnectedFacts DEF Locked
<1>3. /\ phase' = phase
      /\ \A d \in Callers \ {c} : proc'[d] = proc[d]
      /\ \A s : ~CreatesAt(c, s)'
  BY <1>2, ReturnCall
<1>4. /\ Closed' = Closed
      /\ ClosingAt("rag")' => ClosingAt("rag")
      /\ ClosingAt("mq")' => ClosingAt("mq")
  BY <1>2, <1>3, ReturnClosing DEF Resources
<1>5. /\ value' \in [Resources -> {"none", "bare", "ready"}]
      /\ value'["rag"] = "ready" /\ \A s \in Resources \ {"rag"} : value'[s] = value[s]
      /\ \A s \in Locked : value'[s] = value[s]
      /\ open["rag"] \in Nat
  BY <1>1 DEF TypeOK, Locked, Resources
<1>6. TypeOK'
  BY <1>1, <1>2, <1>5, ReturnType DEF TypeOK
<1>7. CallsOK'
  <2>1. phase \in {"starting", "workers", "serving"} =>
               accidents \intersect {"late", "raised", "early", "cancelled"} = {}
    BY <1>1 DEF CallsOK
  <2> QED
    BY <1>2, <2>1, ReturnCalls
<1>8. LocksOK'
  BY <1>1, <1>2, <1>3, <1>5, LocksFrame
<1>9. ClientsOK'
  BY <1>1, <1>3, <1>4, <1>5 DEF ClientsOK, Resources
<1>10. /\ k \in Nat /\ k >= 1 /\ k' = k - 1 /\ H \in Nat /\ Overlap \in Nat /\ faults \in Nat
       /\ k <= Overlap /\ H' = H /\ Overlap' = Overlap /\ Creating("rag") # {}
  <2>1. k' = k - 1
    BY <1>2, <1>3, CreatingStep
  <2>2. c \in Creating("rag")
    BY <1>2 DEF CreatesAt, Creating
  <2> QED
    BY <1>1, <2>1, <2>2, CreatingCount, CreatingBound, CallersFacts, BoundsAssumption
       DEF TypeOK, Overlap
<1>11. RagOK'
  <2>1. open'["rag"] >= k' + 1
    BY <1>1, <1>5, <1>10 DEF RagOK
  <2>2. phase \notin {"closing", "stopped"} \/ "early" \in accidents =>
            open["rag"] <= faults + Overlap
    BY <1>1, <1>5, <1>10 DEF RagOK
  <2>3. phase \in {"closing", "stopped"} /\ "early" \notin accidents =>
            IF accidents \intersect {"late", "raised"} = {}
            THEN open["rag"] <= faults + Overlap
            ELSE open["rag"] <= faults + Overlap + H
    BY <1>1 DEF RagOK
  <2>4. ClosingAt("rag")' => open["rag"] <= faults + Overlap
    BY <1>1, <1>4 DEF RagOK
  <2> QED
    BY <1>3, <1>5, <1>10, <2>1, <2>2, <2>3, <2>4 DEF RagOK
<1>12. RagAlone'
  <2> SUFFICES ASSUME "engine" \notin accidents
               PROVE  open["rag"] = 1 /\ k' = 0 /\ RagSettled'
    BY <1>5 DEF RagAlone
  <2>1. value["rag"] = "none" /\ k = 1 /\ open["rag"] = 1 /\ RagSettled
    BY <1>1, <1>5, <1>10 DEF RagAlone
  <2>2. phase \notin {"workers", "serving"} /\ ~ClosingAt("rag")
    BY <2>1 DEF RagSettled
  <2>3. ASSUME phase = "starting", proc'["lifespan"].at = "graph"
        PROVE  "rag" \in ready'
    <3>1. c = "lifespan"
      BY <1>3, <2>1, <2>3, CallersFacts DEF RagSettled
    <3>2. proc[c].job = "init"
      BY <1>2, <2>3, <3>1, CallersFacts DEF CallOK
    <3> QED
      BY <1>2, <3>2, ReturnCall
  <2>4. RagSettled'
    BY <1>3, <1>4, <1>5, <2>2, <2>3 DEF RagSettled
  <2> QED
    BY <1>10, <2>1, <2>4
<1>13. ClosedOK'
  BY <1>1, <1>3, <1>4 DEF ClosedOK
<1> QED
  BY <1>6, <1>7, <1>8, <1>9, <1>11, <1>12, <1>13 DEF IInv

\* The engine was made, but the store could not be set up with it.
LEMMA FailRagInv ==
    ASSUME IInv, NEW c \in Callers, Busy(c), proc[c].pc = "create", proc[c].at = "rag",
           Return(c, FALSE), Fault, Note({"engine"}),
           UNCHANGED <<initialized, value, open, lock, consuming, uses>>
    PROVE  IInv'
<1> DEFINE k == Cardinality(Creating("rag"))
           H == Cardinality(Handlers)
<1>1. TypeOK /\ CallsOK /\ LocksOK /\ ClientsOK /\ RagOK /\ RagAlone /\ ClosedOK
  BY DEF IInv
<1>2. /\ InGetter(c) /\ CallOK(c) /\ CreatesAt(c, "rag") /\ proc[c].at = "rag"
      /\ proc[c].job # "stop"
      /\ \A s \in Locked : ~CreatesAt(c, s)
  BY ConnectedFacts DEF Locked, CallOK
<1>3. /\ phase' = phase
      /\ \A d \in Callers \ {c} : proc'[d] = proc[d]
      /\ \A s : ~CreatesAt(c, s)'
  BY <1>2, ReturnCall
<1>4. /\ Closed' = Closed
      /\ ClosingAt("rag")' => ClosingAt("rag")
      /\ ClosingAt("mq")' => ClosingAt("mq")
  BY <1>2, <1>3, ReturnClosing DEF Resources
<1>5. accidents' = accidents \union {"engine"}
  BY DEF Note
<1>6. faults' \in 0..MaxFaults /\ faults \in Nat /\ faults' = faults + 1
  BY <1>1, FaultType
<1>7. TypeOK'
  BY <1>1, <1>2, <1>5, <1>6, ReturnType DEF TypeOK, Accidents
<1>8. CallsOK'
  <2>1. phase \in {"starting", "workers", "serving"} =>
               accidents' \intersect {"late", "raised", "early", "cancelled"} = {}
    BY <1>1, <1>5 DEF CallsOK
  <2> QED
    BY <1>2, <1>5, <2>1, ReturnCalls
<1>9. LocksOK'
  BY <1>1, <1>2, <1>3, LocksFrame
<1>10. ClientsOK'
  BY <1>1, <1>3, <1>4, <1>5 DEF ClientsOK
<1>11. /\ k \in Nat /\ k >= 1 /\ k' = k - 1 /\ H \in Nat /\ Overlap \in Nat
       /\ H' = H /\ Overlap' = Overlap /\ open["rag"] \in Nat
  <2>1. k' = k - 1
    BY <1>2, <1>3, CreatingStep
  <2>2. c \in Creating("rag")
    BY <1>2 DEF CreatesAt, Creating
  <2> QED
    BY <1>1, <2>1, <2>2, CreatingCount, CallersFacts DEF TypeOK, Overlap, Resources
<1>12. RagOK'
  <2>1. /\ value["rag"] \in {"none", "ready"}
        /\ open["rag"] >= k' + IF value["rag"] = "none" THEN 0 ELSE 1
        /\ "rag" \in ready' /\ phase \in {"starting", "workers", "serving"} =>
              value["rag"] = "ready"
    <3>1. "rag" \in ready' => "rag" \in ready
      BY <1>2, ReturnCall
    <3> QED
      BY <1>1, <1>11, <3>1 DEF RagOK
  <2>2. phase \notin {"closing", "stopped"} \/ "early" \in accidents' =>
            open["rag"] <= faults' + IF value["rag"] = "none" THEN k' ELSE Overlap
    BY <1>1, <1>5, <1>6, <1>11 DEF RagOK
  <2>3. ASSUME phase \in {"closing", "stopped"}, "early" \notin accidents'
        PROVE  IF accidents' \intersect {"late", "raised"} = {}
               THEN open["rag"] <= faults' + Overlap
               ELSE /\ open["rag"] <= faults' + Overlap + H
                    /\ consuming /\ value["rag"] = "none" => open["rag"] <= faults' + Overlap + k'
    <3>1. "early" \notin accidents
          /\ (accidents' \intersect {"late", "raised"} = {} <=> accidents \intersect {"late", "raised"} = {})
      BY <1>5, <2>3
    <3>2. CASE accidents \intersect {"late", "raised"} = {}
      BY <1>1, <1>6, <1>11, <2>3, <3>1, <3>2 DEF RagOK
    <3>3. CASE accidents \intersect {"late", "raised"} # {}
      BY <1>1, <1>6, <1>11, <2>3, <3>1, <3>3 DEF RagOK
    <3> QED
      BY <3>2, <3>3
  <2>4. ClosingAt("rag")' => value["rag"] = "ready" /\ open["rag"] <= faults' + Overlap
    BY <1>1, <1>4, <1>6, <1>11 DEF RagOK
  <2> QED
    BY <1>3, <1>11, <2>1, <2>2, <2>3, <2>4 DEF RagOK
<1>13. RagAlone'
  BY <1>5 DEF RagAlone
<1>14. ClosedOK'
  BY <1>1, <1>3, <1>4, <1>5 DEF ClosedOK
<1> QED
  BY <1>7, <1>8, <1>9, <1>10, <1>12, <1>13, <1>14 DEF IInv

\* The end of the await that connects keeps it, whatever its outcome.
LEMMA ConnectedInv == ASSUME IInv, NEW c \in Callers, Connected(c) PROVE IInv'
<1>1. Busy(c) /\ proc[c].pc = "create" /\ proc[c].at \in Resources /\ CallOK(c)
  BY AtStepBusy, ConnectedFacts DEF Connected
<1>2. lock' = IF proc[c].at \in Locked THEN [lock EXCEPT ![proc[c].at] = Nobody] ELSE lock
  BY DEF Connected
<1>3. CASE /\ NoFault
           /\ value' = [value EXCEPT ![proc[c].at] = "ready"]
           /\ open' = [open EXCEPT ![proc[c].at] =
                          IF proc[c].at \in {"longterm", "rag"} THEN @ ELSE @ + 1]
           /\ Return(c, TRUE)
           /\ UNCHANGED accidents
  <2>1. UNCHANGED <<initialized, consuming, uses, faults, accidents>>
    BY <1>3 DEF Connected, NoFault
  <2>2. CASE proc[c].at \in Locked
    <3>1. open' = [open EXCEPT ![proc[c].at] = IF proc[c].at = "longterm" THEN @ ELSE @ + 1]
      BY <1>3, <2>2 DEF Locked
    <3> QED
      BY <1>1, <1>2, <1>3, <2>1, <2>2, <3>1, ConnectLockedInv
  <2>3. CASE proc[c].at = "rag"
    <3>1. open' = open
      BY <1>3, <2>3 DEF IInv, TypeOK
    <3> QED
      BY <1>1, <1>2, <1>3, <2>1, <2>3, <3>1, ConnectRagInv DEF Locked
  <2> QED
    BY <1>1, <2>2, <2>3 DEF Locked
<1>4. CASE /\ Fault
           /\ Return(c, FALSE)
           /\ Note(CASE proc[c].at = "longterm" -> {"setup"} [] proc[c].at = "rag" -> {"engine"}
                     [] proc[c].job = "stop" -> {"raised"} [] OTHER -> {})
           /\ UNCHANGED <<value, open>>
  <2>1. UNCHANGED <<initialized, value, open, consuming, uses>>
    BY <1>4 DEF Connected
  <2>2. CASE proc[c].at \in Locked
    <3>1. Note(IF proc[c].at = "longterm" THEN {"setup"}
               ELSE IF proc[c].job = "stop" THEN {"raised"} ELSE {})
      BY <1>1, <1>4, <2>2 DEF Note, CallOK, Locked
    <3> QED
      BY <1>1, <1>2, <1>4, <2>1, <2>2, <3>1, FailLockedInv
  <2>3. CASE proc[c].at = "rag"
    <3>1. Note({"engine"})
      BY <1>1, <1>4, <2>3 DEF Note, CallOK
    <3> QED
      BY <1>1, <1>2, <1>4, <2>1, <2>3, <3>1, FailRagInv DEF Locked
  <2> QED
    BY <1>1, <2>2, <2>3 DEF Locked
<1> QED
  BY <1>3, <1>4 DEF Connected

\* A step of a request or a handler that leaves the clients alone.
LEMMA CallerQuiet ==
    ASSUME IInv, TypeOK', NEW c \in Requests \union Handlers,
           \A d \in Callers \ {c} : proc'[d] = proc[d],
           Busy(c)' => CallOK(c)',
           \A r : ~CreatesAt(c, r) /\ ~CreatesAt(c, r)',
           UNCHANGED <<phase, ready, globals, consuming, accidents>>,
           faults' >= faults
    PROVE  IInv'
<1>1. TypeOK /\ CallsOK /\ c \in Callers /\ c # "lifespan"
  BY CallersFacts DEF IInv
<1>2. CallsOK'
  BY <1>1, CallsFrame DEF CallsOK
<1>3. proc'["lifespan"] = proc["lifespan"]
  BY <1>1, CallersFacts
<1>4. Closed' = Closed /\ \A r : ClosingAt(r)' <=> ClosingAt(r)
  BY <1>3, ClosedFrame
<1>5. value' = value
  BY DEF globals
<1>6. "engine" \notin accidents => RagSettled'
  BY <1>3, <1>4, <1>5 DEF IInv, RagAlone, RagSettled
<1>7. faults' \in Nat /\ faults \in Nat
  BY <1>1, BoundsAssumption DEF TypeOK
<1>8. ClosingAt("mq")' => value["mq"] # "none"
  BY <1>4 DEF IInv, ClientsOK
<1> QED
  BY <1>1, <1>2, <1>4, <1>6, <1>7, <1>8, QuietInv

\* The compilation of the graph at the end of init_all keeps it.
LEMMA BuildGraphInv == ASSUME IInv, NEW c \in Callers, BuildGraph(c) PROVE IInv'
<1>1. TypeOK /\ CallsOK /\ Busy(c) /\ CallOK(c) /\ proc[c].pc = "graph"
  BY AtStepBusy DEF BuildGraph, IInv, CallsOK
<1>2. /\ proc'[c] = Idle /\ ~Busy(c)'
      /\ proc' \in [Callers -> {Idle} \union Call]
      /\ \A d \in Callers \ {c} : proc'[d] = proc[d]
  BY <1>1 DEF BuildGraph, TypeOK, Busy
<1>3. /\ UNCHANGED <<ready, globals, consuming, uses, accidents>>
      /\ value' = value /\ open' = open /\ lock' = lock
      /\ initialized' \in BOOLEAN /\ lifecycle' = Nobody
      /\ phase' = IF phase = "starting" THEN "workers" ELSE phase
  BY DEF BuildGraph, globals
<1>4. Fault \/ NoFault
  BY DEF BuildGraph
<1>5. faults' \in 0..MaxFaults /\ faults' \in Nat /\ faults \in Nat /\ faults' >= faults
  BY <1>1, <1>4, FaultType
<1>6. TypeOK'
  BY <1>1, <1>2, <1>3, <1>5 DEF TypeOK
<1>7. \A r : ~CreatesAt(c, r) /\ ~CreatesAt(c, r)'
  BY <1>1, <1>2 DEF CreatesAt
<1>8. CASE c # "lifespan"
  <2>1. c \in Requests /\ phase' = phase
    BY <1>1, <1>3, <1>8 DEF CallOK, Callers
  <2> QED
    BY <1>2, <1>3, <1>5, <1>6, <1>7, <2>1, CallerQuiet
<1>9. CASE c = "lifespan"
  <2>1. phase = "starting" /\ phase' = "workers" /\ proc["lifespan"].at = "graph"
    BY <1>1, <1>3, <1>9, CallersFacts DEF CallOK
  <2>2. \A d \in Callers : ~Busy(d)'
    <3> SUFFICES ASSUME NEW d \in Callers, d # c, Busy(d)
                 PROVE  FALSE
      BY <1>2 DEF Busy
    <3> QED
      BY <1>1, <1>9, <2>1 DEF CallsOK, CallOK, Callers
  <2>3. CallsOK'
    BY <1>1, <1>3, <2>1, <2>2 DEF CallsOK
  <2>4. \A r : ~ClosingAt(r) /\ ~ClosingAt(r)'
    BY <1>1, <1>2, <1>9 DEF ClosingAt, Closing, Idle
  <2>5. Closed' = Closed
    BY <2>1, <2>4 DEF Closed
  <2>6. "engine" \notin accidents => RagSettled'
    BY <1>3, <2>1 DEF IInv, RagAlone, RagSettled
  <2> QED
    BY <1>2, <1>3, <1>5, <1>6, <1>7, <2>1, <2>3, <2>4, <2>5, <2>6, QuietInv
<1> QED
  BY <1>8, <1>9

\* So does the check of initialized at the start of init_all.
LEMMA EnterInv == ASSUME IInv, NEW c \in Callers, Enter(c) PROVE IInv'
<1>1. TypeOK /\ CallsOK /\ Busy(c) /\ CallOK(c) /\ proc[c].pc = "enter"
  BY AtStepBusy DEF Enter, IInv, CallsOK
<1>2. c \in Requests /\ proc[c].at = "redis" /\ proc[c].job = "init"
  BY <1>1 DEF CallOK
<1>3. /\ UNCHANGED <<phase, initialized, ready, globals, consuming, uses, faults, accidents>>
      /\ value' = value /\ open' = open /\ lock' = lock
      /\ lifecycle' \in Callers \union {Nobody}
  BY <1>1 DEF Enter, globals, TypeOK
<1>4. faults' >= faults
  BY <1>1, <1>3, BoundsAssumption DEF TypeOK
<1>5. CASE proc' = [proc EXCEPT ![c] = Idle]
  <2>1. /\ ~Busy(c)' /\ proc' \in [Callers -> {Idle} \union Call]
        /\ \A d \in Callers \ {c} : proc'[d] = proc[d]
    BY <1>1, <1>5 DEF TypeOK, Busy
  <2>2. TypeOK'
    BY <1>1, <1>3, <2>1 DEF TypeOK
  <2>3. \A r : ~CreatesAt(c, r) /\ ~CreatesAt(c, r)'
    BY <1>1, <2>1 DEF CreatesAt
  <2> QED
    BY <1>2, <1>3, <1>4, <2>1, <2>2, <2>3, CallerQuiet
<1>6. CASE Goto(c, "call")
  <2>1. /\ proc' \in [Callers -> {Idle} \union Call]
        /\ \A d \in Callers \ {c} : proc'[d] = proc[d]
        /\ proc'[c].job = "init" /\ proc'[c].at = "redis" /\ proc'[c].pc = "call"
    BY <1>1, <1>2, <1>6, GotoCall
  <2>2. TypeOK'
    BY <1>1, <1>3, <2>1 DEF TypeOK
  <2>3. \A r : ~CreatesAt(c, r) /\ ~CreatesAt(c, r)'
    BY <1>1, <2>1 DEF CreatesAt
  <2>4. CallOK(c)'
    BY <1>1, <1>2, <1>3, <2>1 DEF CallOK, Resources
  <2> QED
    BY <1>2, <1>3, <1>4, <2>1, <2>2, <2>3, <2>4, CallerQuiet
<1> QED
  BY <1>5, <1>6 DEF Enter

\* A request or a handler, which was doing nothing, begins a call.
LEMMA BeginInv ==
    ASSUME IInv, NEW c \in Requests \union Handlers, ~Busy(c),
           NEW x \in Call, proc' = [proc EXCEPT ![c] = x],
           uses < MaxUses, uses' = uses + 1,
           UNCHANGED <<phase, flags, globals, consuming, faults, accidents>>,
           x.pc # "create", CallOK(c)'
    PROVE  IInv'
<1>1. TypeOK /\ CallsOK /\ c \in Callers
  BY CallersFacts DEF IInv
<1>2. /\ proc'[c] = x
      /\ proc' \in [Callers -> {Idle} \union Call]
      /\ \A d \in Callers \ {c} : proc'[d] = proc[d]
  BY <1>1 DEF TypeOK
<1>3. UNCHANGED <<phase, initialized, ready, lifecycle, value, open, lock, consuming, faults, accidents>>
  BY DEF flags, globals
<1>4. uses' \in 0..MaxUses /\ faults' >= faults
  BY <1>1, <1>3, BoundsAssumption DEF TypeOK
<1>5. TypeOK'
  BY <1>1, <1>2, <1>3, <1>4 DEF TypeOK
<1>6. \A r : ~CreatesAt(c, r) /\ ~CreatesAt(c, r)'
  BY <1>2 DEF CreatesAt
<1> QED
  BY <1>2, <1>3, <1>4, <1>5, <1>6, CallerQuiet

\* So does a request or a handler that asks a getter for a client.
LEMMA UseInv ==
    ASSUME IInv, NEW c \in Requests \union Handlers, NEW r \in Resources, Use(c, r)
    PROVE  IInv'
<1> DEFINE x == [job |-> "use", at |-> r, pc |-> "call"]
<1>1. TypeOK /\ c \in Callers /\ c # "lifespan"
  BY CallersFacts DEF IInv
<1>2. x \in Call /\ x.job = "use" /\ x.at = r /\ x.pc = "call"
  BY DEF Call
<1>3. proc'[c] = x
  BY <1>1 DEF Use, TypeOK
<1>4. (c \in Requests /\ phase' = "serving") \/ (c \in Handlers /\ consuming')
  <2>1. phase' = phase /\ (consuming' <=> consuming)
    BY DEF Use
  <2>2. (c \in Requests /\ phase = "serving") \/ (c \in Handlers /\ consuming)
    BY DEF Use
  <2> QED
    BY <2>1, <2>2
<1>5. CallOK(c)'
  <2>1. proc'[c].job = "use" /\ proc'[c].at = r /\ proc'[c].pc = "call"
    BY <1>2, <1>3
  <2> QED
    BY <1>1, <1>4, <2>1, CallersAssumption DEF CallOK, Resources
<1> HIDE DEF x
<1> QED
  BY <1>2, <1>5, BeginInv DEF Use, x

\* So does a request that runs init_all again.
LEMMA InitAgainInv == ASSUME IInv, NEW c \in Requests, InitAgain(c) PROVE IInv'
<1> DEFINE x == [job |-> "init", at |-> "redis", pc |-> "enter"]
<1>1. TypeOK /\ c \in Callers /\ c # "lifespan" /\ c \notin Handlers
  BY CallersFacts, CallersAssumption DEF IInv
<1>2. x \in Call /\ x.job = "init" /\ x.at = "redis" /\ x.pc = "enter"
  BY DEF Call, Resources
<1>3. proc'[c] = x
  BY <1>1 DEF InitAgain, TypeOK
<1>4. phase' = "serving"
  BY DEF InitAgain
<1>5. CallOK(c)'
  <2>1. proc'[c].job = "init" /\ proc'[c].at = "redis" /\ proc'[c].pc = "enter"
    BY <1>2, <1>3
  <2> QED
    BY <1>1, <1>4, <2>1 DEF CallOK
<1> HIDE DEF x
<1> QED
  BY <1>2, <1>5, BeginInv DEF InitAgain, x

\* So does _start_mq_workers of the lifespan.
LEMMA StartWorkersInv == ASSUME IInv, StartWorkers PROVE IInv'
<1>1. TypeOK /\ CallsOK /\ LocksOK /\ ClientsOK /\ RagOK /\ RagAlone /\ ClosedOK
  BY DEF IInv
<1>2. /\ phase = "workers" /\ phase' = "serving" /\ consuming' \in BOOLEAN
      /\ UNCHANGED <<initialized, ready, lifecycle, value, open, lock, proc, uses, accidents>>
  BY <1>1 DEF StartWorkers, flags, globals, TypeOK
<1>3. Fault \/ NoFault
  BY DEF StartWorkers
<1>4. faults' \in 0..MaxFaults /\ faults' \in Nat /\ faults \in Nat /\ faults' >= faults
  BY <1>1, <1>3, FaultType
<1>5. TypeOK'
  BY <1>1, <1>2, <1>4 DEF TypeOK
<1>6. \A c \in Callers : ~Busy(c)
  BY <1>1, <1>2 DEF CallsOK, CallOK, Callers
<1>7. CallsOK'
  BY <1>1, <1>2, <1>6 DEF CallsOK, Busy
<1>8. LocksOK'
  BY <1>1, <1>2 DEF LocksOK, CreatesAt, Busy
<1>9. "cancelled" \notin accidents
  BY <1>1, <1>2 DEF CallsOK
<1>10. \A r : ~ClosingAt(r) /\ ~ClosingAt(r)'
  BY <1>2, <1>6, CallersFacts DEF ClosingAt, Busy, Closing, Idle
<1>11. ClientsOK'
  BY <1>1, <1>2, <1>9, <1>10 DEF ClientsOK
<1>12. RagOK' /\ RagAlone'
  <2>1. Creating("rag")' = Creating("rag")
    BY <1>2 DEF Creating, Busy
  <2>2. "engine" \notin accidents' => RagSettled'
    BY <1>1, <1>2 DEF RagAlone, RagSettled
  <2> QED
    BY <1>2, <1>4, <1>10, <2>1, <2>2, RagFrame
<1>13. ClosedOK'
  BY <1>2, <1>10 DEF ClosedOK, Closed
<1> QED
  BY <1>5, <1>7, <1>8, <1>11, <1>12, <1>13 DEF IInv

\* The server has stopped and close_all begins, or returns at once.
LEMMA CloseStartInv == ASSUME IInv, CloseStart PROVE IInv'
<1> DEFINE k == Cardinality(Creating("rag"))
           H == Cardinality(Handlers)
<1>1. TypeOK /\ CallsOK /\ LocksOK /\ ClientsOK /\ RagOK /\ RagAlone /\ ClosedOK
  BY DEF IInv
<1>2. /\ phase = "serving" /\ \A c \in Requests : ~Busy(c)
      /\ UNCHANGED <<initialized, ready, value, open, lock, consuming, uses, faults>>
  BY DEF CloseStart, globals
<1>3. ~Busy("lifespan")
  BY <1>1, <1>2, CallersFacts DEF CallsOK, CallOK
<1>4. accidents \intersect {"late", "raised", "early", "cancelled"} = {}
  BY <1>1, <1>2 DEF CallsOK
<1>5. /\ k \in Nat /\ H \in Nat /\ Overlap \in Nat /\ k <= Overlap /\ H' = H /\ Overlap' = Overlap
      /\ faults \in Nat /\ open["rag"] \in Nat
  BY <1>1, CreatingCount, CreatingBound, CallersFacts, BoundsAssumption
     DEF TypeOK, Overlap, Resources
<1>6. open["rag"] <= faults + IF value["rag"] = "none" THEN k ELSE Overlap
  BY <1>1, <1>2 DEF RagOK
<1>7. CASE /\ phase' = "closing"
           /\ lifecycle' = "lifespan"
           /\ CloseNext(Closing(IF "rag" \in ready THEN "rag" ELSE "longterm"))
           /\ UNCHANGED accidents
  <2> DEFINE at == IF "rag" \in ready THEN "rag" ELSE "longterm"
  <2>1. /\ proc'["lifespan"] = Closing(at)
        /\ proc' \in [Callers -> {Idle} \union Call]
        /\ \A c \in Callers \ {"lifespan"} : proc'[c] = proc[c]
    <3>1. Closing(at) \in Call
      BY DEF Closing, Call, Resources
    <3> QED
      BY <1>1, <1>7, <3>1, CallersFacts DEF CloseNext, TypeOK
  <2>2. TypeOK'
    BY <1>1, <1>2, <1>7, <2>1, CallersFacts DEF TypeOK
  <2>3. CallsOK'
    <3>1. CallOK("lifespan")' /\ Busy("lifespan")'
      <4>1. /\ proc'["lifespan"].job = "close" /\ proc'["lifespan"].pc = "close"
            /\ proc'["lifespan"].at \in {"rag", "longterm"}
        BY <2>1 DEF Closing
      <4> QED
        BY <1>7, <4>1, CallersFacts, AtStepBusy DEF CallOK, Busy, Idle
    <3>2. ASSUME NEW c \in Callers \ {"lifespan"}, Busy(c)'
          PROVE  CallOK(c)'
      <4>1. Busy(c) /\ c \in Handlers /\ c \notin Requests /\ CallOK(c)
        BY <1>1, <1>2, <2>1, <3>2, CallersAssumption DEF Busy, CallsOK, Callers
      <4> QED
        BY <1>2, <2>1, <4>1 DEF CallOK
    <3> QED
      BY <1>2, <1>4, <1>7, <3>1, <3>2 DEF CallsOK
  <2>4. \A r : ~CreatesAt("lifespan", r) /\ ~CreatesAt("lifespan", r)'
    BY <1>3, <2>1 DEF CreatesAt, Closing
  <2>5. Creating("rag")' = Creating("rag")
    BY <2>1, <2>4, CreatingStep, CallersFacts
  <2>6. LocksOK'
    BY <1>1, <1>2, <2>1, <2>4, LocksFrame, CallersFacts
  <2>7. /\ ~ClosingAt("mq")' /\ ~ClosingAt("redis")' /\ ~ClosingAt("db")'
        /\ ClosingAt("rag")' <=> "rag" \in ready
    BY <2>1 DEF ClosingAt, Closing
  <2>8. ClientsOK'
    BY <1>1, <1>2, <1>4, <1>7, <2>7 DEF ClientsOK
  <2>9. RagOK'
    <3>1. /\ value["rag"] \in {"none", "ready"}
          /\ open["rag"] >= k + IF value["rag"] = "none" THEN 0 ELSE 1
          /\ open["rag"] <= faults + Overlap
          /\ "rag" \in ready => value["rag"] = "ready"
      BY <1>1, <1>2, <1>5, <1>6 DEF RagOK
    <3> QED
      BY <1>2, <1>4, <1>5, <1>7, <2>5, <2>7, <3>1 DEF RagOK
  <2>10. RagAlone'
    BY <1>1, <1>2, <1>7, <2>5 DEF RagAlone, RagSettled
  <2>11. ClosedOK'
    <3>1. Closed' \subseteq {"rag"} /\ ("rag" \in ready => Closed' = {})
      BY <1>7, <2>1, <2>7 DEF Closed, ClosingAt, Closing
    <3>2. accidents' \subseteq {"setup"} => "rag" \in ready
      BY <1>1, <1>2, <1>7 DEF RagAlone, RagSettled
    <3> QED
      BY <3>1, <3>2 DEF ClosedOK
  <2> QED
    BY <2>2, <2>3, <2>6, <2>8, <2>9, <2>10, <2>11 DEF IInv
<1>8. CASE /\ phase' = "stopped"
           /\ Note({"early"})
           /\ UNCHANGED <<lifecycle, proc>>
  <2>1. accidents' = accidents \union {"early"}
    BY <1>8 DEF Note
  <2>2. \A r : ~ClosingAt(r) /\ ~ClosingAt(r)' /\ Creating(r)' = Creating(r)
    BY <1>3, <1>8 DEF ClosingAt, Busy, Closing, Idle, Creating
  <2>3. TypeOK'
    BY <1>1, <1>2, <1>8, <2>1 DEF TypeOK, Accidents
  <2>4. CallsOK'
    <3>1. \A c \in Callers : Busy(c)' => c \in Handlers /\ c \notin Requests /\ CallOK(c)
      BY <1>1, <1>2, <1>3, <1>8, CallersAssumption DEF Busy, CallsOK, Callers
    <3>2. \A c \in Callers : Busy(c)' => CallOK(c)'
      BY <1>2, <1>8, <3>1, CallersFacts DEF CallOK
    <3> QED
      BY <1>1, <1>2, <1>8, <2>1, <3>2 DEF CallsOK
  <2>5. LocksOK'
    BY <1>1, <1>2, <1>8 DEF LocksOK, CreatesAt, Busy
  <2>6. ClientsOK'
    BY <1>1, <1>2, <1>4, <2>1, <2>2 DEF ClientsOK
  <2>7. RagOK'
    <3>1. /\ value["rag"] \in {"none", "ready"}
          /\ open["rag"] >= k + IF value["rag"] = "none" THEN 0 ELSE 1
      BY <1>1 DEF RagOK
    <3> QED
      BY <1>2, <1>5, <1>6, <1>8, <2>1, <2>2, <3>1 DEF RagOK
  <2>8. RagAlone'
    BY <1>1, <1>2, <1>8, <2>1, <2>2 DEF RagAlone, RagSettled
  <2>9. ClosedOK'
    BY <1>8, <2>1 DEF ClosedOK
  <2> QED
    BY <2>3, <2>4, <2>5, <2>6, <2>7, <2>8, <2>9 DEF IInv
<1> QED
  BY <1>7, <1>8 DEF CloseStart

\* Where the lifespan is while close_all closes one resource after another.
LEMMA ClosingFacts ==
    ASSUME IInv, NEW r, ClosingAt(r)
    PROVE  /\ Busy("lifespan") /\ phase = "closing"
           /\ proc["lifespan"].job = "close" /\ proc["lifespan"].at = r
           /\ proc["lifespan"].pc = "close"
           /\ \A s : ~CreatesAt("lifespan", s)
           /\ \A s : ClosingAt(s) => s = r
           /\ \A c \in Callers : Busy(c) /\ c # "lifespan" => c \in Handlers
           /\ accidents \intersect {"raised", "early"} = {}
<1>1. /\ proc["lifespan"].job = "close" /\ proc["lifespan"].at = r
      /\ proc["lifespan"].pc = "close"
  BY DEF ClosingAt, Closing
<1>2. Busy("lifespan") /\ CallOK("lifespan")
  BY <1>1, AtStepBusy, CallersFacts DEF IInv, CallsOK
<1>3. phase = "closing"
  BY <1>1, <1>2 DEF CallOK
<1>4. \A c \in Callers : Busy(c) /\ c # "lifespan" => c \in Handlers
  BY <1>3 DEF IInv, CallsOK, CallOK, Callers
<1>5. accidents \intersect {"raised", "early"} = {}
  BY <1>3 DEF IInv, CallsOK
<1> QED
  BY <1>1, <1>2, <1>3, <1>4, <1>5 DEF CreatesAt, ClosingAt, Closing

\* close_all goes on to its next step.
LEMMA CloseNextFacts ==
    ASSUME IInv, NEW r, ClosingAt(r), NEW step \in Call, CloseNext(step),
           phase' = phase, consuming' = consuming, accidents' = accidents,
           step.job \in {"stop", "close"},
           step.job = "close" <=> step.pc = "close",
           step.job = "stop" => step.at = "mq" /\ step.pc = "call",
           step.at \in Resources
    PROVE  /\ proc'["lifespan"] = step
           /\ proc' \in [Callers -> {Idle} \union Call]
           /\ \A c \in Callers \ {"lifespan"} : proc'[c] = proc[c]
           /\ \A s : ~CreatesAt("lifespan", s)'
           /\ \A s : Creating(s)' = Creating(s)
           /\ CallsOK'
<1>1. /\ proc'["lifespan"] = step
      /\ proc' \in [Callers -> {Idle} \union Call]
      /\ \A c \in Callers \ {"lifespan"} : proc'[c] = proc[c]
  BY CallersFacts DEF IInv, TypeOK, CloseNext
<1>2. step.pc # "create" /\ step.pc \in {"call", "close"}
  OBVIOUS
<1>3. \A s : ~CreatesAt("lifespan", s)'
  BY <1>1, <1>2 DEF CreatesAt
<1>4. \A s : Creating(s)' = Creating(s)
  BY <1>1, <1>3, ClosingFacts, CreatingStep, CallersFacts
<1>5. CallOK("lifespan")' /\ Busy("lifespan")'
  <2>1. step.at # "graph"
    BY DEF Resources
  <2> QED
    BY <1>1, <1>2, <2>1, ClosingFacts, CallersFacts, CallBusy DEF CallOK, Busy
<1>6. CallsOK'
  BY <1>1, <1>5, ClosingFacts, CallsFrame, CallersFacts DEF IInv
<1> QED
  BY <1>1, <1>3, <1>4, <1>6

\* So does the first step of close_all, the retrieval store.
LEMMA CloseRagInv == ASSUME IInv, CloseRag PROVE IInv'
<1> DEFINE k == Cardinality(Creating("rag"))
           H == Cardinality(Handlers)
           step == Closing("longterm")
<1>1. TypeOK /\ CallsOK /\ LocksOK /\ ClientsOK /\ RagOK /\ RagAlone /\ ClosedOK
  BY DEF IInv
<1>2. /\ ClosingAt("rag") /\ CloseNext(step)
      /\ UNCHANGED <<phase, initialized, ready, lifecycle, lock, consuming, uses, faults, accidents>>
  BY DEF CloseRag, flags
<1>3. value["rag"] = "ready" /\ open["rag"] <= faults + Overlap /\ open["rag"] >= k + 1
  BY <1>1, <1>2 DEF RagOK
<1>4. /\ k \in Nat /\ H \in Nat /\ Overlap \in Nat /\ H' = H /\ Overlap' = Overlap
      /\ faults \in Nat /\ open["rag"] \in Nat
  BY <1>1, CreatingCount, CallersFacts, BoundsAssumption DEF TypeOK, Overlap, Resources
<1>5. /\ value' \in [Resources -> {"none", "bare", "ready"}]
      /\ value'["rag"] = "none" /\ \A s \in Resources \ {"rag"} : value'[s] = value[s]
      /\ open' \in [Resources -> Nat]
      /\ open'["rag"] = open["rag"] - 1 /\ \A s \in Resources \ {"rag"} : open'[s] = open[s]
      /\ \A s \in Locked : value'[s] = value[s] /\ open'[s] = open[s]
  BY <1>1, <1>3, <1>4 DEF CloseRag, Forget, CloseClient, TypeOK, Resources, Locked
<1>6. /\ step \in Call /\ step.job = "close" /\ step.pc = "close" /\ step.at = "longterm"
  BY DEF Closing, Call, Resources
<1>7. /\ proc'["lifespan"] = step
      /\ proc' \in [Callers -> {Idle} \union Call]
      /\ \A c \in Callers \ {"lifespan"} : proc'[c] = proc[c]
      /\ \A s : ~CreatesAt("lifespan", s)'
      /\ \A s : Creating(s)' = Creating(s)
      /\ CallsOK'
  <2>1. "longterm" \in Resources
    BY DEF Resources
  <2> HIDE DEF step
  <2> QED
    BY <1>2, <1>6, <2>1, CloseNextFacts
<1>8. /\ phase = "closing" /\ accidents \intersect {"raised", "early"} = {}
      /\ \A s : ~CreatesAt("lifespan", s)
  BY <1>2, ClosingFacts
<1>9. TypeOK'
  BY <1>1, <1>2, <1>5, <1>7 DEF TypeOK
<1>10. LocksOK'
  BY <1>1, <1>2, <1>5, <1>7, <1>8, LocksFrame, CallersFacts
<1>11. \A s : ClosingAt(s)' <=> s = "longterm"
  BY <1>7 DEF ClosingAt, Closing
<1>12. ClientsOK'
  BY <1>1, <1>2, <1>5, <1>11 DEF ClientsOK
<1>13. RagOK'
  BY <1>2, <1>3, <1>4, <1>5, <1>7, <1>8, <1>11 DEF RagOK
<1>14. RagAlone'
  <2> SUFFICES ASSUME "engine" \notin accidents
               PROVE  open'["rag"] = k /\ k <= 1 /\ RagSettled'
    BY <1>2, <1>5, <1>7 DEF RagAlone
  <2>1. open["rag"] = 1 /\ k = 0
    BY <1>1, <1>3, <1>4 DEF RagAlone
  <2>2. RagSettled'
    BY <1>2, <1>8, <1>11 DEF RagSettled
  <2> QED
    BY <1>5, <2>1, <2>2
<1>15. ClosedOK'
  <2>1. Closed' = {"rag"}
    BY <1>2, <1>8, <1>11 DEF Closed
  <2>2. accidents \subseteq {"setup"} => open'["rag"] = 0
    BY <1>1, <1>3, <1>4, <1>5 DEF RagAlone
  <2> QED
    BY <1>2, <2>1, <2>2 DEF ClosedOK
<1> QED
  BY <1>7, <1>9, <1>10, <1>12, <1>13, <1>14, <1>15 DEF IInv

\* close_all closes a client that has a lock, and forgets it.
LEMMA CloseClientFacts ==
    ASSUME IInv, NEW r \in {"longterm", "redis", "db"}, ClosingAt(r),
           Forget(r), CloseClient(r), r = "longterm" => lock[r] = Nobody,
           \A c \in Callers \ {"lifespan"} : proc'[c] = proc[c],
           \A s : ~CreatesAt("lifespan", s)',
           ~ClosingAt("mq")', ~ClosingAt("rag")',
           UNCHANGED <<lock, consuming, faults, accidents>>,
           phase' \in {"closing", "stopped"}, "rag" \in ready' => "rag" \in ready
    PROVE  /\ value' \in [Resources -> {"none", "bare", "ready"}]
           /\ open' \in [Resources -> Nat]
           /\ \A s \in Resources \ {r} : open'[s] = open[s]
           /\ "cancelled" \notin accidents => open'[r] = 0
           /\ LocksOK' /\ ClientsOK' /\ RagOK' /\ RagAlone'
<1>1. TypeOK /\ CallsOK /\ LocksOK /\ ClientsOK /\ RagOK /\ RagAlone /\ ClosedOK
  BY DEF IInv
<1>2. phase = "closing" /\ \A s : ~CreatesAt("lifespan", s)
  BY ClosingFacts
<1>3. r \in Resources /\ r \in Locked /\ r # "rag" /\ \A s \in Locked : s \in Resources
  BY DEF Resources, Locked
<1>4. \/ open[r] = IF value[r] = "none" THEN 0 ELSE 1
      \/ r = "redis" /\ "cancelled" \in accidents /\ open[r] = 1 /\ value[r] = "none"
  BY <1>1, <1>3 DEF ClientsOK
<1>5. /\ value' = [value EXCEPT ![r] = "none"]
      /\ open' = [open EXCEPT ![r] = IF value[r] = "none" THEN open[r] ELSE open[r] - 1]
  BY DEF Forget, CloseClient
<1>6. /\ value' \in [Resources -> {"none", "bare", "ready"}]
      /\ value'[r] = "none" /\ \A s \in Resources \ {r} : value'[s] = value[s]
  BY <1>1, <1>3, <1>5 DEF TypeOK
<1>7. /\ open' \in [Resources -> Nat]
      /\ \A s \in Resources \ {r} : open'[s] = open[s]
      /\ \/ open'[r] = 0
         \/ r = "redis" /\ "cancelled" \in accidents /\ open'[r] = 1
  <2>1. open'[r] = IF value[r] = "none" THEN open[r] ELSE open[r] - 1
    BY <1>1, <1>3, <1>5 DEF TypeOK
  <2>2. \/ open'[r] = 0
        \/ r = "redis" /\ "cancelled" \in accidents /\ open'[r] = 1
    BY <1>4, <2>1
  <2> QED
    BY <1>1, <1>3, <1>5, <2>1, <2>2 DEF TypeOK
<1>8. LocksOK'
  <2>1. \A s \in Locked : value'[s] = value[s] \/ lock[s] = Nobody
    <3> SUFFICES ASSUME lock[r] # Nobody
                 PROVE  value'[r] = value[r]
      BY <1>3, <1>6
    <3> QED
      BY <1>1, <1>3, <1>6 DEF LocksOK
  <2> QED
    BY <1>1, <1>2, <2>1, LocksFrame, CallersFacts
<1>9. ClientsOK'
  <2>1. ASSUME NEW s \in Locked
        PROVE  \/ open'[s] = IF value'[s] = "none" THEN 0 ELSE 1
               \/ /\ s = "redis" /\ "cancelled" \in accidents'
                  /\ open'[s] = 1 /\ value'[s] = "none"
    <3>1. CASE s = r
      BY <1>6, <1>7, <3>1
    <3>2. CASE s # r
      BY <1>1, <1>3, <1>6, <1>7, <3>2 DEF ClientsOK
    <3> QED
      BY <3>1, <3>2
  <2> QED
    BY <1>1, <2>1 DEF ClientsOK
<1>10. RagOK' /\ RagAlone'
  <2>1. Creating("rag")' = Creating("rag")
    BY <1>2, CreatingStep, CallersFacts
  <2>2. value'["rag"] = value["rag"] /\ open'["rag"] = open["rag"]
    BY <1>3, <1>6, <1>7 DEF Resources
  <2>3. faults \in Nat
    BY <1>1, BoundsAssumption DEF TypeOK
  <2>4. RagSettled'
    BY DEF RagSettled
  <2> QED
    BY <1>2, <2>1, <2>2, <2>3, <2>4, RagFrame
<1> QED
  BY <1>6, <1>7, <1>8, <1>9, <1>10

\* So does its second step, the long-term store.
LEMMA CloseLongtermInv == ASSUME IInv, CloseLongterm PROVE IInv'
<1> DEFINE step == [job |-> "stop", at |-> "mq", pc |-> "call"]
<1>1. TypeOK /\ CallsOK /\ ClosedOK
  BY DEF IInv
<1>2. /\ ClosingAt("longterm") /\ CloseNext(step) /\ lock["longterm"] = Nobody
      /\ Forget("longterm") /\ CloseClient("longterm")
      /\ UNCHANGED <<phase, initialized, ready, lifecycle, lock, consuming, uses, faults, accidents>>
  BY DEF CloseLongterm, flags
<1>3. step \in Call /\ step.job = "stop" /\ step.at = "mq" /\ step.pc = "call"
  BY DEF Call, Resources
<1>4. /\ proc'["lifespan"] = step
      /\ proc' \in [Callers -> {Idle} \union Call]
      /\ \A c \in Callers \ {"lifespan"} : proc'[c] = proc[c]
      /\ \A s : ~CreatesAt("lifespan", s)'
      /\ CallsOK'
  <2>1. "mq" \in Resources
    BY DEF Resources
  <2> HIDE DEF step
  <2> QED
    BY <1>2, <1>3, <2>1, CloseNextFacts
<1>5. \A s : ~ClosingAt(s)'
  BY <1>4 DEF ClosingAt, Closing
<1>6. phase = "closing" /\ \A s : ClosingAt(s) => s = "longterm"
  BY <1>2, ClosingFacts
<1>7. /\ value' \in [Resources -> {"none", "bare", "ready"}]
      /\ open' \in [Resources -> Nat]
      /\ \A s \in Resources \ {"longterm"} : open'[s] = open[s]
      /\ "cancelled" \notin accidents => open'["longterm"] = 0
      /\ LocksOK' /\ ClientsOK' /\ RagOK' /\ RagAlone'
  <2> HIDE DEF step
  <2> QED
    BY <1>2, <1>4, <1>5, <1>6, CloseClientFacts
<1>8. TypeOK'
  BY <1>1, <1>2, <1>4, <1>7 DEF TypeOK
<1>9. ClosedOK'
  <2>1. Closed = {"rag"} /\ Closed' = {"rag", "longterm"}
    BY <1>2, <1>5, <1>6 DEF Closed
  <2> QED
    BY <1>1, <1>2, <1>7, <2>1 DEF ClosedOK, Resources
<1> QED
  BY <1>4, <1>7, <1>8, <1>9 DEF IInv

\* The consumers are stopped once close_all has come to the connection of MQ.
LEMMA ConsumersStopped ==
    ASSUME IInv, ClosingAt("redis") \/ ClosingAt("db")
    PROVE  ~consuming
<1>1. phase = "closing"
  BY ClosingFacts
<1>2. "mq" \in Closed
  BY <1>1 DEF Closed, ClosingAt, Closing
<1> QED
  BY <1>1, <1>2 DEF IInv, ClosedOK

\* So does its third step, the Redis client.
LEMMA CloseRedisInv == ASSUME IInv, CloseRedis PROVE IInv'
<1> DEFINE step == Closing("db")
<1>1. TypeOK /\ CallsOK /\ ClosedOK
  BY DEF IInv
<1>2. /\ ClosingAt("redis") /\ CloseNext(step)
      /\ Forget("redis") /\ CloseClient("redis")
      /\ UNCHANGED <<phase, initialized, ready, lifecycle, lock, consuming, uses, faults, accidents>>
  BY DEF CloseRedis, flags
<1>3. step \in Call /\ step.job = "close" /\ step.at = "db" /\ step.pc = "close"
  BY DEF Call, Closing, Resources
<1>4. /\ proc'["lifespan"] = step
      /\ proc' \in [Callers -> {Idle} \union Call]
      /\ \A c \in Callers \ {"lifespan"} : proc'[c] = proc[c]
      /\ \A s : ~CreatesAt("lifespan", s)'
      /\ CallsOK'
  <2>1. "db" \in Resources
    BY DEF Resources
  <2> HIDE DEF step
  <2> QED
    BY <1>2, <1>3, <2>1, CloseNextFacts
<1>5. \A s : ClosingAt(s)' <=> s = "db"
  BY <1>4 DEF ClosingAt, Closing
<1>6. phase = "closing" /\ ~consuming /\ \A s : ClosingAt(s) => s = "redis"
  BY <1>2, ClosingFacts, ConsumersStopped
<1>7. /\ value' \in [Resources -> {"none", "bare", "ready"}]
      /\ open' \in [Resources -> Nat]
      /\ \A s \in Resources \ {"redis"} : open'[s] = open[s]
      /\ "cancelled" \notin accidents => open'["redis"] = 0
      /\ LocksOK' /\ ClientsOK' /\ RagOK' /\ RagAlone'
  <2> HIDE DEF step
  <2> QED
    BY <1>2, <1>4, <1>5, <1>6, CloseClientFacts
<1>8. TypeOK'
  BY <1>1, <1>2, <1>4, <1>7 DEF TypeOK
<1>9. ClosedOK'
  <2>1. Closed = {"rag", "longterm", "mq"} /\ Closed' = {"rag", "longterm", "mq", "redis"}
    BY <1>2, <1>5, <1>6 DEF Closed
  <2> QED
    BY <1>1, <1>2, <1>6, <1>7, <2>1 DEF ClosedOK, Resources
<1> QED
  BY <1>4, <1>7, <1>8, <1>9 DEF IInv

\* So does its last step, the connection pool.
LEMMA CloseDbInv == ASSUME IInv, CloseDb PROVE IInv'
<1>1. TypeOK /\ CallsOK /\ ClosedOK
  BY DEF IInv
<1>2. /\ ClosingAt("db") /\ CloseNext(Idle)
      /\ Forget("db") /\ CloseClient("db")
      /\ phase' = "stopped" /\ initialized' = FALSE /\ ready' = {} /\ lifecycle' = Nobody
      /\ UNCHANGED <<lock, consuming, uses, faults, accidents>>
  BY DEF CloseDb
<1>3. /\ proc'["lifespan"] = Idle
      /\ proc' \in [Callers -> {Idle} \union Call]
      /\ \A c \in Callers \ {"lifespan"} : proc'[c] = proc[c]
  BY <1>1, <1>2, CallersFacts DEF CloseNext, TypeOK
<1>4. ~Busy("lifespan")' /\ \A s : ~CreatesAt("lifespan", s)' /\ ~ClosingAt(s)'
  BY <1>3 DEF Busy, CreatesAt, ClosingAt, Closing, Idle
<1>5. /\ phase = "closing" /\ ~consuming /\ \A s : ClosingAt(s) => s = "db"
      /\ \A c \in Callers : Busy(c) /\ c # "lifespan" => c \in Handlers
  BY <1>2, ClosingFacts, ConsumersStopped
<1>6. /\ value' \in [Resources -> {"none", "bare", "ready"}]
      /\ open' \in [Resources -> Nat]
      /\ \A s \in Resources \ {"db"} : open'[s] = open[s]
      /\ "cancelled" \notin accidents => open'["db"] = 0
      /\ LocksOK' /\ ClientsOK' /\ RagOK' /\ RagAlone'
  BY <1>2, <1>3, <1>4, <1>5, CloseClientFacts
<1>7. TypeOK'
  BY <1>1, <1>2, <1>3, <1>6 DEF TypeOK
<1>8. CallsOK'
  <2>1. \A c \in Callers : ~Busy(c)'
    <3> SUFFICES ASSUME NEW c \in Callers, c # "lifespan", Busy(c)
                 PROVE  FALSE
      BY <1>3, <1>4 DEF Busy
    <3>1. c \in Handlers /\ CallOK(c)
      BY <1>1, <1>5 DEF CallsOK
    <3> QED
      BY <1>5, <3>1 DEF CallOK
  <2> QED
    BY <1>1, <1>2, <1>5, <2>1 DEF CallsOK
<1>9. ClosedOK'
  <2>1. Closed = {"rag", "longterm", "mq", "redis"} /\ Closed' = Resources
    BY <1>2, <1>5 DEF Closed
  <2> QED
    BY <1>1, <1>2, <1>6, <2>1 DEF ClosedOK, Resources
<1> QED
  BY <1>6, <1>7, <1>8, <1>9 DEF IInv

\* The connection of MQ is closed, and the handlers with it.
LEMMA CloseMqInv == ASSUME IInv, CloseMq PROVE IInv'
<1> DEFINE k == Cardinality(Creating("rag"))
           H == Cardinality(Handlers)
           redis == Handlers \intersect Creating("redis")
<1>1. TypeOK /\ CallsOK /\ LocksOK /\ ClientsOK /\ RagOK /\ RagAlone /\ ClosedOK
  BY DEF IInv
<1>2. /\ ClosingAt("mq") /\ consuming' = FALSE
      /\ value' = [value EXCEPT !["mq"] = "none"]
      /\ open' = [open EXCEPT !["mq"] = @ - 1, !["redis"] = @ + Cardinality(redis)]
      /\ accidents' = accidents \union (IF redis = {} THEN {} ELSE {"cancelled"})
      /\ UNCHANGED <<phase, initialized, ready, lifecycle, uses, faults>>
  BY DEF CloseMq, Forget, Note, flags
<1>3. /\ phase = "closing" /\ accidents \intersect {"raised", "early"} = {}
      /\ \A c \in Callers : Busy(c) /\ c # "lifespan" => c \in Handlers
      /\ \A s : ~CreatesAt("lifespan", s)
      /\ \A s : ClosingAt(s) => s = "mq"
  BY <1>2, ClosingFacts
<1>4. /\ proc' \in [Callers -> {Idle} \union Call]
      /\ proc'["lifespan"] = Closing("redis")
      /\ \A c \in Callers \ {"lifespan"} : ~Busy(c)'
  <2>1. proc' = [c \in Callers |-> IF c = "lifespan" THEN Closing("redis")
                                   ELSE IF c \in Handlers THEN Idle ELSE proc[c]]
    BY DEF CloseMq
  <2>2. Closing("redis") \in Call
    BY DEF Closing, Call, Resources
  <2>3. proc' \in [Callers -> {Idle} \union Call] /\ proc'["lifespan"] = Closing("redis")
    BY <1>1, <2>1, <2>2, CallersFacts DEF TypeOK
  <2>4. ASSUME NEW c \in Callers \ {"lifespan"}
        PROVE  proc'[c] = Idle
    BY <1>3, <2>1, <2>4 DEF Busy
  <2> QED
    BY <2>3, <2>4 DEF Busy
<1>5. /\ \A c \in Callers : \A s : ~CreatesAt(c, s)'
      /\ \A s : Creating(s)' = {}
  <2>1. \A c \in Callers : \A s : ~CreatesAt(c, s)'
    BY <1>4 DEF CreatesAt, Closing
  <2> QED
    BY <2>1 DEF Creating, CreatesAt
<1>6. /\ proc'["lifespan"].job = "close" /\ proc'["lifespan"].pc = "close"
      /\ proc'["lifespan"].at = "redis"
      /\ \A s : ClosingAt(s)' <=> s = "redis"
  BY <1>4 DEF ClosingAt, Closing
\* One handler at the most has the lock of the Redis client.
<1>7. /\ Cardinality(redis) \in Nat
      /\ redis # {} => /\ Cardinality(redis) = 1 /\ open["redis"] = 0 /\ value["redis"] = "none"
      /\ redis = {} => Cardinality(redis) = 0
  <2>1. CASE redis = {}
    BY <2>1, FS_EmptySet
  <2>2. CASE redis # {}
    <3>1. PICK c \in redis : TRUE
      BY <2>2
    <3>2. c \in Callers /\ CreatesAt(c, "redis") /\ c \in Handlers
      BY <3>1 DEF Creating, CreatesAt
    <3>3. lock["redis"] = c /\ \A d \in Callers : CreatesAt(d, "redis") => d = c
      BY <1>1, <3>2 DEF LocksOK, Locked, Resources
    <3>4. redis = {c}
      BY <3>1, <3>3 DEF Creating, CreatesAt
    <3>5. Cardinality(redis) = 1
      BY <3>4, FS_Singleton
    <3>6. value["redis"] = "none"
      BY <1>1, <3>2, <3>3, CallersFacts DEF LocksOK, Locked, Resources
    <3>7. consuming
      BY <1>1, <3>2 DEF CallsOK, CallOK, CreatesAt
    <3>8. open["redis"] = 0
      BY <1>1, <3>6, <3>7 DEF ClientsOK, Locked, Resources
    <3> QED
      BY <2>2, <3>5, <3>6, <3>8
  <2> QED
    BY <2>1, <2>2
<1>8. value["mq"] # "none" /\ open["mq"] = 1
  BY <1>1, <1>2 DEF ClientsOK, Locked, Resources
<1>9. /\ value' \in [Resources -> {"none", "bare", "ready"}]
      /\ value'["mq"] = "none" /\ \A s \in Resources \ {"mq"} : value'[s] = value[s]
      /\ open' \in [Resources -> Nat]
      /\ open'["mq"] = 0 /\ open'["redis"] = open["redis"] + Cardinality(redis)
      /\ \A s \in Resources \ {"mq", "redis"} : open'[s] = open[s]
  BY <1>1, <1>2, <1>7, <1>8 DEF TypeOK, Resources
<1>10. \A s \in Locked : lock'[s] = Nobody
  <2> SUFFICES ASSUME NEW s \in Locked
               PROVE  lock'[s] = Nobody
    OBVIOUS
  <2>1. lock'[s] = IF lock[s] \in Handlers THEN Nobody ELSE lock[s]
    BY DEF CloseMq
  <2>2. CASE lock[s] = Nobody
    BY <2>1, <2>2
  <2>3. CASE lock[s] \in Callers
    <3>1. CreatesAt(lock[s], s)
      BY <1>1, <2>3 DEF LocksOK
    <3>2. lock[s] \in Handlers
      BY <1>3, <2>3, <3>1 DEF CreatesAt
    <3> QED
      BY <2>1, <3>2
  <2> QED
    BY <1>1, <2>2, <2>3 DEF TypeOK
<1>11. TypeOK'
  <2>1. lock' \in [Locked -> Callers \union {Nobody}]
    <3>1. lock' = [s \in Locked |-> IF lock[s] \in Handlers THEN Nobody ELSE lock[s]]
      BY DEF CloseMq
    <3> QED
      BY <1>1, <3>1 DEF TypeOK
  <2>2. accidents' \subseteq Accidents
    BY <1>1, <1>2 DEF TypeOK, Accidents
  <2> QED
    BY <1>1, <1>2, <1>4, <1>9, <2>1, <2>2 DEF TypeOK
<1>12. CallsOK'
  <2>1. CallOK("lifespan")' /\ Busy("lifespan")'
    BY <1>2, <1>3, <1>4, <1>6, CallersFacts DEF CallOK, Busy, Closing, Idle
  <2> QED
    BY <1>2, <1>3, <1>4, <2>1 DEF CallsOK
<1>13. LocksOK'
  BY <1>5, <1>10, CallersFacts DEF LocksOK
<1>14. ClientsOK'
  <2>1. ASSUME NEW s \in Locked
        PROVE  \/ open'[s] = IF value'[s] = "none" THEN 0 ELSE 1
               \/ /\ s = "redis" /\ "cancelled" \in accidents'
                  /\ open'[s] = 1 /\ value'[s] = "none"
    <3>1. CASE s = "mq"
      BY <1>9, <3>1
    <3>2. CASE s = "redis" /\ redis # {}
      BY <1>2, <1>7, <1>9, <3>2 DEF Resources
    <3>3. CASE s # "mq" /\ (s = "redis" => redis = {})
      <4>1. s \in Resources /\ value'[s] = value[s] /\ open'[s] = open[s]
        BY <1>1, <1>7, <1>9, <3>3 DEF Locked, Resources, TypeOK
      <4> QED
        BY <1>1, <1>2, <4>1 DEF ClientsOK
    <3> QED
      BY <3>1, <3>2, <3>3
  <2>2. "cancelled" \in accidents' => ~consuming' /\ phase' \in {"closing", "stopped"}
    BY <1>2, <1>3
  <2>3. ~ClosingAt("mq")'
    BY <1>6
  <2> QED
    BY <2>1, <2>2, <2>3 DEF ClientsOK
<1>15. /\ k \in Nat /\ k' = 0 /\ H \in Nat /\ Overlap \in Nat /\ H' = H /\ Overlap' = Overlap
       /\ faults \in Nat /\ open["rag"] \in Nat
       /\ value'["rag"] = value["rag"] /\ open'["rag"] = open["rag"]
  <2>1. k \in Nat /\ H \in Nat /\ Overlap \in Nat /\ H' = H /\ Overlap' = Overlap
    BY CreatingCount, CallersFacts DEF Overlap
  <2>2. k' = 0
    BY <1>5, FS_EmptySet
  <2>3. /\ faults \in Nat /\ open["rag"] \in Nat
        /\ value'["rag"] = value["rag"] /\ open'["rag"] = open["rag"]
    BY <1>1, <1>9, BoundsAssumption DEF TypeOK, Resources
  <2> QED
    BY <2>1, <2>2, <2>3
<1>16. RagOK'
  <2>1. /\ value["rag"] \in {"none", "ready"}
        /\ open["rag"] >= 0 + IF value["rag"] = "none" THEN 0 ELSE 1
    BY <1>1, <1>15 DEF RagOK
  <2>2. IF accidents \intersect {"late", "raised"} = {}
        THEN open["rag"] <= faults + Overlap
        ELSE open["rag"] <= faults + Overlap + H
    BY <1>1, <1>3 DEF RagOK
  <2>3. /\ accidents' \intersect {"late", "raised"} = accidents \intersect {"late", "raised"}
        /\ "early" \notin accidents'
    BY <1>2, <1>3
  <2> QED
    BY <1>2, <1>3, <1>6, <1>15, <2>1, <2>2, <2>3 DEF RagOK
<1>17. RagAlone'
  <2> SUFFICES ASSUME "engine" \notin accidents'
               PROVE  /\ \/ open["rag"] = IF value["rag"] = "none" THEN 0 ELSE 1
                         \/ open["rag"] = 1 /\ value["rag"] = "none"
                      /\ RagSettled'
    BY <1>2, <1>3, <1>5, <1>15 DEF RagAlone
  <2>1. "engine" \notin accidents
    BY <1>2
  <2>2. RagSettled'
    BY <1>2, <1>3, <1>6 DEF RagSettled
  <2> QED
    BY <1>1, <1>15, <2>1, <2>2 DEF RagAlone
<1>18. ClosedOK'
  <2>1. Closed = {"rag", "longterm"} /\ Closed' = {"rag", "longterm", "mq"}
    BY <1>2, <1>3, <1>6 DEF Closed
  <2>2. accidents' \subseteq {"setup"} => accidents \subseteq {"setup"}
    BY <1>2
  <2>3. open'["rag"] = open["rag"] /\ open'["longterm"] = open["longterm"]
    BY <1>9 DEF Resources
  <2> QED
    BY <1>1, <1>2, <1>9, <2>1, <2>2, <2>3 DEF ClosedOK
<1> QED
  BY <1>11, <1>12, <1>13, <1>14, <1>16, <1>17, <1>18 DEF IInv

(***************************************************************************)
(* The invariant is inductive, and what follows from it.                   *)
(***************************************************************************)

\* The invariant holds when the process starts.
LEMMA InitInv == Init => IInv
<1> SUFFICES ASSUME Init
             PROVE  IInv
  OBVIOUS
<1> USE DEF Init
<1>1. /\ proc \in [Callers -> {Idle} \union Call]
      /\ proc["lifespan"] = [job |-> "init", at |-> "redis", pc |-> "call"]
      /\ \A c \in Callers \ {"lifespan"} : ~Busy(c)
  BY CallersFacts DEF Call, Resources, Busy
<1>2. TypeOK
  <2>1. /\ value \in [Resources -> {"none", "bare", "ready"}]
        /\ open \in [Resources -> Nat]
        /\ lock \in [Locked -> Callers \union {Nobody}]
    OBVIOUS
  <2>2. 0 \in 0..MaxUses /\ 0 \in 0..MaxFaults
    BY BoundsAssumption
  <2>3. lifecycle \in Callers \union {Nobody} /\ initialized \in BOOLEAN /\ consuming \in BOOLEAN
    BY CallersFacts
  <2> QED
    BY <1>1, <2>1, <2>2, <2>3 DEF TypeOK
<1>3. CallsOK
  <2>1. CallOK("lifespan") /\ Busy("lifespan")
    BY <1>1, CallersFacts DEF CallOK, Resources, Busy, Idle
  <2> QED
    BY <1>1, <2>1 DEF CallsOK
<1>4. \A c \in Callers : \A r : ~CreatesAt(c, r)
  BY <1>1 DEF CreatesAt
<1>5. \A r : Creating(r) = {} /\ ~ClosingAt(r)
  BY <1>1, <1>4 DEF Creating, CreatesAt, ClosingAt, Closing
<1>6. LocksOK
  BY <1>4, CallersFacts DEF LocksOK
<1>7. ClientsOK
  BY <1>5 DEF ClientsOK, Locked
<1>8. Cardinality(Creating("rag")) = 0
  BY <1>5, FS_EmptySet
<1>9. RagOK
  BY <1>5, <1>8 DEF RagOK, Resources
<1>10. RagAlone
  BY <1>1, <1>5, <1>8 DEF RagAlone, RagSettled, Resources
<1>11. ClosedOK
  BY DEF ClosedOK, Closed
<1> QED
  BY <1>2, <1>3, <1>6, <1>7, <1>9, <1>10, <1>11 DEF IInv

\* Every step keeps it: one case for each action of Next.
LEMMA NextInv == IInv /\ [Next]_vars => IInv'
<1> SUFFICES ASSUME IInv, [Next]_vars
             PROVE  IInv'
  OBVIOUS
<1>1. ASSUME NEW c \in Callers, Proceed(c)
      PROVE  IInv'
  BY <1>1, CheckInv, AcquireInv, ConnectedInv, BuildGraphInv, EnterInv DEF Proceed
<1>2. CASE StartWorkers
  BY <1>2, StartWorkersInv
<1>3. ASSUME NEW c \in Requests \union Handlers, NEW r \in Resources, Use(c, r)
      PROVE  IInv'
  BY <1>3, UseInv
<1>4. ASSUME NEW c \in Requests, InitAgain(c)
      PROVE  IInv'
  BY <1>4, InitAgainInv
<1>5. CASE CloseStart
  BY <1>5, CloseStartInv
<1>6. CASE CloseStep
  BY <1>6, CloseRagInv, CloseLongtermInv, CloseMqInv, CloseRedisInv, CloseDbInv DEF CloseStep
<1>7. CASE UNCHANGED vars
  BY <1>7 DEF vars, flags, globals, IInv, TypeOK, CallsOK, CallOK, Busy, LocksOK, CreatesAt,
              ClientsOK, ClosingAt, RagOK, Creating, RagAlone, RagSettled, ClosedOK, Closed,
              Overlap
<1> QED
  BY <1>1, <1>2, <1>3, <1>4, <1>5, <1>6, <1>7 DEF Next

\* The inductive invariant holds in every reachable state.
THEOREM Inductive == Spec => []IInv
  BY InitInv, NextInv, PTL DEF Spec

\* The variables keep their types, among them a count of open clients that is
\* never negative: nothing is closed that was not open.
THEOREM TypeCorrect == Spec => []TypeOK
<1>1. IInv => TypeOK
  BY DEF IInv
<1> QED
  BY <1>1, Inductive, PTL

\* There is never a second client of a kind that has a lock, and the engines of
\* RetrievalStore, which has none, are no more than its failures and its callers
\* account for.
THEOREM OneClientEach == Spec => []OneClient
<1>1. IInv => OneClient
  <2> SUFFICES ASSUME IInv
               PROVE  OneClient
    OBVIOUS
  <2> DEFINE k == Cardinality(Creating("rag"))
             H == Cardinality(Handlers)
  <2>1. \A r \in Locked : open[r] <= 1
    BY DEF IInv, ClientsOK
  <2>2. /\ k \in Nat /\ H \in Nat /\ Overlap \in Nat /\ faults \in Nat /\ open["rag"] \in Nat
        /\ k <= Overlap
    BY CreatingCount, CreatingBound, CallersFacts, BoundsAssumption
       DEF IInv, TypeOK, Resources
  <2>3. open["rag"] > 1 => "engine" \in accidents
    BY <2>2 DEF IInv, RagAlone
  <2>4. open["rag"] <= Overlap + faults
            + (IF accidents \intersect {"late", "raised"} = {} THEN 0 ELSE H)
    <3>1. RagOK /\ CallsOK
      BY DEF IInv
    <3>2. CASE phase \notin {"closing", "stopped"} \/ "early" \in accidents
      BY <2>2, <3>1, <3>2 DEF RagOK
    <3>3. CASE phase \in {"closing", "stopped"} /\ "early" \notin accidents
      BY <2>2, <3>1, <3>3 DEF RagOK
    <3> QED
      BY <3>2, <3>3
  <2> QED
    BY <2>1, <2>3, <2>4 DEF OneClient, Overlap
<1> QED
  BY <1>1, Inductive, PTL

\* A shutdown in which nothing went wrong but the set-up of the long-term store
\* leaves no client open.
THEOREM CleanStop == Spec => []StoppedClean
<1>1. IInv => StoppedClean
  BY DEF IInv, ClosedOK, Closed, StoppedClean
<1> QED
  BY <1>1, Inductive, PTL

=============================================================================
