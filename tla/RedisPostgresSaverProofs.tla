---------------------- MODULE RedisPostgresSaverProofs ----------------------
(***************************************************************************)
(* Proofs about RedisPostgresSaver for every finite set of requests, any   *)
(* consumers, any number of checkpoints and faults.                        *)
(***************************************************************************)
EXTENDS RedisPostgresSaver, FiniteSetTheorems, SequenceTheorems, WellFoundedInduction, TLAPS

(***************************************************************************)
(* The inductive invariant.                                                *)
(***************************************************************************)

Done == {q \in Requests : request[q].pc = "done"}
Pending(r) == request[r].pc \in {"sadd", "publish"}
Top(i, S) == i \in S /\ \A j \in S : j <= i

SequencesOK == content \in Seq(SUBSET Requests) /\ rows \in Seq(Ids)

\* A checkpoint is the n-th of one request; so there are enough ids for all.
Numbered ==
    \E f \in [DOMAIN content -> Requests \X (1..MaxPuts)] :
        /\ \A i, j \in DOMAIN content : f[i] = f[j] => i = j
        /\ \A i \in DOMAIN content :
              /\ request[f[i][1]].pc \notin {"idle", "payload", "select"}
              /\ HasLoaded(f[i][1]) => f[i][2] <= request[f[i][1]].puts

\* Tasks are of checkpoints whose put has ended, rows of tasks that a consumer
\* has handled; and what a consumer is about to ack only that one has.
TasksOK ==
    /\ queue \subseteq accepted /\ accepted \subseteq ended
    /\ RowIds \subseteq handled /\ handled \subseteq accepted
    /\ \A w \in Workers : worker[w] # None => worker[w] \in queue /\ worker[w] \in handled
    /\ \A v, w \in Workers : worker[v] = worker[w] /\ worker[v] # None => v = w

\* The checkpoint a request is about to list or publish is its own.
PutsOK ==
    \A r \in Requests :
        /\ request[r].pc = "payload" => request[r].latest \in DOMAIN content
        /\ Pending(r) =>
              /\ request[r].id \in DOMAIN content /\ request[r].id \notin ended
              /\ request[r].puts > 0
              /\ content[request[r].id] = request[r].base \union {r}
              /\ \A q \in Requests : Pending(q) /\ request[q].id = request[r].id => q = r

Kept == "lost" \notin broken => ended \subseteq queue \union RowIds /\ handled \subseteq RowIds

InOrder == "disorder" \notin broken /\ rows # <<>> => Top(NewestRow, RowIds)

\* While no two requests have run at once, the one that runs began when the
\* others had ended, and what it puts is newer than all there is.
Alone ==
    "overlap" \notin broken =>
        /\ \A p, q \in Requests : Running(p) /\ Running(q) => p = q
        /\ \A r \in Requests : Running(r) => request[r].before = Done
        /\ \A r \in Requests : Pending(r) => request[r].id = Len(content)

\* And the newest checkpoint in either level has the messages of all that ended.
Complete ==
    broken \intersect {"overlap", "unlisted", "fallback"} = {} =>
        /\ \A r \in Requests : HasLoaded(r) => Done \subseteq request[r].base
        /\ \A r \in Requests :
              request[r].pc = "payload" => Done \subseteq content[request[r].latest]
        /\ \A i \in ids : Top(i, ids) => Done \subseteq content[i]
        /\ \A i \in ended : Top(i, ended) => Done \subseteq content[i]
        /\ ended = {} => Done = {}
        /\ \A r \in Requests : request[r].pc = "publish" =>
              \A i \in ids : Top(i, ids) => r \in content[i]
        /\ \A r \in Requests : request[r].pc = "put" /\ request[r].puts > 0 =>
              /\ \A i \in ids : Top(i, ids) => r \in content[i]
              /\ \A i \in ended : Top(i, ended) => r \in content[i]
              /\ ended # {}

IInv ==
    /\ TypeOK
    /\ SequencesOK
    /\ Numbered
    /\ TasksOK
    /\ PutsOK
    /\ Kept
    /\ InOrder
    /\ Alone
    /\ Complete

(***************************************************************************)
(* Lemmas about the state.                                                 *)
(***************************************************************************)

\* A set of indices that is not empty has a greatest one.
LEMMA GreatestIndex ==
    ASSUME NEW n \in Nat, NEW S, S \subseteq 1..n, S # {}
    PROVE  Top(MaxOf(S), S)
<1> DEFINE T == {n - i : i \in S}
<1>1. T \subseteq Nat /\ T # {}
  <2>1. \A i \in S : n - i \in Nat
    OBVIOUS
  <2> QED
    BY <2>1
<1>2. \E x \in T : \A y \in T : ~(<<y, x>> \in OpToRel(<, Nat))
  BY <1>1, NatLessThanWellFounded, WFMin
<1>3. PICK x \in T : \A y \in T : ~(y < x)
  BY <1>1, <1>2 DEF OpToRel
<1>4. PICK i \in S : x = n - i
  OBVIOUS
<1>5. \A j \in S : ~(n - j < n - i)
  BY <1>3, <1>4
<1>6. \A j \in S : j <= i
  BY <1>5
<1> QED
  BY <1>6 DEF Top, MaxOf

\* What a request is doing, and the fields it has then.
LEMMA RequestFields ==
    ASSUME TypeOK, NEW r \in Requests
    PROVE  /\ request[r].pc \in {"idle", "done", "dead", "payload", "select",
                                 "put", "sadd", "publish"}
           /\ request[r].pc \in {"payload", "select"} =>
                 /\ request[r] \in Reading
                 /\ request[r].before \subseteq Requests
                 /\ request[r].latest \in {0} \union Ids
           /\ HasLoaded(r) =>
                 /\ request[r] \in Writing
                 /\ request[r].base \subseteq Requests
                 /\ request[r].before \subseteq Requests
                 /\ request[r].id \in {0} \union Ids
                 /\ request[r].puts \in 0..MaxPuts /\ request[r].puts \in Nat
           /\ Running(r) <=> request[r].pc \in {"payload", "select"} \/ HasLoaded(r)
           /\ Pending(r) => HasLoaded(r) /\ Running(r)
<1>1. request[r] \in {NotBegun} \union Ended \union Reading \union Writing
  BY DEF TypeOK
<1>2. CASE request[r] \in {NotBegun} \union Ended
  BY <1>2 DEF NotBegun, Ended, HasLoaded, Running, Pending
<1>3. CASE request[r] \in Reading
  BY <1>3 DEF Reading, HasLoaded, Running, Pending
<1>4. CASE request[r] \in Writing
  BY <1>4, BoundsAssumption DEF Writing, HasLoaded, Running, Pending
<1> QED
  BY <1>1, <1>2, <1>3, <1>4

\* One request goes on.
LEMMA Assigned ==
    ASSUME TypeOK, NEW r \in Requests,
           NEW x \in {NotBegun} \union Ended \union Reading \union Writing,
           request' = [request EXCEPT ![r] = x]
    PROVE  /\ request' \in [Requests -> {NotBegun} \union Ended \union Reading \union Writing]
           /\ request'[r] = x
           /\ \A q \in Requests \ {r} : request'[q] = request[q]
  BY DEF TypeOK

\* The checkpoints and the rows are sequences, and the newest row is one of them.
LEMMA SequenceFacts ==
    ASSUME TypeOK, SequencesOK
    PROVE  /\ Len(content) \in Nat /\ DOMAIN content = 1..Len(content)
           /\ Len(rows) \in Nat /\ DOMAIN rows = 1..Len(rows)
           /\ (rows = <<>> <=> RowIds = {})
           /\ rows # <<>> => NewestRow \in RowIds
           /\ IsFiniteSet(RowIds)
<1>1. /\ Len(content) \in Nat /\ DOMAIN content = 1..Len(content)
      /\ Len(rows) \in Nat /\ DOMAIN rows = 1..Len(rows)
  BY LenProperties DEF SequencesOK
<1>2. rows = <<>> => RowIds = {}
  BY DEF RowIds
<1>3. rows # <<>> => Len(rows) \in DOMAIN rows
  BY <1>1, EmptySeq DEF SequencesOK
<1>4. rows # <<>> => NewestRow \in RowIds
  BY <1>3 DEF NewestRow, RowIds
<1>5. RowIds \subseteq 1..Len(content) /\ IsFiniteSet(1..Len(content))
  BY <1>1, FS_Interval DEF TypeOK
<1>6. IsFiniteSet(RowIds)
  BY <1>5, FS_Subset
<1> QED
  BY <1>1, <1>2, <1>4, <1>6

(***************************************************************************)
(* Frames: parts of the invariant that a step leaves as they are.          *)
(***************************************************************************)

\* What the invariant says of persist tasks and rows does not depend on the rest.
LEMMA TasksFrame ==
    ASSUME TasksOK, Kept, InOrder, broken \subseteq broken',
           UNCHANGED <<queue, worker, rows, history>>
    PROVE  TasksOK' /\ Kept' /\ InOrder'
<1>1. UNCHANGED <<queue, worker, rows, ended, accepted, handled>>
  BY DEF history
<1>2. RowIds' = RowIds /\ (rows # <<>> => NewestRow' = NewestRow)
  BY <1>1 DEF RowIds, NewestRow
<1>3. InOrder'
  BY <1>1, <1>2 DEF InOrder, Top
<1> QED
  BY <1>1, <1>2, <1>3 DEF TasksOK, Kept

\* Steps of the consumers, and of Redis when keys expire.
LEMMA RequestsFrame ==
    ASSUME Numbered, PutsOK, Alone, Complete, broken \subseteq broken',
           UNCHANGED <<content, request, ended>>, ids' = ids \/ ids' = {}
    PROVE  Numbered' /\ PutsOK' /\ Alone' /\ Complete'
<1>1. Done' = Done
  BY DEF Done
<1>2. \A i \in ids' : Top(i, ids)' => Top(i, ids) /\ i \in ids
  BY DEF Top
<1>3. \A i \in ended' : Top(i, ended)' => Top(i, ended) /\ i \in ended
  BY DEF Top
<1>4. Numbered'
  BY DEF Numbered, HasLoaded
<1>5. PutsOK'
  BY DEF PutsOK, Pending
<1>6. Alone'
  BY <1>1 DEF Alone, Running, Pending
<1>7. Complete'
  BY <1>1, <1>2, <1>3 DEF Complete, HasLoaded
<1> QED
  BY <1>4, <1>5, <1>6, <1>7

\* A request goes on without a new checkpoint.
LEMMA NumberedFrame ==
    ASSUME TypeOK, Numbered, content' = content,
           \A q \in Requests :
              /\ request[q].pc \notin {"idle", "payload", "select"} =>
                    request'[q].pc \notin {"idle", "payload", "select"}
              /\ HasLoaded(q)' /\ request[q].pc \notin {"idle", "payload", "select"} =>
                    HasLoaded(q) /\ request'[q].puts = request[q].puts
    PROVE  Numbered'
<1>1. PICK f \in [DOMAIN content -> Requests \X (1..MaxPuts)] :
        /\ \A i, j \in DOMAIN content : f[i] = f[j] => i = j
        /\ \A i \in DOMAIN content :
              /\ request[f[i][1]].pc \notin {"idle", "payload", "select"}
              /\ HasLoaded(f[i][1]) => f[i][2] <= request[f[i][1]].puts
  BY DEF Numbered
<1>2. \A i \in DOMAIN content : f[i][1] \in Requests
  OBVIOUS
<1>3. \A i \in DOMAIN content :
         /\ request'[f[i][1]].pc \notin {"idle", "payload", "select"}
         /\ HasLoaded(f[i][1])' => f[i][2] <= request'[f[i][1]].puts
  BY <1>1, <1>2
<1> QED
  BY <1>1, <1>3 DEF Numbered

(***************************************************************************)
(* The steps of a request.                                                 *)
(***************************************************************************)

\* The SMEMBERS a request starts with keeps the invariant, answered or not.
LEMMA BeginInv == ASSUME IInv, NEW r \in Requests, Begin(r) PROVE IInv'
<1>1. /\ TypeOK /\ SequencesOK /\ Numbered /\ TasksOK /\ PutsOK /\ Kept /\ InOrder /\ Alone
      /\ Complete /\ request[r].pc = "idle"
      /\ UNCHANGED <<content, keys, ids, queue, worker, rows, history, ended, accepted, handled>>
  BY DEF IInv, Begin, redis, history
<1>2. /\ broken \subseteq broken' /\ broken' \subseteq Flags
      /\ broken' \subseteq broken \union {"overlap"}
      /\ "overlap" \notin broken' => \A q \in Requests : ~Running(q)
  BY <1>1 DEF Begin, TypeOK, Flags
<1>3. faults' \in 0..MaxFaults
  BY <1>1, BoundsAssumption DEF Begin, Fault, NoFault, TypeOK
<1>4. PICK x \in Reading :
        /\ request' = [request EXCEPT ![r] = x]
        /\ x.pc \in {"payload", "select"} /\ x.before = Done
        /\ x.pc = "payload" => x.latest \in DOMAIN content /\ Top(x.latest, ids)
  <2>1. Done \subseteq Requests
    BY DEF Done
  <2>2. CASE /\ ids # {}
             /\ request' = [request EXCEPT ![r] =
                    [pc |-> "payload", before |-> Done, latest |-> MaxOf(ids)]]
    <3> DEFINE x == [pc |-> "payload", before |-> Done, latest |-> MaxOf(ids)]
    <3>1. Top(MaxOf(ids), ids)
      BY <1>1, <2>2, SequenceFacts, GreatestIndex DEF TypeOK
    <3>2. MaxOf(ids) \in DOMAIN content /\ MaxOf(ids) \in Ids
      BY <1>1, <3>1 DEF TypeOK, Top
    <3>3. x \in Reading
      BY <2>1, <3>2 DEF Reading
    <3> QED
      BY <2>2, <3>1, <3>2, <3>3
  <2>3. CASE request' = [request EXCEPT ![r] = [pc |-> "select", before |-> Done, latest |-> 0]]
    <3> DEFINE x == [pc |-> "select", before |-> Done, latest |-> 0]
    <3>1. x \in Reading
      BY <2>1 DEF Reading
    <3> QED
      BY <2>3, <3>1
  <2> QED
    BY <2>2, <2>3 DEF Begin, Done
<1>5. /\ request' \in [Requests -> {NotBegun} \union Ended \union Reading \union Writing]
      /\ request'[r] = x
      /\ \A q \in Requests \ {r} : request'[q] = request[q]
  BY <1>1, <1>4, Assigned
<1>6. ~HasLoaded(r)' /\ ~Pending(r)' /\ Running(r)' /\ ~HasLoaded(r) /\ ~Pending(r) /\ ~Running(r)
  BY <1>1, <1>4, <1>5 DEF HasLoaded, Pending, Running
<1>7. \A q \in Requests \ {r} : /\ HasLoaded(q)' <=> HasLoaded(q)
                                /\ Pending(q)' <=> Pending(q)
                                /\ Running(q)' <=> Running(q)
  BY <1>5 DEF HasLoaded, Pending, Running
<1>8. Done' = Done
  BY <1>1, <1>4, <1>5 DEF Done
<1>9. TypeOK'
  BY <1>1, <1>2, <1>3, <1>5 DEF TypeOK, RowIds
<1>10. SequencesOK' /\ TasksOK' /\ Kept' /\ InOrder'
  BY <1>1, <1>2, TasksFrame DEF SequencesOK
<1>11. Numbered'
  BY <1>1, <1>5, <1>6, <1>7, NumberedFrame
<1>12. PutsOK'
  <2>1. ASSUME NEW q \in Requests
        PROVE  /\ request'[q].pc = "payload" => request'[q].latest \in DOMAIN content
               /\ Pending(q)' =>
                     /\ request'[q].id \in DOMAIN content /\ request'[q].id \notin ended
                     /\ request'[q].puts > 0
                     /\ content[request'[q].id] = request'[q].base \union {q}
                     /\ \A p \in Requests : Pending(p)' /\ request'[p].id = request'[q].id => p = q
    <3>1. CASE q = r
      BY <1>4, <1>5, <1>6, <3>1
    <3>2. CASE q # r
      BY <1>1, <1>5, <1>6, <1>7, <3>2 DEF PutsOK
    <3> QED
      BY <3>1, <3>2
  <2> QED
    BY <1>1, <2>1 DEF PutsOK
<1>13. Alone'
  <2> SUFFICES ASSUME "overlap" \notin broken'
               PROVE  /\ \A p, q \in Requests : Running(p)' /\ Running(q)' => p = q
                      /\ \A q \in Requests : Running(q)' => request'[q].before = Done
                      /\ \A q \in Requests : ~Pending(q)'
    BY <1>1, <1>8 DEF Alone
  <2>1. \A q \in Requests \ {r} : ~Running(q)' /\ ~Pending(q)'
    BY <1>1, <1>2, <1>7, RequestFields
  <2> QED
    BY <1>4, <1>5, <1>6, <2>1
<1>14. Complete'
  <2> SUFFICES ASSUME broken' \intersect {"overlap", "unlisted", "fallback"} = {}
               PROVE  /\ \A q \in Requests : ~HasLoaded(q)'
                      /\ \A q \in Requests :
                            request'[q].pc = "payload" => Done \subseteq content[request'[q].latest]
                      /\ \A i \in ids : Top(i, ids) => Done \subseteq content[i]
                      /\ \A i \in ended : Top(i, ended) => Done \subseteq content[i]
                      /\ ended = {} => Done = {}
    BY <1>1, <1>8 DEF Complete, HasLoaded, Top
  <2>1. broken \intersect {"overlap", "unlisted", "fallback"} = {}
    BY <1>2
  <2>2. \A q \in Requests \ {r} : ~Running(q) /\ ~HasLoaded(q) /\ request[q].pc # "payload"
    BY <1>1, <1>2, RequestFields
  <2>3. request'[r].pc = "payload" => Done \subseteq content[request'[r].latest]
    BY <1>1, <1>4, <1>5, <2>1 DEF Complete, Top
  <2> QED
    BY <1>1, <1>5, <1>6, <1>7, <2>1, <2>2, <2>3 DEF Complete
<1> QED
  BY <1>9, <1>10, <1>11, <1>12, <1>13, <1>14 DEF IInv

\* What the other requests are doing is unchanged.
LEMMA Others ==
    ASSUME NEW r \in Requests, \A q \in Requests \ {r} : request'[q] = request[q]
    PROVE  \A q \in Requests \ {r} : /\ HasLoaded(q)' <=> HasLoaded(q)
                                     /\ Pending(q)' <=> Pending(q)
                                     /\ Running(q)' <=> Running(q)
  BY DEF HasLoaded, Pending, Running

\* A request goes on to PostgreSQL, or has loaded what it starts from.
LEMMA LoadInv ==
    ASSUME IInv, NEW r \in Requests, request[r].pc \in {"payload", "select"},
           NEW x, request' = [request EXCEPT ![r] = x],
           \/ x \in Reading /\ x.pc = "select"
           \/ /\ x \in Writing /\ x.pc = "put" /\ x.puts = 0
              /\ broken' \intersect {"overlap", "unlisted", "fallback"} = {} => Done \subseteq x.base,
           x.before = request[r].before,
           broken \subseteq broken', broken' \subseteq Flags, faults' \in 0..MaxFaults,
           UNCHANGED <<content, redis, queue, worker, rows, history>>
    PROVE  IInv'
<1>1. /\ TypeOK /\ SequencesOK /\ Numbered /\ TasksOK /\ PutsOK /\ Kept /\ InOrder /\ Alone
      /\ Complete
      /\ UNCHANGED <<content, keys, ids, queue, worker, rows, history, ended, accepted, handled>>
  BY DEF IInv, redis, history
<1>2. /\ request' \in [Requests -> {NotBegun} \union Ended \union Reading \union Writing]
      /\ request'[r] = x
      /\ \A q \in Requests \ {r} : request'[q] = request[q]
  BY <1>1, Assigned
<1>3. /\ Running(r) /\ Running(r)' /\ ~HasLoaded(r) /\ ~Pending(r) /\ ~Pending(r)'
      /\ x.pc \in {"select", "put"}
      /\ HasLoaded(r)' => x.pc = "put"
  BY <1>2 DEF HasLoaded, Pending, Running
<1>4. \A q \in Requests \ {r} : /\ HasLoaded(q)' <=> HasLoaded(q)
                                /\ Pending(q)' <=> Pending(q)
                                /\ Running(q)' <=> Running(q)
  BY <1>2, Others
<1>5. Done' = Done
  BY <1>1, <1>2, <1>3 DEF Done
<1>6. TypeOK'
  BY <1>1, <1>2 DEF TypeOK, RowIds
<1>7. SequencesOK' /\ TasksOK' /\ Kept' /\ InOrder'
  BY <1>1, TasksFrame DEF SequencesOK
<1>8. Numbered'
  BY <1>1, <1>2, <1>3, <1>4, NumberedFrame
<1>9. PutsOK'
  <2>1. ASSUME NEW q \in Requests
        PROVE  /\ request'[q].pc = "payload" => request'[q].latest \in DOMAIN content
               /\ Pending(q)' =>
                     /\ request'[q].id \in DOMAIN content /\ request'[q].id \notin ended
                     /\ request'[q].puts > 0
                     /\ content[request'[q].id] = request'[q].base \union {q}
                     /\ \A p \in Requests : Pending(p)' /\ request'[p].id = request'[q].id => p = q
    <3>1. CASE q = r
      BY <1>2, <1>3, <3>1
    <3>2. CASE q # r
      BY <1>1, <1>2, <1>3, <1>4, <3>2 DEF PutsOK
    <3> QED
      BY <3>1, <3>2
  <2> QED
    BY <1>1, <2>1 DEF PutsOK
<1>10. Alone'
  <2> SUFFICES ASSUME "overlap" \notin broken'
               PROVE  /\ \A p, q \in Requests : Running(p)' /\ Running(q)' => p = q
                      /\ \A q \in Requests : Running(q)' => request'[q].before = Done
                      /\ \A q \in Requests : Pending(q)' => request'[q].id = Len(content)
    BY <1>1, <1>5 DEF Alone
  <2>1. "overlap" \notin broken
    OBVIOUS
  <2>2. \A q \in Requests : Running(q)' <=> Running(q)
    BY <1>3, <1>4
  <2> QED
    BY <1>1, <1>2, <1>3, <1>4, <2>1, <2>2 DEF Alone
<1>11. Complete'
  <2> SUFFICES ASSUME broken' \intersect {"overlap", "unlisted", "fallback"} = {}
               PROVE  /\ \A q \in Requests : HasLoaded(q)' => Done \subseteq request'[q].base
                      /\ \A q \in Requests :
                            request'[q].pc = "payload" => Done \subseteq content[request'[q].latest]
                      /\ \A i \in ids : Top(i, ids) => Done \subseteq content[i]
                      /\ \A i \in ended : Top(i, ended) => Done \subseteq content[i]
                      /\ ended = {} => Done = {}
                      /\ \A q \in Requests : request'[q].pc = "publish" =>
                            \A i \in ids : Top(i, ids) => q \in content[i]
                      /\ \A q \in Requests : request'[q].pc = "put" /\ request'[q].puts > 0 =>
                            /\ \A i \in ids : Top(i, ids) => q \in content[i]
                            /\ \A i \in ended : Top(i, ended) => q \in content[i]
                            /\ ended # {}
    BY <1>1, <1>5 DEF Complete, Top
  <2>1. broken \intersect {"overlap", "unlisted", "fallback"} = {}
    OBVIOUS
  <2>2. HasLoaded(r)' => Done \subseteq request'[r].base
    BY <1>2, <1>3
  <2>3. x.pc = "put" => ~(x.puts > 0)
    BY <1>3
  <2> QED
    BY <1>1, <1>2, <1>3, <1>4, <2>1, <2>2, <2>3 DEF Complete
<1> QED
  BY <1>6, <1>7, <1>8, <1>9, <1>10, <1>11 DEF IInv

\* What a request starts from is typed.
LEMMA LoadedType ==
    ASSUME TypeOK, NEW r \in Requests, request[r].pc \in {"payload", "select"},
           NEW base, base \subseteq Requests
    PROVE  /\ Loaded(r, base) \in Writing /\ Loaded(r, base).pc = "put"
           /\ Loaded(r, base).puts = 0 /\ Loaded(r, base).base = base
           /\ Loaded(r, base).before = request[r].before
<1>1. 0 \in 0..MaxPuts
  BY BoundsAssumption
<1> QED
  BY <1>1, RequestFields DEF Loaded, Writing

\* The GET of the newest payload keeps it.
LEMMA ReadPayloadInv == ASSUME IInv, NEW r \in Requests, ReadPayload(r) PROVE IInv'
<1>1. /\ TypeOK /\ PutsOK /\ Alone /\ Complete /\ request[r].pc = "payload"
      /\ UNCHANGED <<content, redis, queue, worker, rows, history, broken>>
  BY DEF IInv, ReadPayload
<1>2. broken \subseteq broken' /\ broken' \subseteq Flags /\ faults' \in 0..MaxFaults
  BY <1>1, BoundsAssumption DEF ReadPayload, Fault, NoFault, TypeOK
<1>3. CASE request' = [request EXCEPT ![r] = Loaded(r, content[request[r].latest])]
  <2> DEFINE base == content[request[r].latest]
  <2>1. request[r].latest \in DOMAIN content
    BY <1>1 DEF PutsOK
  <2>2. base \subseteq Requests
    BY <1>1, <2>1 DEF TypeOK
  <2>3. broken' \intersect {"overlap", "unlisted", "fallback"} = {} => Done \subseteq base
    BY <1>1 DEF Complete
  <2> HIDE DEF base
  <2>4. /\ Loaded(r, base) \in Writing /\ Loaded(r, base).pc = "put"
        /\ Loaded(r, base).puts = 0 /\ Loaded(r, base).base = base
        /\ Loaded(r, base).before = request[r].before
    BY <1>1, <2>2, LoadedType
  <2> QED
    BY <1>1, <1>2, <1>3, <2>3, <2>4, LoadInv DEF base
<1>4. CASE request' = [request EXCEPT ![r].pc = "select", ![r].latest = 0]
  <2> DEFINE x == [[request[r] EXCEPT !.pc = "select"] EXCEPT !.latest = 0]
  <2>1. request[r] \in Reading /\ request[r].before \subseteq Requests
    BY <1>1, RequestFields
  <2>2. x \in Reading /\ x.pc = "select" /\ x.before = request[r].before
    BY <2>1 DEF Reading
  <2>3. request' = [request EXCEPT ![r] = x]
    BY <1>1, <1>4 DEF TypeOK
  <2> HIDE DEF x
  <2> QED
    BY <1>1, <1>2, <2>2, <2>3, LoadInv
<1> QED
  BY <1>3, <1>4 DEF ReadPayload

\* The fallback of aget_tuple on PostgreSQL keeps it.
LEMMA SelectInv == ASSUME IInv, NEW r \in Requests, Select(r) PROVE IInv'
<1>1. /\ TypeOK /\ SequencesOK /\ TasksOK /\ Kept /\ InOrder /\ Complete
      /\ request[r].pc = "select"
      /\ UNCHANGED <<content, redis, queue, worker, rows, history>>
  BY DEF IInv, Select
<1>2. broken \subseteq broken' /\ broken' \subseteq Flags
  BY <1>1 DEF Select, TypeOK, Flags
<1>3. faults' \in 0..MaxFaults
  BY <1>1, BoundsAssumption DEF Select, Fault, NoFault, TypeOK
<1>4. PICK base :
        /\ base \subseteq Requests
        /\ request' = [request EXCEPT ![r] = Loaded(r, base)]
        /\ broken' \intersect {"overlap", "unlisted", "fallback"} = {} => Done \subseteq base
  <2>1. CASE /\ request' = [request EXCEPT ![r] =
                    Loaded(r, IF rows = <<>> THEN {} ELSE content[NewestRow])]
             /\ broken' = IF queue # {} \/ broken \intersect {"lost", "disorder"} # {}
                          THEN broken \union {"fallback"} ELSE broken
    <3> DEFINE base == IF rows = <<>> THEN {} ELSE content[NewestRow]
    <3>1. base \subseteq Requests
      BY <1>1, SequenceFacts DEF TypeOK
    <3>2. ASSUME broken' \intersect {"overlap", "unlisted", "fallback"} = {}
          PROVE  Done \subseteq base
      <4>1. /\ queue = {} /\ "lost" \notin broken /\ "disorder" \notin broken
            /\ broken \intersect {"overlap", "unlisted", "fallback"} = {}
        BY <2>1, <3>2
      <4>2. RowIds = ended
        BY <1>1, <4>1 DEF TasksOK, Kept
      <4>3. CASE rows = <<>>
        BY <1>1, <4>1, <4>2, <4>3, SequenceFacts DEF Complete
      <4>4. CASE rows # <<>>
        <5>1. Top(NewestRow, ended) /\ NewestRow \in ended
          BY <1>1, <4>1, <4>2, <4>4, SequenceFacts DEF InOrder
        <5> QED
          BY <1>1, <4>1, <4>4, <5>1 DEF Complete
      <4> QED
        BY <4>3, <4>4
    <3>3. request' = [request EXCEPT ![r] = Loaded(r, base)]
      BY <2>1
    <3> HIDE DEF base
    <3> QED
      BY <3>1, <3>2, <3>3
  <2>2. CASE /\ request' = [request EXCEPT ![r] = Loaded(r, {})]
             /\ broken' = broken \union {"fallback"}
    <3> DEFINE base == {}
    <3>1. /\ base \subseteq Requests
          /\ request' = [request EXCEPT ![r] = Loaded(r, base)]
          /\ broken' \intersect {"overlap", "unlisted", "fallback"} # {}
      BY <2>2
    <3> HIDE DEF base
    <3> QED
      BY <3>1
  <2> QED
    BY <2>1, <2>2 DEF Select
<1>5. /\ Loaded(r, base) \in Writing /\ Loaded(r, base).pc = "put"
      /\ Loaded(r, base).puts = 0 /\ Loaded(r, base).base = base
      /\ Loaded(r, base).before = request[r].before
  BY <1>1, <1>4, LoadedType
<1> QED
  BY <1>1, <1>2, <1>3, <1>4, <1>5, LoadInv

\* There are ids for all the checkpoints that the requests may put.
LEMMA EnoughIds ==
    ASSUME NEW n \in Nat, NEW f \in [1..n -> Requests \X (1..MaxPuts)],
           \A i, j \in 1..n : f[i] = f[j] => i = j
    PROVE  1..n \subseteq Ids
<1> DEFINE T == Requests \X (1..MaxPuts)
<1>1. MaxPuts \in Nat /\ Cardinality(Requests) \in Nat
  BY BoundsAssumption, RequestsAssumption, FS_CardinalityType
<1>2. IsFiniteSet(1..MaxPuts) /\ Cardinality(1..MaxPuts) = MaxPuts
  <2>1. 1 \in Int /\ MaxPuts \in Int
    BY <1>1
  <2>2. /\ IsFiniteSet(1..MaxPuts)
        /\ Cardinality(1..MaxPuts) = IF 1 > MaxPuts THEN 0 ELSE MaxPuts - 1 + 1
    BY <2>1, FS_Interval
  <2>3. (IF 1 > MaxPuts THEN 0 ELSE MaxPuts - 1 + 1) = MaxPuts
    BY <1>1
  <2> QED
    BY <2>2, <2>3
<1>3. IsFiniteSet(T) /\ Cardinality(T) = Cardinality(Requests) * MaxPuts
  BY <1>2, RequestsAssumption, FS_Product
<1>4. f \in Injection(1..n, T)
  BY DEF Injection, IsInjective
<1>5. Cardinality(1..n) <= Cardinality(T)
  BY <1>3, <1>4, FS_Injection
<1>6. Cardinality(1..n) = n
  BY FS_Interval
<1>7. Cardinality(T) \in Nat
  BY <1>3, FS_CardinalityType
<1>8. n <= Cardinality(Requests) * MaxPuts /\ Cardinality(Requests) * MaxPuts \in Nat
  BY <1>3, <1>5, <1>6, <1>7
<1> HIDE DEF T
<1> DEFINE m == Cardinality(Requests) * MaxPuts
<1>9. Ids = 1..m
  BY DEF Ids
<1>10. n <= m /\ m \in Nat
  BY <1>8
<1> HIDE DEF m
<1> QED
  BY <1>9, <1>10

\* What a request writes about a put is typed.
LEMMA WritingType ==
    ASSUME NEW w \in Writing, NEW i \in Ids, NEW n \in 0..MaxPuts
    PROVE  [[[w EXCEPT !.pc = "sadd"] EXCEPT !.id = i] EXCEPT !.puts = n] \in Writing
<1> DEFINE y == [w EXCEPT !.pc = "sadd"]
           z == [y EXCEPT !.id = i]
<1> HIDE DEF Ids
<1>1. y \in Writing
  BY DEF Writing
<1> HIDE DEF y
<1>2. z \in Writing
  BY <1>1 DEF Writing
<1> HIDE DEF z
<1>3. [z EXCEPT !.puts = n] \in Writing
  BY <1>2 DEF Writing
<1> QED
  BY <1>3 DEF y, z

\* A checkpoint is created, and the request goes on to list it.
LEMMA PutInv == ASSUME IInv, NEW r \in Requests, Put(r) PROVE IInv'
<1> DEFINE id == Len(content) + 1
           x == [[[request[r] EXCEPT !.pc = "sadd"] EXCEPT !.id = id]
                     EXCEPT !.puts = request[r].puts + 1]
<1>1. /\ TypeOK /\ SequencesOK /\ Numbered /\ TasksOK /\ PutsOK /\ Kept /\ InOrder /\ Alone
      /\ Complete /\ request[r].pc = "put" /\ request[r].puts < MaxPuts
      /\ UNCHANGED <<ids, queue, worker, rows, history, ended, accepted, handled, broken>>
  BY DEF IInv, Put, history
<1>2. /\ request[r] \in Writing /\ request[r].base \subseteq Requests
      /\ request[r].puts \in Nat /\ HasLoaded(r) /\ Running(r) /\ ~Pending(r)
      /\ MaxPuts \in Nat
  BY <1>1, RequestFields, BoundsAssumption DEF HasLoaded, Running, Pending
<1>3. faults' \in 0..MaxFaults /\ keys' \subseteq keys \union {id}
  BY <1>1, BoundsAssumption DEF Put, Fault, NoFault, TypeOK
<1>4. /\ content' \in Seq(SUBSET Requests)
      /\ Len(content) \in Nat /\ Len(content') = id
      /\ DOMAIN content = 1..Len(content) /\ DOMAIN content' = 1..id
      /\ \A i \in DOMAIN content : content'[i] = content[i] /\ i \in DOMAIN content'
      /\ content'[id] = request[r].base \union {r} /\ id \in DOMAIN content' /\ id \notin DOMAIN content
  <2> DEFINE c == request[r].base \union {r}
  <2>1. c \in SUBSET Requests
    BY <1>2
  <2>2. content' = Append(content, c)
    BY DEF Put
  <2> HIDE DEF c
  <2>3. /\ Append(content, c) \in Seq(SUBSET Requests)
        /\ Len(Append(content, c)) = Len(content) + 1
        /\ \A i \in 1..Len(content) : Append(content, c)[i] = content[i]
        /\ Append(content, c)[Len(content) + 1] = c
    BY <1>1, <2>1, AppendProperties DEF SequencesOK
  <2>4. Len(content) \in Nat /\ DOMAIN content = 1..Len(content) /\ DOMAIN content' = 1..Len(content')
    BY <1>1, <2>2, <2>3, LenProperties DEF SequencesOK
  <2>5. content'[id] = request[r].base \union {r}
    BY <2>2, <2>3 DEF c
  <2> QED
    BY <2>2, <2>3, <2>4, <2>5
<1>5. /\ x.pc = "sadd" /\ x.id = id /\ x.puts = request[r].puts + 1
      /\ x.base = request[r].base /\ x.before = request[r].before
      /\ x.puts \in 0..MaxPuts
  BY <1>1, <1>2 DEF Writing
<1>6. request' = [request EXCEPT ![r] = x]
  BY <1>1 DEF Put, TypeOK
<1>7. request'[r] = x /\ \A q \in Requests \ {r} : request'[q] = request[q]
  BY <1>1, <1>6 DEF TypeOK
<1>8. PICK f \in [1..id -> Requests \X (1..MaxPuts)] :
        /\ \A i, j \in 1..id : f[i] = f[j] => i = j
        /\ \A i \in 1..id :
              /\ request'[f[i][1]].pc \notin {"idle", "payload", "select"}
              /\ request'[f[i][1]].pc \in {"put", "sadd", "publish"} =>
                    f[i][2] <= request'[f[i][1]].puts
  <2>1. PICK g \in [DOMAIN content -> Requests \X (1..MaxPuts)] :
        /\ \A i, j \in DOMAIN content : g[i] = g[j] => i = j
        /\ \A i \in DOMAIN content :
              /\ request[g[i][1]].pc \notin {"idle", "payload", "select"}
              /\ HasLoaded(g[i][1]) => g[i][2] <= request[g[i][1]].puts
    BY <1>1 DEF Numbered
  <2> DEFINE n == request[r].puts + 1
             f == [i \in 1..id |-> IF i = id THEN <<r, n>> ELSE g[i]]
  <2>2. n \in 1..MaxPuts
    BY <1>1, <1>2
  <2>3. \A i \in 1..id : i = id \/ i \in DOMAIN content
    BY <1>4
  <2>4. f \in [1..id -> Requests \X (1..MaxPuts)]
    BY <2>2, <2>3
  <2>5. \A i \in DOMAIN content : g[i] # <<r, n>>
    <3> SUFFICES ASSUME NEW i \in DOMAIN content, g[i] = <<r, n>>
                 PROVE  FALSE
      OBVIOUS
    <3>1. g[i][1] = r /\ g[i][2] = n
      OBVIOUS
    <3> QED
      BY <1>2, <2>1, <3>1
  <2>6. \A i, j \in 1..id : f[i] = f[j] => i = j
    BY <2>1, <2>3, <2>5
  <2>7. ASSUME NEW i \in 1..id
        PROVE  /\ request'[f[i][1]].pc \notin {"idle", "payload", "select"}
               /\ request'[f[i][1]].pc \in {"put", "sadd", "publish"} =>
                     f[i][2] <= request'[f[i][1]].puts
    <3>1. CASE i = id
      <4>1. f[i][1] = r /\ f[i][2] = n
        BY <3>1
      <4>2. request'[r].pc = "sadd" /\ request'[r].puts = n
        BY <1>5, <1>7
      <4> HIDE DEF f
      <4> QED
        BY <1>2, <4>1, <4>2
    <3>2. CASE i # id
      <4>1. f[i] = g[i] /\ i \in DOMAIN content /\ g[i][1] \in Requests /\ g[i][2] \in Nat
        BY <2>3, <3>2
      <4> HIDE DEF f
      <4>2. CASE g[i][1] = r
        <5>1. g[i][2] <= request[r].puts
          BY <1>2, <2>1, <4>1, <4>2
        <5>2. request'[r].pc = "sadd" /\ request'[r].puts = n
          BY <1>5, <1>7
        <5>3. g[i][2] <= n
          BY <1>2, <4>1, <5>1
        <5> HIDE DEF n
        <5> QED
          BY <4>1, <4>2, <5>2, <5>3
      <4>3. CASE g[i][1] # r
        <5>1. request'[g[i][1]] = request[g[i][1]]
          BY <1>7, <4>1, <4>3
        <5> QED
          BY <2>1, <4>1, <5>1 DEF HasLoaded
      <4> QED
        BY <4>2, <4>3
    <3> QED
      BY <3>1, <3>2
  <2> HIDE DEF f
  <2> QED
    BY <2>4, <2>6, <2>7
<1>9. DOMAIN content' \subseteq Ids /\ id \in Ids
  <2>1. id \in Nat
    BY <1>4
  <2> HIDE DEF id
  <2>2. 1..id \subseteq Ids
    BY <1>8, <2>1, EnoughIds
  <2> QED
    BY <1>4, <2>2
<1>10. Numbered'
  BY <1>4, <1>8 DEF Numbered, HasLoaded
<1>11. x \in Writing
  <2>1. request[r].puts + 1 \in 0..MaxPuts
    BY <1>1, <1>2
  <2> DEFINE w == request[r]
             n == request[r].puts + 1
  <2>2. w \in Writing /\ id \in Ids /\ n \in 0..MaxPuts
    BY <1>2, <1>9, <2>1
  <2> HIDE DEF w, n, id
  <2> QED
    BY <2>2, WritingType DEF w, n
<1> HIDE DEF x, id
<1>12. /\ request' \in [Requests -> {NotBegun} \union Ended \union Reading \union Writing]
       /\ HasLoaded(r)' /\ Running(r)' /\ Pending(r)'
  BY <1>1, <1>5, <1>6, <1>7, <1>11, Assigned DEF HasLoaded, Running, Pending
<1>13. \A q \in Requests \ {r} : /\ HasLoaded(q)' <=> HasLoaded(q)
                                 /\ Pending(q)' <=> Pending(q)
                                 /\ Running(q)' <=> Running(q)
  BY <1>7, Others
<1>14. Done' = Done
  BY <1>1, <1>5, <1>7 DEF Done
<1>15. /\ keys \union ids \union queue \union RowIds \subseteq DOMAIN content
       /\ accepted \union handled \union ended \subseteq DOMAIN content
  BY <1>1 DEF TypeOK
<1>16. TypeOK'
  <2>1. \A i \in DOMAIN content' : content'[i] \subseteq Requests
    BY <1>4, LenProperties
  <2>2. RowIds' = RowIds
    BY <1>1 DEF RowIds
  <2>3. keys' \union ids' \union queue' \union RowIds' \subseteq DOMAIN content'
    BY <1>1, <1>3, <1>4, <1>15, <2>2
  <2>4. accepted' \union handled' \union ended' \subseteq DOMAIN content'
    BY <1>1, <1>4, <1>15
  <2> QED
    BY <1>1, <1>3, <1>9, <1>12, <2>1, <2>2, <2>3, <2>4 DEF TypeOK
<1>17. SequencesOK' /\ TasksOK' /\ Kept' /\ InOrder'
  BY <1>1, <1>4, TasksFrame DEF SequencesOK
<1>18. PutsOK'
  <2>1. ASSUME NEW q \in Requests
        PROVE  /\ request'[q].pc = "payload" => request'[q].latest \in DOMAIN content'
               /\ Pending(q)' =>
                     /\ request'[q].id \in DOMAIN content' /\ request'[q].id \notin ended
                     /\ request'[q].puts > 0
                     /\ content'[request'[q].id] = request'[q].base \union {q}
                     /\ \A p \in Requests : Pending(p)' /\ request'[p].id = request'[q].id => p = q
    <3>1. CASE q = r
      <4>1. request'[q].puts > 0
        BY <1>2, <1>5, <1>7, <3>1
      <4>2. \A p \in Requests \ {r} : Pending(p)' => request'[p].id # id
        BY <1>1, <1>4, <1>7, <1>13 DEF PutsOK
      <4> QED
        BY <1>4, <1>5, <1>7, <1>15, <3>1, <4>1, <4>2
    <3>2. CASE q # r
      <4>1. request'[q] = request[q] /\ (Pending(q)' <=> Pending(q))
        BY <1>7, <1>13, <3>2
      <4>2. Pending(q) => request[q].id # id
        BY <1>1, <1>4 DEF PutsOK
      <4>3. \A p \in Requests : Pending(p)' /\ Pending(q) /\ request'[p].id = request[q].id => p = q
        <5> SUFFICES ASSUME NEW p \in Requests, Pending(p)', Pending(q),
                            request'[p].id = request[q].id
                     PROVE  p = q
          OBVIOUS
        <5>1. p # r
          BY <1>5, <1>7, <4>2
        <5>2. request'[p] = request[p] /\ Pending(p)
          BY <1>7, <1>13, <5>1
        <5> QED
          BY <1>1, <5>2 DEF PutsOK
      <4>4. request[q].pc = "payload" => request[q].latest \in DOMAIN content'
        BY <1>1, <1>4 DEF PutsOK
      <4>5. Pending(q) => /\ request[q].id \in DOMAIN content' /\ request[q].id \notin ended
                          /\ request[q].puts > 0
                          /\ content'[request[q].id] = request[q].base \union {q}
        BY <1>1, <1>4 DEF PutsOK
      <4> QED
        BY <4>1, <4>3, <4>4, <4>5
    <3> QED
      BY <3>1, <3>2
  <2> QED
    BY <1>1, <2>1 DEF PutsOK
<1>19. Alone'
  <2> SUFFICES ASSUME "overlap" \notin broken
               PROVE  /\ \A p, q \in Requests : Running(p)' /\ Running(q)' => p = q
                      /\ \A q \in Requests : Running(q)' => request'[q].before = Done
                      /\ \A q \in Requests : Pending(q)' => request'[q].id = id
    BY <1>1, <1>4, <1>14 DEF Alone
  <2>1. \A q \in Requests \ {r} : ~Running(q)' /\ ~Pending(q)'
    BY <1>1, <1>2, <1>13, RequestFields DEF Alone
  <2> QED
    BY <1>1, <1>2, <1>5, <1>7, <2>1 DEF Alone
<1>20. Complete'
  <2> SUFFICES ASSUME broken \intersect {"overlap", "unlisted", "fallback"} = {}
               PROVE  /\ \A q \in Requests : HasLoaded(q)' => Done \subseteq request'[q].base
                      /\ \A q \in Requests :
                            request'[q].pc = "payload" => Done \subseteq content'[request'[q].latest]
                      /\ \A i \in ids : Top(i, ids) => Done \subseteq content'[i]
                      /\ \A i \in ended : Top(i, ended) => Done \subseteq content'[i]
                      /\ ended = {} => Done = {}
                      /\ \A q \in Requests : request'[q].pc \notin {"publish", "put"}
    BY <1>1, <1>14 DEF Complete, Top
  <2>1. \A q \in Requests \ {r} : ~Running(q) /\ ~HasLoaded(q)
    BY <1>1, <1>2, RequestFields DEF Alone
  <2>2. \A q \in Requests \ {r} : request[q].pc \notin {"publish", "put", "payload"} /\ ~HasLoaded(q)'
    BY <1>13, <2>1 DEF HasLoaded, Running
  <2>3. \A i \in ids \union ended : content'[i] = content[i]
    BY <1>4, <1>15
  <2>4. Done \subseteq request'[r].base /\ request'[r].pc = "sadd"
    BY <1>1, <1>2, <1>5, <1>7 DEF Complete
  <2> QED
    BY <1>1, <1>7, <2>2, <2>3, <2>4 DEF Complete
<1> QED
  BY <1>10, <1>16, <1>17, <1>18, <1>19, <1>20 DEF IInv

\* While nothing has broken, the id that is listed is the greatest of the set.
LEMMA SaddInv == ASSUME IInv, NEW r \in Requests, Sadd(r) PROVE IInv'
<1> DEFINE x == [request[r] EXCEPT !.pc = "publish"]
           id == request[r].id
<1>1. /\ TypeOK /\ SequencesOK /\ Numbered /\ TasksOK /\ PutsOK /\ Kept /\ InOrder /\ Alone
      /\ Complete /\ request[r].pc = "sadd"
      /\ UNCHANGED <<content, keys, queue, worker, rows, history, ended, accepted, handled>>
  BY DEF IInv, Sadd, history
<1>2. /\ request[r] \in Writing /\ HasLoaded(r) /\ Running(r) /\ Pending(r)
      /\ id \in DOMAIN content
  BY <1>1, RequestFields DEF HasLoaded, Running, Pending, PutsOK
<1>3. /\ broken \subseteq broken' /\ broken' \subseteq Flags
      /\ broken' \subseteq broken \union {"unlisted"}
      /\ faults' \in 0..MaxFaults
      /\ ids' \subseteq ids \union {id}
      /\ "unlisted" \notin broken' => ids' = ids \union {id}
  BY <1>1, BoundsAssumption DEF Sadd, Fault, NoFault, TypeOK, Flags
<1>4. /\ x \in Writing /\ x.pc = "publish" /\ x.id = id /\ x.puts = request[r].puts
      /\ x.base = request[r].base /\ x.before = request[r].before
  BY <1>2 DEF Writing
<1>5. request' = [request EXCEPT ![r] = x]
  BY <1>1 DEF Sadd, TypeOK
<1> HIDE DEF x
<1>6. /\ request' \in [Requests -> {NotBegun} \union Ended \union Reading \union Writing]
      /\ request'[r] = x
      /\ \A q \in Requests \ {r} : request'[q] = request[q]
  BY <1>1, <1>4, <1>5, Assigned
<1>7. HasLoaded(r)' /\ Running(r)' /\ Pending(r)'
  BY <1>4, <1>6 DEF HasLoaded, Running, Pending
<1>8. \A q \in Requests \ {r} : /\ HasLoaded(q)' <=> HasLoaded(q)
                                /\ Pending(q)' <=> Pending(q)
                                /\ Running(q)' <=> Running(q)
  BY <1>6, Others
<1>9. Done' = Done
  BY <1>1, <1>4, <1>6 DEF Done
<1>10. TypeOK'
  <2>1. RowIds' = RowIds
    BY <1>1 DEF RowIds
  <2>2. ids' \subseteq DOMAIN content
    BY <1>1, <1>2, <1>3 DEF TypeOK
  <2> QED
    BY <1>1, <1>3, <1>6, <2>1, <2>2 DEF TypeOK
<1>11. SequencesOK' /\ TasksOK' /\ Kept' /\ InOrder'
  BY <1>1, <1>3, TasksFrame DEF SequencesOK
<1>12. Numbered'
  BY <1>1, <1>2, <1>4, <1>6, <1>7, <1>8, NumberedFrame
<1>13. PutsOK'
  <2>1. \A q \in Requests : /\ Pending(q)' <=> Pending(q)
                            /\ Pending(q) => /\ request'[q].id = request[q].id
                                             /\ request'[q].puts = request[q].puts
                                             /\ request'[q].base = request[q].base
                            /\ request'[q].pc = "payload" =>
                                  request[q].pc = "payload" /\ request'[q].latest = request[q].latest
    BY <1>2, <1>4, <1>6, <1>7, <1>8
  <2> HIDE DEF id
  <2> QED
    BY <1>1, <2>1 DEF PutsOK
<1>14. ASSUME "overlap" \notin broken
       PROVE  /\ \A q \in Requests \ {r} : ~Running(q) /\ ~HasLoaded(q) /\ ~Pending(q)
              /\ request[r].before = Done /\ id = Len(content)
  BY <1>1, <1>2, <1>14, RequestFields DEF Alone
<1>15. Alone'
  <2> SUFFICES ASSUME "overlap" \notin broken
               PROVE  /\ \A p, q \in Requests : Running(p)' /\ Running(q)' => p = q
                      /\ \A q \in Requests : Running(q)' => request'[q].before = Done
                      /\ \A q \in Requests : Pending(q)' => request'[q].id = Len(content)
    BY <1>1, <1>3, <1>9 DEF Alone
  <2> QED
    BY <1>4, <1>6, <1>8, <1>14
<1>16. Complete'
  <2> SUFFICES ASSUME broken' \intersect {"overlap", "unlisted", "fallback"} = {}
               PROVE  /\ \A q \in Requests : HasLoaded(q)' => Done \subseteq request'[q].base
                      /\ \A q \in Requests : request'[q].pc # "payload"
                      /\ \A i \in ids' : (\A j \in ids' : j <= i) =>
                            Done \subseteq content[i] /\ r \in content[i]
                      /\ \A i \in ended : Top(i, ended) => Done \subseteq content[i]
                      /\ ended = {} => Done = {}
                      /\ \A q \in Requests \ {r} : request'[q].pc \notin {"publish", "put"}
    BY <1>1, <1>4, <1>6, <1>9 DEF Complete, Top
  <2>1. /\ broken \intersect {"overlap", "unlisted", "fallback"} = {}
        /\ ids' = ids \union {id} /\ "overlap" \notin broken
    BY <1>3
  <2>2. \A q \in Requests \ {r} : request'[q].pc \notin {"payload", "publish", "put"} /\ ~HasLoaded(q)'
    BY <1>6, <1>8, <1>14, <2>1 DEF HasLoaded, Running
  <2>3. Done \subseteq request'[r].base /\ request'[r].base = request[r].base
    BY <1>1, <1>2, <1>4, <1>6, <2>1 DEF Complete
  <2>4. content[id] = request[r].base \union {r}
    BY <1>1, <1>2 DEF PutsOK
  <2>5. ASSUME NEW i \in ids', \A j \in ids' : j <= i
        PROVE  i = id
    <3>1. ids' \subseteq 1..Len(content) /\ Len(content) \in Nat
      BY <1>1, <1>2, <1>3, SequenceFacts DEF TypeOK
    <3>2. id <= i /\ id = Len(content)
      BY <1>14, <2>1, <2>5
    <3> HIDE DEF id
    <3> QED
      BY <3>1, <3>2
  <2>6. \A i \in ids' : (\A j \in ids' : j <= i) => Done \subseteq content[i] /\ r \in content[i]
    BY <2>3, <2>4, <2>5
  <2> QED
    BY <1>1, <1>4, <1>6, <2>1, <2>2, <2>3, <2>6 DEF Complete
<1> QED
  BY <1>10, <1>11, <1>12, <1>13, <1>15, <1>16 DEF IInv

\* The put of a checkpoint ends: a task of it is queued unless one is lost.
LEMMA PublishInv == ASSUME IInv, NEW r \in Requests, Publish(r) PROVE IInv'
<1> DEFINE y == [request[r] EXCEPT !.pc = "put"]
           x == [y EXCEPT !.id = 0]
           id == request[r].id
<1>1. /\ TypeOK /\ SequencesOK /\ Numbered /\ TasksOK /\ PutsOK /\ Kept /\ InOrder /\ Alone
      /\ Complete /\ request[r].pc = "publish"
      /\ UNCHANGED <<content, keys, ids, worker, rows, handled>>
      /\ ended' = ended \union {id}
  BY DEF IInv, Publish, redis
<1>2. /\ request[r] \in Writing /\ HasLoaded(r) /\ Running(r) /\ Pending(r)
      /\ id \in DOMAIN content /\ id \notin ended /\ request[r].puts > 0
      /\ content[id] = request[r].base \union {r}
  BY <1>1, RequestFields DEF HasLoaded, Running, Pending, PutsOK
<1>3. /\ broken \subseteq broken' /\ broken' \subseteq Flags
      /\ broken' \subseteq broken \union {"lost"}
      /\ faults' \in 0..MaxFaults
      /\ \/ queue' = queue \union {id} /\ accepted' = accepted \union {id}
         \/ queue' = queue /\ accepted' = accepted /\ "lost" \in broken'
  BY <1>1, BoundsAssumption DEF Publish, Fault, NoFault, TypeOK, Flags
<1>4. /\ x \in Writing /\ x.pc = "put" /\ x.id = 0 /\ x.puts = request[r].puts
      /\ x.base = request[r].base /\ x.before = request[r].before
  <2>1. /\ y \in Writing /\ y.puts = request[r].puts
        /\ y.base = request[r].base /\ y.before = request[r].before /\ y.pc = "put"
    BY <1>2 DEF Writing
  <2> HIDE DEF y
  <2> QED
    BY <2>1 DEF Writing
<1>5. request' = [request EXCEPT ![r] = x]
  BY <1>1 DEF Publish, TypeOK
<1> HIDE DEF x, y
<1>6. /\ request' \in [Requests -> {NotBegun} \union Ended \union Reading \union Writing]
      /\ request'[r] = x
      /\ \A q \in Requests \ {r} : request'[q] = request[q]
  BY <1>1, <1>4, <1>5, Assigned
<1>7. HasLoaded(r)' /\ Running(r)' /\ ~Pending(r)'
  BY <1>4, <1>6 DEF HasLoaded, Running, Pending
<1>8. \A q \in Requests \ {r} : /\ HasLoaded(q)' <=> HasLoaded(q)
                                /\ Pending(q)' <=> Pending(q)
                                /\ Running(q)' <=> Running(q)
  BY <1>6, Others
<1>9. Done' = Done
  BY <1>1, <1>4, <1>6 DEF Done
<1>10. RowIds' = RowIds
  BY <1>1 DEF RowIds
<1>11. TypeOK'
  <2>1. /\ queue' \subseteq DOMAIN content /\ accepted' \subseteq DOMAIN content
        /\ ended' \subseteq DOMAIN content
    BY <1>1, <1>2, <1>3 DEF TypeOK
  <2> QED
    BY <1>1, <1>3, <1>6, <1>10, <2>1 DEF TypeOK
<1>12. SequencesOK' /\ InOrder'
  BY <1>1, <1>3, <1>10 DEF SequencesOK, InOrder, Top, NewestRow
<1>13. TasksOK'
  <2>1. queue' \subseteq accepted' /\ accepted' \subseteq ended'
    BY <1>1, <1>3 DEF TasksOK
  <2>2. queue \subseteq queue' /\ accepted \subseteq accepted'
    BY <1>3
  <2> QED
    BY <1>1, <1>10, <2>1, <2>2 DEF TasksOK
<1>14. Kept'
  BY <1>1, <1>3, <1>10 DEF Kept
<1>15. Numbered'
  BY <1>1, <1>2, <1>4, <1>6, <1>7, <1>8, NumberedFrame
<1>16. PutsOK'
  <2>1. \A q \in Requests : /\ Pending(q)' => Pending(q) /\ q # r
                            /\ Pending(q)' => /\ request'[q].id = request[q].id
                                              /\ request'[q].puts = request[q].puts
                                              /\ request'[q].base = request[q].base
                            /\ request'[q].pc = "payload" =>
                                  request[q].pc = "payload" /\ request'[q].latest = request[q].latest
    BY <1>4, <1>6, <1>7, <1>8
  <2>2. \A q \in Requests : Pending(q)' => request[q].id \notin ended'
    BY <1>1, <1>2, <2>1 DEF PutsOK
  <2> HIDE DEF id
  <2> QED
    BY <1>1, <2>1, <2>2 DEF PutsOK
<1>17. ASSUME "overlap" \notin broken
       PROVE  /\ \A q \in Requests \ {r} : ~Running(q) /\ ~HasLoaded(q) /\ ~Pending(q)
              /\ request[r].before = Done /\ id = Len(content)
  BY <1>1, <1>2, <1>17, RequestFields DEF Alone
<1>18. Alone'
  <2> SUFFICES ASSUME "overlap" \notin broken
               PROVE  /\ \A p, q \in Requests : Running(p)' /\ Running(q)' => p = q
                      /\ \A q \in Requests : Running(q)' => request'[q].before = Done
                      /\ \A q \in Requests : ~Pending(q)'
    BY <1>1, <1>3, <1>9 DEF Alone
  <2> QED
    BY <1>4, <1>6, <1>7, <1>8, <1>17
<1>19. Complete'
  <2> SUFFICES ASSUME broken' \intersect {"overlap", "unlisted", "fallback"} = {}
               PROVE  /\ \A q \in Requests : HasLoaded(q)' => Done \subseteq request'[q].base
                      /\ \A q \in Requests : request'[q].pc # "payload"
                      /\ \A i \in ids : Top(i, ids) => Done \subseteq content[i] /\ r \in content[i]
                      /\ \A i \in ended' : (\A j \in ended' : j <= i) =>
                            Done \subseteq content[i] /\ r \in content[i]
                      /\ ended' # {}
                      /\ \A q \in Requests \ {r} : request'[q].pc \notin {"publish", "put"}
    BY <1>1, <1>4, <1>6, <1>9 DEF Complete, Top
  <2>1. broken \intersect {"overlap", "unlisted", "fallback"} = {} /\ "overlap" \notin broken
    BY <1>3
  <2>2. \A q \in Requests \ {r} : request'[q].pc \notin {"payload", "publish", "put"} /\ ~HasLoaded(q)'
    BY <1>6, <1>8, <1>17, <2>1 DEF HasLoaded, Running
  <2>3. Done \subseteq request'[r].base /\ request'[r].base = request[r].base
    BY <1>1, <1>2, <1>4, <1>6, <2>1 DEF Complete
  <2>4. ASSUME NEW i \in ended', \A j \in ended' : j <= i
        PROVE  i = id
    <3>1. ended' \subseteq 1..Len(content) /\ Len(content) \in Nat
      BY <1>1, <1>2, SequenceFacts DEF TypeOK
    <3>2. id <= i /\ id = Len(content)
      BY <1>1, <1>17, <2>1, <2>4
    <3> HIDE DEF id
    <3> QED
      BY <3>1, <3>2
  <2>5. \A i \in ended' : (\A j \in ended' : j <= i) => Done \subseteq content[i] /\ r \in content[i]
    BY <1>2, <2>3, <2>4
  <2>6. \A i \in ids : Top(i, ids) => Done \subseteq content[i] /\ r \in content[i]
    BY <1>1, <2>1 DEF Complete
  <2> QED
    BY <1>1, <1>4, <1>6, <2>2, <2>3, <2>5, <2>6
<1> QED
  BY <1>11, <1>12, <1>13, <1>14, <1>15, <1>16, <1>18, <1>19 DEF IInv

\* A request that ends was the one that ran, and the newest checkpoint of
\* either level has its messages.
LEMMA FinishInv == ASSUME IInv, NEW r \in Requests, Finish(r) PROVE IInv'
<1> DEFINE x == [pc |-> "done"]
<1>1. /\ TypeOK /\ SequencesOK /\ Numbered /\ TasksOK /\ PutsOK /\ Kept /\ InOrder /\ Alone
      /\ Complete /\ request[r].pc = "put" /\ request[r].puts > 0
      /\ UNCHANGED <<content, keys, ids, queue, worker, rows, history,
                     ended, accepted, handled, broken, faults>>
  BY DEF IInv, Finish, redis, history
<1>2. HasLoaded(r) /\ Running(r) /\ ~Pending(r)
  BY <1>1 DEF HasLoaded, Running, Pending
<1>3. x \in Ended /\ x.pc = "done"
  BY DEF Ended
<1>4. request' = [request EXCEPT ![r] = x]
  BY DEF Finish
<1> HIDE DEF x
<1>5. /\ request' \in [Requests -> {NotBegun} \union Ended \union Reading \union Writing]
      /\ request'[r] = x
      /\ \A q \in Requests \ {r} : request'[q] = request[q]
  BY <1>1, <1>3, <1>4, Assigned
<1>6. ~HasLoaded(r)' /\ ~Running(r)' /\ ~Pending(r)'
  BY <1>3, <1>5 DEF HasLoaded, Running, Pending
<1>7. \A q \in Requests \ {r} : /\ HasLoaded(q)' <=> HasLoaded(q)
                                /\ Pending(q)' <=> Pending(q)
                                /\ Running(q)' <=> Running(q)
  BY <1>5, Others
<1>8. Done' = Done \union {r}
  BY <1>3, <1>5 DEF Done
<1>9. TypeOK'
  BY <1>1, <1>5 DEF TypeOK, RowIds
<1>10. SequencesOK' /\ TasksOK' /\ Kept' /\ InOrder'
  BY <1>1, TasksFrame DEF SequencesOK
<1>11. Numbered'
  BY <1>1, <1>3, <1>5, <1>6, <1>7, NumberedFrame
<1>12. PutsOK'
  BY <1>1, <1>3, <1>5, <1>6, <1>7 DEF PutsOK
<1>13. ASSUME "overlap" \notin broken
       PROVE  \A q \in Requests : ~Running(q)' /\ ~HasLoaded(q)' /\ ~Pending(q)'
  <2>1. \A q \in Requests \ {r} : ~Running(q)
    BY <1>1, <1>2, <1>13 DEF Alone
  <2> QED
    BY <1>1, <1>6, <1>7, <2>1, RequestFields
<1>14. Alone'
  BY <1>1, <1>13 DEF Alone
<1>15. Complete'
  <2> SUFFICES ASSUME broken \intersect {"overlap", "unlisted", "fallback"} = {}
               PROVE  /\ \A q \in Requests : ~Running(q)' /\ ~HasLoaded(q)'
                      /\ \A i \in ids : Top(i, ids) => Done \union {r} \subseteq content[i]
                      /\ \A i \in ended : Top(i, ended) => Done \union {r} \subseteq content[i]
                      /\ ended # {}
    BY <1>1, <1>8 DEF Complete, Top, HasLoaded, Running
  <2> QED
    BY <1>1, <1>13 DEF Complete
<1> QED
  BY <1>9, <1>10, <1>11, <1>12, <1>14, <1>15 DEF IInv

\* Requests that are cut short; a restart interrupts the consumers as well.
LEMMA DeadInv ==
    ASSUME IInv, NEW S, S \subseteq Requests, \A q \in S : Running(q),
           request' = [q \in Requests |-> IF q \in S THEN [pc |-> "dead"] ELSE request[q]],
           worker' = worker \/ worker' = [w \in Workers |-> None],
           faults' \in 0..MaxFaults,
           UNCHANGED <<content, redis, queue, rows, history, broken>>
    PROVE  IInv'
<1> DEFINE x == [pc |-> "dead"]
<1>1. /\ TypeOK /\ SequencesOK /\ Numbered /\ TasksOK /\ PutsOK /\ Kept /\ InOrder /\ Alone
      /\ Complete
      /\ UNCHANGED <<content, keys, ids, queue, rows, history, ended, accepted, handled, broken>>
  BY DEF IInv, redis, history
<1>2. x \in Ended /\ x.pc = "dead"
  BY DEF Ended
<1>3. request' = [q \in Requests |-> IF q \in S THEN x ELSE request[q]]
  OBVIOUS
<1> HIDE DEF x
<1>4. /\ request' \in [Requests -> {NotBegun} \union Ended \union Reading \union Writing]
      /\ \A q \in Requests : request'[q] = IF q \in S THEN x ELSE request[q]
  BY <1>1, <1>2, <1>3 DEF TypeOK
<1>5. \A q \in S : ~HasLoaded(q)' /\ ~Running(q)' /\ ~Pending(q)' /\ request'[q].pc = "dead"
  BY <1>2, <1>4 DEF HasLoaded, Running, Pending
<1>6. \A q \in Requests \ S : /\ request'[q] = request[q]
                              /\ HasLoaded(q)' <=> HasLoaded(q)
                              /\ Pending(q)' <=> Pending(q)
                              /\ Running(q)' <=> Running(q)
  BY <1>4 DEF HasLoaded, Pending, Running
<1>7. Done' = Done
  BY <1>5, <1>6 DEF Done, Running
<1>8. /\ worker' \in [Workers -> {None} \union Ids]
      /\ \A w \in Workers : worker'[w] # None => worker'[w] = worker[w]
  BY <1>1 DEF TypeOK
<1>9. TypeOK'
  BY <1>1, <1>4, <1>8 DEF TypeOK, RowIds
<1>10. SequencesOK' /\ Kept' /\ InOrder'
  BY <1>1 DEF SequencesOK, Kept, InOrder, Top, NewestRow, RowIds
<1>11. TasksOK'
  <2>1. RowIds' = RowIds
    BY <1>1 DEF RowIds
  <2> QED
    BY <1>1, <1>8, <2>1 DEF TasksOK
<1>12. Numbered'
  BY <1>1, <1>5, <1>6, NumberedFrame
<1>13. PutsOK'
  BY <1>1, <1>5, <1>6 DEF PutsOK
<1>14. Alone'
  BY <1>1, <1>5, <1>6, <1>7 DEF Alone
<1>15. Complete'
  BY <1>1, <1>5, <1>6, <1>7 DEF Complete, Top
<1> QED
  BY <1>9, <1>10, <1>11, <1>12, <1>13, <1>14, <1>15 DEF IInv

\* A request is abandoned between two puts.
LEMMA AbandonInv == ASSUME IInv, NEW r \in Requests, Abandon(r) PROVE IInv'
<1>1. Running(r) /\ faults' \in 0..MaxFaults
  BY DEF IInv, TypeOK, Abandon, Running
<1>2. request' = [q \in Requests |-> IF q \in {r} THEN [pc |-> "dead"] ELSE request[q]]
  BY DEF IInv, TypeOK, Abandon
<1> QED
  BY <1>1, <1>2, DeadInv DEF Abandon

\* The process restarts.
LEMMA RestartInv == ASSUME IInv, Restart PROVE IInv'
<1> DEFINE S == {q \in Requests : Running(q)}
<1>1. request' = [q \in Requests |-> IF q \in S THEN [pc |-> "dead"] ELSE request[q]]
  BY DEF Restart
<1>2. faults' \in 0..MaxFaults
  BY BoundsAssumption DEF IInv, TypeOK, Restart, Fault
<1>3. S \subseteq Requests /\ \A q \in S : Running(q)
  OBVIOUS
<1> HIDE DEF S
<1> QED
  BY <1>1, <1>2, <1>3, DeadInv DEF Restart

\* What an insert adds to the rows.
LEMMA UpsertRows ==
    ASSUME TypeOK, SequencesOK, NEW id \in queue, rows' = Upsert(id)
    PROVE  /\ rows' \in Seq(Ids)
           /\ RowIds' = RowIds \union {id}
           /\ Len(rows') = Cardinality(RowIds')
           /\ id \in RowIds => rows' = rows
           /\ id \notin RowIds => rows' # <<>> /\ NewestRow' = id
<1>1. id \in Ids /\ IsFiniteSet(RowIds) /\ Len(rows) \in Nat /\ DOMAIN rows = 1..Len(rows)
  BY SequenceFacts DEF TypeOK
<1>2. CASE id \in RowIds
  BY <1>2 DEF Upsert, TypeOK, SequencesOK, RowIds
<1>3. CASE id \notin RowIds
  <2> DEFINE n == Len(rows) + 1
  <2>1. rows' = Append(rows, id)
    BY <1>3 DEF Upsert
  <2>2. /\ rows' \in Seq(Ids) /\ Len(rows') = n
        /\ \A i \in 1..Len(rows) : rows'[i] = rows[i]
        /\ rows'[n] = id
    BY <1>1, <2>1, AppendProperties DEF SequencesOK
  <2>3. DOMAIN rows' = 1..n /\ n \in 1..n /\ \A i \in 1..n : i = n \/ i \in 1..Len(rows)
    BY <1>1, <2>2, LenProperties
  <2>4. 1..Len(rows) \subseteq 1..n
    BY <1>1
  <2> HIDE DEF n
  <2>5. RowIds' = RowIds \union {id}
    <3>1. RowIds' = {rows'[i] : i \in 1..n}
      BY <2>3 DEF RowIds
    <3>2. RowIds = {rows[i] : i \in 1..Len(rows)}
      BY <1>1 DEF RowIds
    <3> QED
      BY <2>2, <2>3, <2>4, <3>1, <3>2
  <2>6. Cardinality(RowIds \union {id}) = Cardinality(RowIds) + 1
    BY <1>1, <1>3, FS_AddElement
  <2>7. Len(rows') = Cardinality(RowIds')
    BY <2>2, <2>5, <2>6 DEF TypeOK, n
  <2>8. rows' # <<>> /\ NewestRow' = id
    <3>1. rows' # <<>>
      BY <2>3
    <3> QED
      BY <2>2, <3>1 DEF NewestRow
  <2> QED
    BY <1>3, <2>2, <2>5, <2>7, <2>8
<1> QED
  BY <1>2, <1>3

\* A handler brings a task to PostgreSQL, in whatever order they come.
LEMMA PersistInv ==
    ASSUME IInv, NEW w \in Workers, NEW id \in queue, Persist(w, id)
    PROVE  IInv'
<1>1. /\ TypeOK /\ SequencesOK /\ Numbered /\ TasksOK /\ PutsOK /\ Kept /\ InOrder /\ Alone
      /\ Complete /\ worker[w] = None /\ \A v \in Workers : worker[v] # id
      /\ UNCHANGED <<content, keys, ids, queue, request, ended, accepted>>
      /\ handled' = handled \union {id}
      /\ worker' = [worker EXCEPT ![w] = id]
  BY DEF IInv, Persist, redis
<1>2. /\ id \in DOMAIN content /\ id \in Ids /\ id \in accepted
      /\ worker \in [Workers -> {None} \union Ids]
  BY <1>1 DEF TypeOK, TasksOK
<1>3. /\ broken \subseteq broken' /\ broken' \subseteq Flags
      /\ faults' \in 0..MaxFaults
      /\ \/ rows' = Upsert(id)
         \/ rows' = rows /\ "lost" \in broken'
      /\ \/ rows' = rows
         \/ /\ rows' = Upsert(id)
            /\ id \notin RowIds /\ (\E i \in RowIds : i > id) => "disorder" \in broken'
  <2>1. CASE /\ faults' = faults /\ rows' = Upsert(id)
             /\ broken' = IF id \notin RowIds /\ \E i \in RowIds : i > id
                          THEN broken \union {"disorder"} ELSE broken
    BY <1>1, <2>1 DEF TypeOK, Flags
  <2>2. CASE /\ faults < MaxFaults /\ faults' = faults + 1 /\ rows' = rows
             /\ broken' = broken \union {"lost"}
    BY <1>1, <2>2, BoundsAssumption DEF TypeOK, Flags
  <2> QED
    BY <2>1, <2>2 DEF Persist, Fault, NoFault
<1>4. /\ rows' \in Seq(Ids) /\ Len(rows') = Cardinality(RowIds')
      /\ RowIds \subseteq RowIds' /\ RowIds' \subseteq RowIds \union {id}
      /\ "lost" \notin broken' => id \in RowIds'
  <2>1. CASE rows' = Upsert(id)
    BY <1>1, <2>1, UpsertRows
  <2>2. CASE rows' = rows /\ "lost" \in broken'
    BY <1>1, <2>2 DEF TypeOK, SequencesOK, RowIds
  <2> QED
    BY <1>3, <2>1, <2>2
<1>5. TypeOK'
  <2>1. worker' \in [Workers -> {None} \union Ids]
    BY <1>1, <1>2
  <2> QED
    BY <1>1, <1>2, <1>3, <1>4, <2>1 DEF TypeOK
<1>6. SequencesOK'
  BY <1>1, <1>4 DEF SequencesOK
<1>7. TasksOK'
  <2>1. worker'[w] = id /\ \A v \in Workers \ {w} : worker'[v] = worker[v]
    BY <1>1, <1>2
  <2>2. \A v \in Workers : worker'[v] # None => worker'[v] \in queue' /\ worker'[v] \in handled'
    BY <1>1, <2>1 DEF TasksOK
  <2>3. \A u, v \in Workers : worker'[u] = worker'[v] /\ worker'[u] # None => u = v
    BY <1>1, <2>1 DEF TasksOK
  <2> QED
    BY <1>1, <1>2, <1>4, <2>2, <2>3 DEF TasksOK
<1>8. Kept'
  BY <1>1, <1>3, <1>4 DEF Kept
<1>9. InOrder'
  <2> SUFFICES ASSUME "disorder" \notin broken', rows' # <<>>
               PROVE  NewestRow' \in RowIds' /\ \A j \in RowIds' : j <= NewestRow'
    BY DEF InOrder, Top
  <2>1. CASE rows' = rows
    BY <1>1, <1>3, <2>1 DEF InOrder, Top, NewestRow, RowIds
  <2>2. CASE rows' = Upsert(id) /\ id \notin RowIds /\ ~(\E i \in RowIds : i > id)
    <3>1. NewestRow' = id /\ RowIds' = RowIds \union {id}
      BY <1>1, <2>2, UpsertRows
    <3>2. RowIds \subseteq 1..Len(content) /\ Len(content) \in Nat /\ id \in 1..Len(content)
      BY <1>1, <1>2, SequenceFacts DEF TypeOK
    <3>3. \A j \in RowIds \union {id} : j <= id
      BY <2>2, <3>2
    <3> QED
      BY <3>1, <3>3
  <2>3. CASE rows' = Upsert(id) /\ id \in RowIds
    BY <1>1, <2>1, <2>3, UpsertRows
  <2> QED
    BY <1>3, <2>1, <2>2, <2>3
<1>10. Numbered' /\ PutsOK' /\ Alone' /\ Complete'
  BY <1>1, <1>3, RequestsFrame
<1> QED
  BY <1>5, <1>6, <1>7, <1>8, <1>9, <1>10 DEF IInv

\* A task leaves the queue, and no other consumer has it.
LEMMA AckInv == ASSUME IInv, NEW w \in Workers, Ack(w) PROVE IInv'
<1> DEFINE id == worker[w]
<1>1. /\ TypeOK /\ SequencesOK /\ Numbered /\ TasksOK /\ PutsOK /\ Kept /\ InOrder /\ Alone
      /\ Complete /\ id # None
      /\ UNCHANGED <<content, keys, ids, rows, request, history, ended, accepted, handled,
                     broken, faults>>
      /\ queue' = queue \ {id} /\ worker' = [worker EXCEPT ![w] = None]
  BY DEF IInv, Ack, redis, history
<1>2. RowIds' = RowIds
  BY <1>1 DEF RowIds
<1>3. worker'[w] = None /\ \A v \in Workers \ {w} : worker'[v] = worker[v]
  BY <1>1 DEF TypeOK
<1>4. worker' \in [Workers -> {None} \union Ids]
  BY <1>1 DEF TypeOK
<1>5. TypeOK'
  BY <1>1, <1>2, <1>4 DEF TypeOK
<1>6. SequencesOK' /\ InOrder'
  BY <1>1, <1>2 DEF SequencesOK, InOrder, Top, NewestRow
<1>7. TasksOK'
  <2>1. \A v \in Workers : worker'[v] # None =>
           v # w /\ worker'[v] = worker[v] /\ worker[v] # id
    BY <1>1, <1>3 DEF TasksOK
  <2>2. \A v \in Workers : worker'[v] # None => worker'[v] \in queue' /\ worker'[v] \in handled'
    BY <1>1, <2>1 DEF TasksOK
  <2>3. \A u, v \in Workers : worker'[u] = worker'[v] /\ worker'[u] # None => u = v
    BY <1>1, <2>1 DEF TasksOK
  <2> QED
    BY <1>1, <1>2, <2>2, <2>3 DEF TasksOK
<1>8. Kept'
  BY <1>1, <1>2 DEF Kept, TasksOK
<1>9. Numbered' /\ PutsOK' /\ Alone' /\ Complete'
  BY <1>1, RequestsFrame
<1> QED
  BY <1>5, <1>6, <1>7, <1>8, <1>9 DEF IInv

\* Keys expire, and their ids after them.
LEMMA ExpireInv == ASSUME IInv, NEW k \in keys, Expire(k) PROVE IInv'
<1>1. /\ TypeOK /\ SequencesOK /\ Numbered /\ TasksOK /\ PutsOK /\ Kept /\ InOrder /\ Alone
      /\ Complete
      /\ UNCHANGED <<content, queue, worker, rows, request, history, ended, accepted, handled,
                     broken>>
      /\ keys' \subseteq keys /\ (ids' = ids \/ ids' = {})
  BY DEF IInv, Expire, history
<1>2. faults' \in 0..MaxFaults
  BY <1>1, BoundsAssumption DEF Expire, Fault, TypeOK
<1>3. TypeOK'
  BY <1>1, <1>2 DEF TypeOK, RowIds
<1>4. SequencesOK' /\ TasksOK' /\ Kept' /\ InOrder'
  BY <1>1, TasksFrame DEF SequencesOK
<1>5. Numbered' /\ PutsOK' /\ Alone' /\ Complete'
  BY <1>1, RequestsFrame
<1> QED
  BY <1>3, <1>4, <1>5 DEF IInv

\* Interrupted tasks stay queued.
LEMMA ConnectionLostInv == ASSUME IInv, ConnectionLost PROVE IInv'
<1> DEFINE S == {}
<1>1. request \in [Requests -> {NotBegun} \union Ended \union Reading \union Writing]
  BY DEF IInv, TypeOK
<1>2. request' = [q \in Requests |-> IF q \in S THEN [pc |-> "dead"] ELSE request[q]]
  BY <1>1 DEF ConnectionLost
<1>3. faults' \in 0..MaxFaults
  BY BoundsAssumption DEF IInv, TypeOK, ConnectionLost, Fault
<1>4. S \subseteq Requests /\ \A q \in S : Running(q)
  OBVIOUS
<1> HIDE DEF S
<1> QED
  BY <1>2, <1>3, <1>4, DeadInv DEF ConnectionLost

(***************************************************************************)
(* The theorems.                                                           *)
(***************************************************************************)

\* The invariant holds before anything has happened.
LEMMA InitInv == ASSUME Init PROVE IInv
<1>1. /\ content = <<>> /\ keys = {} /\ ids = {} /\ queue = {} /\ rows = <<>>
      /\ ended = {} /\ accepted = {} /\ handled = {} /\ broken = {} /\ faults = 0
      /\ worker = [w \in Workers |-> None] /\ request = [r \in Requests |-> NotBegun]
      /\ DOMAIN content = {} /\ DOMAIN rows = {} /\ Len(rows) = 0
  BY DEF Init
<1>2. RowIds = {} /\ Cardinality(RowIds) = 0
  BY <1>1, FS_EmptySet DEF RowIds
<1>3. \A r \in Requests : /\ request[r].pc = "idle"
                          /\ ~HasLoaded(r) /\ ~Running(r) /\ ~Pending(r)
  BY <1>1 DEF NotBegun, HasLoaded, Running, Pending
<1>4. Done = {}
  BY <1>3 DEF Done
<1>5. TypeOK
  BY <1>1, <1>2, BoundsAssumption DEF TypeOK, Flags
<1>6. SequencesOK /\ TasksOK /\ PutsOK /\ Kept /\ InOrder
  BY <1>1, <1>2, <1>3 DEF SequencesOK, TasksOK, PutsOK, Kept, InOrder
<1>7. Numbered
  <2> DEFINE f == [i \in {} |-> i]
  <2>1. f \in [DOMAIN content -> Requests \X (1..MaxPuts)]
    BY <1>1
  <2> QED
    BY <1>1, <2>1 DEF Numbered
<1>8. Alone /\ Complete
  BY <1>1, <1>3, <1>4 DEF Alone, Complete
<1> QED
  BY <1>5, <1>6, <1>7, <1>8 DEF IInv

\* Every step keeps it.
LEMMA NextInv == ASSUME IInv, [Next]_vars PROVE IInv'
<1>1. CASE \E r \in Requests : \/ Begin(r) \/ ReadPayload(r) \/ Select(r) \/ Put(r) \/ Sadd(r)
                               \/ Publish(r) \/ Finish(r) \/ Abandon(r)
  BY <1>1, BeginInv, ReadPayloadInv, SelectInv, PutInv, SaddInv, PublishInv, FinishInv, AbandonInv
<1>2. CASE \E w \in Workers, id \in queue : Persist(w, id)
  BY <1>2, PersistInv
<1>3. CASE \E w \in Workers : Ack(w)
  BY <1>3, AckInv
<1>4. CASE \E k \in keys : Expire(k)
  BY <1>4, ExpireInv
<1>5. CASE ConnectionLost
  BY <1>5, ConnectionLostInv
<1>6. CASE Restart
  BY <1>6, RestartInv
<1>7. CASE UNCHANGED vars
  <2>1. UNCHANGED <<content, redis, keys, ids, queue, worker, rows, request, history,
                    ended, accepted, handled, broken, faults>>
    BY <1>7 DEF vars, redis, history
  <2>2. TypeOK' /\ SequencesOK'
    BY <2>1 DEF IInv, TypeOK, SequencesOK, RowIds
  <2> QED
    BY <2>1, <2>2, TasksFrame, RequestsFrame DEF IInv
<1> QED
  BY <1>1, <1>2, <1>3, <1>4, <1>5, <1>6, <1>7 DEF Next

\* In every behaviour of the store the inductive invariant holds, however many
\* requests overlap and however its two levels fail.
THEOREM Inductive == Spec => []IInv
<1>1. Init => IInv
  BY InitInv
<1>2. IInv /\ [Next]_vars => IInv'
  BY NextInv
<1> QED
  BY <1>1, <1>2, PTL DEF Spec

\* The variables keep their types: no checkpoint beyond Ids, no row twice, and
\* only checkpoints that were created in Redis, the queue or PostgreSQL.
THEOREM TypeCorrect == Spec => []TypeOK
<1>1. IInv => TypeOK
  BY DEF IInv
<1> QED
  BY <1>1, Inductive, PTL

\* A checkpoint whose put has ended is in PostgreSQL or in the queue of the
\* handler that inserts it, unless a publication or an insert failed.
THEOREM HistoryIsKept == Spec => []HistoryKept
<1>1. IInv => HistoryKept
  BY DEF IInv, Kept, HistoryKept
<1> QED
  BY <1>1, Inductive, PTL

\* A request that runs alone starts from all that ended before it began, from
\* whichever level the checkpoint came.
THEOREM RemembersAll == Spec => []Remembers
<1>1. ASSUME IInv, NEW r \in Requests, HasLoaded(r),
             broken \intersect {"overlap", "unlisted", "fallback"} = {}
      PROVE  request[r].before \subseteq request[r].base
  <2>1. TypeOK /\ Running(r) /\ "overlap" \notin broken
    BY <1>1 DEF IInv, HasLoaded, Running
  <2>2. request[r].before = Done
    BY <1>1, <2>1 DEF IInv, Alone
  <2>3. Done \subseteq request[r].base
    BY <1>1 DEF IInv, Complete
  <2> QED
    BY <2>2, <2>3
<1>2. IInv => Remembers
  BY <1>1 DEF Remembers, Forgets
<1> QED
  BY <1>2, Inductive, PTL

\* A step of the store is a step of the queue that its handlers are promised,
\* or leaves that queue as it is.
LEMMA QueueStep ==
    ASSUME IInv, [Next]_vars
    PROVE  [PersistQueue!QNext]_(PersistQueue!qvars)
<1> USE DEF PersistQueue!qvars
<1>1. TypeOK /\ TasksOK /\ PutsOK
  BY DEF IInv
<1>2. ASSUME NEW r \in Requests, Publish(r)
      PROVE  [PersistQueue!QNext]_(PersistQueue!qvars)
  <2> DEFINE id == request[r].id
  <2>1. id \in DOMAIN content /\ id \notin ended
    BY <1>1, <1>2 DEF Publish, PutsOK, Pending
  <2>2. id \in Ids /\ id \notin accepted
    BY <1>1, <2>1 DEF TypeOK, TasksOK
  <2>3. CASE queue' = queue \union {id} /\ accepted' = accepted \union {id}
    <3>1. PersistQueue!Accept(id)
      BY <1>2, <2>2, <2>3 DEF Publish, PersistQueue!Accept
    <3> HIDE DEF id
    <3> QED
      BY <2>2, <3>1 DEF PersistQueue!QNext
  <2>4. CASE UNCHANGED <<queue, accepted>>
    BY <1>2, <2>4 DEF Publish
  <2> QED
    BY <1>2, <2>3, <2>4 DEF Publish
<1>3. ASSUME NEW w \in Workers, NEW id \in queue, Persist(w, id)
      PROVE  [PersistQueue!QNext]_(PersistQueue!qvars)
  <2>1. id \in Ids
    BY <1>1 DEF TypeOK
  <2>2. PersistQueue!Complete(id)
    BY <1>3 DEF Persist, PersistQueue!Complete
  <2> QED
    BY <2>1, <2>2 DEF PersistQueue!QNext
<1>4. ASSUME NEW w \in Workers, Ack(w)
      PROVE  [PersistQueue!QNext]_(PersistQueue!qvars)
  <2>1. worker[w] \in queue /\ worker[w] \in handled /\ worker[w] \in Ids
    BY <1>1, <1>4 DEF Ack, TypeOK, TasksOK
  <2>2. PersistQueue!Release(worker[w])
    BY <1>4, <2>1 DEF Ack, history, PersistQueue!Release
  <2> QED
    BY <2>1, <2>2 DEF PersistQueue!QNext
<1>5. CASE \/ \E r \in Requests : \/ Begin(r) \/ ReadPayload(r) \/ Select(r) \/ Put(r) \/ Sadd(r)
                                  \/ Finish(r) \/ Abandon(r)
           \/ \E k \in keys : Expire(k)
           \/ ConnectionLost
           \/ Restart
           \/ UNCHANGED vars
  <2>1. UNCHANGED <<accepted, queue, handled>>
    BY <1>5 DEF Begin, ReadPayload, Select, Put, Sadd, Finish, Abandon, Expire, ConnectionLost,
                Restart, vars, history
  <2> QED
    BY <2>1
<1> QED
  BY <1>2, <1>3, <1>4, <1>5 DEF Next

\* The queue of persist tasks is the at-least-once queue of the message
\* service: a task is released only when its handler has returned.
THEOREM Refinement == Spec => QueueRefines
<1>1. Init => PersistQueue!QInit
  BY DEF Init, PersistQueue!QInit
<1>2. IInv /\ [Next]_vars => [PersistQueue!QNext]_(PersistQueue!qvars)
  BY QueueStep
<1> QED
  BY <1>1, <1>2, Inductive, PTL DEF Spec, QueueRefines, PersistQueue!QSpec

\* So no checkpoint handed to the queue is dropped before handle_checkpoint_persist
\* has run for it, whatever connections and restarts do to the handlers.
THEOREM PersistTasksKept == Spec => []PersistQueue!NothingForgotten
<1>1. PersistQueue!QInit => PersistQueue!NothingForgotten
  BY DEF PersistQueue!QInit, PersistQueue!NothingForgotten
<1>2. /\ PersistQueue!NothingForgotten
      /\ [PersistQueue!QNext]_(PersistQueue!qvars)
      => PersistQueue!NothingForgotten'
  BY DEF PersistQueue!NothingForgotten, PersistQueue!QNext, PersistQueue!qvars,
         PersistQueue!Accept, PersistQueue!Complete, PersistQueue!DeadLetter,
         PersistQueue!Release
<1> QED
  BY <1>1, <1>2, Refinement, PTL DEF QueueRefines, PersistQueue!QSpec

=============================================================================
