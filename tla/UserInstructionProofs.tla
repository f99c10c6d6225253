------------------------ MODULE UserInstructionProofs -----------------------
(***************************************************************************)
(* Proofs about UserInstruction for any finite set of clients, any number  *)
(* of operations and of faults.                                            *)
(***************************************************************************)
EXTENDS UserInstruction, FiniteSetTheorems, TLAPS

(***************************************************************************)
(* The inductive invariant.                                                *)
(***************************************************************************)

Op == Rest \union Get \union Save \union Delete

\* TypeOK without the history of what gets may answer.
Typed ==
    /\ cache \in Entry
    /\ row \in Entry
    /\ op \in [Clients -> Op]
    /\ ops \in 0..MaxOps
    /\ broken \subseteq Flags
    /\ faults \in 0..MaxFaults

\* Operations that overlap now have been noticed.
Told ==
    /\ "writers" \notin broken =>
           \A c, d \in Clients : Writing(c) /\ Writing(d) => c = d
    /\ "filler" \notin broken =>
           \A c, d \in Clients : ~(Writing(c) /\ Filling(d))

Clean == broken \intersect {"writers", "filler", "half"} = {}

\* How far the two levels may differ at each step of the one operation that
\* writes, and what a get fills Redis with.
Agreed == (\A c \in Clients : op[c].pc \notin {"set_row", "del_row"}) => cache \in {Nothing, row}
Ahead(c) ==
    /\ op[c].pc = "set_row" => cache \in {Nothing, op[c].entry}
    /\ op[c].pc = "del_row" => cache = Nothing
    /\ op[c].pc = "backfill" => op[c].entry = row
Levels == Clean => Agreed /\ \A c \in Clients : Ahead(c)

\* The version a save has made is the one after that of the row.
Counting == broken \intersect {"writers", "unread"} = {}
Versions == Counting => \A c \in Clients : SavingAt(c) => op[c].entry.version = row.version + 1

\* Each operation that has still to read the version leaves room for one more.
Unread == {c \in Clients : op[c].pc = "get_version"}
Counted ==
    /\ row.version + Cardinality(Unread) <= ops
    /\ \A c \in Clients : SavingAt(c) => op[c].entry.version + Cardinality(Unread) <= ops

\* A get knows what is current.
Watched ==
    \A c \in Clients :
        op[c].pc \in {"get_cache", "get_row", "backfill"} => Current \subseteq seen[c]

Core == Typed /\ Told /\ Levels /\ Versions /\ Counted
IInv == TypeOK /\ Core /\ Watched

(***************************************************************************)
(* Records.                                                                *)
(***************************************************************************)

\* The bounds are numbers.
LEMMA Bounds == MaxOps \in Nat /\ MaxFaults \in Nat
BY BoundsAssumption

\* The fields of an entry.
LEMMA EntryFields ==
    ASSUME NEW e \in Entry
    PROVE  /\ e.content \in Contents /\ e.version \in 0..MaxOps
           /\ e.version \in Nat /\ e.content \in Nat
BY Bounds DEF Entry, Nothing, Contents

\* Nothing is an entry of version 0.
LEMMA NothingFields == Nothing \in Entry /\ Nothing.content = 0 /\ Nothing.version = 0
BY DEF Entry, Nothing

Places == {"idle", "got", "get_cache", "get_row", "backfill", "get_version",
           "set_cache", "set_row", "del_cache", "del_row"}

\* The fields of what a client is doing.
LEMMA OpFields ==
    ASSUME NEW o \in Op
    PROVE  /\ o.pc \in Places
           /\ o.pc = "got" => o.content \in Contents
           /\ o.pc = "get_version" => o.content \in 1..MaxOps
           /\ o.pc \in {"backfill", "set_cache", "set_row"} => o.entry \in Entry
<1>1. CASE o \in Rest
  BY <1>1 DEF Rest, Places
<1>2. CASE o \in Get
  BY <1>2 DEF Get, Places
<1>3. CASE o \in Save
  BY <1>3 DEF Save, Places
<1>4. CASE o \in Delete
  BY <1>4 DEF Delete, Places
<1> QED
  BY <1>1, <1>2, <1>3, <1>4 DEF Op

\* What the actions make of a client.
Plain(p) == [pc |-> p]
Got(n) == [pc |-> "got", content |-> n]
Holding(p, e) == [pc |-> p, entry |-> e]
ToRead(n) == [pc |-> "get_version", content |-> n]
Made(n, v) == [content |-> n, version |-> v]

\* The steps of an operation that carry nothing are operations.
LEMMA PlainOp ==
    /\ Plain("idle") \in Op /\ Plain("idle").pc = "idle"
    /\ Plain("get_cache") \in Op /\ Plain("get_cache").pc = "get_cache"
    /\ Plain("get_row") \in Op /\ Plain("get_row").pc = "get_row"
    /\ Plain("del_cache") \in Op /\ Plain("del_cache").pc = "del_cache"
    /\ Plain("del_row") \in Op /\ Plain("del_row").pc = "del_row"
BY DEF Op, Plain, Rest, Get, Delete

\* So is a get that has its answer.
LEMMA GotOp ==
    ASSUME NEW n \in Contents
    PROVE  Got(n) \in Op /\ Got(n).pc = "got" /\ Got(n).content = n
BY DEF Op, Got, Rest

\* So are the steps that carry an entry.
LEMMA HoldingOp ==
    ASSUME NEW e \in Entry
    PROVE  /\ Holding("backfill", e) \in Op /\ Holding("backfill", e).pc = "backfill"
           /\ Holding("backfill", e).entry = e
           /\ Holding("set_cache", e) \in Op /\ Holding("set_cache", e).pc = "set_cache"
           /\ Holding("set_cache", e).entry = e
           /\ Holding("set_row", e) \in Op /\ Holding("set_row", e).pc = "set_row"
           /\ Holding("set_row", e).entry = e
BY DEF Op, Holding, Get, Save

\* So is a save that is about to read the version.
LEMMA ToReadOp ==
    ASSUME NEW n \in 1..MaxOps
    PROVE  ToRead(n) \in Op /\ ToRead(n).pc = "get_version"
BY DEF Op, ToRead, Save

\* What a save makes is an entry with its version.
LEMMA MadeEntry ==
    ASSUME NEW n \in 1..MaxOps, NEW v \in 1..MaxOps
    PROVE  Made(n, v) \in Entry /\ Made(n, v).version = v
BY DEF Entry, Made

\* From one step of a save or delete to the next.
LEMMA NextStage ==
    ASSUME NEW o \in Op
    PROVE  /\ o.pc = "set_cache" => [o EXCEPT !.pc = "set_row"] = Holding("set_row", o.entry)
           /\ o.pc = "del_cache" => [o EXCEPT !.pc = "del_row"] = Plain("del_row")
BY DEF Op, Holding, Plain, Rest, Get, Save, Delete

(***************************************************************************)
(* One client takes a step.                                                *)
(***************************************************************************)

Does(c, state) == op' = [op EXCEPT ![c] = state]

\* A client that goes on is the only one that moves.
LEMMA Assigned ==
    ASSUME Typed, NEW c \in Clients, NEW state \in Op, Does(c, state)
    PROVE  /\ op' \in [Clients -> Op]
           /\ op'[c] = state
           /\ \A d \in Clients : d # c => op'[d] = op[d]
BY DEF Typed, Does

\* A set with two members has more than one.
LEMMA TwoOfThem ==
    ASSUME NEW S \in SUBSET Clients, NEW c \in S, NEW d \in S, c # d
    PROVE  Cardinality(S) > 1
<1>1. /\ IsFiniteSet({c}) /\ Cardinality({c}) = 1
  BY FS_Singleton
<1>2. Cardinality({c} \union {d}) = 2
  BY <1>1, FS_AddElement
<1>3. IsFiniteSet(S) /\ Cardinality(S) \in Nat
  BY FS_Subset, FS_CardinalityType, ClientsAssumption
<1>4. {c} \union {d} \in SUBSET S
  OBVIOUS
<1>5. Cardinality({c} \union {d}) <= Cardinality(S)
  BY <1>3, <1>4, FS_Subset
<1> QED
  BY <1>2, <1>3, <1>5

\* Whatever overlaps after a step, the step notes; nothing is forgotten.
LEMMA Marked ==
    ASSUME NEW S \in SUBSET Flags, Marks(S), Typed
    PROVE  /\ Told' /\ broken \subseteq broken' /\ S \subseteq broken' /\ broken' \subseteq Flags
           /\ Clean' => Clean
           /\ Counting' => Counting
<1>1. /\ broken' = broken \union S \union Overlaps'
      /\ broken \subseteq Flags
  BY DEF Marks, Typed
<1>2. Overlaps' \subseteq Flags
  BY DEF Overlaps, Flags
<1>3. ASSUME NEW c \in Clients, NEW d \in Clients, Writing(c)', Writing(d)', c # d
      PROVE  "writers" \in broken'
  <2>1. PICK W : W = {x \in Clients : Writing(x)'}
    OBVIOUS
  <2>2. Cardinality(W) > 1
    BY <1>3, <2>1, TwoOfThem
  <2>3. "writers" \in Overlaps'
    BY <2>1, <2>2 DEF Overlaps
  <2> QED
    BY <1>1, <2>3
<1>4. ASSUME NEW c \in Clients, NEW d \in Clients, Writing(c)', Filling(d)'
      PROVE  "filler" \in broken'
  <2>1. "filler" \in Overlaps'
    BY <1>4 DEF Overlaps
  <2> QED
    BY <1>1, <2>1
<1>5. Told'
  BY <1>3, <1>4 DEF Told
<1> QED
  BY <1>1, <1>2, <1>5 DEF Clean, Counting

\* A client that neither leaves nor reaches the second write of a save or delete.
LEMMA LevelsQuiet ==
    ASSUME Typed, Levels, NEW c \in Clients, NEW state \in Op, Does(c, state), Clean' => Clean,
           UNCHANGED <<cache, row>>, op[c].pc \notin {"set_row", "del_row"},
           state.pc \notin {"set_row", "del_row"},
           Clean' /\ state.pc = "backfill" => state.entry = row
    PROVE  Levels'
<1>1. op'[c] = state /\ \A d \in Clients : d # c => op'[d] = op[d]
  BY Assigned
<1> SUFFICES ASSUME Clean' PROVE Agreed' /\ \A d \in Clients : Ahead(d)'
  BY DEF Levels
<1>2. Agreed /\ \A d \in Clients : Ahead(d)
  BY DEF Levels
<1>3. Agreed'
  BY <1>1, <1>2 DEF Agreed
<1>4. ASSUME NEW d \in Clients PROVE Ahead(d)'
  <2>1. CASE d = c
    BY <1>1, <2>1 DEF Ahead
  <2>2. CASE d # c
    BY <1>1, <1>2, <2>2 DEF Ahead
  <2> QED
    BY <2>1, <2>2
<1> QED
  BY <1>3, <1>4

\* The row stays, and what the client saves, if anything, counts from it.
LEMMA VersionsQuiet ==
    ASSUME Typed, Versions, NEW c \in Clients, NEW state \in Op, Does(c, state),
           Counting' => Counting, UNCHANGED row,
           Counting' /\ state.pc \in {"set_cache", "set_row"} =>
               state.entry.version = row.version + 1
    PROVE  Versions'
<1>1. op'[c] = state /\ \A d \in Clients : d # c => op'[d] = op[d]
  BY Assigned
<1> SUFFICES ASSUME Counting', NEW d \in Clients, SavingAt(d)'
             PROVE  op'[d].entry.version = row.version + 1
  BY DEF Versions
<1>2. CASE d = c
  BY <1>1, <1>2 DEF SavingAt
<1>3. CASE d # c
  BY <1>1, <1>3 DEF SavingAt, Versions
<1> QED
  BY <1>2, <1>3

\* The saves that have still to read the version can be counted.
LEMMA UnreadFinite ==
    IsFiniteSet(Unread) /\ Cardinality(Unread) \in Nat
<1>1. Unread \in SUBSET Clients
  BY DEF Unread
<1> QED
  BY <1>1, FS_Subset, FS_CardinalityType, ClientsAssumption

\* No operation starts or reads the version; the row keeps its version, goes
\* or gets what the client saves.
LEMMA CountedQuiet ==
    ASSUME Typed, Counted, NEW c \in Clients, NEW state \in Op, Does(c, state), ops' \in {ops, ops + 1},
           op[c].pc # "get_version", state.pc # "get_version",
           row' \in {row, Nothing} \/ (SavingAt(c) /\ row' = op[c].entry),
           state.pc \in {"set_cache", "set_row"} => SavingAt(c) /\ state.entry = op[c].entry
    PROVE  Counted'
<1>1. op'[c] = state /\ \A d \in Clients : d # c => op'[d] = op[d]
  BY Assigned
<1>2. Unread' = Unread
  BY <1>1 DEF Unread
<1>3. PICK u \in Nat : u = Cardinality(Unread)
  BY UnreadFinite
<1>4. Cardinality(Unread') = u
  BY <1>2, <1>3
<1>5. /\ row.version + u <= ops /\ row.version \in Nat /\ ops \in Nat
      /\ \A d \in Clients : SavingAt(d) => op[d].entry.version + u <= ops
  BY <1>3, EntryFields, Bounds DEF Typed, Counted
<1>6. row'.version + u <= ops /\ row'.version \in Nat
  <2>1. CASE row' \in {row, Nothing}
    BY <1>5, <2>1, NothingFields
  <2>2. CASE SavingAt(c) /\ row' = op[c].entry
    <3>1. op[c].entry \in Entry
      BY <2>2, OpFields DEF SavingAt, Typed
    <3> QED
      BY <1>5, <2>2, <3>1, EntryFields
  <2> QED
    BY <2>1, <2>2
<1>7. ASSUME NEW d \in Clients, SavingAt(d)'
      PROVE  op'[d].entry.version + u <= ops /\ op'[d].entry.version \in Nat
  <2>1. SavingAt(d) /\ op'[d].entry = op[d].entry
    <3>1. CASE d = c
      BY <1>1, <1>7, <3>1 DEF SavingAt
    <3>2. CASE d # c
      BY <1>1, <1>7, <3>2 DEF SavingAt
    <3> QED
      BY <3>1, <3>2
  <2>2. op[d].entry \in Entry
    BY <2>1, OpFields DEF SavingAt, Typed
  <2> QED
    BY <1>5, <2>1, <2>2, EntryFields
<1>8. PICK o \in Nat : o = ops' /\ o >= ops
  BY <1>5
<1>9. row'.version + u <= o
  BY <1>3, <1>5, <1>6, <1>8
<1>10. ASSUME NEW d \in Clients, SavingAt(d)' PROVE op'[d].entry.version + u <= o
  BY <1>3, <1>5, <1>7, <1>8, <1>10
<1> QED
  BY <1>4, <1>8, <1>9, <1>10 DEF Counted

\* Unless it was noticed, a writer is alone.
LEMMA Alone ==
    ASSUME Told, NEW c \in Clients, Writing(c)
    PROVE  /\ (Clean \/ Counting) => \A d \in Clients : Writing(d) => d = c
           /\ Clean => \A d \in Clients : ~Filling(d)
BY DEF Told, Clean, Counting

\* A client whose step leaves the rows and levels as they are.
LEMMA CoreQuiet ==
    ASSUME Core, NEW c \in Clients, NEW state \in Op, Does(c, state),
           NEW S \in SUBSET Flags, Marks(S), UNCHANGED <<cache, row>>,
           ops' \in {ops, ops + 1}, ops' \in 0..MaxOps, faults' \in 0..MaxFaults,
           op[c].pc \notin {"set_row", "del_row", "get_version"},
           state.pc \notin {"set_row", "del_row", "set_cache", "get_version"},
           Clean' /\ state.pc = "backfill" => state.entry = row
    PROVE  Core'
<1>1. Typed /\ Told /\ Levels /\ Versions /\ Counted
  BY DEF Core
<1>2. /\ Told' /\ broken' \subseteq Flags
      /\ Clean' => Clean
      /\ Counting' => Counting
  BY <1>1, Marked
<1>3. Typed'
  BY <1>1, <1>2, Assigned DEF Typed
<1>4. Levels'
  BY <1>1, <1>2, LevelsQuiet
<1>5. Versions'
  BY <1>1, <1>2, VersionsQuiet
<1>6. Counted'
  BY <1>1, CountedQuiet
<1> QED
  BY <1>2, <1>3, <1>4, <1>5, <1>6 DEF Core

(***************************************************************************)
(* The actions of a get, and the first ones of a save and a delete.        *)
(***************************************************************************)

\* A fault counts up to MaxFaults.
LEMMA Faults ==
    ASSUME Typed, NEW kind, NoFault \/ Fault(kind)
    PROVE  faults' \in 0..MaxFaults
BY Bounds DEF Typed, NoFault, Fault

\* A get or a delete starts.
LEMMA BeginCore ==
    ASSUME Core, NEW c \in Clients, BeginGet(c) \/ BeginDelete(c)
    PROVE  Core'
<1>1. PICK state \in {Plain("get_cache"), Plain("del_cache")} : Start(c, state)
  BY DEF BeginGet, BeginDelete, Plain
<1>2. /\ Does(c, state) /\ Marks({}) /\ UNCHANGED <<cache, row, faults>>
      /\ ops' = ops + 1 /\ ops < MaxOps /\ Typed /\ op[c].pc \in {"idle", "got"}
  BY <1>1 DEF Start, Does, Core, Free
<1>3. state \in Op /\ state.pc \in {"get_cache", "del_cache"}
  BY PlainOp
<1>4. ops' \in 0..MaxOps /\ faults' \in 0..MaxFaults
  BY <1>2, Bounds DEF Typed
<1> HIDE DEF Marks
<1>5. PICK S \in SUBSET Flags : Marks(S)
  BY <1>2
<1> QED
  BY <1>2, <1>3, <1>4, <1>5, CoreQuiet

\* Redis answers, with the entry or with nothing.
LEMMA ReadCacheCore ==
    ASSUME Core, NEW c \in Clients, ReadCache(c)
    PROVE  Core'
<1>1. /\ Typed /\ op[c].pc = "get_cache" /\ Marks({}) /\ UNCHANGED <<cache, row, ops>>
  BY DEF ReadCache, Core
<1>2. PICK found \in {cache, Nothing} :
        /\ Reads("get_cache", cache, found)
        /\ op' = [op EXCEPT ![c] = IF found = Nothing THEN Plain("get_row") ELSE Got(found.content)]
  BY DEF ReadCache, Plain, Got
<1>3. faults' \in 0..MaxFaults
  BY <1>1, <1>2, Faults DEF Reads
<1>4. found.content \in Contents
  BY <1>1, NothingFields, EntryFields DEF Typed
<1>5. PICK state \in Op : Does(c, state) /\ state.pc \in {"get_row", "got"}
  BY <1>2, <1>4, PlainOp, GotOp DEF Does
<1>6. PICK S \in SUBSET Flags : Marks(S)
  BY <1>1
<1>7. ops' \in {ops, ops + 1} /\ ops' \in 0..MaxOps
  BY <1>1 DEF Typed
<1> QED
  BY <1>1, <1>3, <1>5, <1>6, <1>7, CoreQuiet

\* PostgreSQL answers, with the row or with nothing.
LEMMA ReadRowCore ==
    ASSUME Core, NEW c \in Clients, ReadRow(c)
    PROVE  Core'
<1>1. /\ Typed /\ op[c].pc = "get_row" /\ Marks(IF Failing THEN {"unread"} ELSE {})
      /\ UNCHANGED <<cache, row, ops>>
  BY DEF ReadRow, Core
<1>2. PICK found \in {row, Nothing} :
        /\ Reads("get_row", row, found)
        /\ op' = [op EXCEPT ![c] = IF found = Nothing THEN Got(0) ELSE Holding("backfill", found)]
  BY DEF ReadRow, Holding, Got
<1>3. faults' \in 0..MaxFaults
  BY <1>1, <1>2, Faults DEF Reads
<1>4. 0 \in Contents /\ row \in Entry
  BY <1>1, Bounds DEF Typed, Contents
<1>5. PICK state \in Op :
        /\ Does(c, state) /\ state.pc \in {"got", "backfill"}
        /\ state.pc = "backfill" => state.entry = row
  <2>1. CASE found = Nothing
    BY <1>2, <1>4, <2>1, GotOp DEF Does
  <2>2. CASE found # Nothing
    BY <1>2, <1>4, <2>2, HoldingOp DEF Does
  <2> QED
    BY <2>1, <2>2
<1>6. PICK S \in SUBSET Flags : Marks(S)
  BY <1>1 DEF Flags
<1>7. ops' \in {ops, ops + 1} /\ ops' \in 0..MaxOps
  BY <1>1 DEF Typed
<1> QED
  BY <1>1, <1>3, <1>5, <1>6, <1>7, CoreQuiet

\* What the filling get has is the row, and then so is the entry.
LEMMA BackfillCore ==
    ASSUME Core, NEW c \in Clients, Backfill(c)
    PROVE  Core'
<1>1. /\ Typed /\ Told /\ Levels /\ Versions /\ Counted
      /\ op[c].pc = "backfill" /\ Marks({}) /\ UNCHANGED <<row, ops>>
      /\ cache' \in {cache, op[c].entry} /\ (NoFault \/ Fault("set_cache"))
      /\ op' = [op EXCEPT ![c] = Got(op[c].entry.content)]
  BY DEF Backfill, Core, Got
<1>2. op[c] \in Op /\ op[c].entry \in Entry
  BY <1>1, OpFields DEF Typed
<1>3. PICK state \in Op : Does(c, state) /\ state.pc = "got"
  BY <1>1, <1>2, EntryFields, GotOp DEF Does
<1>4. PICK S \in SUBSET Flags : Marks(S)
  BY <1>1
<1>5. /\ Told' /\ broken' \subseteq Flags
      /\ Clean' => Clean
      /\ Counting' => Counting
  BY <1>1, <1>4, Marked
<1>6. faults' \in 0..MaxFaults
  BY <1>1, Faults
<1>7. op'[c] = state /\ \A d \in Clients : d # c => op'[d] = op[d]
  BY <1>1, <1>3, Assigned
<1>8. Typed'
  BY <1>1, <1>2, <1>3, <1>5, <1>6, Assigned DEF Typed
<1>9. Levels'
  <2> SUFFICES ASSUME Clean' PROVE Agreed' /\ \A d \in Clients : Ahead(d)'
    BY DEF Levels
  <2>1. Clean /\ Agreed /\ \A d \in Clients : Ahead(d)
    BY <1>1, <1>5 DEF Levels
  <2>2. op[c].entry = row
    BY <1>1, <2>1 DEF Ahead
  <2>3. Filling(c)
    BY <1>1 DEF Filling
  <2>4. \A d \in Clients : op[d].pc \notin {"set_row", "del_row"}
    BY <1>1, <2>1, <2>3 DEF Told, Clean, Writing, SavingAt, DeletingAt
  <2>5. cache' \in {Nothing, row}
    BY <1>1, <2>1, <2>2, <2>4 DEF Agreed
  <2>6. Agreed'
    BY <1>1, <2>5 DEF Agreed
  <2>7. ASSUME NEW d \in Clients PROVE Ahead(d)'
    <3>1. CASE d = c
      BY <1>3, <1>7, <3>1 DEF Ahead
    <3>2. CASE d # c
      BY <1>1, <1>7, <2>1, <2>4, <3>2 DEF Ahead
    <3> QED
      BY <3>1, <3>2
  <2> QED
    BY <2>6, <2>7
<1>10. Versions'
  BY <1>1, <1>3, <1>5, VersionsQuiet
<1>11. Counted'
  BY <1>1, <1>3, CountedQuiet
<1> QED
  BY <1>5, <1>8, <1>9, <1>10, <1>11 DEF Core

(***************************************************************************)
(* save.                                                                   *)
(***************************************************************************)

\* A save that starts counts among those that have still to read the version.
LEMMA BeginSaveCore ==
    ASSUME Core, NEW c \in Clients, BeginSave(c)
    PROVE  Core'
<1>1. /\ Typed /\ Told /\ Levels /\ Versions /\ Counted
      /\ op[c].pc \in {"idle", "got"} /\ ops < MaxOps /\ ops' = ops + 1
      /\ op' = [op EXCEPT ![c] = [pc |-> "get_version", content |-> ops + 1]]
      /\ Marks({}) /\ UNCHANGED <<cache, row, faults>>
  BY DEF BeginSave, Start, Core, Free
<1>2. ops + 1 \in 1..MaxOps /\ ops' \in 0..MaxOps /\ ops \in Nat
  BY <1>1, Bounds DEF Typed
<1>3. PICK state \in Op : Does(c, state) /\ state.pc = "get_version"
  BY <1>1, <1>2, ToReadOp DEF Does, ToRead
<1>4. PICK S \in SUBSET Flags : Marks(S)
  BY <1>1
<1>5. /\ Told' /\ broken' \subseteq Flags
      /\ Clean' => Clean
      /\ Counting' => Counting
  BY <1>1, <1>4, Marked
<1>6. op'[c] = state /\ \A d \in Clients : d # c => op'[d] = op[d]
  BY <1>1, <1>3, Assigned
<1>7. Typed'
  BY <1>1, <1>2, <1>3, <1>5, Assigned DEF Typed
<1>8. Levels'
  BY <1>1, <1>3, <1>5, LevelsQuiet
<1>9. Versions'
  BY <1>1, <1>3, <1>5, VersionsQuiet
<1>10. Counted'
  <2>1. Unread' = Unread \union {c} /\ c \notin Unread
    BY <1>1, <1>3, <1>6 DEF Unread
  <2>2. PICK u \in Nat : u = Cardinality(Unread)
    BY UnreadFinite
  <2>3. Cardinality(Unread') = u + 1
    BY <2>1, <2>2, UnreadFinite, FS_AddElement
  <2>4. row.version \in Nat /\ row.version + u <= ops
    BY <1>1, <2>2, EntryFields DEF Counted, Typed
  <2>5. row'.version + (u + 1) <= ops'
    BY <1>1, <1>2, <2>2, <2>4
  <2>6. ASSUME NEW d \in Clients, SavingAt(d)' PROVE op'[d].entry.version + (u + 1) <= ops'
    <3>1. d # c
      BY <1>3, <1>6, <2>6 DEF SavingAt
    <3>2. SavingAt(d) /\ op'[d] = op[d]
      BY <1>6, <2>6, <3>1 DEF SavingAt
    <3>3. op[d].entry \in Entry
      BY <1>1, <3>2, OpFields DEF SavingAt, Typed
    <3>4. op[d].entry.version + u <= ops /\ op[d].entry.version \in Nat
      BY <1>1, <2>2, <3>2, <3>3, EntryFields DEF Counted
    <3> QED
      BY <1>1, <1>2, <2>2, <3>2, <3>4
  <2> QED
    BY <2>3, <2>5, <2>6 DEF Counted
<1> QED
  BY <1>5, <1>7, <1>8, <1>9, <1>10 DEF Core

\* The version a save makes is within bounds, since one operation fewer has
\* still to read it, and counts from the row unless the read failed.
LEMMA ReadVersionCore ==
    ASSUME Core, NEW c \in Clients, ReadVersion(c)
    PROVE  Core'
<1>1. /\ Typed /\ Told /\ Levels /\ Versions /\ Counted
      /\ op[c].pc = "get_version" /\ Marks(IF Failing THEN {"unread"} ELSE {})
      /\ UNCHANGED <<cache, row, ops>>
  BY DEF ReadVersion, Core
<1>2. PICK found \in {row, Nothing} :
        /\ Reads("get_row", row, found)
        /\ op' = [op EXCEPT ![c] = Holding("set_cache",
              [content |-> op[c].content, version |-> found.version + 1])]
  BY DEF ReadVersion, Holding
<1>3. faults' \in 0..MaxFaults
  BY <1>1, <1>2, Faults DEF Reads
<1>4. PICK u \in Nat : u = Cardinality(Unread)
  BY UnreadFinite
<1>5. c \in Unread
  BY <1>1 DEF Unread
<1>6. u >= 1 /\ Cardinality(Unread \ {c}) = u - 1
  <2>1. Cardinality(Unread \ {c}) = u - 1
    BY <1>4, <1>5, UnreadFinite, FS_RemoveElement
  <2>2. u # 0
    BY <1>4, <1>5, UnreadFinite, FS_EmptySet
  <2> QED
    BY <2>1, <2>2, <1>4
<1>7. PICK v \in Nat : v = found.version
  BY <1>1, NothingFields, EntryFields DEF Typed
<1>8. ops \in Nat /\ ops <= MaxOps /\ row.version \in Nat /\ row.version + u <= ops
  BY <1>1, <1>4, EntryFields, Bounds DEF Counted, Typed
<1>9. v <= row.version
  BY <1>7, <1>8, NothingFields
<1>10. v + 1 \in 1..MaxOps /\ (v + 1) + (u - 1) <= ops
  BY <1>4, <1>6, <1>7, <1>8, <1>9, Bounds
<1>11. op[c].content \in 1..MaxOps
  BY <1>1, OpFields DEF Typed
<1>12. PICK e \in Entry : e = [content |-> op[c].content, version |-> found.version + 1]
                         /\ e.version = v + 1
  BY <1>7, <1>10, <1>11, MadeEntry DEF Made
<1>13. PICK state \in Op : Does(c, state) /\ state.pc = "set_cache" /\ state.entry = e
  BY <1>2, <1>12, HoldingOp DEF Does
<1>14. PICK S \in SUBSET Flags : Marks(S) /\ (Failing => "unread" \in S)
  BY <1>1 DEF Flags
<1>15. /\ Told' /\ broken' \subseteq Flags /\ S \subseteq broken'
       /\ Clean' => Clean
       /\ Counting' => Counting
  BY <1>1, <1>14, Marked
<1>16. op'[c] = state /\ \A d \in Clients : d # c => op'[d] = op[d]
  BY <1>1, <1>13, Assigned
<1>17. Typed'
  BY <1>1, <1>3, <1>13, <1>15, Assigned DEF Typed
<1>18. Levels'
  BY <1>1, <1>13, <1>15, LevelsQuiet
<1>19. Versions'
  <2>1. Counting' => found = row
    <3>1. ASSUME found # row PROVE Failing
      BY <1>1, <1>2, <3>1, Bounds DEF Reads, Fault, Failing, Typed
    <3> QED
      BY <3>1, <1>14, <1>15 DEF Counting
  <2>2. Counting' => state.entry.version = row.version + 1
    BY <1>7, <1>12, <1>13, <2>1
  <2> QED
    BY <1>1, <1>13, <1>15, <2>2, VersionsQuiet
<1>20. Counted'
  <2>1. Unread' = Unread \ {c}
    BY <1>13, <1>16 DEF Unread
  <2>2. Cardinality(Unread') = u - 1
    BY <1>6, <2>1
  <2>3. row'.version + (u - 1) <= ops'
    BY <1>1, <1>4, <1>8
  <2>4. ASSUME NEW d \in Clients, SavingAt(d)' PROVE op'[d].entry.version + (u - 1) <= ops'
    <3>1. CASE d = c
      BY <1>1, <1>10, <1>12, <1>13, <1>16, <3>1
    <3>2. CASE d # c
      <4>1. SavingAt(d) /\ op'[d] = op[d]
        BY <1>16, <2>4, <3>2 DEF SavingAt
      <4>2. op[d].entry \in Entry
        BY <1>1, <4>1, OpFields DEF SavingAt, Typed
      <4>3. op[d].entry.version + u <= ops /\ op[d].entry.version \in Nat
        BY <1>1, <1>4, <4>1, <4>2, EntryFields DEF Counted
      <4> QED
        BY <1>1, <1>4, <1>8, <4>1, <4>3
    <3> QED
      BY <3>1, <3>2
  <2> QED
    BY <2>2, <2>3, <2>4 DEF Counted
<1> QED
  BY <1>15, <1>17, <1>18, <1>19, <1>20 DEF Core

\* A second step of a save or delete stays with its kind: the entry is written
\* first, alone, unless it was noticed.
LEMMA SaveCacheCore ==
    ASSUME Core, NEW c \in Clients, SaveCache(c)
    PROVE  Core'
<1>1. /\ Typed /\ Told /\ Levels /\ Versions /\ Counted
      /\ op[c].pc = "set_cache" /\ Marks(IF Failing THEN {"half"} ELSE {})
      /\ UNCHANGED <<row, ops>>
      /\ (NoFault \/ Fault("set_cache"))
      /\ cache' \in {cache, op[c].entry}
      /\ NoFault => cache' = op[c].entry
  BY Bounds DEF SaveCache, Core, NoFault, Fault, Typed
<1>2. op[c] \in Op /\ op[c].entry \in Entry
  BY <1>1, OpFields DEF Typed
<1>3. PICK state \in Op : Does(c, state) /\ state.pc = "set_row" /\ state.entry = op[c].entry
  <2>1. op' = [op EXCEPT ![c] = [op[c] EXCEPT !.pc = "set_row"]]
    BY <1>1 DEF SaveCache, Typed
  <2> QED
    BY <1>1, <1>2, <2>1, NextStage, HoldingOp DEF Does
<1>4. PICK S \in SUBSET Flags : Marks(S) /\ (~NoFault => "half" \in S)
  BY <1>1 DEF Flags, Failing, NoFault
<1>5. /\ Told' /\ broken' \subseteq Flags /\ S \subseteq broken'
      /\ Clean' => Clean
      /\ Counting' => Counting
  BY <1>1, <1>4, Marked
<1>6. faults' \in 0..MaxFaults
  BY <1>1, Faults
<1>7. op'[c] = state /\ \A d \in Clients : d # c => op'[d] = op[d]
  BY <1>1, <1>3, Assigned
<1>8. Typed'
  BY <1>1, <1>2, <1>3, <1>5, <1>6, Assigned DEF Typed
<1>9. Writing(c) /\ SavingAt(c)
  BY <1>1 DEF Writing, SavingAt
<1>10. Levels'
  <2> SUFFICES ASSUME Clean' PROVE Agreed' /\ \A d \in Clients : Ahead(d)'
    BY DEF Levels
  <2>1. Clean /\ NoFault
    BY <1>4, <1>5 DEF Clean
  <2>2. \A d \in Clients : d # c => ~Writing(d) /\ ~Filling(d)
    BY <1>1, <1>9, <2>1, Alone
  <2>3. Agreed'
    BY <1>3, <1>7 DEF Agreed
  <2>4. ASSUME NEW d \in Clients PROVE Ahead(d)'
    <3>1. CASE d = c
      BY <1>1, <1>3, <1>7, <2>1, <3>1 DEF Ahead
    <3>2. CASE d # c
      BY <1>7, <2>2, <3>2 DEF Ahead, Writing, SavingAt, DeletingAt, Filling
    <3> QED
      BY <3>1, <3>2
  <2> QED
    BY <2>3, <2>4
<1>11. Versions'
  <2>1. Counting' => state.entry.version = row.version + 1
    BY <1>1, <1>3, <1>5, <1>9 DEF Versions
  <2> QED
    BY <1>1, <1>3, <1>5, <2>1, VersionsQuiet
<1>12. Counted'
  BY <1>1, <1>3, <1>9, CountedQuiet
<1> QED
  BY <1>5, <1>8, <1>10, <1>11, <1>12 DEF Core

\* The row follows, and the two agree again.
LEMMA SaveRowCore ==
    ASSUME Core, NEW c \in Clients, SaveRow(c)
    PROVE  Core'
<1>1. /\ Typed /\ Told /\ Levels /\ Versions /\ Counted
      /\ op[c].pc = "set_row" /\ Marks(IF Failing THEN {"half"} ELSE {})
      /\ UNCHANGED <<cache, ops>>
      /\ (NoFault \/ Fault("set_row"))
      /\ row' \in {row, op[c].entry}
      /\ NoFault => row' = op[c].entry
      /\ op' = [op EXCEPT ![c] = Plain("idle")]
  BY Bounds DEF SaveRow, Core, NoFault, Fault, Typed, Plain
<1>2. op[c] \in Op /\ op[c].entry \in Entry
  BY <1>1, OpFields DEF Typed
<1>3. PICK state \in Op : Does(c, state) /\ state.pc = "idle"
  BY <1>1, PlainOp DEF Does
<1>4. PICK S \in SUBSET Flags : Marks(S) /\ (~NoFault => "half" \in S)
  BY <1>1 DEF Flags, Failing, NoFault
<1>5. /\ Told' /\ broken' \subseteq Flags /\ S \subseteq broken'
      /\ Clean' => Clean
      /\ Counting' => Counting
  BY <1>1, <1>4, Marked
<1>6. faults' \in 0..MaxFaults
  BY <1>1, Faults
<1>7. op'[c] = state /\ \A d \in Clients : d # c => op'[d] = op[d]
  BY <1>1, <1>3, Assigned
<1>8. Typed'
  BY <1>1, <1>2, <1>3, <1>5, <1>6, Assigned DEF Typed
<1>9. Writing(c) /\ SavingAt(c)
  BY <1>1 DEF Writing, SavingAt
<1>10. Levels'
  <2> SUFFICES ASSUME Clean' PROVE Agreed' /\ \A d \in Clients : Ahead(d)'
    BY DEF Levels
  <2>1. Clean /\ NoFault
    BY <1>4, <1>5 DEF Clean
  <2>2. \A d \in Clients : d # c => ~Writing(d) /\ ~Filling(d)
    BY <1>1, <1>9, <2>1, Alone
  <2>3. cache' \in {Nothing, row'}
    BY <1>1, <2>1 DEF Levels, Ahead
  <2>4. Agreed'
    BY <2>3 DEF Agreed
  <2>5. ASSUME NEW d \in Clients PROVE Ahead(d)'
    <3>1. CASE d = c
      BY <1>3, <1>7, <3>1 DEF Ahead
    <3>2. CASE d # c
      BY <1>7, <2>2, <3>2 DEF Ahead, Writing, SavingAt, DeletingAt, Filling
    <3> QED
      BY <3>1, <3>2
  <2> QED
    BY <2>4, <2>5
<1>11. Versions'
  <2> SUFFICES ASSUME Counting', NEW d \in Clients PROVE ~SavingAt(d)'
    BY DEF Versions
  <2>1. \A e \in Clients : Writing(e) => e = c
    BY <1>1, <1>5, <1>9, Alone
  <2> QED
    BY <1>3, <1>7, <2>1 DEF Writing, SavingAt
<1>12. Counted'
  BY <1>1, <1>3, <1>9, CountedQuiet
<1> QED
  BY <1>5, <1>8, <1>10, <1>11, <1>12 DEF Core

(***************************************************************************)
(* delete.                                                                 *)
(***************************************************************************)

\* The entry goes first, by a delete that is alone unless it was noticed.
LEMMA DeleteCacheCore ==
    ASSUME Core, NEW c \in Clients, DeleteCache(c)
    PROVE  Core'
<1>1. /\ Typed /\ Told /\ Levels /\ Versions /\ Counted
      /\ op[c].pc = "del_cache" /\ Marks(IF Failing THEN {"half"} ELSE {})
      /\ UNCHANGED <<row, ops>>
      /\ (NoFault \/ Fault("set_cache"))
      /\ cache' \in {cache, Nothing}
      /\ NoFault => cache' = Nothing
  BY Bounds DEF DeleteCache, Core, NoFault, Fault, Typed
<1>2. op[c] \in Op
  BY <1>1 DEF Typed
<1>3. PICK state \in Op : Does(c, state) /\ state.pc = "del_row"
  <2>1. op' = [op EXCEPT ![c] = [op[c] EXCEPT !.pc = "del_row"]]
    BY <1>1 DEF DeleteCache, Typed
  <2> QED
    BY <1>1, <1>2, <2>1, NextStage, PlainOp DEF Does
<1>4. PICK S \in SUBSET Flags : Marks(S) /\ (~NoFault => "half" \in S)
  BY <1>1 DEF Flags, Failing, NoFault
<1>5. /\ Told' /\ broken' \subseteq Flags /\ S \subseteq broken'
      /\ Clean' => Clean
      /\ Counting' => Counting
  BY <1>1, <1>4, Marked
<1>6. faults' \in 0..MaxFaults
  BY <1>1, Faults
<1>7. op'[c] = state /\ \A d \in Clients : d # c => op'[d] = op[d]
  BY <1>1, <1>3, Assigned
<1>8. Typed'
  BY <1>1, <1>3, <1>5, <1>6, NothingFields, Assigned DEF Typed
<1>9. Writing(c)
  BY <1>1 DEF Writing, DeletingAt
<1>10. Levels'
  <2> SUFFICES ASSUME Clean' PROVE Agreed' /\ \A d \in Clients : Ahead(d)'
    BY DEF Levels
  <2>1. Clean /\ NoFault
    BY <1>4, <1>5 DEF Clean
  <2>2. \A d \in Clients : d # c => ~Writing(d) /\ ~Filling(d)
    BY <1>1, <1>9, <2>1, Alone
  <2>3. Agreed'
    BY <1>3, <1>7 DEF Agreed
  <2>4. ASSUME NEW d \in Clients PROVE Ahead(d)'
    <3>1. CASE d = c
      BY <1>1, <1>3, <1>7, <2>1, <3>1 DEF Ahead
    <3>2. CASE d # c
      BY <1>7, <2>2, <3>2 DEF Ahead, Writing, SavingAt, DeletingAt, Filling
    <3> QED
      BY <3>1, <3>2
  <2> QED
    BY <2>3, <2>4
<1>11. Versions'
  BY <1>1, <1>3, <1>5, VersionsQuiet
<1>12. Counted'
  BY <1>1, <1>3, CountedQuiet
<1> QED
  BY <1>5, <1>8, <1>10, <1>11, <1>12 DEF Core

\* The row goes too; no save counts from it.
LEMMA DeleteRowCore ==
    ASSUME Core, NEW c \in Clients, DeleteRow(c)
    PROVE  Core'
<1>1. /\ Typed /\ Told /\ Levels /\ Versions /\ Counted
      /\ op[c].pc = "del_row" /\ Marks(IF Failing THEN {"half"} ELSE {})
      /\ UNCHANGED <<cache, ops>>
      /\ (NoFault \/ Fault("set_row"))
      /\ row' \in {row, Nothing}
      /\ op' = [op EXCEPT ![c] = Plain("idle")]
  BY Bounds DEF DeleteRow, Core, NoFault, Fault, Typed, Plain
<1>2. op[c] \in Op
  BY <1>1 DEF Typed
<1>3. PICK state \in Op : Does(c, state) /\ state.pc = "idle"
  BY <1>1, PlainOp DEF Does
<1>4. PICK S \in SUBSET Flags : Marks(S) /\ (~NoFault => "half" \in S)
  BY <1>1 DEF Flags, Failing, NoFault
<1>5. /\ Told' /\ broken' \subseteq Flags /\ S \subseteq broken'
      /\ Clean' => Clean
      /\ Counting' => Counting
  BY <1>1, <1>4, Marked
<1>6. faults' \in 0..MaxFaults
  BY <1>1, Faults
<1>7. op'[c] = state /\ \A d \in Clients : d # c => op'[d] = op[d]
  BY <1>1, <1>3, Assigned
<1>8. Typed'
  BY <1>1, <1>3, <1>5, <1>6, NothingFields, Assigned DEF Typed
<1>9. Writing(c)
  BY <1>1 DEF Writing, DeletingAt
<1>10. Levels'
  <2> SUFFICES ASSUME Clean' PROVE Agreed' /\ \A d \in Clients : Ahead(d)'
    BY DEF Levels
  <2>1. Clean
    BY <1>5
  <2>2. \A d \in Clients : d # c => ~Writing(d) /\ ~Filling(d)
    BY <1>1, <1>9, <2>1, Alone
  <2>3. Agreed'
    BY <1>1, <2>1 DEF Agreed, Levels, Ahead
  <2>4. ASSUME NEW d \in Clients PROVE Ahead(d)'
    <3>1. CASE d = c
      BY <1>3, <1>7, <3>1 DEF Ahead
    <3>2. CASE d # c
      BY <1>7, <2>2, <3>2 DEF Ahead, Writing, SavingAt, DeletingAt, Filling
    <3> QED
      BY <3>1, <3>2
  <2> QED
    BY <2>3, <2>4
<1>11. Versions'
  <2> SUFFICES ASSUME Counting', NEW d \in Clients PROVE ~SavingAt(d)'
    BY DEF Versions
  <2>1. \A e \in Clients : Writing(e) => e = c
    BY <1>1, <1>5, <1>9, Alone
  <2> QED
    BY <1>3, <1>7, <2>1 DEF Writing, SavingAt
<1>12. Counted'
  BY <1>1, <1>3, CountedQuiet
<1> QED
  BY <1>5, <1>8, <1>10, <1>11, <1>12 DEF Core

(***************************************************************************)
(* The environment, and every step.                                        *)
(***************************************************************************)

\* An entry expires; a clean slate is taken only when nothing is under way.
LEMMA ExpireCore ==
    ASSUME Core, Expire
    PROVE  Core'
<1>1. /\ Typed /\ Told /\ Levels /\ Versions /\ Counted
      /\ cache' = Nothing /\ UNCHANGED <<row, op, ops, faults>>
      /\ broken' = IF \A c \in Clients : Free(c) THEN {} ELSE broken
  BY DEF Expire, Core
<1>2. Unread' = Unread
  BY <1>1 DEF Unread
<1>3. Counted'
  BY <1>1, <1>2 DEF Counted, SavingAt
<1>4. Typed'
  BY <1>1, NothingFields DEF Typed
<1>5. CASE \A c \in Clients : Free(c)
  <2>1. \A c \in Clients : op'[c].pc \in {"idle", "got"}
    BY <1>1, <1>5 DEF Free
  <2>2. Told'
    BY <2>1 DEF Told, Writing, Filling, SavingAt, DeletingAt
  <2>3. Levels'
    BY <1>1, <2>1 DEF Levels, Agreed, Ahead
  <2>4. Versions'
    BY <2>1 DEF Versions, SavingAt
  <2> QED
    BY <1>3, <1>4, <2>2, <2>3, <2>4 DEF Core
<1>6. CASE ~(\A c \in Clients : Free(c))
  <2>1. broken' = broken
    BY <1>1, <1>6
  <2>2. Told'
    BY <1>1, <2>1 DEF Told, Writing, Filling, SavingAt, DeletingAt
  <2>3. Levels'
    BY <1>1, <2>1 DEF Levels, Clean, Agreed, Ahead
  <2>4. Versions'
    BY <1>1, <2>1 DEF Versions, Counting, SavingAt
  <2> QED
    BY <1>3, <1>4, <2>2, <2>3, <2>4 DEF Core
<1> QED
  BY <1>5, <1>6

\* A restart between the two writes of an operation has been noticed.
LEMMA RestartCore ==
    ASSUME Core, Restart
    PROVE  Core'
<1>1. /\ Typed /\ Told /\ Levels /\ Versions /\ Counted
      /\ (NoFault \/ Fault("restart"))
      /\ op' = [c \in Clients |-> Plain("idle")]
      /\ Marks(IF \E c \in Clients : op[c].pc \in {"set_row", "del_row"} THEN {"half"} ELSE {})
      /\ UNCHANGED <<cache, row, ops>>
  BY DEF Restart, Core, Plain
<1>2. PICK S \in SUBSET Flags :
        /\ Marks(S)
        /\ (\E c \in Clients : op[c].pc \in {"set_row", "del_row"}) => "half" \in S
  BY <1>1 DEF Flags
<1>3. /\ Told' /\ broken' \subseteq Flags /\ S \subseteq broken'
      /\ Clean' => Clean
      /\ Counting' => Counting
  BY <1>1, <1>2, Marked
<1>4. \A c \in Clients : op'[c] \in Op /\ op'[c].pc = "idle"
  BY <1>1, PlainOp
<1>5. Typed'
  BY <1>1, <1>3, PlainOp, Faults DEF Typed
<1>6. Levels'
  BY <1>1, <1>2, <1>3, <1>4 DEF Levels, Clean, Agreed, Ahead
<1>7. Versions'
  BY <1>4 DEF Versions, SavingAt
<1>8. Counted'
  <2>1. Unread' = {}
    BY <1>4 DEF Unread
  <2>2. Cardinality(Unread') = 0
    BY <2>1, FS_EmptySet
  <2>3. PICK u \in Nat : u = Cardinality(Unread)
    BY UnreadFinite
  <2>4. row.version \in Nat /\ ops \in Nat /\ row.version + u <= ops
    BY <1>1, <2>3, EntryFields DEF Counted, Typed
  <2>5. row'.version + 0 <= ops'
    BY <1>1, <2>3, <2>4
  <2>6. \A c \in Clients : ~SavingAt(c)'
    BY <1>4 DEF SavingAt
  <2> QED
    BY <2>2, <2>5, <2>6 DEF Counted
<1> QED
  BY <1>3, <1>5, <1>6, <1>7, <1>8 DEF Core

\* Every step keeps what does not concern the history of the gets.
LEMMA NextCore ==
    ASSUME Core, Next
    PROVE  Core'
<1>1. CASE \E c \in Clients : Step(c)
  <2> PICK c \in Clients : Step(c)
    BY <1>1
  <2>1. CASE BeginGet(c) \/ BeginDelete(c)
    BY <2>1, BeginCore
  <2>2. CASE ReadCache(c)
    BY <2>2, ReadCacheCore
  <2>3. CASE ReadRow(c)
    BY <2>3, ReadRowCore
  <2>4. CASE Backfill(c)
    BY <2>4, BackfillCore
  <2>5. CASE BeginSave(c)
    BY <2>5, BeginSaveCore
  <2>6. CASE ReadVersion(c)
    BY <2>6, ReadVersionCore
  <2>7. CASE SaveCache(c)
    BY <2>7, SaveCacheCore
  <2>8. CASE SaveRow(c)
    BY <2>8, SaveRowCore
  <2>9. CASE DeleteCache(c)
    BY <2>9, DeleteCacheCore
  <2>10. CASE DeleteRow(c)
    BY <2>10, DeleteRowCore
  <2> QED
    BY <2>1, <2>2, <2>3, <2>4, <2>5, <2>6, <2>7, <2>8, <2>9, <2>10 DEF Step
<1>2. CASE Expire
  BY <1>2, ExpireCore
<1>3. CASE Restart
  BY <1>3, RestartCore
<1> QED
  BY <1>1, <1>2, <1>3 DEF Next

\* A get under way is told of what is current.
LEMMA NextInv ==
    ASSUME IInv, Next
    PROVE  IInv'
<1>1. Core' /\ Watch /\ TypeOK
  BY NextCore DEF IInv, Next
<1>2. Typed'
  BY <1>1 DEF Core
<1>3. Watched'
  BY <1>1, <1>2 DEF Watch, Watched, Typed
<1>4. row'.content \in Contents
  BY <1>2, EntryFields DEF Typed
<1>5. \A c \in Clients : SavingAt(c)' => op'[c].entry.content \in Contents
  BY <1>2, OpFields, EntryFields DEF Typed, SavingAt
<1>6. Current' \subseteq Contents
  <2>1. 0 \in Contents
    BY Bounds DEF Contents
  <2> QED
    BY <1>4, <1>5, <2>1 DEF Current
<1>7. seen' \in [Clients -> SUBSET Contents]
  BY <1>1, <1>6 DEF Watch, TypeOK
<1>8. TypeOK'
  BY <1>2, <1>7 DEF Typed, TypeOK, Op
<1> QED
  BY <1>1, <1>3, <1>8 DEF IInv

\* Nothing is under way at first.
LEMMA InitInv == Init => IInv
<1> SUFFICES ASSUME Init PROVE IInv
  OBVIOUS
<1>1. \A c \in Clients : op[c] \in Op /\ op[c].pc = "idle"
  BY PlainOp DEF Init, Plain
<1>2. Typed
  BY <1>1, NothingFields, Bounds DEF Init, Typed
<1>3. TypeOK
  BY <1>2 DEF Init, Typed, TypeOK, Op
<1>4. Told
  BY <1>1 DEF Told, Writing, Filling, SavingAt, DeletingAt
<1>5. Levels
  BY <1>1 DEF Init, Levels, Agreed, Ahead
<1>6. Versions
  BY <1>1 DEF Versions, SavingAt
<1>7. Counted
  <2>1. Unread = {}
    BY <1>1 DEF Unread
  <2>2. Cardinality(Unread) = 0
    BY <2>1, FS_EmptySet
  <2>3. \A c \in Clients : ~SavingAt(c)
    BY <1>1 DEF SavingAt
  <2> QED
    BY <2>2, <2>3, NothingFields DEF Init, Counted
<1>8. Watched
  BY <1>1 DEF Watched
<1> QED
  BY <1>2, <1>3, <1>4, <1>5, <1>6, <1>7, <1>8 DEF IInv, Core

\* The invariant is inductive.
THEOREM Inductive == Spec => []IInv
<1>1. IInv /\ UNCHANGED vars => IInv'
  BY DEF IInv, Core, vars, TypeOK, Typed, Told, Levels, Clean, Agreed, Ahead, Versions, Counting,
         Counted, Unread, Watched, Current, Writing, Filling, SavingAt, DeletingAt
<1> QED
  BY InitInv, NextInv, <1>1, PTL DEF Spec

\* No operation leaves the types: a version, which save counts up from that of
\* the row, never exceeds the number of operations (user_instruction.py).
THEOREM TypeCorrect == Spec => []TypeOK
<1>1. IInv => TypeOK
  BY DEF IInv
<1> QED
  BY Inductive, <1>1, PTL

\* Redis holds the row or nothing whenever no save or delete is under way,
\* unless operations overlapped or one was cut between its two writes.
THEOREM LevelsDoAgree == Spec => []LevelsAgree
<1>1. IInv => LevelsAgree
  BY DEF IInv, Core, Levels, Clean, Agreed, LevelsAgree, Writing, SavingAt, DeletingAt
<1> QED
  BY Inductive, <1>1, PTL

(***************************************************************************)
(* What a step may do.                                                     *)
(***************************************************************************)

\* Only a save that writes its row brings another one.
LEMMA RowStep ==
    ASSUME Next, row' \notin {row, Nothing}
    PROVE  \E c \in Clients : SavingAt(c) /\ row' = op[c].entry
<1>1. \A c \in Clients : Step(c) => SaveRow(c)
  BY DEF Step, BeginGet, ReadCache, ReadRow, Backfill, BeginSave, ReadVersion, SaveCache,
         BeginDelete, DeleteCache, DeleteRow, Start
<1>2. PICK c \in Clients : SaveRow(c)
  BY <1>1 DEF Next, Expire, Restart
<1> QED
  BY <1>2 DEF SaveRow, SavingAt

\* A save over an existing row counts its version up by one, unless writers
\* overlap or the row could not be read.
THEOREM VersionsCount == Spec => VersionCounts
<1> DEFINE Counts == row # Nothing /\ row' \notin {row, Nothing} =>
                         \/ row'.version = row.version + 1
                         \/ broken \intersect {"writers", "unread"} # {}
<1>1. ASSUME IInv, [Next]_vars PROVE [Counts]_vars
  <2>1. CASE Next
    <3> SUFFICES ASSUME row' \notin {row, Nothing}, Counting PROVE row'.version = row.version + 1
      BY DEF Counting
    <3>1. PICK c \in Clients : SavingAt(c) /\ row' = op[c].entry
      BY <2>1, RowStep
    <3> QED
      BY <1>1, <3>1 DEF IInv, Core, Versions
  <2>2. CASE UNCHANGED vars
    BY <2>2
  <2> QED
    BY <1>1, <2>1, <2>2
<1> QED
  BY Inductive, <1>1, PTL DEF Spec, VersionCounts

\* A client answers in its own step, with what it read.
LEMMA AnswerStep ==
    ASSUME Typed, Next, NEW c \in Clients, op'[c].pc = "got", op'[c] # op[c]
    PROVE  ReadCache(c) \/ ReadRow(c) \/ Backfill(c)
<1>1. PICK d \in Clients : Step(d)
  BY DEF Next, Expire, Restart
<1>2. op \in [Clients -> Op]
  BY DEF Typed
<1>3. CASE d # c
  BY <1>1, <1>2, <1>3 DEF Step, BeginGet, ReadCache, ReadRow, Backfill, BeginSave, ReadVersion,
         SaveCache, SaveRow, BeginDelete, DeleteCache, DeleteRow, Start
<1>4. CASE d = c
  <2>1. SaveCache(c) => op'[c].pc = "set_row"
    <3>1. op[c].pc = "set_cache" => [op[c] EXCEPT !.pc = "set_row"].pc = "set_row"
      BY <1>2, NextStage DEF Holding
    <3> QED
      BY <1>2, <3>1 DEF SaveCache
  <2>2. DeleteCache(c) => op'[c].pc = "del_row"
    <3>1. op[c].pc = "del_cache" => [op[c] EXCEPT !.pc = "del_row"].pc = "del_row"
      BY <1>2, NextStage DEF Plain
    <3> QED
      BY <1>2, <3>1 DEF DeleteCache
  <2>3. ~(BeginGet(c) \/ BeginSave(c) \/ ReadVersion(c) \/ SaveRow(c) \/ BeginDelete(c)
          \/ DeleteRow(c))
    BY <1>2 DEF BeginGet, BeginSave, ReadVersion, SaveRow, BeginDelete, DeleteRow, Start
  <2> QED
    BY <1>1, <1>4, <2>1, <2>2, <2>3 DEF Step
<1> QED
  BY <1>3, <1>4

\* When nothing has gone wrong a get answers with what was current during it:
\* what it finds in Redis is the row's, or what a save is about to put there.
LEMMA AnswerCurrent ==
    ASSUME IInv, Next, NEW c \in Clients, op'[c].pc = "got", op'[c] # op[c], broken' = {}
    PROVE  op'[c].content \in seen[c]
<1>1. Typed /\ Levels /\ Watched
  BY DEF IInv, Core
<1>2. ReadCache(c) \/ ReadRow(c) \/ Backfill(c)
  BY <1>1, AnswerStep
<1>3. op[c].pc \in {"get_cache", "get_row", "backfill"} /\ \E S : Marks(S)
  BY <1>2 DEF ReadCache, ReadRow, Backfill
<1>4. broken = {} /\ Agreed /\ \A d \in Clients : Ahead(d)
  BY <1>1, <1>3 DEF Marks, Levels, Clean
<1>5. Current \subseteq seen[c] /\ row.content \in Current
  BY <1>1, <1>3 DEF Watched, Current
<1>6. CASE ReadCache(c)
  <2>1. op'[c].content = cache.content /\ cache # Nothing
    BY <1>1, <1>6 DEF ReadCache, Typed
  <2>2. CASE \E d \in Clients : op[d].pc = "set_row"
    <3>1. PICK d \in Clients : op[d].pc = "set_row"
      BY <2>2
    <3>2. cache = op[d].entry
      BY <1>4, <2>1, <3>1 DEF Ahead
    <3>3. op[d].entry.content \in Current
      BY <3>1 DEF Current, SavingAt
    <3> QED
      BY <1>5, <2>1, <3>2, <3>3
  <2>3. CASE \A d \in Clients : op[d].pc # "set_row"
    BY <1>4, <1>5, <2>1, <2>3 DEF Agreed, Ahead
  <2> QED
    BY <2>2, <2>3
<1>7. CASE ReadRow(c)
  <2>1. ~Failing
    BY <1>7 DEF ReadRow, Marks
  <2>2. PICK found \in {row, Nothing} :
          /\ Reads("get_row", row, found)
          /\ op' = [op EXCEPT ![c] = IF found = Nothing THEN [pc |-> "got", content |-> 0]
                                     ELSE [pc |-> "backfill", entry |-> found]]
    BY <1>7 DEF ReadRow
  <2>3. found = row
    BY <1>1, <2>1, <2>2 DEF Reads, Fault, Failing, Typed
  <2>4. row = Nothing /\ op'[c].content = 0
    BY <1>1, <2>2, <2>3 DEF Typed
  <2> QED
    BY <1>5, <2>4, NothingFields
<1>8. CASE Backfill(c)
  <2>1. op'[c].content = op[c].entry.content /\ op[c].pc = "backfill"
    BY <1>1, <1>8 DEF Backfill, Typed
  <2> QED
    BY <1>4, <1>5, <2>1 DEF Ahead
<1> QED
  BY <1>2, <1>6, <1>7, <1>8

\* Every answer of get was current at some moment of the call, or something
\* has gone wrong.
THEOREM AnswersAreCurrent == Spec => AnswersCurrent
<1> DEFINE Answers == \A c \in Clients :
                          op'[c].pc = "got" /\ op'[c] # op[c] =>
                              op'[c].content \in seen[c] \/ broken' # {}
<1>1. ASSUME IInv, [Next]_vars PROVE [Answers]_vars
  BY <1>1, AnswerCurrent
<1> QED
  BY Inductive, <1>1, PTL DEF Spec, AnswersCurrent

=============================================================================
