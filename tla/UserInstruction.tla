--------------------------- MODULE UserInstruction ---------------------------
(***************************************************************************)
(* The instruction of one user (class UserInstructionService in            *)
(* src/app/core/memory/user_instruction.py): a row in PostgreSQL and an    *)
(* entry in Redis that expires.  get reads the entry and, without one, the *)
(* row, with which it fills Redis; save reads the version of the row, then *)
(* writes the entry and the row; delete removes the entry and the row.     *)
(* Operations run beside each other, one step per await.                   *)
(*                                                                         *)
(* RedisService and DbService swallow every failure: a read that fails     *)
(* finds nothing, a write that fails goes unnoticed but for the value that *)
(* save and delete return, and may have taken effect.                      *)
(*                                                                         *)
(* The content of an instruction is the number of the save that brought it.*)
(***************************************************************************)
EXTENDS Integers, FiniteSets

CONSTANTS
    Clients,      \* requests that may be under way at the same time
    MaxOps,       \* bound of the model: operations
    FaultKinds,   \* which faults may happen, see Fault
    MaxFaults     \* bound of the model: faults

ASSUME ClientsAssumption == IsFiniteSet(Clients)
ASSUME BoundsAssumption == {MaxOps, MaxFaults} \subseteq Nat
ASSUME KindsAssumption ==
    FaultKinds \subseteq {"get_cache", "set_cache", "get_row", "set_row", "restart"}

VARIABLES
    cache,    \* Redis: the entry ui:{user_id}, Nothing when absent
    row,      \* PostgreSQL: the row of the user, Nothing when absent
    op,       \* [Clients -> what each request is doing]
    ops,      \* operations started, at most MaxOps
    seen,     \* history: [Clients -> contents current since its get began]
    broken,   \* history: what has gone wrong, see Flags
    faults    \* faults so far, at most MaxFaults

vars == <<cache, row, op, ops, seen, broken, faults>>

Contents == 0..MaxOps
Nothing == [content |-> 0, version |-> 0]
Entry == {Nothing} \union [content : 1..MaxOps, version : 1..MaxOps]

\* What a request may be doing: nothing, or its get has answered; a get; a
\* save; a delete.
Rest == {[pc |-> "idle"]} \union [pc : {"got"}, content : Contents]
Get == [pc : {"get_cache", "get_row"}] \union [pc : {"backfill"}, entry : Entry]
Save == [pc : {"get_version"}, content : 1..MaxOps]
        \union [pc : {"set_cache", "set_row"}, entry : Entry]
Delete == [pc : {"del_cache", "del_row"}]

Free(c) == op[c].pc \in {"idle", "got"}
Filling(c) == op[c].pc \in {"get_row", "backfill"}
SavingAt(c) == op[c].pc \in {"set_cache", "set_row"}
DeletingAt(c) == op[c].pc \in {"del_cache", "del_row"}
Writing(c) == op[c].pc = "get_version" \/ SavingAt(c) \/ DeletingAt(c)

\* "writers": two saves or deletes ran at once; "filler": one ran while a get
\* was on its way from the row to Redis; "half": one may not have reached both
\* levels; "unread": the row could not be read.
Flags == {"writers", "filler", "half", "unread"}

Overlaps ==
    LET writers == {c \in Clients : Writing(c)}
        fillers == {c \in Clients : Filling(c)}
    IN  (IF Cardinality(writers) > 1 THEN {"writers"} ELSE {})
        \union (IF writers # {} /\ fillers # {} THEN {"filler"} ELSE {})

Marks(S) == broken' = broken \union S \union Overlaps'

\* The contents a get may answer with at this moment: that of the row, and
\* what a save or delete under way is about to make of it.
Current == {row.content}
    \union {op[c].entry.content : c \in {d \in Clients : SavingAt(d)}}
    \union {0 : c \in {d \in Clients : DeletingAt(d)}}

\* While a get is under way, what was current at some moment of it is
\* remembered.
Watch == seen' = [c \in Clients |->
    IF op'[c].pc \in {"get_cache", "get_row", "backfill"} THEN seen[c] \union Current'
                                                          ELSE {}]

TypeOK ==
    /\ cache \in Entry
    /\ row \in Entry
    /\ op \in [Clients -> Rest \union Get \union Save \union Delete]
    /\ ops \in 0..MaxOps
    /\ seen \in [Clients -> SUBSET Contents]
    /\ broken \subseteq Flags
    /\ faults \in 0..MaxFaults

Init ==
    /\ cache = Nothing
    /\ row = Nothing
    /\ op = [c \in Clients |-> [pc |-> "idle"]]
    /\ ops = 0
    /\ seen = [c \in Clients |-> {}]
    /\ broken = {}
    /\ faults = 0

\* A fault of one kind: a Redis or PostgreSQL call that fails and whose
\* failure is swallowed, or a restart of the process.
Fault(kind) ==
    /\ kind \in FaultKinds
    /\ faults < MaxFaults
    /\ faults' = faults + 1

NoFault == faults' = faults

\* A call returns what is stored, or nothing when it fails.
Reads(kind, stored, found) ==
    \/ found = stored /\ NoFault
    \/ found = Nothing /\ Fault(kind)

Failing == faults' # faults

Start(c, state) ==
    /\ Free(c)
    /\ ops < MaxOps
    /\ ops' = ops + 1
    /\ op' = [op EXCEPT ![c] = state]
    /\ Marks({})
    /\ UNCHANGED <<cache, row, faults>>

-----------------------------------------------------------------------------
(* get.                                                                    *)

BeginGet(c) == Start(c, [pc |-> "get_cache"])

\* Mutant: without an entry there is no instruction.
BugTrustMiss(c) ==
    /\ op[c].pc = "get_cache"
    /\ NoFault
    /\ op' = [op EXCEPT ![c] = [pc |-> "got", content |-> cache.content]]
    /\ Marks({})
    /\ UNCHANGED <<cache, row, ops>>

ReadCache(c) ==
    /\ op[c].pc = "get_cache"
    /\ \E found \in {cache, Nothing} :
          /\ Reads("get_cache", cache, found)
          /\ op' = [op EXCEPT ![c] =
                IF found = Nothing THEN [pc |-> "get_row"]
                ELSE [pc |-> "got", content |-> found.content]]
    /\ Marks({})
    /\ UNCHANGED <<cache, row, ops>>

ReadRow(c) ==
    /\ op[c].pc = "get_row"
    /\ \E found \in {row, Nothing} :
          /\ Reads("get_row", row, found)
          /\ op' = [op EXCEPT ![c] =
                IF found = Nothing THEN [pc |-> "got", content |-> 0]
                ELSE [pc |-> "backfill", entry |-> found]]
    /\ Marks(IF Failing THEN {"unread"} ELSE {})
    /\ UNCHANGED <<cache, row, ops>>

\* Mutant: Redis is filled without the version.
BugNoVersion(c) ==
    /\ op[c].pc = "backfill"
    /\ NoFault
    /\ cache' = [op[c].entry EXCEPT !.version = 0]
    /\ op' = [op EXCEPT ![c] = [pc |-> "got", content |-> op[c].entry.content]]
    /\ Marks({})
    /\ UNCHANGED <<row, ops>>

\* A failed write to Redis is as good as an entry that has expired, if what was
\* there before is in order.
Backfill(c) ==
    /\ op[c].pc = "backfill"
    /\ \/ NoFault /\ cache' = op[c].entry
       \/ Fault("set_cache") /\ cache' = cache
    /\ op' = [op EXCEPT ![c] = [pc |-> "got", content |-> op[c].entry.content]]
    /\ Marks({})
    /\ UNCHANGED <<row, ops>>

-----------------------------------------------------------------------------
(* save.                                                                   *)

BeginSave(c) == Start(c, [pc |-> "get_version", content |-> ops + 1])

\* Mutant: the version of the row is kept.
BugSameVersion(c) ==
    /\ op[c].pc = "get_version"
    /\ NoFault
    /\ op' = [op EXCEPT ![c] = [pc |-> "set_cache", entry |->
          [content |-> op[c].content,
           version |-> IF row = Nothing THEN 1 ELSE row.version]]]
    /\ Marks({})
    /\ UNCHANGED <<cache, row, ops>>

\* Without a row, or with a failed read, the version starts at 1.
ReadVersion(c) ==
    /\ op[c].pc = "get_version"
    /\ \E found \in {row, Nothing} :
          /\ Reads("get_row", row, found)
          /\ op' = [op EXCEPT ![c] = [pc |-> "set_cache", entry |->
                [content |-> op[c].content, version |-> found.version + 1]]]
    /\ Marks(IF Failing THEN {"unread"} ELSE {})
    /\ UNCHANGED <<cache, row, ops>>

SaveCache(c) ==
    /\ op[c].pc = "set_cache"
    /\ \/ NoFault /\ cache' = op[c].entry
       \/ Fault("set_cache") /\ cache' \in {cache, op[c].entry}
    /\ op' = [op EXCEPT ![c].pc = "set_row"]
    /\ Marks(IF Failing THEN {"half"} ELSE {})
    /\ UNCHANGED <<row, ops>>

SaveRow(c) ==
    /\ op[c].pc = "set_row"
    /\ \/ NoFault /\ row' = op[c].entry
       \/ Fault("set_row") /\ row' \in {row, op[c].entry}
    /\ op' = [op EXCEPT ![c] = [pc |-> "idle"]]
    /\ Marks(IF Failing THEN {"half"} ELSE {})
    /\ UNCHANGED <<cache, ops>>

-----------------------------------------------------------------------------
(* delete.                                                                 *)

BeginDelete(c) == Start(c, [pc |-> "del_cache"])

\* Mutant: the entry is left to expire.
BugKeepEntry(c) ==
    /\ op[c].pc = "del_cache"
    /\ NoFault
    /\ cache' = cache
    /\ op' = [op EXCEPT ![c].pc = "del_row"]
    /\ Marks({})
    /\ UNCHANGED <<row, ops>>

DeleteCache(c) ==
    /\ op[c].pc = "del_cache"
    /\ \/ NoFault /\ cache' = Nothing
       \/ Fault("set_cache") /\ cache' \in {cache, Nothing}
    /\ op' = [op EXCEPT ![c].pc = "del_row"]
    /\ Marks(IF Failing THEN {"half"} ELSE {})
    /\ UNCHANGED <<row, ops>>

DeleteRow(c) ==
    /\ op[c].pc = "del_row"
    /\ \/ NoFault /\ row' = Nothing
       \/ Fault("set_row") /\ row' \in {row, Nothing}
    /\ op' = [op EXCEPT ![c] = [pc |-> "idle"]]
    /\ Marks(IF Failing THEN {"half"} ELSE {})
    /\ UNCHANGED <<cache, ops>>

-----------------------------------------------------------------------------
(* The environment.                                                        *)

\* The entry expires.  When nothing is under way what went wrong before is
\* forgotten with it: the row is all that is left.
Expire ==
    /\ cache # Nothing
    /\ cache' = Nothing
    /\ broken' = IF \A c \in Clients : Free(c) THEN {} ELSE broken
    /\ UNCHANGED <<row, op, ops, faults>>

\* The process restarts: requests end where they are.
Restart ==
    /\ \E c \in Clients : ~Free(c)
    /\ Fault("restart")
    /\ op' = [c \in Clients |-> [pc |-> "idle"]]
    /\ Marks(IF \E c \in Clients : op[c].pc \in {"set_row", "del_row"} THEN {"half"}
                                                                     ELSE {})
    /\ UNCHANGED <<cache, row, ops>>

Step(c) ==
    \/ BeginGet(c)
    \/ ReadCache(c)
    \/ ReadRow(c)
    \/ Backfill(c)
    \/ BeginSave(c)
    \/ ReadVersion(c)
    \/ SaveCache(c)
    \/ SaveRow(c)
    \/ BeginDelete(c)
    \/ DeleteCache(c)
    \/ DeleteRow(c)

Next ==
    /\ \/ \E c \in Clients : Step(c)
       \/ Expire
       \/ Restart
    /\ Watch

Spec == Init /\ [][Next]_vars

-----------------------------------------------------------------------------
(* Properties.                                                             *)

\* The two levels agree whenever no save or delete is under way, although
\* entries expire, reads fail and gets fill Redis: an entry that is not the
\* row's is left by operations that overlapped, or by one that did not reach
\* both levels, since the entry last expired.
LevelsAgree ==
    (\A c \in Clients : ~Writing(c)) /\ cache \notin {Nothing, row} =>
        broken \intersect {"writers", "filler", "half"} # {}

\* A get answers with an instruction that was current at some moment of the
\* call, under the same circumstances and if it could read the row.
AnswersCurrent ==
    [][\A c \in Clients :
          op'[c].pc = "got" /\ op'[c] # op[c] =>
              op'[c].content \in seen[c] \/ broken' # {}]_vars

\* A save over an existing instruction counts its version up by one, unless
\* saves or deletes overlap or the row could not be read.
VersionCounts ==
    [][row # Nothing /\ row' \notin {row, Nothing} =>
          \/ row'.version = row.version + 1
          \/ broken \intersect {"writers", "unread"} # {}]_vars

=============================================================================
