------------------------ MODULE LongTermExtractProofs -----------------------
(***************************************************************************)
(* Proofs about LongTermExtract for every interval, any consumers, any     *)
(* number of turns, steps, memories and faults.                            *)
(***************************************************************************)
EXTENDS LongTermExtract, SequenceTheorems, WellFoundedInduction, TLAPS

(***************************************************************************)
(* The inductive invariant.                                                *)
(***************************************************************************)

\* The messages of a turn have their places, and what it has read of the
\* position lies before them.
TurnOK ==
    /\ turn = NoTurn => len <= turns * (MaxSteps + 2)
    /\ turn # NoTurn => turns >= 1
    /\ turn.pc = "reply" => len + 1 + MaxSteps <= turns * (MaxSteps + 2)
    /\ turn.pc \in {"publish", "set", "finish"} =>
          /\ turn.total <= turns * (MaxSteps + 2)
          /\ len < turn.total
          /\ turn.last < turn.total

\* A consumer works on a task of the queue that no other one has, and stores
\* memories it has extracted.
TasksOK ==
    /\ \A task \in queue : task.by <= turns
    /\ \A w \in Workers : Working(w) => worker[w].task \in queue
    /\ \A v, w \in Workers :
          Working(v) /\ Working(w) /\ worker[v].task = worker[w].task => v = w
    /\ \A w \in Workers :
          /\ worker[w].pc = "extract" => worker[w].next = 1
          /\ worker[w].pc = "store" => worker[w].next <= Len(worker[w].items)

\* Every message before n was offered, or passed over by a known accident.
Passed(n) == Span(0, n) \subseteq offered \union excused

\* Whatever the position is, or may be set to.
PassedOK ==
    /\ Passed(position)
    /\ turn.pc = "publish" => Passed(turn.last)
    /\ turn.pc = "set" => Passed(turn.total)
    /\ \A task \in queue : Passed(task.total)

\* As far as the position may have moved.
Furthest == IF turn.pc \in {"set", "finish"} THEN turn.total ELSE len

\* While nothing has gone wrong, no position that is in force, or may be set,
\* or was read, is before a message that was offered.
OnceOK ==
    broken = {} =>
        /\ repeated = {}
        /\ position <= Furthest
        /\ turn.pc # "set" => offered \subseteq Span(0, position)
        /\ turn.pc = "publish" => offered \subseteq Span(0, turn.last)
        /\ turn.pc = "set" => offered \subseteq Span(0, turn.total)
        /\ \A task \in queue : task.total <= Furthest /\ offered \subseteq Span(0, task.total)

\* While no task was published amid another one, there is one at most, and no
\* memory is later than it.
NewestOK ==
    /\ \A k \in Keys : newest[k] <= turns
    /\ "overlap" \notin broken =>
          /\ memory = newest
          /\ \A s, t \in queue : s = t
          /\ \A k \in Keys, task \in queue : newest[k] <= task.by

IInv ==
    /\ TypeOK
    /\ TurnOK
    /\ TasksOK
    /\ PassedOK
    /\ OnceOK
    /\ NewestOK

(***************************************************************************)
(* Lemmas about the constants and the state.                               *)
(***************************************************************************)

\* The bounds and the interval are numbers.
LEMMA Constants ==
    /\ MaxItems \in Nat /\ MaxTurns \in Nat /\ MaxSteps \in Nat /\ MaxFaults \in Nat
    /\ LONGTERM_EXTRACT_INTERVAL \in Nat
  BY BoundsAssumption, IntervalAssumption

\* The positions that turns have room for.
LEMMA Room ==
    ASSUME NEW t \in 0..MaxTurns
    PROVE  /\ t * (MaxSteps + 2) \in Nat
           /\ (t + 1) * (MaxSteps + 2) = t * (MaxSteps + 2) + MaxSteps + 2
           /\ t * (MaxSteps + 2) <= MaxTurns * (MaxSteps + 2)
           /\ MaxTurns * (MaxSteps + 2) \in Nat
<1> DEFINE m == MaxSteps + 2
           d == MaxTurns - t
<1>1. t \in Nat /\ m \in Nat /\ d \in Nat /\ MaxTurns = t + d
  BY Constants
<1>2. \A a, b, c \in Nat : /\ a * c \in Nat /\ (a + 1) * c = a * c + c
                           /\ (a + b) * c = a * c + b * c
  OBVIOUS
<1> HIDE DEF m, d
<1>3. /\ t * m \in Nat /\ (t + 1) * m = t * m + m /\ d * m \in Nat
      /\ MaxTurns * m = t * m + d * m
  BY <1>1, <1>2
<1>4. MaxTurns * m \in Nat /\ t * m <= MaxTurns * m
  BY <1>3
<1> QED
  BY <1>3, <1>4, Constants DEF m

\* What lies before a position that turns have room for is among the positions.
LEMMA InRoom ==
    ASSUME NEW t \in 0..MaxTurns, NEW m \in Nat, NEW n \in Nat, n <= t * (MaxSteps + 2)
    PROVE  Span(m, n) \subseteq Positions
<1>1. /\ t * (MaxSteps + 2) \in Nat /\ t * (MaxSteps + 2) <= MaxTurns * (MaxSteps + 2)
      /\ MaxTurns * (MaxSteps + 2) \in Nat
  BY Room
<1>2. \A r, a \in Nat : n <= r /\ r <= a => m..(n - 1) \subseteq 0..a
  OBVIOUS
<1> QED
  BY <1>1, <1>2 DEF Span, Positions

\* Spans of positions grow, split and do not overlap.
LEMMA SpanFacts ==
    ASSUME NEW m \in Nat, NEW n \in Nat
    PROVE  /\ m <= n => Span(0, m) \subseteq Span(0, n)
           /\ m <= n => Span(0, n) = Span(0, m) \union Span(m, n)
           /\ Span(0, m) \intersect Span(m, n) = {}
           /\ Span(0, 0) = {}
           /\ Span(m, n) \subseteq Span(0, n)
  BY DEF Span

\* An extraction has at most MaxItems memories.
LEMMA ExtractionFacts ==
    ASSUME NEW items \in Extractions
    PROVE  Len(items) \in 0..MaxItems /\ (items # <<>> => Len(items) >= 1)
<1>1. PICK n \in 0..MaxItems : items \in [1..n -> Categories]
  BY DEF Extractions
<1>2. n \in Nat
  BY Constants
<1>3. items \in Seq(Categories)
  BY <1>1, <1>2, SeqDef
<1>4. Len(items) \in Nat /\ DOMAIN items = 1..Len(items)
  BY <1>3, LenProperties
<1>5. 1..Len(items) = 1..n
  BY <1>1, <1>4
<1>6. \A a, b \in Nat : 1..a = 1..b => a = b
  <2> SUFFICES ASSUME NEW a \in Nat, NEW b \in Nat, 1..a = 1..b, a < b
               PROVE  FALSE
    OBVIOUS
  <2>1. b \in 1..b
    OBVIOUS
  <2> QED
    BY <2>1
<1>7. Len(items) = n
  BY <1>2, <1>4, <1>5, <1>6
<1>8. items # <<>> => Len(items) # 0
  BY <1>3, EmptySeq
<1> QED
  BY <1>4, <1>7, <1>8

ActiveTurn == [pc : {"reply", "publish", "set", "finish"}, total : Nat, last : Nat]

\* What the type invariant says of a turn, field by field.
LEMMA TurnFields ==
    ASSUME TypeOK
    PROVE  /\ turn = NoTurn <=> turn.pc = "idle"
           /\ turn.pc \in {"idle", "reply", "publish", "set", "finish"}
           /\ turn # NoTurn => turn \in ActiveTurn /\ turn.total \in Nat /\ turn.last \in Nat
<1>1. turn = NoTurn \/ turn \in ActiveTurn
  BY DEF TypeOK, Turn, ActiveTurn
<1>2. CASE turn = NoTurn
  BY <1>2 DEF NoTurn
<1>3. CASE turn \in ActiveTurn
  BY <1>3 DEF ActiveTurn, NoTurn
<1> QED
  BY <1>1, <1>2, <1>3

ActiveWork ==
    [pc : {"extract", "store", "position", "ack"}, task : Task,
     items : Extractions, next : 1..(MaxItems + 1)]

\* What it says of a handler, field by field.
LEMMA WorkFields ==
    ASSUME TypeOK, NEW w \in Workers
    PROVE  /\ worker[w] = NoWork <=> ~Working(w)
           /\ Working(w) =>
                 /\ worker[w] \in ActiveWork
                 /\ worker[w].pc \in {"extract", "store", "position", "ack"}
                 /\ worker[w].task \in Task /\ worker[w].items \in Extractions
                 /\ worker[w].next \in 1..(MaxItems + 1)
<1>1. worker[w] = NoWork \/ worker[w] \in ActiveWork
  BY DEF TypeOK, Work, ActiveWork
<1>2. CASE worker[w] = NoWork
  BY <1>2 DEF NoWork, Working
<1>3. CASE worker[w] \in ActiveWork
  BY <1>3 DEF ActiveWork, Working, NoWork
<1> QED
  BY <1>1, <1>2, <1>3

\* What it says of an extraction task.
LEMMA TaskFields ==
    ASSUME NEW task \in Task
    PROVE  task.by \in 1..MaxTurns /\ task.start \in Nat /\ task.total \in Nat
  BY DEF Task

(***************************************************************************)
(* Frames: parts of the invariant that a step leaves as they are.          *)
(***************************************************************************)

\* A step of a turn, and a restart.
LEMMA TurnFrame ==
    ASSUME IInv, UNCHANGED <<queue, memory, newest>>,
           worker' = worker \/ worker' = [w \in Workers |-> NoWork],
           turns' \in 0..MaxTurns, turns <= turns', broken \subseteq broken'
    PROVE  TasksOK' /\ NewestOK' /\ worker' \in [Workers -> Work]
<1>1. TypeOK /\ TasksOK /\ NewestOK /\ turns \in 0..MaxTurns
  BY DEF IInv, TypeOK
<1>2. \A w \in Workers : worker'[w].pc = "idle" \/ worker'[w] = worker[w]
  BY DEF NoWork
<1>3. \A w \in Workers : Working(w)' => Working(w) /\ worker'[w] = worker[w]
  BY <1>2 DEF Working
<1>4. worker' \in [Workers -> Work]
  BY <1>1 DEF TypeOK, Work
<1>5. TasksOK'
  <2>1. \A task \in queue' : task.by <= turns'
    BY <1>1, TaskFields DEF TasksOK, TypeOK
  <2>2. \A w \in Workers : Working(w)' => worker'[w].task \in queue'
    BY <1>1, <1>3 DEF TasksOK
  <2>3. \A v, w \in Workers :
          Working(v)' /\ Working(w)' /\ worker'[v].task = worker'[w].task => v = w
    BY <1>1, <1>3 DEF TasksOK
  <2>4. \A w \in Workers :
          /\ worker'[w].pc = "extract" => worker'[w].next = 1
          /\ worker'[w].pc = "store" => worker'[w].next <= Len(worker'[w].items)
    BY <1>1, <1>2 DEF TasksOK
  <2> QED
    BY <2>1, <2>2, <2>3, <2>4 DEF TasksOK
<1>6. NewestOK'
  <2>1. \A k \in Keys : newest[k] \in Nat /\ newest[k] <= turns
    BY <1>1 DEF TypeOK, NewestOK
  <2>2. \A k \in Keys : newest'[k] <= turns'
    BY <1>1, <2>1
  <2> QED
    BY <1>1, <2>2 DEF NewestOK, Keys
<1> QED
  BY <1>4, <1>5, <1>6

\* A step of a consumer: the position is set to what a task of the queue says,
\* if at all.
LEMMA WorkFrame ==
    ASSUME IInv, UNCHANGED <<len, users, turn, turns, offered, repeated, excused, broken>>,
           queue' \subseteq queue,
           position' = position \/ \E task \in queue : position' = task.total,
           worker' \in [Workers -> Work],
           memory' \in [Keys -> 0..MaxTurns], newest' \in [Keys -> 0..MaxTurns],
           \/ faults' = faults
           \/ faults' = faults + 1 /\ faults < MaxFaults
    PROVE  TypeOK' /\ TurnOK' /\ PassedOK' /\ OnceOK'
<1>1. TypeOK /\ TurnOK /\ PassedOK /\ OnceOK
  BY DEF IInv
<1>2. faults' \in 0..MaxFaults
  BY <1>1, Constants DEF TypeOK
<1>3. position' \in Nat
  BY <1>1, TaskFields DEF TypeOK
<1>4. TypeOK'
  BY <1>1, <1>2, <1>3 DEF TypeOK, Span
<1>5. TurnOK'
  BY <1>1 DEF TurnOK
<1>6. \A n : Passed(n)' <=> Passed(n)
  BY DEF Passed, Span
<1>7. PassedOK'
  <2>1. Passed(position')
    BY <1>1 DEF PassedOK
  <2>2. Passed(position)'
    BY <2>1 DEF Passed, Span
  <2>3. \A task \in queue' : Passed(task.total)'
    BY <1>1, <1>6 DEF PassedOK
  <2>4. /\ turn'.pc = "publish" => Passed(turn.last)'
        /\ turn'.pc = "set" => Passed(turn.total)'
    BY <1>1 DEF PassedOK, Passed, Span
  <2> QED
    BY <2>2, <2>3, <2>4 DEF PassedOK
<1>8. OnceOK'
  <2> SUFFICES ASSUME broken' = {}
               PROVE  /\ repeated' = {}
                      /\ position' <= Furthest'
                      /\ turn'.pc # "set" => offered' \subseteq Span(0, position')
                      /\ turn'.pc = "publish" => offered' \subseteq Span(0, turn'.last)
                      /\ turn'.pc = "set" => offered' \subseteq Span(0, turn'.total)
                      /\ \A task \in queue' : /\ task.total <= Furthest'
                                              /\ offered' \subseteq Span(0, task.total)
    BY DEF OnceOK, Span
  <2>1. Furthest' = Furthest
    BY DEF Furthest
  <2> QED
    BY <1>1, <2>1 DEF OnceOK
<1> QED
  BY <1>4, <1>5, <1>7, <1>8

(***************************************************************************)
(* The steps of a turn.                                                    *)
(***************************************************************************)

\* What has been passed over stays so.
LEMMA PassedGrows ==
    ASSUME offered \union excused \subseteq offered' \union excused'
    PROVE  \A n : Passed(n) => Span(0, n) \subseteq offered' \union excused'
  BY DEF Passed

\* A turn begins, or is over at once.
LEMMA BeginInv ==
    ASSUME IInv, turn = NoTurn, turns < MaxTurns, turns' = turns + 1,
           NEW n \in {len + 1, len + 2}, len' = n, users' = users \union {len},
           UNCHANGED <<position, work, faults, history, broken>>,
           \/ n = len + 1 /\ turn' = [pc |-> "reply", total |-> 0, last |-> 0]
           \/ turn' = NoTurn
    PROVE  IInv'
<1>1. /\ TypeOK /\ TurnOK /\ PassedOK /\ OnceOK
      /\ UNCHANGED <<position, queue, worker, memory, newest, offered, repeated, excused,
                     faults, broken>>
  BY DEF IInv, work, history
<1>2. /\ len \in Nat /\ turns \in 0..MaxTurns /\ MaxSteps \in Nat
      /\ len <= turns * (MaxSteps + 2) /\ turns * (MaxSteps + 2) \in Nat
      /\ (turns + 1) * (MaxSteps + 2) = turns * (MaxSteps + 2) + MaxSteps + 2
  BY <1>1, Room, Constants DEF TypeOK, TurnOK
<1>3. n \in Nat /\ len < n
  BY <1>2
<1>4. turns' \in 0..MaxTurns /\ turns <= turns' /\ turns' >= 1
  BY <1>2, Constants
<1>5. turn' \in Turn /\ turn'.pc \in {"idle", "reply"}
  BY DEF Turn, NoTurn
<1>6. TasksOK' /\ NewestOK' /\ worker' \in [Workers -> Work]
  BY <1>1, <1>4, TurnFrame
<1>7. TypeOK'
  <2>1. users' \subseteq Span(0, len')
    BY <1>1, <1>2, <1>3 DEF TypeOK, Span
  <2> QED
    BY <1>1, <1>3, <1>4, <1>5, <1>6, <2>1 DEF TypeOK, Span
<1>8. TurnOK'
  <2>1. n <= (turns + 1) * (MaxSteps + 2)
    BY <1>2
  <2>2. CASE turn' = NoTurn
    BY <1>4, <2>1, <2>2 DEF TurnOK, NoTurn
  <2>3. CASE n = len + 1 /\ turn' = [pc |-> "reply", total |-> 0, last |-> 0]
    <3>1. n + 1 + MaxSteps <= (turns + 1) * (MaxSteps + 2)
      BY <1>2, <2>3
    <3>2. turn'.pc = "reply" /\ turn' # NoTurn
      BY <2>3 DEF NoTurn
    <3> QED
      BY <1>4, <3>1, <3>2 DEF TurnOK
  <2> QED
    BY <2>2, <2>3
<1>9. PassedOK'
  BY <1>1, <1>5 DEF PassedOK, Passed, Span
<1>10. OnceOK'
  <2>1. Furthest = len /\ Furthest' = n
    BY <1>5 DEF Furthest, NoTurn
  <2>2. position \in Nat /\ \A task \in queue : task.total \in Nat
    BY <1>1, TaskFields DEF TypeOK
  <2>3. turn.pc # "set"
    BY DEF NoTurn
  <2>4. broken = {} => /\ position <= n
                       /\ \A task \in queue : task.total <= n
    BY <1>1, <1>2, <1>3, <2>1, <2>2 DEF OnceOK
  <2> QED
    BY <1>1, <1>5, <2>1, <2>3, <2>4 DEF OnceOK, Span
<1> QED
  BY <1>6, <1>7, <1>8, <1>9, <1>10 DEF IInv

\* A turn that starts keeps the invariant.
LEMMA TurnStartInv == ASSUME IInv, TurnStart PROVE IInv'
  BY BeginInv DEF TurnStart

\* So does a turn that triggers no extraction.
LEMMA UntriggeredTurnInv == ASSUME IInv, UntriggeredTurn PROVE IInv'
  BY BeginInv DEF UntriggeredTurn

\* What has been read of the position, and what the turn will set, fit.
LEMMA ReadPositionInv == ASSUME IInv, ReadPosition PROVE IInv'
<1>1. /\ TypeOK /\ TurnOK /\ PassedOK /\ OnceOK /\ turn.pc = "reply" /\ turn # NoTurn
      /\ UNCHANGED <<len, users, position, queue, worker, memory, newest, turns, offered,
                     repeated, excused>>
  BY TurnFields DEF IInv, ReadPosition, work, history, NoTurn
<1>2. PICK read \in {position, 0}, total \in (len + 1)..(len + 1 + MaxSteps) :
        LET start == StartOf(read, total)
            new == Cardinality(users \intersect Span(start, total))
        IN  /\ \/ read = position /\ NoFault /\ Breaks({})
               \/ read = 0 /\ Fault("read") /\ Breaks({"misread"})
            /\ turn' = [total |-> total, last |-> start, pc |->
                  IF WorthExtracting(new) THEN "publish" ELSE "finish"]
  BY DEF ReadPosition
<1> DEFINE start == StartOf(read, total)
<1>3. /\ \/ read = position /\ faults' = faults /\ broken' = broken
         \/ read = 0 /\ faults' = faults + 1 /\ faults < MaxFaults
            /\ broken' = broken \union {"misread"}
      /\ turn'.total = total /\ turn'.last = start /\ turn'.pc \in {"publish", "finish"}
      /\ turn' = [total |-> total, last |-> start, pc |-> turn'.pc]
  BY <1>2 DEF NoFault, Fault, Breaks
<1>4. /\ len \in Nat /\ turns \in 0..MaxTurns /\ turns >= 1 /\ position \in Nat /\ MaxSteps \in Nat
      /\ turns * (MaxSteps + 2) \in Nat /\ len + 1 + MaxSteps <= turns * (MaxSteps + 2)
  BY <1>1, Room, Constants DEF TypeOK, TurnOK
<1>5. /\ total \in Nat /\ len < total /\ total <= turns * (MaxSteps + 2)
      /\ start \in Nat /\ start < total /\ start \in {read, 0}
      /\ read < total => start = read
  BY <1>4 DEF StartOf
<1> HIDE DEF start
<1>6. TasksOK' /\ NewestOK' /\ worker' \in [Workers -> Work]
  BY <1>1, <1>3, <1>4, TurnFrame
<1>7. turn' \in Turn /\ turn' # NoTurn
  BY <1>3, <1>5 DEF Turn, NoTurn
<1>8. TypeOK'
  <2>1. broken' \subseteq Flags
    BY <1>1, <1>3 DEF TypeOK, Flags
  <2>2. faults' \in 0..MaxFaults
    BY <1>1, <1>3, Constants DEF TypeOK
  <2> QED
    BY <1>1, <1>6, <1>7, <2>1, <2>2 DEF TypeOK, Span
<1>9. TurnOK'
  BY <1>1, <1>3, <1>4, <1>5, <1>7 DEF TurnOK
<1>10. PassedOK'
  <2>1. Span(0, start) \subseteq offered \union excused
    BY <1>1, <1>4, <1>5, SpanFacts DEF PassedOK, Passed
  <2> QED
    BY <1>1, <1>3, <2>1 DEF PassedOK, Passed, Span
<1>11. OnceOK'
  <2> SUFFICES ASSUME broken' = {}
               PROVE  OnceOK'
    BY DEF OnceOK
  <2>1. broken = {} /\ read = position
    BY <1>3
  <2>2. Furthest = len /\ Furthest' \in {total, len}
    BY <1>1, <1>3 DEF Furthest
  <2>3. /\ position <= len /\ offered \subseteq Span(0, position) /\ repeated = {}
        /\ \A task \in queue : task.total \in Nat /\ task.total <= len
                               /\ offered \subseteq Span(0, task.total)
    BY <1>1, <2>1, <2>2, TaskFields DEF OnceOK, TypeOK
  <2>4. start = position
    BY <1>4, <1>5, <2>1, <2>3
  <2>5. PICK f \in {total, len} : f = Furthest'
    BY <2>2
  <2>6. position <= f /\ \A task \in queue : task.total <= f
    BY <1>4, <1>5, <2>3
  <2> QED
    BY <1>1, <1>3, <2>3, <2>4, <2>5, <2>6 DEF OnceOK, Span
<1> QED
  BY <1>6, <1>8, <1>9, <1>10, <1>11 DEF IInv

\* What the publication of an extraction task starts from and leaves alone.
LEMMA PublishFacts ==
    ASSUME IInv, PublishTask
    PROVE  /\ TypeOK /\ TurnOK /\ TasksOK /\ PassedOK /\ OnceOK /\ NewestOK
           /\ turn.pc = "publish" /\ turn # NoTurn /\ turn' # NoTurn /\ turn' \in Turn
           /\ turn' = [turn EXCEPT !.pc = "set"] /\ turn'.pc = "set"
           /\ turn'.total = turn.total /\ turn'.last = turn.last
           /\ UNCHANGED <<len, users, position, worker, memory, newest, turns>>
           /\ len \in Nat /\ turns \in 1..MaxTurns /\ position \in Nat
           /\ turn.total \in Nat /\ turn.last \in Nat /\ turn.last < turn.total /\ len < turn.total
           /\ Span(turn.last, turn.total) \subseteq Positions
           /\ Furthest = len /\ Furthest' = turn.total
           /\ TurnOK'
<1>1. /\ TypeOK /\ TurnOK /\ TasksOK /\ PassedOK /\ OnceOK /\ NewestOK
      /\ turn.pc = "publish" /\ turn # NoTurn
      /\ turn \in ActiveTurn /\ turn' = [turn EXCEPT !.pc = "set"]
      /\ UNCHANGED <<len, users, position, worker, memory, newest, turns>>
  BY TurnFields DEF IInv, PublishTask, NoTurn
<1>2. /\ turn' \in ActiveTurn /\ turn'.pc = "set" /\ turn'.total = turn.total
      /\ turn'.last = turn.last
  BY <1>1 DEF ActiveTurn
<1>3. turn' # NoTurn /\ turn' \in Turn
  BY <1>2 DEF NoTurn, ActiveTurn, Turn
<1>4. /\ len \in Nat /\ turns \in 0..MaxTurns /\ turns >= 1 /\ position \in Nat
      /\ turn.total \in Nat /\ turn.last \in Nat /\ turn.last < turn.total /\ len < turn.total
      /\ turn.total <= turns * (MaxSteps + 2) /\ MaxTurns \in Nat
  BY <1>1, TurnFields, Constants DEF TypeOK, TurnOK
<1>5. turns \in 1..MaxTurns
  BY <1>4
<1>6. Span(turn.last, turn.total) \subseteq Positions
  BY <1>4, InRoom
<1>7. Furthest = len /\ Furthest' = turn.total
  BY <1>1, <1>2 DEF Furthest
<1>8. TurnOK'
  BY <1>1, <1>2, <1>3 DEF TurnOK
<1> QED
  BY <1>1, <1>2, <1>3, <1>4, <1>5, <1>6, <1>7, <1>8

\* The broker accepts the task.
LEMMA AcceptedInv ==
    ASSUME IInv, PublishTask, faults' = faults,
           NEW task, task = [by |-> turns, start |-> turn.last, total |-> turn.total],
           queue' = queue \union {task},
           offered' = offered \union Span(turn.last, turn.total),
           repeated' = repeated \union (offered \intersect Span(turn.last, turn.total)),
           broken' = broken \union (IF queue = {} THEN {} ELSE {"overlap"}),
           excused' = excused
    PROVE  IInv'
<1>1. task \in Task /\ task.by = turns /\ task.total = turn.total
  BY PublishFacts DEF Task
<1>2. TypeOK'
  <2>1. offered' \union repeated' \union excused' \subseteq Positions
    BY PublishFacts DEF TypeOK
  <2>2. broken' \subseteq Flags
    BY PublishFacts DEF TypeOK, Flags
  <2>3. queue' \subseteq Task
    BY <1>1, PublishFacts DEF TypeOK
  <2> QED
    BY <2>1, <2>2, <2>3, PublishFacts DEF TypeOK, Span
<1>3. TasksOK'
  <2>1. \A t \in queue' : t.by <= turns
    BY <1>1, PublishFacts DEF TasksOK
  <2> QED
    BY <2>1, PublishFacts DEF TasksOK, Working
<1>4. PassedOK'
  <2>1. \A n : Passed(n) => Span(0, n) \subseteq offered' \union excused'
    BY PassedGrows
  <2>2. Span(0, turn.total) \subseteq offered' \union excused'
    <3>1. Span(0, turn.total) = Span(0, turn.last) \union Span(turn.last, turn.total)
      BY PublishFacts, SpanFacts
    <3>2. Span(0, turn.last) \subseteq offered \union excused
      BY PublishFacts DEF PassedOK, Passed
    <3> QED
      BY <3>1, <3>2
  <2>3. \A t \in queue' : Span(0, t.total) \subseteq offered' \union excused'
    BY <1>1, <2>1, <2>2, PublishFacts DEF PassedOK
  <2>4. Span(0, position) \subseteq offered' \union excused'
    BY <2>1, PublishFacts DEF PassedOK
  <2> QED
    BY <2>2, <2>3, <2>4, PublishFacts DEF PassedOK, Passed, Span
<1>5. OnceOK'
  <2> SUFFICES ASSUME broken' = {}
               PROVE  OnceOK'
    BY DEF OnceOK
  <2>1. broken = {} /\ queue' = {task}
    BY PublishFacts
  <2>2. /\ repeated = {} /\ position <= len /\ offered \subseteq Span(0, turn.last)
    BY <2>1, PublishFacts DEF OnceOK
  <2>3. Span(0, turn.total) = Span(0, turn.last) \union Span(turn.last, turn.total)
        /\ Span(0, turn.last) \intersect Span(turn.last, turn.total) = {}
    BY PublishFacts, SpanFacts
  <2>4. repeated' = {} /\ offered' \subseteq Span(0, turn.total)
    BY <2>2, <2>3
  <2>5. position <= turn.total /\ turn.total <= turn.total
    BY <2>2, PublishFacts
  <2> QED
    BY <1>1, <2>1, <2>4, <2>5, PublishFacts DEF OnceOK, Span
<1>6. NewestOK'
  <2>1. \A k \in Keys : newest[k] <= turns
    BY PublishFacts DEF NewestOK
  <2>2. ASSUME "overlap" \notin broken'
        PROVE  memory = newest /\ queue' = {task}
    BY <2>2, PublishFacts DEF NewestOK
  <2> QED
    BY <1>1, <2>1, <2>2, PublishFacts DEF NewestOK, Keys
<1> QED
  BY <1>2, <1>3, <1>4, <1>5, <1>6, PublishFacts DEF IInv

\* It does not: the messages are passed over.
LEMMA RefusedInv ==
    ASSUME IInv, PublishTask, faults' = faults + 1, faults < MaxFaults,
           excused' = excused \union (Span(turn.last, turn.total) \ offered),
           UNCHANGED <<queue, offered, repeated, broken>>
    PROVE  IInv'
<1>1. TypeOK'
  <2>1. offered' \union repeated' \union excused' \subseteq Positions
    BY PublishFacts DEF TypeOK
  <2>2. faults' \in 0..MaxFaults
    BY PublishFacts, Constants DEF TypeOK
  <2> QED
    BY <2>1, <2>2, PublishFacts DEF TypeOK, Span
<1>2. TasksOK' /\ NewestOK'
  <2>1. turns' \in 0..MaxTurns /\ turns <= turns' /\ broken \subseteq broken'
    BY PublishFacts, Constants
  <2> QED
    BY <2>1, PublishFacts, TurnFrame
<1>3. PassedOK'
  <2>1. \A n : Passed(n) => Span(0, n) \subseteq offered' \union excused'
    BY PassedGrows
  <2>2. Span(0, turn.total) \subseteq offered' \union excused'
    <3>1. Span(0, turn.total) = Span(0, turn.last) \union Span(turn.last, turn.total)
      BY PublishFacts, SpanFacts
    <3>2. Span(0, turn.last) \subseteq offered \union excused
      BY PublishFacts DEF PassedOK, Passed
    <3> QED
      BY <3>1, <3>2
  <2>3. \A t \in queue' : Span(0, t.total) \subseteq offered' \union excused'
    BY <2>1, PublishFacts DEF PassedOK
  <2>4. Span(0, position) \subseteq offered' \union excused'
    BY <2>1, PublishFacts DEF PassedOK
  <2> QED
    BY <2>2, <2>3, <2>4, PublishFacts DEF PassedOK, Passed, Span
<1>4. OnceOK'
  <2> SUFFICES ASSUME broken = {}
               PROVE  OnceOK'
    BY DEF OnceOK
  <2>1. /\ repeated = {} /\ position <= len /\ offered \subseteq Span(0, turn.last)
        /\ \A t \in queue : t.total \in Nat /\ t.total <= len /\ offered \subseteq Span(0, t.total)
    BY PublishFacts, TaskFields DEF OnceOK, TypeOK
  <2>2. offered \subseteq Span(0, turn.total)
    BY <2>1, PublishFacts, SpanFacts
  <2>3. position <= turn.total /\ \A t \in queue : t.total <= turn.total
    BY <2>1, PublishFacts
  <2> QED
    BY <2>1, <2>2, <2>3, PublishFacts DEF OnceOK, Span
<1> QED
  BY <1>1, <1>2, <1>3, <1>4, PublishFacts DEF IInv

\* trigger_longterm_extract keeps the invariant, whether its publication is accepted or not.
LEMMA PublishTaskInv == ASSUME IInv, PublishTask PROVE IInv'
<1> DEFINE task == [by |-> turns, start |-> turn.last, total |-> turn.total]
<1>1. task.start = turn.last /\ task.total = turn.total
  OBVIOUS
<1>2. \/ /\ faults' = faults
         /\ queue' = queue \union {task}
         /\ offered' = offered \union Span(turn.last, turn.total)
         /\ repeated' = repeated \union (offered \intersect Span(turn.last, turn.total))
         /\ broken' = broken \union (IF queue = {} THEN {} ELSE {"overlap"})
         /\ excused' = excused
      \/ /\ faults' = faults + 1 /\ faults < MaxFaults
         /\ excused' = excused \union (Span(turn.last, turn.total) \ offered)
         /\ UNCHANGED <<queue, offered, repeated, broken>>
  BY <1>1 DEF PublishTask, NoFault, Fault, Breaks
<1> QED
  BY <1>2, AcceptedInv, RefusedInv

\* The turn sets the position, whatever became of its task.
LEMMA SetPositionInv == ASSUME IInv, SetPosition PROVE IInv'
<1>1. /\ TypeOK /\ TurnOK /\ PassedOK /\ OnceOK /\ turn.pc = "set" /\ turn # NoTurn
      /\ turn \in ActiveTurn /\ turn' = [turn EXCEPT !.pc = "finish"]
      /\ UNCHANGED <<len, users, queue, worker, memory, newest, turns, offered,
                     repeated, excused>>
      /\ \/ faults' = faults /\ position' = turn.total /\ broken' = broken
         \/ faults' = faults + 1 /\ faults < MaxFaults /\ position' = position
            /\ broken' = broken \union {"unset"}
  BY TurnFields DEF IInv, SetPosition, NoFault, Fault, Breaks, work, history, NoTurn
<1>2. /\ turn' \in ActiveTurn /\ turn'.pc = "finish" /\ turn'.total = turn.total
      /\ turn'.last = turn.last
  BY <1>1 DEF ActiveTurn
<1>3. turn' # NoTurn /\ turn' \in Turn
  BY <1>2 DEF NoTurn, ActiveTurn, Turn
<1>4. /\ turn.total \in Nat /\ turns' \in 0..MaxTurns /\ turns <= turns' /\ broken \subseteq broken'
  BY <1>1, TurnFields DEF TypeOK
<1>5. TasksOK' /\ NewestOK' /\ worker' \in [Workers -> Work]
  BY <1>1, <1>4, TurnFrame
<1>6. TypeOK'
  <2>1. faults' \in 0..MaxFaults
    BY <1>1, Constants DEF TypeOK
  <2>2. position' \in Nat /\ broken' \subseteq Flags
    BY <1>1, <1>4 DEF TypeOK, Flags
  <2> QED
    BY <1>1, <1>3, <1>5, <2>1, <2>2 DEF TypeOK, Span
<1>7. TurnOK'
  BY <1>1, <1>2, <1>3 DEF TurnOK
<1>8. PassedOK'
  <2>1. Passed(position')
    BY <1>1 DEF PassedOK
  <2> QED
    BY <1>1, <1>2, <2>1 DEF PassedOK, Passed, Span
<1>9. OnceOK'
  <2> SUFFICES ASSUME broken' = {}
               PROVE  OnceOK'
    BY DEF OnceOK
  <2>1. broken = {} /\ position' = turn.total
    BY <1>1
  <2>2. Furthest = turn.total /\ Furthest' = turn.total
    BY <1>1, <1>2 DEF Furthest
  <2>3. turn.total <= turn.total
    BY <1>4
  <2> QED
    BY <1>1, <1>2, <2>1, <2>2, <2>3 DEF OnceOK, Span
<1> QED
  BY <1>5, <1>6, <1>7, <1>8, <1>9 DEF IInv

\* The messages of the turn are in the thread.
LEMMA TurnEndInv == ASSUME IInv, TurnEnd PROVE IInv'
<1>1. /\ TypeOK /\ TurnOK /\ PassedOK /\ OnceOK /\ turn.pc = "finish" /\ turn # NoTurn
      /\ len' = turn.total /\ turn' = NoTurn
      /\ UNCHANGED <<users, position, queue, worker, memory, newest, turns, faults, offered,
                     repeated, excused, broken>>
  BY TurnFields DEF IInv, TurnEnd, work, history, NoTurn
<1>2. /\ turn.total \in Nat /\ len \in Nat /\ len < turn.total /\ turns' \in 0..MaxTurns
      /\ turns <= turns' /\ broken \subseteq broken' /\ turn'.pc = "idle"
      /\ turn.total <= turns * (MaxSteps + 2)
  BY <1>1, TurnFields DEF TypeOK, TurnOK, NoTurn
<1>3. TasksOK' /\ NewestOK' /\ worker' \in [Workers -> Work]
  BY <1>1, <1>2, TurnFrame
<1>4. TypeOK'
  <2>1. users' \subseteq Span(0, len')
    BY <1>1, <1>2 DEF TypeOK, Span
  <2> QED
    BY <1>1, <1>2, <1>3, <2>1 DEF TypeOK, Turn, Span
<1>5. TurnOK'
  BY <1>1, <1>2 DEF TurnOK
<1>6. PassedOK'
  BY <1>1, <1>2 DEF PassedOK, Passed, Span
<1>7. OnceOK'
  <2>1. Furthest = turn.total /\ Furthest' = turn.total
    BY <1>1, <1>2 DEF Furthest
  <2> QED
    BY <1>1, <1>2, <2>1 DEF OnceOK, Span
<1> QED
  BY <1>3, <1>4, <1>5, <1>6, <1>7 DEF IInv

\* A turn is cut short: what it offered, or an earlier one that was cut, is lost.
LEMMA LoseTurnInv ==
    ASSUME IInv, LoseTurn, faults' = faults + 1, faults < MaxFaults,
           worker' = worker \/ worker' = [w \in Workers |-> NoWork],
           UNCHANGED <<len, users, position, queue, memory, newest, turns>>
    PROVE  IInv'
<1>1. /\ TypeOK /\ TurnOK /\ PassedOK /\ turn # NoTurn /\ turn' = NoTurn /\ turn'.pc = "idle"
      /\ offered' = offered \intersect Span(0, len)
      /\ repeated' = repeated \intersect Span(0, len)
      /\ excused' = excused \union (offered \ Span(0, len))
      /\ broken' = broken \union {"cut"}
  BY DEF IInv, LoseTurn, Breaks, NoTurn
<1>2. /\ len \in Nat /\ turns \in 0..MaxTurns /\ turns' \in 0..MaxTurns /\ turns <= turns'
      /\ broken \subseteq broken' /\ turns * (MaxSteps + 2) \in Nat /\ MaxSteps \in Nat
  BY <1>1, Room, Constants DEF TypeOK
<1>3. TasksOK' /\ NewestOK' /\ worker' \in [Workers -> Work]
  BY <1>2, TurnFrame
<1>4. TypeOK'
  <2>1. faults' \in 0..MaxFaults
    BY <1>1, Constants DEF TypeOK
  <2>2. offered' \union repeated' \union excused' \subseteq Positions
    BY <1>1 DEF TypeOK
  <2>3. broken' \subseteq Flags
    BY <1>1 DEF TypeOK, Flags
  <2> QED
    BY <1>1, <1>3, <2>1, <2>2, <2>3 DEF TypeOK, Turn, Span
<1>5. TurnOK'
  <2>1. len <= turns * (MaxSteps + 2)
    <3>1. CASE turn.pc = "reply"
      BY <1>1, <1>2, <3>1 DEF TurnOK
    <3>2. CASE turn.pc \in {"publish", "set", "finish"}
      <4>1. turn.total \in Nat /\ len < turn.total /\ turn.total <= turns * (MaxSteps + 2)
        BY <1>1, <3>2, TurnFields DEF TurnOK
      <4> QED
        BY <1>2, <4>1
    <3> QED
      BY <1>1, <3>1, <3>2, TurnFields
  <2> QED
    BY <1>1, <2>1 DEF TurnOK
<1>6. PassedOK'
  <2>1. \A n : Passed(n) => Span(0, n) \subseteq offered' \union excused'
    BY <1>1, PassedGrows
  <2>2. \A task \in queue' : Span(0, task.total) \subseteq offered' \union excused'
    BY <1>1, <2>1 DEF PassedOK
  <2>3. Span(0, position) \subseteq offered' \union excused'
    BY <1>1, <2>1 DEF PassedOK
  <2> QED
    BY <1>1, <2>2, <2>3 DEF PassedOK, Passed, Span
<1>7. OnceOK'
  BY <1>1 DEF OnceOK
<1> QED
  BY <1>3, <1>4, <1>5, <1>6, <1>7 DEF IInv

(***************************************************************************)
(* The steps of an extraction task.                                        *)
(***************************************************************************)

\* A consumer goes on with its task, or begins one.
Moves(w, state) ==
    /\ worker' \in [Workers -> Work]
    /\ worker'[w] = state
    /\ \A v \in Workers \ {w} : worker'[v] = worker[v]

\* A consumer that is given a new state moves alone.
LEMMA Assigned ==
    ASSUME TypeOK, NEW w \in Workers, NEW state \in Work, worker' = [worker EXCEPT ![w] = state]
    PROVE  Moves(w, state)
  BY DEF TypeOK, Moves

\* What Extract, Store and the steps between them make of a busy consumer.
Places == {"extract", "store", "position", "ack"}
Moved(r, pc) == [r EXCEPT !.pc = pc]
Filled(r, items, pc) == [r EXCEPT !.items = items, !.pc = pc]
Stepped(r, n, pc) == [r EXCEPT !.next = n, !.pc = pc]

\* A consumer that moves on keeps its task, its items and its place.
LEMMA MovedFields ==
    ASSUME NEW r \in ActiveWork, NEW pc \in Places
    PROVE  /\ Moved(r, pc) \in ActiveWork
           /\ Moved(r, pc).pc = pc /\ Moved(r, pc).task = r.task
           /\ Moved(r, pc).next = r.next /\ Moved(r, pc).items = r.items
BY DEF ActiveWork, Moved, Places

\* A consumer that has extracted keeps its task and its place.
LEMMA FilledFields ==
    ASSUME NEW r \in ActiveWork, NEW pc \in Places,
           NEW items \in Extractions
    PROVE  /\ Filled(r, items, pc) \in ActiveWork
           /\ Filled(r, items, pc).pc = pc /\ Filled(r, items, pc).items = items
           /\ Filled(r, items, pc).task = r.task /\ Filled(r, items, pc).next = r.next
<1>1. PICK a : a = [r EXCEPT !.items = items]
  OBVIOUS
<1>2. a \in ActiveWork /\ a.items = items /\ a.task = r.task /\ a.next = r.next
  BY <1>1 DEF ActiveWork
<1>3. Filled(r, items, pc) = Moved(a, pc)
  BY <1>1 DEF ActiveWork, Filled, Moved
<1> QED
  BY <1>2, <1>3, MovedFields

\* A consumer that has stored an item keeps its task and its items.
LEMMA SteppedFields ==
    ASSUME NEW r \in ActiveWork, NEW pc \in Places,
           NEW n \in 1..(MaxItems + 1)
    PROVE  /\ Stepped(r, n, pc) \in ActiveWork
           /\ Stepped(r, n, pc).pc = pc /\ Stepped(r, n, pc).next = n
           /\ Stepped(r, n, pc).task = r.task /\ Stepped(r, n, pc).items = r.items
<1>1. PICK b : b = [r EXCEPT !.next = n]
  OBVIOUS
<1>2. b \in ActiveWork /\ b.next = n /\ b.task = r.task /\ b.items = r.items
  BY <1>1 DEF ActiveWork
<1>3. Stepped(r, n, pc) = Moved(b, pc)
  BY <1>1 DEF ActiveWork, Stepped, Moved
<1> QED
  BY <1>2, <1>3, MovedFields

\* A consumer keeps its task.
LEMMA TasksMove ==
    ASSUME IInv, NEW w \in Workers, Working(w), NEW state, Moves(w, state), state.pc # "idle",
           state.task = worker[w].task, UNCHANGED <<queue, turns>>,
           state.pc = "extract" => state.next = 1,
           state.pc = "store" => state.next <= Len(state.items)
    PROVE  TasksOK'
<1>1. TasksOK
  BY DEF IInv
<1>2. \A v \in Workers : /\ Working(v)' <=> Working(v)
                         /\ Working(v) => worker'[v].task = worker[v].task
  BY DEF Moves, Working
<1>3. \A v \in Workers :
          /\ worker'[v].pc = "extract" => worker'[v].next = 1
          /\ worker'[v].pc = "store" => worker'[v].next <= Len(worker'[v].items)
  BY <1>1 DEF TasksOK, Moves
<1> QED
  BY <1>1, <1>2, <1>3 DEF TasksOK

\* A consumer is done with its task, which leaves the queue or stays.
LEMMA TasksLeave ==
    ASSUME IInv, NEW w \in Workers, Working(w), Moves(w, NoWork), turns' = turns,
           queue' \in {queue, queue \ {worker[w].task}}
    PROVE  TasksOK'
<1>1. TasksOK
  BY DEF IInv
<1>2. \A v \in Workers : Working(v)' => v # w /\ Working(v) /\ worker'[v] = worker[v]
  BY DEF Moves, Working, NoWork
<1>3. \A v \in Workers : Working(v)' => worker'[v].task \in queue'
  BY <1>1, <1>2 DEF TasksOK
<1>4. \A u, v \in Workers :
          Working(u)' /\ Working(v)' /\ worker'[u].task = worker'[v].task => u = v
  BY <1>1, <1>2 DEF TasksOK
<1>5. \A v \in Workers :
          /\ worker'[v].pc = "extract" => worker'[v].next = 1
          /\ worker'[v].pc = "store" => worker'[v].next <= Len(worker'[v].items)
  BY <1>1 DEF TasksOK, Moves, NoWork
<1>6. \A task \in queue' : task.by <= turns'
  BY <1>1 DEF TasksOK
<1> QED
  BY <1>3, <1>4, <1>5, <1>6 DEF TasksOK

\* The store is left alone.
LEMMA NewestFrame ==
    ASSUME IInv, UNCHANGED <<memory, newest, turns, broken>>, queue' \subseteq queue
    PROVE  NewestOK'
  BY DEF IInv, NewestOK, Keys

\* The delivery of a task to a handler keeps the invariant.
LEMMA TakeInv ==
    ASSUME IInv, NEW w \in Workers, NEW task \in queue, Take(w, task)
    PROVE  IInv'
<1> DEFINE r == [pc |-> "extract", task |-> task, items |-> <<>>, next |-> 1]
<1>1. /\ TypeOK /\ TasksOK /\ task \in Task /\ ~Working(w)
      /\ \A v \in Workers : Working(v) => worker[v].task # task
      /\ worker' = [worker EXCEPT ![w] = r]
      /\ UNCHANGED <<len, users, position, turn, queue, memory, newest, turns, faults, offered,
                     repeated, excused, broken>>
  BY DEF IInv, TypeOK, Take, history
<1>2. r \in Work /\ r.pc = "extract" /\ r.task = task /\ r.next = 1
  <2>1. 1 \in 1..(MaxItems + 1)
    BY Constants
  <2>2. <<>> \in Extractions
    <3>1. 0 \in 0..MaxItems
      BY Constants
    <3>2. <<>> \in [1..0 -> Categories]
      OBVIOUS
    <3> QED
      BY <3>1, <3>2 DEF Extractions
  <2>3. r \in ActiveWork
    BY <1>1, <2>1, <2>2 DEF ActiveWork
  <2> QED
    BY <2>3 DEF ActiveWork, Work
<1> HIDE DEF r
<1>3. Moves(w, r)
  BY <1>1, <1>2, Assigned
<1>4. TasksOK'
  <2>1. \A v \in Workers : Working(v)' =>
           \/ v = w /\ worker'[v].task = task
           \/ v # w /\ Working(v) /\ worker'[v] = worker[v]
    BY <1>2, <1>3 DEF Moves, Working
  <2>2. \A v \in Workers : Working(v)' => worker'[v].task \in queue'
    BY <1>1, <2>1 DEF TasksOK
  <2>3. \A u, v \in Workers :
          Working(u)' /\ Working(v)' /\ worker'[u].task = worker'[v].task => u = v
    BY <1>1, <2>1 DEF TasksOK
  <2>4. \A v \in Workers :
          /\ worker'[v].pc = "extract" => worker'[v].next = 1
          /\ worker'[v].pc = "store" => worker'[v].next <= Len(worker'[v].items)
    BY <1>1, <1>2, <1>3 DEF TasksOK, Moves
  <2>5. \A t \in queue' : t.by <= turns'
    BY <1>1 DEF TasksOK
  <2> QED
    BY <2>2, <2>3, <2>4, <2>5 DEF TasksOK
<1>5. /\ worker' \in [Workers -> Work] /\ memory' \in [Keys -> 0..MaxTurns]
      /\ newest' \in [Keys -> 0..MaxTurns] /\ queue' \subseteq queue
  BY <1>1, <1>3 DEF TypeOK, Moves
<1>6. TypeOK' /\ TurnOK' /\ PassedOK' /\ OnceOK'
  BY <1>1, <1>5, WorkFrame
<1>7. NewestOK'
  BY <1>1, <1>5, NewestFrame
<1> QED
  BY <1>4, <1>6, <1>7 DEF IInv

\* The store cannot be opened; the task comes round again or is dead-lettered.
LEMMA OpenFailsInv ==
    ASSUME IInv, NEW w \in Workers, OpenFails(w)
    PROVE  IInv'
<1>1. /\ TypeOK /\ Working(w) /\ worker' = [worker EXCEPT ![w] = NoWork]
      /\ queue' \in {queue, queue \ {worker[w].task}}
      /\ faults' = faults + 1 /\ faults < MaxFaults
      /\ UNCHANGED <<len, users, position, turn, memory, newest, turns, offered, repeated,
                     excused, broken>>
  BY DEF IInv, OpenFails, Fault, Working, history
<1>2. NoWork \in Work
  BY DEF Work
<1>3. Moves(w, NoWork)
  BY <1>1, <1>2, Assigned
<1>4. TasksOK'
  BY <1>1, <1>3, TasksLeave
<1>5. /\ worker' \in [Workers -> Work] /\ memory' \in [Keys -> 0..MaxTurns]
      /\ newest' \in [Keys -> 0..MaxTurns] /\ queue' \subseteq queue
  BY <1>1, <1>3 DEF TypeOK, Moves
<1>6. TypeOK' /\ TurnOK' /\ PassedOK' /\ OnceOK'
  BY <1>1, <1>5, WorkFrame
<1>7. NewestOK'
  BY <1>1, <1>5, NewestFrame
<1> QED
  BY <1>4, <1>6, <1>7 DEF IInv

\* The extraction by the model keeps it, with no memory or with several.
LEMMA ExtractInv ==
    ASSUME IInv, NEW w \in Workers, Extract(w)
    PROVE  IInv'
<1>1. /\ TypeOK /\ TasksOK /\ Working(w) /\ worker[w].pc = "extract" /\ worker[w] \in ActiveWork
      /\ worker[w].next = 1
      /\ UNCHANGED <<len, users, position, turn, queue, memory, newest, turns, faults, offered,
                     repeated, excused, broken>>
  BY WorkFields DEF IInv, Extract, TasksOK, Working, history
<1>2. PICK items \in Extractions :
        worker' = [worker EXCEPT ![w].items = items, ![w].pc =
              IF items = <<>> THEN "position" ELSE "store"]
  BY DEF Extract
<1>3. PICK pc \in {"position", "store"} : pc = IF items = <<>> THEN "position" ELSE "store"
  OBVIOUS
<1>4. pc \in Places
  BY <1>3 DEF Places
<1>5. PICK q \in ActiveWork : /\ q = Filled(worker[w], items, pc)
                              /\ q.pc = pc /\ q.items = items /\ q.task = worker[w].task
                              /\ q.next = worker[w].next
  <2>1. worker[w] \in ActiveWork
    BY <1>1
  <2>2. /\ Filled(worker[w], items, pc) \in ActiveWork
        /\ Filled(worker[w], items, pc).pc = pc /\ Filled(worker[w], items, pc).items = items
        /\ Filled(worker[w], items, pc).task = worker[w].task
        /\ Filled(worker[w], items, pc).next = worker[w].next
    BY <2>1, <1>4, FilledFields
  <2> QED
    BY <2>2, Zenon
<1>6. worker' = [worker EXCEPT ![w] = q] /\ q \in Work
  <2>1. worker' = [worker EXCEPT ![w] = Filled(worker[w], items, pc)]
    BY <1>1, <1>2, <1>3 DEF ActiveWork, Filled
  <2> QED
    BY <1>5, <2>1 DEF ActiveWork, Work
<1>7. Moves(w, q)
  BY <1>1, <1>6, Assigned
<1>8. TasksOK'
  <2>1. q.pc = "store" => q.next <= Len(q.items)
    <3>1. q.pc = "store" => Len(items) >= 1 /\ Len(items) \in Nat
      BY <1>3, <1>5, ExtractionFacts
    <3> QED
      BY <1>1, <1>5, <3>1
  <2> QED
    BY <1>1, <1>5, <1>7, <2>1, TasksMove
<1>9. /\ worker' \in [Workers -> Work] /\ memory' \in [Keys -> 0..MaxTurns]
      /\ newest' \in [Keys -> 0..MaxTurns] /\ queue' \subseteq queue
  BY <1>1, <1>7 DEF TypeOK, Moves
<1>10. TypeOK' /\ TurnOK' /\ PassedOK' /\ OnceOK'
  BY <1>1, <1>9, WorkFrame
<1>11. NewestOK'
  BY <1>1, <1>9, NewestFrame
<1> QED
  BY <1>8, <1>10, <1>11 DEF IInv

\* A memory is stored over whatever is there: with one task at most, nothing
\* later can be.
LEMMA StoreInv ==
    ASSUME IInv, NEW w \in Workers, Store(w)
    PROVE  IInv'
<1> DEFINE n == worker[w].next
           key == <<worker[w].items[n], n>>
           by == worker[w].task.by
<1>1. /\ TypeOK /\ TasksOK /\ NewestOK /\ Working(w) /\ worker[w].pc = "store"
      /\ worker[w] \in ActiveWork /\ worker[w].items \in Extractions
      /\ worker[w].task \in queue /\ worker[w].task \in Task
      /\ n \in 1..(MaxItems + 1) /\ n <= Len(worker[w].items)
      /\ UNCHANGED <<len, users, position, turn, queue, turns, offered,
                     repeated, excused, broken>>
  BY WorkFields DEF IInv, Store, TasksOK, Working, history
<1>2. /\ \/ /\ faults' = faults
            /\ memory' = [memory EXCEPT ![key] = by]
            /\ newest' = [newest EXCEPT ![key] = IF by > @ THEN by ELSE @]
         \/ faults' = faults + 1 /\ faults < MaxFaults /\ UNCHANGED <<memory, newest>>
      /\ worker' = [worker EXCEPT ![w].next = n + 1, ![w].pc =
            IF n = Len(worker[w].items) THEN "position" ELSE "store"]
  BY DEF Store, NoFault, Fault
<1>3. Len(worker[w].items) \in 0..MaxItems /\ MaxItems \in Nat
  BY <1>1, ExtractionFacts, Constants
<1>4. n + 1 \in 1..(MaxItems + 1)
  BY <1>1, <1>3
<1>5. PICK pc \in {"position", "store"} :
        pc = IF n = Len(worker[w].items) THEN "position" ELSE "store"
  OBVIOUS
<1>6. by \in 1..MaxTurns /\ by <= turns /\ turns \in Nat /\ MaxTurns \in Nat
  BY <1>1, TaskFields, Constants DEF TasksOK, TypeOK
<1> HIDE DEF by, key
<1>7. PICK q \in ActiveWork : /\ q = Stepped(worker[w], n + 1, pc)
                              /\ q.pc = pc /\ q.next = n + 1 /\ q.task = worker[w].task
                              /\ q.items = worker[w].items
  <2>1. pc \in Places
    BY <1>5 DEF Places
  <2>2. worker[w] \in ActiveWork
    BY <1>1
  <2>3. PICK m \in 1..(MaxItems + 1) : m = n + 1
    BY <1>4
  <2>4. /\ Stepped(worker[w], m, pc) \in ActiveWork
        /\ Stepped(worker[w], m, pc).pc = pc /\ Stepped(worker[w], m, pc).next = m
        /\ Stepped(worker[w], m, pc).task = worker[w].task
        /\ Stepped(worker[w], m, pc).items = worker[w].items
    BY <2>1, <2>2, SteppedFields
  <2> QED
    BY <2>3, <2>4, Zenon
<1>8. worker' = [worker EXCEPT ![w] = q] /\ q \in Work
  <2>1. worker' = [worker EXCEPT ![w] = Stepped(worker[w], n + 1, pc)]
    BY <1>1, <1>2, <1>5 DEF ActiveWork, Stepped
  <2> QED
    BY <1>7, <2>1 DEF ActiveWork, Work
<1>9. Moves(w, q)
  BY <1>1, <1>8, Assigned
<1>10. TasksOK'
  <2>1. q.pc = "store" => q.next <= Len(q.items)
    BY <1>1, <1>3, <1>5, <1>7
  <2> QED
    BY <1>1, <1>7, <1>9, <2>1, TasksMove
<1>11. /\ \A k \in Keys : newest[k] \in Nat /\ newest[k] <= turns
       /\ memory \in [Keys -> 0..MaxTurns] /\ newest \in [Keys -> 0..MaxTurns]
  BY <1>1 DEF NewestOK, TypeOK
<1>12. /\ worker' \in [Workers -> Work] /\ memory' \in [Keys -> 0..MaxTurns]
       /\ newest' \in [Keys -> 0..MaxTurns] /\ queue' \subseteq queue
  <2>1. by \in 0..MaxTurns
    BY <1>6
  <2> QED
    BY <1>1, <1>2, <1>9, <1>11, <2>1 DEF Moves
<1>13. TypeOK' /\ TurnOK' /\ PassedOK' /\ OnceOK'
  BY <1>1, <1>2, <1>12, WorkFrame
<1>14. NewestOK'
  <2>1. CASE UNCHANGED <<memory, newest>>
    BY <1>1, <1>12, <2>1, NewestFrame
  <2>2. CASE /\ memory' = [memory EXCEPT ![key] = by]
             /\ newest' = [newest EXCEPT ![key] = IF by > @ THEN by ELSE @]
    <3>1. \A k \in Keys : /\ newest'[k] \in {newest[k], by}
                          /\ memory'[k] = IF k = key THEN by ELSE memory[k]
                          /\ newest'[k] = IF k = key /\ by > newest[k] THEN by ELSE newest[k]
      BY <1>11, <2>2
    <3>2. \A k \in Keys : newest'[k] <= turns
      BY <1>6, <1>11, <3>1
    <3>3. ASSUME "overlap" \notin broken
          PROVE  /\ memory' = newest'
                 /\ \A s, t \in queue : s = t
                 /\ \A k \in Keys, task \in queue : newest'[k] <= task.by
      <4>1. /\ memory = newest /\ queue = {worker[w].task}
            /\ \A k \in Keys : newest[k] <= by
        BY <1>1, <3>3 DEF NewestOK, by
      <4>2. \A k \in Keys : memory'[k] = newest'[k]
        BY <1>6, <1>11, <3>1, <4>1
      <4>3. memory' = newest'
        BY <1>12, <4>2
      <4>4. \A k \in Keys : newest'[k] <= by
        BY <1>6, <3>1, <4>1
      <4> QED
        BY <4>1, <4>3, <4>4 DEF by
    <3> QED
      BY <1>1, <3>2, <3>3 DEF NewestOK, Keys
  <2> QED
    BY <1>2, <2>1, <2>2
<1> QED
  BY <1>10, <1>13, <1>14 DEF IInv

\* The position the handler sets, even one that lies behind, keeps it.
LEMMA SetTaskPositionInv ==
    ASSUME IInv, NEW w \in Workers, SetTaskPosition(w)
    PROVE  IInv'
<1>1. /\ TypeOK /\ TasksOK /\ Working(w) /\ worker[w] \in ActiveWork /\ worker[w].task \in queue
      /\ worker[w].items \in Extractions
      /\ worker' = [worker EXCEPT ![w].pc = "ack"]
      /\ \/ faults' = faults /\ position' = worker[w].task.total
         \/ faults' = faults + 1 /\ faults < MaxFaults /\ position' = position
      /\ UNCHANGED <<len, users, turn, queue, memory, newest, turns, offered, repeated,
                     excused, broken>>
  BY WorkFields DEF IInv, SetTaskPosition, NoFault, Fault, TasksOK, Working, history
<1>2. "ack" \in Places
  BY DEF Places
<1>3. PICK q \in ActiveWork : /\ q = Moved(worker[w], "ack")
                              /\ q.pc = "ack" /\ q.task = worker[w].task
  BY <1>1, <1>2, MovedFields
<1>4. worker' = [worker EXCEPT ![w] = q]
  BY <1>1, <1>3 DEF Moved
<1>5. q \in Work
  BY <1>3 DEF ActiveWork, Work
<1>6. Moves(w, q)
  BY <1>1, <1>4, <1>5, Assigned
<1>7. TasksOK'
  BY <1>1, <1>3, <1>6, TasksMove
<1>8. /\ worker' \in [Workers -> Work] /\ memory' \in [Keys -> 0..MaxTurns]
      /\ newest' \in [Keys -> 0..MaxTurns] /\ queue' \subseteq queue
  BY <1>1, <1>6 DEF TypeOK, Moves
<1>9. TypeOK' /\ TurnOK' /\ PassedOK' /\ OnceOK'
  BY <1>1, <1>8, WorkFrame
<1>10. NewestOK'
  BY <1>1, <1>8, NewestFrame
<1> QED
  BY <1>7, <1>9, <1>10 DEF IInv

\* The ack of a task keeps it.
LEMMA AckInv ==
    ASSUME IInv, NEW w \in Workers, Ack(w)
    PROVE  IInv'
<1>1. /\ TypeOK /\ Working(w) /\ worker' = [worker EXCEPT ![w] = NoWork]
      /\ queue' = queue \ {worker[w].task}
      /\ UNCHANGED <<len, users, position, turn, memory, newest, turns, faults, offered,
                     repeated, excused, broken>>
  BY DEF IInv, Ack, Working, history
<1>2. NoWork \in Work
  BY DEF Work
<1>3. Moves(w, NoWork)
  BY <1>1, <1>2, Assigned
<1>4. TasksOK'
  BY <1>1, <1>3, TasksLeave
<1>5. /\ worker' \in [Workers -> Work] /\ memory' \in [Keys -> 0..MaxTurns]
      /\ newest' \in [Keys -> 0..MaxTurns] /\ queue' \subseteq queue
  BY <1>1, <1>3 DEF TypeOK, Moves
<1>6. TypeOK' /\ TurnOK' /\ PassedOK' /\ OnceOK'
  BY <1>1, <1>5, WorkFrame
<1>7. NewestOK'
  BY <1>1, <1>5, NewestFrame
<1> QED
  BY <1>4, <1>6, <1>7 DEF IInv

\* A lost connection, which gives every task back, keeps it.
LEMMA ConnectionLostInv == ASSUME IInv, ConnectionLost PROVE IInv'
<1>1. /\ TypeOK /\ worker' = [w \in Workers |-> NoWork]
      /\ faults' = faults + 1 /\ faults < MaxFaults
      /\ UNCHANGED <<len, users, position, turn, queue, memory, newest, turns, offered,
                     repeated, excused, broken>>
  BY DEF IInv, ConnectionLost, Fault, history
<1>2. turns' \in 0..MaxTurns /\ turns <= turns' /\ broken \subseteq broken'
  BY <1>1 DEF TypeOK
<1>3. TasksOK' /\ NewestOK' /\ worker' \in [Workers -> Work]
  BY <1>1, <1>2, TurnFrame
<1>4. /\ memory' \in [Keys -> 0..MaxTurns] /\ newest' \in [Keys -> 0..MaxTurns]
      /\ queue' \subseteq queue
  BY <1>1 DEF TypeOK
<1>5. TypeOK' /\ TurnOK' /\ PassedOK' /\ OnceOK'
  BY <1>1, <1>3, <1>4, WorkFrame
<1> QED
  BY <1>3, <1>5 DEF IInv

(***************************************************************************)
(* The theorems.                                                           *)
(***************************************************************************)

\* The invariant holds of a new session.
LEMMA InitInv == ASSUME Init PROVE IInv
<1>1. /\ len = 0 /\ users = {} /\ position = 0 /\ turn = NoTurn /\ queue = {}
      /\ worker = [w \in Workers |-> NoWork] /\ memory = [k \in Keys |-> 0]
      /\ newest = [k \in Keys |-> 0] /\ turns = 0 /\ faults = 0
      /\ offered = {} /\ repeated = {} /\ excused = {} /\ broken = {}
      /\ turn.pc = "idle"
      /\ \A w \in Workers : worker[w] = NoWork /\ worker[w].pc = "idle" /\ ~Working(w)
  BY DEF Init, NoTurn, NoWork, Working
<1>2. TypeOK
  BY <1>1, Constants DEF TypeOK, Turn, Work
<1>3. TurnOK
  <2>1. \A m \in Nat : 0 <= 0 * (m + 2)
    OBVIOUS
  <2> QED
    BY <1>1, <2>1, Constants DEF TurnOK
<1>4. TasksOK
  BY <1>1 DEF TasksOK
<1>5. PassedOK
  BY <1>1, SpanFacts DEF PassedOK, Passed
<1>6. OnceOK
  BY <1>1, SpanFacts DEF OnceOK, Furthest
<1>7. NewestOK
  BY <1>1 DEF NewestOK
<1> QED
  BY <1>2, <1>3, <1>4, <1>5, <1>6, <1>7 DEF IInv

\* A step of something else keeps it.
LEMMA StutterInv == ASSUME IInv, UNCHANGED vars PROVE IInv'
<1>1. UNCHANGED <<len, users, position, turn, queue, worker, memory, newest, turns, faults,
                  offered, repeated, excused, broken>>
  BY DEF vars, work, history
<1> QED
  BY <1>1 DEF IInv, TypeOK, TurnOK, TasksOK, PassedOK, Passed, OnceOK, Furthest, NewestOK,
              Working, Span, Keys

\* Every step keeps it: one case for each action of Next.
LEMMA NextInv == ASSUME IInv, [Next]_vars PROVE IInv'
<1>1. CASE TurnStart
  BY <1>1, TurnStartInv
<1>2. CASE UntriggeredTurn
  BY <1>2, UntriggeredTurnInv
<1>3. CASE ReadPosition
  BY <1>3, ReadPositionInv
<1>4. CASE PublishTask
  BY <1>4, PublishTaskInv
<1>5. CASE SetPosition
  BY <1>5, SetPositionInv
<1>6. CASE TurnEnd
  BY <1>6, TurnEndInv
<1>7. CASE \E w \in Workers, task \in queue : Take(w, task)
  BY <1>7, TakeInv
<1>8. CASE \E w \in Workers : Handle(w)
  BY <1>8, OpenFailsInv, ExtractInv, StoreInv, SetTaskPositionInv, AckInv DEF Handle
<1>9. CASE Disconnect
  BY <1>9, LoseTurnInv DEF Disconnect, Fault, work
<1>10. CASE ConnectionLost
  BY <1>10, ConnectionLostInv
<1>11. CASE Restart
  BY <1>11, LoseTurnInv DEF Restart, Fault
<1>12. CASE UNCHANGED vars
  BY <1>12, StutterInv
<1> QED
  BY <1>1, <1>2, <1>3, <1>4, <1>5, <1>6, <1>7, <1>8, <1>9, <1>10, <1>11, <1>12 DEF Next

\* The inductive invariant holds throughout: turns, tasks and the position fit
\* each other, whatever fails and wherever turns and handlers stop.
THEOREM Inductive == Spec => []IInv
<1>1. Init => IInv
  BY InitInv
<1>2. IInv /\ [Next]_vars => IInv'
  BY NextInv
<1> QED
  BY <1>1, <1>2, PTL DEF Spec

\* All variables keep their types: in particular every memory of an extraction
\* has its index, and the positions have room for every message.
THEOREM TypeCorrect == Spec => []TypeOK
<1>1. IInv => TypeOK
  BY DEF IInv
<1> QED
  BY <1>1, Inductive, PTL

\* Every message before the extraction position was in a task the broker
\* accepted, or was passed over by a refused publication or a lost turn, also
\* where handlers set the position late or again.
THEOREM PassedOffered == Spec => []OfferedOrExcused
<1>1. IInv => OfferedOrExcused
  BY DEF IInv, PassedOK, Passed, OfferedOrExcused
<1> QED
  BY <1>1, Inductive, PTL

\* While no task was published amid another, no turn was cut short and the
\* position could be read and set by the turns, no message is offered twice.
THEOREM OfferedOnce == Spec => []OfferedOnceUnlessBroken
<1>1. IInv => OfferedOnceUnlessBroken
  BY DEF IInv, OnceOK, OfferedOnceUnlessBroken
<1> QED
  BY <1>1, Inductive, PTL

\* While no task was published amid another, the store has the latest memory
\* under each key, although tasks are redelivered.
THEOREM NewestIsKept == Spec => []NewestKept
<1>1. IInv => NewestKept
  BY DEF IInv, NewestOK, NewestKept
<1> QED
  BY <1>1, Inductive, PTL

=============================================================================
