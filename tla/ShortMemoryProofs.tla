-------------------------- MODULE ShortMemoryProofs -------------------------
(***************************************************************************)
(* Proofs about ShortMemory for every threshold, any consumers, any number *)
(* of turns, steps, replans and faults.                                    *)
(***************************************************************************)
EXTENDS ShortMemory, FiniteSetTheorems, TLAPS

(***************************************************************************)
(* The inductive invariant.                                                *)
(***************************************************************************)

\* A turn that has not yet decided on a compression.
Deciding == turn.pc \in {"init", "count", "reply", "incr", "trigger"}

\* Positions up to which messages have been, or will be, compressed.
Ends == ({idx} \ {0}) \union {job.end : job \in queue}

\* Tasks whose reset of the counter is still to come.
Due == {job \in queue : \A w \in Workers :
           Working(w) /\ worker[w].job = job =>
               worker[w].pc \in {"summarise", "set_summary", "set_count"}}

\* The thread as the next turn will find it, less the reply it will add.
Reach == IF turn = NoTurn THEN len + 1
         ELSE IF turn.pc # "finish" THEN len
         ELSE len + turn.added + (IF turn.kind = "simple" THEN 1 ELSE 0)

Allowed == faults * Lead
Triggering == IF turn.pc = "trigger" THEN 1 ELSE 0

\* The messages of a turn, in the thread and not yet in it, have their places.
TurnOK ==
    /\ turn = NoTurn => len <= turns * (MaxSteps + 2)
    /\ turn # NoTurn => turns >= 1 /\ turn.old \subseteq Span(0, len)
    /\ turn.pc \in {"init", "count", "reply"} =>
          turn.added = 0 /\ len + 1 + MaxSteps <= turns * (MaxSteps + 2)
    /\ turn.pc \in {"incr", "trigger", "finish"} =>
          /\ turn.kind = "simple" => turn.added = 1 /\ turn.total = len + 2
          /\ turn.kind = "plan" => turn.added \in 1..MaxSteps /\ turn.total = len + turn.added
          /\ len + turn.added + (IF turn.kind = "plan" THEN 1 ELSE 0) <= turns * (MaxSteps + 2)

\* A consumer works on a task of the queue that no other one has, and no task
\* is of the turn that is still to decide.
TasksOK ==
    /\ IsFiniteSet(queue)
    /\ \A w \in Workers : Working(w) => worker[w].job \in queue
    /\ \A v, w \in Workers :
          Working(v) /\ Working(w) /\ worker[v].job = worker[w].job => v = w
    /\ \A job \in queue : job.by <= turns /\ (Deciding => job.by < turns)

Existing ==
    /\ SummaryOfExisting
    /\ \A w \in Workers : Working(w) => worker[w].text \subseteq Span(0, len)

\* There is, or has been, something to summarise.
Compressible ==
    \/ queue # {} \/ summary # {} \/ turn.pc = "trigger"
    \/ turn # NoTurn /\ turn.old # {}

\* The counter never runs ahead of the thread, and is not below what it is reset
\* to once there is something to summarise.
CountOK ==
    /\ count <= len /\ (Deciding /\ turn.pc # "trigger" => count < len)
    /\ Compressible => count >= KEEP_FRESH_MESSAGES

\* No compression reaches further than the longest list there has been.
Led(ends, n) == \A e \in ends : e + KEEP_FRESH_MESSAGES <= n + Lead
LeadOK == Led(Ends, len + 1) /\ (Deciding => Led(Ends, len))

\* The counter, and the turns there may be before one has anything to compress,
\* against the faults and the resets that are still to come.
Within(counter, allowed, due, now, reach, ends) ==
    LET limit == COMPRESS_THRESHOLD + allowed + due + now
    IN  /\ counter < limit
        /\ \A e \in ends :
              /\ e + KEEP_FRESH_MESSAGES - reach <= allowed
              /\ counter + (e + KEEP_FRESH_MESSAGES - reach) < limit

Counted == Within(count, Allowed, Cardinality(Due), Triggering, Reach, Ends)

\* While no turn began amid a compression, there is one task at most, and what
\* it takes in follows what the summary it carries has.
Covered ==
    clean =>
        /\ Deciding => queue = {} /\ turn.old = summary
        /\ \A j, k \in queue : j = k
        /\ SummaryCoversIdx
        /\ \A job \in queue :
              /\ Span(0, job.start) \subseteq job.old
              /\ job.old \subseteq summary
              /\ Span(0, idx) \subseteq job.old \union Span(job.start, job.end)
        /\ \A w \in Workers : Working(w) /\ worker[w].pc # "summarise" =>
              worker[w].text = worker[w].job.old
                               \union Span(worker[w].job.start, worker[w].job.end)
        /\ \A w \in Workers : worker[w].pc \in {"set_count", "set_idx"} =>
              worker[w].text \subseteq summary

IInv ==
    /\ TypeOK
    /\ TurnOK
    /\ TasksOK
    /\ Existing
    /\ CountOK
    /\ LeadOK
    /\ Counted
    /\ Covered

(***************************************************************************)
(* Lemmas about the constants and the state.                               *)
(***************************************************************************)

\* What the assumptions say of the constants, and that a lead is at least one.
LEMMA Constants ==
    /\ COMPRESS_THRESHOLD \in Nat /\ KEEP_FRESH_MESSAGES \in Nat
    /\ KEEP_FRESH_MESSAGES < COMPRESS_THRESHOLD
    /\ MaxSteps \in Nat /\ MaxTurns \in Nat /\ MaxFaults \in Nat /\ MaxIterations \in Nat
    /\ MaxIterations >= 1 /\ MaxSteps < KEEP_FRESH_MESSAGES /\ 2 <= KEEP_FRESH_MESSAGES
    /\ Lead \in Nat /\ 1 <= Lead /\ MaxSteps <= Lead + 1
  BY ThresholdAssumption, KeepAssumption, StepsAssumption, BoundsAssumption DEF Lead

\* What a fault adds to the turns that are allowed.
LEMMA AllowedFacts ==
    ASSUME TypeOK
    PROVE  /\ Allowed \in Nat
           /\ faults' = faults => Allowed' = Allowed
           /\ faults' = faults + 1 => Allowed' = Allowed + Lead
<1>1. faults \in Nat /\ Lead \in Nat
  BY Constants DEF TypeOK
<1>2. \A f, m \in Nat : f * m \in Nat /\ (f + 1) * m = f * m + m
  OBVIOUS
<1> QED
  BY <1>1, <1>2 DEF Allowed, Lead

\* The positions that turns have room for.
LEMMA Room ==
    ASSUME NEW t \in 0..MaxTurns
    PROVE  /\ t * (MaxSteps + 2) \in Nat
           /\ (t + 1) * (MaxSteps + 2) = t * (MaxSteps + 2) + MaxSteps + 2
           /\ t * (MaxSteps + 2) <= MaxTurns * (MaxSteps + 2)
           /\ MaxTurns * (MaxSteps + 2) \in Nat
<1> DEFINE m == MaxSteps + 2
           d == MaxTurns - t
<1>1. t \in Nat /\ m \in Nat /\ d \in Nat /\ MaxTurns = t + d
  BY Constants
<1>2. \A a, b, c \in Nat : /\ a * c \in Nat /\ (a + 1) * c = a * c + c
                           /\ (a + b) * c = a * c + b * c
  OBVIOUS
<1> HIDE DEF m, d
<1>3. /\ t * m \in Nat /\ (t + 1) * m = t * m + m /\ d * m \in Nat
      /\ MaxTurns * m = t * m + d * m
  BY <1>1, <1>2
<1>4. MaxTurns * m \in Nat /\ t * m <= MaxTurns * m
  BY <1>3
<1> QED
  BY <1>3, <1>4, Constants DEF m

ActiveTurn ==
    [pc : {"init", "count", "reply", "incr", "trigger", "finish"},
     kind : {"simple", "plan"}, plans : 1..MaxIterations, old : SUBSET Positions, window : Nat,
     added : Nat, total : Nat]

\* What the type invariant says of a turn, field by field.
LEMMA TurnFields ==
    ASSUME TypeOK
    PROVE  /\ turn = NoTurn <=> turn.pc = "idle"
           /\ turn.pc \in {"idle", "init", "count", "reply", "incr", "trigger", "finish"}
           /\ turn # NoTurn =>
                 /\ turn \in ActiveTurn
                 /\ turn.kind \in {"simple", "plan"} /\ turn.plans \in 1..MaxIterations
                 /\ turn.old \subseteq Positions /\ turn.window \in Nat
                 /\ turn.added \in Nat /\ turn.total \in Nat
           /\ Deciding <=> turn # NoTurn /\ turn.pc # "finish"
<1>1. turn = NoTurn \/ turn \in ActiveTurn
  BY DEF TypeOK, Turn, ActiveTurn
<1>2. CASE turn = NoTurn
  BY <1>2 DEF NoTurn, Deciding
<1>3. CASE turn \in ActiveTurn
  <2>1. /\ turn.pc \in {"init", "count", "reply", "incr", "trigger", "finish"}
        /\ turn.kind \in {"simple", "plan"} /\ turn.plans \in 1..MaxIterations
        /\ turn.old \subseteq Positions /\ turn.window \in Nat
        /\ turn.added \in Nat /\ turn.total \in Nat
    BY <1>3 DEF ActiveTurn
  <2>2. turn # NoTurn
    BY <2>1 DEF NoTurn
  <2> QED
    BY <1>3, <2>1, <2>2 DEF Deciding
<1> QED
  BY <1>1, <1>2, <1>3

ActiveWork ==
    [pc : {"summarise", "set_summary", "set_count", "set_idx", "ack"},
     job : Job, text : SUBSET Positions]

\* What it says of a handler, field by field.
LEMMA WorkFields ==
    ASSUME TypeOK, NEW w \in Workers
    PROVE  /\ worker[w] = NoWork <=> ~Working(w)
           /\ Working(w) =>
                 /\ worker[w] \in ActiveWork
                 /\ worker[w].pc \in {"summarise", "set_summary", "set_count", "set_idx", "ack"}
                 /\ worker[w].job \in Job /\ worker[w].text \subseteq Positions
<1>1. worker[w] = NoWork \/ worker[w] \in ActiveWork
  BY DEF TypeOK, Work, ActiveWork
<1>2. CASE worker[w] = NoWork
  BY <1>2 DEF NoWork, Working
<1>3. CASE worker[w] \in ActiveWork
  BY <1>3 DEF ActiveWork, Working, NoWork
<1> QED
  BY <1>1, <1>2, <1>3

\* What it says of a compression task.
LEMMA JobFields ==
    ASSUME NEW job \in Job
    PROVE  /\ job.by \in 1..MaxTurns /\ job.old \subseteq Positions
           /\ job.start \in Nat /\ job.end \in Nat /\ job.total \in Nat
  BY DEF Job

\* The thread has its place among the positions.
LEMMA InPlace ==
    ASSUME TypeOK, TurnOK
    PROVE  /\ len \in Nat /\ len <= turns * (MaxSteps + 2)
           /\ Span(0, len) \subseteq Positions
<1>1. /\ len \in Nat /\ turns \in 0..MaxTurns /\ turns * (MaxSteps + 2) \in Nat
      /\ turns * (MaxSteps + 2) <= MaxTurns * (MaxSteps + 2)
      /\ MaxTurns * (MaxSteps + 2) \in Nat
  BY Room DEF TypeOK
<1> DEFINE room == turns * (MaxSteps + 2)
           all == MaxTurns * (MaxSteps + 2)
<1>2. /\ turn = NoTurn => len <= room
      /\ turn.pc \in {"init", "count", "reply"} => len + 1 + MaxSteps <= room
      /\ turn.pc \in {"incr", "trigger", "finish"} =>
            len + turn.added + (IF turn.kind = "plan" THEN 1 ELSE 0) <= room
  BY DEF TurnOK
<1>3. Positions = 0..all
  BY DEF Positions
<1>4. room \in Nat /\ all \in Nat /\ room <= all
  BY <1>1
<1> HIDE DEF room, all
<1>5. len <= room
  BY <1>1, <1>2, <1>4, TurnFields, Constants
<1>6. Span(0, len) \subseteq 0..all
  BY <1>1, <1>4, <1>5 DEF Span
<1> QED
  BY <1>1, <1>3, <1>5, <1>6 DEF room

\* A longer thread has the positions of a shorter one.
LEMMA SpanGrows ==
    ASSUME NEW m \in Nat, NEW n \in Nat, m <= n
    PROVE  Span(0, m) \subseteq Span(0, n)
  BY DEF Span

\* The tasks that will still reset the counter can be counted.
LEMMA DueFacts ==
    ASSUME TypeOK, TasksOK
    PROVE  Cardinality(Due) \in Nat /\ IsFiniteSet(Due)
<1>1. IsFiniteSet(Due)
  <2>1. Due \subseteq queue /\ IsFiniteSet(queue)
    BY DEF Due, TasksOK
  <2> QED
    BY <2>1, FS_Subset
<1> QED
  BY <1>1, FS_CardinalityType

\* What the thread may still reach, by the place of the turn.
LEMMA EndsFacts ==
    ASSUME TypeOK
    PROVE  /\ Ends \subseteq Nat /\ Reach \in Nat
           /\ turn = NoTurn => Reach = len + 1
           /\ Deciding => Reach = len
           /\ turn.pc = "finish" => Reach = len + turn.added + (IF turn.kind = "simple" THEN 1 ELSE 0)
<1>1. Ends \subseteq Nat
  BY JobFields DEF Ends, TypeOK
<1> QED
  BY <1>1, TurnFields DEF Reach, TypeOK

(***************************************************************************)
(* Frames: parts of the invariant that a step leaves as they are.          *)
(***************************************************************************)

\* The counter grows by no more than what it is allowed.
LEMMA WithinFrame ==
    ASSUME NEW c \in Nat, NEW a \in Nat, NEW k \in Nat, NEW t \in Nat, NEW r \in Nat,
           NEW E, E \subseteq Nat, Within(c, a, k, t, r, E),
           NEW d \in Nat, NEW c2 \in Nat, NEW a2 \in Nat, NEW k2 \in Nat, NEW t2 \in Nat,
           NEW r2 \in Nat, NEW E2, E2 \subseteq E,
           c2 <= c + d, a <= a2, a + k + t + d <= a2 + k2 + t2, r <= r2
    PROVE  Within(c2, a2, k2, t2, r2, E2)
<1>1. COMPRESS_THRESHOLD \in Nat /\ KEEP_FRESH_MESSAGES \in Nat
  BY Constants
<1>2. \A e \in E2 : e \in Nat /\ e \in E
  OBVIOUS
<1> QED
  BY <1>1, <1>2 DEF Within

\* The state after a step in numbers.
After(counter, allowed, due, now, reach) ==
    /\ count = counter /\ Allowed = allowed /\ Cardinality(Due) = due
    /\ Triggering = now /\ Reach = reach

\* The numbers of a step may be compared with the ends of before, when they stay.
LEMMA CountedAfter ==
    ASSUME NEW c, NEW a, NEW k, NEW t, NEW r, After(c, a, k, t, r)',
           NEW E, Within(c, a, k, t, r, E), Ends' = E
    PROVE  Counted'
  BY DEF After, Counted

\* Tasks that end within the lead of a thread end within that of a longer one.
LEMMA LedFrame ==
    ASSUME NEW n \in Nat, NEW m \in Nat, n <= m, NEW E, E \subseteq Nat, Led(E, n),
           NEW E2, E2 \subseteq E
    PROVE  Led(E2, m)
<1>1. Lead \in Nat /\ KEEP_FRESH_MESSAGES \in Nat
  BY Constants
<1>2. \A e \in E2 : e \in Nat /\ e \in E
  OBVIOUS
<1> QED
  BY <1>1, <1>2 DEF Led

\* The tasks whose reset is still to come, after a step that takes away one of
\* them at most.
LEMMA DueLoses ==
    ASSUME TypeOK, TasksOK, NEW job, queue' \subseteq queue, Due \ {job} \subseteq Due'
    PROVE  \E k \in Nat : /\ k = Cardinality(Due)'
                          /\ Cardinality(Due) <= k + 1
                          /\ Due \subseteq Due' => Cardinality(Due) <= k
<1>1. Due' \subseteq queue /\ IsFiniteSet(queue) /\ IsFiniteSet(Due)
  BY DueFacts DEF Due, TasksOK
<1>2. IsFiniteSet(Due')
  BY <1>1, FS_Subset
<1>3. Cardinality(Due') \in Nat /\ Cardinality(Due) \in Nat
  BY <1>1, <1>2, FS_CardinalityType
<1>4. Due \subseteq Due' => Cardinality(Due) <= Cardinality(Due')
  BY <1>2, FS_Subset
<1>5. CASE job \in Due
  <2>1. IsFiniteSet(Due \ {job}) /\ Cardinality(Due \ {job}) = Cardinality(Due) - 1
    BY <1>1, <1>5, FS_RemoveElement
  <2>2. Cardinality(Due \ {job}) <= Cardinality(Due')
    BY <1>2, FS_Subset
  <2> QED
    BY <1>3, <1>4, <2>1, <2>2
<1>6. CASE job \notin Due
  <2>1. Due \subseteq Due'
    BY <1>6
  <2> QED
    BY <1>3, <1>4, <2>1
<1> QED
  BY <1>5, <1>6

\* A step of a turn, and a restart.
LEMMA TurnFrame ==
    ASSUME IInv, UNCHANGED <<summary, idx, queue>>,
           worker' = worker \/ worker' = [w \in Workers |-> NoWork],
           len' \in Nat, len <= len', clean' => clean,
           turns' \in 0..MaxTurns, turns <= turns',
           Deciding' =>
              \/ Deciding /\ turns' = turns /\ turn'.old = turn.old
              \/ /\ turns < turns' /\ len < len'
                 /\ clean' => queue = {} /\ turn'.old = summary
    PROVE  /\ TasksOK' /\ Existing' /\ LeadOK' /\ Covered'
           /\ worker' \in [Workers -> Work]
           /\ Ends' = Ends
           /\ \E k \in Nat : k = Cardinality(Due)' /\ Cardinality(Due) <= k
<1>1. TypeOK /\ TurnOK /\ TasksOK /\ Existing /\ LeadOK /\ Covered
  BY DEF IInv
<1>2. \A w \in Workers : worker'[w].pc = "idle" \/ worker'[w] = worker[w]
  BY DEF NoWork
<1>3. \A w \in Workers : Working(w)' => Working(w) /\ worker'[w] = worker[w]
  BY <1>2 DEF Working
<1>4. worker' \in [Workers -> Work]
  BY <1>1 DEF TypeOK, Work
<1>5. Ends' = Ends
  BY DEF Ends
<1>6. Due \subseteq Due'
  BY <1>3 DEF Due
<1>7. \E k \in Nat : k = Cardinality(Due)' /\ Cardinality(Due) <= k
  BY <1>1, <1>6, DueLoses
<1>8. TasksOK'
  <2>1. \A w \in Workers : Working(w)' => worker'[w].job \in queue'
    BY <1>1, <1>3 DEF TasksOK
  <2>2. \A v, w \in Workers :
          Working(v)' /\ Working(w)' /\ worker'[v].job = worker'[w].job => v = w
    BY <1>1, <1>3 DEF TasksOK
  <2>3. \A job \in queue' : job.by <= turns' /\ (Deciding' => job.by < turns')
    BY <1>1, JobFields DEF TasksOK, TypeOK
  <2> QED
    BY <1>1, <2>1, <2>2, <2>3 DEF TasksOK
<1>9. Existing'
  <2>1. Span(0, len) \subseteq Span(0, len') /\ len \in Nat
    BY <1>1, SpanGrows DEF TypeOK
  <2>2. Span(0, len') = Span(0, len)'
    BY DEF Span
  <2>3. \A job \in queue : job.end \in Nat /\ job.end <= len'
    BY <1>1, JobFields, <2>1 DEF Existing, SummaryOfExisting, TypeOK
  <2>4. idx' <= len'
    BY <1>1, <2>1 DEF Existing, SummaryOfExisting, TypeOK
  <2>5. SummaryOfExisting'
    BY <1>1, <2>1, <2>2, <2>3, <2>4 DEF Existing, SummaryOfExisting
  <2>6. \A w \in Workers : Working(w)' => worker'[w].text \subseteq Span(0, len)'
    BY <1>1, <1>3, <2>1, <2>2 DEF Existing
  <2> QED
    BY <2>5, <2>6 DEF Existing
<1>10. LeadOK'
  <2>0. \A m, n \in Nat : /\ m + 1 \in Nat
                          /\ n <= m => n + 1 <= m + 1
                          /\ n < m => n + 1 <= m
    OBVIOUS
  <2>1. len \in Nat /\ len + 1 \in Nat /\ len' + 1 \in Nat /\ len + 1 <= len' + 1 /\ Ends \subseteq Nat
    BY <1>1, <2>0, EndsFacts DEF TypeOK
  <2>2. Led(Ends, len' + 1)
    BY <1>1, <2>1, LedFrame DEF LeadOK
  <2>3. Led(Ends, len) => Led(Ends, len')
    BY <2>1, LedFrame
  <2>4. len < len' => len + 1 <= len'
    BY <2>0, <2>1
  <2>5. len < len' => Led(Ends, len')
    BY <1>1, <2>1, <2>4, LedFrame DEF LeadOK
  <2>6. Deciding' => Led(Ends, len')
    BY <1>1, <2>3, <2>5 DEF LeadOK
  <2> QED
    BY <1>5, <2>2, <2>6 DEF LeadOK, Led, Lead
<1>11. Covered'
  <2> SUFFICES ASSUME clean'
               PROVE  /\ Deciding' => queue = {} /\ turn'.old = summary
                      /\ \A j, k \in queue : j = k
                      /\ SummaryCoversIdx'
                      /\ \A job \in queue :
                            /\ Span(0, job.start) \subseteq job.old
                            /\ job.old \subseteq summary
                            /\ Span(0, idx) \subseteq job.old \union Span(job.start, job.end)
                      /\ \A w \in Workers : Working(w)' /\ worker'[w].pc # "summarise" =>
                            worker'[w].text = worker'[w].job.old
                                   \union Span(worker'[w].job.start, worker'[w].job.end)
                      /\ \A w \in Workers : worker'[w].pc \in {"set_count", "set_idx"} =>
                            worker'[w].text \subseteq summary
    BY DEF Covered, Span
  <2>1. SummaryCoversIdx'
    BY <1>1 DEF Covered, SummaryCoversIdx, Span
  <2>2. \A w \in Workers : Working(w)' /\ worker'[w].pc # "summarise" =>
           worker'[w].text = worker'[w].job.old
                             \union Span(worker'[w].job.start, worker'[w].job.end)
    BY <1>1, <1>3 DEF Covered
  <2>3. \A w \in Workers : worker'[w].pc \in {"set_count", "set_idx"} =>
           worker'[w].text \subseteq summary
    BY <1>1, <1>2 DEF Covered
  <2>4. Deciding' => queue = {} /\ turn'.old = summary
    BY <1>1 DEF Covered
  <2> QED
    BY <1>1, <2>1, <2>2, <2>3, <2>4 DEF Covered
<1> QED
  BY <1>4, <1>5, <1>7, <1>8, <1>9, <1>10, <1>11

(***************************************************************************)
(* The steps of a turn.                                                    *)
(***************************************************************************)

\* Nothing that is due has been lost.
Kept == Ends' = Ends /\ \E k \in Nat : k = Cardinality(Due)' /\ Cardinality(Due) <= k

\* The part of the numbers that a turn changes.
Seen(counter, now, reach) == count = counter /\ Triggering = now /\ Reach = reach

\* What the invariant says of the numbers, with their types.
LEMMA Numbers ==
    ASSUME IInv
    PROVE  /\ count \in Nat /\ Allowed \in Nat /\ Cardinality(Due) \in Nat
           /\ Triggering \in {0, 1} /\ Triggering \in Nat /\ Reach \in Nat /\ Ends \subseteq Nat
           /\ Within(count, Allowed, Cardinality(Due), Triggering, Reach, Ends)
           /\ Lead \in Nat /\ 1 <= Lead
<1>1. TypeOK /\ TasksOK /\ Counted
  BY DEF IInv
<1> QED
  BY <1>1, AllowedFacts, DueFacts, EndsFacts, Constants DEF TypeOK, Triggering, Counted

\* What is allowed after a step.
LEMMA AllowedAfter ==
    ASSUME IInv, faults' = faults \/ faults' = faults + 1
    PROVE  \E a \in Nat : /\ a = Allowed'
                          /\ Allowed <= a
                          /\ faults' = faults => a = Allowed
                          /\ faults' = faults + 1 => a = Allowed + Lead
<1>1. Allowed \in Nat /\ Lead \in Nat
  BY Numbers
<1>2. /\ faults' = faults => Allowed' = Allowed
      /\ faults' = faults + 1 => Allowed' = Allowed + Lead
  BY AllowedFacts DEF IInv
<1>3. Allowed + Lead \in Nat /\ Allowed <= Allowed + Lead /\ Allowed <= Allowed
  BY <1>1
<1>4. faults # faults + 1
  BY DEF IInv, TypeOK
<1>5. CASE faults' = faults
  BY <1>1, <1>2, <1>3, <1>4, <1>5
<1>6. CASE faults' = faults + 1
  BY <1>1, <1>2, <1>3, <1>4, <1>6
<1> QED
  BY <1>5, <1>6

\* A step of a turn that adds d to the counter and no compression keeps the numbers.
LEMMA CountedTurn ==
    ASSUME IInv, Kept, NEW c2 \in Nat, NEW t2 \in Nat, NEW r2 \in Nat, Seen(c2, t2, r2)',
           NEW d \in Nat, c2 <= count + d, Reach <= r2,
           \/ faults' = faults /\ Triggering + d <= t2
           \/ faults' = faults + 1 /\ Triggering + d <= t2 + 1
    PROVE  Counted'
<1>1. PICK a \in Nat : /\ a = Allowed'
                       /\ Allowed <= a
                       /\ faults' = faults => a = Allowed
                       /\ faults' = faults + 1 => a = Allowed + Lead
  BY AllowedAfter
<1>2. PICK k \in Nat : k = Cardinality(Due)' /\ Cardinality(Due) <= k
  BY DEF Kept
<1>3. Allowed <= a /\ Cardinality(Due) <= k
  BY <1>1, <1>2
<1>4. \/ a = Allowed /\ Triggering + d <= t2
      \/ a = Allowed + Lead /\ Triggering + d <= t2 + 1
  BY <1>1
<1>5. Allowed + Cardinality(Due) + Triggering + d <= a + k + t2
  BY <1>3, <1>4, Numbers
<1>6. Within(c2, a, k, t2, r2, Ends)
  BY <1>3, <1>5, Numbers, WithinFrame
<1>7. After(c2, a, k, t2, r2)'
  BY <1>1, <1>2 DEF After, Seen
<1>8. Ends' = Ends
  BY DEF Kept
<1> QED
  BY <1>6, <1>7, <1>8, CountedAfter

\* The counter is below the threshold.
LEMMA CountedTurnLow ==
    ASSUME IInv, Kept, NEW c2 \in Nat, NEW t2 \in Nat, NEW r2 \in Nat, Seen(c2, t2, r2)',
           c2 < COMPRESS_THRESHOLD, Reach <= r2, faults' = faults \/ faults' = faults + 1
    PROVE  Counted'
<1>1. PICK a \in Nat : a = Allowed' /\ Allowed <= a
  BY AllowedAfter
<1>2. PICK k \in Nat : k = Cardinality(Due)' /\ Cardinality(Due) <= k
  BY DEF Kept
<1>3. Allowed <= a
  BY <1>1
<1>4. /\ count \in Nat /\ Allowed \in Nat /\ Cardinality(Due) \in Nat /\ Triggering \in Nat
      /\ Reach \in Nat /\ Ends \subseteq Nat
      /\ Within(count, Allowed, Cardinality(Due), Triggering, Reach, Ends)
  BY Numbers
<1>6. Within(c2, a, k, t2, r2, Ends)
  <2>1. /\ COMPRESS_THRESHOLD \in Nat /\ KEEP_FRESH_MESSAGES \in Nat
        /\ \A e \in Ends : e \in Nat
    BY <1>4, Constants
  <2>2. c2 < COMPRESS_THRESHOLD + a + k + t2
    BY <2>1
  <2>3. ASSUME NEW e \in Ends
        PROVE  /\ e + KEEP_FRESH_MESSAGES - r2 <= a
               /\ c2 + (e + KEEP_FRESH_MESSAGES - r2) < COMPRESS_THRESHOLD + a + k + t2
    <3>1. e + KEEP_FRESH_MESSAGES - Reach <= Allowed
      BY <1>4 DEF Within
    <3> QED
      BY <1>3, <1>4, <2>1, <3>1
  <2> QED
    BY <2>2, <2>3 DEF Within
<1>7. After(c2, a, k, t2, r2)'
  BY <1>1, <1>2 DEF After, Seen
<1>8. Ends' = Ends
  BY DEF Kept
<1> QED
  BY <1>6, <1>7, <1>8, CountedAfter

\* A node begins: the summary it reads is that of the thread so far.
LEMMA BeginInv ==
    ASSUME IInv, NEW kind \in {"simple", "plan"}, NEW plans \in 1..MaxIterations, NEW n \in Nat,
           ~Deciding, len < n, Reach <= n, n + 1 + MaxSteps <= (turns + 1) * (MaxSteps + 2),
           Begin(kind, plans, n)
    PROVE  IInv'
<1>1. /\ TypeOK /\ TurnOK /\ TasksOK /\ Existing /\ CountOK /\ LeadOK /\ Covered
      /\ turns < MaxTurns /\ turns' = turns + 1 /\ len' = n
      /\ UNCHANGED <<summary, count, idx, queue, worker>>
  BY DEF IInv, Begin, redis
<1>0. PICK old \in {summary, {}} :
         /\ ReadsOrDefault(summary, {}, old)
         /\ turn' = [pc |-> "init", kind |-> kind, plans |-> plans, old |-> old,
                     window |-> 0, added |-> 0, total |-> 0]
         /\ clean' = (clean /\ queue = {} /\ old = summary)
  BY DEF Begin
<1>2. /\ turn' = [pc |-> "init", kind |-> kind, plans |-> plans, old |-> old,
                  window |-> 0, added |-> 0, total |-> 0]
      /\ clean' = (clean /\ queue = {} /\ old = summary)
      /\ \/ faults' = faults
         \/ faults' = faults + 1 /\ faults < MaxFaults
  BY <1>0 DEF ReadsOrDefault, NoFault, Fault
<1>3. /\ turn'.pc = "init" /\ turn'.kind = kind /\ turn'.old = old /\ turn'.added = 0
      /\ old \subseteq Positions /\ turn' # NoTurn
  BY <1>1, <1>2 DEF NoTurn, TypeOK
<1>4. turn' \in Turn
  BY <1>2, <1>3 DEF Turn
<1>5. /\ turns \in 0..MaxTurns /\ turns' \in 0..MaxTurns /\ turns <= turns' /\ turns < turns'
      /\ turns' >= 1 /\ len \in Nat /\ len <= len'
  BY <1>1, Constants DEF TypeOK
<1>6. faults' \in 0..MaxFaults
  BY <1>1, <1>2, Constants DEF TypeOK
<1>7. TypeOK'
  BY <1>1, <1>2, <1>4, <1>5, <1>6 DEF TypeOK
<1>8. TurnOK'
  <2>1. old \subseteq Span(0, len) /\ Span(0, len) \subseteq Span(0, n)
    BY <1>1, <1>5, SpanGrows DEF Existing, SummaryOfExisting
  <2>2. turn'.old \subseteq Span(0, len')
    BY <1>1, <1>3, <2>1
  <2>3. len' + 1 + MaxSteps <= turns' * (MaxSteps + 2)
    BY <1>1
  <2> QED
    BY <1>3, <1>5, <2>2, <2>3 DEF TurnOK, Span
<1>9. CountOK'
  <2>1. count < len'
    BY <1>1, <1>5 DEF CountOK, Compressible, TypeOK
  <2>2. old # {} => summary # {}
    OBVIOUS
  <2>3. count <= len'
    BY <1>1, <2>1, <1>5 DEF TypeOK
  <2> QED
    BY <1>1, <1>3, <2>1, <2>2, <2>3 DEF CountOK, Compressible
<1>10. TasksOK' /\ Existing' /\ LeadOK' /\ Covered' /\ Kept
  BY <1>1, <1>2, <1>3, <1>5, TurnFrame DEF Kept
<1>11. PICK c \in Nat : c = count
  BY <1>1 DEF TypeOK
<1>12. Triggering = 0
  BY DEF Triggering, Deciding
<1>13. Counted'
  <2>1. \/ faults' = faults /\ Triggering + 0 <= 0
        \/ faults' = faults + 1 /\ Triggering + 0 <= 0 + 1
    BY <1>2, <1>12
  <2>2. c <= count + 0
    BY <1>11
  <2>3. Seen(c, 0, n)'
    BY <1>1, <1>3, <1>11 DEF Seen, Triggering, Reach
  <2> QED
    BY <1>10, <2>1, <2>2, <2>3, CountedTurn
<1> QED
  BY <1>7, <1>8, <1>9, <1>10, <1>13 DEF IInv

\* A turn goes on with the thread, the summary and the tasks as they are.
LEMMA TurnOn ==
    ASSUME IInv, turn # NoTurn, UNCHANGED <<len, summary, idx, queue, worker, turns, clean>>,
           turn' \in ActiveTurn, turn'.old = turn.old, Deciding' => Deciding
    PROVE  /\ Kept
           /\ /\ count' \in Nat
              /\ \/ faults' = faults
                 \/ faults' = faults + 1 /\ faults < MaxFaults
              /\ TurnOK' /\ CountOK' /\ Counted'
              => IInv'
<1>1. TypeOK /\ turns \in 0..MaxTurns /\ len \in Nat /\ len <= len' /\ turns <= turns'
  BY DEF IInv, TypeOK
<1>2. TasksOK' /\ Existing' /\ LeadOK' /\ Covered' /\ Kept
  BY <1>1, TurnFrame DEF Kept
<1>3. turn' \in Turn
  BY DEF ActiveTurn, Turn
<1>4. /\ faults' = faults => faults' \in 0..MaxFaults
      /\ faults' = faults + 1 /\ faults < MaxFaults => faults' \in 0..MaxFaults
  BY <1>1, Constants DEF TypeOK
<1>5. /\ count' \in Nat
      /\ \/ faults' = faults
         \/ faults' = faults + 1 /\ faults < MaxFaults
      => TypeOK'
  BY <1>1, <1>3, <1>4 DEF TypeOK
<1> QED
  BY <1>2, <1>5 DEF IInv

\* What a turn may do to the counter before it has replied.
LEMMA InitMsgCountInv == ASSUME IInv, InitMsgCount PROVE IInv'
<1>1. /\ TypeOK /\ TurnOK /\ CountOK /\ turn.pc = "init" /\ turn # NoTurn /\ Deciding
      /\ UNCHANGED <<len, summary, idx, queue, worker, turns, clean>>
      /\ turn' = [turn EXCEPT !.pc = "count"]
  BY TurnFields DEF IInv, InitMsgCount, Deciding
<1>2. PICK current \in {count, 0} :
        /\ ReadsOrDefault(count, 0, current)
        /\ count' = IF turn.old # {} /\ current = 0 THEN KEEP_FRESH_MESSAGES ELSE count
  BY DEF InitMsgCount
<1>3. \/ faults' = faults
      \/ faults' = faults + 1 /\ faults < MaxFaults
  BY <1>2 DEF ReadsOrDefault, NoFault, Fault
<1>4. turn \in ActiveTurn
  BY <1>1, TurnFields
<1>5. /\ turn' \in ActiveTurn /\ turn'.pc = "count" /\ turn'.old = turn.old
      /\ turn'.added = turn.added
  BY <1>1, <1>4 DEF ActiveTurn
<1>6. turn' # NoTurn /\ Deciding'
  BY <1>5 DEF NoTurn, Deciding
<1>7. /\ count' \in Nat /\ count' <= count
      /\ turn.old # {} \/ queue # {} \/ summary # {} => count' >= KEEP_FRESH_MESSAGES
  <2>1. count \in Nat /\ KEEP_FRESH_MESSAGES \in Nat
    BY <1>1, Constants DEF TypeOK
  <2>2. turn.old # {} \/ queue # {} \/ summary # {} => count >= KEEP_FRESH_MESSAGES
    BY <1>1 DEF CountOK, Compressible
  <2>3. CASE turn.old # {} /\ current = 0
    <3>1. count' = KEEP_FRESH_MESSAGES
      BY <1>2, <2>3
    <3>2. KEEP_FRESH_MESSAGES <= count
      BY <2>2, <2>3
    <3> QED
      BY <2>1, <3>1, <3>2
  <2>4. CASE ~(turn.old # {} /\ current = 0)
    <3>1. count' = count
      BY <1>2, <2>4
    <3> QED
      BY <2>1, <2>2, <3>1
  <2> QED
    BY <2>3, <2>4
<1>8. TurnOK'
  BY <1>1, <1>5, <1>6 DEF TurnOK, Span
<1>9. CountOK'
  <2>1. count < len
    BY <1>1 DEF CountOK, Compressible
  <2>2. count' < len /\ count' <= len
    BY <1>1, <1>7, <2>1 DEF TypeOK
  <2> QED
    BY <1>1, <1>5, <1>6, <1>7, <2>2 DEF CountOK, Compressible
<1>10. Kept
  BY <1>1, <1>5, TurnOn
<1>11. Counted'
  <2>1. PICK c \in Nat : c = count'
    BY <1>7
  <2>2. PICK r \in Nat : r = Reach
    BY Numbers
  <2>3. Seen(c, 0, r)'
    BY <1>1, <1>5, <1>6, <2>1, <2>2 DEF Seen, Triggering, Reach
  <2>4. c <= count + 0 /\ Reach <= r
    BY <1>1, <1>7, <2>1, <2>2 DEF TypeOK
  <2>5. \/ faults' = faults /\ Triggering + 0 <= 0
        \/ faults' = faults + 1 /\ Triggering + 0 <= 0 + 1
    BY <1>1, <1>3 DEF Triggering
  <2> QED
    BY <1>10, <2>3, <2>4, <2>5, CountedTurn
<1> QED
  BY <1>1, <1>3, <1>5, <1>7, <1>8, <1>9, <1>11, TurnOn

\* The counter is left alone, and the turn goes on to decide.
LEMMA ReplyInv ==
    ASSUME IInv, Deciding, turn.pc # "trigger",
           UNCHANGED <<len, count, summary, idx, queue, worker, turns, clean>>,
           turn' \in ActiveTurn, turn'.old = turn.old,
           turn'.pc \in {"count", "reply", "incr"}, TurnOK',
           \/ faults' = faults
           \/ faults' = faults + 1 /\ faults < MaxFaults
    PROVE  IInv'
<1>1. TypeOK /\ CountOK /\ turn # NoTurn
  BY TurnFields DEF IInv
<1>2. turn' # NoTurn /\ Deciding' /\ turn'.pc # "trigger"
  BY DEF NoTurn, Deciding
<1>3. Kept
  BY <1>1, TurnOn
<1>4. CountOK'
  BY <1>1, <1>2 DEF CountOK, Compressible
<1>5. Counted'
  <2>1. PICK c \in Nat : c = count
    BY <1>1 DEF TypeOK
  <2>2. PICK r \in Nat : r = Reach
    BY Numbers
  <2>3. Seen(c, 0, r)'
    BY <1>1, <1>2, <2>1, <2>2 DEF Seen, Triggering, Reach, Deciding
  <2>4. c <= count + 0 /\ Reach <= r
    BY <2>1, <2>2
  <2>5. \/ faults' = faults /\ Triggering + 0 <= 0
        \/ faults' = faults + 1 /\ Triggering + 0 <= 0 + 1
    BY DEF Triggering
  <2> QED
    BY <1>3, <2>3, <2>4, <2>5, CountedTurn
<1> QED
  BY <1>1, <1>4, <1>5, TurnOn DEF TypeOK

\* A record of a turn, with one field after another changed.
LEMMA ActiveFields ==
    ASSUME NEW t \in ActiveTurn,
           NEW pc \in {"init", "count", "reply", "incr", "trigger", "finish"},
           NEW n \in Nat, NEW m \in Nat
    PROVE  /\ [t EXCEPT !.pc = pc] \in ActiveTurn
           /\ [[t EXCEPT !.pc = pc] EXCEPT !.window = n] \in ActiveTurn
           /\ [[[t EXCEPT !.pc = pc] EXCEPT !.added = n] EXCEPT !.total = m] \in ActiveTurn
<1> DEFINE u == [t EXCEPT !.pc = pc]
<1>1. u \in ActiveTurn
  BY DEF ActiveTurn
<1> HIDE DEF u
<1>2. [u EXCEPT !.window = n] \in ActiveTurn
  BY <1>1 DEF ActiveTurn
<1> DEFINE v == [u EXCEPT !.added = n]
<1>3. v \in ActiveTurn
  BY <1>1 DEF ActiveTurn
<1> HIDE DEF v
<1>4. [v EXCEPT !.total = m] \in ActiveTurn
  BY <1>3 DEF ActiveTurn
<1> QED
  BY <1>1, <1>2, <1>4 DEF u, v

\* get_msg_count for the window of the prompt keeps the invariant.
LEMMA ReadWindowInv == ASSUME IInv, ReadWindow PROVE IInv'
<1>1. /\ TypeOK /\ TurnOK /\ CountOK /\ turn.pc = "count" /\ turn # NoTurn /\ Deciding
      /\ turn \in ActiveTurn
      /\ UNCHANGED <<len, count, summary, idx, queue, worker, turns, clean>>
  BY TurnFields DEF IInv, ReadWindow, Deciding, redis
<1>2. PICK current \in {count, 0} :
        /\ ReadsOrDefault(count, 0, current)
        /\ turn' = [turn EXCEPT !.pc = "reply", !.window =
              IF turn.kind = "plan" /\ turn.old = {} THEN len - 1
              ELSE IF current = 0 THEN COMPRESS_THRESHOLD ELSE current]
  BY DEF ReadWindow
<1>3. \/ faults' = faults
      \/ faults' = faults + 1 /\ faults < MaxFaults
  BY <1>2 DEF ReadsOrDefault, NoFault, Fault
<1>4. PICK n \in Nat : turn' = [[turn EXCEPT !.pc = "reply"] EXCEPT !.window = n]
  <2>1. count < len /\ count \in Nat /\ len \in Nat /\ COMPRESS_THRESHOLD \in Nat
    BY <1>1, Constants DEF CountOK, Compressible, TypeOK
  <2>2. len - 1 \in Nat
    BY <2>1
  <2> DEFINE n == IF turn.kind = "plan" /\ turn.old = {} THEN len - 1
                  ELSE IF current = 0 THEN COMPRESS_THRESHOLD ELSE current
  <2>3. n \in Nat
    BY <2>1, <2>2
  <2>4. turn' = [[turn EXCEPT !.pc = "reply"] EXCEPT !.window = n]
    BY <1>1, <1>2 DEF ActiveTurn
  <2> HIDE DEF n
  <2> QED
    BY <2>3, <2>4
<1>5. turn' \in ActiveTurn
  BY <1>1, <1>4, ActiveFields
<1>6. turn'.pc = "reply" /\ turn'.old = turn.old /\ turn'.added = turn.added
  BY <1>1, <1>4 DEF ActiveTurn
<1>7. TurnOK'
  BY <1>1, <1>6 DEF TurnOK, Span, NoTurn
<1> QED
  BY <1>1, <1>3, <1>5, <1>6, <1>7, ReplyInv

\* The replies fit the room that was left for them.
LEMMA RepliesInv ==
    ASSUME IInv, NEW n \in Nat, NEW m \in Nat, turn.pc = "reply",
           turn' = [turn EXCEPT !.pc = "incr", !.added = n, !.total = m],
           turn.kind = "simple" => n = 1 /\ m = len + 2,
           turn.kind = "plan" => n \in 1..MaxSteps /\ m = len + n,
           UNCHANGED <<len, redis, queue, worker, turns, faults, clean>>
    PROVE  IInv'
<1>1. /\ TypeOK /\ TurnOK /\ turn # NoTurn /\ Deciding /\ turn \in ActiveTurn
      /\ turn.kind \in {"simple", "plan"}
      /\ UNCHANGED <<len, count, summary, idx, queue, worker, turns, clean>>
  BY TurnFields DEF IInv, Deciding, redis
<1>2. turn' = [[[turn EXCEPT !.pc = "incr"] EXCEPT !.added = n] EXCEPT !.total = m]
  BY <1>1 DEF ActiveTurn
<1>3. turn' \in ActiveTurn
  <2>1. [[[turn EXCEPT !.pc = "incr"] EXCEPT !.added = n] EXCEPT !.total = m] \in ActiveTurn
    BY <1>1, ActiveFields, Zenon
  <2> QED
    BY <1>2, <2>1
<1>4. /\ turn'.pc = "incr" /\ turn'.old = turn.old /\ turn'.added = n /\ turn'.total = m
      /\ turn'.kind = turn.kind
  BY <1>1 DEF ActiveTurn
<1>5. len + n + (IF turn.kind = "plan" THEN 1 ELSE 0) <= turns * (MaxSteps + 2)
  <2>1. turns * (MaxSteps + 2) \in Nat
    BY <1>1, Room DEF TypeOK
  <2>2. /\ len + 1 + MaxSteps <= turns * (MaxSteps + 2)
        /\ len \in Nat /\ MaxSteps \in Nat
    BY <1>1, Constants DEF TurnOK, TypeOK
  <2>3. \A l, s, r \in Nat, k \in Nat : l + 1 + s <= r =>
           /\ l + 1 + 0 <= r
           /\ k <= s => l + k + 1 <= r
    OBVIOUS
  <2>4. turn.kind = "simple" => n = 1
    OBVIOUS
  <2>5. turn.kind = "plan" => n <= MaxSteps
    BY <2>2
  <2> QED
    BY <1>1, <2>1, <2>2, <2>3, <2>4, <2>5
<1>6. TurnOK'
  BY <1>1, <1>4, <1>5 DEF TurnOK, Span, NoTurn
<1> QED
  BY <1>1, <1>3, <1>4, <1>6, ReplyInv

\* The reply of simple_handler, held twice in its list, keeps it.
LEMMA SimpleReplyInv == ASSUME IInv, SimpleReply PROVE IInv'
<1>1. len + 2 \in Nat
  BY DEF IInv, TypeOK
<1> QED
  BY <1>1, RepliesInv DEF SimpleReply

\* The run of the executor with its steps keeps it.
LEMMA PlanReplyInv == ASSUME IInv, PlanReply PROVE IInv'
<1>1. PICK n \in 1..MaxSteps : turn' = [turn EXCEPT !.pc = "incr", !.added = n, !.total = len + n]
  BY DEF PlanReply
<1>2. n \in Nat /\ len + n \in Nat
  BY DEF IInv, TypeOK
<1> QED
  BY <1>1, <1>2, RepliesInv DEF PlanReply

\* The counter is increased, and the turn may have something to compress.
LEMMA IncrementInv == ASSUME IInv, Increment PROVE IInv'
<1>1. /\ TypeOK /\ TurnOK /\ CountOK /\ turn.pc = "incr" /\ turn # NoTurn /\ Deciding
      /\ turn \in ActiveTurn
      /\ UNCHANGED <<len, summary, idx, queue, worker, turns, clean>>
  BY TurnFields DEF IInv, Increment, Deciding
<1>2. PICK pc \in {"trigger", "finish"} :
        /\ turn' = [turn EXCEPT !.pc = pc]
        /\ \/ /\ faults' = faults /\ count' = count + 1
              /\ IF count + 1 >= COMPRESS_THRESHOLD THEN pc = "trigger" ELSE pc = "finish"
           \/ /\ faults' = faults + 1 /\ faults < MaxFaults
              /\ count' \in {count, count + 1} /\ pc = "finish"
  BY DEF Increment, NoFault, Fault, ReachesThreshold
<1>3. /\ turn' \in ActiveTurn /\ turn'.pc = pc /\ turn'.old = turn.old /\ turn'.added = turn.added
      /\ turn'.total = turn.total /\ turn'.kind = turn.kind
  BY <1>1, <1>2 DEF ActiveTurn
<1>4. turn' # NoTurn
  BY <1>3 DEF NoTurn
<1>5. /\ count \in Nat /\ len \in Nat /\ turn.added \in Nat /\ count < len
      /\ count + 1 \in Nat /\ COMPRESS_THRESHOLD \in Nat
  BY <1>1, TurnFields, Constants DEF CountOK, TypeOK
<1>6. PICK c \in Nat : c = count' /\ c \in {count, count + 1}
  BY <1>2, <1>5
<1>7. CountOK'
  <2>1. c <= len /\ count <= c
    BY <1>5, <1>6
  <2>2. Compressible => KEEP_FRESH_MESSAGES <= count
    BY <1>1, <1>5, Constants DEF CountOK
  <2>3. pc = "trigger" => KEEP_FRESH_MESSAGES <= c
    BY <1>2, <1>5, <1>6, Constants
  <2>4. Compressible' => Compressible \/ pc = "trigger"
    BY <1>1, <1>3 DEF Compressible
  <2>5. Compressible' => KEEP_FRESH_MESSAGES <= c
    BY <1>5, <2>1, <2>2, <2>3, <2>4, Constants
  <2>6. ~(Deciding' /\ turn'.pc # "trigger")
    BY <1>3 DEF Deciding
  <2>7. count' <= len'
    BY <1>1, <1>6, <2>1
  <2>8. Compressible' => count' >= KEEP_FRESH_MESSAGES
    <3>1. KEEP_FRESH_MESSAGES <= c => c >= KEEP_FRESH_MESSAGES
      BY Constants
    <3> QED
      BY <1>6, <2>5, <3>1
  <2> QED
    BY <2>6, <2>7, <2>8 DEF CountOK
<1>8. TurnOK'
  BY <1>1, <1>3, <1>4 DEF TurnOK, Span
<1>9. Kept /\ (/\ count' \in Nat
               /\ \/ faults' = faults
                  \/ faults' = faults + 1 /\ faults < MaxFaults
               /\ TurnOK' /\ CountOK' /\ Counted'
               => IInv')
  BY <1>1, <1>3, TurnOn DEF Deciding
<1>10. Counted'
  <2>1. /\ Reach = len /\ Triggering = 0 /\ faults # faults + 1
        /\ len + turn.added + (IF turn.kind = "simple" THEN 1 ELSE 0) \in Nat
    BY <1>1, <1>5, EndsFacts DEF Triggering, TypeOK
  <2>2. PICK r \in Nat :
           /\ r = IF pc = "trigger" THEN len
                  ELSE len + turn.added + (IF turn.kind = "simple" THEN 1 ELSE 0)
           /\ Reach <= r
    BY <1>5, <2>1
  <2>3. PICK t \in Nat : t = IF pc = "trigger" THEN 1 ELSE 0
    OBVIOUS
  <2>4. Seen(c, t, r)'
    BY <1>1, <1>3, <1>4, <1>6, <2>2, <2>3 DEF Seen, Triggering, Reach
  <2>5. c <= count + 1 /\ Reach <= r
    BY <1>5, <1>6, <2>2
  <2>6. faults' = faults \/ faults' = faults + 1
    BY <1>2
  <2>7. Kept
    BY <1>9
  <2>8. CASE c < COMPRESS_THRESHOLD
    BY <2>4, <2>5, <2>6, <2>7, <2>8, CountedTurnLow
  <2>9. CASE ~(c < COMPRESS_THRESHOLD)
    <3>1. faults' = faults => pc = "trigger"
      BY <1>2, <1>5, <1>6, <2>1, <2>9
    <3>2. \/ faults' = faults /\ Triggering + 1 <= t
          \/ faults' = faults + 1 /\ Triggering + 1 <= t + 1
      BY <2>1, <2>3, <2>6, <3>1
    <3>3. 1 \in Nat
      OBVIOUS
    <3> QED
      BY <2>4, <2>5, <2>7, <3>2, <3>3, CountedTurn
  <2> QED
    BY <2>8, <2>9
<1> QED
  BY <1>2, <1>5, <1>7, <1>8, <1>9, <1>10

\* Between two turns, after the end of one or a step without one.
LEMMA TurnOver ==
    ASSUME IInv, turn' = NoTurn, UNCHANGED <<count, summary, idx, queue, clean>>,
           worker' = worker \/ worker' = [w \in Workers |-> NoWork],
           len' \in Nat, len <= len', turns' \in 0..MaxTurns, turns <= turns',
           len' <= turns' * (MaxSteps + 2),
           \/ faults' = faults
           \/ faults' = faults + 1 /\ faults < MaxFaults
    PROVE  Kept /\ (Counted' => IInv')
<1>1. TypeOK /\ CountOK /\ len \in Nat /\ count \in Nat /\ faults \in 0..MaxFaults
  BY DEF IInv, TypeOK
<1>2. turn'.pc = "idle" /\ ~Deciding'
  BY DEF NoTurn, Deciding
<1>3. TasksOK' /\ Existing' /\ LeadOK' /\ Covered' /\ Kept /\ worker' \in [Workers -> Work]
  BY <1>1, <1>2, TurnFrame DEF Kept
<1>4. faults' \in 0..MaxFaults
  BY <1>1, Constants
<1>5. TypeOK'
  BY <1>1, <1>3, <1>4 DEF TypeOK, Turn
<1>6. TurnOK'
  BY <1>2 DEF TurnOK
<1>7. CountOK'
  <2>1. count <= len
    BY <1>1 DEF CountOK
  <2>2. count' <= len'
    BY <1>1, <2>1
  <2>3. Compressible' => Compressible
    BY <1>2 DEF Compressible
  <2>4. Compressible' => count' >= KEEP_FRESH_MESSAGES
    BY <1>1, <2>3 DEF CountOK
  <2> QED
    BY <1>2, <2>2, <2>4 DEF CountOK
<1> QED
  BY <1>3, <1>5, <1>6, <1>7 DEF IInv

\* get_short_term_summary, with which a turn starts, keeps it.
LEMMA TurnStartInv ==
    ASSUME IInv, NEW kind \in {"simple", "plan"}, TurnStart(kind)
    PROVE  IInv'
<1>1. TypeOK /\ TurnOK /\ turn = NoTurn /\ Begin(kind, 1, len + 1)
  BY DEF IInv, TurnStart
<1>2. /\ len \in Nat /\ turns \in 0..MaxTurns /\ len <= turns * (MaxSteps + 2)
      /\ 1 \in 1..MaxIterations /\ MaxSteps \in Nat
  BY <1>1, InPlace, Constants DEF TypeOK
<1>3. /\ (turns + 1) * (MaxSteps + 2) = turns * (MaxSteps + 2) + MaxSteps + 2
      /\ turns * (MaxSteps + 2) \in Nat
  BY <1>2, Room
<1>4. \A l, r, s \in Nat : l <= r => l + 1 + 1 + s <= r + s + 2 /\ l < l + 1 /\ l + 1 \in Nat
  OBVIOUS
<1>5. len + 1 + 1 + MaxSteps <= (turns + 1) * (MaxSteps + 2) /\ len < len + 1 /\ len + 1 \in Nat
  BY <1>2, <1>3, <1>4
<1>6. ~Deciding /\ Reach = len + 1
  BY <1>1, EndsFacts DEF Deciding, NoTurn
<1>7. Reach <= len + 1
  BY <1>5, <1>6
<1> QED
  BY <1>1, <1>2, <1>5, <1>6, <1>7, BeginInv

\* So does another plan of the same turn.
LEMMA ReplanInv == ASSUME IInv, Replan PROVE IInv'
<1>1. /\ TypeOK /\ TurnOK /\ turn.pc = "finish" /\ turn.kind = "plan" /\ turn.plans < MaxIterations
      /\ Begin("plan", turn.plans + 1, len + turn.added)
  BY DEF IInv, Replan
<1>2. /\ len \in Nat /\ turns \in 0..MaxTurns /\ MaxSteps \in Nat /\ turn.added \in 1..MaxSteps
      /\ len + turn.added + 1 <= turns * (MaxSteps + 2)
  BY <1>1, Constants DEF TurnOK, TypeOK
<1>3. turn.plans \in 1..MaxIterations /\ MaxIterations \in Nat /\ turn.plans + 1 \in 1..MaxIterations
  BY <1>1, TurnFields, Constants
<1>4. /\ (turns + 1) * (MaxSteps + 2) = turns * (MaxSteps + 2) + MaxSteps + 2
      /\ turns * (MaxSteps + 2) \in Nat
  BY <1>2, Room
<1>5. \A l, r, s, k \in Nat : 1 <= k /\ l + k + 1 <= r =>
         l + k + 1 + s <= r + s + 2 /\ l < l + k /\ l + k \in Nat /\ l + k <= l + k
  OBVIOUS
<1>6. /\ len + turn.added + 1 + MaxSteps <= (turns + 1) * (MaxSteps + 2)
      /\ len < len + turn.added /\ len + turn.added \in Nat
  BY <1>2, <1>4, <1>5
<1>7. ~Deciding /\ Reach = len + turn.added + 0
  BY <1>1, EndsFacts DEF Deciding
<1>8. Reach <= len + turn.added
  BY <1>2, <1>7
<1> QED
  BY <1>1, <1>3, <1>6, <1>7, <1>8, BeginInv

\* So does a turn that touches no counter.
LEMMA UncountedTurnInv == ASSUME IInv, UncountedTurn PROVE IInv'
<1>1. /\ TypeOK /\ TurnOK /\ turn = NoTurn /\ turns < MaxTurns /\ turns' = turns + 1
      /\ turn' = NoTurn /\ UNCHANGED <<count, summary, idx, queue, clean, worker, faults>>
  BY DEF IInv, UncountedTurn, redis
<1>2. /\ len \in Nat /\ turns \in 0..MaxTurns /\ len <= turns * (MaxSteps + 2) /\ MaxSteps \in Nat
      /\ (turns + 1) * (MaxSteps + 2) = turns * (MaxSteps + 2) + MaxSteps + 2
      /\ turns * (MaxSteps + 2) \in Nat
  BY <1>1, InPlace, Room, Constants DEF TypeOK
<1>3. PICK n \in {len + 1, len + 2} : len' = n
  BY DEF UncountedTurn
<1>4. \A l, r, s \in Nat : l <= r => \A k \in {l + 1, l + 2} :
         k \in Nat /\ l <= k /\ k <= r + s + 2 /\ l + 1 <= k + 1 /\ k + 1 \in Nat
  OBVIOUS
<1>5. /\ n \in Nat /\ len <= n /\ n <= (turns + 1) * (MaxSteps + 2)
      /\ len + 1 <= n + 1 /\ n + 1 \in Nat
  BY <1>2, <1>3, <1>4
<1>6. turns' \in 0..MaxTurns /\ turns <= turns'
  BY <1>1, <1>2, Constants
<1>7. len' \in Nat /\ len <= len' /\ len' <= turns' * (MaxSteps + 2)
  BY <1>1, <1>3, <1>5
<1>8. Kept /\ (Counted' => IInv')
  BY <1>1, <1>6, <1>7, TurnOver
<1>9. Counted'
  <2>1. PICK r \in Nat : r = n + 1
    BY <1>5
  <2>2. PICK c \in Nat : c = count
    BY <1>1 DEF TypeOK
  <2>3. Seen(c, 0, r)'
    BY <1>1, <1>3, <2>1, <2>2 DEF Seen, Triggering, Reach, NoTurn
  <2>4. Reach <= r /\ c <= count + 0
    BY <1>1, <1>5, <2>1, <2>2, EndsFacts
  <2>5. faults' = faults /\ Triggering + 0 <= 0
    BY <1>1 DEF Triggering, NoTurn
  <2> QED
    BY <1>8, <2>3, <2>4, <2>5, CountedTurn
<1> QED
  BY <1>8, <1>9

\* So does the end of a turn, with the message of the reporter.
LEMMA TurnEndInv == ASSUME IInv, TurnEnd PROVE IInv'
<1>1. /\ TypeOK /\ TurnOK /\ turn.pc = "finish" /\ turn # NoTurn /\ turn.kind \in {"simple", "plan"}
      /\ turn.added \in Nat
      /\ len' = len + turn.added + (IF turn.kind = "plan" THEN 1 ELSE 0)
      /\ turn' = NoTurn /\ UNCHANGED <<count, summary, idx, queue, clean, worker, turns, faults>>
  BY TurnFields DEF IInv, TurnEnd, redis
<1>2. /\ len \in Nat /\ turns \in 0..MaxTurns
      /\ len + turn.added + (IF turn.kind = "plan" THEN 1 ELSE 0) <= turns * (MaxSteps + 2)
  BY <1>1 DEF TurnOK, TypeOK
<1>3. PICK n \in Nat : /\ n = len + turn.added + (IF turn.kind = "plan" THEN 1 ELSE 0)
                       /\ len <= n
                       /\ len + turn.added + (IF turn.kind = "simple" THEN 1 ELSE 0) <= n + 1
  BY <1>1, <1>2
<1>4. len' \in Nat /\ len <= len' /\ len' <= turns' * (MaxSteps + 2)
  BY <1>1, <1>2, <1>3
<1>5. turns' \in 0..MaxTurns /\ turns <= turns'
  BY <1>1, <1>2
<1>6. Kept /\ (Counted' => IInv')
  BY <1>1, <1>4, <1>5, TurnOver
<1>7. Counted'
  <2>1. PICK r \in Nat : r = n + 1
    OBVIOUS
  <2>2. PICK c \in Nat : c = count
    BY <1>1 DEF TypeOK
  <2>3. Seen(c, 0, r)'
    BY <1>1, <1>3, <2>1, <2>2 DEF Seen, Triggering, Reach, NoTurn
  <2>4. Reach <= r /\ c <= count + 0
    BY <1>1, <1>3, <2>1, <2>2, EndsFacts
  <2>5. faults' = faults /\ Triggering + 0 <= 0
    BY <1>1 DEF Triggering
  <2> QED
    BY <1>6, <2>3, <2>4, <2>5, CountedTurn
<1> QED
  BY <1>6, <1>7

\* A turn is cut short.  What its reply would have added to the thread is made
\* up for by what a fault allows.
LEMMA CutInv ==
    ASSUME IInv, turn # NoTurn, turn' = NoTurn, faults' = faults + 1, faults < MaxFaults,
           UNCHANGED <<len, count, summary, idx, queue, turns, clean>>,
           worker' = worker \/ worker' = [w \in Workers |-> NoWork]
    PROVE  IInv'
<1>1. /\ TypeOK /\ TurnOK /\ LeadOK /\ len \in Nat /\ turns \in 0..MaxTurns
      /\ len' \in Nat /\ len <= len' /\ turns' \in 0..MaxTurns /\ turns <= turns'
  BY DEF IInv, TypeOK
<1>2. len' <= turns' * (MaxSteps + 2)
  BY <1>1, InPlace
<1>3. Kept /\ (Counted' => IInv')
  BY <1>1, <1>2, TurnOver
<1>4. PICK c \in Nat : c = count
  BY <1>1 DEF TypeOK
<1>5. PICK r \in Nat : r = len + 1
  BY <1>1
<1>6. Seen(c, 0, r)'
  BY <1>4, <1>5 DEF Seen, Triggering, Reach, NoTurn
<1>7. CASE Deciding
  <2>1. Reach <= r /\ c <= count + 0
    BY <1>1, <1>4, <1>5, <1>7, EndsFacts
  <2>2. faults' = faults + 1 /\ Triggering + 0 <= 0 + 1
    BY DEF Triggering
  <2>3. Counted'
    BY <1>3, <1>6, <2>1, <2>2, CountedTurn
  <2> QED
    BY <1>3, <2>3
<1>8. CASE ~Deciding
  <2>1. PICK a \in Nat : a = Allowed' /\ a = Allowed + Lead
    BY AllowedAfter
  <2>2. PICK k \in Nat : k = Cardinality(Due)' /\ Cardinality(Due) <= k
    BY <1>3 DEF Kept
  <2>3. /\ Allowed \in Nat /\ Cardinality(Due) \in Nat /\ Ends \subseteq Nat /\ Lead \in Nat
        /\ Within(count, Allowed, Cardinality(Due), Triggering, Reach, Ends)
        /\ COMPRESS_THRESHOLD \in Nat /\ KEEP_FRESH_MESSAGES \in Nat
    BY Numbers, Constants
  <2>4. Triggering = 0
    BY <1>8 DEF Triggering, Deciding
  <2>5. c < COMPRESS_THRESHOLD + Allowed + Cardinality(Due) + 0
    BY <1>4, <2>3, <2>4 DEF Within
  <2>6. ASSUME NEW e \in Ends PROVE e \in Nat /\ e + KEEP_FRESH_MESSAGES <= len + 1 + Lead
    BY <1>1, <2>3 DEF LeadOK, Led
  <2>7. Within(c, a, k, 0, r, Ends)
    <3>1. Cardinality(Due) <= k /\ a = Allowed + Lead
      BY <2>1, <2>2
    <3>2. c < COMPRESS_THRESHOLD + a + k + 0
      BY <2>3, <2>5, <3>1
    <3>3. ASSUME NEW e \in Ends
          PROVE  /\ e + KEEP_FRESH_MESSAGES - r <= a
                 /\ c + (e + KEEP_FRESH_MESSAGES - r) < COMPRESS_THRESHOLD + a + k + 0
      <4>1. e \in Nat /\ e + KEEP_FRESH_MESSAGES <= r + Lead
        BY <1>5, <2>6
      <4> QED
        BY <2>3, <2>5, <3>1, <4>1
    <3> QED
      BY <3>2, <3>3 DEF Within
  <2>8. After(c, a, k, 0, r)'
    BY <1>6, <2>1, <2>2 DEF After, Seen
  <2>9. Ends' = Ends
    BY <1>3 DEF Kept
  <2> QED
    BY <1>3, <2>7, <2>8, <2>9, CountedAfter
<1> QED
  BY <1>7, <1>8

(***************************************************************************)
(* The decision on a compression.                                          *)
(***************************************************************************)

\* What the publication of a compression starts from and leaves alone.
LEMMA TriggerFacts ==
    ASSUME IInv, Trigger
    PROVE  /\ turn.pc = "trigger" /\ Deciding /\ turn # NoTurn /\ turn \in ActiveTurn
           /\ turn' = [turn EXCEPT !.pc = "finish"] /\ turn' \in ActiveTurn
           /\ turn'.pc = "finish" /\ turn'.old = turn.old /\ turn'.added = turn.added
           /\ turn'.kind = turn.kind /\ turn'.total = turn.total
           /\ UNCHANGED <<len, count, summary, idx, worker, turns, clean>>
           /\ TurnOK'
           /\ len \in Nat /\ count \in Nat /\ turn.total \in Nat
           /\ len < turn.total /\ turn.total <= len + 1 + Lead
           /\ turn.total < len + KEEP_FRESH_MESSAGES + 1
           /\ Reach = len /\ Triggering = 1
           /\ KEEP_FRESH_MESSAGES <= count /\ count <= len
           /\ turns \in 1..MaxTurns
<1>1. /\ TypeOK /\ TurnOK /\ CountOK /\ turn.pc = "trigger" /\ turn # NoTurn /\ Deciding
      /\ turn \in ActiveTurn /\ turn.kind \in {"simple", "plan"} /\ turn.added \in Nat
      /\ UNCHANGED <<len, count, summary, idx, worker, turns, clean>>
      /\ turn' = [turn EXCEPT !.pc = "finish"]
  BY TurnFields DEF IInv, Trigger, redis, Deciding
<1>2. /\ turn' \in ActiveTurn /\ turn'.pc = "finish" /\ turn'.old = turn.old
      /\ turn'.added = turn.added /\ turn'.kind = turn.kind /\ turn'.total = turn.total
  BY <1>1 DEF ActiveTurn
<1>3. turn' # NoTurn
  BY <1>2 DEF NoTurn
<1>4. TurnOK'
  BY <1>1, <1>2, <1>3 DEF TurnOK, Span
<1>5. /\ len \in Nat /\ count \in Nat /\ turn.total \in Nat /\ Lead \in Nat /\ 1 <= Lead
      /\ MaxSteps \in Nat /\ KEEP_FRESH_MESSAGES \in Nat
      /\ MaxSteps < KEEP_FRESH_MESSAGES /\ 2 <= KEEP_FRESH_MESSAGES /\ MaxSteps <= Lead + 1
  BY <1>1, TurnFields, Constants DEF TypeOK
<1>6. \/ turn.total = len + 2
      \/ turn.added \in 1..MaxSteps /\ turn.total = len + turn.added
  BY <1>1 DEF TurnOK
<1>7. /\ len < turn.total /\ turn.total <= len + 1 + Lead
      /\ turn.total < len + KEEP_FRESH_MESSAGES + 1
  <2>1. CASE turn.total = len + 2
    BY <1>5, <2>1
  <2>2. CASE turn.added \in 1..MaxSteps /\ turn.total = len + turn.added
    BY <1>5, <2>2
  <2> QED
    BY <1>6, <2>1, <2>2
<1>8. Reach = len /\ Triggering = 1
  BY <1>1, EndsFacts DEF Triggering
<1>9. count <= len /\ count >= KEEP_FRESH_MESSAGES
  BY <1>1 DEF CountOK, Compressible
<1>10. turns \in 1..MaxTurns
  BY <1>1, Constants DEF TurnOK, TypeOK
<1> QED
  BY <1>1, <1>2, <1>4, <1>5, <1>7, <1>8, <1>9, <1>10

\* The list passed on is as long as the thread will be.
LEMMA TriggerReach ==
    ASSUME IInv, Trigger, NEW r, r = turn.total, NEW c, c = count
    PROVE  Seen(c, 0, r)'
<1>1. TurnOK /\ turn.pc = "trigger" /\ turn.kind \in {"simple", "plan"} /\ len \in Nat
  BY TriggerFacts, TurnFields DEF IInv
<1>2. turn.total = len + turn.added + (IF turn.kind = "simple" THEN 1 ELSE 0)
  BY <1>1 DEF TurnOK
<1>3. turn' # NoTurn
  BY TriggerFacts DEF NoTurn
<1> QED
  BY <1>2, <1>3, TriggerFacts DEF Seen, Triggering, Reach

\* No task is sent: there is nothing to compress, or a fault.
LEMMA NoTaskInv ==
    ASSUME IInv, Trigger, queue' = queue,
           \/ faults' = faults /\ CompressEnd(turn.total) <= idx
           \/ faults' = faults + 1 /\ faults < MaxFaults
    PROVE  IInv'
<1>1. TypeOK /\ CountOK /\ turn # NoTurn
  BY TriggerFacts DEF IInv
<1>2. ~Deciding'
  BY TriggerFacts DEF Deciding
<1>3. Kept /\ (/\ count' \in Nat
               /\ \/ faults' = faults
                  \/ faults' = faults + 1 /\ faults < MaxFaults
               /\ TurnOK' /\ CountOK' /\ Counted'
               => IInv')
  BY <1>2, TriggerFacts, TurnOn
<1>4. CountOK'
  <2>1. count' <= len' /\ count' >= KEEP_FRESH_MESSAGES
    BY TriggerFacts, Constants
  <2> QED
    BY <1>2, <2>1 DEF CountOK
<1>5. PICK c \in Nat : c = count
  BY TriggerFacts
<1>6. PICK r \in Nat : r = turn.total
  BY TriggerFacts
<1>7. Seen(c, 0, r)'
  BY <1>5, <1>6, TriggerReach
<1>8. Reach <= r /\ c <= count + 0 /\ Triggering = 1
  BY <1>5, <1>6, TriggerFacts
<1>9. Kept
  BY <1>3
<1>10. CASE faults' = faults + 1
  <2>1. faults' = faults + 1 /\ Triggering + 0 <= 0 + 1
    BY <1>8, <1>10
  <2>2. Counted'
    BY <1>7, <1>8, <1>9, <2>1, CountedTurn
  <2> QED
    BY <1>1, <1>3, <1>4, <2>2, TriggerFacts
<1>11. CASE faults' = faults /\ CompressEnd(turn.total) <= idx
  <2>1. PICK a \in Nat : a = Allowed' /\ a = Allowed
    BY <1>11, AllowedAfter
  <2>2. PICK k \in Nat : k = Cardinality(Due)' /\ Cardinality(Due) <= k
    BY <1>9 DEF Kept
  <2>3. /\ Allowed \in Nat /\ Cardinality(Due) \in Nat /\ Ends \subseteq Nat /\ Lead \in Nat
        /\ Within(count, Allowed, Cardinality(Due), 1, len, Ends)
        /\ COMPRESS_THRESHOLD \in Nat /\ KEEP_FRESH_MESSAGES \in Nat
        /\ len \in Nat /\ len < r /\ idx \in Nat /\ KEEP_FRESH_MESSAGES <= len
    <3>1. Triggering = 1 /\ Reach = len
      BY TriggerFacts
    <3>2. KEEP_FRESH_MESSAGES <= len /\ len \in Nat /\ len < r
      BY <1>6, TriggerFacts, Constants
    <3> QED
      BY <1>1, <3>1, <3>2, Numbers, Constants DEF TypeOK
  <2>4. r <= idx + KEEP_FRESH_MESSAGES
    BY <1>6, <1>11, <2>3 DEF CompressEnd
  <2>5. idx \in Ends
    <3>1. idx # 0
      BY <2>3, <2>4
    <3> QED
      BY <3>1 DEF Ends
  <2>6. Cardinality(Due) <= k /\ a = Allowed
    BY <2>1, <2>2
  <2>7. Within(c, a, k, 0, r, Ends)
    <3>1. c + (idx + KEEP_FRESH_MESSAGES - len) < COMPRESS_THRESHOLD + Allowed + Cardinality(Due) + 1
      BY <1>5, <2>3, <2>5 DEF Within
    <3>2. c < COMPRESS_THRESHOLD + a + k + 0
      BY <2>3, <2>4, <2>6, <3>1
    <3>3. ASSUME NEW e \in Ends
          PROVE  /\ e + KEEP_FRESH_MESSAGES - r <= a
                 /\ c + (e + KEEP_FRESH_MESSAGES - r) < COMPRESS_THRESHOLD + a + k + 0
      <4>1. /\ e + KEEP_FRESH_MESSAGES - len <= Allowed
            /\ c + (e + KEEP_FRESH_MESSAGES - len) < COMPRESS_THRESHOLD + Allowed + Cardinality(Due) + 1
            /\ e \in Nat
        BY <1>5, <2>3 DEF Within
      <4> QED
        BY <2>3, <2>6, <4>1
    <3> QED
      BY <3>2, <3>3 DEF Within
  <2>8. After(c, a, k, 0, r)'
    BY <1>7, <2>1, <2>2 DEF After, Seen
  <2>9. Ends' = Ends
    BY <1>9 DEF Kept
  <2>10. Counted'
    BY <2>7, <2>8, <2>9, CountedAfter
  <2> QED
    BY <1>1, <1>3, <1>4, <1>11, <2>10, TriggerFacts
<1> QED
  BY <1>10, <1>11

\* A task is sent: what it will compress is in the thread, and the counter will
\* be reset for it.
LEMMA PublishInv ==
    ASSUME IInv, Trigger, NEW last \in {idx, 0},
           WorthCompressing(CompressEnd(turn.total), last),
           queue' = queue \union {[by |-> turns, old |-> turn.old, start |-> last,
                                   end |-> CompressEnd(turn.total), total |-> turn.total]},
           \/ faults' = faults
           \/ faults' = faults + 1 /\ faults < MaxFaults
    PROVE  IInv'
<1> DEFINE end == CompressEnd(turn.total)
<1>1. /\ TypeOK /\ TurnOK /\ TasksOK /\ Existing /\ CountOK /\ LeadOK /\ Covered
      /\ turn # NoTurn /\ idx \in Nat /\ turn.old \subseteq Positions
      /\ faults \in 0..MaxFaults /\ ~Deciding'
  BY TriggerFacts, TurnFields DEF IInv, TypeOK, Deciding
<1>2. /\ end \in Nat /\ last \in Nat /\ end >= 1 /\ end <= len
      /\ end + KEEP_FRESH_MESSAGES = turn.total
  <2>1. turn.total \in Nat /\ len \in Nat /\ turn.total < len + KEEP_FRESH_MESSAGES + 1
    BY TriggerFacts
  <2>2. KEEP_FRESH_MESSAGES \in Nat /\ last \in Nat
    BY <1>1, Constants
  <2>3. turn.total - KEEP_FRESH_MESSAGES > last
    BY DEF WorthCompressing, CompressEnd
  <2> QED
    BY <2>1, <2>2, <2>3 DEF CompressEnd
<1>3. PICK job \in Job :
         /\ job = [by |-> turns, old |-> turn.old, start |-> last, end |-> end, total |-> turn.total]
         /\ job.by = turns /\ job.old = turn.old /\ job.start = last /\ job.end = end
  <2> HIDE DEF end
  <2> DEFINE job == [by |-> turns, old |-> turn.old, start |-> last, end |-> end,
                     total |-> turn.total]
  <2>1. turns \in 1..MaxTurns /\ turn.total \in Nat
    BY TriggerFacts
  <2>2. job \in Job
    BY <1>1, <1>2, <2>1 DEF Job
  <2>3. job.by = turns /\ job.old = turn.old /\ job.start = last /\ job.end = end
    OBVIOUS
  <2> HIDE DEF job
  <2>4. job = [by |-> turns, old |-> turn.old, start |-> last, end |-> end,
               total |-> turn.total]
    BY DEF job
  <2> QED
    BY <2>2, <2>3, <2>4
<1> HIDE DEF end
<1>4. queue' = queue \union {job}
  BY <1>3 DEF end
<1>5. job \notin queue
  BY <1>3, TriggerFacts, <1>1 DEF TasksOK
<1>6. TypeOK'
  <2>1. turn' \in Turn /\ queue' \subseteq Job
    BY <1>1, <1>4, TriggerFacts DEF TypeOK, Turn, ActiveTurn
  <2>2. faults' \in 0..MaxFaults
    BY <1>1, Constants
  <2> QED
    BY <1>1, <2>1, <2>2, TriggerFacts DEF TypeOK
<1>7. \A w \in Workers : Working(w)' <=> Working(w)
  BY TriggerFacts DEF Working
<1>8. TasksOK'
  <2>1. IsFiniteSet(queue')
    BY <1>1, <1>4, FS_AddElement DEF TasksOK
  <2>2. \A j \in queue' : j.by <= turns
    BY <1>1, <1>3, <1>4, TriggerFacts DEF TasksOK
  <2> QED
    BY <1>1, <1>4, <1>7, <2>1, <2>2, TriggerFacts DEF TasksOK
<1>9. Existing'
  <2>1. turn.old \subseteq Span(0, len)
    BY <1>1 DEF TurnOK
  <2>2. SummaryOfExisting'
    BY <1>1, <1>2, <1>3, <1>4, <2>1, TriggerFacts DEF Existing, SummaryOfExisting, Span
  <2> QED
    BY <1>1, <1>7, <2>2, TriggerFacts DEF Existing, Span
<1>10. CountOK'
  <2>1. count' <= len' /\ count' >= KEEP_FRESH_MESSAGES
    BY TriggerFacts, Constants
  <2> QED
    BY <1>1, <2>1 DEF CountOK
<1>11. PICK E : /\ E = Ends' /\ E = Ends \union {end} /\ E \subseteq Nat
  <2>1. Ends' = Ends \union {end}
    BY <1>3, <1>4, TriggerFacts DEF Ends
  <2> QED
    BY <1>1, <1>2, <2>1, EndsFacts
<1>12. LeadOK'
  <2>1. Led(Ends, len + 1)
    BY <1>1 DEF LeadOK
  <2>2. end + KEEP_FRESH_MESSAGES <= len + 1 + Lead
    BY <1>2, TriggerFacts
  <2>3. Led(E, len + 1)
    BY <1>11, <2>1, <2>2 DEF Led
  <2>4. (len + 1)' = len + 1
    BY TriggerFacts
  <2>5. Led(E, len + 1)' <=> Led(E, len + 1)
    BY <2>4 DEF Led, Lead
  <2> QED
    BY <1>1, <1>11, <2>3, <2>5 DEF LeadOK
<1>13. PICK k \in Nat : k = Cardinality(Due)' /\ k = Cardinality(Due) + 1
  <2>1. \A w \in Workers : Working(w) => worker[w].job # job
    BY <1>1, <1>5 DEF TasksOK
  <2>2. Due' = Due \union {job} /\ job \notin Due
    BY <1>4, <1>5, <1>7, <2>1, TriggerFacts DEF Due
  <2>3. IsFiniteSet(Due) /\ Cardinality(Due) \in Nat
    BY <1>1, DueFacts
  <2>4. Cardinality(Due \union {job}) = Cardinality(Due) + 1
    BY <2>2, <2>3, FS_AddElement
  <2> QED
    BY <2>2, <2>3, <2>4
<1>14. Counted'
  <2>1. PICK a \in Nat : a = Allowed' /\ Allowed <= a
    BY AllowedAfter
  <2>2. PICK c \in Nat : c = count
    BY TriggerFacts
  <2>3. PICK r \in Nat : r = turn.total
    BY TriggerFacts
  <2>4. /\ Allowed \in Nat /\ Cardinality(Due) \in Nat /\ Ends \subseteq Nat
        /\ Within(c, Allowed, Cardinality(Due), 1, len, Ends)
        /\ COMPRESS_THRESHOLD \in Nat /\ KEEP_FRESH_MESSAGES \in Nat
        /\ len \in Nat /\ len <= r /\ end \in Nat /\ end + KEEP_FRESH_MESSAGES = r
    <3>1. Triggering = 1 /\ Reach = len /\ len \in Nat /\ len <= r
      BY <2>3, TriggerFacts
    <3> QED
      BY <1>2, <2>2, <2>3, <3>1, Numbers, Constants
  <2>5. Allowed <= a /\ k = Cardinality(Due) + 1
    BY <1>13, <2>1
  <2>6. c < COMPRESS_THRESHOLD + a + k + 0
    BY <2>4, <2>5 DEF Within
  <2>7. ASSUME NEW e \in E
        PROVE  /\ e + KEEP_FRESH_MESSAGES - r <= a
               /\ c + (e + KEEP_FRESH_MESSAGES - r) < COMPRESS_THRESHOLD + a + k + 0
    <3>1. CASE e \in Ends
      <4>1. /\ e + KEEP_FRESH_MESSAGES - len <= Allowed
            /\ c + (e + KEEP_FRESH_MESSAGES - len) < COMPRESS_THRESHOLD + Allowed + Cardinality(Due) + 1
            /\ e \in Nat
        BY <2>4, <3>1 DEF Within
      <4> QED
        BY <2>4, <2>5, <4>1
    <3>2. CASE e = end
      <4>1. e \in Nat /\ e + KEEP_FRESH_MESSAGES = r
        BY <2>4, <3>2
      <4> QED
        BY <2>4, <2>5, <2>6, <4>1
    <3> QED
      BY <1>11, <3>1, <3>2
  <2>8. Within(c, a, k, 0, r, E)
    BY <2>6, <2>7 DEF Within
  <2>9. Seen(c, 0, r)'
    BY <2>2, <2>3, TriggerReach
  <2>10. After(c, a, k, 0, r)'
    BY <1>13, <2>1, <2>9 DEF After, Seen
  <2> QED
    BY <1>11, <2>8, <2>10, CountedAfter
<1>15. Covered'
  <2> SUFFICES ASSUME clean'
               PROVE  Covered'
    BY DEF Covered
  <2>1. /\ clean /\ queue = {} /\ turn.old = summary /\ SummaryCoversIdx
    BY <1>1, TriggerFacts DEF Covered
  <2>2. \A w \in Workers : ~Working(w) /\ ~Working(w)'
    BY <1>1, <1>7, <2>1 DEF TasksOK
  <2>3. queue' = {job} /\ job.old = summary
    BY <1>3, <1>4, <2>1
  <2>4. Span(0, job.start) \subseteq job.old
    BY <1>3, <2>1, <2>3 DEF Span, SummaryCoversIdx
  <2>5. SummaryCoversIdx'
    BY <2>1, TriggerFacts DEF SummaryCoversIdx, Span
  <2>6. Span(0, idx) \subseteq summary
    BY <2>1 DEF SummaryCoversIdx
  <2>7. \A j \in queue' :
              /\ Span(0, j.start) \subseteq j.old
              /\ j.old \subseteq summary'
              /\ Span(0, idx') \subseteq j.old \union Span(j.start, j.end)
    BY <2>3, <2>4, <2>6, TriggerFacts
  <2>8. \A w \in Workers : ~(worker'[w].pc \in {"set_count", "set_idx"})
    BY <2>2 DEF Working
  <2> QED
    BY <1>1, <2>2, <2>3, <2>5, <2>7, <2>8 DEF Covered, Span
<1> QED
  BY <1>6, <1>8, <1>9, <1>10, <1>12, <1>14, <1>15, TriggerFacts DEF IInv

\* increment_and_check_compress keeps the invariant, below the threshold, published or refused.
LEMMA TriggerInv == ASSUME IInv, Trigger PROVE IInv'
<1>1. PICK last \in {idx, 0} :
        \/ /\ WorthCompressing(CompressEnd(turn.total), last)
           /\ ReadsOrDefault(idx, 0, last)
           /\ queue' = queue \union {[by |-> turns, old |-> turn.old, start |-> last,
                                   end |-> CompressEnd(turn.total), total |-> turn.total]}
        \/ /\ WorthCompressing(CompressEnd(turn.total), last)
           /\ last = idx
           /\ Fault("publish")
           /\ queue' = queue
        \/ /\ ~WorthCompressing(CompressEnd(turn.total), last)
           /\ ReadsOrDefault(idx, 0, last)
           /\ queue' = queue
  BY DEF Trigger
<1>2. /\ ReadsOrDefault(idx, 0, last) =>
            \/ faults' = faults /\ last = idx
            \/ faults' = faults + 1 /\ faults < MaxFaults
      /\ Fault("publish") => faults' = faults + 1 /\ faults < MaxFaults
  BY DEF ReadsOrDefault, NoFault, Fault
<1>3. CASE /\ WorthCompressing(CompressEnd(turn.total), last)
           /\ ReadsOrDefault(idx, 0, last)
           /\ queue' = queue \union {[by |-> turns, old |-> turn.old, start |-> last,
                                   end |-> CompressEnd(turn.total), total |-> turn.total]}
  BY <1>2, <1>3, PublishInv
<1>4. CASE Fault("publish") /\ queue' = queue
  BY <1>2, <1>4, NoTaskInv
<1>5. CASE /\ ~WorthCompressing(CompressEnd(turn.total), last)
           /\ ReadsOrDefault(idx, 0, last)
           /\ queue' = queue
  <2>1. CompressEnd(turn.total) \in Int /\ idx \in Nat
    BY TriggerFacts, Constants DEF CompressEnd, IInv, TypeOK
  <2>2. last = idx => CompressEnd(turn.total) <= idx
    BY <1>5, <2>1 DEF WorthCompressing
  <2> QED
    BY <1>2, <1>5, <2>2, NoTaskInv
<1> QED
  BY <1>1, <1>3, <1>4, <1>5

(***************************************************************************)
(* The steps of a compression task.                                        *)
(***************************************************************************)

\* A consumer goes on with its task.
Moves(w, pc, text) ==
    /\ worker' \in [Workers -> Work]
    /\ worker'[w].pc = pc /\ worker'[w].job = worker[w].job /\ worker'[w].text = text
    /\ \A v \in Workers \ {w} : worker'[v] = worker[v]

\* A handler that goes on, with or without a new summary, moves alone.
LEMMA MovesFacts ==
    ASSUME TypeOK, NEW w \in Workers, Working(w), NEW text \in SUBSET Positions,
           NEW pc \in {"summarise", "set_summary", "set_count", "set_idx", "ack"}
    PROVE  /\ worker' = [worker EXCEPT ![w].pc = pc, ![w].text = text] => Moves(w, pc, text)
           /\ worker' = [worker EXCEPT ![w].pc = pc] => Moves(w, pc, worker[w].text)
<1>1. worker \in [Workers -> Work] /\ worker[w] \in ActiveWork
  BY WorkFields DEF TypeOK
<1>2. ASSUME worker' = [worker EXCEPT ![w].pc = pc]
      PROVE  Moves(w, pc, worker[w].text)
  <2> DEFINE r == [worker[w] EXCEPT !.pc = pc]
  <2>1. r \in ActiveWork /\ r.pc = pc /\ r.job = worker[w].job /\ r.text = worker[w].text
    BY <1>1 DEF ActiveWork
  <2>2. worker' = [worker EXCEPT ![w] = r]
    BY <1>2
  <2> HIDE DEF r
  <2>3. r \in Work
    BY <2>1 DEF ActiveWork, Work
  <2> QED
    BY <1>1, <2>1, <2>2, <2>3 DEF Moves
<1>3. ASSUME worker' = [worker EXCEPT ![w].pc = pc, ![w].text = text]
      PROVE  Moves(w, pc, text)
  <2> DEFINE q == [worker[w] EXCEPT !.pc = pc]
             r == [q EXCEPT !.text = text]
  <2>1. q \in ActiveWork /\ q.pc = pc /\ q.job = worker[w].job
    BY <1>1 DEF ActiveWork
  <2>2. worker' = [worker EXCEPT ![w] = r]
    BY <1>1, <1>3
  <2> HIDE DEF q
  <2>3. r \in ActiveWork /\ r.pc = pc /\ r.job = worker[w].job /\ r.text = text
    BY <2>1 DEF ActiveWork
  <2> HIDE DEF r
  <2>4. r \in Work
    BY <2>3 DEF ActiveWork, Work
  <2> QED
    BY <1>1, <2>2, <2>3, <2>4 DEF Moves
<1> QED
  BY <1>2, <1>3

\* A span of messages splits at any place.
LEMMA SpanSplit ==
    ASSUME NEW m \in Nat, NEW n \in Nat
    PROVE  /\ Span(0, n) \subseteq Span(0, m) \union Span(m, n)
           /\ Span(m, n) \subseteq Span(0, n)
  BY DEF Span

\* The numbers, after a step of a task that may have lost its reset.
LEMMA CountedWork ==
    ASSUME IInv, UNCHANGED <<len, turn>>, queue' \subseteq queue, Ends' \subseteq Ends,
           count' \in Nat, count' <= count, NEW job, Due \ {job} \subseteq Due',
           \/ faults' = faults /\ (Due \subseteq Due' \/ count' < COMPRESS_THRESHOLD)
           \/ faults' = faults + 1
    PROVE  Counted'
<1>1. TypeOK /\ TasksOK
  BY DEF IInv
<1>2. PICK a \in Nat : /\ a = Allowed'
                       /\ Allowed <= a
                       /\ faults' = faults => a = Allowed
                       /\ faults' = faults + 1 => a = Allowed + Lead
  BY AllowedAfter
<1>3. PICK k \in Nat : /\ k = Cardinality(Due)'
                       /\ Cardinality(Due) <= k + 1
                       /\ Due \subseteq Due' => Cardinality(Due) <= k
  BY <1>1, DueLoses
<1>4. PICK c \in Nat : c = count'
  OBVIOUS
<1>5. PICK t \in Nat : t = Triggering
  BY Numbers
<1>6. PICK r \in Nat : r = Reach
  BY Numbers
<1>7. PICK E : E = Ends' /\ E \subseteq Ends
  OBVIOUS
<1>8. /\ count \in Nat /\ Allowed \in Nat /\ Cardinality(Due) \in Nat /\ Ends \subseteq Nat
      /\ Within(count, Allowed, Cardinality(Due), t, r, Ends)
      /\ Lead \in Nat /\ 1 <= Lead /\ COMPRESS_THRESHOLD \in Nat /\ KEEP_FRESH_MESSAGES \in Nat
  BY <1>5, <1>6, Numbers, Constants
<1>9. c <= count /\ Allowed <= a /\ Cardinality(Due) <= k + 1
  BY <1>2, <1>3, <1>4
<1>10. Within(c, a, k, t, r, E)
  <2>1. CASE Due \subseteq Due' \/ faults' = faults + 1
    <3>1. Cardinality(Due) <= k \/ a = Allowed + Lead
      BY <1>2, <1>3, <2>1
    <3>2. Allowed + Cardinality(Due) <= a + k
      BY <1>8, <1>9, <3>1
    <3>3. Allowed + Cardinality(Due) + t + 0 <= a + k + t /\ c <= count + 0 /\ r <= r
      BY <1>8, <1>9, <3>2
    <3> QED
      BY <1>7, <1>8, <1>9, <3>3, WithinFrame
  <2>2. CASE faults' = faults /\ count' < COMPRESS_THRESHOLD
    <3>1. a = Allowed /\ c < COMPRESS_THRESHOLD
      BY <1>2, <1>4, <2>2
    <3>2. c < COMPRESS_THRESHOLD + a + k + t
      BY <1>8, <3>1
    <3>3. ASSUME NEW e \in E
          PROVE  /\ e + KEEP_FRESH_MESSAGES - r <= a
                 /\ c + (e + KEEP_FRESH_MESSAGES - r) < COMPRESS_THRESHOLD + a + k + t
      <4>1. e + KEEP_FRESH_MESSAGES - r <= Allowed /\ e \in Nat
        BY <1>7, <1>8 DEF Within
      <4> QED
        BY <1>8, <3>1, <4>1
    <3> QED
      BY <3>2, <3>3 DEF Within
  <2> QED
    BY <2>1, <2>2
<1>11. After(c, a, k, t, r)'
  <2>1. Triggering' = Triggering /\ Reach' = Reach
    BY DEF Triggering, Reach
  <2> QED
    BY <1>2, <1>3, <1>4, <1>5, <1>6, <2>1 DEF After
<1> QED
  BY <1>7, <1>10, <1>11, CountedAfter

\* A handler that goes on leaves the resets of the other tasks due.
LEMMA DueMoves ==
    ASSUME TypeOK, TasksOK, NEW w \in Workers, Working(w), NEW pc, NEW text, Moves(w, pc, text),
           pc # "idle", queue' = queue
    PROVE  /\ Due \ {worker[w].job} \subseteq Due'
           /\ pc \in {"summarise", "set_summary", "set_count"} => Due \subseteq Due'
           /\ worker[w].pc \notin {"summarise", "set_summary", "set_count"} => Due \subseteq Due'
<1>1. /\ Working(w)' /\ worker'[w].job = worker[w].job /\ worker'[w].pc = pc
      /\ \A v \in Workers \ {w} : worker'[v] = worker[v] /\ (Working(v)' <=> Working(v))
  BY DEF Moves, Working
<1>2. Due \ {worker[w].job} \subseteq Due'
  BY <1>1 DEF Due
<1>3. CASE pc \in {"summarise", "set_summary", "set_count"}
  BY <1>1, <1>2, <1>3 DEF Due
<1>4. CASE worker[w].pc \notin {"summarise", "set_summary", "set_count"}
  <2>1. worker[w].job \notin Due
    BY <1>4 DEF Due
  <2> QED
    BY <1>2, <2>1
<1> QED
  BY <1>2, <1>3, <1>4

\* What all steps of a task leave right.
LEMMA WorkFrame ==
    ASSUME IInv, NEW w \in Workers, Working(w), NEW pc, pc # "idle",
           NEW text \in SUBSET Span(0, len),
           Moves(w, pc, text), UNCHANGED <<len, turn, turns, queue>>,
           summary' \in {summary, text}, count' \in {count, KEEP_FRESH_MESSAGES},
           idx' \in {idx, worker[w].job.end}, clean' \in BOOLEAN,
           \/ faults' = faults
           \/ faults' = faults + 1 /\ faults < MaxFaults
    PROVE  /\ TypeOK' /\ TurnOK' /\ TasksOK' /\ Existing' /\ CountOK' /\ LeadOK'
           /\ Ends' \subseteq Ends /\ count' \in Nat /\ count' <= count
<1> DEFINE job == worker[w].job
<1>1. /\ TypeOK /\ TurnOK /\ TasksOK /\ Existing /\ CountOK /\ LeadOK
      /\ job \in queue /\ job \in Job
  BY WorkFields DEF IInv, TasksOK
<1>2. /\ job.end \in Nat /\ job.end <= len /\ len \in Nat /\ count \in Nat
      /\ KEEP_FRESH_MESSAGES \in Nat /\ Span(0, len) \subseteq Positions
  BY <1>1, JobFields, InPlace, Constants DEF Existing, SummaryOfExisting, TypeOK
<1> HIDE DEF job
<1>3. idx' \in Nat /\ idx' <= len
  BY <1>1, <1>2 DEF job, Existing, SummaryOfExisting, TypeOK
<1>4. count' \in Nat /\ count' <= count
  <2>1. KEEP_FRESH_MESSAGES <= count
    BY <1>1, <1>2 DEF CountOK, Compressible
  <2> QED
    BY <1>2, <2>1
<1>5. summary' \subseteq Span(0, len) /\ summary' \subseteq Positions
  BY <1>1, <1>2 DEF Existing, SummaryOfExisting
<1>6. faults' \in 0..MaxFaults
  BY <1>1, Constants DEF TypeOK
<1>7. TypeOK'
  BY <1>1, <1>3, <1>4, <1>5, <1>6 DEF TypeOK, Moves
<1>8. TurnOK'
  BY <1>1 DEF TurnOK, Span
<1>9. /\ worker'[w].job = job /\ Working(w)' /\ worker'[w].text = text
      /\ \A v \in Workers \ {w} : worker'[v] = worker[v] /\ (Working(v)' <=> Working(v))
  BY DEF Moves, Working, job
<1>10. TasksOK'
  <2>1. \A v \in Workers : Working(v)' => Working(v) /\ worker'[v].job = worker[v].job
    BY <1>9 DEF job
  <2>2. Deciding' <=> Deciding
    BY DEF Deciding
  <2>3. \A v \in Workers : Working(v)' => worker'[v].job \in queue'
    BY <1>1, <2>1 DEF TasksOK
  <2>4. \A u, v \in Workers :
          Working(u)' /\ Working(v)' /\ worker'[u].job = worker'[v].job => u = v
    BY <1>1, <2>1 DEF TasksOK
  <2>5. \A j \in queue' : j.by <= turns' /\ (Deciding' => j.by < turns')
    BY <1>1, <2>2 DEF TasksOK
  <2> QED
    BY <1>1, <2>3, <2>4, <2>5 DEF TasksOK
<1>11. Existing'
  <2>1. SummaryOfExisting'
    BY <1>1, <1>3, <1>5 DEF Existing, SummaryOfExisting, Span
  <2>2. \A v \in Workers : Working(v)' => worker'[v].text \subseteq Span(0, len)
    BY <1>1, <1>9 DEF Existing
  <2> QED
    BY <2>1, <2>2 DEF Existing, Span
<1>12. CountOK'
  <2>1. /\ count <= len /\ (Deciding /\ turn.pc # "trigger" => count < len)
        /\ KEEP_FRESH_MESSAGES <= count
    BY <1>1, <1>2 DEF CountOK, Compressible
  <2>2. count' <= len /\ (Deciding /\ turn.pc # "trigger" => count' < len)
    BY <1>2, <1>4, <2>1
  <2>3. count' >= KEEP_FRESH_MESSAGES
    BY <1>2, <2>1
  <2> QED
    BY <2>2, <2>3 DEF CountOK, Deciding
<1>13. Ends' \subseteq Ends
  BY <1>1 DEF Ends, job
<1>14. LeadOK'
  <2>1. /\ Ends \subseteq Nat /\ len + 1 \in Nat /\ len <= len /\ len + 1 <= len + 1
        /\ Led(Ends, len + 1) /\ (Deciding => Led(Ends, len))
    BY <1>1, <1>2, EndsFacts DEF LeadOK
  <2>2. PICK E : E = Ends' /\ E \subseteq Ends
    BY <1>13
  <2>3. Led(E, len + 1) /\ (Deciding => Led(E, len))
    BY <1>2, <2>1, <2>2, LedFrame
  <2> QED
    BY <2>2, <2>3 DEF LeadOK, Led, Lead, Deciding
<1> QED
  BY <1>4, <1>7, <1>8, <1>10, <1>11, <1>12, <1>13, <1>14

\* While no turn began amid a compression, the summary takes in all that the
\* position moves past.
LEMMA CoveredWork ==
    ASSUME IInv, NEW w \in Workers, Working(w), NEW pc, pc # "idle", NEW text, Moves(w, pc, text),
           UNCHANGED <<turn, queue>>, clean' => clean,
           clean => /\ text = worker[w].job.old
                              \union Span(worker[w].job.start, worker[w].job.end)
                    /\ summary' \in {summary, text}
                    /\ pc \in {"set_count", "set_idx"} => text \subseteq summary'
                    /\ \/ idx' = idx
                       \/ idx' = worker[w].job.end /\ text \subseteq summary'
    PROVE  Covered'
<1> SUFFICES ASSUME clean'
             PROVE  Covered'
  BY DEF Covered
<1> DEFINE job == worker[w].job
<1>1. TypeOK /\ TasksOK /\ Covered /\ clean /\ job \in queue /\ job \in Job
  BY WorkFields DEF IInv, TasksOK
<1>2. /\ queue = {job} /\ ~Deciding /\ SummaryCoversIdx
      /\ Span(0, job.start) \subseteq job.old /\ job.old \subseteq summary
      /\ Span(0, idx) \subseteq job.old \union Span(job.start, job.end)
  BY <1>1 DEF Covered
<1>3. /\ text = job.old \union Span(job.start, job.end)
      /\ summary' \in {summary, text}
      /\ pc \in {"set_count", "set_idx"} => text \subseteq summary'
      /\ \/ idx' = idx
         \/ idx' = job.end /\ text \subseteq summary'
  BY <1>1
<1>4. Span(0, job.end) \subseteq Span(0, job.start) \union Span(job.start, job.end)
  BY <1>1, JobFields, SpanSplit
<1>5. /\ worker'[w].pc = pc /\ worker'[w].job = job /\ worker'[w].text = text
      /\ \A v \in Workers : v # w => worker'[v] = worker[v]
  BY DEF Moves
<1> HIDE DEF job
<1>6. \A v \in Workers : v # w => ~Working(v)'
  <2>1. \A v \in Workers : v # w => ~Working(v)
    BY <1>1, <1>2 DEF TasksOK, job
  <2> QED
    BY <1>5, <2>1 DEF Working
<1>7. SummaryCoversIdx'
  <2>1. CASE idx' = idx
    <3>1. Span(0, idx) \subseteq summary'
      BY <1>2, <1>3 DEF SummaryCoversIdx
    <3> QED
      BY <2>1, <3>1 DEF SummaryCoversIdx, Span
  <2>2. CASE idx' = job.end /\ text \subseteq summary'
    <3>1. Span(0, job.end) \subseteq summary'
      BY <1>2, <1>3, <1>4, <2>2
    <3> QED
      BY <2>2, <3>1 DEF SummaryCoversIdx, Span
  <2> QED
    BY <1>3, <2>1, <2>2
<1>8. \A j \in queue' :
         /\ Span(0, j.start) \subseteq j.old
         /\ j.old \subseteq summary'
         /\ Span(0, idx') \subseteq j.old \union Span(j.start, j.end)
  <2>1. job.old \subseteq summary'
    BY <1>2, <1>3
  <2>2. Span(0, idx') \subseteq job.old \union Span(job.start, job.end)
    BY <1>2, <1>3, <1>4
  <2> QED
    BY <1>2, <2>1, <2>2
<1>9. \A v \in Workers : Working(v)' /\ worker'[v].pc # "summarise" =>
         worker'[v].text = worker'[v].job.old
                           \union Span(worker'[v].job.start, worker'[v].job.end)
  BY <1>3, <1>5, <1>6
<1>10. \A v \in Workers : worker'[v].pc \in {"set_count", "set_idx"} =>
          worker'[v].text \subseteq summary'
  BY <1>3, <1>5, <1>6 DEF Working
<1>11. ~Deciding' /\ \A j, k \in queue' : j = k
  BY <1>2 DEF Deciding
<1> QED
  BY <1>7, <1>8, <1>9, <1>10, <1>11 DEF Covered, Span

\* One step of a task after another: the parts come together.
LEMMA WorkInv ==
    ASSUME IInv, NEW w \in Workers, Working(w), NEW pc, pc # "idle",
           NEW text \in SUBSET Span(0, len),
           Moves(w, pc, text), UNCHANGED <<len, turn, turns, queue>>,
           summary' \in {summary, text}, count' \in {count, KEEP_FRESH_MESSAGES},
           idx' \in {idx, worker[w].job.end}, clean' \in BOOLEAN, clean' => clean,
           clean' => /\ text = worker[w].job.old
                               \union Span(worker[w].job.start, worker[w].job.end)
                     /\ pc \in {"set_count", "set_idx"} => text \subseteq summary'
                     /\ idx' = idx \/ text \subseteq summary',
           \/ /\ faults' = faults
              /\ \/ pc \in {"summarise", "set_summary", "set_count"}
                 \/ worker[w].pc \notin {"summarise", "set_summary", "set_count"}
                 \/ count' = KEEP_FRESH_MESSAGES
           \/ faults' = faults + 1 /\ faults < MaxFaults
    PROVE  IInv'
<1>1. /\ TypeOK' /\ TurnOK' /\ TasksOK' /\ Existing' /\ CountOK' /\ LeadOK'
      /\ Ends' \subseteq Ends /\ count' \in Nat /\ count' <= count
  BY WorkFrame
<1>2. Covered'
  <2>1. CASE clean'
    BY <2>1, CoveredWork
  <2>2. CASE ~clean'
    BY <2>2 DEF Covered
  <2> QED
    BY <2>1, <2>2
<1>3. /\ Due \ {worker[w].job} \subseteq Due'
      /\ pc \in {"summarise", "set_summary", "set_count"} => Due \subseteq Due'
      /\ worker[w].pc \notin {"summarise", "set_summary", "set_count"} => Due \subseteq Due'
  BY DueMoves DEF IInv
<1>4. count' = KEEP_FRESH_MESSAGES => count' < COMPRESS_THRESHOLD
  BY Constants
<1>5. \/ faults' = faults /\ (Due \subseteq Due' \/ count' < COMPRESS_THRESHOLD)
      \/ faults' = faults + 1
  BY <1>3, <1>4
<1>6. Counted'
  BY <1>1, <1>3, <1>5, CountedWork
<1> QED
  BY <1>1, <1>2, <1>6 DEF IInv

\* What a consumer has in hand is in the thread.
LEMMA InHand ==
    ASSUME IInv, NEW w \in Workers, Working(w)
    PROVE  /\ TypeOK /\ worker[w].job \in queue
           /\ worker[w].text \subseteq Span(0, len) /\ worker[w].text \subseteq Positions
           /\ worker[w].job.old \union Span(worker[w].job.start, worker[w].job.end)
                  \subseteq Span(0, len)
           /\ worker[w].job.old \subseteq Span(0, len) /\ Span(0, len) \subseteq Positions
<1> DEFINE job == worker[w].job
<1>1. /\ TypeOK /\ TurnOK /\ Existing /\ job \in queue /\ job \in Job
      /\ worker[w].text \subseteq Positions
  BY WorkFields DEF IInv, TasksOK
<1>2. /\ job.start \in Nat /\ job.end \in Nat /\ job.end <= len /\ job.old \subseteq Span(0, len)
      /\ len \in Nat /\ worker[w].text \subseteq Span(0, len)
  BY <1>1, JobFields DEF Existing, SummaryOfExisting, TypeOK
<1> HIDE DEF job
<1>3. Span(job.start, job.end) \subseteq Span(0, job.end)
  BY <1>2, SpanSplit
<1>4. Span(0, job.end) \subseteq Span(0, len)
  BY <1>2, SpanGrows
<1> QED
  BY <1>1, <1>2, <1>3, <1>4, InPlace DEF job

\* _generate_summary keeps the invariant, answered or not.
LEMMA SummariseInv ==
    ASSUME IInv, NEW w \in Workers, Summarise(w)
    PROVE  IInv'
<1>1. worker[w].pc = "summarise" /\ Working(w) /\ UNCHANGED <<len, summary, count, idx, turn, queue, turns>>
  BY DEF Summarise, Working, redis
<1> DEFINE job == worker[w].job
           all == job.old \union Span(job.start, job.end)
<1>2. \/ faults' = faults /\ clean' = clean
         /\ worker' = [worker EXCEPT ![w].pc = "set_summary", ![w].text = all]
      \/ faults' = faults + 1 /\ faults < MaxFaults /\ clean' = FALSE
         /\ worker' = [worker EXCEPT ![w].pc = "set_summary", ![w].text = job.old]
  BY DEF Summarise, NoFault, Fault
<1>3. TypeOK /\ all \subseteq Span(0, len) /\ job.old \subseteq Span(0, len) /\ Span(0, len) \subseteq Positions
      /\ clean \in BOOLEAN
  BY <1>1, InHand DEF TypeOK
<1> HIDE DEF all
<1>4. CASE faults' = faults /\ clean' = clean
           /\ worker' = [worker EXCEPT ![w].pc = "set_summary", ![w].text = all]
  <2>1. Moves(w, "set_summary", all)
    BY <1>1, <1>3, <1>4, MovesFacts
  <2> QED
    BY <1>1, <1>3, <1>4, <2>1, WorkInv DEF all
<1>5. CASE faults' = faults + 1 /\ faults < MaxFaults /\ clean' = FALSE
           /\ worker' = [worker EXCEPT ![w].pc = "set_summary", ![w].text = job.old]
  <2>1. Moves(w, "set_summary", job.old)
    BY <1>1, <1>3, <1>5, MovesFacts
  <2> QED
    BY <1>1, <1>3, <1>5, <2>1, WorkInv
<1> QED
  BY <1>2, <1>4, <1>5

\* After the model call, a clean task has the range and the summary it carries.
LEMMA TextFacts ==
    ASSUME IInv, NEW w \in Workers, Working(w), worker[w].pc # "summarise"
    PROVE  /\ clean \in BOOLEAN
           /\ clean => worker[w].text = worker[w].job.old
                              \union Span(worker[w].job.start, worker[w].job.end)
           /\ clean /\ worker[w].pc \in {"set_count", "set_idx"} => worker[w].text \subseteq summary
  BY DEF IInv, Covered, TypeOK

\* set_short_term_summary in the handler keeps it, written, lost or taken for failed.
LEMMA SetSummaryInv ==
    ASSUME IInv, NEW w \in Workers, SetSummary(w)
    PROVE  IInv'
<1>1. worker[w].pc = "set_summary" /\ Working(w) /\ UNCHANGED <<len, count, idx, turn, queue, turns, clean>>
  BY DEF SetSummary, Working
<1> DEFINE text == worker[w].text
<1>2. \/ faults' = faults /\ summary' = text
         /\ worker' = [worker EXCEPT ![w].pc = "set_count"]
      \/ faults' = faults + 1 /\ faults < MaxFaults /\ summary' \in {summary, text}
         /\ worker' = [worker EXCEPT ![w].pc = "ack"]
  BY DEF SetSummary, NoFault, Fault
<1>3. TypeOK /\ text \subseteq Span(0, len) /\ text \subseteq Positions
  BY <1>1, InHand
<1>4. /\ clean \in BOOLEAN
      /\ clean => text = worker[w].job.old
                         \union Span(worker[w].job.start, worker[w].job.end)
  BY <1>1, TextFacts
<1>5. CASE faults' = faults /\ summary' = text
           /\ worker' = [worker EXCEPT ![w].pc = "set_count"]
  <2>1. Moves(w, "set_count", text)
    BY <1>1, <1>3, <1>5, MovesFacts
  <2> QED
    BY <1>1, <1>3, <1>4, <1>5, <2>1, WorkInv
<1>6. CASE faults' = faults + 1 /\ faults < MaxFaults /\ summary' \in {summary, text}
           /\ worker' = [worker EXCEPT ![w].pc = "ack"]
  <2>1. Moves(w, "ack", text)
    BY <1>1, <1>3, <1>6, MovesFacts
  <2> QED
    BY <1>1, <1>3, <1>4, <1>6, <2>1, WorkInv
<1> QED
  BY <1>2, <1>5, <1>6

\* The reset of the counter keeps it, with the same outcomes.
LEMMA SetCountInv ==
    ASSUME IInv, NEW w \in Workers, SetCount(w)
    PROVE  IInv'
<1>1. /\ worker[w].pc = "set_count" /\ Working(w)
      /\ UNCHANGED <<len, summary, idx, turn, queue, turns, clean>>
      /\ worker' = [worker EXCEPT ![w].pc = "set_idx"]
      /\ \/ faults' = faults /\ count' = KEEP_FRESH_MESSAGES
         \/ faults' = faults + 1 /\ faults < MaxFaults /\ count' = count
  BY DEF SetCount, Working, NoFault, Fault
<1> DEFINE text == worker[w].text
<1>2. TypeOK /\ text \subseteq Span(0, len) /\ text \subseteq Positions
  BY <1>1, InHand
<1>3. /\ clean \in BOOLEAN
      /\ clean => /\ text = worker[w].job.old
                            \union Span(worker[w].job.start, worker[w].job.end)
                  /\ text \subseteq summary
  BY <1>1, TextFacts
<1>4. Moves(w, "set_idx", text)
  BY <1>1, <1>2, MovesFacts
<1> QED
  BY <1>1, <1>2, <1>3, <1>4, WorkInv

\* The write of last_compress_idx keeps it.
LEMMA SetIdxInv ==
    ASSUME IInv, NEW w \in Workers, SetIdx(w)
    PROVE  IInv'
<1>1. /\ worker[w].pc = "set_idx" /\ Working(w)
      /\ UNCHANGED <<len, summary, count, turn, queue, turns, clean>>
      /\ worker' = [worker EXCEPT ![w].pc = "ack"]
      /\ \/ faults' = faults /\ idx' = worker[w].job.end
         \/ faults' = faults + 1 /\ faults < MaxFaults /\ idx' = idx
  BY DEF SetIdx, Working, NoFault, Fault
<1> DEFINE text == worker[w].text
<1>2. TypeOK /\ text \subseteq Span(0, len) /\ text \subseteq Positions
  BY <1>1, InHand
<1>3. /\ clean \in BOOLEAN
      /\ clean => /\ text = worker[w].job.old
                            \union Span(worker[w].job.start, worker[w].job.end)
                  /\ text \subseteq summary
  BY <1>1, TextFacts
<1>4. Moves(w, "ack", text)
  BY <1>1, <1>2, MovesFacts
<1> QED
  BY <1>1, <1>2, <1>3, <1>4, WorkInv

\* A consumer takes a task that no other one has.
LEMMA TakeInv ==
    ASSUME IInv, NEW w \in Workers, NEW job \in queue, Take(w, job)
    PROVE  IInv'
<1>1. /\ TypeOK /\ TurnOK /\ TasksOK /\ Existing /\ CountOK /\ LeadOK /\ Covered /\ job \in Job
      /\ UNCHANGED <<len, summary, count, idx, turn, queue, turns, faults, clean>>
      /\ ~Working(w) /\ \A v \in Workers : Working(v) => worker[v].job # job
  BY DEF IInv, TypeOK, Take, redis
<1> DEFINE r == [pc |-> "summarise", job |-> job, text |-> {}]
<1>2. r \in Work /\ r.pc = "summarise" /\ r.job = job /\ r.text = {}
  BY <1>1 DEF Work
<1>3. worker' = [worker EXCEPT ![w] = r]
  BY DEF Take
<1> HIDE DEF r
<1>4. /\ worker' \in [Workers -> Work] /\ worker'[w] = r
      /\ \A v \in Workers \ {w} : worker'[v] = worker[v]
  BY <1>1, <1>2, <1>3 DEF TypeOK
<1>5. Working(w)' /\ \A v \in Workers \ {w} : Working(v)' <=> Working(v)
  BY <1>2, <1>4 DEF Working
<1>6. TypeOK'
  BY <1>1, <1>4 DEF TypeOK
<1>7. TurnOK' /\ CountOK'
  BY <1>1 DEF TurnOK, CountOK, Compressible, Deciding, Span
<1>8. TasksOK'
  <2>1. \A v \in Workers : Working(v)' => worker'[v].job \in queue
    BY <1>1, <1>2, <1>4, <1>5 DEF TasksOK
  <2>2. ASSUME NEW u \in Workers, NEW v \in Workers,
               Working(u)', Working(v)', worker'[u].job = worker'[v].job
        PROVE  u = v
    <3>1. CASE u = w
      BY <1>1, <1>2, <1>4, <1>5, <2>2, <3>1
    <3>2. CASE v = w
      BY <1>1, <1>2, <1>4, <1>5, <2>2, <3>2
    <3>3. CASE u # w /\ v # w
      BY <1>1, <1>4, <1>5, <2>2, <3>3 DEF TasksOK
    <3> QED
      BY <3>1, <3>2, <3>3
  <2>3. Deciding' <=> Deciding
    BY <1>1 DEF Deciding
  <2> QED
    BY <1>1, <2>1, <2>2, <2>3 DEF TasksOK
<1>9. Existing'
  <2>1. \A v \in Workers : Working(v)' => worker'[v].text \subseteq Span(0, len)
    BY <1>1, <1>2, <1>4, <1>5 DEF Existing
  <2> QED
    BY <1>1, <2>1 DEF Existing, SummaryOfExisting, Span
<1>10. Ends' = Ends
  BY <1>1 DEF Ends
<1>11. LeadOK'
  BY <1>1, <1>10 DEF LeadOK, Led, Lead, Deciding
<1>12. Covered'
  <2>1. \A v \in Workers : Working(v)' /\ worker'[v].pc # "summarise" =>
           Working(v) /\ worker'[v] = worker[v]
    BY <1>2, <1>4, <1>5
  <2>2. \A v \in Workers : worker'[v].pc \in {"set_count", "set_idx"} =>
           worker'[v] = worker[v]
    BY <1>2, <1>4
  <2> SUFFICES ASSUME clean'
               PROVE  Covered'
    BY DEF Covered
  <2>3. clean
    BY <1>1
  <2>4. \A v \in Workers : Working(v)' /\ worker'[v].pc # "summarise" =>
           worker'[v].text = worker'[v].job.old
                             \union Span(worker'[v].job.start, worker'[v].job.end)
    BY <1>1, <2>1, <2>3 DEF Covered
  <2>5. \A v \in Workers : worker'[v].pc \in {"set_count", "set_idx"} =>
           worker'[v].text \subseteq summary
    BY <1>1, <2>2, <2>3 DEF Covered
  <2> QED
    BY <1>1, <2>3, <2>4, <2>5 DEF Covered, SummaryCoversIdx, Span, Deciding
<1>13. Due \subseteq Due'
  <2>1. ASSUME NEW j \in Due, NEW v \in Workers, Working(v)', worker'[v].job = j
        PROVE  worker'[v].pc \in {"summarise", "set_summary", "set_count"}
    <3>1. CASE v = w
      BY <1>2, <1>4, <3>1
    <3>2. CASE v # w
      BY <1>4, <1>5, <2>1, <3>2 DEF Due
    <3> QED
      BY <3>1, <3>2
  <2> QED
    BY <1>1, <2>1 DEF Due
<1>14. Counted'
  <2>1. count' \in Nat /\ count' <= count
    BY <1>1 DEF TypeOK
  <2>2. Due \ {job} \subseteq Due' /\ queue' \subseteq queue /\ Ends' \subseteq Ends
    BY <1>1, <1>10, <1>13
  <2> QED
    BY <1>1, <1>13, <2>1, <2>2, CountedWork
<1> QED
  BY <1>6, <1>7, <1>8, <1>9, <1>11, <1>12, <1>14 DEF IInv

\* A task leaves the queue; it has done what it had to do to the counter.
LEMMA AckInv ==
    ASSUME IInv, NEW w \in Workers, Ack(w)
    PROVE  IInv'
<1> DEFINE job == worker[w].job
<1>1. /\ TypeOK /\ TurnOK /\ TasksOK /\ Existing /\ CountOK /\ LeadOK /\ Covered
      /\ worker[w].pc = "ack" /\ Working(w) /\ job \in queue
      /\ UNCHANGED <<len, summary, count, idx, turn, turns, faults, clean>>
      /\ queue' = queue \ {job} /\ worker' = [worker EXCEPT ![w] = NoWork]
  BY DEF IInv, TasksOK, Ack, redis, Working
<1>2. /\ worker' \in [Workers -> Work] /\ worker'[w] = NoWork
      /\ \A v \in Workers \ {w} : worker'[v] = worker[v]
  BY <1>1 DEF TypeOK, Work
<1>3. ~Working(w)' /\ \A v \in Workers \ {w} : Working(v)' <=> Working(v)
  BY <1>2 DEF Working, NoWork
<1>4. \A v \in Workers : Working(v)' => v # w /\ Working(v) /\ worker'[v] = worker[v]
  BY <1>2, <1>3
<1> HIDE DEF job
<1>5. TypeOK'
  BY <1>1, <1>2 DEF TypeOK
<1>6. TurnOK'
  BY <1>1 DEF TurnOK, Span
<1>7. CountOK'
  BY <1>1 DEF CountOK, Compressible, Deciding
<1>8. TasksOK'
  <2>1. IsFiniteSet(queue')
    BY <1>1, FS_Subset DEF TasksOK
  <2>2. \A v \in Workers : Working(v)' => worker'[v].job \in queue'
    BY <1>1, <1>4 DEF TasksOK, job
  <2>3. Deciding' <=> Deciding
    BY <1>1 DEF Deciding
  <2> QED
    BY <1>1, <1>4, <2>1, <2>2, <2>3 DEF TasksOK
<1>9. Existing'
  <2>1. \A v \in Workers : Working(v)' => worker'[v].text \subseteq Span(0, len)
    BY <1>1, <1>4 DEF Existing
  <2> QED
    BY <1>1, <2>1 DEF Existing, SummaryOfExisting, Span
<1>10. Ends' \subseteq Ends
  BY <1>1 DEF Ends
<1>11. LeadOK'
  <2>1. PICK E : E = Ends' /\ E \subseteq Ends
    BY <1>10
  <2>2. Led(E, len + 1) /\ (Deciding => Led(E, len))
    BY <1>1, <2>1 DEF LeadOK, Led
  <2> QED
    BY <1>1, <2>1, <2>2 DEF LeadOK, Led, Lead, Deciding
<1>12. Covered'
  <2> SUFFICES ASSUME clean'
               PROVE  Covered'
    BY DEF Covered
  <2>3. clean
    BY <1>1
  <2>4. \A v \in Workers : Working(v)' /\ worker'[v].pc # "summarise" =>
           worker'[v].text = worker'[v].job.old
                             \union Span(worker'[v].job.start, worker'[v].job.end)
    BY <1>1, <1>4, <2>3 DEF Covered
  <2>5. \A v \in Workers : worker'[v].pc \in {"set_count", "set_idx"} =>
           worker'[v].text \subseteq summary
    BY <1>1, <1>2, <2>3 DEF Covered, NoWork
  <2> QED
    BY <1>1, <2>3, <2>4, <2>5 DEF Covered, SummaryCoversIdx, Span, Deciding
<1>13. Due \subseteq Due'
  <2>1. job \notin Due
    BY <1>1 DEF Due, job
  <2> QED
    BY <1>1, <1>4, <2>1 DEF Due
<1>14. Counted'
  <2>1. count' \in Nat /\ count' <= count
    BY <1>1 DEF TypeOK
  <2>2. Due \ {job} \subseteq Due' /\ queue' \subseteq queue
    BY <1>1, <1>13
  <2> QED
    BY <1>1, <1>10, <1>13, <2>1, <2>2, CountedWork
<1> QED
  BY <1>5, <1>6, <1>7, <1>8, <1>9, <1>11, <1>12, <1>14 DEF IInv

\* The connection is lost: the tasks wait to be delivered again.
LEMMA ConnectionLostInv == ASSUME IInv, ConnectionLost PROVE IInv'
<1>1. /\ TypeOK /\ TurnOK /\ CountOK
      /\ UNCHANGED <<len, summary, count, idx, turn, queue, turns, clean>>
      /\ worker' = [w \in Workers |-> NoWork] /\ faults' = faults + 1 /\ faults < MaxFaults
  BY DEF IInv, ConnectionLost, Fault, redis
<1>2. Deciding' => Deciding /\ turns' = turns /\ turn'.old = turn.old
  BY <1>1 DEF Deciding
<1>3. /\ len' \in Nat /\ len <= len' /\ turns' \in 0..MaxTurns /\ turns <= turns'
      /\ faults' \in 0..MaxFaults /\ count' \in Nat /\ count' <= count
  BY <1>1, Constants DEF TypeOK
<1>4. TasksOK' /\ Existing' /\ LeadOK' /\ Covered' /\ worker' \in [Workers -> Work] /\ Ends' = Ends
  BY <1>1, <1>2, <1>3, TurnFrame
<1>5. TypeOK'
  BY <1>1, <1>3, <1>4 DEF TypeOK
<1>6. TurnOK' /\ CountOK'
  BY <1>1 DEF TurnOK, CountOK, Compressible, Deciding, Span
<1>7. Due \subseteq Due'
  BY <1>1 DEF Due, Working, NoWork
<1>8. Counted'
  <2>1. Due \ {NoWork} \subseteq Due' /\ queue' \subseteq queue /\ Ends' \subseteq Ends
    BY <1>1, <1>4, <1>7
  <2> QED
    BY <1>1, <1>3, <2>1, CountedWork
<1> QED
  BY <1>4, <1>5, <1>6, <1>8 DEF IInv

(***************************************************************************)
(* The theorems.                                                           *)
(***************************************************************************)

\* The invariant holds of a new session.
LEMMA InitInv == ASSUME Init PROVE IInv
<1>1. /\ len = 0 /\ summary = {} /\ count = 0 /\ idx = 0 /\ turn = NoTurn /\ queue = {}
      /\ worker = [w \in Workers |-> NoWork] /\ turns = 0 /\ faults = 0 /\ clean = TRUE
      /\ turn.pc = "idle" /\ ~Deciding
      /\ \A w \in Workers : worker[w] = NoWork /\ worker[w].pc = "idle" /\ ~Working(w)
  BY DEF Init, NoTurn, NoWork, Deciding, Working
<1>2. TypeOK
  BY <1>1, Constants DEF TypeOK, Turn, Work
<1>3. TurnOK
  <2>1. \A m \in Nat : 0 <= 0 * (m + 2)
    OBVIOUS
  <2> QED
    BY <1>1, <2>1, Constants DEF TurnOK
<1>4. TasksOK
  BY <1>1, FS_EmptySet DEF TasksOK
<1>5. Existing
  BY <1>1 DEF Existing, SummaryOfExisting, Span
<1>6. CountOK
  BY <1>1 DEF CountOK, Compressible
<1>7. Ends = {}
  BY <1>1 DEF Ends
<1>8. LeadOK
  BY <1>1, <1>7 DEF LeadOK, Led
<1>9. Counted
  <2>1. Cardinality(Due) = 0
    <3>1. Due = {}
      BY <1>1 DEF Due
    <3> QED
      BY <3>1, FS_EmptySet
  <2>2. Allowed = 0
    <3>1. \A m \in Nat : 0 * m = 0
      OBVIOUS
    <3> QED
      BY <1>1, <3>1, Constants DEF Allowed
  <2>3. Triggering = 0
    BY <1>1 DEF Triggering
  <2> QED
    BY <1>1, <1>7, <2>1, <2>2, <2>3, Constants DEF Counted, Within
<1>10. Covered
  BY <1>1 DEF Covered, SummaryCoversIdx, Span
<1> QED
  BY <1>2, <1>3, <1>4, <1>5, <1>6, <1>8, <1>9, <1>10 DEF IInv

\* A step of something else keeps it.
LEMMA StutterInv == ASSUME IInv, UNCHANGED vars PROVE IInv'
<1>1. UNCHANGED <<len, summary, count, idx, turn, queue, worker, turns, faults, clean>>
  BY DEF vars, redis
<1>2. TypeOK' /\ TurnOK' /\ TasksOK' /\ Existing' /\ CountOK'
  BY <1>1 DEF IInv, TypeOK, TurnOK, TasksOK, Existing, SummaryOfExisting, CountOK, Compressible,
              Deciding, Working, Span
<1>3. Ends' = Ends /\ Cardinality(Due)' = Cardinality(Due) /\ Triggering' = Triggering
      /\ Reach' = Reach /\ Allowed' = Allowed
  BY <1>1 DEF Ends, Due, Triggering, Reach, Allowed, Lead, Working
<1>4. LeadOK' /\ Counted'
  BY <1>1, <1>3 DEF IInv, LeadOK, Led, Lead, Counted, Within, Deciding
<1>5. Covered'
  BY <1>1 DEF IInv, Covered, SummaryCoversIdx, Span, Deciding, Working
<1> QED
  BY <1>2, <1>4, <1>5 DEF IInv

\* Every step keeps it: one case for each action of Next.
LEMMA NextInv == ASSUME IInv, [Next]_vars PROVE IInv'
<1>1. CASE \E kind \in {"simple", "plan"} : TurnStart(kind)
  BY <1>1, TurnStartInv
<1>2. CASE Replan
  BY <1>2, ReplanInv
<1>3. CASE UncountedTurn
  BY <1>3, UncountedTurnInv
<1>4. CASE InitMsgCount
  BY <1>4, InitMsgCountInv
<1>5. CASE ReadWindow
  BY <1>5, ReadWindowInv
<1>6. CASE SimpleReply
  BY <1>6, SimpleReplyInv
<1>7. CASE PlanReply
  BY <1>7, PlanReplyInv
<1>8. CASE Increment
  BY <1>8, IncrementInv
<1>9. CASE Trigger
  BY <1>9, TriggerInv
<1>10. CASE TurnEnd
  BY <1>10, TurnEndInv
<1>11. CASE \E w \in Workers : \E job \in queue : Take(w, job)
  BY <1>11, TakeInv
<1>12. CASE \E w \in Workers : Compress(w)
  BY <1>12, SummariseInv, SetSummaryInv, SetCountInv, SetIdxInv, AckInv DEF Compress
<1>13. CASE ConnectionLost
  BY <1>13, ConnectionLostInv
<1>14. CASE Disconnect
  BY <1>14, CutInv DEF Disconnect, Fault, redis
<1>15. CASE Restart
  BY <1>15, CutInv DEF Restart, Fault, redis
<1>16. CASE UNCHANGED vars
  BY <1>16, StutterInv
<1> QED
  BY <1>1, <1>2, <1>3, <1>4, <1>5, <1>6, <1>7, <1>8, <1>9, <1>10, <1>11, <1>12, <1>13, <1>14,
     <1>15, <1>16 DEF Next

\* The inductive invariant holds throughout: turns, tasks, the counter and the
\* summary fit each other, whatever fails and wherever turns and handlers stop.
THEOREM Inductive == Spec => []IInv
<1>1. Init => IInv
  BY InitInv
<1>2. IInv /\ [Next]_vars => IInv'
  BY NextInv
<1> QED
  BY <1>1, <1>2, PTL DEF Spec

\* All variables keep their types; the positions have room for every message.
THEOREM TypeCorrect == Spec => []TypeOK
<1>1. IInv => TypeOK
  BY DEF IInv
<1> QED
  BY <1>1, Inductive, PTL

\* Neither the summary nor last_compress_idx, nor a task still to run, reaches
\* past the messages the thread has, although restarts lose replies that tasks
\* were cut from.
THEOREM SummaryExists == Spec => []SummaryOfExisting
<1>1. IInv => SummaryOfExisting
  BY DEF IInv, Existing
<1> QED
  BY <1>1, Inductive, PTL

\* When nothing is under way, msg_count is past COMPRESS_THRESHOLD by what the
\* faults account for and no more: compression that went wrong is made up for.
THEOREM CounterIsBounded == Spec => []CounterBounded
<1>1. IInv => CounterBounded
  <2> SUFFICES ASSUME IInv, Quiet
               PROVE  count < COMPRESS_THRESHOLD + Allowed
    BY DEF CounterBounded, Allowed
  <2>1. /\ count \in Nat /\ Allowed \in Nat /\ COMPRESS_THRESHOLD \in Nat
        /\ count < COMPRESS_THRESHOLD + Allowed + Cardinality(Due) + Triggering
    BY Numbers, Constants DEF Within
  <2>2. Triggering = 0
    BY DEF Quiet, NoTurn, Triggering
  <2>3. Due = {}
    BY DEF Quiet, Due
  <2>4. Cardinality(Due) = 0
    BY <2>3, FS_EmptySet
  <2> QED
    BY <2>1, <2>2, <2>4
<1> QED
  BY <1>1, Inductive, PTL

\* As long as no turn began while a compression was under way, every summary was
\* read and every model call succeeded, the summary has every message before
\* last_compress_idx.
THEOREM CoversClean == Spec => []CoversWhenClean
<1>1. IInv => CoversWhenClean
  BY DEF IInv, Covered, CoversWhenClean
<1> QED
  BY <1>1, Inductive, PTL

=============================================================================
