-------------------------- MODULE SessionQueueProofs --------------------------
(***************************************************************************)
(* Proofs about SessionQueue, for any number of sessions, items and runs,  *)
(* any batches and any set of faults.                                      *)
(***************************************************************************)
EXTENDS SessionQueueInvariant, FiniteSetTheorems, TLAPS

Statuses == {"absent", "pending", "processing", "completed", "error", "cancelled"}

At == {"idle", "check", "select"} \cup Holding

----------------------------------------------------------------------------
(* Rows, workers and batches.                                              *)

\* What a statement that names the items S does to the rows.
LEMMA Rows ==
    ASSUME TypeOK, NEW S, NEW st \in Statuses
    PROVE  /\ With(S, st) \in [Items -> ItemRow]
           /\ \A i \in Items : With(S, st)[i].status = IF i \in S THEN st ELSE Status(i)
           /\ \A i \in Items : i \notin S => With(S, st)[i] = row[i]
  BY DEF TypeOK, ItemRow, With, Status, Statuses

LEMMA Worker ==
    ASSUME TypeOK, NEW w \in Workers
    PROVE  /\ w[1] \in Scanners /\ w[2] \in Sessions /\ w = <<w[1], w[2]>>
           /\ worker[w] \in WorkerRow
           /\ worker[w].at \in At
           /\ worker[w].item \in Items \cup {None}
           /\ worker[w].got \subseteq Items
  BY DEF TypeOK, Workers, WorkerRow, At, Holding, Before, Under, After, Settled

LEMMA WorkerNames == At = {"idle", "check", "select", "mark", "batch", "markBatch",
                           "prepare", "run", "complete", "completeBatch", "fail",
                           "failBatch"}
  BY DEF At, Holding, Before, Under, After, Settled

LEMMA RowOfWorker ==
    ASSUME NEW a \in At, NEW i \in Items \cup {None}, NEW S \in SUBSET Items
    PROVE  [at |-> a, item |-> i, got |-> S] \in WorkerRow
  BY WorkerNames DEF WorkerRow

\* Items of one batch are of one session.
LEMMA OneSessionPerBatch ==
    ASSUME NEW i \in Items
    PROVE  /\ Batch(i) \subseteq Items
           /\ \A j \in Batch(i) : SessionOf[j] = SessionOf[i]
           /\ \A j \in Batch(i) : Batch(j) = Batch(i)
  BY QueueAssumption DEF Batch

LEMMA Blamed ==
    ASSUME TypeOK, NEW S, NEW why \in {"crash", "db", "late", "unarmed"}
    PROVE  /\ Blame(S, why) \in [Items -> SUBSET {"crash", "db", "late", "unarmed"}]
           /\ \A i \in Items : /\ cause[i] \subseteq Blame(S, why)[i]
                               /\ i \in S => why \in Blame(S, why)[i]
                               /\ i \notin S => Blame(S, why)[i] = cause[i]
  BY DEF TypeOK, Blame

----------------------------------------------------------------------------
(* Type correctness.                                                       *)

LEMMA TypeInit == Init => TypeOK
<1> SUFFICES ASSUME Init PROVE TypeOK
  OBVIOUS
<1>1. Cardinality(Items) \in Nat
  BY QueueAssumption, FS_CardinalityType
<1>2. row \in [Items -> ItemRow]
  BY <1>1 DEF Init, Started, ItemRow
<1>3. IdleWorker \in WorkerRow
  BY DEF IdleWorker, WorkerRow
<1>4. worker \in [Workers -> WorkerRow]
  BY <1>3 DEF Init, Started
<1>5. scan \in [Scanners -> ScanRow]
  BY DEF Init, Started, ScanRow, IdleScan, Scanners
<1> QED BY <1>2, <1>4, <1>5, QueueAssumption DEF Init, Started, TypeOK

\* The steps that leave rows, workers and what befell an item alone.
Elsewhere ==
    \/ \E i \in Items : Call(i) \/ SteerChecks(i) \/ Inserted(i) \/ DebounceEnds(i)
    \/ \E s \in Sessions : ChatStarts(s) \/ ChatEnds(s)
    \/ PollFires
    \/ \E c \in Scanners : List(c) \/ ScanEnds(c)

LEMMA NotCounted ==
    ASSUME TypeOK, NEW i \in Items, row[i].nr = 0
    PROVE  Cardinality(Created) + 1 \in 0 .. Cardinality(Items)
<1>1. Created \subseteq Items \ {i}
  BY DEF Created
<1>2. /\ IsFiniteSet(Items \ {i})
      /\ Cardinality(Items \ {i}) = Cardinality(Items) - 1
  BY QueueAssumption, FS_RemoveElement
<1>3. /\ IsFiniteSet(Created)
      /\ Cardinality(Created) <= Cardinality(Items \ {i})
  BY <1>1, <1>2, FS_Subset
<1>4. Cardinality(Created) \in Nat /\ Cardinality(Items) \in Nat
  BY <1>3, QueueAssumption, FS_CardinalityType
<1> QED BY <1>2, <1>3, <1>4

LEMMA TypeElsewhere == TypeOK /\ Elsewhere => TypeOK'
<1> SUFFICES ASSUME TypeOK, Elsewhere PROVE TypeOK'
  OBVIOUS
<1>1. ASSUME NEW i \in Items, Call(i) PROVE TypeOK'
  <2>1. DEFINE now == IF BatchOf[i] = None THEN {i} ELSE Batch(i)
  <2>2. call' \in [Items -> {"none", "cancel", "check", "insert", "quietInsert",
                             "timer", "notify", "done"}]
    BY <1>1 DEF Call, TypeOK
  <2>3. ticking' \in SUBSET Items
    BY <1>1 DEF Call, TypeOK
  <2> QED BY <1>1, <2>2, <2>3 DEF Call, TypeOK
<1>2. ASSUME NEW i \in Items, SteerChecks(i) PROVE TypeOK'
  BY <1>2 DEF SteerChecks, TypeOK
<1>3. ASSUME NEW sc \in [Scanners -> ScanRow] PROVE Drained(sc) \in [Scanners -> ScanRow]
  BY DEF Drained, ScanRow
<1>4. ASSUME NEW i \in Items, Inserted(i) PROVE TypeOK'
  <2>1. scan' \in [Scanners -> ScanRow]
    BY <1>3, <1>4 DEF Inserted, TypeOK
  <2>2. SessionOf[i] \in Sessions
    BY QueueAssumption
  <2>3. collectTimers' \in [Sessions -> Items \cup {None}] /\ ticking' \in SUBSET Items
    BY <1>4, <2>2 DEF Inserted, TypeOK
  <2> QED BY <1>4, <2>1, <2>3 DEF Inserted, TypeOK
<1>5. ASSUME NEW s \in Sessions, ChatStarts(s) \/ ChatEnds(s) PROVE TypeOK'
  BY <1>5 DEF ChatStarts, ChatEnds, TypeOK
<1>9. ASSUME NEW i \in Items, DebounceEnds(i) PROVE TypeOK'
  BY <1>9 DEF DebounceEnds, TypeOK
<1>6. CASE PollFires
  <2>1. scan' \in [Scanners -> ScanRow]
    <3>1. [scan["poll"] EXCEPT !.at = "list"] \in ScanRow
      BY DEF TypeOK, ScanRow, Scanners
    <3>2. scan' = [scan EXCEPT !["poll"] = [scan["poll"] EXCEPT !.at = "list"]]
      BY <1>6 DEF PollFires
    <3> QED BY <3>1, <3>2 DEF TypeOK
  <2> QED BY <1>6, <2>1 DEF PollFires, TypeOK
<1>7. ASSUME NEW c \in Scanners, List(c) PROVE TypeOK'
  <2>1. PICK found \in SUBSET Sessions :
           scan' = [scan EXCEPT ![c] = [at |-> "start", found |-> found]]
    BY <1>7 DEF List
  <2>2. [at |-> "start", found |-> found] \in ScanRow
    BY <2>1 DEF ScanRow
  <2>3. scan' \in [Scanners -> ScanRow]
    BY <2>1, <2>2 DEF TypeOK
  <2> QED BY <1>7, <2>3 DEF List, TypeOK
<1>8. ASSUME NEW c \in Scanners, ScanEnds(c) PROVE TypeOK'
  <2>1. scan' \in [Scanners -> ScanRow]
    <3>1. [scan[c] EXCEPT !.at = "idle"] \in ScanRow
      BY DEF TypeOK, ScanRow
    <3>2. scan' = [scan EXCEPT ![c] = [scan[c] EXCEPT !.at = "idle"]]
      BY <1>8 DEF ScanEnds
    <3> QED BY <3>1, <3>2 DEF TypeOK
  <2> QED BY <1>8, <2>1 DEF ScanEnds, TypeOK
<1> QED BY <1>1, <1>2, <1>4, <1>5, <1>6, <1>7, <1>8, <1>9 DEF Elsewhere

\* The steps that change rows and leave the workers alone.
Rowwise ==
    \/ \E i \in Items : InterruptCancels(i) \/ Insert(i)
    \/ \E s \in Sessions : CancelPending(s)
    \/ RecoverStuck

LEMMA TypeRowwise == TypeOK /\ InsertedOnce /\ Rowwise => TypeOK'
<1> SUFFICES ASSUME TypeOK, InsertedOnce, Rowwise PROVE TypeOK'
  OBVIOUS
<1>1. ASSUME NEW S, NEW st \in Statuses, row' = With(S, st)
      PROVE  row' \in [Items -> ItemRow]
  BY <1>1, Rows
<1>2. ASSUME NEW i \in Items, InterruptCancels(i) PROVE TypeOK'
  <2>1. row' \in [Items -> ItemRow]
    BY <1>1, <1>2 DEF InterruptCancels, Statuses
  <2> QED BY <1>2, <2>1 DEF InterruptCancels, TypeOK
<1>3. ASSUME NEW i \in Items, Insert(i) PROVE TypeOK'
  <2>1. row[i].nr = 0
    BY <1>3 DEF Insert, InsertedOnce, Calling
  <2>2. Cardinality(Created) + 1 \in 0 .. Cardinality(Items)
    BY <2>1, NotCounted
  <2>3. [status |-> "pending", nr |-> Cardinality(Created) + 1] \in ItemRow
    BY <2>2 DEF ItemRow
  <2>4. row' \in [Items -> ItemRow]
    BY <1>3, <2>3 DEF Insert, TypeOK
  <2>5. call' \in [Items -> {"none", "cancel", "check", "insert", "quietInsert",
                             "timer", "notify", "done"}]
    BY <1>3 DEF Insert, TypeOK
  <2> QED BY <1>3, <2>4, <2>5 DEF Insert, TypeOK
<1>4. ASSUME NEW s \in Sessions, CancelPending(s) PROVE TypeOK'
  <2>1. row' \in [Items -> ItemRow]
    BY <1>1, <1>4 DEF CancelPending, Statuses
  <2> QED BY <1>4, <2>1 DEF CancelPending, TypeOK
<1>5. CASE RecoverStuck
  <2>1. row' \in [Items -> ItemRow]
    BY <1>1, <1>5 DEF RecoverStuck, Statuses
  <2> QED BY <1>5, <2>1 DEF RecoverStuck, TypeOK
<1> QED BY <1>2, <1>3, <1>4, <1>5 DEF Rowwise

----------------------------------------------------------------------------
(* The steps of workers: what they do to rows, workers and types.          *)

\* A step of the worker w that becomes x.
Becomes(w, x) ==
    /\ x \in WorkerRow
    /\ worker' = [worker EXCEPT ![w] = x]
    /\ active' = (IF x.at = "idle" THEN active \ {w[2]} ELSE active)
    /\ x.at = "idle" => x = IdleWorker

LEMMA FinishBecomes ==
    ASSUME NEW w \in Workers, Finish(w)
    PROVE  Becomes(w, IdleWorker)
  BY DEF Finish, Becomes, IdleWorker, WorkerRow

LEMMA GoBecomes ==
    ASSUME TypeOK, NEW w \in Workers, NEW a \in At \ {"idle"}, GoesTo(w, a),
           active' = active
    PROVE  Becomes(w, [at |-> a, item |-> worker[w].item, got |-> worker[w].got])
<1> DEFINE x == [at |-> a, item |-> worker[w].item, got |-> worker[w].got]
<1>1. x \in WorkerRow
  BY Worker, RowOfWorker
<1>2. worker[w] \in WorkerRow
  BY DEF TypeOK
<1>3. [worker[w] EXCEPT !.at = a] = x
  BY <1>2 DEF WorkerRow
<1>4. worker' = [worker EXCEPT ![w] = x]
  BY <1>3 DEF GoesTo
<1>5. x.at # "idle"
  OBVIOUS
<1> HIDE DEF x
<1>6. Becomes(w, x)
  BY <1>1, <1>4, <1>5 DEF Becomes
<1> QED BY <1>6 DEF x

LEMMA Became ==
    ASSUME TypeOK, NEW w \in Workers, NEW x, Becomes(w, x)
    PROVE  /\ worker' \in [Workers -> WorkerRow]
           /\ active' \in SUBSET Sessions
           /\ worker'[w] = x
           /\ \A v \in Workers : v # w => worker'[v] = worker[v]
  BY DEF Becomes, TypeOK

\* ... which touches nothing of another session.
Step(w, x) ==
    /\ Becomes(w, x)
    /\ UNCHANGED <<call, collectTimers, ticking, scan, boot, chat, cancels>>
    /\ row' \in [Items -> ItemRow]
    /\ processing' \in SUBSET Items
    /\ ran' \in [Items -> Nat]
    /\ cause' \in [Items -> SUBSET {"crash", "db", "late", "unarmed"}]
    /\ faults' \in 0 .. MaxFaults
    /\ \A i \in Items : cause[i] \subseteq cause'[i]
    /\ \A i \in Items : row'[i] # row[i] => Status(i) # "absent" /\ Status(i)' # "absent"
    /\ \A i \in Items : SessionOf[i] # w[2] =>
          /\ row'[i] = row[i] /\ ran'[i] = ran[i] /\ cause'[i] = cause[i]
          /\ i \in processing' <=> i \in processing

LEMMA StepType ==
    ASSUME TypeOK, NEW w \in Workers, NEW x, Step(w, x)
    PROVE  TypeOK'
<1>1. worker' \in [Workers -> WorkerRow] /\ active' \in SUBSET Sessions
  BY Became DEF Step
<1> QED BY <1>1 DEF Step, TypeOK

\* Its session is its own: the other workers and the other items are as before.
LEMMA StepOthers ==
    ASSUME QueueInv, NEW w \in Workers, worker[w].at # "idle", NEW x, Step(w, x)
    PROVE  /\ InsertedOnce' /\ CalledTogether' /\ Alone'
           /\ \A v \in Workers : v # w => WorkerOK(v)'
           /\ \A i \in Items : SessionOf[i] # w[2] => ItemOK(i)'
<1>1. /\ worker'[w] = x
      /\ \A v \in Workers : v # w => worker'[v] = worker[v]
  BY Became DEF QueueInv, Step
<1>2. InsertedOnce'
  <2>1. SUFFICES ASSUME NEW i \in Items, call'[i] \in Calling
                 PROVE  row'[i] = [status |-> "absent", nr |-> 0]
    BY DEF InsertedOnce, Calling
  <2>2. row[i] = [status |-> "absent", nr |-> 0]
    BY <2>1 DEF Step, QueueInv, InsertedOnce
  <2> QED BY <2>2 DEF Step, Status
<1>3. Alone'
  <2>1. Alone
    BY DEF QueueInv
  <2>2. ASSUME NEW v \in Workers, worker'[v].at # "idle"
        PROVE  v[2] \in active' /\ worker[v].at # "idle"
    <3>1. CASE v = w
      BY <1>1, <2>1, <2>2, <3>1 DEF Alone, Step, Becomes
    <3>2. CASE v # w
      <4>1. worker[v].at # "idle"
        BY <1>1, <2>2, <3>2
      <4>2. v[2] # w[2] /\ v[2] \in active
        BY <2>1, <3>2, <4>1 DEF Alone
      <4> QED BY <4>1, <4>2 DEF Step, Becomes
    <3> QED BY <3>1, <3>2
  <2>3. ASSUME NEW u \in Workers, NEW v \in Workers, u[2] = v[2],
               worker'[u].at # "idle", worker'[v].at # "idle"
        PROVE  u = v
    BY <2>1, <2>2, <2>3 DEF Alone
  <2> QED BY <2>2, <2>3 DEF Alone
<1>4. ASSUME NEW v \in Workers, v # w PROVE WorkerOK(v)'
  <2>1. worker'[v] = worker[v] /\ WorkerOK(v)
    BY <1>1, <1>4 DEF QueueInv
  <2>2. CASE worker[v].at = "idle"
    BY <2>1, <2>2 DEF WorkerOK, Shape, Clear, Owns, Fresh, Given, Holding, Before,
                      Under, After, Settled
  <2>3. CASE worker[v].at # "idle"
    <3>1. v[2] # w[2]
      BY <1>4, <2>3 DEF QueueInv, Alone
    <3>2. \A i \in Items : SessionOf[i] = v[2] =>
             /\ row'[i] = row[i] /\ ran'[i] = ran[i] /\ cause'[i] = cause[i]
             /\ i \in processing' <=> i \in processing
      BY <3>1 DEF Step
    <3>3. \A i \in worker[v].got : i \in Items /\ SessionOf[i] = v[2]
      <4>1. TypeOK /\ Shape(v)
        BY <2>1 DEF QueueInv, WorkerOK
      <4>2. worker[v].got \subseteq Items
        BY <4>1, Worker
      <4>3. CASE worker[v].at \in Holding
        <5>1. /\ worker[v].item \in Items
              /\ SessionOf[worker[v].item] = v[2]
              /\ worker[v].got \subseteq {worker[v].item} \cup Batch(worker[v].item)
          BY <4>1, <4>2, <4>3 DEF Shape
        <5> QED BY <4>2, <5>1, OneSessionPerBatch
      <4>4. CASE worker[v].at \notin Holding
        BY <4>1, <4>4 DEF Shape
      <4> QED BY <4>3, <4>4
    <3>4. Shape(v)'
      BY <2>1, <3>2, <3>3 DEF WorkerOK, Shape, Status, Batch
    <3>5. Clear(v)'
      BY <2>1, <3>2 DEF WorkerOK, Clear, Status
    <3>6. Owns(v)'
      BY <2>1, <3>2 DEF WorkerOK, Owns, Status, Batch
    <3>7. Fresh(v)'
      BY <2>1, <3>2, <3>3 DEF WorkerOK, Fresh, Status
    <3>8. Given(v)'
      BY <2>1, <3>2, <3>3 DEF WorkerOK, Given
    <3> QED BY <3>4, <3>5, <3>6, <3>7, <3>8 DEF WorkerOK
  <2> QED BY <2>2, <2>3
<1>5. ASSUME NEW i \in Items, SessionOf[i] # w[2] PROVE ItemOK(i)'
  <2>1. /\ row'[i] = row[i] /\ ran'[i] = ran[i] /\ cause'[i] = cause[i]
        /\ i \in processing' <=> i \in processing
        /\ boot' = boot
        /\ ItemOK(i)
    BY <1>5 DEF Step, QueueInv
  <2>2. ASSUME NEW v \in Workers, Serves(v, i) PROVE v # w
    <3>1. /\ worker[v].item # None
          /\ i \in worker[v].got \cup Batch(worker[v].item)
          /\ Shape(v) /\ TypeOK
      BY <2>2 DEF Serves, QueueInv, WorkerOK
    <3>2. /\ worker[v].item \in Items
          /\ SessionOf[worker[v].item] = v[2]
          /\ worker[v].got \subseteq {worker[v].item} \cup Batch(worker[v].item)
      BY <3>1, Worker DEF Shape
    <3>3. SessionOf[i] = v[2]
      BY <3>1, <3>2, OneSessionPerBatch
    <3> QED BY <1>5, <3>3
  <2>3. Attended(i)'
    BY <1>1, <2>1, <2>2 DEF ItemOK, Attended, Serves, Status, Batch
  <2>4. Once(i)' /\ Seen(i)' /\ Recovered(i)'
    BY <2>1 DEF ItemOK, Once, Seen, Recovered, Status
  <2> QED BY <2>3, <2>4 DEF ItemOK
<1>6. CalledTogether'
  BY DEF QueueInv, CalledTogether, Step
<1> QED BY <1>2, <1>3, <1>4, <1>5, <1>6

\* So it is enough to look at the worker and at the items of its session.
LEMMA StepInv ==
    ASSUME QueueInv, NEW w \in Workers, worker[w].at # "idle", NEW x, Step(w, x),
           WorkerOK(w)', \A i \in Items : SessionOf[i] = w[2] => ItemOK(i)'
    PROVE  QueueInv'
<1>1. TypeOK'
  BY StepType DEF QueueInv
<1>2. /\ InsertedOnce' /\ CalledTogether' /\ Alone'
      /\ \A v \in Workers : v # w => WorkerOK(v)'
      /\ \A i \in Items : SessionOf[i] # w[2] => ItemOK(i)'
  BY StepOthers
<1> QED BY <1>1, <1>2 DEF QueueInv

LEMMA Holds ==
    ASSUME QueueInv, NEW w \in Workers, worker[w].at \in Holding
    PROVE  /\ TypeOK /\ WorkerOK(w)
           /\ worker[w].item \in Items /\ worker[w].item \in worker[w].got
           /\ worker[w].got \subseteq {worker[w].item} \cup Batch(worker[w].item)
           /\ \A i \in {worker[w].item} \cup worker[w].got \cup Batch(worker[w].item) :
                 i \in Items /\ SessionOf[i] = w[2]
           /\ \A i \in worker[w].got : Status(i) # "absent"
<1>1. TypeOK /\ WorkerOK(w)
  BY DEF QueueInv
<1>2. /\ worker[w].item \in worker[w].got
      /\ SessionOf[worker[w].item] = w[2]
      /\ worker[w].got \subseteq {worker[w].item} \cup Batch(worker[w].item)
      /\ \A i \in worker[w].got : Status(i) # "absent"
  BY <1>1 DEF WorkerOK, Shape
<1>3. worker[w].got \subseteq Items
  BY <1>1, Worker
<1> QED BY <1>1, <1>2, <1>3, OneSessionPerBatch

\* Whoever serves an item of the session of w is w.
LEMMA OneServer ==
    ASSUME QueueInv, NEW w \in Workers, worker[w].at # "idle",
           NEW i \in Items, SessionOf[i] = w[2], NEW v \in Workers, Serves(v, i)
    PROVE  v = w /\ worker[w].at \in Holding
<1>1. worker[v].item # None /\ i \in worker[v].got \cup Batch(worker[v].item)
  BY DEF Serves
<1>2. worker[v].at \in Holding
  BY <1>1 DEF QueueInv, WorkerOK, Shape
<1>3. SessionOf[i] = v[2]
  BY <1>1, <1>2, Holds
<1>4. worker[v].at # "idle"
  BY <1>2 DEF Holding, Before, Under, After, Settled
<1> QED BY <1>2, <1>3, <1>4 DEF QueueInv, Alone

\* A worker that goes on.
LEMMA StepGoesOn ==
    ASSUME QueueInv, NEW w \in Workers, worker[w].at # "idle", NEW x, Step(w, x),
           x.at \notin {"idle", "check"}, WorkerOK(w)',
           \A i \in Items : SessionOf[i] = w[2] => Once(i)' /\ Seen(i)'
    PROVE  QueueInv'
<1>1. worker'[w] = x
  BY Became DEF QueueInv, Step
<1>2. TypeOK'
  BY StepType DEF QueueInv
<1>3. x.at \in At /\ worker'[w].item \in Items \cup {None}
  BY <1>1 DEF Step, Becomes, WorkerRow, At, Holding, Before, Under, After, Settled
<1>4. ASSUME NEW i \in Items, SessionOf[i] = w[2] PROVE ItemOK(i)'
  <2>1. Recovered(i)'
    BY DEF QueueInv, ItemOK, Recovered, Step
  <2>2. Attended(i)'
    <3>1. CASE x.at \in {"select"} \cup Before
      BY <1>1, <1>4, <3>1 DEF WorkerOK, Clear, Attended
    <3>2. CASE x.at \in Under
      <4>1. SUFFICES ASSUME Status(i)' = "processing" \/ i \in processing'
                     PROVE  Serves(w, i)'
        BY DEF Attended
      <4>2. x.at \in Holding
        BY <3>2 DEF Holding
      <4>3. worker'[w].item \in worker'[w].got /\ worker'[w].got \subseteq Items
        BY <1>1, <4>2 DEF WorkerOK, Shape, Step, Becomes, WorkerRow
      <4>4. i \in worker'[w].got \cup Batch(worker'[w].item)
        BY <1>1, <1>4, <3>2, <4>1, <4>3 DEF WorkerOK, Owns, Batch
      <4>5. worker'[w].item # None
        BY <4>3, QueueAssumption
      <4> QED BY <4>4, <4>5 DEF Serves, Batch
    <3> QED BY <1>3, <3>1, <3>2 DEF At, Holding
  <2> QED BY <1>4, <2>1, <2>2 DEF ItemOK
<1> QED BY <1>4, StepInv

\* A worker that is finished.
LEMMA StepFinishes ==
    ASSUME QueueInv, NEW w \in Workers, worker[w].at # "idle", Step(w, IdleWorker),
           \A i \in Items : SessionOf[i] = w[2] => Attended(i)' /\ Once(i)' /\ Seen(i)'
    PROVE  QueueInv'
<1>1. worker'[w] = IdleWorker
  BY Became DEF QueueInv, Step
<1>2. WorkerOK(w)'
  BY <1>1 DEF IdleWorker, WorkerOK, Shape, Clear, Owns, Fresh, Given, Holding, Before,
              Under, After, Settled
<1>3. ASSUME NEW i \in Items, SessionOf[i] = w[2] PROVE ItemOK(i)'
  <2>1. Recovered(i)'
    BY DEF QueueInv, ItemOK, Recovered, Step
  <2> QED BY <1>3, <2>1 DEF ItemOK
<1> QED BY <1>2, <1>3, StepInv

\* A step that leaves the rows alone, and what it says of items.
Quiet == UNCHANGED <<row, processing, ran, cause, faults>>

LEMMA QuietStep ==
    ASSUME TypeOK, NEW w \in Workers, NEW x, Becomes(w, x), Quiet,
           UNCHANGED <<call, collectTimers, ticking, scan, boot, chat, cancels>>
    PROVE  Step(w, x)
  BY DEF Step, Quiet, TypeOK

LEMMA QuietItems ==
    ASSUME QueueInv, Quiet, NEW i \in Items
    PROVE  /\ Once(i)' /\ Seen(i)'
           /\ ~Attended(i)' => /\ Status(i) = "processing" \/ i \in processing
                               /\ cause[i] = {}
  BY DEF QueueInv, ItemOK, Quiet, Once, Seen, Attended, Status

----------------------------------------------------------------------------
(* dequeue.                                                                *)

LEMMA CheckInv ==
    ASSUME QueueInv, NEW w \in Workers, Check(w)
    PROVE  QueueInv'
<1>1. TypeOK /\ Shape(w) /\ worker[w].at = "check" /\ Quiet
  BY DEF QueueInv, WorkerOK, Check, Quiet
<1>2. worker[w].item = None /\ worker[w].got = {} /\ worker[w].at \notin Holding
  BY <1>1 DEF Shape, Holding, Before, Under, After, Settled
<1>3. CASE Finish(w)
  <2>1. Step(w, IdleWorker)
    BY <1>1, <1>3, FinishBecomes, QuietStep DEF Check
  <2>2. ASSUME NEW i \in Items, SessionOf[i] = w[2]
        PROVE  Attended(i)' /\ Once(i)' /\ Seen(i)'
    <3>1. \A v \in Workers : ~Serves(v, i)
      BY <1>1, <1>2, <2>2, OneServer
    <3>2. Status(i) = "processing" \/ i \in processing => cause[i] # {}
      BY <3>1 DEF QueueInv, ItemOK, Attended
    <3> QED BY <1>1, <3>2, QuietItems
  <2> QED BY <1>1, <2>1, <2>2, StepFinishes
<1>4. CASE GoesTo(w, "select") /\ active' = active /\ ~IsSessionProcessing(w[2])
  <2> DEFINE x == [at |-> "select", item |-> worker[w].item, got |-> worker[w].got]
  <2>1. "select" \in At \ {"idle"}
    BY DEF At
  <2>2. Step(w, x)
    BY <1>1, <1>4, <2>1, GoBecomes, QuietStep DEF Check
  <2>3. worker'[w] = x
    BY <1>1, <2>2, Became DEF Step
  <2>4. WorkerOK(w)'
    <3>1. Clear(w)'
      BY <1>1, <1>4 DEF Clear, IsSessionProcessing, Quiet, Status
    <3> QED BY <1>2, <2>3, <3>1 DEF WorkerOK, Shape, Owns, Fresh, Given, Holding, Before,
                                    Under, After, Settled
  <2>5. \A i \in Items : Once(i)' /\ Seen(i)'
    BY <1>1, QuietItems
  <2>6. x.at \notin {"idle", "check"}
    OBVIOUS
  <2> HIDE DEF x
  <2> QED BY <1>1, <2>2, <2>4, <2>5, <2>6, StepGoesOn
<1> QED BY <1>3, <1>4 DEF Check

LEMMA OldestIs == ASSUME NEW S, NEW i \in Oldest(S) PROVE i \in S
  BY DEF Oldest

\* A worker whose session is clear may finish.
LEMMA ClearFinish ==
    ASSUME QueueInv, NEW w \in Workers, worker[w].at \in {"select"} \cup Before,
           Finish(w), Quiet, UNCHANGED <<call, collectTimers, ticking, scan, boot, chat, cancels>>
    PROVE  QueueInv'
<1>1. TypeOK /\ Clear(w) /\ worker[w].at # "idle"
  BY DEF QueueInv, WorkerOK, Before
<1>2. Step(w, IdleWorker)
  BY <1>1, FinishBecomes, QuietStep
<1>3. ASSUME NEW i \in Items, SessionOf[i] = w[2]
      PROVE  Attended(i)' /\ Once(i)' /\ Seen(i)'
  BY <1>1, <1>3, QuietItems DEF Clear
<1> QED BY <1>1, <1>2, <1>3, StepFinishes

LEMMA SelectInv ==
    ASSUME QueueInv, NEW w \in Workers, Select(w)
    PROVE  QueueInv'
<1>1. /\ TypeOK /\ Clear(w) /\ worker[w].at = "select" /\ Quiet
      /\ UNCHANGED <<call, collectTimers, ticking, scan, boot, chat, cancels>>
  BY DEF QueueInv, WorkerOK, Select, Quiet
<1>2. CASE Pending(w[2]) = {}
  BY <1>1, <1>2, ClearFinish DEF Select
<1>3. CASE Pending(w[2]) # {}
  <2>1. PICK i \in Oldest(Pending(w[2])) :
           worker' = [worker EXCEPT
              ![w] = [at   |-> IF BatchOf[i] = None THEN "mark" ELSE "batch",
                      item |-> i, got |-> {i}]]
    BY <1>3 DEF Select
  <2> DEFINE a == IF BatchOf[i] = None THEN "mark" ELSE "batch"
  <2> DEFINE x == [at |-> a, item |-> i, got |-> {i}]
  <2>2. i \in Items /\ SessionOf[i] = w[2] /\ Status(i) = "pending"
    BY <2>1, OldestIs DEF Pending
  <2>3. a \in {"mark", "batch"}
    OBVIOUS
  <2>4. x \in WorkerRow
    BY <2>2, <2>3 DEF WorkerRow
  <2>5. Becomes(w, x)
    <3>1. x.at # "idle"
      BY <2>3
    <3> QED BY <1>3, <2>1, <2>4, <3>1 DEF Becomes, Select
  <2>6. Step(w, x)
    BY <1>1, <2>5, QuietStep
  <2>7. worker'[w] = x
    BY <1>1, <2>5, Became
  <2>8. Once(i)
    BY <2>2 DEF QueueInv, ItemOK
  <2>9. WorkerOK(w)'
    <3>1. Shape(w)'
      BY <1>1, <2>2, <2>3, <2>7 DEF Shape, Holding, Before, Quiet, Status
    <3>2. Clear(w)'
      BY <1>1 DEF Clear, Quiet, Status
    <3>3. Fresh(w)'
      BY <1>1, <2>2, <2>3, <2>7, <2>8 DEF Fresh, Once, Quiet
    <3>4. Owns(w)' /\ Given(w)'
      BY <2>3, <2>7 DEF Owns, Given, Under, After, Settled
    <3> QED BY <3>1, <3>2, <3>3, <3>4 DEF WorkerOK
  <2>10. \A j \in Items : Once(j)' /\ Seen(j)'
    BY <1>1, QuietItems
  <2>11. x.at \notin {"idle", "check"}
    BY <2>3
  <2> HIDE DEF x
  <2> QED BY <1>1, <2>6, <2>9, <2>10, <2>11, StepGoesOn
<1> QED BY <1>2, <1>3

LEMMA MarkInv ==
    ASSUME QueueInv, NEW w \in Workers, Mark(w)
    PROVE  QueueInv'
<1> DEFINE i == worker[w].item
<1> DEFINE x == [at |-> "prepare", item |-> i, got |-> worker[w].got]
<1>1. worker[w].at = "mark" /\ worker[w].at \in Holding
  BY DEF Mark, Holding, Before
<1>2. /\ TypeOK /\ WorkerOK(w) /\ i \in Items /\ SessionOf[i] = w[2]
      /\ i \in worker[w].got /\ Status(i) # "absent"
  BY <1>1, Holds
<1>3. worker[w].got = {i}
  BY <1>1, <1>2 DEF WorkerOK, Shape
<1>4. /\ row' \in [Items -> ItemRow]
      /\ row'[i].status = "processing"
      /\ \A j \in Items : j # i => row'[j] = row[j]
  <2>1. row' = With({i}, "processing") /\ "processing" \in Statuses
    BY DEF Mark, Statuses
  <2> QED BY <1>2, <2>1, Rows
<1>5. processing' = processing \cup {i} /\ processing' \subseteq Items
  BY <1>2 DEF Mark, TypeOK
<1>6. Becomes(w, x)
  <2>1. "prepare" \in At \ {"idle"}
    BY WorkerNames
  <2> QED BY <1>2, <2>1, GoBecomes DEF Mark
<1>7. Step(w, x)
  <2>1. \A j \in Items : row'[j] # row[j] => Status(j) # "absent" /\ Status(j)' # "absent"
    BY <1>2, <1>4 DEF Status
  <2>2. \A j \in Items : SessionOf[j] # w[2] =>
           row'[j] = row[j] /\ (j \in processing' <=> j \in processing)
    BY <1>2, <1>4, <1>5
  <2> QED BY <1>2, <1>4, <1>5, <1>6, <2>1, <2>2 DEF Step, Mark, TypeOK
<1>8. worker'[w] = x
  BY <1>2, <1>6, Became
<1>9. WorkerOK(w)'
  <2>1. Shape(w)'
    BY <1>2, <1>3, <1>4, <1>8 DEF Shape, Holding, Under, Status
  <2>2. Owns(w)'
    <3>1. \A j \in Items : SessionOf[j] = w[2] => Status(j) # "processing" /\ j \notin processing
      BY <1>1, <1>2 DEF WorkerOK, Clear, Before
    <3> QED BY <1>2, <1>4, <1>5, <1>8, <3>1 DEF Owns, Status, Settled
  <2>3. Fresh(w)'
    <3>1. "crash" \in cause[i] \/ ran[i] = 0
      BY <1>1, <1>2 DEF WorkerOK, Fresh, Before
    <3>2. ran' = ran /\ cause' = cause
      BY DEF Mark
    <3>3. worker'[w].got = {i}
      BY <1>3, <1>8
    <3>4. Status(i) = row[i].status /\ row'[i].status # "pending"
      BY <1>4 DEF Status
    <3> HIDE DEF i, x
    <3> QED BY <3>1, <3>2, <3>3, <3>4 DEF Fresh, Status
  <2>4. Clear(w)' /\ Given(w)'
    BY <1>8 DEF Clear, Before, Given, After, Settled
  <2> QED BY <2>1, <2>2, <2>3, <2>4 DEF WorkerOK
<1>10. ASSUME NEW j \in Items PROVE Once(j)' /\ Seen(j)'
  <2>1. Once(j) /\ Seen(j) /\ ran' = ran /\ cause' = cause
    BY DEF QueueInv, ItemOK, Mark
  <2>2. CASE j = i
    <3>1. "crash" \in cause[i] \/ ran[i] = 0
      BY <1>1, <1>2 DEF WorkerOK, Fresh, Before
    <3> QED BY <1>4, <2>1, <2>2, <3>1 DEF Once, Seen, Status
  <2>3. CASE j # i
    BY <1>4, <2>1, <2>3 DEF Once, Seen, Status
  <2> QED BY <2>2, <2>3
<1>11. x.at \notin {"idle", "check"} /\ worker[w].at # "idle"
  BY <1>1
<1> HIDE DEF x
<1> QED BY <1>7, <1>9, <1>10, <1>11, StepGoesOn

LEMMA SelectBatchInv ==
    ASSUME QueueInv, NEW w \in Workers, SelectBatch(w)
    PROVE  QueueInv'
<1> DEFINE S == {i \in Batch(worker[w].item) : Status(i) = "pending"}
<1>1. /\ worker[w].at = "batch" /\ worker[w].at \in Holding /\ Quiet
      /\ UNCHANGED <<call, collectTimers, ticking, scan, boot, chat, cancels>>
  BY DEF SelectBatch, Holding, Before, Quiet
<1>2. /\ TypeOK /\ WorkerOK(w) /\ worker[w].item \in Items
      /\ \A i \in Batch(worker[w].item) : i \in Items /\ SessionOf[i] = w[2]
  BY <1>1, Holds
<1>3. CASE S = {}
  BY <1>1, <1>3, ClearFinish DEF SelectBatch, Before
<1>4. CASE S # {}
  <2>1. PICK i \in Oldest(S) :
           worker' = [worker EXCEPT ![w] = [at |-> "markBatch", item |-> i, got |-> S]]
    BY <1>4 DEF SelectBatch
  <2> DEFINE x == [at |-> "markBatch", item |-> i, got |-> S]
  <2>2. i \in S
    BY <2>1, OldestIs
  <2>3. i \in Items /\ SessionOf[i] = w[2] /\ S \subseteq Items /\ S \subseteq Batch(i)
    BY <1>2, <2>2, OneSessionPerBatch
  <2>4. Becomes(w, x)
    <3>1. x \in WorkerRow
      BY <2>3 DEF WorkerRow
    <3> QED BY <1>4, <2>1, <3>1 DEF Becomes, SelectBatch
  <2>5. Step(w, x)
    BY <1>1, <1>2, <2>4, QuietStep
  <2>6. worker'[w] = x
    BY <1>2, <2>4, Became
  <2>7. \A j \in S : Status(j) = "pending" /\ Once(j)
    BY <2>3 DEF QueueInv, ItemOK
  <2>8. WorkerOK(w)'
    <3>1. Shape(w)'
      BY <1>1, <2>2, <2>3, <2>6, <2>7 DEF Shape, Holding, Before, Quiet, Status, Batch
    <3>2. Clear(w)'
      BY <1>1, <1>2 DEF WorkerOK, Clear, Before, Quiet, Status
    <3>3. Fresh(w)'
      BY <1>1, <2>6, <2>7 DEF Fresh, Once, Quiet
    <3>4. Owns(w)' /\ Given(w)'
      BY <2>6 DEF Owns, Given, Under, After, Settled
    <3> QED BY <3>1, <3>2, <3>3, <3>4 DEF WorkerOK
  <2>9. \A j \in Items : Once(j)' /\ Seen(j)'
    BY <1>1, QuietItems
  <2>10. x.at \notin {"idle", "check"}
    OBVIOUS
  <2> HIDE DEF x
  <2> QED BY <1>1, <2>5, <2>8, <2>9, <2>10, StepGoesOn
<1> QED BY <1>3, <1>4

LEMMA MarkBatchInv ==
    ASSUME QueueInv, NEW w \in Workers, MarkBatch(w)
    PROVE  QueueInv'
<1> DEFINE i == worker[w].item
<1> DEFINE S == {j \in Batch(i) : Status(j) = "pending"}
<1> DEFINE x == [at |-> "prepare", item |-> i, got |-> worker[w].got]
<1>1. /\ worker[w].at = "markBatch" /\ worker[w].at \in Holding
      /\ processing' = processing \cup {i}
  BY DEF MarkBatch, Holding, Before
<1>2. /\ TypeOK /\ WorkerOK(w) /\ i \in Items /\ SessionOf[i] = w[2]
      /\ i \in worker[w].got
      /\ worker[w].got \subseteq {i} \cup Batch(i)
      /\ \A j \in {i} \cup worker[w].got \cup Batch(i) : j \in Items /\ SessionOf[j] = w[2]
      /\ \A j \in worker[w].got : Status(j) # "absent"
  BY <1>1, Holds
<1>3. /\ row' \in [Items -> ItemRow]
      /\ \A j \in Items : Status(j)' = IF j \in S THEN "processing" ELSE Status(j)
      /\ \A j \in Items : j \notin S => row'[j] = row[j]
  BY <1>2, Rows DEF MarkBatch, Statuses, Status
<1>4. /\ cause' \in [Items -> SUBSET {"crash", "db", "late", "unarmed"}]
      /\ \A j \in Items : cause[j] \subseteq cause'[j]
      /\ \A j \in Items : j \notin S => cause'[j] = cause[j]
      /\ \A j \in S \ worker[w].got : "late" \in cause'[j]
  <2>1. S \ worker[w].got \subseteq Items
    BY <1>2
  <2> QED BY <1>2, <2>1, Blamed DEF MarkBatch
<1>5. Becomes(w, x)
  <2>1. "prepare" \in At \ {"idle"}
    BY WorkerNames
  <2> QED BY <1>2, <2>1, GoBecomes DEF MarkBatch
<1>6. \A j \in Items : row'[j] # row[j] => Status(j) # "absent" /\ Status(j)' # "absent"
  BY <1>3
<1>7. \A j \in Items : SessionOf[j] # w[2] =>
          /\ row'[j] = row[j] /\ cause'[j] = cause[j]
          /\ j \in processing' <=> j \in processing
  BY <1>1, <1>2, <1>3, <1>4
<1>8. Step(w, x)
  <2>1. processing' \in SUBSET Items
    BY <1>1, <1>2 DEF TypeOK
  <2> QED BY <1>2, <1>3, <1>4, <1>5, <1>6, <1>7, <2>1 DEF Step, MarkBatch, TypeOK
<1>9. worker'[w] = x
  BY <1>2, <1>5, Became
<1>10. WorkerOK(w)'
  <2>1. Shape(w)'
    BY <1>2, <1>3, <1>9 DEF Shape, Holding, Under, Batch
  <2>2. Owns(w)'
    <3>1. \A j \in Items : SessionOf[j] = w[2] => Status(j) # "processing" /\ j \notin processing
      BY <1>1, <1>2 DEF WorkerOK, Clear, Before
    <3>2. \A j \in Items : SessionOf[j] = w[2] /\ j \in processing' => j = i
      BY <1>1, <3>1
    <3>3. \A j \in Items : SessionOf[j] = w[2] /\ Status(j)' = "processing" => j \in S
      BY <1>3, <3>1
    <3> QED BY <1>4, <1>9, <3>2, <3>3 DEF Owns, Settled, Batch
  <2>3. Fresh(w)'
    <3>1. \A j \in worker[w].got : "crash" \in cause[j] \/ ran[j] = 0
      BY <1>1, <1>2 DEF WorkerOK, Fresh, Before
    <3>2. \A j \in worker[w].got : Status(j)' # "pending"
      <4>1. worker[w].got \subseteq Batch(i)
        BY <1>1, <1>2 DEF WorkerOK, Shape
      <4> QED BY <1>2, <1>3, <4>1
    <3> QED BY <1>2, <1>4, <1>9, <3>1, <3>2 DEF Fresh, MarkBatch
  <2>4. Clear(w)' /\ Given(w)'
    BY <1>9 DEF Clear, Before, Given, After, Settled
  <2> QED BY <2>1, <2>2, <2>3, <2>4 DEF WorkerOK
<1>11. ASSUME NEW j \in Items PROVE Once(j)' /\ Seen(j)'
  <2>1. Once(j) /\ Seen(j) /\ ran' = ran
    BY DEF QueueInv, ItemOK, MarkBatch
  <2> QED BY <1>3, <1>4, <2>1 DEF Once, Seen
<1>12. x.at \notin {"idle", "check"} /\ worker[w].at # "idle"
  BY <1>1
<1> HIDE DEF x
<1> QED BY <1>8, <1>10, <1>11, <1>12, StepGoesOn

----------------------------------------------------------------------------
(* executeItem, complete and fail.                                         *)

\* A failed statement finishes a worker, and is blamed for what it served.
LEMMA BlamedFinish ==
    ASSUME QueueInv, NEW w \in Workers, worker[w].at \in Under, Finish(w),
           cause' = Blame(worker[w].got \cup Batch(worker[w].item), "db"),
           UNCHANGED <<row, processing, ran>>, faults' \in 0 .. MaxFaults,
           UNCHANGED <<call, collectTimers, ticking, scan, boot, chat, cancels>>
    PROVE  QueueInv'
<1> DEFINE S == worker[w].got \cup Batch(worker[w].item)
<1>1. worker[w].at \in Holding /\ worker[w].at # "idle"
  BY DEF Holding, Under, After, Settled
<1>2. /\ TypeOK /\ Owns(w) /\ worker[w].item \in worker[w].got
      /\ \A j \in S : j \in Items /\ SessionOf[j] = w[2]
  BY <1>1, Holds DEF WorkerOK
<1>3. /\ cause' \in [Items -> SUBSET {"crash", "db", "late", "unarmed"}]
      /\ \A j \in Items : /\ cause[j] \subseteq cause'[j]
                          /\ j \in S => "db" \in cause'[j]
                          /\ j \notin S => cause'[j] = cause[j]
  BY <1>2, Blamed
<1>4. Step(w, IdleWorker)
  <2>1. Becomes(w, IdleWorker)
    BY FinishBecomes
  <2>2. \A j \in Items : SessionOf[j] # w[2] => cause'[j] = cause[j]
    BY <1>2, <1>3
  <2> QED BY <1>2, <1>3, <2>1, <2>2 DEF Step, TypeOK
<1>5. ASSUME NEW j \in Items, SessionOf[j] = w[2]
      PROVE  Attended(j)' /\ Once(j)' /\ Seen(j)'
  <2>1. Once(j) /\ Seen(j)
    BY DEF QueueInv, ItemOK
  <2>2. Once(j)' /\ Seen(j)'
    BY <1>3, <2>1 DEF Once, Seen, Status
  <2>3. Status(j) = "processing" \/ j \in processing => j \in S
    BY <1>2, <1>5 DEF Owns
  <2>4. Attended(j)'
    BY <1>3, <2>3 DEF Attended, Status
  <2> QED BY <2>2, <2>4
<1> QED BY <1>1, <1>4, <1>5, StepFinishes

LEMMA PrepareInv ==
    ASSUME QueueInv, NEW w \in Workers, Prepare(w)
    PROVE  QueueInv'
<1> DEFINE x == [at |-> "run", item |-> worker[w].item, got |-> worker[w].got]
<1>1. /\ worker[w].at = "prepare" /\ worker[w].at \in Holding /\ worker[w].at \in Under
      /\ UNCHANGED <<row, processing, call, collectTimers, ticking, scan, boot, chat, cancels>>
  BY DEF Prepare, Holding, Under
<1>2. /\ TypeOK /\ WorkerOK(w)
      /\ worker[w].got \subseteq Items
      /\ \A j \in worker[w].got : SessionOf[j] = w[2] /\ Status(j) # "absent"
  BY <1>1, Holds
<1>3. CASE /\ GoesTo(w, "run")
           /\ ran' = [i \in Items |-> IF i \in worker[w].got THEN ran[i] + 1 ELSE ran[i]]
           /\ UNCHANGED <<active, cause, faults>>
  <2>1. Becomes(w, x)
    <3>1. "run" \in At \ {"idle"}
      BY WorkerNames
    <3> QED BY <1>2, <1>3, <3>1, GoBecomes
  <2>2. ran' \in [Items -> Nat]
    BY <1>2, <1>3 DEF TypeOK
  <2>3. \A j \in Items : SessionOf[j] # w[2] => ran'[j] = ran[j]
    BY <1>2, <1>3
  <2>4. Step(w, x)
    BY <1>1, <1>2, <1>3, <2>1, <2>2, <2>3 DEF Step, TypeOK
  <2>5. worker'[w] = x
    BY <1>2, <2>1, Became
  <2>6. WorkerOK(w)'
    <3>1. Shape(w)'
      BY <1>1, <1>2, <2>5 DEF WorkerOK, Shape, Holding, Under, After, Status, Batch
    <3>2. Owns(w)'
      BY <1>1, <1>2, <1>3, <2>5 DEF WorkerOK, Owns, Under, After, Settled, Status, Batch
    <3>3. \A j \in worker[w].got : ran'[j] > 0
      BY <1>2, <1>3 DEF TypeOK
    <3>4. Clear(w)' /\ Fresh(w)' /\ Given(w)'
      BY <2>5, <3>3 DEF Clear, Fresh, Given, Before
    <3> QED BY <3>1, <3>2, <3>4 DEF WorkerOK
  <2>7. ASSUME NEW j \in Items PROVE Once(j)' /\ Seen(j)'
    <3>1. Once(j) /\ Seen(j) /\ ran[j] \in Nat
      BY <1>2 DEF QueueInv, ItemOK, TypeOK
    <3>2. CASE j \in worker[w].got
      <4>1. "crash" \in cause[j] \/ (ran[j] = 0 /\ Status(j) # "pending")
        BY <1>1, <1>2, <3>2 DEF WorkerOK, Fresh
      <4>2. ran'[j] = ran[j] + 1 /\ Status(j) # "absent"
        BY <1>2, <1>3, <3>2
      <4> QED BY <1>1, <1>3, <3>1, <4>1, <4>2 DEF Once, Seen, Status
    <3>3. CASE j \notin worker[w].got
      <4>1. ran'[j] = ran[j]
        BY <1>3, <3>3
      <4> QED BY <1>1, <1>3, <3>1, <4>1 DEF Once, Seen, Status
    <3> QED BY <3>2, <3>3
  <2>8. x.at \notin {"idle", "check"} /\ worker[w].at # "idle"
    BY <1>1
  <2> HIDE DEF x
  <2> QED BY <2>4, <2>6, <2>7, <2>8, StepGoesOn
<1>4. CASE /\ Fault("db")
           /\ cause' = Blame(worker[w].got \cup Batch(worker[w].item), "db")
           /\ Finish(w)
           /\ UNCHANGED ran
  <2>1. faults' \in 0 .. MaxFaults
    BY <1>2, <1>4, QueueAssumption DEF Fault, TypeOK
  <2> QED BY <1>1, <1>4, <2>1, BlamedFinish
<1> QED BY <1>3, <1>4 DEF Prepare

\* From one statement to the next of those that follow the agent's run.
LEMMA AfterGoes ==
    ASSUME QueueInv, NEW w \in Workers, worker[w].at \in After,
           NEW a \in {"complete", "fail"}, worker[w].at \in Settled => a = "fail",
           GoesTo(w, a), UNCHANGED <<active, row, processing, ran, cause>>,
           faults' \in 0 .. MaxFaults,
           UNCHANGED <<call, collectTimers, ticking, scan, boot, chat, cancels>>
    PROVE  QueueInv'
<1> DEFINE x == [at |-> a, item |-> worker[w].item, got |-> worker[w].got]
<1>1. worker[w].at \in Holding /\ worker[w].at \in Under /\ worker[w].at # "idle"
  BY DEF Holding, Under, After, Settled
<1>2. TypeOK /\ WorkerOK(w) /\ \A i \in worker[w].got : Status(i) # "absent"
  BY <1>1, Holds
<1>3. Becomes(w, x)
  <2>1. a \in At \ {"idle"}
    BY WorkerNames
  <2> QED BY <1>2, <2>1, GoBecomes
<1>4. Step(w, x)
  BY <1>2, <1>3 DEF Step, TypeOK
<1>5. worker'[w] = x
  BY <1>2, <1>3, Became
<1>6. WorkerOK(w)'
  <2>1. Shape(w)'
    BY <1>1, <1>2, <1>5 DEF WorkerOK, Shape, Holding, Under, After, Status, Batch
  <2>2. Owns(w)'
    BY <1>1, <1>2, <1>5 DEF WorkerOK, Owns, Settled, Status, Batch
  <2>3. Given(w)'
    BY <1>2, <1>5 DEF WorkerOK, Given
  <2>4. Clear(w)' /\ Fresh(w)'
    BY <1>5 DEF Clear, Fresh, Before
  <2> QED BY <2>1, <2>2, <2>3, <2>4 DEF WorkerOK
<1>7. \A j \in Items : Once(j)' /\ Seen(j)'
  BY DEF QueueInv, ItemOK, Once, Seen, Status
<1>8. x.at \notin {"idle", "check"}
  OBVIOUS
<1> HIDE DEF x
<1> QED BY <1>1, <1>4, <1>6, <1>7, <1>8, StepGoesOn

LEMMA AgentEndsInv ==
    ASSUME QueueInv, NEW w \in Workers, AgentEnds(w)
    PROVE  QueueInv'
<1>1. worker[w].at \in After /\ worker[w].at \notin Settled
  BY DEF AgentEnds, After, Settled
<1>2. faults' \in 0 .. MaxFaults
  BY DEF AgentEnds, QueueInv, TypeOK
<1> QED BY <1>1, <1>2, AfterGoes DEF AgentEnds

LEMMA SettleFailsInv ==
    ASSUME QueueInv, NEW w \in Workers, SettleFails(w)
    PROVE  QueueInv'
<1>1. faults' \in 0 .. MaxFaults
  BY QueueAssumption DEF SettleFails, Fault, QueueInv, TypeOK
<1>2. UNCHANGED <<row, call, processing, collectTimers, ticking, scan, boot, chat, cancels, ran>>
  BY DEF SettleFails
<1>3. CASE worker[w].at \in {"complete", "completeBatch"} /\ GoesTo(w, "fail")
           /\ UNCHANGED <<active, cause>>
  <2>1. worker[w].at \in After
    BY <1>3 DEF After, Settled
  <2> QED BY <1>1, <1>2, <1>3, <2>1, AfterGoes
<1>4. CASE worker[w].at \in {"fail", "failBatch"} /\ Finish(w)
           /\ cause' = Blame(worker[w].got \cup Batch(worker[w].item), "db")
  <2>1. worker[w].at \in Under
    BY <1>4 DEF Under, After, Settled
  <2> QED BY <1>1, <1>2, <1>4, <2>1, BlamedFinish
<1> QED BY <1>3, <1>4 DEF SettleFails

LEMMA SettleInv ==
    ASSUME QueueInv, NEW w \in Workers, NEW at \in {"complete", "fail"},
           NEW st \in {"completed", "error"}, NEW next \in Settled,
           Settle(w, at, st, next)
    PROVE  QueueInv'
<1>1. /\ worker[w].at = at /\ worker[w].at \in Holding /\ worker[w].at \in Under
      /\ worker[w].at \in After
      /\ UNCHANGED <<active, call, collectTimers, ticking, scan, boot, chat, cancels, ran, cause, faults>>
  BY DEF Settle, Holding, Under, After
<1>2. /\ TypeOK /\ WorkerOK(w)
      /\ worker[w].item \in Items /\ SessionOf[worker[w].item] = w[2]
      /\ worker[w].item \in worker[w].got
      /\ \A i \in worker[w].got : Status(i) # "absent"
  BY <1>1, Holds
<1>3. PICK i \in Items : i = worker[w].item
  BY <1>2
<1> DEFINE x == [at |-> next, item |-> i, got |-> worker[w].got]
<1>4. /\ row' \in [Items -> ItemRow]
      /\ row'[i].status = st
      /\ \A j \in Items : j # i => row'[j] = row[j]
  <2>1. row' = With({i}, st) /\ st \in Statuses
    BY <1>3 DEF Settle, Statuses
  <2> QED BY <1>2, <2>1, Rows
<1>5. processing' = processing \ {i} /\ processing' \subseteq Items
  BY <1>2, <1>3 DEF Settle, TypeOK
<1>6. Becomes(w, x)
  <2>1. next \in At \ {"idle"} /\ GoesTo(w, next)
    BY WorkerNames DEF Settled, Settle
  <2> QED BY <1>1, <1>2, <1>3, <2>1, GoBecomes
<1>7. Step(w, x)
  <2>1. \A j \in Items : row'[j] # row[j] => Status(j) # "absent" /\ Status(j)' # "absent"
    BY <1>2, <1>3, <1>4 DEF Status
  <2>2. \A j \in Items : SessionOf[j] # w[2] =>
           row'[j] = row[j] /\ (j \in processing' <=> j \in processing)
    BY <1>2, <1>3, <1>4, <1>5
  <2> QED BY <1>1, <1>2, <1>4, <1>5, <1>6, <2>1, <2>2 DEF Step, TypeOK
<1>8. worker'[w] = x
  BY <1>2, <1>6, Became
<1>9. WorkerOK(w)'
  <2>1. Shape(w)'
    <3>1. \A j \in worker[w].got : Status(j)' # "absent"
      <4>1. worker[w].got \subseteq Items
        BY <1>2, Worker
      <4> QED BY <1>2, <1>4, <4>1 DEF Status
    <3>2. next \notin Before
      BY DEF Settled, Before
    <3> QED BY <1>1, <1>2, <1>3, <1>8, <3>1, <3>2 DEF WorkerOK, Shape, Before, Holding, Under,
                                              After, Batch
  <2>2. Owns(w)'
    <3>1. \A j \in Items : SessionOf[j] = w[2] => j \notin processing'
      BY <1>1, <1>2, <1>3, <1>5 DEF WorkerOK, Owns
    <3>2. \A j \in Items : SessionOf[j] = w[2] /\ Status(j)' = "processing" =>
             \/ j \in worker[w].got
             \/ j \in Batch(i) /\ "late" \in cause[j]
      BY <1>1, <1>2, <1>3, <1>4 DEF WorkerOK, Owns, Status
    <3>3. Status(i)' # "processing"
      BY <1>4 DEF Status
    <3> QED BY <1>1, <1>8, <3>1, <3>2, <3>3 DEF Owns, Batch
  <2>3. Given(w)'
    BY <1>1, <1>2, <1>8 DEF WorkerOK, Given
  <2>4. Clear(w)' /\ Fresh(w)'
    BY <1>8 DEF Clear, Fresh, Before, Settled
  <2> QED BY <2>1, <2>2, <2>3, <2>4 DEF WorkerOK
<1>10. ASSUME NEW j \in Items PROVE Once(j)' /\ Seen(j)'
  <2>1. Once(j) /\ Seen(j) /\ ran' = ran /\ cause' = cause
    BY <1>1 DEF QueueInv, ItemOK
  <2>2. CASE j = i
    <3>1. ran[i] > 0
      BY <1>1, <1>2, <1>3 DEF WorkerOK, Given
    <3> QED BY <1>4, <2>1, <2>2, <3>1 DEF Once, Seen, Status
  <2>3. CASE j # i
    BY <1>4, <2>1, <2>3 DEF Once, Seen, Status
  <2> QED BY <2>2, <2>3
<1>11. x.at \notin {"idle", "check"} /\ worker[w].at # "idle"
  BY <1>1 DEF Settled
<1> HIDE DEF x
<1> QED BY <1>7, <1>9, <1>10, <1>11, StepGoesOn

LEMMA SettleBatchInv ==
    ASSUME QueueInv, NEW w \in Workers, NEW at \in Settled,
           NEW st \in {"completed", "error"}, SettleBatch(w, at, st)
    PROVE  QueueInv'
<1> DEFINE S == Rest(worker[w].item)
<1>1. /\ worker[w].at = at /\ worker[w].at \in Holding /\ worker[w].at \in Under
      /\ worker[w].at \in After /\ worker[w].at # "idle" /\ Finish(w)
      /\ UNCHANGED <<call, processing, collectTimers, ticking, scan, boot, chat, cancels, ran, cause, faults>>
  BY DEF SettleBatch, Holding, Under, After, Settled
<1>2. /\ TypeOK /\ WorkerOK(w)
      /\ worker[w].got \subseteq {worker[w].item} \cup Batch(worker[w].item)
      /\ \A j \in Batch(worker[w].item) : j \in Items /\ SessionOf[j] = w[2]
  BY <1>1, Holds
<1>3. /\ S \subseteq Items
      /\ \A j \in S : SessionOf[j] = w[2] /\ Status(j) = "processing"
  BY <1>2 DEF Rest
<1>4. /\ row' \in [Items -> ItemRow]
      /\ \A j \in Items : Status(j)' = IF j \in S THEN st ELSE Status(j)
      /\ \A j \in Items : j \notin S => row'[j] = row[j]
  <2>1. row' = With(S, st) /\ st \in Statuses
    BY DEF SettleBatch, Statuses
  <2> QED BY <1>2, <2>1, Rows DEF Status
<1>5. Step(w, IdleWorker)
  <2>1. Becomes(w, IdleWorker)
    BY <1>1, FinishBecomes
  <2>2. \A j \in Items : row'[j] # row[j] => Status(j) # "absent" /\ Status(j)' # "absent"
    BY <1>3, <1>4
  <2>3. \A j \in Items : SessionOf[j] # w[2] => row'[j] = row[j]
    BY <1>3, <1>4
  <2> QED BY <1>1, <1>2, <1>4, <2>1, <2>2, <2>3 DEF Step, TypeOK
<1>6. ASSUME NEW j \in Items, SessionOf[j] = w[2]
      PROVE  Attended(j)' /\ Once(j)' /\ Seen(j)'
  <2>1. Once(j) /\ Seen(j) /\ ran' = ran /\ cause' = cause /\ processing' = processing
    BY <1>1 DEF QueueInv, ItemOK
  <2>2. /\ j \notin processing
        /\ Status(j) = "processing" =>
              \/ j \in worker[w].got
              \/ j \in Batch(worker[w].item) /\ "late" \in cause[j]
        /\ j = worker[w].item => Status(j) # "processing"
    BY <1>1, <1>2, <1>6 DEF WorkerOK, Owns
  <2>3. Status(j) = "processing" => j \in S
    BY <1>2, <2>2 DEF Rest
  <2>4. Attended(j)'
    BY <1>4, <2>1, <2>2, <2>3 DEF Attended
  <2>5. j \in S => ran[j] > 0 \/ "late" \in cause[j]
    BY <1>1, <1>2, <1>3, <2>2 DEF WorkerOK, Given
  <2>6. Once(j)' /\ Seen(j)'
    BY <1>3, <1>4, <2>1, <2>5 DEF Once, Seen
  <2> QED BY <2>4, <2>6
<1> QED BY <1>1, <1>5, <1>6, StepFinishes

----------------------------------------------------------------------------
(* The other steps.                                                        *)

LEMMA CallStarts ==
    ASSUME QueueInv, NEW j \in Items, Call(j), NEW i \in Items
    PROVE  /\ call'[i] \in Calling => call[i] \in Calling
           /\ call'[i] = "none" <=> call[i] = "none" /\ i # j /\ i \notin Batch(j)
<1>1. TypeOK /\ CalledTogether /\ call[j] = "none"
  BY DEF QueueInv, Call
<1>2. CASE i = j \/ i \in Batch(j)
  <2>1. call[i] = "none"
    BY <1>1, <1>2 DEF CalledTogether, Batch
  <2>2. i \in (IF BatchOf[j] = None THEN {j} ELSE Batch(j))
    BY <1>2 DEF Batch
  <2>3. call'[i] \in {"cancel", "check", "insert"}
    BY <2>2 DEF Call
  <2> QED BY <1>2, <2>1, <2>3 DEF Calling
<1>3. CASE i # j /\ i \notin Batch(j)
  <2>1. i \notin (IF BatchOf[j] = None THEN {j} ELSE Batch(j))
    BY <1>3
  <2>2. call'[i] = call[i]
    BY <2>1 DEF Call
  <2> QED BY <1>3, <2>2
<1> QED BY <1>2, <1>3

LEMMA ElsewhereInv == QueueInv /\ Elsewhere => QueueInv'
<1> SUFFICES ASSUME QueueInv, Elsewhere PROVE QueueInv'
  OBVIOUS
<1>1. TypeOK /\ TypeOK' /\ InsertedOnce /\ CalledTogether
  BY TypeElsewhere DEF QueueInv
<1>2. UNCHANGED <<row, processing, active, worker, boot, ran, cause>>
  BY DEF Elsewhere, Call, SteerChecks, Inserted, DebounceEnds, ChatStarts, ChatEnds,
         PollFires, List, ScanEnds
<1>3. /\ \A i \in Items : call'[i] \in Calling => call[i] \in Calling
      /\ CalledTogether'
  <2>1. ASSUME NEW j \in Items, Call(j)
        PROVE  /\ \A i \in Items : call'[i] \in Calling => call[i] \in Calling
               /\ CalledTogether'
    <3>1. \A i \in Items : /\ call'[i] \in Calling => call[i] \in Calling
                           /\ call'[i] = "none" <=>
                                 call[i] = "none" /\ i # j /\ i \notin Batch(j)
      BY <2>1, CallStarts
    <3> QED BY <1>1, <3>1 DEF CalledTogether, Batch
  <2>2. ASSUME NEW j \in Items, SteerChecks(j) \/ Inserted(j)
        PROVE  /\ \A i \in Items : call'[i] \in Calling => call[i] \in Calling
               /\ CalledTogether'
    <3>1. \A i \in Items : /\ call'[i] \in Calling => call[i] \in Calling
                           /\ call'[i] = "none" <=> call[i] = "none"
      BY <1>1, <2>2 DEF SteerChecks, Inserted, Calling, TypeOK
    <3> QED BY <1>1, <3>1 DEF CalledTogether
  <2>3. CASE call' = call
    BY <1>1, <2>3 DEF CalledTogether
  <2> QED BY <2>1, <2>2, <2>3 DEF Elsewhere, DebounceEnds, ChatStarts, ChatEnds, PollFires,
                                  List, ScanEnds
<1>4. InsertedOnce'
  BY <1>1, <1>2, <1>3 DEF InsertedOnce
<1>5. Alone'
  BY <1>2 DEF QueueInv, Alone
<1>6. ASSUME NEW w \in Workers PROVE WorkerOK(w)'
  <2>1. WorkerOK(w)
    BY DEF QueueInv
  <2> QED BY <1>2, <2>1 DEF WorkerOK, Shape, Clear, Owns, Fresh, Given, Status, Batch
<1>7. ASSUME NEW i \in Items PROVE ItemOK(i)'
  <2>1. ItemOK(i)
    BY DEF QueueInv
  <2> QED BY <1>2, <2>1 DEF ItemOK, Attended, Once, Seen, Recovered, Status, Serves, Batch
<1> QED BY <1>1, <1>3, <1>4, <1>5, <1>6, <1>7 DEF QueueInv

\* What the statements of calls, cancellations and the recovery do to a status.
LEMMA RowwiseRows ==
    ASSUME QueueInv, Rowwise, NEW i \in Items
    PROVE  /\ Status(i)' \in {"processing", "completed", "absent"} => Status(i)' = Status(i)
           /\ Status(i) # "absent" => Status(i)' # "absent"
           /\ Status(i)' = "pending" => Status(i) \in {"pending", "absent"} \/ i \in boot.stuck
           /\ call'[i] \in Calling => call[i] \in Calling /\ row'[i] = row[i]
           /\ call'[i] = "none" <=> call[i] = "none"
<1>1. TypeOK /\ InsertedOnce
  BY DEF QueueInv
<1>2. ASSUME NEW j \in Items, InterruptCancels(j)
      PROVE  /\ Status(i)' = "cancelled" \/ row'[i] = row[i]
             /\ Status(i) = "absent" => row'[i] = row[i]
             /\ call'[i] \in Calling => call[i] \in Calling
             /\ call'[i] = "none" <=> call[i] = "none"
  <2>1. row' = With(Pending(SessionOf[j]), "cancelled") /\ "cancelled" \in Statuses
    BY <1>2 DEF InterruptCancels, Statuses
  <2>2. /\ row'[i].status = "cancelled" \/ row'[i] = row[i]
        /\ row[i].status = "absent" => row'[i] = row[i]
    BY <1>1, <2>1, Rows DEF Pending, Status
  <2> QED BY <1>1, <1>2, <2>2 DEF InterruptCancels, Calling, TypeOK, Status
<1>3. ASSUME NEW j \in Items, Insert(j)
      PROVE  /\ (Status(i)' = "pending" /\ Status(i) = "absent") \/ row'[i] = row[i]
             /\ call'[i] \in Calling => call[i] \in Calling /\ row'[i] = row[i]
             /\ call'[i] = "none" <=> call[i] = "none"
  <2>1. call[j] \in Calling /\ row[j].status = "absent"
    BY <1>1, <1>3 DEF Insert, Calling, InsertedOnce
  <2>2. CASE i = j
    BY <1>1, <1>3, <2>1, <2>2 DEF Insert, TypeOK, Status, Calling
  <2>3. CASE i # j
    BY <1>1, <1>3, <2>3 DEF Insert, TypeOK
  <2> QED BY <2>2, <2>3
<1>4. ASSUME NEW s \in Sessions, CancelPending(s)
      PROVE  /\ Status(i)' = "cancelled" \/ row'[i] = row[i]
             /\ Status(i) = "absent" => row'[i] = row[i]
             /\ call' = call
  <2>1. row' = With(Pending(s), "cancelled") /\ "cancelled" \in Statuses
    BY <1>4 DEF CancelPending, Statuses
  <2>2. /\ row'[i].status = "cancelled" \/ row'[i] = row[i]
        /\ row[i].status = "absent" => row'[i] = row[i]
    BY <1>1, <2>1, Rows DEF Pending, Status
  <2> QED BY <1>4, <2>2 DEF CancelPending, Status
<1>5. CASE RecoverStuck
  <2>1. /\ row' = With({j \in boot.stuck : Status(j) = "processing"}, "pending")
        /\ "pending" \in Statuses
        /\ call' = call
    BY <1>5 DEF RecoverStuck, Statuses
  <2>2. \/ row'[i].status = "pending" /\ i \in boot.stuck /\ row[i].status = "processing"
        \/ row'[i] = row[i]
    BY <1>1, <2>1, Rows DEF Status
  <2>3. call[i] \in Calling => row[i].status = "absent"
    BY <1>1 DEF InsertedOnce
  <2> QED BY <2>1, <2>2, <2>3 DEF Status
<1>6. call[i] \in Calling => Status(i) = "absent"
  BY <1>1 DEF InsertedOnce, Status
<1>7. row'[i] = row[i] => Status(i)' = Status(i)
  BY DEF Status
<1>8. ASSUME NEW j \in Items, InterruptCancels(j)
      PROVE  call'[i] \in Calling => call[i] \in Calling /\ row'[i] = row[i]
  BY <1>2, <1>6, <1>8
<1> QED BY <1>2, <1>3, <1>4, <1>5, <1>6, <1>7, <1>8 DEF Rowwise

LEMMA RowwiseInv == QueueInv /\ Rowwise => QueueInv'
<1> SUFFICES ASSUME QueueInv, Rowwise PROVE QueueInv'
  OBVIOUS
<1>1. TypeOK /\ TypeOK' /\ InsertedOnce /\ CalledTogether /\ Alone
  BY TypeRowwise DEF QueueInv
<1>2. UNCHANGED <<processing, active, worker, ran, cause>>
  BY DEF Rowwise, InterruptCancels, Insert, CancelPending, RecoverStuck
<1>3. boot' = boot \/ boot'.stuck = {}
  BY DEF Rowwise, InterruptCancels, Insert, CancelPending, RecoverStuck
<1>4. InsertedOnce' /\ CalledTogether'
  BY <1>1, RowwiseRows DEF InsertedOnce, CalledTogether
<1>5. Alone'
  BY <1>1, <1>2 DEF Alone
<1>6. \A i \in Items : i \in boot.stuck => "crash" \in cause[i]
  BY DEF QueueInv, ItemOK, Recovered
<1>7. ASSUME NEW w \in Workers PROVE WorkerOK(w)'
  <2>1. WorkerOK(w) /\ worker[w].got \subseteq Items
    BY <1>1, Worker DEF QueueInv
  <2>2. Shape(w)'
    BY <1>2, <2>1, RowwiseRows DEF WorkerOK, Shape, Batch
  <2>3. Clear(w)'
    BY <1>2, <2>1, RowwiseRows DEF WorkerOK, Clear
  <2>4. Owns(w)'
    BY <1>2, <2>1, RowwiseRows DEF WorkerOK, Owns, Batch
  <2>5. Fresh(w)'
    <3>1. ASSUME NEW i \in worker[w].got, worker[w].at \in Before \cup {"prepare"}
          PROVE  \/ "crash" \in cause[i]
                 \/ ran[i] = 0 /\ (worker[w].at = "prepare" => Status(i)' # "pending")
      <4>1. i \in Items /\ worker[w].at \in Holding
        BY <2>1, <3>1 DEF Holding, Under
      <4>2. Status(i) # "absent"
        BY <2>1, <4>1 DEF WorkerOK, Shape
      <4>3. \/ "crash" \in cause[i]
            \/ ran[i] = 0 /\ (worker[w].at = "prepare" => Status(i) # "pending")
        BY <2>1, <3>1 DEF WorkerOK, Fresh
      <4>4. Status(i)' = "pending" => Status(i) \in {"pending", "absent"} \/ i \in boot.stuck
        BY <4>1, RowwiseRows
      <4> QED BY <1>6, <4>1, <4>2, <4>3, <4>4
    <3> QED BY <1>2, <3>1 DEF Fresh
  <2>6. Given(w)'
    BY <1>2, <2>1 DEF WorkerOK, Given
  <2> QED BY <2>2, <2>3, <2>4, <2>5, <2>6 DEF WorkerOK
<1>8. ASSUME NEW i \in Items PROVE ItemOK(i)'
  <2>1. ItemOK(i)
    BY DEF QueueInv
  <2>2. /\ Status(i)' \in {"processing", "completed", "absent"} => Status(i)' = Status(i)
        /\ Status(i)' = "pending" => Status(i) \in {"pending", "absent"} \/ i \in boot.stuck
    BY RowwiseRows
  <2>3. Attended(i)'
    BY <1>2, <2>1, <2>2 DEF ItemOK, Attended, Serves, Batch
  <2>4. Once(i)'
    BY <1>2, <1>6, <2>1, <2>2 DEF ItemOK, Once
  <2>5. Seen(i)'
    BY <1>2, <2>1, <2>2 DEF ItemOK, Seen
  <2>6. Recovered(i)'
    BY <1>2, <1>3, <2>1 DEF ItemOK, Recovered
  <2> QED BY <2>3, <2>4, <2>5, <2>6 DEF ItemOK
<1> QED BY <1>1, <1>4, <1>5, <1>7, <1>8 DEF QueueInv

\* A scanner that starts its workers.
LEMMA StartInv ==
    ASSUME QueueInv, NEW c \in Scanners, Start(c)
    PROVE  QueueInv'
<1> DEFINE served == {s \in scan[c].found : Free(s)}
<1> DEFINE New(w) == w[1] = c /\ w[2] \in served
<1> DEFINE x == [at |-> "check", item |-> None, got |-> {}]
<1>1. /\ TypeOK /\ InsertedOnce /\ CalledTogether /\ Alone
      /\ UNCHANGED <<row, call, processing, collectTimers, ticking, boot, chat, cancels, ran, cause, faults>>
  BY DEF QueueInv, Start
<1>2. [IdleWorker EXCEPT !.at = "check"] = x /\ x \in WorkerRow
  BY DEF IdleWorker, WorkerRow
<1>3. worker' = [w \in Workers |-> IF New(w) THEN x ELSE worker[w]]
  BY <1>2 DEF Start
<1>4. active' = active \cup served /\ served \subseteq Sessions /\ served \cap active = {}
  <2>1. scan[c].found \subseteq Sessions
    BY <1>1 DEF TypeOK, ScanRow
  <2> QED BY <2>1 DEF Start, Free
<1>5. ASSUME NEW w \in Workers
      PROVE  /\ New(w) => worker'[w] = x /\ worker[w].at = "idle"
             /\ ~New(w) => worker'[w] = worker[w]
  BY <1>1, <1>3, <1>4 DEF Alone
<1>6. TypeOK'
  <2>1. [at |-> "wait", found |-> {}] \in ScanRow
    BY DEF ScanRow
  <2>2. scan' \in [Scanners -> ScanRow]
    BY <1>1, <2>1 DEF Start, TypeOK
  <2>3. worker' \in [Workers -> WorkerRow]
    BY <1>1, <1>2, <1>3 DEF TypeOK
  <2>4. active' \in SUBSET Sessions
    BY <1>1, <1>4 DEF TypeOK
  <2> QED BY <1>1, <2>2, <2>3, <2>4 DEF TypeOK
<1>7. InsertedOnce' /\ CalledTogether'
  BY <1>1 DEF InsertedOnce, CalledTogether
<1>8. Alone'
  <2>1. ASSUME NEW w \in Workers, worker'[w].at # "idle" PROVE w[2] \in active'
    BY <1>1, <1>4, <1>5, <2>1 DEF Alone
  <2>2. ASSUME NEW v \in Workers, NEW w \in Workers, v[2] = w[2],
               worker'[v].at # "idle", worker'[w].at # "idle"
        PROVE  v = w
    <3>1. CASE New(v) /\ New(w)
      BY <1>1, <2>2, <3>1, Worker
    <3>2. CASE ~New(v) /\ ~New(w)
      BY <1>1, <1>5, <2>2, <3>2 DEF Alone
    <3>3. CASE New(v) /\ ~New(w)
      <4>1. w[2] \in active
        BY <1>1, <1>5, <2>2, <3>3 DEF Alone
      <4> QED BY <1>4, <2>2, <3>3, <4>1
    <3>4. CASE New(w) /\ ~New(v)
      <4>1. v[2] \in active
        BY <1>1, <1>5, <2>2, <3>4 DEF Alone
      <4> QED BY <1>4, <2>2, <3>4, <4>1
    <3> HIDE DEF New
    <3> QED BY <3>1, <3>2, <3>3, <3>4
  <2> HIDE DEF New
  <2> QED BY <2>1, <2>2 DEF Alone
<1>9. ASSUME NEW w \in Workers PROVE WorkerOK(w)'
  <2>1. WorkerOK(w)
    BY DEF QueueInv
  <2>2. CASE New(w)
    <3>1. worker'[w] = x
      BY <1>5, <2>2
    <3> QED BY <3>1 DEF WorkerOK, Shape, Clear, Owns, Fresh, Given, Holding, Before, Under,
                        After, Settled
  <2>3. CASE ~New(w)
    <3>1. worker'[w] = worker[w]
      BY <1>5, <2>3
    <3> HIDE DEF New
    <3> QED BY <1>1, <2>1, <3>1 DEF WorkerOK, Shape, Clear, Owns, Fresh, Given, Status, Batch
  <2> QED BY <2>2, <2>3
<1>10. ASSUME NEW i \in Items PROVE ItemOK(i)'
  <2>1. ItemOK(i)
    BY DEF QueueInv
  <2>2. ASSUME NEW w \in Workers, Serves(w, i) PROVE Serves(w, i)'
    <3>1. worker[w].at # "idle"
      BY <2>2 DEF Serves, QueueInv, WorkerOK, Shape, Holding, Before, Under, After, Settled
    <3>2. worker'[w] = worker[w]
      BY <1>5, <3>1
    <3> QED BY <2>2, <3>2 DEF Serves, Batch
  <2> HIDE DEF New
  <2>3. Attended(i)'
    BY <1>1, <2>1, <2>2 DEF ItemOK, Attended, Status
  <2> QED BY <1>1, <2>1, <2>3 DEF ItemOK, Once, Seen, Recovered, Status
<1> QED BY <1>6, <1>7, <1>8, <1>9, <1>10 DEF QueueInv

\* A call whose insert fails changes nothing but what befell its item.
LEMMA InsertFailsInv ==
    ASSUME QueueInv, NEW i \in Items, InsertFails(i)
    PROVE  QueueInv'
<1>1. /\ TypeOK /\ InsertedOnce /\ CalledTogether /\ Alone
      /\ UNCHANGED <<row, processing, collectTimers, ticking, active, scan, worker, boot,
                     chat, cancels, ran>>
      /\ call[i] \in {"insert", "quietInsert"} /\ call' = [call EXCEPT ![i] = "done"]
  BY DEF InsertFails, QueueInv
<1>2. /\ cause' \in [Items -> SUBSET {"crash", "db", "late", "unarmed"}]
      /\ \A j \in Items : cause[j] \subseteq cause'[j]
  <2>1. cause' = cause \/ cause' = Blame({i}, "unarmed")
    BY DEF InsertFails
  <2> QED BY <1>1, <2>1, Blamed DEF TypeOK
<1>3. faults' \in 0 .. MaxFaults
  BY <1>1, QueueAssumption DEF InsertFails, Fault, TypeOK
<1>4. TypeOK'
  BY <1>1, <1>2, <1>3 DEF TypeOK
<1>5. InsertedOnce' /\ CalledTogether'
  <2>1. \A j \in Items : /\ call'[j] \in Calling => call[j] \in Calling
                         /\ call'[j] = "none" <=> call[j] = "none"
    BY <1>1 DEF Calling, TypeOK
  <2> QED BY <1>1, <2>1 DEF InsertedOnce, CalledTogether
<1>6. Alone'
  BY <1>1 DEF Alone
<1>7. ASSUME NEW w \in Workers PROVE WorkerOK(w)'
  <2>1. WorkerOK(w) /\ worker[w].got \subseteq Items
    BY <1>1, Worker DEF QueueInv
  <2> QED BY <1>1, <1>2, <2>1 DEF WorkerOK, Shape, Clear, Owns, Fresh, Given, Status, Batch
<1>8. ASSUME NEW j \in Items PROVE ItemOK(j)'
  <2>1. ItemOK(j)
    BY DEF QueueInv
  <2> QED BY <1>1, <1>2, <2>1 DEF ItemOK, Attended, Once, Seen, Recovered, Status, Serves, Batch
<1> QED BY <1>4, <1>5, <1>6, <1>7, <1>8 DEF QueueInv

LEMMA CrashInv == QueueInv /\ CrashAndRestart => QueueInv'
<1> SUFFICES ASSUME QueueInv, CrashAndRestart PROVE QueueInv'
  OBVIOUS
<1> DEFINE Hit == {i \in Items : Status(i) = "processing"
                                    \/ \E w \in Workers : Serves(w, i)}
<1>1. /\ TypeOK /\ InsertedOnce /\ CalledTogether
      /\ processing' = {} /\ collectTimers' = [s \in Sessions |-> None] /\ ticking' = {}
      /\ active' = {}
      /\ UNCHANGED <<row, cancels, ran>>
      /\ call' = [i \in Items |-> IF call[i] = "none" THEN "none" ELSE "done"]
      /\ worker' = [w \in Workers |-> IdleWorker]
  BY DEF QueueInv, CrashAndRestart
<1>2. /\ cause' \in [Items -> SUBSET {"crash", "db", "late", "unarmed"}]
      /\ \A i \in Items : /\ cause[i] \subseteq cause'[i]
                          /\ Status(i) = "processing" => "crash" \in cause'[i]
  <2>1. cause' = Blame(Hit, "crash")
    BY DEF CrashAndRestart
  <2>2. \A i \in Items : Status(i) = "processing" => i \in Hit
    OBVIOUS
  <2> HIDE DEF Hit
  <2> QED BY <1>1, <2>1, <2>2, Blamed
<1>3. PICK stuck \in SUBSET {i \in Items : Status(i) = "processing"} :
         boot' = [due |-> TRUE, stuck |-> stuck]
  BY DEF CrashAndRestart
<1>4. TypeOK'
  <2>1. faults' \in 0 .. MaxFaults
    BY <1>1, QueueAssumption DEF CrashAndRestart, Fault, TypeOK
  <2>2. worker' \in [Workers -> WorkerRow]
    <3>1. IdleWorker \in WorkerRow
      BY DEF IdleWorker, WorkerRow
    <3> QED BY <1>1, <3>1
  <2>3. scan' \in [Scanners -> ScanRow]
    <3>1. IdleScan \in ScanRow /\ [IdleScan EXCEPT !.at = "list"] \in ScanRow
      BY DEF IdleScan, ScanRow
    <3> QED BY <3>1 DEF CrashAndRestart
  <2>4. chat' \in [Sessions -> {"none", "active", "over"}]
    BY <1>1 DEF CrashAndRestart, TypeOK
  <2>5. boot' \in [due : BOOLEAN, stuck : SUBSET Items]
    BY <1>3
  <2>6. call' \in [Items -> {"none", "cancel", "check", "insert", "quietInsert",
                             "timer", "notify", "done"}]
    BY <1>1
  <2> QED BY <1>1, <1>2, <2>1, <2>2, <2>3, <2>4, <2>5, <2>6 DEF TypeOK
<1>5. InsertedOnce' /\ CalledTogether'
  BY <1>1 DEF InsertedOnce, CalledTogether, Calling
<1>6. Alone'
  BY <1>1 DEF Alone, IdleWorker
<1>7. ASSUME NEW w \in Workers PROVE WorkerOK(w)'
  <2>1. worker'[w] = IdleWorker
    BY <1>1
  <2> QED BY <2>1 DEF IdleWorker, WorkerOK, Shape, Clear, Owns, Fresh, Given, Holding, Before,
                      Under, After, Settled
<1>8. ASSUME NEW i \in Items PROVE ItemOK(i)'
  <2>1. ItemOK(i) /\ Status(i)' = Status(i)
    BY <1>1 DEF QueueInv, Status
  <2>2. Attended(i)'
    BY <1>1, <1>2, <2>1 DEF Attended
  <2>3. Once(i)' /\ Seen(i)'
    BY <1>1, <1>2, <2>1 DEF ItemOK, Once, Seen
  <2>4. Recovered(i)'
    BY <1>2, <1>3 DEF Recovered
  <2> QED BY <2>2, <2>3, <2>4 DEF ItemOK
<1> QED BY <1>4, <1>5, <1>6, <1>7, <1>8 DEF QueueInv

----------------------------------------------------------------------------
(* The invariant, and what follows from it.                                *)

LEMMA InvInit == Init => QueueInv
<1> SUFFICES ASSUME Init PROVE QueueInv
  OBVIOUS
<1>1. TypeOK
  BY TypeInit
<1>2. InsertedOnce /\ CalledTogether
  BY DEF Init, Started, InsertedOnce, CalledTogether
<1>3. Alone
  BY DEF Init, Started, Alone, IdleWorker
<1>4. ASSUME NEW w \in Workers PROVE WorkerOK(w)
  <2>1. worker[w] = IdleWorker
    BY DEF Init, Started
  <2> QED BY <2>1 DEF IdleWorker, WorkerOK, Shape, Clear, Owns, Fresh, Given, Holding, Before,
                      Under, After, Settled
<1>5. ASSUME NEW i \in Items PROVE ItemOK(i)
  BY DEF Init, Started, ItemOK, Attended, Once, Seen, Recovered, Status
<1> QED BY <1>1, <1>2, <1>3, <1>4, <1>5 DEF QueueInv

LEMMA InvWorker ==
    ASSUME QueueInv, NEW w \in Workers, WorkerStep(w) \/ AgentEnds(w)
    PROVE  QueueInv'
<1>1. CASE Check(w) \/ Select(w) \/ Mark(w) \/ SelectBatch(w) \/ MarkBatch(w)
  BY <1>1, CheckInv, SelectInv, MarkInv, SelectBatchInv, MarkBatchInv
<1>2. CASE Prepare(w) \/ AgentEnds(w) \/ SettleFails(w)
  BY <1>2, PrepareInv, AgentEndsInv, SettleFailsInv
<1>3. CASE Complete(w) \/ Fail(w)
  BY <1>3, SettleInv DEF Complete, Fail, Settled
<1>4. CASE CompleteBatch(w) \/ FailBatch(w)
  BY <1>4, SettleBatchInv DEF CompleteBatch, FailBatch, Settled
<1> QED BY <1>1, <1>2, <1>3, <1>4 DEF WorkerStep

LEMMA InvNext == QueueInv /\ [Next]_vars => QueueInv'
<1> SUFFICES ASSUME QueueInv, [Next]_vars PROVE QueueInv'
  OBVIOUS
<1>1. CASE UNCHANGED vars
  BY <1>1 DEF QueueInv, vars, TypeOK, InsertedOnce, CalledTogether, Alone, WorkerOK, Shape,
              Clear, Owns, Fresh, Given, ItemOK, Attended, Once, Seen, Recovered, Serves,
              Status, Batch
<1>2. CASE Elsewhere \/ Rowwise \/ CrashAndRestart
  BY <1>2, ElsewhereInv, RowwiseInv, CrashInv
<1>3. ASSUME NEW c \in Scanners, Start(c) PROVE QueueInv'
  BY <1>3, StartInv
<1>4. ASSUME NEW w \in Workers, WorkerStep(w) \/ AgentEnds(w) PROVE QueueInv'
  BY <1>4, InvWorker
<1>5. ASSUME NEW i \in Items, InsertFails(i) PROVE QueueInv'
  BY <1>5, InsertFailsInv
<1> QED BY <1>1, <1>2, <1>3, <1>4, <1>5 DEF Next, CallStep, Elsewhere, Rowwise

\* The inductive invariant of the queue: what holds of each worker at each of
\* its statements, and of each item.
THEOREM QueueInvariant == Spec => []QueueInv
<1>1. Init => QueueInv
  BY InvInit
<1>2. QueueInv /\ [Next]_vars => QueueInv'
  BY InvNext
<1> QED BY <1>1, <1>2, PTL DEF Spec

\* Type correctness of the queue, its processor and its callers.
THEOREM QueueTypes == Spec => []TypeOK
<1>1. QueueInv => TypeOK
  BY DEF QueueInv
<1> QED BY <1>1, QueueInvariant, PTL

\* One agent run in a session at a time: activeSessions is enough to keep the
\* drain and the poll apart, although dequeue itself would give both an item.
THEOREM OneRun == Spec => []OneRunPerSession
<1>1. QueueInv => OneRunPerSession
  BY DEF QueueInv, Alone, OneRunPerSession
<1> QED BY <1>1, QueueInvariant, PTL

\* An agent is given a message once, unless the process died and the item was
\* recovered.
THEOREM GivenOnce == Spec => []RanOnce
<1>1. QueueInv => RanOnce
  <2>1. SUFFICES ASSUME QueueInv, NEW i \in Items, ran[i] > 1 PROVE "crash" \in cause[i]
    BY DEF RanOnce
  <2>2. ran[i] \in Nat /\ Once(i)
    BY <2>1 DEF QueueInv, TypeOK, ItemOK
  <2> QED BY <2>1, <2>2 DEF Once
<1> QED BY <1>1, QueueInvariant, PTL

\* Without a fault nothing is left in processing, in the table or in the map,
\* that no worker serves.
THEOREM AllAttended == Spec => []NothingLeftBehind
<1>1. QueueInv => NothingLeftBehind
  BY DEF QueueInv, ItemOK, Attended, NothingLeftBehind
<1> QED BY <1>1, QueueInvariant, PTL

\* A completed item was in a message to an agent, or came between the SELECT and
\* the UPDATE of its batch.
THEOREM AllSeen == Spec => []NothingSwallowed
<1>1. QueueInv => NothingSwallowed
  BY DEF QueueInv, ItemOK, Seen, NothingSwallowed
<1> QED BY <1>1, QueueInvariant, PTL

=============================================================================
