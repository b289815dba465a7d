------------------------ MODULE SessionQueueInvariant ------------------------
(***************************************************************************)
(* The inductive invariant behind the safety properties of SessionQueue:   *)
(* what holds of a worker at each of its statements, and of an item.       *)
(***************************************************************************)
EXTENDS SessionQueue

Before  == {"mark", "batch", "markBatch"}
Settled == {"completeBatch", "failBatch"}
After   == {"run", "complete", "fail"} \cup Settled
Under   == {"prepare"} \cup After
Holding == Before \cup Under

Calling == {"none", "cancel", "check", "insert", "quietInsert"}

----------------------------------------------------------------------------
(* Of calls and sessions.                                                  *)

\* A call has not inserted its item before it has.
InsertedOnce ==
    \A i \in Items : call[i] \in Calling => row[i] = [status |-> "absent", nr |-> 0]

\* The collect calls of one millisecond come together.
CalledTogether ==
    \A i, j \in Items : BatchOf[i] # None /\ BatchOf[i] = BatchOf[j] =>
       (call[i] = "none" <=> call[j] = "none")

\* A worker's session is active, and it has no other worker.
Alone ==
    /\ \A w \in Workers : worker[w].at # "idle" => w[2] \in active
    /\ \A v, w \in Workers :
          v[2] = w[2] /\ worker[v].at # "idle" /\ worker[w].at # "idle" => v = w

----------------------------------------------------------------------------
(* Of a worker.                                                            *)

\* What it holds is of its session and of one batch, and has been inserted.
Shape(w) ==
    IF worker[w].at \in Holding
    THEN /\ worker[w].item \in worker[w].got
         /\ SessionOf[worker[w].item] = w[2]
         /\ worker[w].got \subseteq {worker[w].item} \cup Batch(worker[w].item)
         /\ worker[w].at \in {"mark", "batch"} => worker[w].got = {worker[w].item}
         /\ worker[w].at = "markBatch" => worker[w].got \subseteq Batch(worker[w].item)
         /\ \A i \in worker[w].got : Status(i) # "absent"
    ELSE worker[w].item = None /\ worker[w].got = {}

\* Past its check, and before it marks, nothing of its session is processed.
Clear(w) ==
    worker[w].at \in {"select"} \cup Before =>
       \A i \in Items : SessionOf[i] = w[2] => Status(i) # "processing" /\ i \notin processing

\* Once it has marked, all that is processed in its session is its own.
Owns(w) ==
    worker[w].at \in Under =>
       \A i \in Items : SessionOf[i] = w[2] =>
          /\ i \in processing => i = worker[w].item /\ worker[w].at \notin Settled
          /\ Status(i) = "processing" =>
                \/ i \in worker[w].got
                \/ i \in Batch(worker[w].item) /\ "late" \in cause[i]
          /\ worker[w].at \in Settled /\ i = worker[w].item => Status(i) # "processing"

\* What it is about to run has never run.
Fresh(w) ==
    worker[w].at \in Before \cup {"prepare"} =>
       \A i \in worker[w].got :
          \/ "crash" \in cause[i]
          \/ ran[i] = 0 /\ (worker[w].at = "prepare" => Status(i) # "pending")

Given(w) == worker[w].at \in After => \A i \in worker[w].got : ran[i] > 0

WorkerOK(w) == Shape(w) /\ Clear(w) /\ Owns(w) /\ Fresh(w) /\ Given(w)

----------------------------------------------------------------------------
(* Of an item.                                                             *)

Attended(i) ==
    Status(i) = "processing" \/ i \in processing =>
       (\E w \in Workers : Serves(w, i)) \/ cause[i] # {}

Once(i) ==
    \/ "crash" \in cause[i]
    \/ ran[i] <= 1 /\ (Status(i) \in {"absent", "pending"} => ran[i] = 0)

Seen(i) == Status(i) = "completed" => ran[i] > 0 \/ "late" \in cause[i]

Recovered(i) == i \in boot.stuck => "crash" \in cause[i]

ItemOK(i) == Attended(i) /\ Once(i) /\ Seen(i) /\ Recovered(i)

----------------------------------------------------------------------------
QueueInv ==
    /\ TypeOK
    /\ InsertedOnce
    /\ CalledTogether
    /\ Alone
    /\ \A w \in Workers : WorkerOK(w)
    /\ \A i \in Items : ItemOK(i)
=============================================================================
