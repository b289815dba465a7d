-------------------------- MODULE OutboundInvariant --------------------------
(***************************************************************************)
(* Why OutboundDelivery posts a message once: the inductive invariant      *)
(* behind NoUnexplainedDuplicate, OneWorkerPerJob and AttemptsBounded.     *)
(***************************************************************************)
EXTENDS OutboundDelivery

\* A pump that has chosen a job is at work on it, and a durable call whose key
\* is taken knows how it was taken.
WorkPC == {"route", "insert", "select", "refresh", "post", "settle", "mark"}

TypeInv ==
    /\ TypeOK
    /\ \A p \in Procs : pc[p] \in WorkPC => cur[p] \in Jobs
    /\ \A c \in Callers : pc[c] = "dup" => res[c] \in {"already-sent", "inflight"}

Clean(k)   == cause[k] = {}
Swift(j)   == "slow" \notin cause[KeyOf[j]]
Posting(s) == s \in Posters /\ pc[s] \in {"post", "settle"}

\* A job has no row and no worker before it is enqueued; a pump holds a job
\* once, and none between two jobs.
Bookkeeping ==
    /\ \A c \in Jobs : pc[c] \in {"route", "lookup", "enqueue"} =>
          job[c].status = "absent" /\ \A p \in Procs : ~Holds(p, c)
    /\ \A p \in Procs : /\ pc[p] \notin WorkPC => cur[p] = None
                        /\ cur[p] \notin batch[p]
    /\ \A c \in DirectCallers : pc[c] \in CallerPC
    /\ \A c \in DurableCallers : pc[c] \notin {"post", "settle"}

\* A job that is held cannot be claimed, nor recovered: only a lapsed claim
\* gives it a second worker.
Exclusive ==
    \A j \in Jobs : Swift(j) =>
       /\ \A p, q \in Procs : Holds(p, j) /\ Holds(q, j) => p = q
       /\ \A p \in Procs : Holds(p, j) =>
             /\ job[j].status \notin Claimable
             /\ job[j].status = "sending" => job[j].claim = "live"

\* What a worker believes of attempt_count is so.
Counted ==
    \A j \in Jobs : Swift(j) =>
       /\ job[j].attempts < MaxAttempts
       /\ \A p \in Procs : Holds(p, j) => seen[p][j] = job[j].attempts

\* Who is about to post, or to settle a post, has the reservation.
Reserved ==
    \A s \in Senders : (s \in Procs => pc[s] \in WorkPC) =>
       LET k == Key(s) IN Clean(k) =>
         /\ Posting(s) => idem[k] = PendingKey(OwnerOf(s))
         /\ pc[s] = "select" => idem[k].state # "none"
         /\ pc[s] = "refresh" => idem[k].state # "none" /\ idem[k].owner = OwnerOf(s)

\* A message that was posted is on record, or its poster is about to record
\* it, or its poster died as the owner of the reservation.
OnRecord(k) ==
    \/ idem[k].state = "sent"
    \/ \E s \in Posters : /\ pc[s] = "settle" /\ res[s] = "delivered"
                          /\ Key(s) = k
    \/ /\ idem[k].state = "pending"
       /\ \E c \in DirectCallers, n \in {1, 2} :
             idem[k].owner = <<c, n>> /\ pc[c] = "done"

Once ==
    \A k \in Keys : Clean(k) =>
       /\ ~idem[k].stale
       /\ posts[k] <= 1
       /\ posts[k] = 1 => OnRecord(k)

\* The inductive invariant.
OnceInv == TypeInv /\ Bookkeeping /\ Exclusive /\ Counted /\ Reserved /\ Once
=============================================================================
