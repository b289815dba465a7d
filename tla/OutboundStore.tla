--------------------------- MODULE OutboundStore ---------------------------
(***************************************************************************)
(* The two Postgres tables behind durable outbound delivery, one operator  *)
(* per SQL statement of outbound-delivery-queue.service.ts and             *)
(* outbound-idempotency.service.ts.  Each operator maps a row to a row: a  *)
(* statement is atomic, what runs between two of them is not.              *)
(*                                                                         *)
(* The clock is abstracted to the comparisons the statements make with     *)
(* now(): a row is due or not, expired or not, its claim live or lapsed.   *)
(***************************************************************************)
EXTENDS Naturals, FiniteSets

CONSTANT None      \* no owner, no job

\* "absent": never inserted; "dropped": deleted by dropExpiredJobs.
JobStatus == {"absent", "pending", "sending", "retry", "sent", "dead", "dropped"}
Claimable == {"pending", "retry"}
Active    == {"pending", "retry", "sending"}

\* What provider_meta (of a sent row) or last_error (of a dead row) records.
SentWhy == {"delivered", "already-sent", "inflight", "hook"}
DeadWhy == {"not-deliverable", "no-target", "exhausted", "cancelled"}
Why     == {"none"} \cup SentWhy \cup DeadWhy

JobRow == [status   : JobStatus,
           attempts : Nat,                          \* attempt_count
           due      : BOOLEAN,                      \* next_attempt_at <= now
           expired  : BOOLEAN,                      \* expires_at <= now
           claim    : {"none", "live", "lapsed"},   \* claim_expires_at
           born     : Nat,                          \* created_at, as a rank
           why      : Why]

NoJob == [status |-> "absent", attempts |-> 0, due |-> FALSE,
          expired |-> FALSE, claim |-> "none", born |-> 0, why |-> "none"]

----------------------------------------------------------------------------
\* ava_outbound_delivery_jobs

\* enqueueOutboundJob: next_attempt_at defaults to the database's now().
EnqueuedJob(rank) ==
    [NoJob EXCEPT !.status = "pending", !.due = TRUE, !.born = rank]

\* An UPDATE or DELETE reaches no row that is not there.
Exists(r) == r.status \notin {"absent", "dropped"}

\* Mutated form of IsReady: a claim that also takes rows being sent.
MutReadySending(r) == /\ r.status \in Active
                      /\ r.due /\ ~r.expired

\* claimReadyJobs, the WHERE clause of the rows it picks.
IsReady(r) == /\ r.status \in Claimable
              /\ r.due
              /\ ~r.expired
              /\ r.claim # "live"

ClaimedJob(r) == [r EXCEPT !.status = "sending", !.claim = "live"]

\* The three marks of a worker name the row by its id and by nothing else:
\* neither the status nor claimed_by is compared.
SentJob(r, why) ==
    IF Exists(r)
    THEN [r EXCEPT !.status = "sent", !.claim = "none", !.why = why]
    ELSE r

DeadJob(r, why) ==
    IF Exists(r)
    THEN [r EXCEPT !.status = "dead", !.claim = "none", !.why = why]
    ELSE r

RetriedJob(r) ==
    IF Exists(r)
    THEN [r EXCEPT !.status = "retry", !.attempts = @ + 1, !.due = FALSE,
                   !.claim = "none", !.why = "none"]
    ELSE r

\* Mutated form of RecoveredJob: recovery that does not wait for the claim.
MutRecoverLive(r) ==
    IF r.status = "sending"
    THEN [r EXCEPT !.status = "retry", !.claim = "none"]
    ELSE r

\* recoverStuckJobs: next_attempt_at and attempt_count stay as they were.
RecoveredJob(r) ==
    IF r.status = "sending" /\ r.claim = "lapsed"
    THEN [r EXCEPT !.status = "retry", !.claim = "none"]
    ELSE r

\* cancelPendingForSession, for a row of that session.
CancelledJob(r) ==
    IF r.status \in Active
    THEN [r EXCEPT !.status = "dead", !.claim = "none", !.why = "cancelled"]
    ELSE r

\* dropExpiredJobs deletes what was never settled.
PurgedJob(r) ==
    IF r.status \in Active /\ r.expired
    THEN [r EXCEPT !.status = "dropped", !.claim = "none"]
    ELSE r

\* What the clock does to a row.
LapsedJob(r)  == [r EXCEPT !.claim = "lapsed"]
DueJob(r)     == [r EXCEPT !.due = TRUE]
ExpiredJob(r) == [r EXCEPT !.expired = TRUE]

\* Mutated form of AwaitsPump: only the rows that are due now.
MutAwaitsDue(r) == r.status \in Claimable /\ ~r.expired /\ r.due

\* getNextReadyDelayMs finds a row: a row being sent is not looked at.
AwaitsPump(r) == r.status \in Claimable /\ ~r.expired

----------------------------------------------------------------------------
\* ava_outbound_idempotency

KeyRow(Owners) == [state : {"none", "pending", "sent"},
                   owner : Owners \cup {None},       \* delivery_job_id
                   stale : BOOLEAN]                 \* expires_at < now

NoKey == [state |-> "none", owner |-> None, stale |-> FALSE]

\* deleteExpired and the INSERT ... ON CONFLICT DO NOTHING after it succeed
\* together exactly when no unexpired row is in the way.
CanInsert(k) == k.state = "none" \/ k.stale

PendingKey(owner) == [state |-> "pending", owner |-> owner, stale |-> FALSE]

\* The UPDATE at the end of reservePending names the row by its key alone.
RefreshedKey(k, owner) == IF k.state = "none" THEN k ELSE PendingKey(owner)

\* markSent: only the owner's row; expires_at is left as it was.
MarkedKey(k, owner) ==
    IF k.state # "none" /\ k.owner = owner THEN [k EXCEPT !.state = "sent"]
                                           ELSE k

\* releasePendingForRetry: only the owner's row, whatever its state.  The
\* owner keeps it.
ReleasedKey(k, owner) ==
    IF k.state # "none" /\ k.owner = owner THEN PendingKey(owner) ELSE k

LapsedKey(k) == [k EXCEPT !.stale = TRUE]

\* isAlreadySent deletes an expired row before it reads.
LookedUpKey(k) == IF k.stale THEN NoKey ELSE k

=============================================================================
