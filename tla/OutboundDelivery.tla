-------------------------- MODULE OutboundDelivery --------------------------
(***************************************************************************)
(* Outbound delivery to Slack: the durable queue, the pump of every        *)
(* process, the senders that bypass the queue, and the idempotency         *)
(* reservations that keep one message from being posted twice.             *)
(*                                                                         *)
(* A step is one SQL statement, one call of the Slack API or one turn of   *)
(* the event loop, since between any two of them another sender may run.   *)
(* The rows and the statements on them are in OutboundStore.               *)
(***************************************************************************)
EXTENDS OutboundStore

CONSTANTS Procs,           \* operating-system processes; each has one pump
          DurableCallers,  \* calls of routeDelivery with durability "durable"
          DirectCallers,   \* calls of routeDelivery with durability "direct"
          Keys, KeyOf,     \* idempotency keys, and the one of each call
          Sessions, SessionOf,
          Closing,         \* the sessions that are archived or deleted
          HostOf,          \* the process a call runs in
          Overriding,      \* the direct calls that pass a targetOverride
          Expiring,        \* the durable calls that pass an expiresAt
          MaxAttempts,     \* MAX_ATTEMPTS of the pump
          BatchLimit,      \* the limit the pump gives claimReadyJobs
          Faults, MaxFaults    \* the kinds of fault, and how many in all

Callers == DurableCallers \cup DirectCallers
Jobs    == DurableCallers      \* a job is named by the call that enqueues it
Posters == Procs \cup DirectCallers
Senders == Procs \cup Callers
Owners  == Callers \X {0, 1, 2}

ASSUME CallersAssumption ==
    /\ DurableCallers \cap DirectCallers = {}
    /\ Callers \cap Procs = {}
    /\ None \notin Jobs \cup Owners
    /\ IsFiniteSet(Jobs)
ASSUME PlacementAssumption ==
    /\ KeyOf \in [Callers -> Keys]
    /\ SessionOf \in [Jobs -> Sessions]
    /\ HostOf \in [Callers -> Procs]
ASSUME BoundsAssumption ==
    /\ MaxAttempts \in Nat \ {0}
    /\ BatchLimit \in Nat \ {0}
    /\ MaxFaults \in Nat

VARIABLES
    job,       \* ava_outbound_delivery_jobs
    idem,      \* ava_outbound_idempotency
    session,   \* "active", "closed" (row updated) or "cancelled" (jobs too)
    pc,        \* the next statement of a sender
    try,       \* 1: with the target override, 2: the fallback without it
    res,       \* what the sender's last attempt came to
    cur,       \* the job a pump is working on
    batch,     \* the jobs it claimed and has not looked at yet
    seen,      \* attemptCount of a claimed job, as the claim returned it
    wake,      \* timer and needsAnotherRun of the pump
    up,        \* is the process running
    posts,     \* the messages Slack has accepted under a key
    cause,     \* history: what happened that may excuse a second post
    faults     \* faults so far

vars == <<job, idem, session, pc, try, res, cur, batch, seen, wake, up,
          posts, cause, faults>>

WakeRow  == [timer : BOOLEAN, again : BOOLEAN]
PumpPC   == {"idle", "sweep", "claim", "next", "route", "insert",
             "select", "refresh", "post", "settle", "mark", "rearm", "rest"}
CallerPC == {"route", "lookup", "enqueue", "insert", "select", "refresh",
             "post", "settle", "wake", "dup", "done"}
PC       == PumpPC \cup CallerPC
Results  == {"none", "delivered", "failed", "already-sent", "inflight",
             "hook", "no-target", "not-deliverable"}
Causes   == {"slow", "crash", "lostAck", "db", "keyLapse", "refresh"}

TypeOK ==
    /\ job \in [Jobs -> JobRow]
    /\ idem \in [Keys -> KeyRow(Owners)]
    /\ session \in [Sessions -> {"active", "closed", "cancelled"}]
    /\ pc \in [Senders -> PC]
    /\ try \in [Senders -> {1, 2}]
    /\ res \in [Senders -> Results]
    /\ cur \in [Procs -> Jobs \cup {None}]
    /\ batch \in [Procs -> SUBSET Jobs]
    /\ seen \in [Procs -> [Jobs -> Nat]]
    /\ wake \in [Procs -> WakeRow]
    /\ up \in [Procs -> BOOLEAN]
    /\ posts \in [Keys -> Nat]
    /\ cause \in [Keys -> SUBSET Causes]
    /\ faults \in 0 .. MaxFaults

----------------------------------------------------------------------------
\* Operators

Key(s) == IF s \in Procs THEN KeyOf[cur[s]] ELSE KeyOf[s]

Begun(c) == pc[c] # "route" \/ try[c] = 2

\* idempotencyOwner: the job's id for the pump and for the call that enqueued
\* it, and a fresh direct:<pid>:<uuid> at every try of a direct call.
OwnerOf(s) == IF s \in Procs THEN <<cur[s], 0>>
              ELSE IF s \in DurableCallers THEN <<s, 0>> ELSE <<s, try[s]>>

Blame(k, why) == [cause EXCEPT ![k] = @ \cup {why}]

\* A fault of the environment, within the budget of the instance.
Fault(kind) == kind \in Faults /\ faults < MaxFaults /\ faults' = faults + 1

\* wakeOutboundPump: schedulePump keeps the earlier of two timers.  The reason
\* it notes in queuedReason is left out: whenever drainPump looks at it, there
\* is also a timer, or needsAnotherRun says the same.
Woken(w) == [w EXCEPT !.timer = TRUE]
Asleep   == [timer |-> FALSE, again |-> FALSE]

\* What the timer's callback leaves, when it starts a pass and when one runs.
Started(w)   == [w EXCEPT !.timer = FALSE]
Postponed(w) == [w EXCEPT !.timer = FALSE, !.again = TRUE]

\* Mutated form of Rested: a wake during the run is forgotten.
MutForgetAgain(w) == [w EXCEPT !.again = FALSE]

\* The finally block of drainPump.
Rested(w) == IF w.again THEN [w EXCEPT !.again = FALSE, !.timer = TRUE] ELSE w

\* A reserved key is posted by the caller, or left to the pump by a durable
\* call; a refused one leads to "sent" for the job, if there is one.
AfterReserve(s) == IF s \in DurableCallers THEN "wake" ELSE "post"
AfterRefuse(s)  == IF s \in Procs THEN "mark"
                   ELSE IF s \in DurableCallers THEN "dup" ELSE "done"
AfterSend(s)    == IF s \in Procs THEN "mark" ELSE "done"

\* routeDelivery falls back when the request had a target override: the
\* pump's always has.
FallsBack(s) == s \in Procs \cup Overriding /\ try[s] = 1

Holds(p, j) == j \in batch[p] \/ cur[p] = j

\* The oldest BatchLimit of the rows that are ready: ORDER BY created_at LIMIT.
Ready  == {j \in Jobs : IsReady(job[j])}
Picked == {j \in Ready :
             Cardinality({i \in Ready : job[i].born < job[j].born}) < BatchLimit}

\* Mutated form of MarkedJob: the attempt that just failed is not counted.
MutUncountedAttempt(r, why, attempts) ==
    CASE why \in SentWhy -> SentJob(r, why)
      [] why \in DeadWhy -> DeadJob(r, why)
      [] OTHER -> IF attempts >= MaxAttempts THEN DeadJob(r, "exhausted")
                                             ELSE RetriedJob(r)

\* What the pump makes of the result of routeDelivery.
MarkedJob(r, why, attempts) ==
    CASE why \in SentWhy -> SentJob(r, why)
      [] why \in DeadWhy -> DeadJob(r, why)
      [] OTHER -> IF attempts + 1 >= MaxAttempts THEN DeadJob(r, "exhausted")
                                                 ELSE RetriedJob(r)

----------------------------------------------------------------------------
Init ==
    /\ job = [j \in Jobs |-> NoJob]
    /\ idem = [k \in Keys |-> NoKey]
    /\ session = [s \in Sessions |-> "active"]
    /\ pc = [s \in Senders |-> IF s \in Procs THEN "idle" ELSE "route"]
    /\ try = [s \in Senders |-> 1]
    /\ res = [s \in Senders |-> "none"]
    /\ cur = [p \in Procs |-> None]
    /\ batch = [p \in Procs |-> {}]
    /\ seen = [p \in Procs |-> [j \in Jobs |-> 0]]
    /\ wake = [p \in Procs |-> Woken(Asleep)]
    /\ up = [p \in Procs |-> TRUE]
    /\ posts = [k \in Keys |-> 0]
    /\ cause = [k \in Keys |-> {}]
    /\ faults = 0

----------------------------------------------------------------------------
(* The pump: drainPump around runOutboundPumpInternal.                     *)

\* The timer's callback: start a pass, or note that one more is wanted.
TimerFires(p) ==
    /\ up[p] /\ wake[p].timer
    /\ IF pc[p] = "idle"
       THEN /\ pc' = [pc EXCEPT ![p] = "sweep"]
            /\ wake' = [wake EXCEPT ![p] = Started(@)]
       ELSE /\ wake' = [wake EXCEPT ![p] = Postponed(@)]
            /\ UNCHANGED pc
    /\ UNCHANGED <<job, idem, session, try, res, cur, batch, seen, up, posts,
                   cause, faults>>

\* recoverStuckJobs, then dropExpiredJobs: neither reads what a statement of
\* another process could have changed between the two.
Sweep(p) ==
    /\ pc[p] = "sweep"
    /\ job' = [j \in Jobs |-> PurgedJob(RecoveredJob(job[j]))]
    /\ pc' = [pc EXCEPT ![p] = "claim"]
    /\ UNCHANGED <<idem, session, try, res, cur, batch, seen, wake, up, posts,
                   cause, faults>>

Claim(p) ==
    /\ pc[p] = "claim"
    /\ job' = [j \in Jobs |-> IF j \in Picked THEN ClaimedJob(job[j])
                                              ELSE job[j]]
    /\ batch' = [batch EXCEPT ![p] = Picked]
    /\ seen' = [seen EXCEPT ![p] =
                  [j \in Jobs |-> IF j \in Picked THEN job[j].attempts ELSE 0]]
    /\ pc' = [pc EXCEPT ![p] = "next"]
    /\ UNCHANGED <<idem, session, try, res, cur, wake, up, posts, cause, faults>>

\* Mutated form of Deliverable: sessions being closed are not looked at.
MutDeliverable(s) == TRUE

\* canDeliverToSession, when the session's row can be read.
Deliverable(s) == session[s] = "active"

\* The next job of the batch, in whatever order RETURNING listed it, and
\* canDeliverToSession for it, which answers no when the database fails.
CheckSession(p) ==
    /\ pc[p] = "next"
    /\ \E j \in batch[p], dbFails \in BOOLEAN :
         /\ IF dbFails THEN Fault("db") ELSE UNCHANGED faults
         /\ cur' = [cur EXCEPT ![p] = j]
         /\ batch' = [batch EXCEPT ![p] = @ \ {j}]
         /\ IF Deliverable(SessionOf[j]) /\ ~dbFails
            THEN /\ pc' = [pc EXCEPT ![p] = "route"]
                 /\ UNCHANGED res
            ELSE /\ pc' = [pc EXCEPT ![p] = "mark"]
                 /\ res' = [res EXCEPT ![p] = "not-deliverable"]
    /\ UNCHANGED <<job, idem, session, try, seen, wake, up, posts, cause>>

\* markJobSent, markJobDead or markJobRetry; the loop goes on.
Mark(p) ==
    /\ pc[p] = "mark"
    /\ job' = [job EXCEPT ![cur[p]] = MarkedJob(@, res[p], seen[p][cur[p]])]
    /\ cur' = [cur EXCEPT ![p] = None]
    /\ res' = [res EXCEPT ![p] = "none"]
    /\ try' = [try EXCEPT ![p] = 1]
    /\ seen' = [seen EXCEPT ![p][cur[p]] = 0]
    /\ pc' = [pc EXCEPT ![p] = "next"]
    /\ UNCHANGED <<idem, session, batch, wake, up, posts, cause, faults>>

\* The batch is done, or was empty: getNextReadyDelayMs.
LookAhead(p) ==
    /\ pc[p] = "next" /\ batch[p] = {}
    /\ pc' = [pc EXCEPT ![p] = IF \E j \in Jobs : AwaitsPump(job[j])
                               THEN "rearm" ELSE "rest"]
    /\ UNCHANGED <<job, idem, session, try, res, cur, batch, seen, wake, up,
                   posts, cause, faults>>

\* A wake-up if a job waits, and the finally block of drainPump.
EndPass(p) ==
    /\ pc[p] \in {"rearm", "rest"}
    /\ wake' = [wake EXCEPT ![p] =
                  Rested(IF pc[p] = "rearm" THEN Woken(@) ELSE @)]
    /\ pc' = [pc EXCEPT ![p] = "idle"]
    /\ UNCHANGED <<job, idem, session, try, res, cur, batch, seen, up, posts,
                   cause, faults>>

\* A statement of the pass throws: what is left of the batch stays claimed.
PassThrows(p) ==
    /\ \/ pc[p] \in {"sweep", "claim", "route", "mark"}
       \/ pc[p] = "next" /\ batch[p] = {}
    /\ Fault("db")
    /\ wake' = [wake EXCEPT ![p] = Rested(Woken(@))]
    /\ pc' = [pc EXCEPT ![p] = "idle"]
    /\ cur' = [cur EXCEPT ![p] = None]
    /\ batch' = [batch EXCEPT ![p] = {}]
    /\ res' = [res EXCEPT ![p] = "none"]
    /\ try' = [try EXCEPT ![p] = 1]
    /\ UNCHANGED <<job, idem, session, seen, up, posts, cause>>

----------------------------------------------------------------------------
(* routeDelivery and deliverDirect, for a pump or a direct call.           *)

\* resolveDeliveryRoute and the before_delivery hook let the message through.
RouteFound(s) ==
    /\ s \in Posters /\ pc[s] = "route"
    /\ pc' = [pc EXCEPT ![s] = "insert"]
    /\ UNCHANGED <<job, idem, session, try, res, cur, batch, seen, wake, up,
                   posts, cause, faults>>

\* There is no route, or the hook suppresses or blocks the message, or it
\* names a channel nobody serves and there is nothing to fall back to.
RouteEnds(s) ==
    /\ s \in Posters /\ pc[s] = "route"
    /\ \E why \in {"failed", "hook", "no-target"} :
         /\ why = "no-target" => try[s] = 1
         /\ res' = IF s \in Procs THEN [res EXCEPT ![s] = why] ELSE res
    /\ pc' = [pc EXCEPT ![s] = AfterSend(s)]
    /\ UNCHANGED <<job, idem, session, try, cur, batch, seen, wake, up, posts,
                   cause, faults>>

\* The hook's target is of an unknown channel: the route is tried without
\* the override.
RouteRetargeted(s) ==
    /\ s \in Posters /\ pc[s] = "route" /\ FallsBack(s)
    /\ try' = [try EXCEPT ![s] = 2]
    /\ UNCHANGED <<job, idem, session, pc, res, cur, batch, seen, wake, up,
                   posts, cause, faults>>

\* chat.postMessage succeeds or fails.
Post(s) ==
    /\ s \in Posters /\ pc[s] = "post"
    /\ \/ /\ posts' = [posts EXCEPT ![Key(s)] = @ + 1]
          /\ res' = [res EXCEPT ![s] = "delivered"]
       \/ /\ res' = [res EXCEPT ![s] = "failed"]
          /\ UNCHANGED posts
    /\ pc' = [pc EXCEPT ![s] = "settle"]
    /\ UNCHANGED <<job, idem, session, try, cur, batch, seen, wake, up, cause,
                   faults>>

\* Slack has the message, but the call fails.
PostLosesAck(s) ==
    /\ s \in Posters /\ pc[s] = "post"
    /\ Fault("lostAck")
    /\ posts' = [posts EXCEPT ![Key(s)] = @ + 1]
    /\ cause' = Blame(Key(s), "lostAck")
    /\ res' = [res EXCEPT ![s] = "failed"]
    /\ pc' = [pc EXCEPT ![s] = "settle"]
    /\ UNCHANGED <<job, idem, session, try, cur, batch, seen, wake, up>>

\* After the reservation is settled: the fallback, or the end of the call.
AfterSettle(s) ==
    IF res[s] = "failed" /\ FallsBack(s)
    THEN /\ try' = [try EXCEPT ![s] = 2]
         /\ pc' = [pc EXCEPT ![s] = "route"]
         /\ res' = [res EXCEPT ![s] = "none"]
    ELSE /\ pc' = [pc EXCEPT ![s] = AfterSend(s)]
         /\ res' = IF s \in Procs THEN res ELSE [res EXCEPT ![s] = "none"]
         /\ UNCHANGED try

\* markSent, or releasePendingForRetry.
Settle(s) ==
    /\ s \in Posters /\ pc[s] = "settle"
    /\ idem' = [idem EXCEPT ![Key(s)] =
                  IF res[s] = "delivered" THEN MarkedKey(@, OwnerOf(s))
                                          ELSE ReleasedKey(@, OwnerOf(s))]
    /\ AfterSettle(s)
    /\ UNCHANGED <<job, session, cur, batch, seen, wake, up, posts, cause,
                   faults>>

\* Either of the two statements fails: an error is logged, and that is all.
SettleFails(s) ==
    /\ s \in Posters /\ pc[s] = "settle"
    /\ Fault("db")
    /\ cause' = Blame(Key(s), "db")
    /\ AfterSettle(s)
    /\ UNCHANGED <<job, idem, session, cur, batch, seen, wake, up, posts>>

----------------------------------------------------------------------------
(* reservePending, for a pump, a direct call or a durable call.            *)

\* deleteExpired and the INSERT ... ON CONFLICT DO NOTHING.
ReserveInsert(s) ==
    /\ pc[s] = "insert"
    /\ IF CanInsert(idem[Key(s)])
       THEN /\ idem' = [idem EXCEPT ![Key(s)] = PendingKey(OwnerOf(s))]
            /\ pc' = [pc EXCEPT ![s] = AfterReserve(s)]
       ELSE /\ pc' = [pc EXCEPT ![s] = "select"]
            /\ UNCHANGED idem
    /\ UNCHANGED <<job, session, try, res, cur, batch, seen, wake, up, posts,
                   cause, faults>>

\* What the SELECT after a conflict finds.
SeenRow(k, owner) ==
    CASE k.state = "none"                         -> "reserved"
      [] k.state = "sent"                         -> "already-sent"
      [] k.state = "pending" /\ k.owner # owner   -> "inflight"
      [] OTHER                                    -> "mine"

ReserveSelect(s) ==
    /\ pc[s] = "select"
    /\ LET row == SeenRow(idem[Key(s)], OwnerOf(s)) IN
         IF row \in {"already-sent", "inflight"}
         THEN /\ res' = IF s \in DirectCallers THEN res
                                                ELSE [res EXCEPT ![s] = row]
              /\ pc' = [pc EXCEPT ![s] = AfterRefuse(s)]
         ELSE /\ pc' = [pc EXCEPT ![s] = IF row = "mine" THEN "refresh"
                                                         ELSE AfterReserve(s)]
              /\ UNCHANGED res
    /\ UNCHANGED <<job, idem, session, try, cur, batch, seen, wake, up, posts,
                   cause, faults>>

\* The UPDATE by key alone: a row settled since the SELECT is pending again.
ReserveRefresh(s) ==
    /\ pc[s] = "refresh"
    /\ idem' = [idem EXCEPT ![Key(s)] = RefreshedKey(@, OwnerOf(s))]
    /\ cause' = IF idem[Key(s)].state = "sent" THEN Blame(Key(s), "refresh")
                                               ELSE cause
    /\ pc' = [pc EXCEPT ![s] = AfterReserve(s)]
    /\ UNCHANGED <<job, session, try, res, cur, batch, seen, wake, up, posts,
                   faults>>

\* Any of the statements fails: the send is allowed.
ReserveFails(s) ==
    /\ pc[s] \in {"insert", "select", "refresh"}
    /\ Fault("db")
    /\ cause' = Blame(Key(s), "db")
    /\ pc' = [pc EXCEPT ![s] = AfterReserve(s)]
    /\ UNCHANGED <<job, idem, session, try, res, cur, batch, seen, wake, up,
                   posts>>

----------------------------------------------------------------------------
(* queueDurableDelivery.                                                   *)

\* routeDelivery up to queueDurableDelivery.  A call that ends before it has
\* touched neither table, like one that never begins.
DurableRoute(c) ==
    /\ c \in DurableCallers /\ pc[c] = "route"
    /\ pc' = [pc EXCEPT ![c] = "lookup"]
    /\ UNCHANGED <<job, idem, session, try, res, cur, batch, seen, wake, up,
                   posts, cause, faults>>

\* isAlreadySent, which answers no when the database fails.
LookUp(c) ==
    /\ pc[c] = "lookup"
    /\ \E dbFails \in BOOLEAN :
         /\ IF dbFails THEN Fault("db") ELSE UNCHANGED faults
         /\ LET k == LookedUpKey(idem[Key(c)]) IN
              /\ idem' = IF dbFails THEN idem ELSE [idem EXCEPT ![Key(c)] = k]
              /\ pc' = [pc EXCEPT ![c] =
                          IF k.state = "sent" /\ ~dbFails THEN "done"
                                                          ELSE "enqueue"]
    /\ UNCHANGED <<job, session, try, res, cur, batch, seen, wake, up, posts,
                   cause>>

\* enqueueOutboundJob.
Enqueue(c) ==
    /\ pc[c] = "enqueue"
    /\ job' = [job EXCEPT ![c] =
                 EnqueuedJob(Cardinality({j \in Jobs :
                                            job[j].status # "absent"}))]
    /\ pc' = [pc EXCEPT ![c] = "insert"]
    /\ UNCHANGED <<idem, session, try, res, cur, batch, seen, wake, up, posts,
                   cause, faults>>

\* The key is not ours to send: markJobSent for the job just enqueued.
MarkDuplicate(c) ==
    /\ pc[c] = "dup"
    /\ job' = [job EXCEPT ![c] = SentJob(@, res[c])]
    /\ pc' = [pc EXCEPT ![c] = "done"]
    /\ res' = [res EXCEPT ![c] = "none"]
    /\ UNCHANGED <<idem, session, try, cur, batch, seen, wake, up, posts,
                   cause, faults>>

\* wakeOutboundPump of the caller's own process.
WakePump(c) ==
    /\ pc[c] = "wake"
    /\ wake' = [wake EXCEPT ![HostOf[c]] = Woken(@)]
    /\ pc' = [pc EXCEPT ![c] = "done"]
    /\ UNCHANGED <<job, idem, session, try, res, cur, batch, seen, up, posts,
                   cause, faults>>

\* A statement of the call throws: the request ends there.
CallThrows(c) ==
    /\ pc[c] \in {"route", "enqueue", "dup"}
    /\ Fault("db")
    /\ pc' = [pc EXCEPT ![c] = "done"]
    /\ UNCHANGED <<job, idem, session, try, res, cur, batch, seen, wake, up,
                   posts, cause>>

----------------------------------------------------------------------------
(* Processes and the clock.                                                *)

\* The process dies, with the pass and the calls that run in it.
Crash(p) ==
    /\ up[p] /\ Fault("crash")
    /\ up' = [up EXCEPT ![p] = FALSE]
    /\ pc' = [s \in Senders |->
                IF s = p THEN "idle"
                ELSE IF s \in Callers /\ HostOf[s] = p /\ Begun(s)
                     THEN "done" ELSE pc[s]]
    /\ cause' = IF pc[p] = "settle" /\ res[p] = "delivered"
                THEN Blame(Key(p), "crash") ELSE cause
    /\ cur' = [cur EXCEPT ![p] = None]
    /\ batch' = [batch EXCEPT ![p] = {}]
    /\ res' = [res EXCEPT ![p] = "none"]
    /\ try' = [try EXCEPT ![p] = 1]
    /\ wake' = [wake EXCEPT ![p] = Asleep]
    /\ UNCHANGED <<job, idem, session, seen, posts>>

\* main(): recoverStuckJobs, dropExpiredJobs and a wake-up.
Restart(p) ==
    /\ ~up[p]
    /\ up' = [up EXCEPT ![p] = TRUE]
    /\ job' = [j \in Jobs |-> PurgedJob(RecoveredJob(job[j]))]
    /\ wake' = [wake EXCEPT ![p] = Woken(@)]
    /\ UNCHANGED <<idem, session, pc, try, res, cur, batch, seen, posts, cause,
                   faults>>

\* A claim outlives its 60 seconds: the worker is gone, or it is slow.
ClaimLapses(j) ==
    /\ job[j].claim = "live"
    /\ job' = [job EXCEPT ![j] = LapsedJob(@)]
    /\ IF \E p \in Procs : Holds(p, j)
       THEN /\ Fault("slow")
            /\ cause' = Blame(KeyOf[j], "slow")
       ELSE UNCHANGED <<cause, faults>>
    /\ UNCHANGED <<idem, session, pc, try, res, cur, batch, seen, wake, up,
                   posts>>

\* The backoff of a retry is over.
FallsDue(j) ==
    /\ job[j].status \in Active /\ ~job[j].due
    /\ job' = [job EXCEPT ![j] = DueJob(@)]
    /\ UNCHANGED <<idem, session, pc, try, res, cur, batch, seen, wake, up,
                   posts, cause, faults>>

Expires(j) ==
    /\ j \in Expiring /\ job[j].status \in Active /\ ~job[j].expired
    /\ job' = [job EXCEPT ![j] = ExpiredJob(@)]
    /\ UNCHANGED <<idem, session, pc, try, res, cur, batch, seen, wake, up,
                   posts, cause, faults>>

\* A reservation outlives its day.
KeyLapses(k) ==
    /\ idem[k].state # "none" /\ ~idem[k].stale
    /\ Fault("keyLapse")
    /\ idem' = [idem EXCEPT ![k] = LapsedKey(@)]
    /\ cause' = Blame(k, "keyLapse")
    /\ UNCHANGED <<job, session, pc, try, res, cur, batch, seen, wake, up,
                   posts>>

\* eventCleanupService.runCleanup, one statement for each table.
CleanUpKeys ==
    /\ \E p \in Procs : up[p]
    /\ \E k \in Keys : idem[k].stale
    /\ idem' = [k \in Keys |-> LookedUpKey(idem[k])]
    /\ UNCHANGED <<job, session, pc, try, res, cur, batch, seen, wake, up,
                   posts, cause, faults>>

CleanUpJobs ==
    /\ \E p \in Procs : up[p]
    /\ \E j \in Jobs : job[j].expired /\ job[j].status \in Active
    /\ job' = [j \in Jobs |-> PurgedJob(job[j])]
    /\ UNCHANGED <<idem, session, pc, try, res, cur, batch, seen, wake, up,
                   posts, cause, faults>>

\* archiveSessionAndTerminateWork, deleteSessionAndTerminateWork: the row of
\* the session first, and later the jobs.
CloseSession(s) ==
    /\ s \in Closing /\ session[s] = "active"
    /\ session' = [session EXCEPT ![s] = "closed"]
    /\ UNCHANGED <<job, idem, pc, try, res, cur, batch, seen, wake, up, posts,
                   cause, faults>>

CancelJobs(s) ==
    /\ session[s] = "closed"
    /\ session' = [session EXCEPT ![s] = "cancelled"]
    /\ job' = [j \in Jobs |-> IF SessionOf[j] = s THEN CancelledJob(job[j])
                                                  ELSE job[j]]
    /\ UNCHANGED <<idem, pc, try, res, cur, batch, seen, wake, up, posts,
                   cause, faults>>

----------------------------------------------------------------------------
SendStep(s) ==
    \/ RouteFound(s) \/ RouteEnds(s) \/ RouteRetargeted(s)
    \/ ReserveInsert(s) \/ ReserveSelect(s) \/ ReserveRefresh(s) \/ ReserveFails(s)
    \/ Post(s) \/ PostLosesAck(s) \/ Settle(s) \/ SettleFails(s)

PumpStep(p) ==
    \/ Sweep(p) \/ Claim(p) \/ CheckSession(p)
    \/ SendStep(p) \/ Mark(p) \/ LookAhead(p) \/ EndPass(p) \/ PassThrows(p)

CallStep(c) ==
    /\ up[HostOf[c]]
    /\ \/ DurableRoute(c) \/ LookUp(c) \/ Enqueue(c) \/ MarkDuplicate(c)
       \/ WakePump(c) \/ SendStep(c) \/ CallThrows(c)

ClockStep ==
    \/ \E j \in Jobs : ClaimLapses(j) \/ FallsDue(j) \/ Expires(j)
    \/ \E k \in Keys : KeyLapses(k)
    \/ CleanUpKeys \/ CleanUpJobs

Next ==
    \/ \E p \in Procs : TimerFires(p) \/ PumpStep(p) \/ Crash(p) \/ Restart(p)
    \/ \E c \in Callers : CallStep(c)
    \/ ClockStep
    \/ \E s \in Sessions : CloseSession(s) \/ CancelJobs(s)

\* What the runtime and the clock see to: a pass that began goes on, a timer
\* that is armed fires, a process that died is started again, a request that
\* began is served, time passes, and the cleanup interval comes round.
Fairness ==
    /\ \A p \in Procs : /\ WF_vars(PumpStep(p))
                        /\ WF_vars(TimerFires(p))
                        /\ WF_vars(Restart(p))
    /\ \A c \in Callers : WF_vars(Begun(c) /\ CallStep(c))
    /\ \A j \in Jobs : /\ WF_vars(FallsDue(j))
                       /\ WF_vars(ClaimLapses(j) /\ UNCHANGED faults)
    /\ WF_vars(CleanUpJobs)

Spec     == Init /\ [][Next]_vars
FairSpec == Spec /\ Fairness

----------------------------------------------------------------------------
(* Properties.                                                             *)

\* No second message under a key unless something named happened to that key:
\* a claim that lapsed while its worker was still at it, a crash between the
\* post and markSent, a post whose acknowledgement was lost, a reservation
\* statement that failed, a reservation that outlived its TTL, or a refresh
\* that undid markSent.  In particular the fallback of routeDelivery, a retry,
\* a stuck claim recovered, a pass that threw and two pumps on one table never
\* send twice by themselves.
NoUnexplainedDuplicate ==
    \A k \in Keys : posts[k] > 1 => cause[k] # {}

\* claimReadyJobs hands a job to one worker: two live passes have the same job
\* only if its claim lapsed under the first of them.
OneWorkerPerJob ==
    \A p, q \in Procs : \A j \in Jobs :
       Holds(p, j) /\ Holds(q, j) /\ p # q => "slow" \in cause[KeyOf[j]]

\* attempt_count stays under MAX_ATTEMPTS, however often passes are thrown
\* away and claims recovered, as long as no claim lapsed under its worker.
AttemptsBounded ==
    \A j \in Jobs : job[j].attempts < MaxAttempts \/ "slow" \in cause[KeyOf[j]]

\* A job some pump should still pick up is known to somebody who will see to
\* it: an armed timer, a pass that has not yet asked getNextReadyDelayMs in
\* vain, needsAnotherRun if it has, a process that will start, or the call that
\* enqueued it and has not yet woken the pump.
NoLostWake ==
    \A j \in Jobs : AwaitsPump(job[j]) =>
       \/ \E p \in Procs : \/ ~up[p] \/ wake[p].timer \/ wake[p].again
                          \/ pc[p] \notin {"idle", "rest"}
       \/ pc[j] \in {"insert", "select", "refresh", "wake", "dup"}

\* A job of a closed session on which no pass is at work is never taken to
\* Slack again, although a mark may bring a cancelled job back to "retry".
AtWork(j) == \E p \in Procs : cur[p] = j
ClosedStaysQuiet ==
    \A j \in Jobs :
       [](session[SessionOf[j]] # "active" /\ ~AtWork(j)
          => [](\A p \in Procs : cur[p] = j => pc[p] = "mark"))

\* Every job is sent, dead or deleted in the end.
JobsSettle ==
    \A j \in Jobs : job[j].status \in Active ~> job[j].status \notin Active
=============================================================================
