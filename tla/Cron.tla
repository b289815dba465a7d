-------------------------------- MODULE Cron --------------------------------
(***************************************************************************)
(* The cron service of the gateway (src/gateway/services/cron.ts): jobs    *)
(* in ava_cron_jobs, one remembered setTimeout in memory, and requests     *)
(* that create, patch, delete and trigger jobs while timers fire.          *)
(*                                                                         *)
(* armTimer is asynchronous: it clears the remembered timer, asks the      *)
(* database for the next job, and sets a timer when the answer comes.  Two *)
(* overlapping calls set two timers of which one is remembered; the other  *)
(* still fires.  A Chain is one such thread of control:                    *)
(*   asking -> told -> set -> claiming -> running -> asking ...            *)
(* so a chain is in turn a call of armTimer, a timer and a call of         *)
(* onTimer.                                                                *)
(*                                                                         *)
(* Time is a number of ticks; the clocks of the process and of the         *)
(* database are one.  A cron expression is a schedule like "every".        *)
(***************************************************************************)
EXTENDS Integers, Sequences, FiniteSets, SequencesExt, FiniteSetsExt

CONSTANTS
    Jobs,       \* the ids of the jobs
    Requests,   \* requests to create, patch, delete or trigger, one each
    Chains,     \* one for the start and one for each request that arms
    NewJobs,    \* the jobs a request may create: kind, value, once
    Patches,    \* the patches a request may send: kind, value, enabled
    Horizon,    \* the last tick of the clock
    Lease,      \* CRON_CLAIM_LEASE_SECONDS
    MaxDelay,   \* MAX_TIMEOUT_MS
    BatchLimit, \* the jobs one onTimer claims
    Faults,     \* subset of {"crash", "db"}
    MaxFaults,  \* how many faults may happen
    None

Kinds == {"at", "every"}
Actors == Chains \cup Requests

ASSUME CronAssumption ==
    /\ Horizon \in Nat /\ Lease \in Nat \ {0} /\ MaxDelay \in Nat \ {0}
    /\ BatchLimit \in Nat \ {0} /\ MaxFaults \in Nat
    /\ IsFiniteSet(Jobs) /\ IsFiniteSet(Requests) /\ IsFiniteSet(Chains)
    /\ Cardinality(Chains) > Cardinality(Requests)
    /\ Chains \cap Requests = {}
    /\ NewJobs \subseteq [kind : Kinds, value : Int, once : BOOLEAN]
    /\ Patches \subseteq [kind : Kinds \cup {None}, value : Int \cup {None},
                          enabled : BOOLEAN \cup {None}]
    /\ Faults \subseteq {"crash", "db"}
    /\ None \notin Jobs \cup Kinds /\ None \notin Int /\ None \notin BOOLEAN

VARIABLES
    now,     \* the clock
    up,      \* "down", "starting" (before the select), "booting", "up"
    table,   \* ava_cron_jobs: the row of each job, or None
    born,    \* the jobs that were inserted, whose ids are used up
    boot,    \* the rows initializeJobs selected and has not rewritten yet
    timer,   \* this.timer: the chain whose timer it is, or None
    chain,   \* the chains
    run,     \* the executeJob of each chain and request, or None
    req,     \* the requests
    queued,  \* how often the payload of each job went into ava_queue
    byHand,  \* jobs whose next run a triggerJob moved since the last armTimer
    revived, \* history: jobs initializeJobs gave a next run while a chain held them
    faults   \* faults so far

vars == <<now, up, table, born, boot, timer, chain, run, req, queued, byHand,
          revived, faults>>

(* Schedules.  A kind or value that is not there gives no next run.        *)
NextRun(kind, value) ==
    CASE kind = "at" /\ value > now   -> value
      [] kind = "every" /\ value > 0  -> now + value
      [] OTHER                        -> None

NewRow(n) == [kind |-> n.kind, value |-> n.value, once |-> n.once,
              enabled |-> TRUE, next |-> NextRun(n.kind, n.value)]

(* What executeJob sees of a row.  A row of getJob has all its fields; the *)
(* rows of claimDueJobs come as the driver returns them, with the column   *)
(* names of the table, so that session, user, schedule and deleteAfterRun  *)
(* read as undefined.                                                      *)
Mapped(row) == [kind |-> row.kind, value |-> row.value, once |-> row.once,
                session |-> TRUE]
Raw == [kind |-> None, value |-> None, once |-> FALSE, session |-> FALSE]

Awaits(j) == table[j] # None /\ table[j].enabled /\ table[j].next # None
IsDue(j) == Awaits(j) /\ table[j].next <= now

Idle == [at |-> "idle", due |-> None, batch |-> <<>>]

(* onTimer c claimed job j, and has not finished its run of it.            *)
Holds(c, j) == chain[c].at = "running" /\ j \in ToSet(chain[c].batch)

-----------------------------------------------------------------------------
(* armTimer as the last thing an actor does: the remembered timer is       *)
(* cleared, and chain c of the chains ch waits for findNextJob.            *)
Arm(ch, c) ==
    /\ chain' = [x \in Chains |->
                   IF x = c THEN [Idle EXCEPT !.at = "asking"]
                   ELSE IF x = timer /\ ch[x].at = "set" THEN Idle ELSE ch[x]]
    /\ timer' = None
    /\ byHand' = {}

FreeChain == CHOOSE c \in Chains : chain[c].at = "idle"

Fault(f) == f \in Faults /\ faults < MaxFaults /\ faults' = faults + 1

(* The process is gone; the rows stay.                                     *)
Die ==
    /\ up' = "down"
    /\ boot' = [j \in Jobs |-> None]
    /\ timer' = None
    /\ chain' = [c \in Chains |-> Idle]
    /\ run' = [a \in Actors |-> None]
    /\ req' = [r \in Requests |->
                 IF req[r].at = "idle" THEN req[r]
                 ELSE [req[r] EXCEPT !.at = "done"]]
    /\ byHand' = {}
    /\ revived' = {}
    /\ UNCHANGED <<now, table, born, queued>>

Crash == up # "down" /\ Fault("crash") /\ Die

Tick ==
    /\ now < Horizon
    /\ now' = now + 1
    /\ UNCHANGED <<up, table, born, boot, timer, chain, run, req, queued,
                   byHand, revived, faults>>

-----------------------------------------------------------------------------
(* start and initializeJobs: an enabled job without a next run gets one.   *)
(* A refused statement rejects a promise nobody handles: the process ends. *)
Start ==
    /\ up = "down"
    /\ up' = "starting"
    /\ UNCHANGED <<now, table, born, boot, timer, chain, run, req, queued,
                   byHand, revived, faults>>

BootRead ==
    /\ up = "starting"
    /\ up' = "booting"
    /\ boot' = [j \in Jobs |->
                  IF table[j] # None /\ table[j].enabled
                     /\ table[j].next = None
                  THEN Mapped(table[j]) ELSE None]
    /\ UNCHANGED <<now, table, born, timer, chain, run, req, queued, byHand,
                   revived, faults>>

BootWrite(j) ==
    /\ up = "booting" /\ boot[j] # None
    /\ boot' = [boot EXCEPT ![j] = None]
    /\ LET next == NextRun(boot[j].kind, boot[j].value)
       IN  table' = IF table[j] = None \/ next = None THEN table
                    ELSE [table EXCEPT ![j].next = next]
    /\ revived' = IF table' # table /\ \E c \in Chains : Holds(c, j)
                THEN revived \cup {j} ELSE revived
    /\ UNCHANGED <<now, up, born, timer, chain, run, req, queued, byHand,
                   faults>>

BootDone ==
    /\ up = "booting" /\ \A j \in Jobs : boot[j] = None
    /\ up' = "up"
    /\ Arm(chain, FreeChain)
    /\ UNCHANGED <<now, table, born, boot, run, req, queued, revived, faults>>

BootFails ==
    /\ \/ up = "starting"
       \/ up = "booting" /\ \E j \in Jobs : boot[j] # None
    /\ Fault("db")
    /\ Die

-----------------------------------------------------------------------------
(* findNextJob: the earliest next run of the enabled jobs.                 *)
Find(c) ==
    /\ chain[c].at = "asking"
    /\ LET times == {table[j].next : j \in {i \in Jobs : Awaits(i)}}
       IN  chain' = [chain EXCEPT ![c] =
             IF times = {} THEN Idle
             ELSE [Idle EXCEPT !.at = "told", !.due = Min(times)]]
    /\ UNCHANGED <<now, up, table, born, boot, timer, run, req, queued, byHand,
                   revived, faults>>

(* The select of findNextJob is refused: an unhandled rejection.           *)
FindFails(c) == chain[c].at = "asking" /\ Fault("db") /\ Die

\* Mutated form of SetTimer: an answer that finds a timer set keeps that one.
MutKeepTimer(c) ==
    /\ chain[c].at = "told"
    /\ IF timer # None
       THEN chain' = [chain EXCEPT ![c] = Idle] /\ UNCHANGED timer
       ELSE /\ chain' = [chain EXCEPT ![c].at = "set",
                  ![c].due = now + Min({Max({chain[c].due - now, 0}), MaxDelay})]
            /\ timer' = c
    /\ UNCHANGED <<now, up, table, born, boot, run, req, queued, byHand,
                   revived, faults>>

SetTimer(c) ==
    /\ chain[c].at = "told"
    /\ LET delay == Min({Max({chain[c].due - now, 0}), MaxDelay})
       IN  chain' = [chain EXCEPT ![c].at = "set", ![c].due = now + delay]
    /\ timer' = c
    /\ UNCHANGED <<now, up, table, born, boot, run, req, queued, byHand,
                   revived, faults>>

(* The timer goes off: onTimer begins.  this.timer still names it.         *)
Fire(c) ==
    /\ chain[c].at = "set" /\ chain[c].due <= now
    /\ chain' = [chain EXCEPT ![c].at = "claiming"]
    /\ UNCHANGED <<now, up, table, born, boot, timer, run, req, queued, byHand,
                   revived, faults>>

(* claimDueJobs: one statement picks the oldest due jobs and moves their   *)
(* next run to the end of the lease.  It returns them in any order; the    *)
(* ids that break a tie are abstracted.                                    *)
Due == {j \in Jobs : IsDue(j)}
Oldest ==
    {S \in SUBSET Due :
        /\ Cardinality(S) = Min({BatchLimit, Cardinality(Due)})
        /\ \A i \in S, j \in Due \ S : table[i].next <= table[j].next}
(* The executeJob of a claimed row.                                        *)
Execution(j) == [at |-> "enqueue", job |-> j, row |-> Raw]

\* Mutated form of Leased: the due rows are selected and none is leased.
MutNoLease(batch) == table

Leased(batch) ==
    [j \in Jobs |-> IF j \in ToSet(batch)
                    THEN [table[j] EXCEPT !.next = now + Lease] ELSE table[j]]

Claim(c) ==
    /\ chain[c].at = "claiming"
    /\ \/ Due = {} /\ Arm(chain, c) /\ UNCHANGED <<table, run>>
       \/ /\ Due # {}
          /\ \E S \in Oldest : \E batch \in SetToSeqs(S) :
               /\ table' = Leased(batch)
               /\ chain' = [chain EXCEPT ![c] =
                    [at |-> "running", due |-> now + Lease, batch |-> batch]]
               /\ run' = [run EXCEPT ![c] = Execution(Head(batch))]
          /\ UNCHANGED <<timer, byHand>>
    /\ UNCHANGED <<now, up, born, boot, req, queued, revived, faults>>

(* The claim is refused: onTimer logs it and arms the timer again.         *)
\* Mutated form of ClaimFails: a refused claim does not arm the timer again.
MutNoFinally(c) ==
    /\ chain[c].at = "claiming"
    /\ Fault("db")
    /\ chain' = [chain EXCEPT ![c] = Idle]
    /\ UNCHANGED <<now, up, table, born, boot, timer, run, req, queued, byHand,
                   revived>>

ClaimFails(c) ==
    /\ chain[c].at = "claiming"
    /\ Fault("db")
    /\ Arm(chain, c)
    /\ UNCHANGED <<now, up, table, born, boot, run, req, queued, revived>>

-----------------------------------------------------------------------------
(* executeJob, begun by a chain for its batch or by a triggerJob.          *)
Returns(a) ==
    IF a \in Chains
    THEN /\ UNCHANGED req
         /\ LET rest == Tail(chain[a].batch)
            IN  IF rest = <<>>
                THEN Arm(chain, a) /\ run' = [run EXCEPT ![a] = None]
                ELSE /\ chain' = [chain EXCEPT ![a].batch = rest]
                     /\ run' = [run EXCEPT ![a] = Execution(Head(rest))]
                     /\ UNCHANGED <<timer, byHand>>
    ELSE /\ req' = [req EXCEPT ![a].at = "done"]
         /\ run' = [run EXCEPT ![a] = None]
         /\ byHand' = byHand \cup {run[a].job}
         /\ UNCHANGED <<chain, timer>>

(* The row a run leaves: deleted when it was the last one, else with the   *)
(* next run of the schedule the run began with.                            *)
Settled(j, row) ==
    IF row.once \/ NextRun(row.kind, row.value) = None THEN None
    ELSE [table[j] EXCEPT !.next = NextRun(row.kind, row.value)]
Failed(j, row) ==
    IF row.once THEN None
    ELSE [table[j] EXCEPT !.next = NextRun(row.kind, row.value)]

Writes(a, j, row) ==
    /\ table' = IF table[j] = None THEN table ELSE [table EXCEPT ![j] = row]
    /\ Returns(a)

(* The session is looked up, cron.fired is broadcast and the payload goes  *)
(* into ava_queue, whose session_id and user_id may not be null.           *)
Enqueue(a) ==
    /\ run[a] # None /\ run[a].at = "enqueue"
    /\ IF run[a].row.session
       THEN /\ queued' = [queued EXCEPT ![run[a].job] = @ + 1]
            /\ run' = [run EXCEPT ![a].at = "settle"]
       ELSE /\ run' = [run EXCEPT ![a].at = "fail"]
            /\ UNCHANGED queued
    /\ UNCHANGED <<now, up, table, born, boot, timer, chain, req, byHand,
                   revived, faults>>

Settle(a) ==
    /\ run[a] # None /\ run[a].at = "settle"
    /\ Writes(a, run[a].job, Settled(run[a].job, run[a].row))
    /\ UNCHANGED <<now, up, born, boot, queued, revived, faults>>

(* The lookup, the insert or the last write is refused.                    *)
TryFails(a) ==
    /\ run[a] # None /\ run[a].at \in {"enqueue", "settle"}
    /\ Fault("db")
    /\ run' = [run EXCEPT ![a].at = "fail"]
    /\ UNCHANGED <<now, up, table, born, boot, timer, chain, req, queued,
                   byHand, revived>>

Fail(a) ==
    /\ run[a] # None /\ run[a].at = "fail"
    /\ Writes(a, run[a].job, Failed(run[a].job, run[a].row))
    /\ UNCHANGED <<now, up, born, boot, queued, revived, faults>>

(* The write of the catch block is refused too: executeJob rejects, and an *)
(* onTimer gives up the rest of its batch.  (The jobs of a batch share one *)
(* undefined session, so that one worker runs them all.)                   *)
FailFails(a) ==
    /\ run[a] # None /\ run[a].at = "fail"
    /\ Fault("db")
    /\ run' = [run EXCEPT ![a] = None]
    /\ IF a \in Chains
       THEN Arm(chain, a) /\ UNCHANGED req
       ELSE /\ req' = [req EXCEPT ![a].at = "done"]
            /\ UNCHANGED <<chain, timer, byHand>>
    /\ UNCHANGED <<now, up, table, born, boot, queued, revived>>

-----------------------------------------------------------------------------
(* The requests.  A refused statement ends one with nothing changed, as if *)
(* it had not been sent.                                                   *)
Begins(r, at, j, patch, row) ==
    /\ up # "down" /\ req[r].at = "idle"
    /\ req' = [req EXCEPT ![r] =
                 [at |-> at, job |-> j, patch |-> patch, seen |-> row]]

CreateJob(r, j, n) ==
    /\ j \notin born
    /\ Begins(r, "arming", j, None, None)
    /\ table' = [table EXCEPT ![j] = NewRow(n)]
    /\ born' = born \cup {j}
    /\ UNCHANGED <<now, up, boot, timer, chain, run, queued, byHand, revived,
                   faults>>

(* updateJob reads the job when the patch touches its schedule.            *)
UpdateJob(r, j, patch) ==
    /\ j \in born
    /\ Begins(r, "patching", j, patch,
              IF (patch.kind = None /\ patch.value = None) \/ table[j] = None
              THEN None ELSE Mapped(table[j]))
    /\ UNCHANGED <<now, up, table, born, boot, timer, chain, run, queued,
                   byHand, revived, faults>>

Or(new, old) == IF new # None THEN new ELSE old

Patch(r) ==
    LET j == req[r].job  p == req[r].patch  seen == req[r].seen
    IN  /\ req[r].at = "patching"
        /\ table' = IF table[j] = None THEN table
             ELSE [table EXCEPT ![j] =
                    [kind |-> Or(p.kind, @.kind), value |-> Or(p.value, @.value),
                     once |-> @.once, enabled |-> Or(p.enabled, @.enabled),
                     next |-> IF seen = None THEN @.next
                              ELSE NextRun(Or(p.kind, seen.kind),
                                           Or(p.value, seen.value))]]
        /\ req' = [req EXCEPT ![r].at = "arming"]
        /\ UNCHANGED <<now, up, born, boot, timer, chain, run, queued, byHand,
                       revived, faults>>

(* The last thing createJob and updateJob do.                              *)
ArmAfter(r) ==
    /\ req[r].at = "arming"
    /\ req' = [req EXCEPT ![r].at = "done"]
    /\ Arm(chain, FreeChain)
    /\ UNCHANGED <<now, up, table, born, boot, run, queued, revived, faults>>

DeleteJob(r, j) ==
    /\ j \in born
    /\ Begins(r, "done", j, None, None)
    /\ table' = [table EXCEPT ![j] = None]
    /\ UNCHANGED <<now, up, born, boot, timer, chain, run, queued, byHand,
                   revived, faults>>

TriggerJob(r, j) ==
    /\ table[j] # None
    /\ Begins(r, "running", j, None, None)
    /\ run' = [run EXCEPT ![r] = [at |-> "enqueue", job |-> j,
                                  row |-> Mapped(table[j])]]
    /\ UNCHANGED <<now, up, table, born, boot, timer, chain, queued, byHand,
                   revived, faults>>

-----------------------------------------------------------------------------
NoRequest == [at |-> "idle", job |-> None, patch |-> None, seen |-> None]

(* The process is about to start over the jobs of an earlier one.          *)
Init ==
    /\ now = 0
    /\ up = "down"
    /\ table \in [Jobs -> {None} \cup {NewRow(n) : n \in NewJobs}]
    /\ born = {j \in Jobs : table[j] # None}
    /\ boot = [j \in Jobs |-> None]
    /\ timer = None
    /\ chain = [c \in Chains |-> Idle]
    /\ run = [a \in Actors |-> None]
    /\ req = [r \in Requests |-> NoRequest]
    /\ queued = [j \in Jobs |-> 0]
    /\ byHand = {}
    /\ revived = {}
    /\ faults = 0

OnTimer(c) == Claim(c) \/ ClaimFails(c)
ArmTimer(c) == Find(c) \/ FindFails(c) \/ SetTimer(c) \/ Fire(c)
ExecuteJob(a) == Enqueue(a) \/ Settle(a) \/ TryFails(a) \/ Fail(a) \/ FailFails(a)
Request(r) ==
    \/ \E j \in Jobs :
         \/ \E n \in NewJobs : CreateJob(r, j, n)
         \/ \E p \in Patches : UpdateJob(r, j, p)
         \/ DeleteJob(r, j)
         \/ TriggerJob(r, j)
    \/ Patch(r)
    \/ ArmAfter(r)

Next ==
    \/ Tick \/ Crash \/ Start \/ BootRead \/ BootDone \/ BootFails
    \/ \E j \in Jobs : BootWrite(j)
    \/ \E c \in Chains : ArmTimer(c) \/ OnTimer(c)
    \/ \E a \in Actors : ExecuteJob(a)
    \/ \E r \in Requests : Request(r)

Spec == Init /\ [][Next]_vars

(* The event loop and the database serve every step that waits; the        *)
(* process is started again.  Time, requests and faults need not come.     *)
Fairness ==
    /\ WF_vars(Start) /\ WF_vars(BootRead) /\ WF_vars(BootDone)
    /\ \A j \in Jobs : WF_vars(BootWrite(j))
    /\ \A c \in Chains :
         WF_vars(Find(c) \/ SetTimer(c) \/ Fire(c) \/ Claim(c))
    /\ \A a \in Actors : WF_vars(Enqueue(a) \/ Settle(a) \/ Fail(a))
    /\ \A r \in Requests : WF_vars(Patch(r) \/ ArmAfter(r))

FairSpec == Spec /\ Fairness

-----------------------------------------------------------------------------
(* Properties.                                                             *)

MaybeTime == Nat \cup {None}
Row == [kind : Kinds, value : Int, once : BOOLEAN, enabled : BOOLEAN,
        next : MaybeTime]
Seen == [kind : Kinds, value : Int, once : BOOLEAN, session : {TRUE}]

(* Type correctness of the service's state and of its rows.                *)
TypeOK ==
    /\ now \in 0..Horizon
    /\ up \in {"down", "starting", "booting", "up"}
    /\ table \in [Jobs -> Row \cup {None}]
    /\ born \subseteq Jobs /\ byHand \subseteq Jobs /\ revived \subseteq Jobs
    /\ boot \in [Jobs -> Seen \cup {None}]
    /\ timer \in Chains \cup {None}
    /\ chain \in [Chains ->
         [at : {"idle", "asking", "told", "set", "claiming", "running"},
          due : MaybeTime, batch : Seq(Jobs)]]
    /\ run \in [Actors -> {None} \cup
         [at : {"enqueue", "settle", "fail"}, job : Jobs, row : Seen \cup {Raw}]]
    /\ req \in [Requests ->
         [at : {"idle", "patching", "arming", "running", "done"},
          job : Jobs \cup {None}, patch : Patches \cup {None},
          seen : Seen \cup {None}]]
    /\ queued \in [Jobs -> Nat]
    /\ faults \in 0..MaxFaults

(* However calls of armTimer overlap, fire and clear each other's timers,  *)
(* a job that awaits its next run is never forgotten: a timer will go off  *)
(* no later than that run, or somebody is about to look for the next job.  *)
(* Only a run that a triggerJob moved may have to wait for the next call   *)
(* of armTimer, because triggerJob ends without one (238-244).             *)
Watched(j) ==
    \/ \E c \in Chains :
         \/ chain[c].at \in {"asking", "claiming", "running"}
         \/ /\ chain[c].at \in {"told", "set"}
            /\ chain[c].due <= Max({table[j].next, now})
    \/ \E r \in Requests : req[r].at = "arming"

TimerKept ==
    up = "up" => \A j \in Jobs : Awaits(j) /\ j \notin byHand => Watched(j)

(* Two overlapping onTimers never run the same occurrence of a job: both   *)
(* hold it only when the second claimed it after the lease of the first,   *)
(* or when a request touched the job, or initializeJobs gave it a new next *)
(* run, meanwhile (claimDueJobs, 343-366).                                 *)
OneHolder ==
    \A c, d \in Chains, j \in Jobs :
        /\ c # d /\ Holds(c, j) /\ Holds(d, j)
        /\ j \notin revived
        /\ \A r \in Requests : req[r].job # j
        => \/ chain[c].due + Lease <= chain[d].due
           \/ chain[d].due + Lease <= chain[c].due

(* A due job is claimed, or stops being due because somebody edits it, in  *)
(* spite of crashes, restarts and refused statements between the claim and *)
(* the rearming of the timer (armTimer, onTimer, start).                   *)
DueIsClaimed == \A j \in Jobs : (IsDue(j) /\ j \notin byHand) ~> ~IsDue(j)

(* docs/RUNTIME_FLOWS.md:135 "When due, cron enqueues payload in           *)
(* `ava_queue`."                                                           *)
DueIsQueued == \A j \in Jobs : IsDue(j) ~> (queued[j] > 0 \/ table[j] = None)

=============================================================================
