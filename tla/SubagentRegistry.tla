-------------------------- MODULE SubagentRegistry --------------------------
(***************************************************************************)
(* Subagents: the calls that spawn, steer and kill them                    *)
(* (subagent.tool.ts), their executors (subagent-executor.ts), the         *)
(* registry of runs with its mirror in ava_subagent_runs                   *)
(* (subagent-registry.ts), and the announcement of a completion            *)
(* (subagent-announce.ts).                                                 *)
(*                                                                         *)
(* A step is what runs between two awaits.  Everything the registry knows  *)
(* is in the memory of one process.  It writes a run to the table with     *)
(* upserts nobody awaits, which may land in any order, and reads the table *)
(* only when it starts.                                                    *)
(***************************************************************************)
EXTENDS Naturals, FiniteSets

CONSTANTS Runs,
          Tops,             \* the sessions of users
          ParentOf,         \* parentSessionId of a run: of Tops, or of another run
          ChildOf,          \* its own session
          ReplacementOf,    \* the run whose steering starts this one, or None
          None,
          Silent,           \* the runs with announceMode "silent"
          Kept,             \* the runs whose session is not cleaned up
          Closing,          \* the sessions of users that are archived
          MaxRunning,       \* MAX_GLOBAL_CONCURRENT
          MaxChildren,      \* MAX_CHILDREN_PER_AGENT
          MaxArchived,      \* MAX_ARCHIVED_RUNS
          MaxRetries,       \* ANNOUNCE_MAX_RETRIES
          Faults, MaxFaults,    \* the kinds of fault, and how many in all
          MaxAtCrash            \* the most runs begun before a restart

Sessions == Tops \cup {ChildOf[r] : r \in Runs}

ASSUME SubagentAssumption ==
    /\ IsFiniteSet(Runs)
    /\ \A r \in Runs : /\ ParentOf[r] \in Sessions \ {ChildOf[r]}
                       /\ ChildOf[r] \notin Tops
                       /\ ReplacementOf[r] \in (Runs \ {r}) \cup {None}
                       /\ ReplacementOf[r] # None =>
                            /\ ChildOf[r] = ChildOf[ReplacementOf[r]]
                            /\ ParentOf[r] = ParentOf[ReplacementOf[r]]
    /\ \A q, r \in Runs :                       \* randomUUID of a spawn
          q # r /\ ReplacementOf[q] = None /\ ReplacementOf[r] = None => ChildOf[q] # ChildOf[r]
    /\ None \notin Runs
    /\ Silent \subseteq Runs /\ Kept \subseteq Runs /\ Closing \subseteq Tops
    /\ {MaxRunning, MaxChildren, MaxArchived, MaxRetries} \subseteq Nat \ {0}
    /\ {MaxFaults, MaxAtCrash} \subseteq Nat

VARIABLES
    known,    \* the runs in the registry's map
    run,      \* the object of a run, in the map or in the hands of an announcement
    rows,     \* the rows of a run that ava_subagent_runs may hold by now
    endedAt,  \* when a run ended, as a rank, or zero
    late,     \* the runs that ended more than ANNOUNCE_EXPIRY_MS ago
    timer,    \* announceRetryTimers
    ann,      \* handleAnnounceCleanup: the next statement
    exec,     \* the tool call and spawnSubagent: the next statement
    held,     \* childrenCount
    session,  \* ava_sessions
    key,      \* the idempotency row of an announcement
    told,     \* how the completion of a run was made known, and how often
    cause,    \* history: what befell a run
    faults    \* faults so far

vars == <<known, run, rows, endedAt, late, timer, ann, exec, held, session,
          key, told, cause, faults>>

\* "ended" is each of the statuses completed, failed and timeout.
Over == {"ended", "killed"}
RunRow == [status  : {"absent", "running"} \cup Over,
           handled : BOOLEAN,              \* cleanupHandled
           dropped : BOOLEAN,              \* suppressAnnounceReason is set
           retries : Nat]                  \* announceRetryCount
ExecRow == [at : {"none", "flow", "settling", "identity", "work", "clean", "ended", "over"},
            ok : BOOLEAN, aborted : BOOLEAN,
            prompt : BOOLEAN]   \* its agent spawns runs, and a prompt may be going on
AnnAt    == {"idle", "check", "reserve", "post", "mark", "followup", "event"}
Channels == {"direct", "followup", "event"}
Causes   == {"killed", "afterKill", "slowAbort", "leak", "post", "lostAck", "db", "torn"}

TypeOK ==
    /\ known \in SUBSET Runs
    /\ run \in [Runs -> RunRow]
    /\ rows \in [Runs -> SUBSET RunRow]
    /\ endedAt \in [Runs -> Nat]
    /\ late \in SUBSET Runs
    /\ timer \in SUBSET Runs
    /\ ann \in [Runs -> AnnAt]
    /\ exec \in [Runs -> ExecRow]
    /\ held \in [Sessions -> Nat]
    /\ session \in [Sessions -> {"none", "active", "archiving", "archived"}]
    /\ key \in [Runs -> {"none", "pending", "sent"}]
    /\ told \in [Runs -> [Channels -> Nat]]
    /\ cause \in [Runs -> SUBSET Causes]
    /\ faults \in 0 .. MaxFaults

----------------------------------------------------------------------------
\* Operators

NoRun  == [status |-> "absent", handled |-> FALSE, dropped |-> FALSE, retries |-> 0]
NoExec == [at |-> "none", ok |-> FALSE, aborted |-> FALSE, prompt |-> FALSE]
Done   == [NoExec EXCEPT !.at = "over"]

Blame(S, why) == [r \in Runs |-> IF r \in S THEN cause[r] \cup {why} ELSE cause[r]]
Fault(kind)   == kind \in Faults /\ faults < MaxFaults /\ faults' = faults + 1

Running     == {r \in known : run[r].status = "running"}
Children(s) == {r \in known : ParentOf[r] = s}     \* getChildRuns
Nested(r)   == ParentOf[r] \notin Tops             \* requesterIsSubagent
ToldIn(r)   == told[r]["direct"] + told[r]["followup"] + told[r]["event"]

HasRunningDescendants(r) == Children(ChildOf[r]) \cap Running # {}

\* persistRun.  Nobody awaits the upsert, and it may be late or fail: what was
\* written before may be in the table for good.
Persisted(S, obj) == [r \in Runs |-> IF r \in S THEN rows[r] \cup {obj[r]} ELSE rows[r]]

Goes(r, at) == exec' = [exec EXCEPT ![r].at = at]
GoesTalking(r, at, p) == exec' = [exec EXCEPT ![r].at = at, ![r].prompt = p]

\* incrementChildCount, decrementChildCount, which removes an entry of one.
Taken(s)    == [held EXCEPT ![s] = @ + 1]
Released(s) == [held EXCEPT ![s] = IF @ <= 1 THEN 0 ELSE @ - 1]

\* Date.now(), where only the order of the ends is kept.
Now == Cardinality({r \in Runs : endedAt[r] > 0}) + 1

\* boundArchivedRuns: whom it may delete when S has ended, the oldest first.
Evictions(S, at) ==
    {G \in SUBSET S : /\ Cardinality(S \ G) = (IF Cardinality(S) > MaxArchived THEN MaxArchived
                                                                      ELSE Cardinality(S))
                      /\ \A g \in G, q \in S \ G : at[g] <= at[q]}

\* An agent is at work in the session, and may call the tool: before its
\* executor is done with it, and after a timeout or an abort, which end the wait
\* for its prompt and not the prompt.
AtWork(s) == IF s \in Tops THEN session[s] = "active"
             ELSE \E r \in Runs : ChildOf[r] = s /\ exec[r].prompt

Spawns(r) == \E q \in Runs : ParentOf[q] = ChildOf[r]

\* Somebody waits for what the agent of the session says.
AwaitedIn(s) == IF s \in Tops THEN session[s] = "active"
                ELSE \E r \in Runs : ChildOf[r] = s /\ exec[r].at = "work"

\* Mutated form of Cascade: the children go on.
MutCascade(r) == {r}

\* killRun: a running run, and with each run its running children.
Spared(S) == {c \in Running \ S : \E p \in S : ParentOf[c] = ChildOf[p]}
Cascade(r) == {c \in Runs : \A S \in SUBSET Runs : r \in S /\ Spared(S) = {} => c \in S}

----------------------------------------------------------------------------
Init ==
    /\ known = {}
    /\ run = [r \in Runs |-> NoRun]
    /\ rows = [r \in Runs |-> {NoRun}]
    /\ endedAt = [r \in Runs |-> 0]
    /\ late = {}
    /\ timer = {}
    /\ ann = [r \in Runs |-> "idle"]
    /\ exec = [r \in Runs |-> NoExec]
    /\ held = [s \in Sessions |-> 0]
    /\ session = [s \in Sessions |-> IF s \in Tops THEN "active" ELSE "none"]
    /\ key = [r \in Runs |-> "none"]
    /\ told = [r \in Runs |-> [c \in Channels |-> 0]]
    /\ cause = [r \in Runs |-> {}]
    /\ faults = 0

----------------------------------------------------------------------------
(* The registry: kill, and what the end of a run sets off.                 *)

\* killRun of each run of S, but for the signal it gives the executor.
Kills(S) ==
    LET K == UNION {Cascade(r) : r \in S} IN
    /\ run' = [r \in Runs |->
          IF r \in K THEN [run[r] EXCEPT !.status = "killed", !.handled = TRUE, !.dropped = TRUE]
                     ELSE run[r]]
    /\ rows' = Persisted(K, run')
    /\ endedAt' = [r \in Runs |-> IF r \in K THEN Now ELSE endedAt[r]]
    /\ timer' = timer \ K
    /\ cause' = Blame(K, "killed")

\* abortController.abort() of each run that a kill of S ends.
Aborted(S) == [r \in Runs |-> IF \E q \in S : r \in Cascade(q)
                              THEN [exec[r] EXCEPT !.aborted = TRUE] ELSE exec[r]]

Kill(r) ==
    /\ r \in Running
    /\ Kills({r})
    /\ exec' = Aborted({r})
    /\ UNCHANGED <<known, late, ann, held, session, key, told, faults>>

\* killAllForParent: kill_all, the abort of an agent run, and what the archiving
\* of a session comes to after its row is updated.
KillAll(s) ==
    /\ s \in Tops
    /\ Children(s) \cap Running # {} \/ session[s] = "archiving"
    /\ Kills(Children(s) \cap Running)
    /\ exec' = Aborted(Children(s) \cap Running)
    /\ session' = [session EXCEPT ![s] = IF @ = "archiving" THEN "archived" ELSE @]
    /\ UNCHANGED <<known, late, ann, held, key, told, faults>>

Archive(s) ==
    /\ s \in Closing /\ session[s] = "active"
    /\ session' = [session EXCEPT ![s] = "archiving"]
    /\ UNCHANGED <<known, run, rows, endedAt, late, timer, ann, exec, held,
                   key, told, cause, faults>>

\* Mutated form of MayEnd: the status of the run is not looked at.
MutMayEnd(r) == r \in known

\* The guard of completeRun, failRun and timeoutRun.
MayEnd(r) == r \in Running

\* completeRun, failRun or timeoutRun, with triggerAnnounce and the first turn
\* of handleAnnounceCleanup, which does not find a run that was evicted at once.
Ends(r) ==
    /\ run' = [run EXCEPT ![r] = [NoRun EXCEPT !.status = "ended"]]
    /\ endedAt' = [endedAt EXCEPT ![r] = Now]
    /\ rows' = Persisted({r}, run')
    /\ \E G \in Evictions({q \in known : run[q].status \in Over} \cup {r}, endedAt') :
          /\ known' = known \ G
          /\ timer' = (timer \cup {q \in {r} : HasRunningDescendants(q)}) \ G
          /\ ann' = [ann EXCEPT ![r] = IF r \in G \/ HasRunningDescendants(r) THEN @
                                      ELSE "check"]

----------------------------------------------------------------------------
(* The tool call and spawnSubagent.                                        *)

\* The spawn action, up to the await of the session's flow mode.
Spawn(r) ==
    /\ exec[r].at = "none" /\ ReplacementOf[r] = None
    /\ AtWork(ParentOf[r])
    /\ Cardinality(Running) < MaxRunning
    /\ Goes(r, "flow")
    /\ UNCHANGED <<known, run, rows, endedAt, late, timer, ann, held, session,
                   key, told, cause, faults>>

\* The steer action, up to the await of the old executor.
Steer(r) ==
    LET old == ReplacementOf[r] IN
    /\ exec[r].at = "none" /\ old # None
    /\ old \in Running /\ AtWork(ParentOf[r])
    /\ Kills({old})
    /\ exec' = [Aborted({old}) EXCEPT ![r].at = "settling"]
    /\ UNCHANGED <<known, late, ann, held, session, key, told, faults>>

\* Mutated form of MaySettle: the steer does not wait for the old executor.
MutMaySettle(r) == exec[r].at = "settling"

\* The old executor is over; or three seconds are, while it goes on.
MaySettle(r) == exec[r].at = "settling" /\ exec[ReplacementOf[r]].at = "over"
TooSlow(r)   == exec[r].at = "settling" /\ exec[ReplacementOf[r]].at # "over"

\* The parent was killed while the tool call was at its await.
AfterKill(r) == \E p \in Runs : ParentOf[r] = ChildOf[p] /\ run[p].status = "killed"

\* registerRun, and spawnSubagent up to its first await: a parent that has been
\* stopped meanwhile may have aborted the call, or have too many children.
Register(r) ==
    /\ \E slow \in SUBSET {"slowAbort"} :
          /\ \/ /\ exec[r].at = "flow" \/ MaySettle(r)
                /\ slow = {} /\ UNCHANGED faults
             \/ slow # {} /\ TooSlow(r) /\ Fault("slowAbort")
          /\ cause' = [cause EXCEPT ![r] =
                @ \cup slow \cup (IF AfterKill(r) THEN {"afterKill"} ELSE {})]
    /\ known' = known \cup {r}
    /\ run' = [run EXCEPT ![r] = [NoRun EXCEPT !.status = "running"]]
    /\ rows' = Persisted({r}, run')
    /\ \/ /\ held[ParentOf[r]] < MaxChildren
          /\ held' = Taken(ParentOf[r])
          /\ Goes(r, "identity")
       \/ /\ held[ParentOf[r]] >= MaxChildren \/ ~AwaitedIn(ParentOf[r])
          /\ Goes(r, "ended")
          /\ UNCHANGED held
    /\ UNCHANGED <<endedAt, late, timer, ann, session, key, told>>

\* Mutated form of Fails: the slot is given back twice, below zero too.
MutFails(r) ==
    /\ exec' = [exec EXCEPT ![r].at = "clean", ![r].ok = FALSE]
    /\ held' = [held EXCEPT ![ParentOf[r]] = @ - 2]

\* The catch block of spawnSubagent, up to its cleanup.
Fails(r) ==
    /\ exec' = [exec EXCEPT ![r].at = "clean", ![r].ok = FALSE]
    /\ held' = Released(ParentOf[r])

\* resolveBySessionId, which is outside the try block; a hook that refuses; or
\* the row of the session, new or made active again.
Identify(r) ==
    /\ exec[r].at = "identity"
    /\ \/ /\ Fault("db")
          /\ cause' = Blame({r}, "leak")
          /\ Goes(r, "ended")
          /\ UNCHANGED <<held, session>>
       \/ /\ Fails(r)
          /\ UNCHANGED <<session, cause, faults>>
       \/ /\ GoesTalking(r, "work", Spawns(r))
          /\ session' = [session EXCEPT ![ChildOf[r]] = "active"]
          /\ UNCHANGED <<held, cause, faults>>
    /\ UNCHANGED <<known, run, rows, endedAt, late, timer, ann, key, told>>

\* The race of the prompt, the timeout and the abort.  What follows a prompt
\* that won, the summary, is a prompt of its own and not interrupted.
Work(r) ==
    /\ exec[r].at = "work"
    /\ \/ /\ ~exec[r].aborted
          /\ exec' = [exec EXCEPT ![r].at = "clean", ![r].ok = TRUE]
          /\ UNCHANGED held
       \/ Fails(r)
    /\ UNCHANGED <<known, run, rows, endedAt, late, timer, ann, session, key,
                   told, cause, faults>>

\* cleanupSubagentSession.  After success its failure is one of the run.
CleanUp(r) ==
    /\ exec[r].at = "clean"
    /\ \/ /\ GoesTalking(r, "ended", exec[r].prompt /\ ~exec[r].ok)
          /\ session' = [session EXCEPT ![ChildOf[r]] = IF r \in Kept THEN @ ELSE "none"]
          /\ held' = IF exec[r].ok THEN Released(ParentOf[r]) ELSE held
          /\ UNCHANGED faults
       \/ /\ r \notin Kept /\ Fault("db")
          /\ IF exec[r].ok THEN Fails(r) ELSE (Goes(r, "ended") /\ UNCHANGED held)
          /\ UNCHANGED session
    /\ UNCHANGED <<known, run, rows, endedAt, late, timer, ann, key, told, cause>>

\* The continuation of spawnPromise.
Settle(r) ==
    /\ exec[r].at = "ended"
    /\ exec' = [exec EXCEPT ![r] = [Done EXCEPT !.prompt = exec[r].prompt]]
    /\ \/ MayEnd(r) /\ Ends(r)
       \/ ~MayEnd(r) /\ UNCHANGED <<known, run, rows, endedAt, timer, ann>>
    /\ UNCHANGED <<late, held, session, key, told, cause, faults>>

----------------------------------------------------------------------------
(* The announcement.                                                       *)

\* markCleanupHandled, markAnnounceSuppressed.
Handled(r, out) ==
    /\ run' = [run EXCEPT ![r].handled = TRUE, ![r].dropped = @ \/ out = "suppressed"]
    /\ timer' = timer \ {r}
    /\ rows' = Persisted({r}, run')

\* handleAnnounceCleanup up to its first await, from a timer.
AnnounceTimer(r) ==
    /\ r \in timer
    /\ \/ /\ \/ r \notin known
             \/ run[r].status = "running" \/ run[r].handled
          /\ timer' = timer \ {r}
          /\ UNCHANGED <<run, rows, ann>>
       \/ /\ r \in known /\ run[r].status \in Over /\ ~run[r].handled
          /\ \/ /\ run[r].dropped \/ r \in late
                /\ Handled(r, "suppressed")
                /\ UNCHANGED ann
             \/ /\ ~run[r].dropped /\ r \notin late /\ ~HasRunningDescendants(r)
                /\ timer' = timer \ {r}
                /\ ann' = [ann EXCEPT ![r] = "check"]
                /\ rows' = Persisted({r}, run)
                /\ UNCHANGED run
    /\ UNCHANGED <<known, endedAt, late, exec, held, session, key, told, cause, faults>>

\* Mutated form of Conclude: a failure is taken for an outcome.
MutConclude(r, out) == ann' = [ann EXCEPT ![r] = "idle"] /\ Handled(r, out)

\* Mutated form of Conclude: after a failure no timer is armed.
MutStrand(r, out) ==
    /\ ann' = [ann EXCEPT ![r] = "idle"]
    /\ IF out # "failed" THEN Handled(r, out)
       ELSE /\ run' = [run EXCEPT ![r].retries = @ + 1]
            /\ rows' = Persisted({r}, run')
            /\ UNCHANGED timer

\* What handleAnnounceCleanup does with the outcome of queueAnnounce.
Conclude(r, out) ==
    /\ ann' = [ann EXCEPT ![r] = "idle"]
    /\ LET n == run[r].retries + 1 IN
       \/ out # "failed" /\ Handled(r, out)
       \/ /\ out = "failed" /\ n >= MaxRetries
          /\ run' = [run EXCEPT ![r].handled = TRUE, ![r].dropped = TRUE, ![r].retries = n]
          /\ timer' = timer \ {r}
          /\ rows' = Persisted({r}, run')
       \/ /\ out = "failed" /\ n < MaxRetries
          /\ run' = [run EXCEPT ![r].retries = n]
          /\ timer' = timer \cup {r}
          /\ rows' = Persisted({r}, run')

AnnGoes(r, at) == ann' = [ann EXCEPT ![r] = at] /\ UNCHANGED <<run, timer, rows>>

\* canDeliverToSession, the announce mode, and the hook that picks a target.
CheckParent(r) ==
    /\ ann[r] = "check"
    /\ \/ /\ session[ParentOf[r]] # "active" \/ r \in Silent
          /\ Conclude(r, "suppressed")
          /\ UNCHANGED <<cause, faults>>
       \/ /\ Fault("db")                       \* the lookup fails: not deliverable
          /\ cause' = Blame({r}, "db")
          /\ Conclude(r, "suppressed")
       \/ /\ Fault("hook")
          /\ Conclude(r, "failed")
          /\ UNCHANGED cause
       \/ /\ session[ParentOf[r]] = "active" /\ r \notin Silent
          /\ AnnGoes(r, IF Nested(r) THEN "followup" ELSE "reserve")
          /\ UNCHANGED <<cause, faults>>
    /\ UNCHANGED <<known, endedAt, late, exec, held, session, key, told>>

\* Mutated form of KeyTaken: a key whose delivery is not known to be over is free.
MutKeyTaken(r) == key[r] = "sent"

\* reservePending finds the key: nobody of this delivery is its owner.
KeyTaken(r) == key[r] # "none"

\* routeDelivery up to the reservation: no target, a hook that refuses or
\* suppresses, a key that is taken.
Reserve(r) ==
    /\ ann[r] = "reserve"
    /\ \/ AnnGoes(r, "followup") /\ UNCHANGED <<key, faults>>
       \/ Fault("hook") /\ AnnGoes(r, "event") /\ UNCHANGED key
       \/ Fault("hook") /\ Conclude(r, "suppressed") /\ UNCHANGED key
       \/ KeyTaken(r) /\ Conclude(r, "duplicate") /\ UNCHANGED <<key, faults>>
       \/ /\ ~KeyTaken(r) /\ AnnGoes(r, "post")
          /\ key' = [key EXCEPT ![r] = "pending"]
          /\ UNCHANGED faults
    /\ UNCHANGED <<known, endedAt, late, exec, held, session, told, cause>>

Tell(r, channel) == told' = [told EXCEPT ![r][channel] = @ + 1]

\* chat.postMessage.  A reply that is lost counts as a failure, and a failure
\* leaves the key to the owner it has.
Post(r) ==
    /\ ann[r] = "post"
    /\ \/ /\ Tell(r, "direct") /\ AnnGoes(r, "mark")
          /\ UNCHANGED <<cause, faults>>
       \/ /\ Fault("post") /\ cause' = Blame({r}, "post")
          /\ AnnGoes(r, "event") /\ UNCHANGED told
       \/ /\ Fault("lostAck") /\ cause' = Blame({r}, "lostAck")
          /\ AnnGoes(r, "event") /\ Tell(r, "direct")
    /\ UNCHANGED <<known, endedAt, late, exec, held, session, key>>

\* markSent, whose failure is only logged.
Mark(r) ==
    /\ ann[r] = "mark"
    /\ \/ key' = [key EXCEPT ![r] = "sent"] /\ UNCHANGED faults
       \/ Fault("db") /\ UNCHANGED key
    /\ Conclude(r, "sent")
    /\ UNCHANGED <<known, endedAt, late, exec, held, session, told, cause>>

\* enqueueInternalParentFollowup: the queue's row needs that of the session.
Followup(r) ==
    /\ ann[r] = "followup"
    /\ \/ /\ session[ParentOf[r]] # "none"
          /\ Tell(r, "followup") /\ Conclude(r, "queued")
          /\ UNCHANGED <<cause, faults>>
       \/ /\ session[ParentOf[r]] = "none"
          /\ AnnGoes(r, "event")
          /\ UNCHANGED <<told, cause, faults>>
       \/ /\ Fault("db") /\ cause' = Blame({r}, "db")
          /\ AnnGoes(r, "event") /\ UNCHANGED told
    /\ UNCHANGED <<known, endedAt, late, exec, held, session, key>>

\* enqueueFallbackEvent, and the wake of the heartbeat.
Event(r) ==
    /\ ann[r] = "event"
    /\ \/ /\ told[r]["event"] = 0
          /\ Tell(r, "event") /\ Conclude(r, "queued")
          /\ UNCHANGED <<cause, faults>>
       \/ /\ told[r]["event"] > 0
          /\ Conclude(r, "duplicate")
          /\ UNCHANGED <<told, cause, faults>>
       \/ /\ Fault("db") /\ cause' = Blame({r}, "db")
          /\ Conclude(r, "failed") /\ UNCHANGED told
    /\ UNCHANGED <<known, endedAt, late, exec, held, session, key>>

----------------------------------------------------------------------------
(* The table, time and the process.                                        *)

\* ANNOUNCE_EXPIRY_MS pass: the announcement waits for running children, or
\* for an answer from Slack.
Expire(r) ==
    /\ run[r].status = "ended" /\ ~run[r].handled /\ r \notin late
    /\ \/ r \in timer /\ HasRunningDescendants(r)
       \/ ann[r] = "post"
    /\ late' = late \cup {r}
    /\ UNCHANGED <<known, run, rows, endedAt, timer, ann, exec, held, session,
                   key, told, cause, faults>>

\* The process stops, and starts again, soon or late: initRegistry marks the
\* runs that were running as failed, and takes up the open announcements.
CrashAndRestart ==
    /\ Fault("crash")
    /\ Cardinality({r \in Runs : exec[r].at # "none"}) <= MaxAtCrash
    /\ \E row \in [Runs -> UNION {rows[r] : r \in Runs}] :
       LET there == {r \in Runs : row[r].status # "absent"}
           cut   == {r \in there : row[r].status = "running"}
       IN /\ \A r \in Runs : row[r] \in rows[r]
          /\ run' = [r \in Runs |-> IF r \in cut THEN [row[r] EXCEPT !.status = "ended"] ELSE row[r]]
          /\ known' = there
          /\ timer' = {r \in there : ~run'[r].handled}
          /\ endedAt' = [r \in Runs |-> IF r \notin there THEN 0
                                        ELSE IF r \in cut THEN Now ELSE endedAt[r]]
          /\ late' \in {late \cap (there \ cut), there \ cut}
          /\ cause' = [r \in Runs |-> (cause[r] \ {"leak"}) \cup
                                      (IF row[r] # run[r] \/ ann[r] # "idle" THEN {"torn"} ELSE {})]
    /\ rows' = [r \in Runs |-> {run'[r]}]
    /\ ann' = [r \in Runs |-> "idle"]
    /\ exec' = [r \in Runs |-> IF exec[r].at = "none" THEN NoExec ELSE Done]
    /\ held' = [x \in Sessions |-> 0]
    /\ UNCHANGED <<session, key, told>>

----------------------------------------------------------------------------
Executes(r)  == Spawn(r) \/ Steer(r) \/ Register(r) \/ Identify(r) \/ Work(r)
                \/ CleanUp(r) \/ Settle(r)
Announces(r) == CheckParent(r) \/ Reserve(r) \/ Post(r) \/ Mark(r) \/ Followup(r) \/ Event(r)

Next ==
    \/ \E r \in Runs : Executes(r) \/ AnnounceTimer(r) \/ Announces(r) \/ Kill(r) \/ Expire(r)
    \/ \E s \in Tops : KillAll(s) \/ Archive(s)
    \/ CrashAndRestart

Safe == Init /\ [][Next]_vars

\* Timers fire and awaited calls return.  An executor may work for ever: the
\* default timeout is none.
Spec == /\ Safe
        /\ \A r \in Runs : /\ WF_vars(AnnounceTimer(r))
                           /\ WF_vars(Announces(r))
                           /\ WF_vars(Expire(r))

----------------------------------------------------------------------------
(* Properties.                                                             *)

\* Whatever the executor does and whoever stops it, childrenCount is the number
\* of executors that hold a slot of the session, and the slots that were lost
\* when the lookup before the try block threw.
SlotsBalanced ==
    \A s \in Sessions :
        held[s] = Cardinality({r \in Runs : /\ ParentOf[r] = s
                                            /\ \/ exec[r].at \in {"identity", "work"}
                                               \/ exec[r].at = "clean" /\ exec[r].ok
                                               \/ "leak" \in cause[r]})

\* An agent that is at work has its session: neither an older executor of the
\* same session nor the end of a run deletes it, unless a steer gave up waiting
\* for the executor it replaced.
SessionKept ==
    \A r \in Runs : exec[r].at = "work" =>
        \/ session[ChildOf[r]] = "active"
        \/ \E q \in Runs : ChildOf[q] = ChildOf[r] /\ "slowAbort" \in cause[q]

\* A killed run has no running children but those whose spawn was at its await
\* when the run was killed.
NoneOutlives ==
    \A r \in Running, p \in Runs :
        ParentOf[r] = ChildOf[p] /\ run[p].status = "killed" => "afterKill" \in cause[r]

\* What a killed run still returns is told to nobody, unless a restart found an
\* older row of it.
KilledStaysQuiet ==
    \A r \in Runs : "killed" \in cause[r] /\ "torn" \notin cause[r] => ToldIn(r) = 0

\* A completion is posted once and put into the event table once, restarts and
\* retries included; and it goes one way only, unless the reply to a post was
\* lost or a restart cut the announcement off.
ToldOnce ==
    \A r \in Runs :
        /\ told[r]["direct"] <= 1 /\ told[r]["event"] <= 1
        /\ ToldIn(r) <= 1 \/ {"lostAck", "torn"} \cap cause[r] # {}

\* An announcement that is over and was not suppressed was made.  The exception
\* is a post that failed and whose fallback failed too: the next attempt takes
\* the key for one of another delivery.
HandledMeansTold ==
    \A r \in Runs :
        /\ run[r].status = "ended" /\ run[r].handled /\ ~run[r].dropped
        /\ "torn" \notin cause[r]
        => ToldIn(r) > 0 \/ {"post", "db"} \subseteq cause[r]

\* The announcement of a run that has ended comes to an end, or the run leaves
\* the map, however long its children run.
AnnounceSettles ==
    \A r \in Runs : run[r].status = "ended" ~> run[r].handled \/ r \notin known

=============================================================================
