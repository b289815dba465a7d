---------------------------- MODULE SessionQueue ----------------------------
(***************************************************************************)
(* The durable queue of agent work, ava_queue, with the calls that enqueue *)
(* and cancel (queue.ts) and the processor that executes its items         *)
(* (queue-processor.ts).                                                   *)
(*                                                                         *)
(* Two scanners look for sessions with pending items: the drain that an    *)
(* enqueue asks for, and the poll of a timer.  Each starts a worker for    *)
(* every session it may serve and waits for all of them.  A step is what   *)
(* runs between two awaits, and a statement is atomic.                     *)
(*                                                                         *)
(* Nobody handles the rejection of a scan, and Node ends the process: a    *)
(* scan whose statement fails is a crash.                                  *)
(***************************************************************************)
EXTENDS Naturals, FiniteSets

CONSTANTS Sessions,
          Items, SessionOf,   \* the messages, and the session of each
          ModeOf,             \* followup, isolated, steer, collect, interrupt
          BatchOf,            \* the millisecond of a collect call, or None
          None,
          Chatting,      \* the sessions with one run of chat.send, as a bound
          Cancelling,    \* the sessions with one call of queue.cancel, as a bound
          MaxSessions,   \* MAX_CONCURRENT_SESSIONS
          Faults, MaxFaults   \* the kinds of fault, and how many in all

Modes == {"followup", "isolated", "steer", "collect", "interrupt"}

ASSUME QueueAssumption ==
    /\ IsFiniteSet(Items)
    /\ SessionOf \in [Items -> Sessions]
    /\ ModeOf \in [Items -> Modes]
    /\ \A i, j \in Items : /\ BatchOf[i] = None <=> ModeOf[i] # "collect"
                           /\ BatchOf[i] # None /\ BatchOf[i] = BatchOf[j]
                                => SessionOf[i] = SessionOf[j]
    /\ None \notin Items
    /\ Chatting \subseteq Sessions /\ Cancelling \subseteq Sessions
    /\ MaxSessions \in Nat \ {0}
    /\ MaxFaults \in Nat

VARIABLES
    row,        \* ava_queue: the status of an item, and its place by createdAt
    call,       \* the call of enqueue for an item
    processing, \* QueueService.processing
    collectTimers,  \* whose timer QueueService.collectTimers holds for a session
    ticking,    \* the items whose debounce timer is running, held or not
    active,     \* QueueProcessor.activeSessions
    scan,       \* the drain and the poll
    worker,     \* processSession, for a scanner and a session
    boot,       \* the items that recoverStuck will find, before it has run
    chat,       \* the chat run of a session: "none", "active", "over"
    cancels,    \* the sessions whose cancel call is yet to come
    ran,        \* history: how many agent runs an item was part of
    cause,      \* history: what befell an item
    faults      \* faults so far

vars == <<row, call, processing, collectTimers, ticking, active, scan, worker, boot, chat,
          cancels, ran, cause, faults>>

Scanners == {"drain", "poll"}
Workers  == Scanners \X Sessions

ItemRow   == [status : {"absent", "pending", "processing", "completed", "error",
                        "cancelled"},
              nr     : 0 .. Cardinality(Items)]
ScanRow   == [at : {"idle", "list", "start", "wait"}, found : SUBSET Sessions]
WorkerRow == [at  : {"idle", "check", "select", "mark", "batch", "markBatch",
                     "prepare", "run", "complete", "completeBatch", "fail",
                     "failBatch"},
              item : Items \cup {None},
              got  : SUBSET Items]          \* the items of its message

TypeOK ==
    /\ row \in [Items -> ItemRow]
    /\ call \in [Items -> {"none", "cancel", "check", "insert", "quietInsert",
                           "timer", "notify", "done"}]
    /\ processing \in SUBSET Items
    /\ collectTimers \in [Sessions -> Items \cup {None}]
    /\ ticking \in SUBSET Items
    /\ active \in SUBSET Sessions
    /\ scan \in [Scanners -> ScanRow]
    /\ worker \in [Workers -> WorkerRow]
    /\ boot \in [due : BOOLEAN, stuck : SUBSET Items]
    /\ chat \in [Sessions -> {"none", "active", "over"}]
    /\ cancels \in SUBSET Sessions
    /\ ran \in [Items -> Nat]
    /\ cause \in [Items -> SUBSET {"crash", "db", "late", "unarmed"}]
    /\ faults \in 0 .. MaxFaults

----------------------------------------------------------------------------
\* Operators

IdleScan   == [at |-> "idle", found |-> {}]
IdleWorker == [at |-> "idle", item |-> None, got |-> {}]

Status(i)     == row[i].status
Pending(s)    == {i \in Items : SessionOf[i] = s /\ Status(i) = "pending"}
Batch(i)      == IF BatchOf[i] = None THEN {} ELSE {j \in Items : BatchOf[j] = BatchOf[i]}
Oldest(S)     == {i \in S : \A j \in S : row[i].nr <= row[j].nr}
Created       == {i \in Items : row[i].nr > 0}

With(S, st)   == [i \in Items |-> IF i \in S THEN [row[i] EXCEPT !.status = st] ELSE row[i]]

Blame(S, why) == [i \in Items |-> IF i \in S THEN cause[i] \cup {why} ELSE cause[i]]
Fault(kind)   == kind \in Faults /\ faults < MaxFaults /\ faults' = faults + 1

\* isSessionProcessing: the map first, then the table.
IsSessionProcessing(s) ==
    \E i \in Items : SessionOf[i] = s /\ (i \in processing \/ Status(i) = "processing")

\* drain, which does nothing while a drain is under way.
Drained(sc) == IF sc["drain"].at = "idle" THEN [sc EXCEPT !["drain"].at = "list"] ELSE sc

\* Mutated form of Free: the sessions being served are not left out.
MutFree(s) == chat[s] # "active"

\* The filters of processNextItems.  The run of a worker itself is a runtime
\* run, too, and its session is active.
Free(s) == s \notin active /\ chat[s] # "active"

GoesTo(w, at) == worker' = [worker EXCEPT ![w].at = at]

\* The end of processSession, by whatever way.
Finish(w) ==
    /\ worker' = [worker EXCEPT ![w] = IdleWorker]
    /\ active' = active \ {w[2]}

Serves(w, i) == worker[w].item # None
                /\ i \in worker[w].got \cup Batch(worker[w].item)

----------------------------------------------------------------------------
\* The process has started, with an empty table: all but the calls from outside.
Started ==
    /\ row = [i \in Items |-> [status |-> "absent", nr |-> 0]]
    /\ processing = {}
    /\ collectTimers = [s \in Sessions |-> None]
    /\ ticking = {}
    /\ active = {}
    /\ scan = [c \in Scanners |-> IF c = "drain" THEN [IdleScan EXCEPT !.at = "list"]
                                                 ELSE IdleScan]
    /\ worker = [w \in Workers |-> IdleWorker]
    /\ boot = [due |-> FALSE, stuck |-> {}]     \* the first start finds nothing
    /\ cancels = Cancelling
    /\ ran = [i \in Items |-> 0]
    /\ cause = [i \in Items |-> {}]
    /\ faults = 0

Init == /\ Started
        /\ call = [i \in Items |-> "none"]
        /\ chat = [s \in Sessions |-> "none"]

----------------------------------------------------------------------------
(* enqueue, cancelPending.                                                 *)

\* The first step of a call.  Collect calls of one millisecond have one batch.  A
\* collect call stops the timer its session's entry holds, and keeps the entry.
Call(i) ==
    /\ call[i] = "none"
    /\ LET now == IF BatchOf[i] = None THEN {i} ELSE Batch(i)
       IN call' = [j \in Items |->
             IF j \notin now THEN call[j]
             ELSE IF ModeOf[j] = "interrupt" THEN "cancel"
             ELSE IF ModeOf[j] = "steer" THEN "check" ELSE "insert"]
    /\ ticking' = IF ModeOf[i] = "collect" THEN ticking \ {collectTimers[SessionOf[i]]}
                                           ELSE ticking
    /\ UNCHANGED <<row, processing, collectTimers, active, scan, worker, boot, chat, cancels,
                   ran, cause, faults>>

\* An interrupt cancels what is pending.
InterruptCancels(i) ==
    /\ call[i] = "cancel"
    /\ row' = With(Pending(SessionOf[i]), "cancelled")
    /\ call' = [call EXCEPT ![i] = "insert"]
    /\ UNCHANGED <<processing, collectTimers, ticking, active, scan, worker, boot, chat,
                   cancels, ran, cause, faults>>

\* A steer that finds its session at rest tells nobody.
SteerChecks(i) ==
    /\ call[i] = "check"
    /\ call' = [call EXCEPT ![i] = IF IsSessionProcessing(SessionOf[i])
                                   THEN "insert" ELSE "quietInsert"]
    /\ UNCHANGED <<row, processing, collectTimers, ticking, active, scan, worker, boot, chat,
                   cancels, ran, cause, faults>>

\* createItem.
Insert(i) ==
    /\ call[i] \in {"insert", "quietInsert"}
    /\ row' = [row EXCEPT ![i] = [status |-> "pending", nr |-> Cardinality(Created) + 1]]
    /\ call' = [call EXCEPT ![i] = IF ModeOf[i] = "collect" THEN "timer"
                                   ELSE IF @ = "insert" THEN "notify" ELSE "done"]
    /\ UNCHANGED <<processing, collectTimers, ticking, active, scan, worker, boot,
                   chat, cancels, ran, cause, faults>>

\* An entry whose timer is stopped keeps its session out of dequeue.
Dead(s) == collectTimers[s] # None /\ collectTimers[s] \notin ticking

\* createItem throws, and the call with it.  Nothing undoes what the call did
\* before: a collect call leaves its session with a stopped timer, for ever unless
\* a later collect call sets one.
InsertFails(i) ==
    /\ call[i] \in {"insert", "quietInsert"}
    /\ Fault("db")
    /\ call' = [call EXCEPT ![i] = "done"]
    /\ cause' = IF ModeOf[i] = "collect" /\ Dead(SessionOf[i])
                THEN Blame({i}, "unarmed") ELSE cause
    /\ UNCHANGED <<row, processing, collectTimers, ticking, active, scan, worker,
                   boot, chat, cancels, ran>>

\* What follows: the timer of a collect call, or onEnqueue.
Inserted(i) ==
    /\ call[i] \in {"timer", "notify"}
    /\ call' = [call EXCEPT ![i] = "done"]
    /\ IF call[i] = "timer"
       THEN /\ collectTimers' = [collectTimers EXCEPT ![SessionOf[i]] = i]
            /\ ticking' = ticking \cup {i}
            /\ UNCHANGED scan
       ELSE scan' = Drained(scan) /\ UNCHANGED <<collectTimers, ticking>>
    /\ UNCHANGED <<row, processing, active, worker, boot, chat, cancels, ran,
                   cause, faults>>

\* Mutated form of DebounceEnds: the entry stays when the timer has fired.
MutDebounceEnds(i) ==
    /\ i \in ticking
    /\ ticking' = ticking \ {i}
    /\ UNCHANGED <<row, call, processing, collectTimers, active, scan, worker, boot,
                   chat, cancels, ran, cause, faults>>

\* A timer takes away its session's entry, whosever that is: of two calls that
\* overlap, neither has stopped the other's timer.
DebounceEnds(i) ==
    /\ i \in ticking
    /\ ticking' = ticking \ {i}
    /\ collectTimers' = [collectTimers EXCEPT ![SessionOf[i]] = None]
    /\ UNCHANGED <<row, call, processing, active, scan, worker, boot, chat,
                   cancels, ran, cause, faults>>

\* queue.cancel, and the archiving of a session.
CancelPending(s) ==
    /\ s \in cancels
    /\ cancels' = cancels \ {s}
    /\ row' = With(Pending(s), "cancelled")
    /\ UNCHANGED <<call, processing, collectTimers, ticking, active, scan, worker, boot, chat,
                   ran, cause, faults>>

\* A run of chat.send or agent, which asks the queue nothing.
ChatStarts(s) ==
    /\ s \in Chatting /\ chat[s] = "none"
    /\ chat' = [chat EXCEPT ![s] = "active"]
    /\ UNCHANGED <<row, call, processing, collectTimers, ticking, active, scan, worker, boot,
                   cancels, ran, cause, faults>>

ChatEnds(s) ==
    /\ chat[s] = "active"
    /\ chat' = [chat EXCEPT ![s] = "over"]
    /\ UNCHANGED <<row, call, processing, collectTimers, ticking, active, scan, worker, boot,
                   cancels, ran, cause, faults>>

----------------------------------------------------------------------------
(* The scanners.                                                           *)

\* The timer of the safety poll; it is armed again when its scan is over.
PollFires ==
    /\ scan["poll"].at = "idle"
    /\ scan' = [scan EXCEPT !["poll"].at = "list"]
    /\ UNCHANGED <<row, call, processing, collectTimers, ticking, active, worker, boot, chat,
                   cancels, ran, cause, faults>>

\* processNextItems: up to MaxSessions sessions with pending items, in no order.
List(c) ==
    /\ scan[c].at = "list"
    /\ LET waiting == {s \in Sessions : Pending(s) # {}}
       IN \E found \in SUBSET waiting :
            /\ IF Cardinality(waiting) <= MaxSessions THEN found = waiting
                                               ELSE Cardinality(found) = MaxSessions
            /\ scan' = [scan EXCEPT ![c] = [at |-> "start", found |-> found]]
    /\ UNCHANGED <<row, call, processing, collectTimers, ticking, active, worker, boot, chat,
                   cancels, ran, cause, faults>>

\* The filters, and the first step of processSession for what is left.
Start(c) ==
    /\ scan[c].at = "start"
    /\ LET served == {s \in scan[c].found : Free(s)}
       IN /\ active' = active \cup served
          /\ worker' = [w \in Workers |->
                IF w[1] = c /\ w[2] \in served THEN [IdleWorker EXCEPT !.at = "check"]
                                               ELSE worker[w]]
    /\ scan' = [scan EXCEPT ![c] = [at |-> "wait", found |-> {}]]
    /\ UNCHANGED <<row, call, processing, collectTimers, ticking, boot, chat, cancels, ran,
                   cause, faults>>

\* Promise.allSettled: a scan lasts as long as its longest agent run.
ScanEnds(c) ==
    /\ scan[c].at = "wait"
    /\ \A s \in Sessions : worker[<<c, s>>].at = "idle"
    /\ scan' = [scan EXCEPT ![c].at = "idle"]
    /\ UNCHANGED <<row, call, processing, collectTimers, ticking, active, worker, boot, chat,
                   cancels, ran, cause, faults>>

----------------------------------------------------------------------------
(* dequeue, in the worker w of session w[2].                               *)

\* isSessionProcessing and the debounce timer.
Check(w) ==
    /\ worker[w].at = "check"
    /\ IF IsSessionProcessing(w[2]) \/ collectTimers[w[2]] # None
       THEN Finish(w)
       ELSE GoesTo(w, "select") /\ UNCHANGED active
    /\ UNCHANGED <<row, call, processing, collectTimers, ticking, scan, boot, chat, cancels,
                   ran, cause, faults>>

Select(w) ==
    /\ worker[w].at = "select"
    /\ IF Pending(w[2]) = {}
       THEN Finish(w)
       ELSE /\ \E i \in Oldest(Pending(w[2])) :
               worker' = [worker EXCEPT
                  ![w] = [at   |-> IF BatchOf[i] = None THEN "mark" ELSE "batch",
                          item |-> i, got |-> {i}]]
            /\ UNCHANGED active
    /\ UNCHANGED <<row, call, processing, collectTimers, ticking, scan, boot, chat, cancels,
                   ran, cause, faults>>

\* The UPDATE by id, whatever the status has become.
Mark(w) ==
    /\ worker[w].at = "mark"
    /\ row' = With({worker[w].item}, "processing")
    /\ processing' = processing \cup {worker[w].item}
    /\ GoesTo(w, "prepare")
    /\ UNCHANGED <<call, collectTimers, ticking, active, scan, boot, chat, cancels, ran,
                   cause, faults>>

\* dequeueBatch: the SELECT and the UPDATE, which takes what came in between.
SelectBatch(w) ==
    /\ worker[w].at = "batch"
    /\ LET S == {i \in Batch(worker[w].item) : Status(i) = "pending"}
       IN IF S = {}
          THEN Finish(w)
          ELSE /\ \E i \in Oldest(S) :
                  worker' = [worker EXCEPT
                     ![w] = [at |-> "markBatch", item |-> i, got |-> S]]
               /\ UNCHANGED active
    /\ UNCHANGED <<row, call, processing, collectTimers, ticking, scan, boot, chat, cancels,
                   ran, cause, faults>>

MarkBatch(w) ==
    /\ worker[w].at = "markBatch"
    /\ LET S == {i \in Batch(worker[w].item) : Status(i) = "pending"}
       IN /\ row' = With(S, "processing")
          /\ cause' = Blame(S \ worker[w].got, "late")
    /\ processing' = processing \cup {worker[w].item}
    /\ GoesTo(w, "prepare")
    /\ UNCHANGED <<call, collectTimers, ticking, active, scan, boot, chat, cancels, ran, faults>>

----------------------------------------------------------------------------
(* executeItem, complete and fail.                                         *)

\* The statements before the try block.  When one fails the worker is finished,
\* and the item keeps its status and its place in the map.
Prepare(w) ==
    /\ worker[w].at = "prepare"
    /\ \/ /\ GoesTo(w, "run")
          /\ ran' = [i \in Items |-> IF i \in worker[w].got THEN ran[i] + 1 ELSE ran[i]]
          /\ UNCHANGED <<active, cause, faults>>
       \/ /\ Fault("db")
          /\ cause' = Blame(worker[w].got \cup Batch(worker[w].item), "db")
          /\ Finish(w)
          /\ UNCHANGED ran
    /\ UNCHANGED <<row, call, processing, collectTimers, ticking, scan, boot, chat, cancels>>

AgentEnds(w) ==
    /\ worker[w].at = "run"
    /\ GoesTo(w, "complete") \/ GoesTo(w, "fail")
    /\ UNCHANGED <<row, call, processing, collectTimers, ticking, active, scan, boot, chat,
                   cancels, ran, cause, faults>>

\* The first statement of complete or fail, which names the item by its id.
Settle(w, at, st, next) ==
    /\ worker[w].at = at
    /\ row' = With({worker[w].item}, st)
    /\ processing' = processing \ {worker[w].item}
    /\ GoesTo(w, next)
    /\ UNCHANGED <<call, collectTimers, ticking, active, scan, boot, chat, cancels, ran, cause,
                   faults>>

\* Mutated forms of Rest: the whole batch, whatever the status; none of it.
MutRest(i)   == Batch(i)
MutNoRest(i) == {}

\* The second one: what else of the batch is being processed.
Rest(i) == {j \in Batch(i) : Status(j) = "processing"}

SettleBatch(w, at, st) ==
    /\ worker[w].at = at
    /\ row' = With(Rest(worker[w].item), st)
    /\ Finish(w)
    /\ UNCHANGED <<call, processing, collectTimers, ticking, scan, boot, chat, cancels, ran,
                   cause, faults>>

Complete(w)      == Settle(w, "complete", "completed", "completeBatch")
CompleteBatch(w) == SettleBatch(w, "completeBatch", "completed")
Fail(w)          == Settle(w, "fail", "error", "failBatch")
FailBatch(w)     == SettleBatch(w, "failBatch", "error")

\* A statement of complete fails: the item is failed.  One of fail: no more.
SettleFails(w) ==
    /\ Fault("db")
    /\ \/ worker[w].at \in {"complete", "completeBatch"} /\ GoesTo(w, "fail")
          /\ UNCHANGED <<active, cause>>
       \/ worker[w].at \in {"fail", "failBatch"} /\ Finish(w)
          /\ cause' = Blame(worker[w].got \cup Batch(worker[w].item), "db")
    /\ UNCHANGED <<row, call, processing, collectTimers, ticking, scan, boot, chat, cancels, ran>>

----------------------------------------------------------------------------
(* A process that dies and is started again.                               *)

\* What has been processing for more than five minutes by then is any of it;
\* start asks for the recovery and for a drain, and waits for neither.
CrashAndRestart ==
    /\ Fault("crash")
    /\ \E stuck \in SUBSET {i \in Items : Status(i) = "processing"} :
         boot' = [due |-> TRUE, stuck |-> stuck]
    /\ cause' = Blame({i \in Items : Status(i) = "processing"
                                     \/ \E w \in Workers : Serves(w, i)}, "crash")
    /\ call' = [i \in Items |-> IF call[i] = "none" THEN "none" ELSE "done"]
    /\ processing' = {}
    /\ collectTimers' = [s \in Sessions |-> None]
    /\ ticking' = {}
    /\ active' = {}
    /\ scan' = [c \in Scanners |-> IF c = "drain" THEN [IdleScan EXCEPT !.at = "list"]
                                                  ELSE IdleScan]
    /\ worker' = [w \in Workers |-> IdleWorker]
    /\ chat' = [s \in Sessions |-> IF chat[s] = "active" THEN "over" ELSE chat[s]]
    /\ UNCHANGED <<row, cancels, ran>>

RecoverStuck ==
    /\ boot.due
    /\ boot' = [due |-> FALSE, stuck |-> {}]
    /\ row' = With({i \in boot.stuck : Status(i) = "processing"}, "pending")
    /\ UNCHANGED <<call, processing, collectTimers, ticking, active, scan, worker, chat,
                   cancels, ran, cause, faults>>

----------------------------------------------------------------------------
CallStep(i) ==
    Call(i) \/ InterruptCancels(i) \/ SteerChecks(i) \/ Insert(i) \/ Inserted(i)
    \/ InsertFails(i)

WorkerStep(w) ==
    \/ Check(w) \/ Select(w) \/ Mark(w) \/ SelectBatch(w) \/ MarkBatch(w)
    \/ Prepare(w) \/ Complete(w) \/ CompleteBatch(w) \/ Fail(w) \/ FailBatch(w)
    \/ SettleFails(w)

Next ==
    \/ \E i \in Items : CallStep(i) \/ DebounceEnds(i)
    \/ \E s \in Sessions : CancelPending(s) \/ ChatStarts(s) \/ ChatEnds(s)
    \/ PollFires
    \/ \E c \in Scanners : List(c) \/ Start(c) \/ ScanEnds(c)
    \/ \E w \in Workers : WorkerStep(w) \/ AgentEnds(w)
    \/ CrashAndRestart \/ RecoverStuck

\* What the runtime sees to: every call and timer, and every scan with the workers
\* it waits for.  That agents end is assumed only where it is said so: an agent run
\* has a timeout only if one is configured.
Called      == \E i \in Items : call[i] # "none" /\ CallStep(i)
Debounced   == \E i \in Items : DebounceEnds(i)
Scanned(c)  == List(c) \/ Start(c) \/ ScanEnds(c) \/ \E s \in Sessions : WorkerStep(<<c, s>>)

Fairness ==
    /\ WF_vars(Called)
    /\ WF_vars(Debounced)
    /\ WF_vars(PollFires)
    /\ \A c \in Scanners : WF_vars(Scanned(c))
    /\ WF_vars(RecoverStuck)

AgentsEnd ==
    /\ WF_vars(\E w \in Workers : AgentEnds(w))
    /\ WF_vars(\E s \in Sessions : ChatEnds(s))

Spec == Init /\ [][Next]_vars

----------------------------------------------------------------------------
(* Properties.                                                             *)

\* The agent is given a message once, unless the process died meanwhile and the
\* item was recovered: whatever the drain, the poll, cancellations and batches
\* do to each other.
RanOnce ==
    \A i \in Items : ran[i] > 1 => "crash" \in cause[i]

\* The queue runs one agent in a session at a time.
OneRunPerSession ==
    \A v, w \in Workers :
       v # w /\ v[2] = w[2] => worker[v].at # "run" \/ worker[w].at # "run"

\* What is being processed, in the table or in the map, belongs to a worker or
\* to its batch: no way through dequeue, executeItem, complete and fail leaves
\* an item behind that would block its session, unless a statement failed or the
\* process died.
NothingLeftBehind ==
    \A i \in Items :
       Status(i) = "processing" \/ i \in processing =>
          \/ \E w \in Workers : Serves(w, i)
          \/ cause[i] # {}

\* What is recorded as completed was part of a message an agent was given, also
\* in a batch: only an item that was inserted between the SELECT and the UPDATE
\* of its batch is swallowed.
NothingSwallowed ==
    \A i \in Items : Status(i) = "completed" => ran[i] > 0 \/ "late" \in cause[i]

\* A session that a fault struck.
Struck(s) == \E j \in Items : SessionOf[j] = s /\ cause[j] # {}

\* When the calls are over, no session keeps an item waiting for ever, also when
\* nobody told the processor, and whatever other sessions do: each is taken, or
\* cancelled, unless its session was struck by a fault, or so many struck sessions
\* have items waiting that the scans may list no other.
QueueDrains ==
    <>[](\A s \in Sessions :
           \/ Pending(s) = {}
           \/ Struck(s)
           \/ Cardinality({r \in Sessions : Struck(r) /\ Pending(r) # {}}) >= MaxSessions)
=============================================================================
