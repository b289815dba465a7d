----------------------------- MODULE SlackQueue -----------------------------
(***************************************************************************)
(* The Slack monitor's in-memory queue (slack/monitor/runtime.ts): one     *)
(* agent run of a session at a time, a limit on all runs, what becomes of  *)
(* the messages that come meanwhile in each queue mode, and the commands   *)
(* /stop, /queue clear, /queue mode and /new.                              *)
(*                                                                         *)
(* A step is what runs between two awaits.  A message is what the monitor  *)
(* dispatches after deduplication and debouncing.  An entry of a queue is  *)
(* the sequence of the messages whose texts it joins; only collect joins   *)
(* more than one.  The agent is outside: its run ends at some time, and    *)
(* all that is seen here of an abort is its reason.                        *)
(***************************************************************************)
EXTENDS Naturals, Sequences, FiniteSets, SequencesExt

CONSTANTS Messages, Sessions,
          SessionOf,     \* the session of a message
          FirstMode,     \* the queue mode that is stored for a session
          Settable,      \* the modes that /queue mode is called with
          None,
          MaxRuns,       \* MAX_CONCURRENT_RUNS
          MaxPending,    \* MAX_PENDING_PER_SESSION
          MaxSpent       \* how many commands, failed statements and lapses of
                         \* the window of pending messages there are in all

Mode     == {"collect", "followup", "steer", "steer-backlog", "interrupt"}
Replaces == {"steer", "interrupt"}            \* the modes that replace the queue
Steers   == Replaces \cup {"steer-backlog"}   \* and those that abort the run

ASSUME SlackAssumption ==
    /\ SessionOf \in [Messages -> Sessions]
    /\ FirstMode \in [Sessions -> Mode]
    /\ Settable \subseteq Mode
    /\ None \notin Mode
    /\ {MaxRuns, MaxPending} \subseteq Nat \ {0} /\ MaxSpent \in Nat

VARIABLES
    at,       \* where the handler of a message is
    look,     \* what a lookup of the mode found: handlers of messages
    modes,    \* sessionQueueModes
    stored,   \* metadata.queueMode of the session's row
    storing,  \* setSessionQueueMode before its UPDATE
    pending,  \* pendingQueues
    active,   \* activeRuns: what the session's run was given, empty for no run
    signal,   \* activeAbortControllers: the reason of the first abort
    count,    \* globalRunCount
    drains,   \* runs that ended and are looking up the mode, with their queue
    closed,   \* the sessions that /new has cut off
    old,      \* messages older than PENDING_QUEUE_WINDOW_MS
    ran,      \* history: how often a message was given to a run
    order,    \* history: the messages in the order in which they were submitted
    cause,    \* history: what befell a message in its queue
    mishap,   \* history: what befell a session
    stopped,  \* history: what was waiting when a stop was acknowledged
    spent     \* what was used of MaxSpent

queueVars   == <<pending, active, signal, count, ran>>
modeVars    == <<look, modes, stored, storing>>
historyVars == <<order, cause, mishap, stopped>>
vars == <<at, modeVars, queueVars, drains, closed, old, historyVars, spent>>

\* What a lookup of the mode finds, and whether it had to ask the database.
Look == [mode : Mode, miss : BOOLEAN]

TypeOK ==
    /\ at \in [Messages -> {"new", "handling", "looking", "given", "failed"}]
    /\ look \in [Messages -> Look \cup {None}]
    /\ modes \in [Sessions -> Mode \cup {None}]
    /\ stored \in [Sessions -> Mode]
    /\ storing \in [Sessions -> Mode \cup {None}]
    /\ pending \in [Sessions -> Seq(Seq(Messages))]
    /\ active \in [Sessions -> Seq(Messages)]
    /\ signal \in [Sessions -> {"none", "queue", "user"}]
    /\ count \in 0 .. MaxRuns
    /\ drains \in [Sessions -> Seq([queue : Seq(Seq(Messages)), look : Look])]
    /\ closed \in SUBSET Sessions
    /\ old \in SUBSET Messages
    /\ ran \in [Messages -> Nat]
    /\ order \in Seq(Messages)
    /\ cause \in [Messages -> SUBSET {"replaced", "cleared", "full"}]
    /\ mishap \in [Sessions -> SUBSET {"limited", "raced", "db", "mode"}]
    /\ stopped \in SUBSET Messages
    /\ spent \in 0 .. MaxSpent

Init ==
    /\ at = [m \in Messages |-> "new"]
    /\ look = [m \in Messages |-> None]
    /\ modes = [s \in Sessions |-> None]
    /\ stored = FirstMode
    /\ storing = [s \in Sessions |-> None]
    /\ pending = [s \in Sessions |-> <<>>]
    /\ active = [s \in Sessions |-> <<>>]
    /\ signal = [s \in Sessions |-> "none"]
    /\ count = 0
    /\ drains = [s \in Sessions |-> <<>>]
    /\ closed = {}
    /\ old = {}
    /\ ran = [m \in Messages |-> 0]
    /\ order = <<>>
    /\ cause = [m \in Messages |-> {}]
    /\ mishap = [s \in Sessions |-> {}]
    /\ stopped = {}
    /\ spent = 0

----------------------------------------------------------------------------
\* Queues

In(e)      == ToSet(e)                        \* the messages of an entry
Waiting(q) == UNION {In(q[k]) : k \in DOMAIN q}

Spend        == spent < MaxSpent /\ spent' = spent + 1
Blame(M, why) == [m \in Messages |-> IF m \in M THEN cause[m] \cup {why} ELSE cause[m]]
Befalls(s, why) == [mishap EXCEPT ![s] = @ \cup {why}]
IsDraining(s) == drains[s] # <<>>

\* dropOldestWhenFull: it takes from the front.
Capped(q) == IF Len(q) > MaxPending THEN SubSeq(q, Len(q) - MaxPending + 1, Len(q)) ELSE q

\* collectWithinWindow: an entry is as old as the last of its messages.
Fresh(q) ==
    LET kept[n \in 0 .. Len(q)] ==
            IF n = 0 THEN <<>>
            ELSE IF Last(q[n]) \in old THEN kept[n - 1] ELSE Append(kept[n - 1], q[n])
    IN  kept[Len(q)]

\* normalizePendingQueue.  No two entries have one key.
Normal(q) == Capped(Fresh(q))

\* Mutated form of Behind: a followup goes ahead of what is waiting.
MutBehind(q, e, mode) ==
    CASE mode \in Replaces                     -> <<e>>
      [] mode \in {"steer-backlog", "followup"} -> <<e>> \o q
      [] mode = "collect"                      -> Append(q, e)

\* The queue after a message that comes while a run of its session is active,
Behind(q, e, mode) ==
    CASE mode \in Replaces              -> <<e>>
      [] mode = "steer-backlog"         -> <<e>> \o q
      [] mode \in {"collect", "followup"} -> Append(q, e)

\* and after one that finds all places taken.
Limited(q, e, mode) == IF mode \in Replaces THEN <<e>> ELSE Append(q, e)

\* What befalls messages when the queue q of s becomes the capped form of next.
Displaced(q, next, mode) ==
    LET cut == IF Len(next) > MaxPending
               THEN Waiting(SubSeq(next, 1, Len(next) - MaxPending)) ELSE {}
    IN  [m \in Messages |->
            cause[m] \cup (IF mode \in Replaces /\ m \in Waiting(q) THEN {"replaced"} ELSE {})
                     \cup (IF m \in cut THEN {"full"} ELSE {})]

\* Mutated form of MayBegin: the limit counts as reached one run late.
MutMayBegin == count <= MaxRuns

MayBegin == count < MaxRuns

\* withSessionQueue of an entry, where q is the queue of s at the time.  An
\* abort after the first changes nothing.
WithSessionQueue(s, e, mode, q) ==
    \/ /\ active[s] # <<>>
       /\ pending' = [pending EXCEPT ![s] = Normal(Capped(Behind(q, e, mode)))]
       /\ signal' = IF mode \in Steers /\ signal[s] = "none"
                    THEN [signal EXCEPT ![s] = "queue"] ELSE signal
       /\ cause' = Displaced(q, Behind(q, e, mode), mode)
       /\ UNCHANGED <<active, count, ran>>
    \/ /\ active[s] = <<>>
       /\ ~MayBegin
       /\ pending' = [pending EXCEPT ![s] = Normal(Capped(Limited(q, e, mode)))]
       /\ cause' = Displaced(q, Limited(q, e, mode), mode)
       /\ UNCHANGED <<active, signal, count, ran>>
    \/ /\ active[s] = <<>>
       /\ MayBegin
       /\ count' = count + 1
       /\ active' = [active EXCEPT ![s] = e]
       /\ signal' = [signal EXCEPT ![s] = "none"]
       /\ ran' = [m \in Messages |-> IF m \in In(e) THEN ran[m] + 1 ELSE ran[m]]
       /\ pending' = [pending EXCEPT ![s] = q]
       /\ UNCHANGED cause

IsLimited(s) == active[s] = <<>> /\ ~MayBegin

----------------------------------------------------------------------------
\* handleSlackMessage

\* An event is handled beside all others, up to the session of its thread,
\* which is another one after /new.
Arrive(m) ==
    /\ at[m] = "new"
    /\ SessionOf[m] \notin closed
    /\ at' = [at EXCEPT ![m] = "handling"]
    /\ UNCHANGED <<modeVars, queueVars, drains, closed, old, historyVars, spent>>

\* What resolveSessionQueueMode will return: the cached mode, or the stored one.
Found(s) == [mode |-> IF modes[s] # None THEN modes[s] ELSE stored[s],
             miss |-> modes[s] = None]

\* What it leaves in the cache: an answer of the database replaces what was put
\* there in the meantime.
Learned(s, found) == IF found.miss THEN [modes EXCEPT ![s] = found.mode] ELSE modes

LookUp(m) ==
    /\ at[m] = "handling"
    /\ at' = [at EXCEPT ![m] = "looking"]
    /\ look' = [look EXCEPT ![m] = Found(SessionOf[m])]
    /\ UNCHANGED <<modes, stored, storing, queueVars, drains, closed, old,
                   historyVars, spent>>

Submit(m) ==
    LET s == SessionOf[m]
    IN  /\ at[m] = "looking"
        /\ at' = [at EXCEPT ![m] = "given"]
        /\ look' = [look EXCEPT ![m] = None]
        /\ modes' = Learned(s, look[m])
        /\ WithSessionQueue(s, <<m>>, look[m].mode, pending[s])
        /\ order' = Append(order, m)
        /\ mishap' = [mishap EXCEPT ![s] =
               @ \cup (IF IsLimited(s) THEN {"limited"} ELSE {})
                 \cup (IF IsDraining(s) THEN {"raced"} ELSE {})
                 \cup (IF look[m].mode # modes'[s] THEN {"mode"} ELSE {})]
        /\ UNCHANGED <<stored, storing, drains, closed, old, stopped, spent>>

\* One of the statements or calls before fails, and the message with it.
HandlerFails(m) ==
    /\ at[m] \in {"handling", "looking"}
    /\ Spend
    /\ at' = [at EXCEPT ![m] = "failed"]
    /\ look' = [look EXCEPT ![m] = None]
    /\ UNCHANGED <<modes, stored, storing, queueVars, drains, closed, old, historyVars>>

----------------------------------------------------------------------------
\* The end of a run

\* Mutated form of Taken: what follows the first entry is forgotten.
MutTaken(q, mode) == [entry |-> IF mode = "collect" THEN FlattenSeq(q) ELSE q[1], rest |-> <<>>]

\* What the next run is given, and what is left.
Taken(q, mode) ==
    IF mode = "collect" THEN [entry |-> FlattenSeq(q), rest |-> <<>>]
                        ELSE [entry |-> q[1], rest |-> Tail(q)]

\* The finally block of a run up to its await: its queue is read here, and what
\* is too old is left out.
RunEnds(s) ==
    /\ active[s] # <<>>
    /\ count' = count - 1
    /\ active' = [active EXCEPT ![s] = <<>>]
    /\ signal' = [signal EXCEPT ![s] = "none"]
    /\ drains' = IF pending[s] = <<>> THEN drains
                 ELSE [drains EXCEPT ![s] =
                          Append(@, [queue |-> Normal(pending[s]), look |-> Found(s)])]
    /\ mishap' = IF IsDraining(s) THEN Befalls(s, "raced") ELSE mishap
    /\ UNCHANGED <<at, modeVars, pending, ran, closed, old, order, cause, stopped, spent>>

\* And from there: the queue is replaced by what it was then.
Drain(s, k) ==
    LET d     == drains[s][k]
        taken == Taken(d.queue, d.look.mode)
    IN  /\ k \in DOMAIN drains[s]
        /\ drains' = [drains EXCEPT ![s] = RemoveAt(@, k)]
        /\ modes' = Learned(s, d.look)
        /\ \/ /\ d.queue = <<>>
              /\ pending' = [pending EXCEPT ![s] = <<>>]
              /\ UNCHANGED <<active, signal, count, ran, cause, mishap>>
           \/ /\ d.queue # <<>>
              /\ WithSessionQueue(s, taken.entry, d.look.mode, taken.rest)
              /\ mishap' = IF IsLimited(s) THEN Befalls(s, "limited") ELSE mishap
        /\ UNCHANGED <<at, look, stored, storing, closed, old, order, stopped, spent>>

\* The lookup throws: what is queued stays queued.
DrainFails(s, k) ==
    /\ k \in DOMAIN drains[s]
    /\ drains[s][k].look.miss
    /\ Spend
    /\ drains' = [drains EXCEPT ![s] = RemoveAt(@, k)]
    /\ mishap' = Befalls(s, "db")
    /\ UNCHANGED <<at, modeVars, queueVars, closed, old, order, cause, stopped>>

----------------------------------------------------------------------------
\* Commands and the clock

\* Mutated form of Stopped: the run is aborted, and its queue stays.
MutStopped(s) == pending

\* What a stop leaves of the queues.
Stopped(s) == IF active[s] # <<>> THEN [pending EXCEPT ![s] = <<>>] ELSE pending

\* stopActiveRunForThread, which is acknowledged when there was a run, or a
\* subagent to kill.
Stop(s) ==
    /\ Spend
    /\ s \notin closed
    /\ pending' = Stopped(s)
    /\ signal' = IF active[s] # <<>> /\ signal[s] = "none"
                 THEN [signal EXCEPT ![s] = "user"] ELSE signal
    /\ stopped' = stopped \cup Waiting(pending[s])
    /\ cause' = IF active[s] # <<>> THEN Blame(Waiting(pending[s]), "cleared") ELSE cause
    /\ mishap' = IF IsDraining(s) THEN Befalls(s, "raced") ELSE mishap
    /\ UNCHANGED <<at, modeVars, active, count, ran, drains, closed, old, order>>

\* /queue clear
Clear(s) ==
    /\ Spend
    /\ s \notin closed
    /\ pending' = [pending EXCEPT ![s] = <<>>]
    /\ cause' = Blame(Waiting(pending[s]), "cleared")
    /\ mishap' = IF IsDraining(s) THEN Befalls(s, "raced") ELSE mishap
    /\ UNCHANGED <<at, modeVars, active, signal, count, ran, drains, closed, old,
                   order, stopped>>

\* /new after its statements.  A run of the session goes on.
Reset(s) ==
    /\ Spend
    /\ s \notin closed
    /\ closed' = closed \cup {s}
    /\ pending' = [pending EXCEPT ![s] = <<>>]
    /\ modes' = [modes EXCEPT ![s] = None]
    /\ cause' = Blame(Waiting(pending[s]), "cleared")
    /\ mishap' = IF IsDraining(s) THEN Befalls(s, "raced") ELSE mishap
    /\ UNCHANGED <<at, look, stored, storing, active, signal, count, ran, drains, old,
                   order, stopped>>

\* /queue mode: the cache first,
SetMode(s, mode) ==
    /\ Spend
    /\ s \notin closed
    /\ storing[s] = None
    /\ modes' = [modes EXCEPT ![s] = mode]
    /\ storing' = [storing EXCEPT ![s] = mode]
    /\ mishap' = Befalls(s, "mode")
    /\ UNCHANGED <<at, look, stored, queueVars, drains, closed, old, order, cause, stopped>>

\* then the row.
StoreMode(s) ==
    /\ storing[s] # None
    /\ stored' = [stored EXCEPT ![s] = storing[s]]
    /\ storing' = [storing EXCEPT ![s] = None]
    /\ UNCHANGED <<at, look, modes, queueVars, drains, closed, old, historyVars, spent>>

\* Five minutes after the last message of an entry was sent.
Lapse(s) ==
    /\ Spend
    /\ \E k \in DOMAIN pending[s] :
           /\ ~(In(pending[s][k]) \subseteq old)
           /\ old' = old \cup In(pending[s][k])
    /\ UNCHANGED <<at, modeVars, queueVars, drains, closed, historyVars>>

----------------------------------------------------------------------------
Next ==
    \/ \E m \in Messages : Arrive(m) \/ LookUp(m) \/ Submit(m) \/ HandlerFails(m)
    \/ \E s \in Sessions : RunEnds(s) \/ Stop(s) \/ Clear(s) \/ Reset(s) \/ StoreMode(s)
                           \/ Lapse(s)
    \/ \E s \in Sessions, mode \in Settable : SetMode(s, mode)
    \/ \E s \in Sessions : \E k \in DOMAIN drains[s] : Drain(s, k) \/ DrainFails(s, k)

Spec == Init /\ [][Next]_vars

----------------------------------------------------------------------------
\* Properties

\* The sessions with a run are as many as globalRunCount says and no more than
\* the limit (runtime.ts:298), although a run that ends gives its place back
\* before it takes one for what it drains (runtime.ts:322), and no message is
\* given to two runs, but where a message or a command came between the two.
RunsCounted ==
    /\ count = Cardinality({s \in Sessions : active[s] # <<>>}) /\ count <= MaxRuns
    /\ \A m \in Messages : ran[m] > 1 => "raced" \in mishap[SessionOf[m]]

\* A message that was submitted is given to a run, or it waits where a run or
\* the end of one will find it (runtime.ts:326): unless it was replaced or
\* cleared, did not fit, waited for more than five minutes, or its session met
\* the limit, came between a drain's two halves, or lost its drain.
Attended ==
    \A m \in Messages :
        LET s == SessionOf[m]
        IN  at[m] = "given" /\ ran[m] = 0 =>
                \/ m \in Waiting(pending[s]) /\ (active[s] # <<>> \/ IsDraining(s))
                \/ cause[m] # {} \/ m \in old
                \/ mishap[s] \cap {"limited", "raced", "db"} # {}

\* In the modes without steering the messages of a session are given to runs in
\* the order in which they were submitted, as long as its mode is not changed
\* and the limit is not met.
InOrder ==
    \A i, j \in DOMAIN order :
        LET m == order[i]
            s == SessionOf[m]
        IN  i < j /\ SessionOf[order[j]] = s /\ stored[s] \notin Steers /\ ran[order[j]] > 0
                => \/ ran[m] > 0 \/ cause[m] # {} \/ m \in old
                   \/ mishap[s] \cap {"limited", "raced", "mode"} # {}

\* What was waiting when a stop was acknowledged never begins, unless it was
\* waiting for the limit and not for a run, or the run was just ending.
StopHolds ==
    \A m \in stopped : ran[m] > 0 => mishap[SessionOf[m]] \cap {"limited", "raced"} # {}
=============================================================================
