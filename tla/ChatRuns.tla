------------------------------ MODULE ChatRuns ------------------------------
(***************************************************************************)
(* The runs of the gateway: chat.send with its idempotency cache and       *)
(* chat.abort (chat.ts), the runs of powers (powers.ts) and of queued      *)
(* items (queue-processor.ts), and the connections whose end cancels them  *)
(* (server.ts).                                                            *)
(*                                                                         *)
(* A step is what runs between two awaits.  An id is the idempotency key   *)
(* of a client, which uses it for one session; the key of a retry is the   *)
(* id of another send.  The agent is outside: it throws at once when it is *)
(* aborted before its prompt, and may return all the same when the abort   *)
(* comes later.                                                            *)
(***************************************************************************)
EXTENDS GatewayRuntime

CONSTANTS Sends,      \* calls of chat.send
          ClientOf,   \* and who makes them
          Thinking,   \* the sends that set a thinking level
          Items,      \* items of the queue
          Powers,     \* calls of powers.execute
          Faults,     \* the kinds of fault
          MaxWorks,   \* how many works are begun
          MaxSpent    \* how many faults, aborts and timeouts of runs, and calls of
                      \* subscribe and unsubscribe there are in all

ASSUME ChatAssumption ==
    /\ Works = Sends \cup Items \cup Powers
    /\ Sends \cap Items = {} /\ Sends \cap Powers = {} /\ Items \cap Powers = {}
    /\ ClientOf \in [Sends -> Clients]
    /\ Thinking \subseteq Sends
    /\ \A v, w \in Works :
           IdOf[v] = IdOf[w] /\ v # w
               => {v, w} \subseteq Sends /\ SessionOf[v] = SessionOf[w]
    /\ {MaxWorks, MaxSpent} \subseteq Nat

VARIABLES
    pc,      \* where the handler of a work is
    cache,   \* idempotencyCache
    answer,  \* what the call of chat.send was answered
    ended,   \* the event that told the end of a work
    row,     \* ava_kai_power_runs: the status of a power's row
    cause,   \* history: what befell a work
    spent    \* what was used of MaxSpent

runtimeVars == <<conn, subs, run, runs, timer>>
vars == <<runtimeVars, pc, cache, answer, ended, row, cause, spent>>

Keys == {IdOf[s] : s \in Sends}

TypeOK ==
    /\ RuntimeTypeOK
    /\ pc \in [Works -> {"new", "identity", "think", "verbose", "made", "context",
                         "agent", "prompt", "completing", "failing", "over", "answered",
                         "stuck"}]
    /\ cache \in [Keys -> {"none", "in_flight", "ok", "error"}]
    /\ answer \in [Sends -> {"none", "started", "in_flight", "ok", "error", "failed"}]
    /\ ended \in [Works -> {"no", "final", "aborted", "error"}]
    /\ row \in [Powers -> {"none", "running", "completed", "error"}]
    /\ cause \in [Works -> SUBSET {"early", "expired", "late", "dropped", "db"}]
    /\ spent \in 0 .. MaxSpent

Init ==
    /\ RuntimeInit
    /\ pc = [w \in Works |-> "new"]
    /\ cache = [k \in Keys |-> "none"]
    /\ answer = [s \in Sends |-> "none"]
    /\ ended = [w \in Works |-> "no"]
    /\ row = [p \in Powers |-> "none"]
    /\ cause = [w \in Works |-> {}]
    /\ spent = 0

----------------------------------------------------------------------------
\* Operators

GoesTo(w, at) == pc' = [pc EXCEPT ![w] = at]
Blame(W, why) == [w \in Works |-> IF w \in W THEN cause[w] \cup {why} ELSE cause[w]]
Spend         == spent < MaxSpent /\ spent' = spent + 1
Fault(kind)   == kind \in Faults /\ Spend
Executing     == {w \in Works : pc[w] \in {"think", "verbose", "made", "context",
                                           "agent", "prompt", "completing", "failing"}}
MayBegin(w)   == pc[w] = "new" /\ Cardinality({v \in Works : pc[v] # "new"}) < MaxWorks
Watched(s)    == \E c \in Known : s \in subs[c]

\* Cancel the runs of W; those that have not begun will not notice.
Cancel(W) ==
    /\ run' = Cancelled(W)
    /\ cause' = Blame({w \in W : Active(w) /\ run[w].status = "pending"}, "early")

----------------------------------------------------------------------------
\* Connections: server.ts and subscriptions.ts

Connect(c) ==
    /\ conn[c] = "new"
    /\ conn' = [conn EXCEPT ![c] = "open"]
    /\ UNCHANGED <<subs, run, runs, timer, pc, cache, answer, ended, row,
                   cause, spent>>

Subscribe(c, s) ==
    /\ Spend
    /\ conn[c] = "open"
    /\ subs' = Subscribed(c, s)
    /\ UNCHANGED <<conn, run, runs, timer, pc, cache, answer, ended, row, cause>>

\* The caller leaves the sessions, too, and nobody looks whether it was the
\* last one there.
Unsubscribe(c) ==
    /\ Spend
    /\ conn[c] = "open"
    /\ subs' = Unsubscribed(c)
    /\ cause' = Blame({w \in Works : /\ Active(w) /\ SessionOf[w] \in subs[c]
                                     /\ \A d \in Known \ {c} : SessionOf[w] \notin subs[d]},
                      "dropped")
    /\ UNCHANGED <<conn, run, runs, timer, pc, cache, answer, ended, row>>

\* The peer closes, or the server closes on a client that does not read.
Leave(c) ==
    /\ conn[c] = "open"
    /\ conn' = [conn EXCEPT ![c] = "closing"]
    /\ UNCHANGED <<subs, run, runs, timer, pc, cache, answer, ended, row,
                   cause, spent>>

\* cleanupClientConnection: for each session the client was the last one of.
CleanUp(c) ==
    /\ conn[c] = "closing"
    /\ conn' = [conn EXCEPT ![c] = "gone"]
    /\ subs' = [subs EXCEPT ![c] = {}]
    /\ Cancel(UNION {RunsOf(s) : s \in {t \in subs[c] : OtherSubscribers(c, t) = {}}})
    /\ UNCHANGED <<runs, timer, pc, cache, answer, ended, row, spent>>

----------------------------------------------------------------------------
\* chat.send

\* The requests of one connection are handled one after the other.
Ask(s) ==
    /\ MayBegin(s)
    /\ conn[ClientOf[s]] = "open"
    /\ \A t \in Sends : pc[t] \in {"identity", "think"} => ClientOf[t] # ClientOf[s]
    /\ GoesTo(s, "identity")
    /\ UNCHANGED <<runtimeVars, cache, answer, ended, row, cause, spent>>

\* Mutated form of Reserved: the key is taken by executeChatRun, which a send
\* with a thinking level reaches after two statements.
MutReserved(s) == IF s \in Thinking THEN cache ELSE [cache EXCEPT ![IdOf[s]] = "in_flight"]

\* setIdempotencyStatus of a send that is accepted.
Reserved(s) == [cache EXCEPT ![IdOf[s]] = "in_flight"]

\* From the session's identity to the next await.
Accept(s) ==
    /\ pc[s] = "identity"
    /\ subs' = Subscribed(ClientOf[s], SessionOf[s])
    /\ \/ /\ cache[IdOf[s]] # "none"
          /\ answer' = [answer EXCEPT ![s] = cache[IdOf[s]]]
          /\ GoesTo(s, "answered")
          /\ UNCHANGED <<run, runs, timer, cache, cause>>
       \/ /\ cache[IdOf[s]] = "none"
          /\ CreateRun(s)
          /\ cache' = Reserved(s)
          /\ cause' = [cause EXCEPT ![s] =
                 (IF ClientOf[s] \in Known \/ Watched(SessionOf[s]) THEN {} ELSE {"late"})
                 \cup (IF \E t \in Executing : IdOf[t] = IdOf[s] /\ "expired" \in cause[t]
                       THEN {"expired"} ELSE {})]
          /\ IF s \in Thinking
             THEN GoesTo(s, "think") /\ UNCHANGED answer
             ELSE GoesTo(s, "verbose") /\ answer' = [answer EXCEPT ![s] = "started"]
    /\ UNCHANGED <<conn, ended, row, spent>>

\* The thinking level is stored.
Think(s) ==
    /\ pc[s] = "think"
    /\ answer' = [answer EXCEPT ![s] = "started"]
    /\ GoesTo(s, "verbose")
    /\ UNCHANGED <<runtimeVars, cache, ended, row, cause, spent>>

\* Or it is not: nobody executes the run, and its key stays taken.
ThinkThrows(s) ==
    /\ pc[s] = "think"
    /\ Fault("db")
    /\ answer' = [answer EXCEPT ![s] = "failed"]
    /\ cause' = Blame({s}, "db")
    /\ GoesTo(s, "stuck")
    /\ UNCHANGED <<runtimeVars, cache, ended, row>>

\* executeChatRun goes on; a cancellation so far is overwritten.
Begin(s) ==
    /\ pc[s] = "verbose"
    /\ run' = Updated(s, "running")
    /\ GoesTo(s, "agent")
    /\ UNCHANGED <<conn, subs, runs, timer, cache, answer, ended, row, cause,
                   spent>>

\* The context is read and the agent is prompted, unless it was aborted.
Prompt(w) ==
    /\ pc[w] = "agent"
    /\ ~run[w].aborted
    /\ GoesTo(w, "prompt")
    /\ UNCHANGED <<runtimeVars, cache, answer, ended, row, cause, spent>>

\* The agent may return when it was prompted.  It may throw at any time.
Returns(w) == pc[w] = "prompt"
Throws(w)  == pc[w] \in {"agent", "prompt"}

IsCancelled(w) == Latest(w) # None /\ run[Latest(w)].status = "cancelled"

\* Mutated form of EndOf: the cancellation is only looked for when the agent
\* throws.
MutEndOf(s, returned) ==
    IF returned THEN "final" ELSE IF IsCancelled(s) THEN "aborted" ELSE "error"

\* How a run ends whose agent returned, or did not.
EndOf(s, returned) ==
    CASE IsCancelled(s)                   -> "aborted"
      [] returned /\ Latest(s) = None     -> "aborted"
      [] returned /\ Latest(s) # None /\ ~IsCancelled(s) -> "final"
      [] ~returned /\ ~IsCancelled(s)     -> "error"

StatusOf(end) == IF end = "final" THEN "completed" ELSE "error"

\* Mutated form of Settled: an aborted run leaves its key taken.
MutSettled(s, end) ==
    IF end = "aborted" THEN cache
    ELSE [cache EXCEPT ![IdOf[s]] = IF end = "final" THEN "ok" ELSE "error"]

\* What becomes of the key.
Settled(s, end) == [cache EXCEPT ![IdOf[s]] = IF end = "final" THEN "ok" ELSE "error"]

\* The rest of executeChatRun: the run, the event and the key.
Finish(s, returned) ==
    LET end == EndOf(s, returned)
    IN  /\ run' = IF end = "aborted" THEN run ELSE Updated(s, StatusOf(end))
        /\ ended' = [ended EXCEPT ![s] = end]
        /\ cache' = Settled(s, end)
        /\ GoesTo(s, "over")

ChatEnds(s) ==
    /\ \/ Returns(s) /\ Finish(s, TRUE)
       \/ Throws(s) /\ Finish(s, FALSE)
    /\ UNCHANGED <<conn, subs, runs, timer, answer, row, cause, spent>>

----------------------------------------------------------------------------
\* Queued items and powers

\* hasActiveRuntimeRun finds the session at rest.
LookItem(i) ==
    /\ MayBegin(i)
    /\ \A w \in RunsOf(SessionOf[i]) : ~Live(w)
    /\ GoesTo(i, "identity")
    /\ UNCHANGED <<runtimeVars, cache, answer, ended, row, cause, spent>>

\* The item was dequeued, and nobody looks again.
TakeItem(i) ==
    /\ pc[i] = "identity"
    /\ CreateRun(i)
    /\ GoesTo(i, "made")
    /\ UNCHANGED <<conn, subs, cache, answer, ended, row, cause, spent>>

\* The row of the item has its run id: as in a chat run, a cancellation so far
\* is overwritten.
StartItem(i) ==
    /\ pc[i] = "made"
    /\ run' = Updated(i, "running")
    /\ GoesTo(i, "agent")
    /\ UNCHANGED <<conn, subs, runs, timer, cache, answer, ended, row, cause,
                   spent>>

\* updateQueueRunId throws outside the try: the run stays as it is.
ItemThrows(i) ==
    /\ pc[i] = "made"
    /\ Fault("db")
    /\ cause' = Blame({i}, "db")
    /\ GoesTo(i, "stuck")
    /\ UNCHANGED <<runtimeVars, cache, answer, ended, row>>

\* Nobody asks whether the run was cancelled.
ItemEnds(i) ==
    /\ \/ Returns(i) /\ ended' = [ended EXCEPT ![i] = "final"]
       \/ Throws(i) /\ ended' = [ended EXCEPT ![i] = "error"]
    /\ run' = Updated(i, StatusOf(ended'[i]))
    /\ GoesTo(i, "over")
    /\ UNCHANGED <<conn, subs, runs, timer, cache, answer, row, cause, spent>>

\* powersExecute up to the insert.
TakePower(p) ==
    /\ MayBegin(p)
    /\ CreateRun(p)
    /\ GoesTo(p, "made")
    /\ UNCHANGED <<conn, subs, cache, answer, ended, row, cause, spent>>

\* A row that is not written is forgotten.
StartPower(p) ==
    /\ pc[p] = "made"
    /\ \/ row' = [row EXCEPT ![p] = "running"] /\ UNCHANGED <<spent, cause>>
       \/ Fault("db") /\ cause' = Blame({p}, "db") /\ UNCHANGED row
    /\ run' = Updated(p, "running")
    /\ GoesTo(p, "context")
    /\ UNCHANGED <<conn, subs, runs, timer, cache, answer, ended>>

\* executeAgentForPower after its first await.
PowerGoesOn(p) ==
    /\ pc[p] = "context"
    /\ GoesTo(p, IF Latest(p) = None \/ IsCancelled(p) THEN "over" ELSE "agent")
    /\ UNCHANGED <<runtimeVars, cache, answer, ended, row, cause, spent>>

\* A cancelled power ends without a word, and its row stays as it is.  The run of
\* another one is over before its row is written and its event is sent.
PowerEnds(p) ==
    \E returned \in BOOLEAN :
        LET end == EndOf(p, returned)
        IN  /\ IF returned THEN Returns(p) ELSE Throws(p)
            /\ \/ end = "aborted" /\ GoesTo(p, "over") /\ UNCHANGED run
               \/ /\ end # "aborted"
                  /\ run' = Updated(p, StatusOf(end))
                  /\ GoesTo(p, IF end = "final" THEN "completing" ELSE "failing")
            /\ UNCHANGED <<conn, subs, runs, timer, cache, answer, ended, row, cause,
                           spent>>

\* A row that is there is updated.  An error of that is ignored, and nobody tries
\* again: the event is sent, and the row stays as it is.
PowerIsTold(p) ==
    /\ pc[p] \in {"completing", "failing"}
    /\ LET end == IF pc[p] = "completing" THEN "final" ELSE "error"
       IN  /\ \/ /\ row' = IF row[p] = "none" THEN row
                              ELSE [row EXCEPT ![p] = StatusOf(end)]
                 /\ UNCHANGED <<cause, spent>>
              \/ Fault("db") /\ cause' = Blame({p}, "db") /\ UNCHANGED row
           /\ ended' = [ended EXCEPT ![p] = end]
    /\ GoesTo(p, "over")
    /\ UNCHANGED <<runtimeVars, cache, answer>>

----------------------------------------------------------------------------
\* Cancellations and timers

\* chat.abort, for a run or for a session, and terminateSessionWork.
Abort ==
    /\ Spend
    /\ \/ \E w \in Works : Active(w) /\ Cancel({w})
       \/ \E s \in Sessions : (\E w \in RunsOf(s) : Active(w)) /\ Cancel(RunsOf(s))
    /\ UNCHANGED <<conn, subs, runs, timer, pc, cache, answer, ended, row>>

\* The timer of a send with a timeout, which its handler clears at its end.
TimesOut(s) ==
    /\ Spend
    /\ pc[s] \in {"agent", "prompt"}
    /\ Latest(s) # None
    /\ Cancel({Latest(s)})
    /\ UNCHANGED <<conn, subs, runs, timer, pc, cache, answer, ended, row>>

\* Ten minutes after the creation; no statement takes as long.  Nobody asks for
\* the run of an item or a power that is over, or of a power that is to be told.
Forgotten(w) ==
    /\ w \in timer
    /\ pc[w] \in {"agent", "prompt", "stuck"} \/ (w \in Sends /\ pc[w] = "over")
    /\ Forget(w)
    /\ cause' = IF pc[w] \in {"agent", "prompt"} THEN Blame({w}, "expired") ELSE cause
    /\ UNCHANGED <<conn, subs, run, pc, cache, answer, ended, row, spent>>

\* Fifteen minutes after it was last set.
Lapses(k) ==
    /\ cache[k] # "none"
    /\ \A s \in Sends : IdOf[s] = k => s \notin timer
    /\ cache' = [cache EXCEPT ![k] = "none"]
    /\ cause' = Blame({s \in Sends : IdOf[s] = k /\ pc[s] # "new"}, "expired")
    /\ UNCHANGED <<runtimeVars, pc, answer, ended, row, spent>>

----------------------------------------------------------------------------
ChatStep(s)  == \/ Accept(s) \/ Think(s) \/ ThinkThrows(s) \/ Begin(s) \/ Prompt(s)
                \/ ChatEnds(s)
ItemStep(i)  == TakeItem(i) \/ StartItem(i) \/ ItemThrows(i) \/ Prompt(i) \/ ItemEnds(i)
PowerStep(p) == StartPower(p) \/ PowerGoesOn(p) \/ Prompt(p) \/ PowerEnds(p) \/ PowerIsTold(p)

Next ==
    \/ \E c \in Clients : Connect(c) \/ Unsubscribe(c) \/ Leave(c) \/ CleanUp(c)
    \/ \E c \in Clients, s \in Sessions : Subscribe(c, s)
    \/ \E s \in Sends : Ask(s) \/ ChatStep(s) \/ TimesOut(s)
    \/ \E i \in Items : LookItem(i) \/ ItemStep(i)
    \/ \E p \in Powers : TakePower(p) \/ PowerStep(p)
    \/ Abort
    \/ \E w \in Works : Forgotten(w)
    \/ \E k \in Keys : Lapses(k)

\* Statements are answered and agents come to an end.  No timer and no client
\* is needed for what has begun to be finished.
Fairness ==
    /\ \A s \in Sends : WF_vars(ChatStep(s))
    /\ \A i \in Items : WF_vars(ItemStep(i))
    /\ \A p \in Powers : WF_vars(PowerStep(p))

Spec == Init /\ [][Next]_vars /\ Fairness

----------------------------------------------------------------------------
\* Properties

\* A retry never starts a second run of a message while the first is under way
\* (chat.ts:620), unless the key had lapsed, which takes a run of a quarter of
\* an hour.
OneRunPerKey ==
    \A s, t \in Sends :
        s # t /\ IdOf[s] = IdOf[t] /\ {s, t} \subseteq Executing
            => "expired" \in cause[s] \cup cause[t]

\* What was aborted does not end as if it had not been: no final message, and
\* no completed power, of a run whose signal was raised, even when its agent
\* returns a result, when the abort came before the run was marked as running,
\* or when it was repeated (chat.ts:872, powers.ts:309).
AbortSticks ==
    \A w \in Sends \cup Powers :
        run[w].aborted /\ "expired" \notin cause[w] => ended[w] # "final"

\* The event that told the end of a send, the state of its run, its signal and
\* what a retry is answered all say the same, unless the run was aborted
\* before it was marked as running or outlived the gateway's memory of it.
EndsAgree ==
    \A s \in Sends :
        pc[s] = "over" /\ cause[s] \cap {"early", "expired"} = {} =>
            /\ run[s].status = CASE ended[s] = "final"   -> "completed"
                                 [] ended[s] = "aborted" -> "cancelled"
                                 [] ended[s] = "error"   -> "error"
            /\ run[s].aborted <=> ended[s] = "aborted"
            /\ cache[IdOf[s]] = IF ended[s] = "final" THEN "ok" ELSE "error"

\* Nobody's chat run goes on: when the last connection to a session is gone, its
\* sends have been cancelled (server.ts:359), except one that was still being
\* accepted, whose session the last client had left before, or whose id was
\* used again.
NoOrphans ==
    \A s \in Sends :
        Active(s) /\ ~run[s].aborted /\ ~Watched(SessionOf[s])
            => cause[s] \cap {"late", "dropped", "expired"} # {}

\* What was accepted comes to an end that is told, no key stays in flight and
\* no power stays running in its table, whatever clients do: unless the one
\* statement between taking a key and executing the run failed, and for a
\* power, unless it was cancelled or forgotten or the statement that ends its row
\* failed, whose error nobody sees.
Settles ==
    <>[](/\ Executing = {}
         /\ \A s \in Sends :
                /\ answer[s] = "started" => ended[s] # "no"
                /\ cache[IdOf[s]] = "in_flight"
                       => \E t \in Sends : IdOf[t] = IdOf[s] /\ "db" \in cause[t]
         /\ \A p \in Powers :
                row[p] = "running"
                    => run[p].aborted \/ cause[p] \cap {"expired", "db"} # {})
=============================================================================
