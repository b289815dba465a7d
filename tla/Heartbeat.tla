----------------------------- MODULE Heartbeat -----------------------------
(***************************************************************************)
(* The heartbeat of a gateway process: background completions are queued   *)
(* as system events, a wake-up is requested, and a run of the session's    *)
(* heartbeat claims the events, asks the agent for a text, hands it to     *)
(* delivery, and finalizes or releases the claim.                          *)
(*                                                                         *)
(* The wake-up machinery (heartbeat-wake.ts) is the module state of one    *)
(* process and serves all sessions; its loop is the callback of a timer,   *)
(* and a handler that is registered anew may start a second loop beside    *)
(* the first.  A step is what runs between two awaits.                     *)
(***************************************************************************)
EXTENDS SystemEvents

CONSTANTS Sessions,
          Events, SessionOf,  \* completions, and the session of each
          Relayable,      \* the events no completion policy keeps silent; they tell
                          \* of a command or of a subagent, there are no others
          Expiring,       \* the events that may outlive their expires_at
          Watchable,      \* the sessions that websocket clients subscribe to
          Closing,        \* the sessions that are archived or deleted
          Restarting,     \* the sessions in which somebody else runs an agent
          Loops,          \* bound: loops that may run at the same time
          ClaimLimit,     \* the limit a run gives claimPendingEvents
          MaxFailures,    \* MAX_CONSECUTIVE_NO_DELIVERY_FAILURES
          Faults, MaxFaults   \* the kinds of fault, and how many in all

ASSUME HeartbeatAssumption ==
    /\ None \notin Sessions
    /\ SessionOf \in [Events -> Sessions]
    /\ Relayable \subseteq Events
    /\ ClaimLimit \in Nat \ {0}
    /\ MaxFailures \in Nat
    /\ MaxFaults \in Nat

\* Two calls of randomUUID never return one token: there are as many as can be
\* in use, and another one.
ASSUME TokensSuffice ==
    /\ IsFiniteSet(Events) /\ IsFiniteSet(Loops) /\ IsFiniteSet(Tokens)
    /\ Cardinality(Events) + Cardinality(Loops) < Cardinality(Tokens) + 2

VARIABLES
    event,     \* ava_system_events
    session,   \* "active"; "closed" (row updated), "stopped" (its heartbeat
               \* too), "ended" (its events deleted)
    prod,      \* what a completion does next: "queue", "wake", "done"
    watched,   \* the sessions with a websocket subscriber
    beating,   \* heartbeats, the services that are running
    wake,      \* the module state of heartbeat-wake.ts
    run,       \* the loops, each with the run it is waiting for
    relayed,   \* how often an event was handed to delivery or to the queue
    cause,     \* history: faults that struck an event
    swapped,   \* history: a handler was registered while a loop was active
    faults     \* faults so far

vars == <<event, session, prod, watched, beating, wake, run, relayed, cause,
          swapped, faults>>

\* The ways a run can end, by what they mean.  With the events it has claimed,
\* it ...
Releasing  == {"awaiting-subscriber", "fallback-failed", "bad-answer",
               "failed", "misrouted", "error"}                  \* ... releases
Finalizing == {"all-silent", "queued", "policy", "no-target", "acked",
               "delivered", "suppressed", "empty-file"}         \* ... finalizes
Unclaiming == {"not-running", "not-deliverable", "queue-busy"}  \* it has none

\* The skips that are answered "no-delivery-target", and the other ones that
\* are retried.
NoTarget == {"fallback-failed", "no-target"}
Retried  == {"queue-busy", "failed", "error"}

WakeRow == [pending  : SUBSET Sessions,       \* pendingWakes
            timer    : BOOLEAN,
            busy     : BOOLEAN,               \* running
            attempts : [Sessions -> 0 .. MaxFailures + 1]]

RunRow == [at    : {"idle", "gate", "claim", "route", "fallback", "start",
                    "answer", "deliver", "release", "finalize", "returned"},
           todo  : SUBSET Sessions,           \* the rest of pendingBatch
           who   : Sessions \cup {None},
           token : Tokens \cup {None},        \* claimToken
           got   : SUBSET Events,             \* pendingEvents
           out   : {"none", "over", "retry", "no-target"}]

TypeOK ==
    /\ event \in [Events -> EventRow]
    /\ session \in [Sessions -> {"active", "closed", "stopped", "ended"}]
    /\ prod \in [Events -> {"queue", "wake", "done"}]
    /\ watched \in SUBSET Sessions
    /\ beating \in SUBSET Sessions
    /\ wake \in WakeRow
    /\ run \in [Loops -> RunRow]
    /\ relayed \in [Events -> Nat]
    /\ cause \in [Events -> SUBSET {"crash", "db", "lostAnswer"}]
    /\ swapped \in BOOLEAN
    /\ faults \in 0 .. MaxFaults

----------------------------------------------------------------------------
\* Operators

NoRun == [at |-> "idle", todo |-> {}, who |-> None, token |-> None,
          got |-> {}, out |-> "none"]

IdleWake == [pending |-> {}, timer |-> FALSE, busy |-> FALSE,
             attempts |-> [s \in Sessions |-> 0]]

Active(l) == run[l].at # "idle"

\* randomUUID: a token nobody has.
InUse == {event[e].token : e \in Events} \cup {run[l].token : l \in Loops}
FreshToken == CHOOSE t \in Tokens : t \notin InUse

Blame(S, why) == [e \in Events |-> IF e \in S THEN cause[e] \cup {why} ELSE cause[e]]
Fault(kind)   == kind \in Faults /\ faults < MaxFaults /\ faults' = faults + 1

\* requestHeartbeatNow with a reason that is not a retry.  Only the fact that a
\* timer is armed is kept of schedule: how long it has to run, and that a retry
\* timer is not brought forward, are matters of time.
Requested(w, s) == [w EXCEPT !.pending = @ \cup {s}, !.timer = TRUE,
                             !.attempts[s] = 0]

\* Mutated form of Registered: what waited for a handler is not scheduled.
MutRegistered(w) == [IdleWake EXCEPT !.pending = w.pending]

\* setHeartbeatWakeHandler with a handler.
Registered(w) == [IdleWake EXCEPT !.pending = w.pending,
                                  !.timer   = w.pending # {}]

\* The timer's callback starts a loop; one that finds "running" set arms the
\* timer again, which is no change.  The flag "scheduled" is left out: it is
\* only ever set where a timer is armed as well.
MayRun(w) == w.timer /\ ~w.busy
Taken(w)  == [w EXCEPT !.pending = {}, !.timer = FALSE, !.busy = TRUE]

\* registerRetryAndGetDelayMs; the bound is one more than is ever compared.
Counted(n) == IF n > MaxFailures THEN n ELSE n + 1

GivesUp(w, s, out) == out = "no-target" /\ Counted(w.attempts[s]) > MaxFailures

\* What the loop does with the result of a run.
Answered(w, s, out) ==
    IF out \in {"retry", "no-target"} /\ ~GivesUp(w, s, out)
    THEN [w EXCEPT !.pending = @ \cup {s}, !.timer = TRUE,
                   !.attempts[s] = Counted(@)]
    ELSE [w EXCEPT !.attempts[s] = 0]

\* The finally block of the loop.
Finished(w) == [w EXCEPT !.busy = FALSE, !.timer = @ \/ w.pending # {}]

\* Mutated form of Result: a busy queue is not tried again.
MutResult(why) == IF why \in NoTarget THEN "no-target"
                  ELSE IF why \in {"failed", "error"} THEN "retry" ELSE "over"

\* What the result of a run means to the loop.
Result(why) == IF why \in NoTarget THEN "no-target"
               ELSE IF why \in Retried THEN "retry" ELSE "over"

\* Mutated form of ClaimEnd: one of the early returns keeps the claim.
MutClaimEnd(why) == IF why = "awaiting-subscriber" THEN "returned"
                    ELSE IF why \in Releasing THEN "release" ELSE "finalize"

\* What becomes of the claim.
ClaimEnd(why) == IF why \in Releasing THEN "release" ELSE "finalize"

\* The handler: the run begins if the session's service is there.
Begun(r, s, services) ==
    [r EXCEPT !.at   = IF s \in services THEN "gate" ELSE "returned",
              !.out  = IF s \in services THEN "none" ELSE Result("not-running"),
              !.todo = @ \ {s}, !.who = s, !.token = None, !.got = {}]

\* ensureHeartbeatRunning: the first service registers the handler, which
\* forgets that a loop may be running.
EnsureRunning(s) ==
    /\ beating' = beating \cup {s}
    /\ IF beating = {}
       THEN /\ wake' = Registered(wake)
            /\ swapped' = (swapped \/ \E l \in Loops : Active(l))
       ELSE UNCHANGED <<wake, swapped>>

\* The run goes to its next await, or ends, by way of its claim if it has one.
GoesTo(l, at)   == run' = [run EXCEPT ![l].at = at]
EndsAs(l, why) ==
    run' = [run EXCEPT ![l].out = Result(why),
                       ![l].at  = IF run[l].token = None THEN "returned"
                                                         ELSE ClaimEnd(why)]

Told(l)     == run[l].got \cap Relayable
Relayed(l)  == [e \in Events |-> IF e \in Told(l) THEN relayed[e] + 1 ELSE relayed[e]]

----------------------------------------------------------------------------
Init ==
    /\ event = [e \in Events |-> NoEvent]
    /\ session = [s \in Sessions |-> "active"]
    /\ prod = [e \in Events |-> "queue"]
    /\ watched = {}
    /\ beating = {}
    /\ wake = IdleWake
    /\ run = [l \in Loops |-> NoRun]
    /\ relayed = [e \in Events |-> 0]
    /\ cause = [e \in Events |-> {}]
    /\ swapped = FALSE
    /\ faults = 0

----------------------------------------------------------------------------
(* Completions, subscribers and the life of a service.                     *)

\* queueSystemEvent; when it fails, nothing is stored.
QueueEvent(e) ==
    /\ prod[e] = "queue"
    /\ \/ event' = [event EXCEPT ![e] = CreatedEvent] /\ UNCHANGED faults
       \/ Fault("db") /\ UNCHANGED event
    /\ prod' = [prod EXCEPT ![e] = "wake"]
    /\ UNCHANGED <<session, watched, beating, wake, run, relayed, cause, swapped>>

\* wakeHeartbeat: without a service nothing happens.
Wakes(s) == wake' = IF s \in beating THEN Requested(wake, s) ELSE wake

WakeFor(e) ==
    /\ prod[e] = "wake"
    /\ Wakes(SessionOf[e])
    /\ prod' = [prod EXCEPT ![e] = "done"]
    /\ UNCHANGED <<event, session, watched, beating, run, relayed, cause,
                   swapped, faults>>

\* The first subscriber of a session.
Subscribe(s) ==
    /\ s \in Watchable \ watched
    /\ watched' = watched \cup {s}
    /\ Wakes(s)
    /\ UNCHANGED <<event, session, prod, beating, run, relayed, cause, swapped,
                   faults>>

\* The connection of the last subscriber is closed: stopSessionHeartbeat.
Unsubscribe(s) ==
    /\ s \in watched
    /\ watched' = watched \ {s}
    /\ beating' = beating \ {s}
    /\ UNCHANGED <<event, session, prod, wake, run, relayed, cause, swapped,
                   faults>>

\* An agent run of somebody else in the session: ensureHeartbeatRunning.
AgentRuns(s) ==
    /\ s \in Restarting \ beating /\ session[s] = "active"
    /\ EnsureRunning(s)
    /\ UNCHANGED <<event, session, prod, watched, run, relayed, cause, faults>>

\* The interval timer of a service.
Interval(s) ==
    /\ s \in beating
    /\ wake' = Requested(wake, s)
    /\ UNCHANGED <<event, session, prod, watched, beating, run, relayed, cause,
                   swapped, faults>>

\* archiveSessionAndTerminateWork, deleteSessionAndTerminateWork: the row of
\* the session, then the heartbeat, and its events last.
CloseSession(s) ==
    /\ s \in Closing /\ session[s] = "active"
    /\ session' = [session EXCEPT ![s] = "closed"]
    /\ UNCHANGED <<event, prod, watched, beating, wake, run, relayed, cause,
                   swapped, faults>>

TerminateWork(s) ==
    /\ session[s] = "closed"
    /\ session' = [session EXCEPT ![s] = "stopped"]
    /\ beating' = beating \ {s}
    /\ UNCHANGED <<event, prod, watched, wake, run, relayed, cause, swapped,
                   faults>>

ClearEvents(s) ==
    /\ session[s] = "stopped"
    /\ session' = [session EXCEPT ![s] = "ended"]
    /\ event' = [e \in Events |-> IF SessionOf[e] = s THEN DeletedEvent(event[e])
                                                      ELSE event[e]]
    /\ UNCHANGED <<prod, watched, beating, wake, run, relayed, cause,
                   swapped, faults>>

----------------------------------------------------------------------------
(* The loop of heartbeat-wake.ts.                                          *)

\* The timer's callback, up to the first await of the first run; without a
\* handler it does nothing.
TimerFires ==
    /\ \/ /\ wake.timer /\ beating = {}
          /\ wake' = [wake EXCEPT !.timer = FALSE]
          /\ UNCHANGED run
       \/ /\ MayRun(wake) /\ beating # {}
          /\ \E l \in Loops :
               /\ ~Active(l)
               /\ l = CHOOSE m \in Loops : ~Active(m)     \* they are alike
               /\ IF wake.pending = {}
                  THEN wake' = Finished(Taken(wake)) /\ UNCHANGED run
                  ELSE \E s \in wake.pending :
                         /\ wake' = Taken(wake)
                         /\ run' = [run EXCEPT ![l] =
                              Begun([NoRun EXCEPT !.todo = wake.pending], s, beating)]
    /\ UNCHANGED <<event, session, prod, watched, beating, relayed, cause,
                   swapped, faults>>

\* The result of a run comes back: retry, give the heartbeat up, or neither;
\* then the next run of the batch, or the end of the loop.
Continue(l) ==
    /\ run[l].at = "returned"
    /\ LET s == run[l].who
           w == Answered(wake, s, run[l].out)
       IN /\ beating' = IF GivesUp(wake, s, run[l].out) THEN beating \ {s}
                                                        ELSE beating
          /\ IF run[l].todo = {}
             THEN /\ wake' = Finished(w)
                  /\ run' = [run EXCEPT ![l] = NoRun]
             ELSE \E n \in run[l].todo :
                    /\ wake' = w
                    /\ run' = [run EXCEPT ![l] = Begun(@, n, beating')]
    /\ UNCHANGED <<event, session, prod, watched, relayed, cause, swapped, faults>>

----------------------------------------------------------------------------
(* runHeartbeatOnce.                                                       *)

\* canDeliverToSession, which answers no when the database fails, and the
\* check of the session's queue, which is anybody's guess.
GatePasses(l) ==
    /\ run[l].at = "gate" /\ session[run[l].who] = "active"
    /\ GoesTo(l, "claim")
    /\ UNCHANGED <<event, session, prod, watched, beating, wake, relayed, cause,
                   swapped, faults>>

GateHolds(l) ==
    /\ run[l].at = "gate"
    /\ \/ session[run[l].who] = "active" /\ EndsAs(l, "queue-busy") /\ UNCHANGED faults
       \/ session[run[l].who] # "active" /\ EndsAs(l, "not-deliverable") /\ UNCHANGED faults
       \/ Fault("db") /\ EndsAs(l, "not-deliverable")
    /\ UNCHANGED <<event, session, prod, watched, beating, wake, relayed, cause,
                   swapped>>

\* claimPendingEvents.  When the statement fails the run goes on as if there
\* were no events, also when it has claimed them and the answer was lost.
Claim(l) ==
    /\ run[l].at = "claim"
    /\ \E got \in SUBSET {e \in Events : /\ SessionOf[e] = run[l].who
                                         /\ IsClaimable(event[e])} :
         /\ Cardinality(got) <= ClaimLimit
         /\ Cardinality(got) = ClaimLimit \/ got =
              {e \in Events : SessionOf[e] = run[l].who /\ IsClaimable(event[e])}
         /\ event' = [e \in Events |-> IF e \in got
                                       THEN ClaimedEvent(event[e], FreshToken)
                                       ELSE event[e]]
         /\ \/ /\ run' = [run EXCEPT ![l].at = "route", ![l].got = got,
                            ![l].token = IF got = {} THEN None ELSE FreshToken]
               /\ UNCHANGED <<cause, faults>>
            \/ /\ Fault("db")
               /\ cause' = Blame(got, "db")
               /\ GoesTo(l, "route")
    /\ UNCHANGED <<session, prod, watched, beating, wake, relayed, swapped>>

\* Silent events need no route; then the delivery route, the subscribers if
\* there is none, and HEARTBEAT.md if there is nothing to tell.  (The code reads
\* the file for an event of a third kind, too; nothing queues one.)
Route(l) ==
    /\ run[l].at = "route"
    /\ IF run[l].got # {} /\ Told(l) = {}
       THEN EndsAs(l, "all-silent")
       ELSE \/ GoesTo(l, "start")
            \/ EndsAs(l, "policy")
            \/ Told(l) = {} /\ EndsAs(l, "empty-file")
            \/ Told(l) = {} /\ EndsAs(l, "no-target")
            \/ Told(l) # {} /\ run[l].who \in watched /\ GoesTo(l, "fallback")
            \/ Told(l) # {} /\ run[l].who \notin watched
                            /\ EndsAs(l, "awaiting-subscriber")
    /\ UNCHANGED <<event, session, prod, watched, beating, wake, relayed, cause,
                   swapped, faults>>

\* enqueueInternalFallbackRun: the prompt goes to the session's own queue.
Fallback(l) ==
    /\ run[l].at = "fallback"
    /\ \/ relayed' = Relayed(l) /\ EndsAs(l, "queued") /\ UNCHANGED <<cause, faults>>
       \/ Fault("db") /\ EndsAs(l, "fallback-failed") /\ UNCHANGED <<relayed, cause>>
       \/ /\ Fault("lostAnswer") /\ cause' = Blame(Told(l), "lostAnswer")
          /\ relayed' = Relayed(l) /\ EndsAs(l, "fallback-failed")
    /\ UNCHANGED <<event, session, prod, watched, beating, wake, swapped>>

\* executeAgentWithPi begins with ensureHeartbeatRunning.
StartAgent(l) ==
    /\ run[l].at = "start"
    /\ EnsureRunning(run[l].who)
    /\ GoesTo(l, "answer")
    /\ UNCHANGED <<event, session, prod, watched, relayed, cause, faults>>

\* The agent fails, forgets the control envelope, has nothing to say (or what
\* it said before), or answers with a text.
AgentAnswers(l) ==
    /\ run[l].at = "answer"
    /\ \/ EndsAs(l, "error")
       \/ EndsAs(l, "bad-answer")
       \/ EndsAs(l, "acked")
       \/ GoesTo(l, "deliver")
    /\ UNCHANGED <<event, session, prod, watched, beating, wake, relayed, cause,
                   swapped, faults>>

\* routeDelivery, durable.  A call that throws may have enqueued the message.
Deliver(l) ==
    /\ run[l].at = "deliver"
    /\ \/ relayed' = Relayed(l) /\ EndsAs(l, "delivered") /\ UNCHANGED <<cause, faults>>
       \/ /\ \E why \in {"suppressed", "no-target", "failed", "misrouted"} : EndsAs(l, why)
          /\ UNCHANGED <<relayed, cause, faults>>
       \/ Fault("db") /\ EndsAs(l, "error") /\ UNCHANGED <<relayed, cause>>
       \/ /\ Fault("lostAnswer") /\ cause' = Blame(Told(l), "lostAnswer")
          /\ relayed' = Relayed(l) /\ EndsAs(l, "error")
    /\ UNCHANGED <<event, session, prod, watched, beating, wake, swapped>>

\* releaseClaimIfNeeded, finalizeClaimIfNeeded.
Unclaims(l) ==
    run' = [run EXCEPT ![l].at = "returned", ![l].token = None, ![l].got = {}]

Release(l) ==
    /\ run[l].at = "release"
    /\ event' = [e \in Events |-> ReleasedEvent(event[e], run[l].token)]
    /\ Unclaims(l)
    /\ UNCHANGED <<session, prod, watched, beating, wake, relayed, cause,
                   swapped, faults>>

Finalize(l) ==
    /\ run[l].at = "finalize"
    /\ event' = [e \in Events |-> FinalizedEvent(event[e], run[l].token)]
    /\ Unclaims(l)
    /\ UNCHANGED <<session, prod, watched, beating, wake, relayed, cause,
                   swapped, faults>>

\* Either statement fails: an error is logged, and that is all.
SettleFails(l) ==
    /\ run[l].at \in {"release", "finalize"}
    /\ Fault("db")
    /\ cause' = Blame(run[l].got, "db")
    /\ Unclaims(l)
    /\ UNCHANGED <<event, session, prod, watched, beating, wake, relayed, swapped>>

----------------------------------------------------------------------------
(* The clock, and a process that dies and is started again.                *)

Lapses(e) ==
    /\ event[e].state = "claimed" /\ ~event[e].lapsed
    /\ event' = [event EXCEPT ![e] = LapsedClaim(@)]
    /\ UNCHANGED <<session, prod, watched, beating, wake, run, relayed, cause,
                   swapped, faults>>

Expires(e) ==
    /\ e \in Expiring /\ event[e].state \in {"pending", "claimed"} /\ ~event[e].expired
    /\ event' = [event EXCEPT ![e] = OverdueEvent(@)]
    /\ UNCHANGED <<session, prod, watched, beating, wake, run, relayed, cause,
                   swapped, faults>>

\* The cleanup that is run every six hours.
Cleanup ==
    /\ \E e \in Events : PurgedEvent(event[e]) # event[e]
    /\ event' = [e \in Events |-> PurgedEvent(event[e])]
    /\ UNCHANGED <<session, prod, watched, beating, wake, run, relayed, cause,
                   swapped, faults>>

\* All module state is lost, a termination under way is not resumed; main()
\* drops the events that have expired.
CrashAndRestart ==
    /\ Fault("crash")
    /\ event' = [e \in Events |-> PurgedEvent(event[e])]
    /\ cause' = Blame(UNION {run[l].got : l \in Loops}, "crash")
    /\ prod' = [e \in Events |-> IF prod[e] = "wake" THEN "done" ELSE prod[e]]
    /\ watched' = {}
    /\ beating' = {}
    /\ wake' = IdleWake
    /\ run' = [l \in Loops |-> NoRun]
    /\ session' = [s \in Sessions |-> IF session[s] = "active" THEN "active" ELSE "ended"]
    /\ UNCHANGED <<relayed, swapped>>

----------------------------------------------------------------------------
RunStep(l) ==
    \/ Continue(l)
    \/ GatePasses(l) \/ GateHolds(l) \/ Claim(l) \/ Route(l) \/ Fallback(l)
    \/ StartAgent(l) \/ Deliver(l)
    \/ Release(l) \/ Finalize(l) \/ SettleFails(l)

Next ==
    \/ \E e \in Events : QueueEvent(e) \/ WakeFor(e) \/ Lapses(e) \/ Expires(e)
    \/ \E s \in Sessions : \/ Subscribe(s) \/ Unsubscribe(s) \/ AgentRuns(s)
                           \/ Interval(s) \/ CloseSession(s) \/ TerminateWork(s)
                           \/ ClearEvents(s)
    \/ TimerFires
    \/ \E l \in Loops : RunStep(l) \/ AgentAnswers(l)
    \/ Cleanup
    \/ CrashAndRestart

\* What the runtime sees to: a completion wakes, a timer fires, a run goes on.  The
\* queue of a session is assumed not to be busy every time a run looks.  Nothing is
\* assumed of the interval.
Fairness ==
    /\ \A e \in Events : WF_vars(WakeFor(e))
    /\ WF_vars(TimerFires)
    /\ \A l \in Loops :
         /\ WF_vars(RunStep(l))
         /\ \A s \in Sessions : SF_vars(run[l].who = s /\ GatePasses(l))

\* That the agent of a heartbeat comes to an end is assumed only where it is said
\* so: it is given no signal, and a timeout only if one is configured.
AgentsEnd == \A l \in Loops : WF_vars(AgentAnswers(l))

Spec         == Init /\ [][Next]_vars
EndingSpec   == Spec /\ Fairness /\ AgentsEnd

----------------------------------------------------------------------------
(* Properties.                                                             *)

\* Every early return, error path and outcome of a run gives its claim back or
\* finalizes it: a claimed event belongs to a run that is still under way,
\* unless a crash or a failed statement struck the claim itself.
ClaimsHeld ==
    \A e \in Events : event[e].state = "claimed" =>
       \/ \E l \in Loops : e \in run[l].got /\ run[l].token = event[e].token
       \/ cause[e] # {}

\* An event reaches the user, or the session's queue, once: however many loops
\* run beside each other, however long a run takes, whatever is retried, and
\* wherever the process dies.  Only an enqueue that succeeds and is reported as
\* failed is repeated.
RelayedOnce ==
    \A e \in Events : relayed[e] > 1 => "lostAnswer" \in cause[e]

\* A wake-up that is pending while some service is there has a timer, or a loop
\* whose finally block will look: stopping the last service, with a loop on its
\* way or a timer armed, and starting one again loses none.
WakeKept ==
    wake.pending # {} /\ beating # {} => wake.timer \/ \E l \in Loops : Active(l)

\* Runs do not overlap, in one session or in two, unless the handler was
\* registered anew under a loop.
OneLoop ==
    \A l, m \in Loops : Active(l) /\ Active(m) /\ l # m => swapped

\* A completion whose service is there when it wakes it is claimed on account
\* of that wake-up, without waiting for the interval, whatever the loop is
\* doing, in whatever session its agent is running: unless it expires, the service
\* stops or the session is closed.  One agent that never ends would stop the loop
\* for all sessions.
EventNoticed ==
    \A e \in Events :
       prod[e] = "wake" /\ event[e].state = "pending" /\ SessionOf[e] \in beating
       ~> \/ event[e].state # "pending" \/ event[e].expired
          \/ SessionOf[e] \notin beating \/ session[SessionOf[e]] # "active"

=============================================================================
