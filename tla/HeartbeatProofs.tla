--------------------------- MODULE HeartbeatProofs ---------------------------
(***************************************************************************)
(* Proofs about Heartbeat, for any sessions and completions, any number of *)
(* loops beside each other, and any set of faults.                         *)
(*                                                                         *)
(* The argument is about tokens.  A run has a token exactly as long as it  *)
(* has events, the events it got carry the token until they are deleted,   *)
(* and nobody else has it.  So the statement that releases or finalizes    *)
(* "every row with the token" changes the rows of that run and no others,  *)
(* and an event that was handed on stays out of the rows a claim picks.    *)
(***************************************************************************)
EXTENDS Heartbeat, FiniteSetTheorems, TLAPS

\* The points at which a run has no claim yet, or none any more.
NoClaimYet == {"idle", "gate", "claim", "returned"}

----------------------------------------------------------------------------
(* The inductive invariant, by parts.                                      *)

\* A run is one of a session.
Placed == \A l \in Loops : Active(l) => run[l].who \in Sessions

\* A run and its claim.
RunsClaim ==
    \A l \in Loops :
       /\ run[l].token = None <=> run[l].got = {}
       /\ run[l].at \in NoClaimYet => run[l].token = None
       /\ run[l].at \in {"release", "finalize"} => run[l].token # None

\* What a run got carries its token, unless it was deleted meanwhile; and what
\* carries the token of a run was got by it.
RunsHold ==
    \A l \in Loops, e \in Events :
       /\ e \in run[l].got => \/ event[e].state = "deleted"
                              \/ /\ event[e].state = "claimed"
                                 /\ event[e].token = run[l].token
       /\ event[e].token # None /\ event[e].token = run[l].token => e \in run[l].got

\* No two runs have an event or a token in common.
RunsApart ==
    \A l, m \in Loops : l # m =>
       /\ run[l].got \cap run[m].got = {}
       /\ run[l].token # None => run[l].token # run[m].token

\* Only a claimed event has a token, and an event is created once.
EventsPlain ==
    \A e \in Events :
       /\ event[e].state = "claimed" <=> event[e].token # None
       /\ prod[e] = "queue" => event[e] = NoEvent /\ relayed[e] = 0

\* What was handed on is never claimed again: it is neither pending, nor has a
\* run that may still hand it on or release it got it.
HandedOn ==
    \A e \in Events : relayed[e] > 0 /\ "lostAnswer" \notin cause[e] =>
       /\ event[e].state # "pending"
       /\ \A l \in Loops : e \in run[l].got => run[l].at = "finalize"

ClaimInv == RunsClaim /\ RunsHold /\ RunsApart /\ EventsPlain

\* A loop under way holds the running flag, unless the flag was taken from it.
FlagHeld == (\E l \in Loops : Active(l)) => wake.busy \/ swapped

Inv == /\ TypeOK /\ Placed /\ ClaimInv /\ HandedOn /\ FlagHeld
       /\ ClaimsHeld /\ RelayedOnce /\ WakeKept /\ OneLoop

----------------------------------------------------------------------------
(* Operators.                                                              *)

Outcomes == Releasing \cup Finalizing \cup Unclaiming

USE DEF NoClaimYet

\* How a run ends with what it has claimed.
LEMMA Ending ==
    ASSUME TypeOK, NEW l \in Loops, NEW why \in Outcomes, EndsAs(l, why)
    PROVE  /\ run' \in [Loops -> RunRow]
           /\ \A m \in Loops : m # l => run'[m] = run[m]
           /\ run'[l].token = run[l].token /\ run'[l].got = run[l].got /\ run'[l].who = run[l].who
           /\ run'[l].at = IF run[l].token = None THEN "returned"
                           ELSE IF why \in Releasing THEN "release" ELSE "finalize"
<1> DEFINE at == IF run[l].token = None THEN "returned" ELSE ClaimEnd(why)
<1>1. Result(why) \in {"over", "retry", "no-target"}
  BY DEF Result
<1>2. at \in {"returned", "release", "finalize"}
  BY DEF ClaimEnd
<1>3. run[l] \in RunRow
  BY DEF TypeOK
<1>4. [run[l] EXCEPT !.out = Result(why), !.at = at] \in RunRow
  BY <1>1, <1>2, <1>3 DEF RunRow
<1>5. run' = [run EXCEPT ![l] = [run[l] EXCEPT !.out = Result(why), !.at = at]]
  BY DEF EndsAs, TypeOK
<1> HIDE DEF at
<1>6. /\ run' \in [Loops -> RunRow]
      /\ \A m \in Loops : m # l => run'[m] = run[m]
      /\ run'[l] = [run[l] EXCEPT !.out = Result(why), !.at = at]
  BY <1>4, <1>5 DEF TypeOK
<1>7. /\ run'[l].token = run[l].token /\ run'[l].got = run[l].got /\ run'[l].who = run[l].who
      /\ run'[l].at = at
  BY <1>3, <1>6 DEF RunRow
<1> QED BY <1>6, <1>7 DEF at, ClaimEnd

LEMMA Going ==
    ASSUME TypeOK, NEW l \in Loops, NEW at, GoesTo(l, at),
           at \in {"claim", "route", "fallback", "start", "answer", "deliver"}
    PROVE  /\ run' \in [Loops -> RunRow]
           /\ \A m \in Loops : m # l => run'[m] = run[m]
           /\ run'[l].token = run[l].token /\ run'[l].got = run[l].got /\ run'[l].who = run[l].who
           /\ run'[l].at = at
<1> DEFINE r == [run[l] EXCEPT !.at = at]
<1>1. run \in [Loops -> RunRow] /\ run[l] \in RunRow
  BY DEF TypeOK
<1>2. r \in RunRow
  BY <1>1 DEF RunRow
<1>3. r.token = run[l].token /\ r.got = run[l].got /\ r.who = run[l].who /\ r.at = at
  BY <1>1 DEF RunRow
<1>4. run' = [run EXCEPT ![l] = r]
  BY <1>1 DEF GoesTo
<1> HIDE DEF r
<1> QED BY <1>1, <1>2, <1>3, <1>4

LEMMA ClaimGone ==
    ASSUME TypeOK, NEW l \in Loops, Unclaims(l)
    PROVE  /\ run' \in [Loops -> RunRow]
           /\ \A m \in Loops : m # l => run'[m] = run[m]
           /\ run'[l].token = None /\ run'[l].got = {} /\ run'[l].at = "returned"
           /\ run'[l].who = run[l].who
<1> DEFINE r == [run[l] EXCEPT !.at = "returned", !.token = None, !.got = {}]
<1>1. run[l] \in RunRow
  BY DEF TypeOK
<1>2. r \in RunRow /\ r.token = None /\ r.got = {} /\ r.at = "returned" /\ r.who = run[l].who
  BY <1>1 DEF RunRow
<1>3. run' = [run EXCEPT ![l] = r]
  BY DEF Unclaims, TypeOK
<1> HIDE DEF r
<1> QED BY <1>2, <1>3 DEF TypeOK

LEMMA Beginning ==
    ASSUME NEW r \in RunRow, NEW s \in Sessions, NEW services
    PROVE  /\ Begun(r, s, services) \in RunRow
           /\ Begun(r, s, services).token = None /\ Begun(r, s, services).got = {}
           /\ Begun(r, s, services).at \in {"gate", "returned"} /\ Begun(r, s, services).who = s
  BY DEF Begun, RunRow, Result, NoTarget, Retried

LEMMA Wakings ==
    ASSUME NEW w \in WakeRow, NEW s \in Sessions
    PROVE  /\ Requested(w, s) \in WakeRow /\ Registered(w) \in WakeRow
           /\ Taken(w) \in WakeRow /\ Finished(w) \in WakeRow
           /\ \A out : Answered(w, s, out) \in WakeRow
<1>1. /\ w.attempts \in [Sessions -> 0 .. MaxFailures + 1]
      /\ Counted(w.attempts[s]) \in 0 .. MaxFailures + 1
  BY HeartbeatAssumption DEF WakeRow, Counted
<1>2. /\ [w.attempts EXCEPT ![s] = Counted(@)] \in [Sessions -> 0 .. MaxFailures + 1]
      /\ [w.attempts EXCEPT ![s] = 0] \in [Sessions -> 0 .. MaxFailures + 1]
      /\ [x \in Sessions |-> 0] \in [Sessions -> 0 .. MaxFailures + 1]
  BY <1>1, HeartbeatAssumption
<1>3. Requested(w, s) \in WakeRow
  BY <1>2 DEF WakeRow, Requested
<1>4. Registered(w) \in WakeRow
  BY <1>2 DEF WakeRow, Registered, IdleWake
<1>5. Taken(w) \in WakeRow /\ Finished(w) \in WakeRow
  BY DEF WakeRow, Taken, Finished
<1>6. ASSUME NEW out PROVE Answered(w, s, out) \in WakeRow
  <2>1. CASE out \in {"retry", "no-target"} /\ ~GivesUp(w, s, out)
    <3>1. Answered(w, s, out) = [w EXCEPT !.pending = w.pending \cup {s}, !.timer = TRUE,
              !.attempts = [w.attempts EXCEPT ![s] = Counted(w.attempts[s])]]
      BY <2>1 DEF Answered, WakeRow
    <3>2. w.pending \cup {s} \in SUBSET Sessions
      BY DEF WakeRow
    <3>3. ASSUME NEW P \in SUBSET Sessions,
                 NEW n \in [Sessions -> 0 .. MaxFailures + 1]
          PROVE  [w EXCEPT !.pending = P, !.timer = TRUE, !.attempts = n] \in WakeRow
      BY DEF WakeRow
    <3> QED BY <1>2, <3>1, <3>2, <3>3
  <2>2. CASE ~(out \in {"retry", "no-target"} /\ ~GivesUp(w, s, out))
    <3>1. Answered(w, s, out) = [w EXCEPT !.attempts = [w.attempts EXCEPT ![s] = 0]]
      BY <2>2 DEF Answered, WakeRow
    <3> QED BY <1>2, <3>1 DEF WakeRow
  <2> QED BY <2>1, <2>2
<1> QED BY <1>3, <1>4, <1>5, <1>6

LEMMA Rows ==
    ASSUME NEW r \in EventRow, NEW t \in Tokens \cup {None}
    PROVE  /\ ReleasedEvent(r, t) \in EventRow /\ FinalizedEvent(r, t) \in EventRow
           /\ PurgedEvent(r) \in EventRow /\ DeletedEvent(r) \in EventRow
           /\ LapsedClaim(r) \in EventRow /\ OverdueEvent(r) \in EventRow
           /\ t \in Tokens => ClaimedEvent(r, t) \in EventRow
  BY DEF EventRow, ReleasedEvent, FinalizedEvent, PurgedEvent, DeletedEvent, LapsedClaim,
     OverdueEvent, ClaimedEvent, Unclaimed

LEMMA Blamed ==
    ASSUME TypeOK, NEW S, NEW why \in {"crash", "db", "lostAnswer"}
    PROVE  /\ Blame(S, why) \in [Events -> SUBSET {"crash", "db", "lostAnswer"}]
           /\ \A e \in Events : /\ cause[e] \subseteq Blame(S, why)[e]
                                /\ e \in S => why \in Blame(S, why)[e]
                                /\ e \notin S => Blame(S, why)[e] = cause[e]
  BY DEF TypeOK, Blame

LEMMA Relaying ==
    ASSUME TypeOK, NEW l \in Loops
    PROVE  /\ Relayed(l) \in [Events -> Nat]
           /\ \A e \in Events : /\ e \in Told(l) => Relayed(l)[e] = relayed[e] + 1
                                /\ e \notin Told(l) => Relayed(l)[e] = relayed[e]
  BY DEF TypeOK, Relayed

LEMMA Faulty ==
    ASSUME TypeOK, NEW kind, Fault(kind)
    PROVE  faults' \in 0 .. MaxFaults
  BY HeartbeatAssumption DEF TypeOK, Fault

----------------------------------------------------------------------------
(* Type correctness.                                                       *)

\* The steps of a run that take no token and no event from it.
Moves(l) == \/ GatePasses(l) \/ GateHolds(l) \/ Route(l) \/ Fallback(l)
            \/ StartAgent(l) \/ AgentAnswers(l) \/ Deliver(l)

Outside == \/ \E e \in Events : WakeFor(e)
           \/ \E s \in Sessions : \/ Subscribe(s) \/ Unsubscribe(s) \/ AgentRuns(s)
                                  \/ Interval(s) \/ CloseSession(s) \/ TerminateWork(s)

\* What the steps of the clock and of the end of a session do to the rows.
EventSteps == \/ \E e \in Events : Lapses(e) \/ Expires(e)
              \/ \E s \in Sessions : ClearEvents(s)
              \/ Cleanup

LEMMA EnsureKeepsTypes ==
    ASSUME TypeOK, NEW s \in Sessions, EnsureRunning(s)
    PROVE  beating' \in SUBSET Sessions /\ wake' \in WakeRow /\ swapped' \in BOOLEAN
<1>1. beating' \in SUBSET Sessions
  BY DEF TypeOK, EnsureRunning
<1>2. wake' \in WakeRow
  BY Wakings DEF TypeOK, EnsureRunning
<1>3. swapped' \in BOOLEAN
  BY DEF TypeOK, EnsureRunning
<1> QED BY <1>1, <1>2, <1>3

\* A run that moves keeps what it has, and goes where it belongs.
LEMMA Moving ==
    ASSUME TypeOK, NEW l \in Loops, Moves(l)
    PROVE  /\ run' \in [Loops -> RunRow]
           /\ \A m \in Loops : m # l => run'[m] = run[m]
           /\ run'[l].token = run[l].token /\ run'[l].got = run[l].got /\ run'[l].who = run[l].who
           /\ \/ run'[l].at \in {"route", "fallback", "start", "answer", "deliver"}
              \/ run'[l].at = "claim" /\ run[l].at = "gate"
              \/ run'[l].at = "returned" /\ run[l].token = None
              \/ run'[l].at \in {"release", "finalize"} /\ run[l].token # None
           /\ run[l].at \in {"gate", "route", "fallback", "start", "answer", "deliver"}
           /\ event' = event /\ prod' = prod
<1> USE DEF Outcomes, Releasing, Finalizing, Unclaiming
<1>1. CASE GatePasses(l)
  BY <1>1, Going DEF GatePasses
<1>2. CASE GateHolds(l)
  BY <1>2, Ending DEF GateHolds
<1>3. CASE Route(l)
  BY <1>3, Ending, Going DEF Route
<1>4. CASE Fallback(l)
  BY <1>4, Ending DEF Fallback
<1>5. CASE StartAgent(l)
  BY <1>5, Going DEF StartAgent
<1>6. CASE AgentAnswers(l)
  BY <1>6, Ending, Going DEF AgentAnswers
<1>7. CASE Deliver(l)
  BY <1>7, Ending DEF Deliver
<1> QED BY <1>1, <1>2, <1>3, <1>4, <1>5, <1>6, <1>7 DEF Moves

LEMMA TypeOutside == TypeOK /\ Outside => TypeOK'
<1> SUFFICES ASSUME TypeOK, Outside PROVE TypeOK'
  OBVIOUS
<1>1. ASSUME NEW s \in Sessions, Wakes(s) PROVE wake' \in WakeRow
  BY <1>1, Wakings DEF Wakes, TypeOK
<1>2. ASSUME NEW e \in Events, WakeFor(e) PROVE TypeOK'
  BY <1>1, <1>2, HeartbeatAssumption DEF WakeFor, TypeOK
<1>3. ASSUME NEW s \in Sessions, Subscribe(s) PROVE TypeOK'
  BY <1>1, <1>3 DEF Subscribe, TypeOK
<1>4. ASSUME NEW s \in Sessions, Unsubscribe(s) PROVE TypeOK'
  BY <1>4 DEF Unsubscribe, TypeOK
<1>5. ASSUME NEW s \in Sessions, AgentRuns(s) PROVE TypeOK'
  BY <1>5, EnsureKeepsTypes DEF AgentRuns, TypeOK
<1>6. ASSUME NEW s \in Sessions, Interval(s) PROVE TypeOK'
  BY <1>6, Wakings DEF Interval, TypeOK
<1>7. ASSUME NEW s \in Sessions, CloseSession(s) \/ TerminateWork(s) PROVE TypeOK'
  BY <1>7 DEF CloseSession, TerminateWork, TypeOK
<1> QED BY <1>2, <1>3, <1>4, <1>5, <1>6, <1>7 DEF Outside

LEMMA TypeEvents == TypeOK /\ EventSteps => TypeOK'
<1> SUFFICES ASSUME TypeOK, EventSteps PROVE TypeOK'
  OBVIOUS
<1>1. \A e \in Events : event[e] \in EventRow /\ event[e].token \in Tokens \cup {None}
  BY DEF TypeOK, EventRow
<1>2. ASSUME NEW e \in Events, Lapses(e) PROVE TypeOK'
  BY <1>1, <1>2, Rows DEF Lapses, TypeOK
<1>3. ASSUME NEW e \in Events, Expires(e) PROVE TypeOK'
  BY <1>1, <1>3, Rows DEF Expires, TypeOK
<1>4. ASSUME NEW s \in Sessions, ClearEvents(s) PROVE TypeOK'
  BY <1>1, <1>4, Rows DEF ClearEvents, TypeOK
<1>5. CASE Cleanup
  BY <1>1, <1>5, Rows DEF Cleanup, TypeOK
<1> QED BY <1>2, <1>3, <1>4, <1>5 DEF EventSteps

LEMMA TypeMoves == ASSUME TypeOK, Placed, NEW l \in Loops, Moves(l) PROVE TypeOK'
<1>1. run' \in [Loops -> RunRow] /\ event' = event /\ prod' = prod
  BY Moving
<1>2. run[l].who \in Sessions
  BY Moving DEF Placed, Active
<1>3. relayed' \in [Events -> Nat]
  BY Relaying DEF Moves, GatePasses, GateHolds, Route, Fallback, StartAgent, AgentAnswers,
     Deliver, TypeOK
<1>4. cause' \in [Events -> SUBSET {"crash", "db", "lostAnswer"}]
  BY Blamed DEF Moves, GatePasses, GateHolds, Route, Fallback, StartAgent, AgentAnswers,
     Deliver, TypeOK
<1>5. faults' \in 0 .. MaxFaults
  BY Faulty DEF Moves, GatePasses, GateHolds, Route, Fallback, StartAgent, AgentAnswers,
     Deliver, TypeOK
<1>6. session' = session /\ watched' = watched
  BY DEF Moves, GatePasses, GateHolds, Route, Fallback, StartAgent, AgentAnswers, Deliver
<1>7. beating' \in SUBSET Sessions /\ wake' \in WakeRow /\ swapped' \in BOOLEAN
  BY <1>2, EnsureKeepsTypes DEF Moves, GatePasses, GateHolds, Route, Fallback, StartAgent, AgentAnswers,
     Deliver, TypeOK
<1> QED BY <1>1, <1>3, <1>4, <1>5, <1>6, <1>7 DEF TypeOK

----------------------------------------------------------------------------
(* Fresh tokens.                                                           *)

\* A set that is counted by a finite one is not larger.
LEMMA Counting ==
    ASSUME NEW S, IsFiniteSet(S), NEW f
    PROVE  /\ IsFiniteSet({f[x] : x \in S})
           /\ Cardinality({f[x] : x \in S}) \in Nat
           /\ Cardinality({f[x] : x \in S}) <= Cardinality(S)
<1> DEFINE T == {f[x] : x \in S}
           g == [x \in S |-> f[x]]
<1>1. g \in Surjection(S, T)
  BY DEF Surjection
<1>2. IsFiniteSet(T) /\ Cardinality(T) <= Cardinality(S)
  BY <1>1, FS_Surjection
<1> QED BY <1>2, FS_CardinalityType

\* A claim that picks an event finds a token nobody has: that event and the run
\* have none.
LEMMA Fresh ==
    ASSUME TypeOK, RunsClaim, EventsPlain, NEW l \in Loops, run[l].at = "claim",
           NEW e \in Events, IsClaimable(event[e])
    PROVE  FreshToken \in Tokens /\ FreshToken \notin InUse
<1> DEFINE f == [x \in Events |-> event[x].token]
           g == [m \in Loops |-> run[m].token]
           E == Events \ {e}
           L == Loops \ {l}
           F == {f[x] : x \in E}
           G == {g[x] : x \in L}
<1>1. event[e].token = None /\ run[l].token = None
  BY DEF IsClaimable, EventsPlain, RunsClaim
<1>2. InUse \ {None} \subseteq F \cup G
  BY <1>1 DEF InUse
<1>3. /\ IsFiniteSet(E) /\ Cardinality(E) = Cardinality(Events) - 1
      /\ IsFiniteSet(L) /\ Cardinality(L) = Cardinality(Loops) - 1
  BY TokensSuffice, FS_RemoveElement
<1> HIDE DEF f, g, E, L
<1>4. /\ IsFiniteSet(F) /\ Cardinality(F) \in Nat /\ Cardinality(F) <= Cardinality(E)
      /\ IsFiniteSet(G) /\ Cardinality(G) \in Nat /\ Cardinality(G) <= Cardinality(L)
  BY <1>3, Counting
<1> HIDE DEF F, G
<1>5. /\ IsFiniteSet(F \cup G)
      /\ Cardinality(F \cup G) = Cardinality(F) + Cardinality(G) - Cardinality(F \cap G)
      /\ Cardinality(F \cap G) \in Nat
  BY <1>4, FS_Union, FS_Subset, FS_CardinalityType
<1>6. /\ Cardinality(Events) \in Nat /\ Cardinality(Loops) \in Nat
      /\ Cardinality(Tokens) \in Nat
  BY TokensSuffice, FS_CardinalityType
<1>7. Cardinality(F \cup G) < Cardinality(Tokens)
  BY <1>3, <1>4, <1>5, <1>6, TokensSuffice
<1>8. ~(Tokens \subseteq F \cup G)
  <2>1. SUFFICES ASSUME Tokens \subseteq F \cup G PROVE FALSE
    OBVIOUS
  <2>2. Cardinality(Tokens) <= Cardinality(F \cup G) /\ Cardinality(F \cup G) \in Nat
    BY <1>5, <2>1, FS_Subset, FS_CardinalityType
  <2> QED BY <1>6, <1>7, <2>2
<1>9. \E t \in Tokens : t \notin InUse
  BY <1>2, <1>8, NoneIsNoToken
<1> QED BY <1>9 DEF FreshToken

----------------------------------------------------------------------------
(* Type correctness of the other steps.                                    *)

LEMMA TypeQueues ==
    ASSUME TypeOK, NEW e \in Events, QueueEvent(e) PROVE TypeOK'
<1>1. CreatedEvent \in EventRow
  BY DEF CreatedEvent, NoEvent, EventRow
<1>2. faults' \in 0 .. MaxFaults
  BY Faulty DEF QueueEvent, TypeOK
<1>3. event' \in [Events -> EventRow]
  BY <1>1 DEF QueueEvent, TypeOK
<1>4. prod' \in [Events -> {"queue", "wake", "done"}]
  BY DEF QueueEvent, TypeOK
<1> QED BY <1>2, <1>3, <1>4 DEF QueueEvent, TypeOK

\* What a claim does, in the terms the proofs need.
LEMMA Claiming ==
    ASSUME TypeOK, RunsClaim, EventsPlain, NEW l \in Loops, Claim(l)
    PROVE  \E got \in SUBSET {e \in Events : IsClaimable(event[e])} :
              /\ got # {} => FreshToken \in Tokens /\ FreshToken \notin InUse
              /\ \A e \in Events : event'[e] = IF e \in got
                                     THEN ClaimedEvent(event[e], FreshToken) ELSE event[e]
              /\ event' \in [Events -> EventRow]
              /\ run' \in [Loops -> RunRow]
              /\ \A m \in Loops : m # l => run'[m] = run[m]
              /\ run[l].at = "claim" /\ run'[l].at = "route" /\ run'[l].who = run[l].who
              /\ \/ /\ run'[l].got = got
                    /\ run'[l].token = IF got = {} THEN None ELSE FreshToken
                    /\ cause' = cause /\ faults' = faults
                 \/ /\ run'[l].got = run[l].got /\ run'[l].token = run[l].token
                    /\ cause' = Blame(got, "db") /\ faults' \in 0 .. MaxFaults
<1>1. PICK got \in SUBSET {e \in Events : SessionOf[e] = run[l].who /\ IsClaimable(event[e])} :
         /\ event' = [e \in Events |-> IF e \in got
                                       THEN ClaimedEvent(event[e], FreshToken)
                                       ELSE event[e]]
         /\ \/ /\ run' = [run EXCEPT ![l].at = "route", ![l].got = got,
                            ![l].token = IF got = {} THEN None ELSE FreshToken]
               /\ UNCHANGED <<cause, faults>>
            \/ /\ Fault("db")
               /\ cause' = Blame(got, "db")
               /\ GoesTo(l, "route")
  BY DEF Claim
<1>2. got # {} => FreshToken \in Tokens /\ FreshToken \notin InUse
  BY <1>1, Fresh DEF Claim
<1>3. \A e \in Events : event[e] \in EventRow
  BY DEF TypeOK
<1>4. event' \in [Events -> EventRow]
  BY <1>1, <1>2, <1>3, Rows, Zenon
<1> DEFINE t == IF got = {} THEN None ELSE FreshToken
<1>5. t \in Tokens \cup {None}
  BY <1>2
<1>6. ASSUME run' = [run EXCEPT ![l].at = "route", ![l].got = got, ![l].token = t]
      PROVE  /\ run' \in [Loops -> RunRow]
             /\ \A m \in Loops : m # l => run'[m] = run[m]
             /\ run'[l].at = "route" /\ run'[l].who = run[l].who
             /\ run'[l].got = got
             /\ run'[l].token = IF got = {} THEN None ELSE FreshToken
  <2> DEFINE r == [run[l] EXCEPT !.at = "route", !.got = got, !.token = t]
  <2>1. run[l] \in RunRow /\ got \in SUBSET Events
    BY DEF TypeOK
  <2> HIDE DEF t
  <2>2. /\ r \in RunRow
        /\ r.at = "route" /\ r.got = got /\ r.token = t /\ r.who = run[l].who
    BY <1>5, <2>1 DEF RunRow
  <2>3. run' = [run EXCEPT ![l] = r]
    BY <1>6
  <2> HIDE DEF r
  <2>4. /\ run' \in [Loops -> RunRow]
        /\ \A m \in Loops : m # l => run'[m] = run[m]
        /\ run'[l] = r
    BY <2>2, <2>3 DEF TypeOK
  <2> QED BY <2>2, <2>4 DEF t
<1> QED BY <1>1, <1>2, <1>4, <1>6, Going, Faulty DEF Claim

LEMMA TypeClaims ==
    ASSUME TypeOK, RunsClaim, EventsPlain, NEW l \in Loops, Claim(l) PROVE TypeOK'
<1>1. event' \in [Events -> EventRow] /\ run' \in [Loops -> RunRow]
  BY Claiming
<1>2. /\ cause' \in [Events -> SUBSET {"crash", "db", "lostAnswer"}]
      /\ faults' \in 0 .. MaxFaults
  BY Claiming, Blamed DEF TypeOK
<1> QED BY <1>1, <1>2 DEF Claim, TypeOK

LEMMA TypeUnclaims ==
    ASSUME TypeOK, NEW l \in Loops, Release(l) \/ Finalize(l) \/ SettleFails(l)
    PROVE  TypeOK'
<1>1. run' \in [Loops -> RunRow]
  BY ClaimGone DEF Release, Finalize, SettleFails
<1>2. /\ run[l].token \in Tokens \cup {None}
      /\ \A e \in Events : event[e] \in EventRow
  BY DEF TypeOK, RunRow
<1>3. event' \in [Events -> EventRow]
  BY <1>2, Rows DEF Release, Finalize, SettleFails, TypeOK
<1>4. /\ cause' \in [Events -> SUBSET {"crash", "db", "lostAnswer"}]
      /\ faults' \in 0 .. MaxFaults
  BY Blamed, Faulty DEF Release, Finalize, SettleFails, TypeOK
<1> QED BY <1>1, <1>3, <1>4 DEF Release, Finalize, SettleFails, TypeOK

\* A loop that begins has nothing from before.
LEMMA Starting ==
    ASSUME TypeOK, TimerFires
    PROVE  /\ wake' \in WakeRow /\ run' \in [Loops -> RunRow]
           /\ \A m \in Loops :
                \/ run'[m] = run[m]
                \/ /\ run[m].at = "idle" /\ MayRun(wake)
                   /\ wake' = Taken(wake) /\ wake.pending # {}
                   /\ run'[m].at \in {"gate", "returned"} /\ run'[m].who \in Sessions
                   /\ run'[m].token = None /\ run'[m].got = {}
           /\ \A m, n \in Loops : run'[m] # run[m] /\ run'[n] # run[n] => m = n
<1>1. CASE wake.timer /\ beating = {} /\ wake' = [wake EXCEPT !.timer = FALSE] /\ run' = run
  BY <1>1 DEF TypeOK, WakeRow
<1>2. ASSUME MayRun(wake), NEW l \in Loops, ~Active(l), wake.pending = {},
             wake' = Finished(Taken(wake)), run' = run
      PROVE  wake' \in WakeRow /\ run' \in [Loops -> RunRow] /\ run' = run
  <2>1. Taken(wake) \in WakeRow
    BY DEF Taken, TypeOK, WakeRow
  <2> QED BY <1>2, <2>1 DEF Finished, TypeOK, WakeRow
<1>3. ASSUME MayRun(wake), NEW l \in Loops, ~Active(l), NEW s \in wake.pending,
             wake' = Taken(wake),
             run' = [run EXCEPT ![l] =
                        Begun([NoRun EXCEPT !.todo = wake.pending], s, beating)]
      PROVE  /\ wake' \in WakeRow /\ run' \in [Loops -> RunRow]
             /\ \A m \in Loops : m # l => run'[m] = run[m]
             /\ run[l].at = "idle"
             /\ run'[l].at \in {"gate", "returned"} /\ run'[l].who \in Sessions
             /\ run'[l].token = None /\ run'[l].got = {}
  <2>1. s \in Sessions /\ [NoRun EXCEPT !.todo = wake.pending] \in RunRow
    BY <1>3 DEF TypeOK, WakeRow, NoRun, RunRow
  <2>2. wake' \in WakeRow
    BY <1>3 DEF Taken, TypeOK, WakeRow
  <2> DEFINE r == Begun([NoRun EXCEPT !.todo = wake.pending], s, beating)
  <2>3. /\ r \in RunRow /\ r.at \in {"gate", "returned"} /\ r.who = s
        /\ r.token = None /\ r.got = {}
    BY <2>1, Beginning
  <2> HIDE DEF r
  <2>4. run' = [run EXCEPT ![l] = r]
    BY <1>3 DEF r
  <2>5. run[l].at = "idle"
    BY <1>3 DEF Active
  <2>6. /\ run' \in [Loops -> RunRow] /\ run'[l] = r
        /\ \A m \in Loops : m # l => run'[m] = run[m]
    BY <2>3, <2>4 DEF TypeOK
  <2> QED BY <2>1, <2>2, <2>3, <2>5, <2>6
<1>4. \/ wake.timer /\ beating = {} /\ wake' = [wake EXCEPT !.timer = FALSE] /\ run' = run
      \/ \E l \in Loops :
            /\ MayRun(wake) /\ ~Active(l)
            /\ \/ wake.pending = {} /\ wake' = Finished(Taken(wake)) /\ run' = run
               \/ \E s \in wake.pending :
                    /\ wake' = Taken(wake)
                    /\ run' = [run EXCEPT ![l] =
                                 Begun([NoRun EXCEPT !.todo = wake.pending], s, beating)]
  BY DEF TimerFires
<1> QED BY <1>1, <1>2, <1>3, <1>4

LEMMA Continuing ==
    ASSUME TypeOK, Placed, NEW l \in Loops, Continue(l)
    PROVE  /\ wake' \in WakeRow /\ run' \in [Loops -> RunRow]
           /\ beating' \in SUBSET Sessions
           /\ \A m \in Loops : m # l => run'[m] = run[m]
           /\ run[l].at = "returned"
           /\ run'[l].token = None /\ run'[l].got = {}
           /\ \/ /\ run'[l].at \in {"gate", "returned"} /\ run'[l].who \in Sessions
                 /\ wake'.busy = wake.busy
              \/ /\ run'[l].at = "idle"
                 /\ wake'.pending # {} => wake'.timer
<1> DEFINE s == run[l].who
           w == Answered(wake, s, run[l].out)
<1>1. run[l] \in RunRow /\ run[l].at = "returned" /\ s \in Sessions
  BY DEF Continue, Placed, Active, TypeOK
<1>2. w \in WakeRow /\ Finished(w) \in WakeRow /\ w.busy = wake.busy
  <2>1. wake \in WakeRow
    BY DEF TypeOK
  <2>2. w \in WakeRow
    BY <1>1, <2>1, Wakings
  <2>3. w.busy = wake.busy
    BY <2>1 DEF Answered, WakeRow
  <2> HIDE DEF w
  <2> QED BY <1>1, <2>2, <2>3, Wakings
<1>3. beating' \in SUBSET Sessions
  BY DEF Continue, TypeOK
<1> HIDE DEF w
<1>4. CASE run[l].todo = {} /\ wake' = Finished(w) /\ run' = [run EXCEPT ![l] = NoRun]
  <2>1. NoRun \in RunRow /\ NoRun.token = None /\ NoRun.got = {} /\ NoRun.at = "idle"
    BY DEF NoRun, RunRow
  <2>2. wake'.pending # {} => wake'.timer
    BY <1>2, <1>4 DEF Finished, WakeRow
  <2> HIDE DEF s
  <2> QED BY <1>1, <1>2, <1>3, <1>4, <2>1, <2>2 DEF TypeOK
<1>5. ASSUME NEW n \in run[l].todo, wake' = w,
             run' = [run EXCEPT ![l] = Begun(run[l], n, beating')]
      PROVE  /\ wake' \in WakeRow /\ run' \in [Loops -> RunRow]
             /\ \A m \in Loops : m # l => run'[m] = run[m]
             /\ run'[l].token = None /\ run'[l].got = {}
             /\ run'[l].at \in {"gate", "returned"} /\ run'[l].who \in Sessions
             /\ wake'.busy = wake.busy
  <2>1. n \in Sessions
    BY <1>1, <1>5 DEF RunRow
  <2> DEFINE r == Begun(run[l], n, beating')
  <2>2. /\ r \in RunRow /\ r.at \in {"gate", "returned"} /\ r.who = n
        /\ r.token = None /\ r.got = {}
    BY <1>1, <2>1, Beginning
  <2>3. run' = [run EXCEPT ![l] = r]
    BY <1>5
  <2> HIDE DEF r
  <2> QED BY <1>2, <1>5, <2>1, <2>2, <2>3 DEF TypeOK
<1>6. \/ run[l].todo = {} /\ wake' = Finished(w) /\ run' = [run EXCEPT ![l] = NoRun]
      \/ \E n \in run[l].todo : wake' = w /\ run' = [run EXCEPT ![l] = Begun(run[l], n, beating')]
  BY <1>1 DEF Continue, TypeOK, w
<1> QED BY <1>1, <1>3, <1>4, <1>5, <1>6

LEMMA TypeCrash == TypeOK /\ CrashAndRestart => TypeOK'
<1> SUFFICES ASSUME TypeOK, CrashAndRestart PROVE TypeOK'
  OBVIOUS
<1>1. event' \in [Events -> EventRow]
  BY Rows DEF CrashAndRestart, TypeOK
<1>2. NoRun \in RunRow /\ IdleWake \in WakeRow
  BY HeartbeatAssumption DEF NoRun, RunRow, IdleWake, WakeRow
<1>3. run' \in [Loops -> RunRow] /\ wake' \in WakeRow
  BY <1>2 DEF CrashAndRestart
<1>4. /\ cause' \in [Events -> SUBSET {"crash", "db", "lostAnswer"}]
      /\ faults' \in 0 .. MaxFaults
  BY Blamed, Faulty DEF CrashAndRestart
<1>5. /\ prod' \in [Events -> {"queue", "wake", "done"}]
      /\ session' \in [Sessions -> {"active", "closed", "stopped", "ended"}]
  BY DEF CrashAndRestart, TypeOK
<1> QED BY <1>1, <1>3, <1>4, <1>5 DEF CrashAndRestart, TypeOK

----------------------------------------------------------------------------
(* Claims.                                                                 *)

USE DEF ClaimInv

\* The rows when neither claim nor loop is concerned.
LEMMA RowsOfSteps ==
    ASSUME TypeOK, EventsPlain, EventSteps, NEW e \in Events
    PROVE  /\ \/ event'[e].state = event[e].state /\ event'[e].token = event[e].token
              \/ event'[e].state = "deleted" /\ event'[e].token = None
           /\ event[e] = NoEvent => event'[e] = NoEvent
           /\ run' = run /\ prod' = prod /\ relayed' = relayed /\ cause' = cause
<1>1. event[e] \in EventRow
  BY DEF TypeOK
<1>2. ASSUME NEW x \in Events, Lapses(x) \/ Expires(x)
      PROVE  /\ event'[e].state = event[e].state /\ event'[e].token = event[e].token
             /\ event[e] = NoEvent => event'[e] = NoEvent
  <2>1. CASE e # x
    BY <1>2, <2>1 DEF Lapses, Expires, TypeOK
  <2>2. CASE e = x
    <3>1. \/ event'[e] = LapsedClaim(event[e])
          \/ event'[e] = OverdueEvent(event[e])
      BY <1>2, <2>2 DEF Lapses, Expires, TypeOK
    <3>2. event[e].state # "absent"
      BY <1>2, <2>2 DEF Lapses, Expires
    <3> QED BY <1>1, <3>1, <3>2 DEF LapsedClaim, OverdueEvent, NoEvent, EventRow
  <2> QED BY <2>1, <2>2
<1>3. ASSUME NEW s \in Sessions, ClearEvents(s)
      PROVE  \/ event'[e] = event[e]
             \/ event[e].state # "absent" /\ event'[e].state = "deleted" /\ event'[e].token = None
  <2>1. \/ event'[e] = event[e] \/ event'[e] = DeletedEvent(event[e])
    BY <1>3 DEF ClearEvents
  <2> QED BY <1>1, <2>1 DEF DeletedEvent, Unclaimed, EventRow
<1>4. ASSUME Cleanup
      PROVE  \/ event'[e] = event[e]
             \/ event[e].state # "absent" /\ event'[e].state = "deleted" /\ event'[e].token = None
  <2>1. event'[e] = PurgedEvent(event[e])
    BY <1>4 DEF Cleanup
  <2> QED BY <1>1, <2>1 DEF PurgedEvent, Unclaimed, EventRow
<1>5. run' = run /\ prod' = prod /\ relayed' = relayed /\ cause' = cause
  BY DEF EventSteps, Lapses, Expires, ClearEvents, Cleanup
<1>6. NoEvent.state = "absent"
  BY DEF NoEvent
<1> QED BY <1>2, <1>3, <1>4, <1>5, <1>6 DEF EventSteps

LEMMA ClaimOutside ==
    ASSUME TypeOK, ClaimInv, Outside
    PROVE  ClaimInv' /\ run' = run /\ event' = event /\ relayed' = relayed /\ cause' = cause
<1>1. /\ run' = run /\ event' = event /\ relayed' = relayed /\ cause' = cause
      /\ \A e \in Events : prod'[e] = "queue" => prod[e] = "queue"
  BY DEF Outside, WakeFor, Subscribe, Unsubscribe, AgentRuns, Interval, CloseSession,
     TerminateWork, TypeOK
<1> QED BY <1>1 DEF RunsClaim, RunsHold, RunsApart, EventsPlain

LEMMA ClaimEvents == TypeOK /\ ClaimInv /\ EventSteps => ClaimInv'
<1> SUFFICES ASSUME TypeOK, ClaimInv, EventSteps PROVE ClaimInv'
  OBVIOUS
<1>1. run' = run
  BY DEF EventSteps, Lapses, Expires, ClearEvents, Cleanup
<1>2. RunsClaim' /\ RunsApart'
  BY <1>1 DEF RunsClaim, RunsApart
<1>3. RunsHold'
  BY <1>1, RowsOfSteps DEF RunsHold
<1>4. EventsPlain'
  BY RowsOfSteps DEF EventsPlain
<1> QED BY <1>2, <1>3, <1>4

LEMMA ClaimQueues ==
    ASSUME TypeOK, ClaimInv, NEW e \in Events, QueueEvent(e)
    PROVE  /\ ClaimInv'
           /\ \A x \in Events : x # e => event'[x] = event[x]
           /\ event[e] = NoEvent /\ relayed[e] = 0
<1>1. /\ event[e] = NoEvent /\ relayed[e] = 0
      /\ \A x \in Events : x # e => event'[x] = event[x] /\ prod'[x] = prod[x]
      /\ event'[e] \in {NoEvent, CreatedEvent} /\ prod'[e] = "wake"
      /\ run' = run /\ relayed' = relayed
  BY DEF QueueEvent, EventsPlain, TypeOK
<1>2. \A l \in Loops : e \notin run[l].got
  BY <1>1 DEF RunsHold, NoEvent
<1>3. event'[e].token = None /\ event'[e].state \in {"absent", "pending"}
  BY <1>1 DEF NoEvent, CreatedEvent
<1>4. RunsClaim' /\ RunsApart'
  BY <1>1 DEF RunsClaim, RunsApart
<1>5. RunsHold'
  BY <1>1, <1>2, <1>3 DEF RunsHold
<1>6. EventsPlain'
  BY <1>1, <1>3 DEF EventsPlain
<1> QED BY <1>1, <1>4, <1>5, <1>6

LEMMA ClaimMoves ==
    ASSUME TypeOK, ClaimInv, NEW l \in Loops, Moves(l) PROVE ClaimInv'
<1>1. /\ run' \in [Loops -> RunRow]
      /\ \A m \in Loops : run'[m].token = run[m].token /\ run'[m].got = run[m].got
      /\ event' = event /\ prod' = prod
  BY Moving
<1>2. RunsClaim'
  BY <1>1, Moving DEF RunsClaim
<1>3. RunsHold' /\ RunsApart'
  BY <1>1 DEF RunsHold, RunsApart
<1>4. \A e \in Events : prod[e] = "queue" => relayed'[e] = 0
  <2>1. SUFFICES ASSUME NEW e \in Events, prod[e] = "queue" PROVE relayed'[e] = 0
    OBVIOUS
  <2>2. e \notin run[l].got /\ relayed[e] = 0
    BY <2>1 DEF RunsHold, EventsPlain, NoEvent
  <2>3. relayed' = relayed \/ relayed' = Relayed(l)
    BY DEF Moves, GatePasses, GateHolds, Route, Fallback, StartAgent, AgentAnswers, Deliver
  <2> QED BY <2>2, <2>3, Relaying DEF Told
<1>5. EventsPlain'
  BY <1>1, <1>4 DEF EventsPlain
<1> QED BY <1>2, <1>3, <1>5

\* A run that has nothing, before and after.
LEMMA ClaimElsewhere ==
    ASSUME TypeOK, ClaimInv, event' = event, prod' = prod, relayed' = relayed,
           \A l \in Loops : \/ run'[l] = run[l]
                            \/ /\ run[l].token = None /\ run'[l].token = None
                               /\ run'[l].got = {}
                               /\ run'[l].at \in NoClaimYet
    PROVE  ClaimInv'
<1>1. \A l \in Loops : run'[l].token = run[l].token /\ run'[l].got = run[l].got
  BY DEF RunsClaim
<1>2. RunsClaim'
  BY DEF RunsClaim
<1>3. RunsHold' /\ RunsApart'
  BY <1>1 DEF RunsHold, RunsApart
<1> QED BY <1>2, <1>3 DEF EventsPlain

LEMMA ClaimClaims ==
    ASSUME TypeOK, ClaimInv, NEW l \in Loops, Claim(l) PROVE ClaimInv'
<1>1. PICK got \in SUBSET {e \in Events : IsClaimable(event[e])} :
              /\ got # {} => FreshToken \in Tokens /\ FreshToken \notin InUse
              /\ \A e \in Events : event'[e] = IF e \in got
                                     THEN ClaimedEvent(event[e], FreshToken) ELSE event[e]
              /\ \A m \in Loops : m # l => run'[m] = run[m]
              /\ run[l].at = "claim" /\ run'[l].at = "route"
              /\ \/ /\ run'[l].got = got
                    /\ run'[l].token = IF got = {} THEN None ELSE FreshToken
                 \/ /\ run'[l].got = run[l].got /\ run'[l].token = run[l].token
  BY Claiming
<1> DEFINE t == FreshToken
<1>2. /\ got # {} => /\ t # None
                     /\ \A e \in Events : event[e].token # t
                     /\ \A m \in Loops : run[m].token # t
  BY <1>1, NoneIsNoToken DEF InUse
<1>3. \A e \in got : /\ event[e].state = "pending" /\ event[e].token = None
                     /\ event'[e].state = "claimed" /\ event'[e].token = t
                     /\ event[e] # NoEvent
  <2>1. SUFFICES ASSUME NEW e \in got
                 PROVE  /\ event[e].state = "pending" /\ event[e].token = None
                        /\ event'[e].state = "claimed" /\ event'[e].token = t
    BY DEF NoEvent
  <2>2. event[e] \in EventRow /\ event'[e] = ClaimedEvent(event[e], t)
    BY <1>1 DEF TypeOK
  <2> HIDE DEF t
  <2> QED BY <2>2 DEF IsClaimable, EventsPlain, ClaimedEvent, EventRow
<1>4. \A e \in Events : e \notin got => event'[e] = event[e]
  BY <1>1
<1>5. run[l].token = None /\ run[l].got = {}
  BY <1>1 DEF RunsClaim
<1>6. \A m \in Loops : run[m].got \cap got = {}
  BY <1>3 DEF RunsHold
<1> HIDE DEF t
<1>7. RunsClaim'
  BY <1>1, <1>2, <1>5 DEF RunsClaim, t
<1>8. RunsHold'
  <2>1. SUFFICES ASSUME NEW m \in Loops, NEW e \in Events
                 PROVE /\ e \in run'[m].got => \/ event'[e].state = "deleted"
                              \/ /\ event'[e].state = "claimed"
                                 /\ event'[e].token = run'[m].token
                       /\ event'[e].token # None /\ event'[e].token = run'[m].token
                          => e \in run'[m].got
    BY DEF RunsHold
  <2>2. CASE m # l
    BY <1>1, <1>2, <1>3, <1>4, <1>6, <2>2 DEF RunsHold
  <2>3. CASE m = l /\ run'[l].got = got
             /\ run'[l].token = IF got = {} THEN None ELSE t
    BY <1>2, <1>3, <1>4, <1>6, <2>3 DEF RunsHold
  <2>4. CASE m = l /\ run'[l].got = {} /\ run'[l].token = None
    BY <2>4
  <2> QED BY <1>1, <1>5, <2>2, <2>3, <2>4 DEF t
<1>9. RunsApart'
  BY <1>1, <1>2, <1>5, <1>6 DEF RunsApart, t
<1>10. EventsPlain'
  <2>1. prod' = prod /\ relayed' = relayed
    BY DEF Claim
  <2> QED BY <1>1, <1>2, <1>3, <1>4, <2>1 DEF EventsPlain
<1> QED BY <1>7, <1>8, <1>9, <1>10

\* The rows of a run that settles: those with its token and no others.
LEMMA Settling ==
    ASSUME TypeOK, ClaimInv, NEW l \in Loops, Release(l) \/ Finalize(l) \/ SettleFails(l),
           NEW e \in Events
    PROVE  /\ event[e].token # run[l].token => event'[e] = event[e]
           /\ event[e].token = run[l].token =>
                 \/ event'[e].token = None
                    /\ event'[e].state = IF run[l].at = "release" THEN "pending" ELSE "processed"
                 \/ SettleFails(l) /\ event'[e] = event[e]
           /\ run[l].token # None
           /\ event[e] = NoEvent => event'[e] = NoEvent
           /\ prod' = prod /\ relayed' = relayed
<1>1. event[e] \in EventRow
  BY DEF TypeOK
<1>2. run[l].token # None
  BY DEF Release, Finalize, SettleFails, RunsClaim
<1>3. CASE SettleFails(l)
  BY <1>2, <1>3 DEF SettleFails
<1>4. CASE Release(l)
  <2>1. event'[e] = ReleasedEvent(event[e], run[l].token) /\ run[l].at = "release"
    BY <1>4 DEF Release
  <2>2. event[e].token = run[l].token => event[e].state = "claimed"
    BY <1>2 DEF EventsPlain
  <2>3. event[e] = NoEvent => event[e].token # run[l].token
    BY <1>2 DEF NoEvent
  <2> QED BY <1>1, <1>2, <1>4, <2>1, <2>2, <2>3
          DEF ReleasedEvent, HasToken, Unclaimed, EventRow, Release
<1>5. CASE Finalize(l)
  <2>1. event'[e] = FinalizedEvent(event[e], run[l].token) /\ run[l].at = "finalize"
    BY <1>5 DEF Finalize
  <2>2. event[e].token = run[l].token => event[e].state = "claimed"
    BY <1>2 DEF EventsPlain
  <2>3. event[e] = NoEvent => event[e].token # run[l].token
    BY <1>2 DEF NoEvent
  <2> QED BY <1>1, <1>2, <1>5, <2>1, <2>2, <2>3
          DEF FinalizedEvent, HasToken, Unclaimed, EventRow, Finalize
<1> QED BY <1>3, <1>4, <1>5

LEMMA ClaimSettles ==
    ASSUME TypeOK, ClaimInv, NEW l \in Loops, Release(l) \/ Finalize(l) \/ SettleFails(l)
    PROVE  ClaimInv'
<1>1. /\ \A m \in Loops : m # l => run'[m] = run[m]
      /\ run'[l].token = None /\ run'[l].got = {} /\ run'[l].at = "returned"
  BY ClaimGone DEF Release, Finalize, SettleFails
<1>2. RunsClaim' /\ RunsApart'
  BY <1>1 DEF RunsClaim, RunsApart
<1>3. RunsHold'
  <2>1. SUFFICES ASSUME NEW m \in Loops, m # l, NEW e \in Events
                 PROVE /\ e \in run[m].got => \/ event'[e].state = "deleted"
                              \/ /\ event'[e].state = "claimed"
                                 /\ event'[e].token = run[m].token
                       /\ event'[e].token # None /\ event'[e].token = run[m].token
                          => e \in run[m].got
    BY <1>1 DEF RunsHold
  <2>2. run[l].token # run[m].token
    BY <2>1, Settling DEF RunsApart
  <2>3. e \in run[m].got => event[e].token # run[l].token
    BY <2>1, <2>2, Settling DEF RunsHold, EventsPlain
  <2> QED BY <2>1, <2>2, <2>3, Settling DEF RunsHold
<1>4. EventsPlain'
  BY Settling DEF EventsPlain
<1> QED BY <1>2, <1>3, <1>4

LEMMA ClaimCrash == TypeOK /\ ClaimInv /\ CrashAndRestart => ClaimInv'
<1> SUFFICES ASSUME TypeOK, ClaimInv, CrashAndRestart PROVE ClaimInv'
  OBVIOUS
<1>1. \A l \in Loops : run'[l] = NoRun
  BY DEF CrashAndRestart
<1>2. \A e \in Events : /\ \/ event'[e] = event[e]
                           \/ /\ event'[e].state = "deleted" /\ event'[e].token = None
                              /\ event[e].state # "absent"
                        /\ prod'[e] = "queue" => prod[e] = "queue"
                        /\ relayed'[e] = relayed[e]
  <2>1. \A e \in Events : event[e] \in EventRow
    BY DEF TypeOK
  <2>2. \A e \in Events : event'[e] = PurgedEvent(event[e]) /\ relayed' = relayed
                          /\ (prod'[e] = "queue" => prod[e] = "queue")
    BY DEF CrashAndRestart, TypeOK
  <2> QED BY <2>1, <2>2 DEF PurgedEvent, Unclaimed, EventRow
<1>3. RunsClaim' /\ RunsApart' /\ RunsHold'
  BY <1>1 DEF RunsClaim, RunsApart, RunsHold, NoRun
<1>4. EventsPlain'
  <2>1. NoEvent.state = "absent"
    BY DEF NoEvent
  <2>2. SUFFICES ASSUME NEW e \in Events
                 PROVE  /\ event'[e].state = "claimed" <=> event'[e].token # None
                        /\ prod'[e] = "queue" => event'[e] = NoEvent /\ relayed'[e] = 0
    BY DEF EventsPlain
  <2>3. CASE event'[e] = event[e]
    BY <1>2, <2>3 DEF EventsPlain
  <2>4. CASE /\ event'[e].state = "deleted" /\ event'[e].token = None
             /\ event[e].state # "absent"
    BY <1>2, <2>1, <2>4 DEF EventsPlain
  <2> QED BY <1>2, <2>3, <2>4
<1> QED BY <1>3, <1>4

LEMMA PlacedKept == TypeOK /\ Placed /\ ClaimInv /\ Next => Placed'
<1> SUFFICES ASSUME TypeOK, Placed, ClaimInv, Next PROVE Placed'
  OBVIOUS
<1> USE DEF Placed, Active
<1>1. CASE run' = run
  BY <1>1
<1>2. CASE TimerFires
  BY <1>2, Starting
<1>3. ASSUME NEW l \in Loops, RunStep(l) \/ AgentAnswers(l) PROVE Placed'
  <2>1. CASE Continue(l)
    BY <2>1, Continuing
  <2>2. CASE Moves(l)
    BY <2>2, Moving
  <2>3. CASE Claim(l)
    BY <2>3, Claiming
  <2>4. CASE Release(l) \/ Finalize(l) \/ SettleFails(l)
    BY <2>4, ClaimGone DEF Release, Finalize, SettleFails
  <2> QED BY <1>3, <2>1, <2>2, <2>3, <2>4 DEF RunStep, Moves
<1>4. CASE CrashAndRestart
  BY <1>4 DEF CrashAndRestart, NoRun
<1>5. ASSUME NEW e \in Events, QueueEvent(e) \/ WakeFor(e) \/ Lapses(e) \/ Expires(e)
      PROVE  run' = run
  BY <1>5 DEF QueueEvent, WakeFor, Lapses, Expires
<1>6. ASSUME NEW s \in Sessions, \/ Subscribe(s) \/ Unsubscribe(s) \/ AgentRuns(s)
                                 \/ Interval(s) \/ CloseSession(s) \/ TerminateWork(s)
                                 \/ ClearEvents(s)
      PROVE  run' = run
  BY <1>6 DEF Subscribe, Unsubscribe, AgentRuns, Interval, CloseSession, TerminateWork,
     ClearEvents
<1>7. Cleanup => run' = run
  BY DEF Cleanup
<1> HIDE DEF Placed, Active
<1> QED BY <1>1, <1>2, <1>3, <1>4, <1>5, <1>6, <1>7 DEF Next

----------------------------------------------------------------------------
(* Handing on.                                                             *)

\* What a run hands on, it will finalize, or the failure is written down.
LEMMA Handing ==
    ASSUME TypeOK, NEW l \in Loops, Moves(l)
    PROVE  /\ \A e \in Events : cause[e] \subseteq cause'[e]
           /\ \/ relayed' = relayed
              \/ /\ relayed' = Relayed(l)
                 /\ \/ run[l].token = None
                    \/ run'[l].at = "finalize"
                    \/ \A e \in Told(l) : "lostAnswer" \in cause'[e]
<1>1. /\ Blame(Told(l), "lostAnswer") \in [Events -> SUBSET {"crash", "db", "lostAnswer"}]
      /\ \A e \in Events : cause[e] \subseteq Blame(Told(l), "lostAnswer")[e]
      /\ \A e \in Told(l) : "lostAnswer" \in Blame(Told(l), "lostAnswer")[e]
  BY Blamed DEF Told, TypeOK, RunRow
<1>2. CASE Fallback(l)
  <2>1. /\ "queued" \in Outcomes \ Releasing
    BY DEF Outcomes, Releasing, Finalizing, Unclaiming
  <2>2. EndsAs(l, "queued") /\ run[l].token # None => run'[l].at = "finalize"
    BY <2>1, Ending
  <2> QED BY <1>1, <1>2, <2>2 DEF Fallback
<1>3. CASE Deliver(l)
  <2>1. /\ "delivered" \in Outcomes \ Releasing
    BY DEF Outcomes, Releasing, Finalizing, Unclaiming
  <2>2. EndsAs(l, "delivered") /\ run[l].token # None => run'[l].at = "finalize"
    BY <2>1, Ending
  <2> QED BY <1>1, <1>3, <2>2 DEF Deliver
<1>4. CASE \/ GatePasses(l) \/ GateHolds(l) \/ Route(l) \/ StartAgent(l) \/ AgentAnswers(l)
  BY <1>4 DEF GatePasses, GateHolds, Route, StartAgent, AgentAnswers
<1> QED BY <1>2, <1>3, <1>4 DEF Moves

LEMMA HandedMoves ==
    ASSUME TypeOK, ClaimInv, HandedOn, RelayedOnce, NEW l \in Loops, Moves(l)
    PROVE  HandedOn' /\ RelayedOnce'
<1> SUFFICES ASSUME NEW e \in Events, "lostAnswer" \notin cause'[e], relayed'[e] > 0
             PROVE  /\ event'[e].state # "pending"
                    /\ \A m \in Loops : e \in run'[m].got => run'[m].at = "finalize"
                    /\ relayed'[e] <= 1
  <2>1. relayed' \in [Events -> Nat]
    BY Handing, Relaying DEF TypeOK
  <2> QED BY <2>1 DEF HandedOn, RelayedOnce
<1>1. "lostAnswer" \notin cause[e]
  BY Handing
<1>2. /\ run[l].at # "finalize" /\ event' = event
      /\ run'[l].got = run[l].got
      /\ \A m \in Loops : m # l => run'[m] = run[m]
  BY Moving
<1>3. CASE relayed'[e] = relayed[e]
  <2>1. relayed[e] > 0 /\ relayed[e] <= 1
    BY <1>1, <1>3 DEF RelayedOnce, TypeOK
  <2>2. e \notin run[l].got
    BY <1>1, <1>2, <2>1 DEF HandedOn
  <2> QED BY <1>1, <1>2, <1>3, <2>1, <2>2 DEF HandedOn
<1>4. CASE relayed'[e] # relayed[e]
  <2>1. /\ e \in Told(l) /\ relayed'[e] = relayed[e] + 1
        /\ run[l].token # None => run'[l].at = "finalize"
    BY <1>4, Handing, Relaying
  <2>2. e \in run[l].got
    BY <2>1 DEF Told
  <2>3. relayed[e] = 0
    BY <1>1, <1>2, <2>2 DEF HandedOn, TypeOK
  <2>4. run'[l].at = "finalize"
    BY <2>1, <2>2 DEF RunsClaim
  <2>5. \A m \in Loops : m # l => e \notin run[m].got
    BY <2>2 DEF RunsApart
  <2>6. event[e].state # "pending"
    BY <2>2 DEF RunsHold
  <2> QED BY <1>2, <2>1, <2>3, <2>4, <2>5, <2>6
<1> QED BY <1>3, <1>4

LEMMA HandedOthers ==
    ASSUME TypeOK, Placed, ClaimInv, HandedOn, RelayedOnce, Next,
           \A l \in Loops : ~Moves(l)
    PROVE  HandedOn' /\ RelayedOnce'
<1>1. ASSUME relayed' = relayed,
             \A e \in Events : cause[e] \subseteq cause'[e],
             \A e \in Events : relayed[e] > 0 /\ "lostAnswer" \notin cause[e] =>
                /\ event'[e].state # "pending"
                /\ \A l \in Loops : e \in run'[l].got => run'[l].at = "finalize"
      PROVE  HandedOn' /\ RelayedOnce'
  BY <1>1 DEF HandedOn, RelayedOnce
<1>2. ASSUME NEW e \in Events, QueueEvent(e) PROVE HandedOn' /\ RelayedOnce'
  <2>1. run' = run /\ relayed' = relayed /\ cause' = cause
    BY <1>2 DEF QueueEvent
  <2>2. ~(relayed[e] > 0)
    BY <1>2, ClaimQueues
  <2> QED BY <1>1, <1>2, <2>1, <2>2, ClaimQueues DEF HandedOn
<1>3. CASE Outside
  BY <1>1, <1>3, ClaimOutside DEF HandedOn
<1>4. CASE EventSteps
  BY <1>1, <1>4, RowsOfSteps DEF HandedOn, EventSteps, Lapses, Expires, ClearEvents, Cleanup
<1>5. CASE TimerFires
  <2>1. event' = event /\ relayed' = relayed /\ cause' = cause
    BY <1>5 DEF TimerFires
  <2> QED BY <1>1, <1>5, <2>1, Starting DEF HandedOn
<1>6. ASSUME NEW l \in Loops, Continue(l) PROVE HandedOn' /\ RelayedOnce'
  <2>1. event' = event /\ relayed' = relayed /\ cause' = cause
    BY <1>6 DEF Continue
  <2> QED BY <1>1, <1>6, <2>1, Continuing DEF HandedOn
<1>7. ASSUME NEW l \in Loops, Claim(l) PROVE HandedOn' /\ RelayedOnce'
  <2>1. PICK got \in SUBSET {e \in Events : IsClaimable(event[e])} :
              /\ \A e \in Events : event'[e] = IF e \in got
                                     THEN ClaimedEvent(event[e], FreshToken) ELSE event[e]
              /\ \A m \in Loops : m # l => run'[m] = run[m]
              /\ run[l].at = "claim"
              /\ run'[l].got = got \/ run'[l].got = run[l].got
              /\ cause' = cause \/ cause' = Blame(got, "db")
    BY <1>7, Claiming
  <2>2. \A e \in got : event[e].state = "pending"
    BY DEF IsClaimable
  <2>3. run[l].got = {}
    BY <2>1 DEF RunsClaim
  <2>4. \A e \in Events : cause[e] \subseteq cause'[e]
    BY <2>1, Blamed
  <2>5. relayed' = relayed
    BY <1>7 DEF Claim
  <2>6. \A e \in Events : relayed[e] > 0 /\ "lostAnswer" \notin cause[e] =>
            e \notin got /\ event'[e] = event[e]
    BY <2>1, <2>2 DEF HandedOn
  <2> QED BY <1>1, <2>1, <2>3, <2>4, <2>5, <2>6 DEF HandedOn
<1>8. ASSUME NEW l \in Loops, Release(l) \/ Finalize(l) \/ SettleFails(l)
      PROVE  HandedOn' /\ RelayedOnce'
  <2>1. /\ \A m \in Loops : m # l => run'[m] = run[m]
        /\ run'[l].got = {}
    BY <1>8, ClaimGone DEF Release, Finalize, SettleFails
  <2>2. relayed' = relayed /\ \A e \in Events : cause[e] \subseteq cause'[e]
    BY <1>8, Blamed DEF Release, Finalize, SettleFails
  <2>3. ASSUME NEW e \in Events, relayed[e] > 0, "lostAnswer" \notin cause[e]
        PROVE  event'[e].state # "pending"
    <3>1. event[e].token = run[l].token => run[l].at = "finalize"
      BY <1>8, <2>3, Settling DEF HandedOn, RunsHold
    <3> QED BY <1>8, <2>3, <3>1, Settling DEF HandedOn
  <2> QED BY <1>1, <2>1, <2>2, <2>3 DEF HandedOn
<1>9. CASE CrashAndRestart
  <2>1. relayed' = relayed /\ \A e \in Events : cause[e] \subseteq cause'[e]
    BY <1>9, Blamed DEF CrashAndRestart
  <2>2. \A l \in Loops : run'[l].got = {}
    BY <1>9 DEF CrashAndRestart, NoRun
  <2>3. \A e \in Events : event'[e].state = "pending" => event[e].state = "pending"
    <3>1. \A e \in Events : event[e] \in EventRow /\ event'[e] = PurgedEvent(event[e])
      BY <1>9 DEF CrashAndRestart, TypeOK
    <3> QED BY <3>1 DEF PurgedEvent, Unclaimed, EventRow
  <2> QED BY <1>1, <2>1, <2>2, <2>3 DEF HandedOn
<1> QED BY <1>2, <1>3, <1>4, <1>5, <1>6, <1>7, <1>8, <1>9
        DEF Next, RunStep, Moves, Outside, EventSteps

----------------------------------------------------------------------------
(* Every claim has its run.                                                *)

\* It is enough that a claim which is left has its run left, or is blamed.
LEMMA HeldStill ==
    ASSUME ClaimsHeld,
           \A e \in Events : cause[e] \subseteq cause'[e],
           \A e \in Events : event'[e].state = "claimed" =>
              \/ cause'[e] # {}
              \/ /\ event[e].state = "claimed" /\ event'[e].token = event[e].token
                 /\ \A l \in Loops : e \in run[l].got /\ run[l].token = event[e].token =>
                       run'[l].got = run[l].got /\ run'[l].token = run[l].token
              \/ \E l \in Loops : e \in run'[l].got /\ run'[l].token = event'[e].token
    PROVE  ClaimsHeld'
<1> SUFFICES ASSUME NEW e \in Events, event'[e].state = "claimed", cause'[e] = {}
             PROVE  \E l \in Loops : e \in run'[l].got /\ run'[l].token = event'[e].token
  BY DEF ClaimsHeld
<1>1. CASE /\ event[e].state = "claimed" /\ event'[e].token = event[e].token
           /\ \A l \in Loops : e \in run[l].got /\ run[l].token = event[e].token =>
                 run'[l].got = run[l].got /\ run'[l].token = run[l].token
  <2>1. cause[e] = {}
    OBVIOUS
  <2>2. PICK l \in Loops : e \in run[l].got /\ run[l].token = event[e].token
    BY <1>1, <2>1 DEF ClaimsHeld
  <2> QED BY <1>1, <2>2
<1> QED BY <1>1

LEMMA HeldKept == TypeOK /\ Placed /\ ClaimInv /\ ClaimsHeld /\ Next => ClaimsHeld'
<1> SUFFICES ASSUME TypeOK, Placed, ClaimInv, ClaimsHeld, Next PROVE ClaimsHeld'
  OBVIOUS
<1>1. ASSUME NEW e \in Events, QueueEvent(e) PROVE ClaimsHeld'
  <2>1. run' = run /\ cause' = cause
    BY <1>1 DEF QueueEvent
  <2>2. event'[e].state # "claimed"
    <3>1. event'[e] \in {NoEvent, CreatedEvent}
      BY <1>1, ClaimQueues DEF QueueEvent, TypeOK
    <3> QED BY <3>1 DEF CreatedEvent, NoEvent
  <2> QED BY <1>1, <2>1, <2>2, ClaimQueues DEF ClaimsHeld
<1>2. CASE Outside
  BY <1>2, ClaimOutside DEF ClaimsHeld
<1>3. CASE EventSteps
  <2>1. /\ run' = run /\ cause' = cause
    BY <1>3 DEF EventSteps, Lapses, Expires, ClearEvents, Cleanup
  <2>2. \A e \in Events : event'[e].state = "claimed" =>
           event[e].state = "claimed" /\ event'[e].token = event[e].token
    BY <1>3, RowsOfSteps
  <2> QED BY <2>1, <2>2 DEF ClaimsHeld
<1>4. CASE TimerFires
  <2>1. event' = event /\ cause' = cause
    BY <1>4 DEF TimerFires
  <2>2. \A l \in Loops : run[l].got # {} => run'[l] = run[l]
    BY <1>4, Starting DEF RunsClaim
  <2> QED BY <2>1, <2>2 DEF ClaimsHeld
<1>5. ASSUME NEW l \in Loops, Continue(l) PROVE ClaimsHeld'
  <2>1. event' = event /\ cause' = cause
    BY <1>5 DEF Continue
  <2>2. \A m \in Loops : run[m].got # {} => run'[m] = run[m]
    BY <1>5, Continuing DEF RunsClaim
  <2> QED BY <2>1, <2>2 DEF ClaimsHeld
<1>6. ASSUME NEW l \in Loops, Moves(l) PROVE ClaimsHeld'
  <2>1. /\ event' = event /\ \A e \in Events : cause[e] \subseteq cause'[e]
        /\ \A m \in Loops : run'[m].got = run[m].got /\ run'[m].token = run[m].token
    BY <1>6, Moving, Handing
  <2> QED BY <2>1, HeldStill
<1>7. ASSUME NEW l \in Loops, Claim(l) PROVE ClaimsHeld'
  <2>1. PICK got \in SUBSET {e \in Events : IsClaimable(event[e])} :
              /\ \A e \in Events : event'[e] = IF e \in got
                                     THEN ClaimedEvent(event[e], FreshToken) ELSE event[e]
              /\ \A m \in Loops : m # l => run'[m] = run[m]
              /\ run[l].at = "claim"
              /\ \/ /\ run'[l].got = got
                    /\ run'[l].token = IF got = {} THEN None ELSE FreshToken
                    /\ cause' = cause
                 \/ /\ run'[l].got = run[l].got /\ run'[l].token = run[l].token
                    /\ cause' = Blame(got, "db")
    BY <1>7, Claiming
  <2>2. run[l].got = {}
    BY <2>1 DEF RunsClaim
  <2>3. \A e \in Events : cause[e] \subseteq cause'[e]
    BY <2>1, Blamed
  <2>4. ASSUME NEW e \in got, cause'[e] = {}
        PROVE  e \in run'[l].got /\ run'[l].token = event'[e].token
    <3>1. event[e] \in EventRow /\ event'[e] = ClaimedEvent(event[e], FreshToken)
      BY <2>1 DEF TypeOK
    <3>2. event'[e].token = FreshToken
      BY <3>1 DEF ClaimedEvent, EventRow
    <3>3. cause' # Blame(got, "db")
      BY <2>4, Blamed
    <3> QED BY <2>1, <3>2, <3>3
  <2>5. ASSUME NEW e \in Events, e \notin got
        PROVE  /\ event'[e] = event[e]
               /\ \A m \in Loops : e \in run[m].got =>
                     run'[m].got = run[m].got /\ run'[m].token = run[m].token
    BY <2>1, <2>2, <2>5
  <2> HIDE DEF ClaimInv
  <2> QED BY <2>3, <2>4, <2>5, HeldStill
<1>8. ASSUME NEW l \in Loops, Release(l) \/ Finalize(l) PROVE ClaimsHeld'
  <2>1. \A m \in Loops : m # l => run'[m] = run[m]
    BY <1>8, ClaimGone DEF Release, Finalize
  <2>2. cause' = cause
    BY <1>8 DEF Release, Finalize
  <2>3. ASSUME NEW e \in Events, event'[e].state = "claimed"
        PROVE  event'[e] = event[e] /\ event[e].token # run[l].token
    <3>1. event[e].token = run[l].token => event'[e].state # "claimed"
      <4>1. CASE Release(l)
        <5>1. event'[e] = ReleasedEvent(event[e], run[l].token) /\ event[e] \in EventRow
          BY <4>1 DEF Release, TypeOK
        <5>2. event[e].token = run[l].token => HasToken(event[e], run[l].token)
          BY <1>8, Settling DEF HasToken, EventsPlain
        <5> QED BY <5>1, <5>2 DEF ReleasedEvent, Unclaimed, EventRow
      <4>2. CASE Finalize(l)
        <5>1. event'[e] = FinalizedEvent(event[e], run[l].token) /\ event[e] \in EventRow
          BY <4>2 DEF Finalize, TypeOK
        <5>2. event[e].token = run[l].token => HasToken(event[e], run[l].token)
          BY <1>8, Settling DEF HasToken, EventsPlain
        <5> QED BY <5>1, <5>2 DEF FinalizedEvent, Unclaimed, EventRow
      <4> QED BY <1>8, <4>1, <4>2
    <3> QED BY <1>8, <2>3, <3>1, Settling
  <2> HIDE DEF ClaimInv
  <2> QED BY <2>1, <2>2, <2>3, HeldStill
<1>9. ASSUME NEW l \in Loops, SettleFails(l) PROVE ClaimsHeld'
  <2>1. /\ \A m \in Loops : m # l => run'[m] = run[m]
        /\ event' = event /\ cause' = Blame(run[l].got, "db")
    BY <1>9, ClaimGone DEF SettleFails
  <2>2. \A e \in Events : /\ cause[e] \subseteq cause'[e]
                          /\ e \in run[l].got => cause'[e] # {}
    BY <2>1, Blamed
  <2> HIDE DEF ClaimInv
  <2> QED BY <2>1, <2>2, HeldStill
<1>10. CASE CrashAndRestart
  <2> DEFINE G == UNION {run[l].got : l \in Loops}
  <2>1. cause' = Blame(G, "crash")
    BY <1>10 DEF CrashAndRestart
  <2>2. \A e \in Events, l \in Loops : e \in run[l].got => e \in G
    OBVIOUS
  <2> HIDE DEF G
  <2>4. \A e \in Events : /\ cause[e] \subseteq cause'[e]
                          /\ e \in G => cause'[e] # {}
    BY <2>1, Blamed
  <2>3. \A e \in Events : event'[e].state = "claimed" => event[e].state = "claimed"
    <3>1. \A e \in Events : event[e] \in EventRow /\ event'[e] = PurgedEvent(event[e])
      BY <1>10 DEF CrashAndRestart, TypeOK
    <3> QED BY <3>1 DEF PurgedEvent, Unclaimed, EventRow
  <2> QED BY <2>2, <2>3, <2>4 DEF ClaimsHeld
<1> QED BY <1>1, <1>2, <1>3, <1>4, <1>5, <1>6, <1>7, <1>8, <1>9, <1>10
        DEF Next, RunStep, Moves, Outside, EventSteps

----------------------------------------------------------------------------
(* The wake-up machinery.                                                  *)

LoopInv == FlagHeld /\ WakeKept /\ OneLoop

\* ensureHeartbeatRunning takes the flag from a loop, and says so.
LEMMA EnsureKeepsLoops ==
    ASSUME TypeOK, LoopInv, NEW s \in Sessions, EnsureRunning(s),
           \A l \in Loops : Active(l)' = Active(l)
    PROVE  LoopInv'
<1>1. CASE beating # {}
  <2>1. wake' = wake /\ swapped' = swapped
    BY <1>1 DEF EnsureRunning
  <2> QED BY <1>1, <2>1 DEF LoopInv, FlagHeld, WakeKept, OneLoop
<1>2. CASE beating = {}
  <2>1. /\ swapped' = (swapped \/ \E l \in Loops : Active(l))
        /\ wake'.timer = (wake.pending # {}) /\ wake'.pending = wake.pending
    BY <1>2 DEF EnsureRunning, Registered, IdleWake
  <2> QED BY <2>1 DEF LoopInv, FlagHeld, WakeKept, OneLoop
<1> QED BY <1>1, <1>2

\* A step that asks for a wake-up, or does nothing to the machinery.
LEMMA WakingKeepsLoops ==
    ASSUME TypeOK, LoopInv, swapped' = swapped,
           \/ wake' = wake /\ (beating' \subseteq beating)
           \/ \E s \in Sessions : wake' = Requested(wake, s),
           \A l \in Loops : Active(l)' = Active(l)
    PROVE  LoopInv'
<1>1. CASE wake' = wake /\ (beating' \subseteq beating)
  BY <1>1 DEF LoopInv, FlagHeld, WakeKept, OneLoop
<1>2. ASSUME NEW s \in Sessions, wake' = Requested(wake, s) PROVE LoopInv'
  <2>1. wake'.timer /\ wake'.busy = wake.busy
    BY <1>2 DEF Requested, TypeOK, WakeRow
  <2> QED BY <2>1 DEF LoopInv, FlagHeld, WakeKept, OneLoop
<1> QED BY <1>1, <1>2

LEMMA LoopsKept == TypeOK /\ Placed /\ ClaimInv /\ LoopInv /\ Next => LoopInv'
<1> SUFFICES ASSUME TypeOK, Placed, ClaimInv, LoopInv, Next PROVE LoopInv'
  OBVIOUS
<1>1. ASSUME NEW s \in Sessions, Wakes(s), swapped' = swapped, beating' = beating, run' = run
      PROVE  LoopInv'
  BY <1>1, WakingKeepsLoops DEF Wakes, Active
<1>2. ASSUME wake' = wake, swapped' = swapped, beating' \subseteq beating, run' = run
      PROVE  LoopInv'
  BY <1>2, WakingKeepsLoops DEF Active
<1>3. ASSUME NEW e \in Events, WakeFor(e) PROVE LoopInv'
  BY <1>1, <1>3, HeartbeatAssumption DEF WakeFor
<1>4. ASSUME NEW e \in Events, QueueEvent(e) \/ Lapses(e) \/ Expires(e) PROVE LoopInv'
  BY <1>2, <1>4 DEF QueueEvent, Lapses, Expires
<1>5. ASSUME NEW s \in Sessions, Subscribe(s) PROVE LoopInv'
  BY <1>1, <1>5 DEF Subscribe
<1>6. ASSUME NEW s \in Sessions, \/ Unsubscribe(s) \/ CloseSession(s) \/ TerminateWork(s)
                                 \/ ClearEvents(s)
      PROVE  LoopInv'
  BY <1>2, <1>6 DEF Unsubscribe, CloseSession, TerminateWork, ClearEvents
<1>7. ASSUME NEW s \in Sessions, AgentRuns(s) PROVE LoopInv'
  BY <1>7, EnsureKeepsLoops DEF AgentRuns, Active
<1>8. ASSUME NEW s \in Sessions, Interval(s) PROVE LoopInv'
  BY <1>8, WakingKeepsLoops DEF Interval, Active
<1>9. CASE Cleanup
  BY <1>2, <1>9 DEF Cleanup
<1>10. CASE TimerFires
  <2>1. swapped' = swapped /\ beating' = beating
    BY <1>10 DEF TimerFires
  <2>2. CASE \E m \in Loops : run'[m] # run[m]
    <3>1. PICK l \in Loops : run'[l] # run[l]
      BY <2>2
    <3>2. /\ ~wake.busy /\ wake' = Taken(wake) /\ Active(l)'
          /\ \A m \in Loops : m # l => run'[m] = run[m]
      BY <1>10, <3>1, Starting DEF MayRun, Active
    <3>3. wake'.pending = {} /\ wake'.busy
      BY <3>2 DEF Taken, TypeOK, WakeRow
    <3>4. swapped \/ \A m \in Loops : ~Active(m)
      BY <3>2 DEF LoopInv, FlagHeld
    <3> QED BY <2>1, <3>2, <3>3, <3>4 DEF LoopInv, FlagHeld, WakeKept, OneLoop, Active
  <2>3. CASE \A m \in Loops : run'[m] = run[m]
    <3>1. \/ beating = {} /\ wake' = [wake EXCEPT !.timer = FALSE]
          \/ wake.pending = {} /\ ~wake.busy /\ wake' = Finished(Taken(wake))
      <4>1. \A l \in Loops, s \in wake.pending : ~Active(l) =>
               Begun([NoRun EXCEPT !.todo = wake.pending], s, beating).at # run[l].at
        <5>1. \A s \in wake.pending :
                 Begun([NoRun EXCEPT !.todo = wake.pending], s, beating).at # "idle"
          BY Beginning DEF NoRun, RunRow, TypeOK, WakeRow
        <5> QED BY <5>1 DEF Active
      <4> QED BY <1>10, <2>3, <4>1 DEF TimerFires, MayRun, TypeOK
    <3>2. wake'.busy = wake.busy /\ (wake'.pending = {} \/ beating = {})
      BY <3>1 DEF Finished, Taken, TypeOK, WakeRow
    <3> QED BY <2>1, <2>3, <3>2 DEF LoopInv, FlagHeld, WakeKept, OneLoop, Active
  <2> QED BY <2>2, <2>3
<1>11. ASSUME NEW l \in Loops, Continue(l) PROVE LoopInv'
  <2>1. swapped' = swapped /\ (beating' \subseteq beating)
    BY <1>11 DEF Continue
  <2>2. /\ \A m \in Loops : m # l => run'[m] = run[m]
        /\ Active(l)
        /\ \/ Active(l)' /\ wake'.busy = wake.busy
           \/ ~Active(l)' /\ (wake'.pending # {} => wake'.timer)
    BY <1>11, Continuing DEF Active
  <2>3. CASE Active(l)' /\ wake'.busy = wake.busy
    <3>1. \A m \in Loops : Active(m)' = Active(m)
      BY <2>2, <2>3 DEF Active
    <3> QED BY <2>1, <2>3, <3>1 DEF LoopInv, FlagHeld, WakeKept, OneLoop
  <2>4. CASE ~Active(l)' /\ (wake'.pending # {} => wake'.timer)
    <3>1. \A m \in Loops : Active(m)' => Active(m) /\ m # l
      BY <2>2, <2>4 DEF Active
    <3> QED BY <2>1, <2>2, <2>4, <3>1 DEF LoopInv, FlagHeld, WakeKept, OneLoop
  <2> QED BY <2>2, <2>3, <2>4
<1>12. ASSUME NEW l \in Loops, Moves(l) PROVE LoopInv'
  <2>1. /\ \A m \in Loops : Active(m)' = Active(m)
        /\ run[l].who \in Sessions
    BY <1>12, Moving DEF Active, Placed
  <2>2. CASE StartAgent(l)
    BY <2>1, <2>2, EnsureKeepsLoops DEF StartAgent
  <2>3. CASE ~StartAgent(l)
    <3>1. wake' = wake /\ swapped' = swapped /\ beating' = beating
      BY <1>12, <2>3 DEF Moves, GatePasses, GateHolds, Route, Fallback, AgentAnswers, Deliver
    <3> QED BY <2>1, <3>1, WakingKeepsLoops
  <2> QED BY <2>2, <2>3
<1>13. ASSUME NEW l \in Loops, Claim(l) \/ Release(l) \/ Finalize(l) \/ SettleFails(l)
       PROVE  LoopInv'
  <2>1. wake' = wake /\ swapped' = swapped /\ beating' = beating
    BY <1>13 DEF Claim, Release, Finalize, SettleFails
  <2>2. CASE Claim(l)
    BY <2>1, <2>2, Claiming, WakingKeepsLoops DEF Active
  <2>3. CASE Release(l) \/ Finalize(l) \/ SettleFails(l)
    <3>1. \A m \in Loops : Active(m)' = Active(m)
      BY <2>3, ClaimGone DEF Active, Release, Finalize, SettleFails
    <3> QED BY <2>1, <3>1, WakingKeepsLoops
  <2> QED BY <1>13, <2>2, <2>3
<1>14. CASE CrashAndRestart
  <2>1. /\ \A l \in Loops : ~Active(l)'
        /\ beating' = {}
    BY <1>14 DEF CrashAndRestart, NoRun, Active
  <2> QED BY <2>1 DEF LoopInv, FlagHeld, WakeKept, OneLoop
<1> QED BY <1>3, <1>4, <1>5, <1>6, <1>7, <1>8, <1>9, <1>10, <1>11, <1>12, <1>13, <1>14
        DEF Next, RunStep, Moves

----------------------------------------------------------------------------
(* The theorems.                                                           *)

LEMMA InitInv == Init => Inv
<1> SUFFICES ASSUME Init PROVE Inv
  OBVIOUS
<1>1. NoEvent \in EventRow /\ NoRun \in RunRow /\ IdleWake \in WakeRow
  BY HeartbeatAssumption DEF NoEvent, EventRow, NoRun, RunRow, IdleWake, WakeRow
<1>2. TypeOK
  <2>1. event \in [Events -> EventRow] /\ run \in [Loops -> RunRow] /\ wake \in WakeRow
    BY <1>1 DEF Init
  <2>2. /\ session \in [Sessions -> {"active", "closed", "stopped", "ended"}]
        /\ prod \in [Events -> {"queue", "wake", "done"}]
    BY DEF Init
  <2>3. relayed \in [Events -> Nat] /\ faults \in 0 .. MaxFaults
    BY HeartbeatAssumption DEF Init
  <2>4. /\ cause \in [Events -> SUBSET {"crash", "db", "lostAnswer"}]
        /\ watched \in SUBSET Sessions /\ beating \in SUBSET Sessions
    BY DEF Init
  <2>5. swapped \in BOOLEAN
    BY DEF Init
  <2> QED BY <2>1, <2>2, <2>3, <2>4, <2>5 DEF TypeOK
<1>3. /\ \A l \in Loops : /\ run[l].at = "idle" /\ run[l].token = None /\ run[l].got = {}
      /\ \A e \in Events : /\ event[e] = NoEvent /\ event[e].state = "absent"
                           /\ event[e].token = None /\ relayed[e] = 0
  BY DEF Init, NoRun, NoEvent
<1>4. Placed /\ ClaimInv /\ HandedOn
  BY <1>3 DEF Placed, Active, RunsClaim, RunsHold, RunsApart, EventsPlain, HandedOn
<1>5. FlagHeld /\ ClaimsHeld /\ RelayedOnce /\ OneLoop
  BY <1>3 DEF FlagHeld, Active, ClaimsHeld, RelayedOnce, OneLoop
<1>6. WakeKept
  BY DEF Init, WakeKept
<1> QED BY <1>2, <1>4, <1>5, <1>6 DEF Inv

LEMMA TypeKept == TypeOK /\ Placed /\ ClaimInv /\ Next => TypeOK'
<1> SUFFICES ASSUME TypeOK, Placed, ClaimInv, Next PROVE TypeOK'
  OBVIOUS
<1>1. CASE TimerFires
  BY <1>1, Starting DEF TimerFires, TypeOK
<1>2. ASSUME NEW l \in Loops, Continue(l) PROVE TypeOK'
  BY <1>2, Continuing DEF Continue, TypeOK
<1> QED BY <1>1, <1>2, TypeOutside, TypeEvents, TypeMoves, TypeQueues, TypeClaims, TypeUnclaims,
           TypeCrash DEF Next, RunStep, Moves, Outside, EventSteps

LEMMA ClaimKept == TypeOK /\ Placed /\ ClaimInv /\ Next => ClaimInv'
<1> SUFFICES ASSUME TypeOK, Placed, ClaimInv, Next PROVE ClaimInv'
  OBVIOUS
<1>1. CASE TimerFires
  <2>1. event' = event /\ prod' = prod /\ relayed' = relayed
    BY <1>1 DEF TimerFires
  <2> QED BY <1>1, <2>1, Starting, ClaimElsewhere DEF RunsClaim
<1>2. ASSUME NEW l \in Loops, Continue(l) PROVE ClaimInv'
  <2>1. event' = event /\ prod' = prod /\ relayed' = relayed
    BY <1>2 DEF Continue
  <2> QED BY <1>2, <2>1, Continuing, ClaimElsewhere DEF RunsClaim
<1> QED BY <1>1, <1>2, ClaimOutside, ClaimEvents, ClaimMoves, ClaimQueues, ClaimClaims,
           ClaimSettles, ClaimCrash DEF Next, RunStep, Moves, Outside, EventSteps

LEMMA StepInv == Inv /\ [Next]_vars => Inv'
<1> SUFFICES ASSUME Inv, [Next]_vars PROVE Inv'
  OBVIOUS
<1>1. CASE Next
  <2>1. HandedOn' /\ RelayedOnce'
    BY <1>1, HandedMoves, HandedOthers DEF Inv
  <2>2. FlagHeld' /\ WakeKept' /\ OneLoop'
    BY <1>1, LoopsKept DEF Inv, LoopInv
  <2> HIDE DEF ClaimInv
  <2> QED BY <1>1, <2>1, <2>2, TypeKept, PlacedKept, ClaimKept, HeldKept DEF Inv
<1>2. CASE UNCHANGED vars
  BY <1>2 DEF vars, Inv, TypeOK, Placed, RunsClaim, RunsHold, RunsApart, EventsPlain,
     HandedOn, FlagHeld, Active, ClaimsHeld, RelayedOnce, WakeKept, OneLoop, Told
<1> QED BY <1>1, <1>2

\* The invariant is one: it holds at the start and every step keeps it.
THEOREM HeartbeatInvariant == Spec => []Inv
<1> QED BY InitInv, StepInv, PTL DEF Spec

\* State of the heartbeat, its events and its wake-ups is what its declarations
\* say (heartbeat.service.ts, heartbeat-wake.ts, system-events.service.ts).
THEOREM HeartbeatTypes == Spec => []TypeOK
<1>1. Inv => TypeOK
  BY DEF Inv
<1> QED BY <1>1, HeartbeatInvariant, PTL

\* However many loops run beside each other, whatever is retried and wherever
\* the process dies, a completion is handed on once (heartbeat.service.ts,
\* routeDelivery and enqueueInternalFallbackRun).
THEOREM EventsRelayedOnce == Spec => []RelayedOnce
<1>1. Inv => RelayedOnce
  BY DEF Inv
<1> QED BY <1>1, HeartbeatInvariant, PTL

\* No early return, error path or outcome of runHeartbeatOnce forgets its claim.
THEOREM EveryClaimIsHeld == Spec => []ClaimsHeld
<1>1. Inv => ClaimsHeld
  BY DEF Inv
<1> QED BY <1>1, HeartbeatInvariant, PTL

\* A pending wake-up has a timer or a loop that will look again, through every
\* start and stop of the services (heartbeat-wake.ts).
THEOREM WakesAreKept == Spec => []WakeKept
<1>1. Inv => WakeKept
  BY DEF Inv
<1> QED BY <1>1, HeartbeatInvariant, PTL

\* Only a handler registered under a loop lets two loops run (heartbeat-wake.ts,
\* the running flag).
THEOREM OneLoopAtATime == Spec => []OneLoop
<1>1. Inv => OneLoop
  BY DEF Inv
<1> QED BY <1>1, HeartbeatInvariant, PTL
=============================================================================
