---------------------------- MODULE SystemEvents ----------------------------
(***************************************************************************)
(* The rows of ava_system_events and the statements of                     *)
(* system-events.service.ts that the heartbeat runs on them, one operator  *)
(* for each.  As in OutboundStore, a statement is atomic and the clock is  *)
(* reduced to the comparisons made with now().                             *)
(***************************************************************************)
EXTENDS Naturals, FiniteSets

CONSTANTS Tokens,   \* claim tokens (random UUIDs)
          None      \* no token

ASSUME NoneIsNoToken == None \notin Tokens

EventRow == [state   : {"absent", "pending", "claimed", "processed", "deleted"},
             token   : Tokens \cup {None},
             lapsed  : BOOLEAN,            \* claim_expires_at < now
             expired : BOOLEAN]            \* expires_at <= now

NoEvent == [state |-> "absent", token |-> None, lapsed |-> FALSE, expired |-> FALSE]

\* create
CreatedEvent == [NoEvent EXCEPT !.state = "pending"]

\* Mutated form of IsClaimable: the state is not looked at, only the claim.
MutIsClaimable(r) == /\ r.state \in {"pending", "claimed"}
                     /\ ~r.expired
                     /\ r.token = None \/ r.lapsed

\* claimPendingEvents, the WHERE clause of the rows it picks.
IsClaimable(r) == /\ r.state = "pending"
                  /\ ~r.expired
                  /\ r.token = None \/ r.lapsed

ClaimedEvent(r, t) ==
    [r EXCEPT !.state = "claimed", !.token = t, !.lapsed = FALSE]

\* releaseClaim and finalizeClaim: every unprocessed row with the token.
Unclaimed(r)     == [r EXCEPT !.token = None, !.lapsed = FALSE]
HasToken(r, t)   == r.state \in {"pending", "claimed"} /\ r.token = t
ReleasedEvent(r, t) ==
    IF HasToken(r, t) THEN [Unclaimed(r) EXCEPT !.state = "pending"] ELSE r

FinalizedEvent(r, t) ==
    IF HasToken(r, t) THEN [Unclaimed(r) EXCEPT !.state = "processed"] ELSE r

\* dropExpiredEvents
PurgedEvent(r) ==
    IF r.state \in {"pending", "claimed"} /\ r.expired
    THEN [Unclaimed(r) EXCEPT !.state = "deleted"] ELSE r

\* deleteSessionEvents, for a row of that session.
DeletedEvent(r) ==
    IF r.state = "absent" THEN r ELSE [Unclaimed(r) EXCEPT !.state = "deleted"]

LapsedClaim(r)  == [r EXCEPT !.lapsed = TRUE]
OverdueEvent(r) == [r EXCEPT !.expired = TRUE]
=============================================================================
