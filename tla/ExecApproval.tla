----------------------------- MODULE ExecApproval -----------------------------
(***************************************************************************)
(* Exec approvals: the exec tool that asks before it runs a command        *)
(* (exec.tool.ts), the request of the gateway (gateway/methods/            *)
(* exec-approval.ts), the pending approvals in memory                      *)
(* (exec-approval-manager.ts) with their record in the database            *)
(* (exec-approval.service.ts, exec-approval-store.ts), the clicks of the   *)
(* approvers, and the commands in the process registry.                    *)
(*                                                                         *)
(* A step is what runs between two awaits.  An approval has the name of    *)
(* the call that asks for it.                                              *)
(***************************************************************************)
EXTENDS ProcessRegistry

CONSTANTS CommandOf,      \* the command of a call
          TraitsOf,       \* what the command of a call may be taken for
          Free,           \* the calls the policy lets run without asking
          AgainOf,        \* the name of the call the approved tool makes again, or None
          FallsBack,      \* those askFallback lets run after a timeout
          Remote,         \* exec.approval.request of the gateway: nothing to run
          Boxable,        \* those with a container, which may ask for host "sandbox"
          Quiet,          \* those whose completionPolicy suppresses the exit event
          Clicks, CallOf, DecisionOf,   \* the decisions of approvers
          Rpc,            \* those made by exec.approval.resolve, not in Slack
          None,
          Faults, MaxFaults,   \* the kinds of fault, and how many in all
          MaxCalls             \* bound: the calls that begin

ASSUME ExecAssumption ==
    /\ \A S \in {Free, FallsBack, Remote, Boxable, Quiet} : S \subseteq Calls
    /\ Free \cap Remote = {}
    /\ TraitsOf \in [Calls -> SUBSET {"plain", "obfuscated", "untrusted"}]
    /\ None \notin Calls
    /\ AgainOf \in [Calls -> Calls \cup {None}]
    /\ \A c \in Calls : AgainOf[c] # None =>
          /\ {c, AgainOf[c]} \cap Remote = {} /\ AgainOf[c] # c
          /\ CommandOf[AgainOf[c]] = CommandOf[c]
    /\ CallOf \in [Clicks -> Calls] /\ Rpc \subseteq Clicks
    /\ DecisionOf \in [Clicks -> {"allow-once", "allow-always", "deny"}]
    /\ MaxFaults \in Nat /\ MaxCalls \in Nat

VARIABLES
    trait,     \* of the command of a call
    call,      \* the exec tool, or the request: the next statement
    aborted,   \* the calls whose abort signal was given and may yet be looked at
    verdict,   \* the outcome in the approval's PendingEntry
    rec,       \* recordResolvedOutcome: what is done
    row,       \* ava_exec_approvals: what it says of an approval
    saved,     \* ava_exec_allowlist_entries: the commands always allowed
    after,     \* what follows the decision: the next statement
    click,     \* what an approver was told of a click
    notice,    \* the events queued for the session, by key
    bcast,     \* exec.approval.requested and .resolved
    cause,     \* history: what befell a call
    faults     \* faults so far

approvals == <<trait, call, aborted, verdict, rec, row, saved, after, click, notice,
               bcast, cause, faults>>
vars == <<registry, approvals>>

Allows    == {"allow-once", "allow-always"}
Decisions == Allows \cup {"deny"}
Verdicts  == Decisions \cup {"timeout", "error"}

\* Obfuscation signals; or what is refused, approved or not: a safe bin outside
\* the trusted directories, a shell variable in a script.
Traits    == {"plain", "obfuscated", "untrusted"}

Awaited   == {"policy", "lookup", "create", "prompt", "sent", "waiting", "inside"}
Listening == {"prompt", "sent", "pending"}   \* the abort listener and decisionPromise exist
Keys      == {"exit", "denied", "fallback", "finished", "error"}

TypeOK ==
    /\ RegistryTypeOK
    /\ call \in [Calls -> {"none", "pending", "denied", "threw", "background", "done", "lost"}
                          \cup Awaited]
    /\ trait \in [Calls -> Traits]
    /\ aborted \in SUBSET Calls
    /\ verdict \in [Calls -> {"none", "open", "lost"} \cup Verdicts]
    /\ rec \in [Calls -> {"none", "saved", "done"}]
    /\ row \in [Calls -> {"none", "pending"} \cup Verdicts]
    /\ saved \in SUBSET {CommandOf[c] : c \in Calls}
    /\ after \in [Calls -> {"none", "wait", "run", "inside", "over"}]
    /\ click \in [Clicks -> {"none", "ok", "no"}]
    /\ notice \in [Calls -> SUBSET Keys]
    /\ bcast \in [Calls -> SUBSET {"requested", "resolved"}]
    /\ cause \in [Calls -> SUBSET {"evicted", "escalated", "unheard", "slow", "stopped",
                                "again"}]
    /\ faults \in 0 .. MaxFaults

Init ==
    /\ RegistryInit
    /\ call = [c \in Calls |-> "none"]
    /\ trait = [c \in Calls |-> "plain"]
    /\ aborted = {}
    /\ verdict = [c \in Calls |-> "none"]
    /\ rec = [c \in Calls |-> "none"]
    /\ row = [c \in Calls |-> "none"]
    /\ saved = {}
    /\ after = [c \in Calls |-> "none"]
    /\ click = [k \in Clicks |-> "none"]
    /\ notice = [c \in Calls |-> {}]
    /\ bcast = [c \in Calls |-> {}]
    /\ cause = [c \in Calls |-> {}]
    /\ faults = 0

----------------------------------------------------------------------------
\* Operators

Fault(kind)   == kind \in Faults /\ faults < MaxFaults /\ faults' = faults + 1
Blame(S, why) == [c \in Calls |-> IF c \in S THEN cause[c] \cup {why} ELSE cause[c]]
Goes(c, at)   == call' = [call EXCEPT ![c] = at]
Then(c, at)   == after' = [after EXCEPT ![c] = at]
Again(c)      == AgainOf[c] # None /\ call[AgainOf[c]] = "none"

\* queueExecSystemEvent: a row that cannot be inserted is only logged.
Notify(c, what) ==
    \/ /\ notice' = [notice EXCEPT ![c] = @ \cup {what}]
       /\ UNCHANGED <<cause, faults>>
    \/ /\ Fault("db")
       /\ cause' = Blame({c}, "unheard")
       /\ UNCHANGED notice

\* The catch block of what follows a decision: a statement of it failed, and that
\* is told, with an event whose row may be refused too.  (Its lookup may throw as
\* well.  Nobody handles that rejection: see CrashAndRestart.)
TellError(c) ==
    /\ Fault("db")
    /\ \/ notice' = [notice EXCEPT ![c] = @ \cup {"error"}] /\ UNCHANGED cause
       \/ cause' = Blame({c}, "unheard") /\ UNCHANGED notice

\* manager.fail, whose guard is that nothing was decided.
Failed(c) == [verdict EXCEPT ![c] = IF @ = "open" THEN "error" ELSE @]

\* needsInteractiveApproval: the allowlist holds what was always allowed.
NeedsApproval(c) == trait[c] = "obfuscated" \/ (c \notin Free /\ CommandOf[c] \notin saved)

\* The command is started, and its session put into the map.
Starts(c, as, inBackground) ==
    /\ AddSession(c, as)
    /\ background' = IF inBackground THEN background \cup {c} ELSE background
    /\ cause' = Blame(running \ running', "evicted")
    /\ UNCHANGED <<exited, finished, nets>>

----------------------------------------------------------------------------
(* The call up to the return of the tool.                                  *)

\* The agent calls the tool, or a client the gateway.
Begin(c) ==
    /\ call[c] = "none"
    /\ Cardinality({d \in Calls : call[d] # "none" /\ "again" \notin cause[d]}) < MaxCalls
    /\ \/ c \in Remote /\ Goes(c, "lookup") /\ UNCHANGED trait
       \/ /\ c \notin Remote /\ Goes(c, "policy")
          /\ \E t \in TraitsOf[c] : trait' = [trait EXCEPT ![c] = t]
    /\ UNCHANGED <<registry, aborted, verdict, rec, row, saved, after, click, notice,
                   bcast, cause, faults>>

\* getExecAllowlistForUser, and what the policy makes of it.  When the command
\* needs no approval, a signal given by now is heard by nobody, and it is started.
Policy(c) ==
    /\ call[c] = "policy"
    /\ \/ /\ Fault("db") /\ Goes(c, "threw")
          /\ UNCHANGED <<registry, cause>>
       \/ /\ NeedsApproval(c) /\ Goes(c, "lookup")
          /\ cause' = IF c \in aborted THEN Blame({c}, "stopped") ELSE cause
          /\ UNCHANGED <<registry, faults>>
       \/ /\ ~NeedsApproval(c) /\ trait[c] = "untrusted" /\ Goes(c, "denied")
          /\ UNCHANGED <<registry, cause, faults>>
       \/ /\ ~NeedsApproval(c) /\ trait[c] = "plain"
          /\ \/ c \in Boxable /\ Starts(c, "boxed", FALSE) /\ Goes(c, "inside")
             \/ Starts(c, "alive", FALSE) /\ Goes(c, "waiting")
             \/ Starts(c, "alive", TRUE) /\ Goes(c, "background")
          /\ UNCHANGED faults
    /\ aborted' = IF call'[c] = "lookup" THEN aborted ELSE aborted \ {c}
    /\ UNCHANGED <<trait, verdict, rec, row, saved, after, click, notice, bcast>>

\* getSessionRoutingContext: no session, or none a notifier supports; else the
\* approval is registered, with its timer.
Lookup(c) ==
    /\ call[c] = "lookup"
    /\ \/ Fault("db") /\ Goes(c, "threw") /\ UNCHANGED verdict
       \/ Fault("unroutable") /\ Goes(c, "denied") /\ UNCHANGED verdict
       \/ /\ Goes(c, "create")
          /\ verdict' = [verdict EXCEPT ![c] = "open"]
          /\ UNCHANGED faults
    /\ UNCHANGED <<trait, registry, aborted, rec, row, saved, after, click, notice, bcast, cause>>

\* Mutated form of Create: the signal is heard by its listener only.
MutCreate(c) ==
    /\ call[c] = "create"
    /\ \/ Fault("db") /\ Goes(c, "threw") /\ UNCHANGED row
       \/ Goes(c, "prompt") /\ row' = [row EXCEPT ![c] = "pending"] /\ UNCHANGED faults
    /\ aborted' = aborted \ {c}
    /\ UNCHANGED <<trait, registry, verdict, rec, saved, after, click, notice, bcast, cause>>

\* createExecApprovalRecord, and a signal given meanwhile.  When the INSERT is
\* refused, the entry stays, with nobody to hear its timer.
Create(c) ==
    /\ call[c] = "create"
    /\ \/ Fault("db") /\ Goes(c, "threw") /\ UNCHANGED <<row, verdict>>
       \/ /\ Goes(c, "prompt")
          /\ row' = [row EXCEPT ![c] = "pending"]
          /\ verdict' = IF c \in aborted THEN Failed(c) ELSE verdict
          /\ UNCHANGED faults
    /\ aborted' = aborted \ {c}
    /\ UNCHANGED <<trait, registry, rec, saved, after, click, notice, bcast, cause>>

\* The tool returns "approval-pending", or the gateway broadcasts the request;
\* what follows the decision waits for it.
Return(c) ==
    /\ Goes(c, "pending")
    /\ Then(c, "wait")
    /\ bcast' = IF c \in Remote THEN [bcast EXCEPT ![c] = @ \cup {"requested"}] ELSE bcast

\* sendPrompt fails, or Slack takes the message.
Prompt(c) ==
    /\ call[c] = "prompt"
    /\ \/ /\ Goes(c, "sent")
          /\ UNCHANGED <<verdict, after, bcast, faults>>
       \/ Fault("post") /\ verdict' = Failed(c) /\ Return(c)
    /\ UNCHANGED <<trait, registry, aborted, rec, row, saved, click, notice, cause>>

\* The answer of Slack, which may be lost.
Reply(c) ==
    /\ call[c] = "sent"
    /\ Return(c)
    /\ \/ UNCHANGED <<verdict, faults>>
       \/ Fault("lostAck") /\ verdict' = Failed(c)
    /\ UNCHANGED <<trait, registry, aborted, rec, row, saved, click, notice, cause>>

----------------------------------------------------------------------------
(* The verdict: the manager's timer, the signal, and the approvers.        *)

TimesOut(c) ==
    /\ verdict[c] = "open"
    /\ verdict' = [verdict EXCEPT ![c] = "timeout"]
    /\ cause' = IF call[c] = "create" THEN Blame({c}, "slow") ELSE cause
    /\ UNCHANGED <<trait, registry, call, aborted, rec, row, saved, after, click, notice,
                   bcast, faults>>

\* The run of the agent is aborted.  The requests of the gateway and the calls
\* the approved tool makes have no signal.  (A command in the foreground is sent
\* SIGTERM, which is no step: it may ignore it, and may die at any time.)
Abort(c) ==
    /\ c \notin aborted \cup Remote /\ "again" \notin cause[c]
    /\ call[c] \in {"policy", "lookup", "create"} \cup Listening
    /\ verdict[c] \in {"none", "open"}
    /\ aborted' = IF call[c] \in Listening THEN aborted ELSE aborted \cup {c}
    /\ verdict' = IF call[c] \in Listening THEN Failed(c) ELSE verdict
    /\ cause' = IF call[c] # "policy" THEN Blame({c}, "stopped") ELSE cause
    /\ UNCHANGED <<trait, registry, call, rec, row, saved, after, click, notice, bcast, faults>>

\* Mutated form of Settles: the decision is applied after the timer, too.
MutSettles(k) ==
    /\ verdict' = [verdict EXCEPT ![CallOf[k]] = DecisionOf[k]]
    /\ click' = [click EXCEPT ![k] = "ok"]

\* manager.resolve, whose guard is that nothing was decided.  The approver of a
\* decision that comes too late is told so, and nothing else happens.
Settles(k) ==
    /\ verdict[CallOf[k]] = "open"
    /\ verdict' = [verdict EXCEPT ![CallOf[k]] = DecisionOf[k]]
    /\ click' = [click EXCEPT ![k] = "ok"]

\* A button in Slack, or exec.approval.resolve by a client that was told of the
\* request.  The approver is authorized, against the record of the approval and
\* the owner of its session, which change no more, and the decision is applied.
\* Another click of the same user on the same button is dropped, whatever came
\* of the first.
Decide(k) ==
    LET c == CallOf[k] IN
    /\ click[k] = "none"
    /\ IF k \in Rpc THEN "requested" \in bcast[c] ELSE call[c] \in {"sent", "pending", "lost"}
    /\ \/ /\ Settles(k)
          /\ bcast' = IF k \in Rpc THEN [bcast EXCEPT ![c] = @ \cup {"resolved"}] ELSE bcast
          /\ UNCHANGED faults
       \/ /\ Fault("refused") \/ Fault("db")
          /\ click' = [click EXCEPT ![k] = "no"]
          /\ UNCHANGED <<verdict, bcast>>
    /\ UNCHANGED <<registry, trait, call, aborted, rec, row, saved, after, notice, cause>>

----------------------------------------------------------------------------
(* recordResolvedOutcome.  When one of its statements fails, decisionPromise *)
(* is rejected, and so is the promise of its finally, which nobody handles:  *)
(* that ends the process (CrashAndRestart).                                  *)

Recording(c) == call[c] \in Listening /\ verdict[c] \in Verdicts /\ rec[c] # "done"

SavePatterns(c) ==
    /\ Recording(c) /\ verdict[c] = "allow-always" /\ rec[c] = "none"
    /\ saved' = saved \cup {CommandOf[c]}
    /\ rec' = [rec EXCEPT ![c] = "saved"]
    /\ UNCHANGED <<trait, registry, call, aborted, verdict, row, after, click, notice,
                   bcast, cause, faults>>

\* updateExecApprovalRecord, with which decisionPromise is fulfilled.
UpdateRow(c) ==
    /\ Recording(c) /\ (verdict[c] = "allow-always" => rec[c] = "saved")
    /\ row' = [row EXCEPT ![c] = verdict[c]]
    /\ rec' = [rec EXCEPT ![c] = "done"]
    /\ UNCHANGED <<trait, registry, call, aborted, verdict, saved, after, click, notice,
                   bcast, cause, faults>>

----------------------------------------------------------------------------
(* What follows the decision.                                              *)

\* Mutated form of Decided: the record of the outcome is not waited for.
MutDecided(c) == verdict[c] \in Verdicts

\* await pending.decisionPromise
Decided(c) == rec[c] = "done"

\* Mutated form of TellClients: only a timeout is broadcast.
MutTellClients(c) ==
    /\ c \in Remote
    /\ bcast' = IF verdict[c] # "timeout" THEN bcast
                ELSE [bcast EXCEPT ![c] = @ \cup {"resolved"}]
    /\ Then(c, "over")
    /\ UNCHANGED <<notice, cause, faults>>

\* A client that waits gets the decision; the others are told of a timeout or
\* an error only, since a decision is broadcast by exec.approval.resolve.
TellClients(c) ==
    /\ c \in Remote
    /\ bcast' = IF verdict[c] \in Decisions THEN bcast
                ELSE [bcast EXCEPT ![c] = @ \cup {"resolved"}]
    /\ Then(c, "over")
    /\ UNCHANGED <<notice, cause, faults>>

\* askFallback: "full", or "allowlist" and an allowlisted command.
TakesFallback(c) == verdict[c] = "timeout" /\ c \in FallsBack

\* The event that tells of a denial, or of the fallback; or straight on.  When
\* the lookup before an event fails, that is told instead, and nothing is run.
Follow(c) ==
    /\ c \notin Remote
    /\ \/ verdict[c] \in Allows /\ Then(c, "run") /\ UNCHANGED <<notice, cause, faults>>
       \/ TakesFallback(c) /\ Then(c, "run") /\ Notify(c, "fallback")
       \/ verdict[c] \notin Allows /\ ~TakesFallback(c) /\ Then(c, "over") /\ Notify(c, "denied")
       \/ verdict[c] \notin Allows /\ Then(c, "over") /\ TellError(c)
    /\ UNCHANGED bcast

\* What follows is about to look at the database for an event.
Telling(c) ==
    \/ after[c] = "wait" /\ Decided(c) /\ c \notin Remote
    \/ after[c] \in {"run", "inside"}
    \/ child[c] = "dead" /\ c \in background \ Quiet /\ call[c] # "lost"

Resume(c) ==
    /\ after[c] = "wait" /\ Decided(c)
    /\ TellClients(c) \/ Follow(c)
    /\ UNCHANGED <<trait, registry, call, aborted, verdict, rec, row, saved, click>>

\* approvedTool.execute with security "full" and ask "off".  Obfuscation signals
\* and an untrusted safe bin are looked at all the same: the first asks for a new
\* approval, the second returns a denial that nobody reads.  (A call that would
\* ask again and has no name left to do so, ~Again, stops here: the bound on
\* repeated approvals.)
RunApproved(c) ==
    /\ after[c] = "run"
    /\ \/ /\ Then(c, "over")
          /\ TellError(c)
          /\ UNCHANGED <<registry, trait, call>>
       \/ /\ trait[c] = "obfuscated" /\ Again(c)
          /\ trait' = [trait EXCEPT ![AgainOf[c]] = "obfuscated"]
          /\ cause' = Blame({AgainOf[c]}, "again")
          /\ Goes(AgainOf[c], "lookup")
          /\ Then(c, "over")
          /\ UNCHANGED <<registry, notice, faults>>
       \/ /\ trait[c] = "untrusted"
          /\ Then(c, "over")
          /\ UNCHANGED <<registry, trait, call, notice, cause, faults>>
       \/ /\ trait[c] = "plain"
          /\ \/ c \in Boxable /\ Starts(c, "boxed", FALSE) /\ Then(c, "inside")
             \/ Starts(c, "alive", TRUE) /\ Then(c, "over")
          /\ UNCHANGED <<trait, call, notice, faults>>
    /\ UNCHANGED <<aborted, verdict, rec, row, saved, click, bcast>>

----------------------------------------------------------------------------
(* The commands.                                                           *)

Owned(c) == call[c] # "lost"       \* the process that started it is up

\* Mutated form of OnExit: the callback is called in the foreground only.
MutOnExit(c) ==
    IF c \in background \/ c \in Quiet THEN UNCHANGED <<notice, cause, faults>>
    ELSE Notify(c, "exit")

\* session.onExitCallback
OnExit(c) ==
    IF c \in background /\ c \notin Quiet THEN Notify(c, "exit")
    ELSE UNCHANGED <<notice, cause, faults>>

\* "close": the exit is marked, and a tool call that still waits returns.
Exits(c) ==
    /\ child[c] = "dead" /\ Owned(c)
    /\ child' = [child EXCEPT ![c] = "closed"]
    /\ MarkExited(c)
    /\ OnExit(c)
    /\ call' = IF c \in background THEN call ELSE [call EXCEPT ![c] = "done"]
    /\ UNCHANGED <<trait, aborted, verdict, rec, row, saved, after, click, bcast>>

\* execInContainer returns: to the call, or to what followed its approval, which
\* tells of it, but not of an error of the container.
SandboxEnds(c) ==
    /\ child[c] = "boxed" /\ Owned(c)
    /\ child' = [child EXCEPT ![c] = "closed"]
    /\ MarkExited(c)
    /\ \/ /\ call[c] = "inside" /\ Goes(c, "done")
          /\ UNCHANGED <<after, notice, cause, faults>>
       \/ /\ after[c] = "inside" /\ Then(c, "over")
          /\ \/ Notify(c, "finished")
             \/ TellError(c)
             \/ Fault("box") /\ cause' = Blame({c}, "unheard") /\ UNCHANGED notice
          /\ UNCHANGED call
    /\ UNCHANGED <<trait, aborted, verdict, rec, row, saved, click, bcast>>

\* Mutated form of Yield: a call whose shell is gone waits for the pipes.
MutYield(c) ==
    /\ call[c] = "waiting" /\ c \notin exited /\ child[c] = "alive"
    /\ Goes(c, "background")
    /\ background' = background \cup {c}
    /\ UNCHANGED <<trait, child, exited, running, finished, nets, aborted, verdict, rec, row,
                   saved, after, click, notice, bcast, cause, faults>>

\* yieldMs pass: a call that waits returns, and its command goes on.
Yield(c) ==
    /\ call[c] = "waiting" /\ c \notin exited
    /\ Goes(c, "background")
    /\ background' = background \cup {c}
    /\ UNCHANGED <<trait, child, exited, running, finished, nets, aborted, verdict, rec, row,
                   saved, after, click, notice, bcast, cause, faults>>

\* The kill and clear actions of the process tool, and the sweeper.
Kill(c) == KillSession(c) /\ UNCHANGED approvals
Drop(c) == Clear(c) /\ UNCHANGED approvals

\* The shell ends.  (What becomes of it after a restart is seen by nobody.)
Death(c) == Dies(c) /\ Owned(c) /\ UNCHANGED approvals

\* A call of another session needs the room.
Evicted(c) ==
    /\ Evict(c)
    /\ cause' = Blame({c}, "evicted")
    /\ UNCHANGED <<trait, call, aborted, verdict, rec, row, saved, after, click, notice,
                   bcast, faults>>

\* The safety net of a kill.
Net(c) ==
    /\ NetKills(c)
    /\ \/ c \in background /\ OnExit(c)
       \/ c \notin background /\ cause' = Blame({c}, "escalated") /\ UNCHANGED <<notice, faults>>
    /\ UNCHANGED <<trait, call, aborted, verdict, rec, row, saved, after, click, bcast>>

\* The process dies, and another begins, with other clients: nothing of an
\* approval is read back.  It may be a rejection nobody handles that ends it: of
\* the record of an outcome, or of the lookup for an event.
CrashAndRestart ==
    /\ \/ Fault("crash")
       \/ (\E c \in Calls : Recording(c) \/ Telling(c)) /\ Fault("db")
    /\ Forget
    /\ call' = [c \in Calls |-> IF call[c] = "none" THEN "none" ELSE "lost"]
    /\ verdict' = [c \in Calls |-> IF verdict[c] = "open" THEN "lost" ELSE verdict[c]]
    /\ after' = [c \in Calls |-> "none"]
    /\ rec' = [c \in Calls |-> "none"]
    /\ trait' = [c \in Calls |-> "plain"]
    /\ bcast' = [c \in Calls |-> {}]
    /\ aborted' = {}
    /\ UNCHANGED <<click, row, saved, notice, cause>>

----------------------------------------------------------------------------
Asks(c)     == Policy(c) \/ Lookup(c) \/ Create(c) \/ Prompt(c) \/ Reply(c)
Records(c)  == SavePatterns(c) \/ UpdateRow(c)
Follows(c)  == Resume(c) \/ RunApproved(c)
Commands(c) == Exits(c) \/ Kill(c) \/ Drop(c) \/ Death(c) \/ Evicted(c)

Next ==
    \/ \E c \in Calls : \/ Begin(c) \/ Asks(c) \/ TimesOut(c) \/ Abort(c) \/ Records(c)
                        \/ Follows(c) \/ SandboxEnds(c)
                        \/ Yield(c) \/ Net(c) \/ Commands(c)
    \/ \E k \in Clicks : Decide(k)
    \/ CrashAndRestart

Safe == Init /\ [][Next]_vars

\* Timers fire, awaited calls return, and a command in a container has a timeout:
\* while the process owes a call a step, one is taken.  Agents, approvers and the
\* commands of the host do what they like.
Owes(c) == Asks(c) \/ TimesOut(c) \/ Records(c) \/ Follows(c) \/ SandboxEnds(c) \/ Yield(c)

Spec == Safe /\ \A c \in Calls : WF_vars(Owes(c))

----------------------------------------------------------------------------
(* Properties.                                                             *)

\* A call has one verdict, an approver is told so of the decision that became it
\* and of no other, and a command is started once and only if that verdict, the
\* policy or a pattern that was allowed always permits it.
Outcomes  == [c \in Calls |-> IF verdict[c] \in Verdicts THEN verdict[c] ELSE "open"]
Ran       == {c \in Calls : child[c] # "none"}
Confirmed == {k \in Clicks : click[k] = "ok"}

Contract == INSTANCE ApprovalContract WITH
    verdict <- Outcomes, ran <- Ran, confirmed <- Confirmed

ImplementsContract == Contract!Spec

\* The record agrees with what is done: when the command of an approval is
\* started, or its denial is told, its verdict is in the table, and what was
\* allowed always is in the allowlist.
RecordedFirst ==
    \A c \in Calls : verdict[c] # "none" /\ (child[c] # "none" \/ notice[c] # {})
        => /\ row[c] = verdict[c]
           /\ verdict[c] = "allow-always" => CommandOf[c] \in saved

\* A call that was aborted while its approval was open is never run, unless the
\* approval timed out before its record was written and so before anybody
\* looked at the signal.
AbortHonoured ==
    \A c \in Calls : "stopped" \in cause[c] /\ child[c] # "none"
        => "slow" \in cause[c]

\* A command that runs in the background of this process can be seen and
\* stopped, unless it was evicted, or goes on after the net of a kill.
Reachable ==
    \A c \in Calls : child[c] \in {"alive", "boxed"} /\ Owned(c)
        => c \in running \/ {"evicted", "escalated"} \cap cause[c] # {}

\* The end of a command is told once: as the result of its call if the call
\* waited for it, else as an event.  And what follows a decision ends with a
\* command, an event or a new approval, unless the approved tool denied it.
Accounted ==
    \A c \in Calls :
        /\ child[c] = "closed" /\ Owned(c) =>
              \/ /\ c \notin background /\ "exit" \notin notice[c]
                 /\ \/ call[c] = "done" \/ {"finished", "error"} \cap notice[c] # {}
                    \/ "unheard" \in cause[c]
              \/ c \in background /\ c \notin Quiet /\ "exit" \in notice[c]
              \/ c \in background /\ (c \in Quiet \/ "unheard" \in cause[c])
        /\ after[c] = "over" /\ c \notin Remote =>
              \/ child[c] # "none" \/ notice[c] # {} \/ "unheard" \in cause[c]
              \/ trait[c] = "untrusted"
              \/ AgainOf[c] # None /\ "again" \in cause[AgainOf[c]]

\* Clients that were told of a request learn of its end, unless the decision was
\* made in Slack, which is not broadcast.
ClientsTold ==
    \A c \in Remote : after[c] = "over" =>
        /\ "requested" \in bcast[c]
        /\ \/ "resolved" \in bcast[c]
           \/ \E k \in Clicks \ Rpc : CallOf[k] = c /\ click[k] = "ok"

\* Every call of the tool returns, unless a kill marked its command as exited in
\* the foreground; and what waits for a decision gets one.  (A call begins once:
\* in the end none waits.)
Answered ==
    <>[](\A c \in Calls :
            /\ call[c] \in Awaited => "escalated" \in cause[c]
            /\ \/ after[c] \in {"none", "over"}
               \/ after[c] = "run" /\ trait[c] = "obfuscated" /\ ~Again(c))
=============================================================================
