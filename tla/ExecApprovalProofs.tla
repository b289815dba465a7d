------------------------- MODULE ExecApprovalProofs -------------------------
(***************************************************************************)
(* Proofs about ExecApproval, for any number of calls and approvers and    *)
(* any bound on the commands and the faults.  There are four invariants,   *)
(* each inductive with those before it:                                    *)
(*                                                                         *)
(* - Inv, for the contract: a call is registered once (Unasked), a command *)
(*   is started from places its call comes by once (Unrun, Unstarted), what*)
(*   is run was permitted by the verdict (Cleared), and a saved pattern    *)
(*   stems from an allow-always (Recalled);                                *)
(* - Books, for the records and for what becomes of an abort;              *)
(* - Ends, for the clients of the gateway and the map of the commands;     *)
(* - Accounts, for what is told of the end of a command and of a decision. *)
(***************************************************************************)
EXTENDS ExecApproval, TLAPS

Functional ==
    /\ child \in [Calls -> {"none", "closed"} \cup Alive]
    /\ call \in [Calls -> {"none", "pending", "denied", "threw", "background", "done", "lost"}
                          \cup Awaited]
    /\ verdict \in [Calls -> {"none", "open", "lost"} \cup Verdicts]
    /\ after \in [Calls -> {"none", "wait", "run", "inside", "over"}]
    /\ click \in [Clicks -> {"none", "ok", "no"}]

\* Before the approval is registered, nothing is decided.
Unasked ==
    \A c \in Calls : call[c] \in {"none", "policy", "lookup"} => verdict[c] = "none"

\* Up to the return of the tool, no command is started, and nothing follows.
Unrun ==
    \A c \in Calls : call[c] \in {"none", "policy", "lookup", "create", "prompt", "sent"}
        => child[c] = "none" /\ after[c] = "none"

\* While the decision is awaited, and until it is acted upon, no command is started.
Unstarted == \A c \in Calls : after[c] \in {"wait", "run"} => child[c] = "none"

\* What is about to run was allowed, or falls back.
Cleared ==
    \A c \in Calls : after[c] = "run"
        => verdict[c] \in Allows \/ (verdict[c] = "timeout" /\ c \in FallsBack)

\* A pattern in the allowlist was allowed always.
Recalled ==
    \A m \in saved : \E d \in Calls : CommandOf[d] = m /\ verdict[d] = "allow-always"

Inv == Functional /\ Unasked /\ Unrun /\ Unstarted /\ Cleared /\ Recalled

USE DEF Outcomes, Ran, Confirmed, Inv, Functional, Unasked, Unrun, Unstarted, Cleared, Recalled,
        Allows, Decisions, Verdicts, Awaited, Alive, registry, Goes, Then

----------------------------------------------------------------------------
(* Each step keeps the invariant, and is a step of the contract or none.   *)

LEMMA Initially == Init => Inv /\ Contract!Init
  BY DEF Init, RegistryInit, Contract!Init

LEMMA BeginKeeps ==
  ASSUME Inv, NEW c \in Calls, Begin(c)
  PROVE  Inv' /\ UNCHANGED Contract!vars
  BY ExecAssumption DEF Begin, Contract!vars

LEMMA LookupKeeps ==
  ASSUME Inv, NEW c \in Calls, Lookup(c)
  PROVE  Inv' /\ UNCHANGED Contract!vars
  BY ExecAssumption DEF Lookup, Fault, Contract!vars

LEMMA SavePatternsKeeps ==
  ASSUME Inv, NEW c \in Calls, SavePatterns(c)
  PROVE  Inv' /\ UNCHANGED Contract!vars
  BY ExecAssumption DEF SavePatterns, Recording, Contract!vars

LEMMA UpdateRowKeeps ==
  ASSUME Inv, NEW c \in Calls, UpdateRow(c)
  PROVE  Inv' /\ UNCHANGED Contract!vars
  BY ExecAssumption DEF UpdateRow, Recording, Contract!vars

LEMMA ResumeKeeps ==
  ASSUME Inv, NEW c \in Calls, Resume(c)
  PROVE  Inv' /\ UNCHANGED Contract!vars
  BY ExecAssumption DEF Resume, Follow, TellClients, TakesFallback, Notify, TellError, Fault, Contract!vars

LEMMA SandboxEndsKeeps ==
  ASSUME Inv, NEW c \in Calls, SandboxEnds(c)
  PROVE  Inv' /\ UNCHANGED Contract!vars
  BY ExecAssumption DEF SandboxEnds, MarkExited, Notify, TellError, Fault, Contract!vars

LEMMA YieldKeeps ==
  ASSUME Inv, NEW c \in Calls, Yield(c)
  PROVE  Inv' /\ UNCHANGED Contract!vars
  BY ExecAssumption DEF Yield, Contract!vars

LEMMA NetKeeps ==
  ASSUME Inv, NEW c \in Calls, Net(c)
  PROVE  Inv' /\ UNCHANGED Contract!vars
  BY ExecAssumption DEF Net, NetKills, MarkExited, OnExit, Notify, Fault, approvals, Contract!vars

LEMMA ExitsKeeps ==
  ASSUME Inv, NEW c \in Calls, Exits(c)
  PROVE  Inv' /\ UNCHANGED Contract!vars
  BY ExecAssumption DEF Exits, MarkExited, OnExit, Notify, Fault, Contract!vars

LEMMA KillKeeps ==
  ASSUME Inv, NEW c \in Calls, Kill(c)
  PROVE  Inv' /\ UNCHANGED Contract!vars
  BY ExecAssumption DEF Kill, KillSession, approvals, Contract!vars

LEMMA DropKeeps ==
  ASSUME Inv, NEW c \in Calls, Drop(c)
  PROVE  Inv' /\ UNCHANGED Contract!vars
  BY ExecAssumption DEF Drop, Clear, approvals, Contract!vars

LEMMA DeathKeeps ==
  ASSUME Inv, NEW c \in Calls, Death(c)
  PROVE  Inv' /\ UNCHANGED Contract!vars
  BY ExecAssumption DEF Death, Dies, approvals, Contract!vars

LEMMA EvictedKeeps ==
  ASSUME Inv, NEW c \in Calls, Evicted(c)
  PROVE  Inv' /\ UNCHANGED Contract!vars
  BY ExecAssumption DEF Evicted, Evict, Contract!vars

\* When an approval that is open times out or fails, its call gives up.
LEMMA GivesUp ==
  ASSUME Inv, NEW c \in Calls, NEW why \in {"timeout", "error"}, verdict[c] = "open",
         verdict' = [verdict EXCEPT ![c] = why], UNCHANGED <<child, click>>
  PROVE  Contract!GiveUp(c)
  <1> DEFINE V == [d \in Calls |-> IF verdict[d] \in Verdicts THEN verdict[d] ELSE "open"]
  <1>1. \A d \in Calls : verdict'[d] = IF d = c THEN why ELSE verdict[d]
    OBVIOUS
  <1>2. V[c] = "open"
    OBVIOUS
  <1>3. V' = [d \in Calls |-> IF d = c THEN why ELSE V[d]]
    BY <1>1
  <1>4. V' = [V EXCEPT ![c] = why]
    BY <1>3
  <1>5. /\ {d \in Calls : child[d] # "none"}' = {d \in Calls : child[d] # "none"}
        /\ {k \in Clicks : click[k] = "ok"}' = {k \in Clicks : click[k] = "ok"}
    OBVIOUS
  <1> QED
    BY <1>2, <1>4, <1>5 DEF Contract!GiveUp

\* manager.fail gives up, or does nothing.
LEMMA FailedGivesUp ==
  ASSUME Inv, NEW c \in Calls, verdict' = Failed(c), UNCHANGED <<child, click>>
  PROVE  Contract!GiveUp(c) \/ UNCHANGED Contract!vars
  <1>1. CASE verdict[c] = "open"
    BY <1>1, GivesUp DEF Failed
  <1>2. CASE verdict[c] # "open"
    <2>1. verdict' = verdict
      BY <1>2 DEF Failed
    <2> QED
      BY <2>1 DEF Contract!vars
  <1> QED
    BY <1>1, <1>2

LEMMA TimesOutKeeps ==
  ASSUME Inv, NEW c \in Calls, TimesOut(c)
  PROVE  Inv' /\ (Contract!GiveUp(c) \/ UNCHANGED Contract!vars)
  <1>1. Inv'
    BY DEF TimesOut
  <1>2. Contract!GiveUp(c) \/ UNCHANGED Contract!vars
    BY GivesUp DEF TimesOut, Contract!vars
  <1> QED
    BY <1>1, <1>2

LEMMA AbortKeeps ==
  ASSUME Inv, NEW c \in Calls, Abort(c)
  PROVE  Inv' /\ (Contract!GiveUp(c) \/ UNCHANGED Contract!vars)
  <1>1. Inv'
    BY DEF Abort, Failed, Listening
  <1>2. Contract!GiveUp(c) \/ UNCHANGED Contract!vars
    BY FailedGivesUp DEF Abort, Listening, Contract!vars
  <1> QED
    BY <1>1, <1>2

LEMMA CreateKeeps ==
  ASSUME Inv, NEW c \in Calls, Create(c)
  PROVE  Inv' /\ (Contract!GiveUp(c) \/ UNCHANGED Contract!vars)
  <1>1. Inv'
    BY DEF Create, Failed, Fault
  <1>2. Contract!GiveUp(c) \/ UNCHANGED Contract!vars
    BY FailedGivesUp DEF Create, Fault, Contract!vars
  <1> QED
    BY <1>1, <1>2

LEMMA PromptKeeps ==
  ASSUME Inv, NEW c \in Calls, Prompt(c)
  PROVE  Inv' /\ (Contract!GiveUp(c) \/ UNCHANGED Contract!vars)
  <1>1. Inv'
    BY DEF Prompt, Failed, Fault, Return
  <1>2. Contract!GiveUp(c) \/ UNCHANGED Contract!vars
    BY FailedGivesUp DEF Prompt, Fault, Return, Contract!vars
  <1> QED
    BY <1>1, <1>2

LEMMA ReplyKeeps ==
  ASSUME Inv, NEW c \in Calls, Reply(c)
  PROVE  Inv' /\ (Contract!GiveUp(c) \/ UNCHANGED Contract!vars)
  <1>1. Inv'
    BY DEF Reply, Failed, Fault, Return
  <1>2. Contract!GiveUp(c) \/ UNCHANGED Contract!vars
    BY FailedGivesUp DEF Reply, Fault, Return, Contract!vars
  <1> QED
    BY <1>1, <1>2

LEMMA PolicyKeeps ==
  ASSUME Inv, NEW c \in Calls, Policy(c)
  PROVE  Inv' /\ (Contract!Run(c) \/ UNCHANGED Contract!vars)
  BY ExecAssumption DEF Policy, NeedsApproval, Starts, AddSession, Fault, Contract!vars, Contract!Run, Contract!Permitted

\* A command that is started on its verdict is a run of the contract.
LEMMA RunIsRun ==
  ASSUME Inv, NEW c \in Calls, NEW as \in {"alive", "boxed"}, child[c] = "none",
         verdict[c] \in Allows \/ (verdict[c] = "timeout" /\ c \in FallsBack),
         child' = [child EXCEPT ![c] = as], UNCHANGED <<verdict, click>>
  PROVE  Contract!Run(c)
  <1>1. \A d \in Calls : child'[d] # "none" <=> child[d] # "none" \/ d = c
    BY ZenonT(60)
  <1> DEFINE Begun == {d \in Calls : child[d] # "none"}
  <1>2. Begun' = Begun \cup {c}
    <2>1. \A d \in Begun' : d \in Begun \cup {c}
      BY <1>1
    <2>2. c \in Begun'
      <3>1. child'[c] # "none"
        BY <1>1
      <3> QED
        BY <3>1
    <2>3. \A d \in Begun : d \in Begun'
      BY <1>1
    <2> HIDE DEF Begun
    <2> QED
      BY <2>1, <2>2, <2>3
  <1>3. Contract!Permitted(c)
    BY DEF Contract!Permitted, Contract!Allows
  <1> QED
    BY <1>2, <1>3, ZenonT(60) DEF Contract!Run

LEMMA RunApprovedKeeps ==
  ASSUME Inv, NEW c \in Calls, RunApproved(c)
  PROVE  Inv' /\ (Contract!Run(c) \/ UNCHANGED Contract!vars)
  <1>1. Inv'
    <2>1. Functional'
      BY ExecAssumption DEF RunApproved, Again, Starts, AddSession, TellError, Fault
    <2>2. Unasked' /\ Unrun'
      BY ExecAssumption DEF RunApproved, Again, Starts, AddSession, TellError, Fault
    <2>3. Unstarted' /\ Cleared' /\ Recalled'
      BY ExecAssumption DEF RunApproved, Again, Starts, AddSession, TellError, Fault
    <2> QED
      BY <2>1, <2>2, <2>3
  <1>2. Contract!Run(c) \/ UNCHANGED Contract!vars
    <2>1. CASE child' = child
      BY <2>1 DEF RunApproved, Contract!vars
    <2>2. CASE child' # child
      <3>1. PICK as \in {"alive", "boxed"} : child' = [child EXCEPT ![c] = as]
        BY <2>2 DEF RunApproved, Starts, AddSession
      <3>2. UNCHANGED <<verdict, click>>
        BY DEF RunApproved
      <3>3. /\ child[c] = "none"
            /\ verdict[c] \in Allows \/ (verdict[c] = "timeout" /\ c \in FallsBack)
        BY DEF RunApproved
      <3> QED
        BY <3>1, <3>2, <3>3, RunIsRun
    <2> QED
      BY <2>1, <2>2
  <1> QED
    BY <1>1, <1>2

LEMMA DecideKeeps ==
  ASSUME Inv, NEW k \in Clicks, Decide(k)
  PROVE  Inv' /\ (Contract!Decide(k) \/ UNCHANGED Contract!vars)
  BY ExecAssumption DEF Decide, Settles, Fault, Contract!vars, Contract!Decide

LEMMA CrashKeeps ==
  ASSUME Inv, CrashAndRestart
  PROVE  Inv' /\ UNCHANGED Contract!vars
  BY DEF CrashAndRestart, Forget, Fault, Recording, Contract!vars
----------------------------------------------------------------------------
LEMMA StepKeeps ==
  ASSUME Inv, [Next]_vars
  PROVE  Inv' /\ [Contract!Next]_(Contract!vars)
  <1>1. CASE UNCHANGED vars
    BY <1>1 DEF vars, approvals, Contract!vars
  <1>2. ASSUME NEW c \in Calls,
               Begin(c) \/ Asks(c) \/ TimesOut(c) \/ Abort(c) \/ Records(c)
        PROVE  Inv' /\ [Contract!Next]_(Contract!vars)
    BY <1>2, BeginKeeps, PolicyKeeps, LookupKeeps, CreateKeeps, PromptKeeps, ReplyKeeps,
       TimesOutKeeps, AbortKeeps, SavePatternsKeeps, UpdateRowKeeps
       DEF Asks, Records, Contract!Next
  <1>3. ASSUME NEW c \in Calls,
               Follows(c) \/ SandboxEnds(c) \/ Yield(c) \/ Net(c) \/ Commands(c)
        PROVE  Inv' /\ [Contract!Next]_(Contract!vars)
    BY <1>3, ResumeKeeps, RunApprovedKeeps, SandboxEndsKeeps, YieldKeeps, NetKeeps,
       ExitsKeeps, KillKeeps, DropKeeps, DeathKeeps, EvictedKeeps
       DEF Follows, Commands, Contract!Next
  <1>4. ASSUME NEW k \in Clicks, Decide(k)
        PROVE  Inv' /\ [Contract!Next]_(Contract!vars)
    BY <1>4, DecideKeeps DEF Contract!Next
  <1>5. CASE CrashAndRestart
    BY <1>5, CrashKeeps
  <1> QED
    BY <1>1, <1>2, <1>3, <1>4, <1>5 DEF Next

\* Exec approvals do what their contract promises: a call has one verdict, an
\* approver hears that a decision was applied exactly when it became the verdict,
\* and a command is started once and only when it is permitted (exec.tool.ts,
\* exec-approval-manager.ts, exec-approval.service.ts).
THEOREM Implements == Spec => ImplementsContract
  <1>1. Init => Inv /\ Contract!Init
    BY Initially
  <1>2. Inv /\ [Next]_vars => Inv' /\ [Contract!Next]_(Contract!vars)
    BY StepKeeps
  <1> QED
    BY <1>1, <1>2, PTL DEF Spec, Safe, ImplementsContract, Contract!Spec

----------------------------------------------------------------------------
(* What the contract is worth.                                             *)

HIDE DEF Outcomes, Ran, Confirmed, Inv, Functional, Allows, Decisions, Verdicts

Inputs ==
    /\ CallOf \in [Clicks -> Calls]
    /\ DecisionOf \in [Clicks -> Contract!Decisions]

\* While a call is open, no click on it is confirmed.
Kept == Contract!TypeOK /\ Contract!Truthful /\ Contract!RanPermitted

LEMMA DecisionsDiffer == "open" \notin Contract!Decisions /\ Contract!Decisions \subseteq Contract!Verdicts
  BY DEF Contract!Decisions, Contract!Allows, Contract!Verdicts

\* A verdict is final.
LEMMA Final ==
  ASSUME Contract!TypeOK, [Contract!Next]_(Contract!vars), NEW c \in Calls, Outcomes[c] # "open"
  PROVE  Outcomes'[c] = Outcomes[c]
  BY DEF Contract!TypeOK, Contract!Next, Contract!vars, Contract!Decide, Contract!GiveUp,
         Contract!Run

LEMMA ContractTypes ==
  ASSUME Inputs, Contract!TypeOK, [Contract!Next]_(Contract!vars)
  PROVE  Contract!TypeOK'
  <1>1. ASSUME NEW k \in Clicks, Contract!Decide(k)
        PROVE  Contract!TypeOK'
    BY <1>1, DecisionsDiffer DEF Inputs, Contract!TypeOK, Contract!Decide
  <1>2. ASSUME NEW c \in Calls, Contract!GiveUp(c) \/ Contract!Run(c)
        PROVE  Contract!TypeOK'
    BY <1>2 DEF Contract!TypeOK, Contract!GiveUp, Contract!Run, Contract!Verdicts
  <1>3. CASE UNCHANGED Contract!vars
    BY <1>3 DEF Contract!TypeOK, Contract!vars
  <1> QED
    BY <1>1, <1>2, <1>3 DEF Contract!Next

LEMMA TruthKept ==
  ASSUME Inputs, Kept, [Contract!Next]_(Contract!vars)
  PROVE  Contract!Truthful'
  <1>1. ASSUME NEW k \in Clicks, Contract!Decide(k)
        PROVE  Contract!Truthful'
    <2>1. /\ CallOf[k] \in Calls /\ Outcomes[CallOf[k]] = "open"
          /\ Outcomes' = [Outcomes EXCEPT ![CallOf[k]] = DecisionOf[k]]
          /\ Confirmed' = Confirmed \cup {k}
      BY <1>1 DEF Inputs, Contract!Decide
    <2>2. ASSUME NEW l \in Confirmed
          PROVE  l \in Clicks /\ CallOf[l] \in Calls /\ CallOf[l] # CallOf[k]
      BY <2>1, DecisionsDiffer DEF Inputs, Kept, Contract!TypeOK, Contract!Truthful
    <2> QED
      BY <2>1, <2>2 DEF Kept, Contract!TypeOK, Contract!Truthful
  <1>2. CASE UNCHANGED Confirmed
    <2>1. ASSUME NEW k \in Confirmed
          PROVE  Outcomes'[CallOf[k]] = Outcomes[CallOf[k]]
      BY <2>1, Final, DecisionsDiffer DEF Inputs, Kept, Contract!TypeOK, Contract!Truthful
    <2> QED
      BY <1>2, <2>1 DEF Kept, Contract!Truthful
  <1> QED
    BY <1>1, <1>2 DEF Contract!Next, Contract!vars, Contract!GiveUp, Contract!Run

LEMMA PermissionKept ==
  ASSUME Kept, [Contract!Next]_(Contract!vars), NEW c \in Calls, Contract!Permitted(c)
  PROVE  Contract!Permitted(c)'
  <1>1. \A w \in Contract!Allows \cup {"timeout"} : w # "open"
    BY DEF Contract!Allows
  <1>2. "allow-always" \in Contract!Allows
    BY DEF Contract!Allows
  <1> QED
    BY <1>1, <1>2, Final DEF Kept, Contract!Permitted

LEMMA RanPermittedKept ==
  ASSUME Kept, [Contract!Next]_(Contract!vars)
  PROVE  Contract!RanPermitted'
  <1>1. ASSUME NEW c \in Ran'
        PROVE  c \in Calls /\ Contract!Permitted(c)
    BY <1>1 DEF Kept, Contract!TypeOK, Contract!RanPermitted, Contract!Next, Contract!vars,
                Contract!Decide, Contract!GiveUp, Contract!Run
  <1> QED
    BY <1>1, PermissionKept DEF Contract!RanPermitted

LEMMA KeptInit == Contract!Init => Kept
  BY DEF Contract!Init, Kept, Contract!TypeOK, Contract!Truthful, Contract!RanPermitted

\* A call is decided by one approver at most, who is told the truth, and whatever
\* ran was permitted: by the policy, by its own verdict or by an allow-always
\* (exec-approval-manager.ts resolve, exec.tool.ts).
THEOREM Worth == Spec => [](Contract!Truthful /\ Contract!RanPermitted)
  <1>1. Inputs
    BY ExecAssumption DEF Inputs, Contract!Decisions, Contract!Allows
  <1>2. Kept /\ [Contract!Next]_(Contract!vars) => Kept'
    BY <1>1, ContractTypes, TruthKept, RanPermittedKept DEF Kept
  <1>3. Contract!Init /\ [][Contract!Next]_(Contract!vars) => []Kept
    BY <1>2, KeptInit, PTL
  <1>4. Kept => Contract!Truthful /\ Contract!RanPermitted
    BY DEF Kept
  <1> QED
    BY <1>3, <1>4, Implements, PTL DEF ImplementsContract, Contract!Spec

USE DEF Outcomes, Ran, Confirmed, Inv, Functional, Allows, Decisions, Verdicts

----------------------------------------------------------------------------
(* What is done was recorded first, and what was aborted is not run.       *)

FunctionalToo ==
    /\ trait \in [Calls -> Traits]
    /\ rec \in [Calls -> {"none", "saved", "done"}]
    /\ row \in [Calls -> {"none", "pending"} \cup Verdicts]
    /\ notice \in [Calls -> SUBSET Keys]
    /\ bcast \in [Calls -> SUBSET {"requested", "resolved"}]
    /\ cause \in [Calls -> SUBSET {"evicted", "escalated", "unheard", "slow", "stopped",
                                   "again"}]

\* The verdict is in the table, and in the allowlist.
Recorded(c) ==
    /\ verdict[c] \in Verdicts /\ row[c] = verdict[c]
    /\ verdict[c] = "allow-always" => CommandOf[c] \in saved

\* What recordResolvedOutcome did was done, and what follows came after it.
Written ==
    \A c \in Calls :
        /\ rec[c] = "saved" => verdict[c] = "allow-always" /\ CommandOf[c] \in saved
        /\ rec[c] = "done" \/ after[c] \in {"run", "inside", "over"} => Recorded(c)
        /\ verdict[c] # "none" /\ (child[c] # "none" \/ notice[c] # {}) => Recorded(c)

\* Before its row is inserted, nothing is recorded or told of an approval.
Fresh ==
    \A c \in Calls : call[c] \in {"none", "policy", "lookup", "create"}
        => rec[c] = "none" /\ notice[c] = {} /\ bcast[c] = {}

\* Until the row is inserted, only the timer can settle an approval.
Late ==
    \A c \in Calls :
        /\ call[c] = "create" => verdict[c] = "open" \/ (verdict[c] = "timeout" /\ "slow" \in cause[c])
        /\ call[c] \in Listening => verdict[c] \notin {"none", "lost"}

\* Where a call that was aborted can be.
Stopped ==
    \A c \in Calls : "stopped" \in cause[c]
        => \/ "slow" \in cause[c] \/ verdict[c] = "error"
           \/ call[c] \in {"lookup", "create"} /\ c \in aborted
           \/ call[c] \in {"denied", "threw", "lost"} /\ child[c] = "none" /\ after[c] = "none"

\* A command that was started had no approval, or one that permits it.
Permits ==
    \A c \in Calls : child[c] # "none" => verdict[c] \in Allows \cup {"none", "timeout"}

\* The commands in the map, and those that are killed, were started.
Known == \A c \in running \cup nets : c \in Calls /\ child[c] # "none"

Books == FunctionalToo /\ Written /\ Fresh /\ Late /\ Stopped /\ Permits /\ Known
USE DEF Books, FunctionalToo, Recorded, Written, Fresh, Late, Stopped, Permits, Known, Keys, Listening,
        Traits

LEMMA BooksInitially == Init => Books
  BY DEF Init, RegistryInit

LEMMA BeginBooks ==
  ASSUME Inv, Books, NEW c \in Calls, Begin(c)
  PROVE  Books'
  BY ExecAssumption DEF Begin

LEMMA PolicyBooks ==
  ASSUME Inv, Books, NEW c \in Calls, Policy(c)
  PROVE  Books'
  BY ExecAssumption, SMTT(60) DEF Policy, NeedsApproval, Starts, AddSession, Fault, Blame

LEMMA LookupBooks ==
  ASSUME Inv, Books, NEW c \in Calls, Lookup(c)
  PROVE  Books'
  <1>1. FunctionalToo'
    <2> HIDE DEF Inv, Written, Fresh, Late, Stopped, Permits, Known
    <2> QED
      BY ExecAssumption DEF Lookup, Fault
  <1>5. Fresh'
    BY ExecAssumption DEF Lookup, Fault
  <1>2. Written' /\ Permits' /\ Known'
    BY ExecAssumption DEF Lookup, Fault
  <1>3. Late'
    BY ExecAssumption DEF Lookup, Fault
  <1>4. Stopped'
    BY ExecAssumption DEF Lookup, Fault
  <1> QED
    BY <1>1, <1>2, <1>3, <1>4, <1>5

LEMMA CreateBooks ==
  ASSUME Inv, Books, NEW c \in Calls, Create(c)
  PROVE  Books'
  <1>1. FunctionalToo' /\ Fresh'
    BY ExecAssumption DEF Create, Failed, Fault
  <1>2. Written' /\ Permits' /\ Known'
    BY ExecAssumption DEF Create, Failed, Fault
  <1>3. Late'
    BY ExecAssumption DEF Create, Failed, Fault
  <1>4. Stopped'
    BY ExecAssumption DEF Create, Failed, Fault
  <1> QED
    BY <1>1, <1>2, <1>3, <1>4

LEMMA PromptBooks ==
  ASSUME Inv, Books, NEW c \in Calls, Prompt(c)
  PROVE  Books'
  <1>1. FunctionalToo'
    <2> HIDE DEF Inv, Written, Fresh, Late, Stopped, Permits, Known
    <2> QED
      BY ExecAssumption DEF Prompt, Failed, Fault, Return
  <1>5. Fresh'
    BY ExecAssumption DEF Prompt, Failed, Fault, Return
  <1>2. Written' /\ Permits' /\ Known'
    BY ExecAssumption DEF Prompt, Failed, Fault, Return
  <1>3. Late'
    BY ExecAssumption DEF Prompt, Failed, Fault, Return
  <1>4. Stopped'
    BY ExecAssumption DEF Prompt, Failed, Fault, Return
  <1> QED
    BY <1>1, <1>2, <1>3, <1>4, <1>5

LEMMA ReplyBooks ==
  ASSUME Inv, Books, NEW c \in Calls, Reply(c)
  PROVE  Books'
  <1>1. FunctionalToo'
    <2> HIDE DEF Inv, Written, Fresh, Late, Stopped, Permits, Known
    <2> QED
      BY ExecAssumption DEF Reply, Failed, Fault, Return
  <1>5. Fresh'
    BY ExecAssumption DEF Reply, Failed, Fault, Return
  <1>2. Written' /\ Permits' /\ Known'
    BY ExecAssumption DEF Reply, Failed, Fault, Return
  <1>3. Late'
    BY ExecAssumption DEF Reply, Failed, Fault, Return
  <1>4. Stopped'
    BY ExecAssumption DEF Reply, Failed, Fault, Return
  <1> QED
    BY <1>1, <1>2, <1>3, <1>4, <1>5

LEMMA TimesOutBooks ==
  ASSUME Inv, Books, NEW c \in Calls, TimesOut(c)
  PROVE  Books'
  BY ExecAssumption DEF TimesOut, Blame

LEMMA AbortBooks ==
  ASSUME Inv, Books, NEW c \in Calls, Abort(c)
  PROVE  Books'
  BY ExecAssumption DEF Abort, Failed, Blame

LEMMA SavePatternsBooks ==
  ASSUME Inv, Books, NEW c \in Calls, SavePatterns(c)
  PROVE  Books'
  BY ExecAssumption DEF SavePatterns, Recording

LEMMA UpdateRowBooks ==
  ASSUME Inv, Books, NEW c \in Calls, UpdateRow(c)
  PROVE  Books'
  BY ExecAssumption DEF UpdateRow, Recording

LEMMA ResumeBooks ==
  ASSUME Inv, Books, NEW c \in Calls, Resume(c)
  PROVE  Books'
  BY ExecAssumption, SMTT(60) DEF Resume, Decided, Follow, TellClients, TakesFallback, Notify, TellError, Fault, Blame

LEMMA RunApprovedBooks ==
  ASSUME Inv, Books, NEW c \in Calls, RunApproved(c)
  PROVE  Books'
  <1>1. FunctionalToo'
    <2> HIDE DEF Inv, Written, Fresh, Late, Stopped, Permits, Known
    <2> QED
      BY ExecAssumption DEF RunApproved, Again, Starts, AddSession, TellError, Fault, Blame
  <1>2. Written'
    BY ExecAssumption DEF RunApproved, Again, Starts, AddSession, TellError, Fault, Blame
  <1>3. Fresh' /\ Late'
    BY ExecAssumption DEF RunApproved, Again, Starts, AddSession, TellError, Fault, Blame
  <1>4. Stopped'
    BY ExecAssumption DEF RunApproved, Again, Starts, AddSession, TellError, Fault, Blame
  <1>5. Permits' /\ Known'
    BY ExecAssumption DEF RunApproved, Again, Starts, AddSession, TellError, Fault, Blame
  <1> QED
    BY <1>1, <1>2, <1>3, <1>4, <1>5

LEMMA SandboxEndsBooks ==
  ASSUME Inv, Books, NEW c \in Calls, SandboxEnds(c)
  PROVE  Books'
  <1>1. FunctionalToo'
    <2> HIDE DEF Inv, Written, Fresh, Late, Stopped, Permits, Known
    <2> QED
      BY ExecAssumption DEF SandboxEnds, MarkExited, Notify, TellError, Fault, Blame
  <1>5. Fresh'
    BY ExecAssumption DEF SandboxEnds, MarkExited, Notify, TellError, Fault, Blame
  <1>2. Written' /\ Permits' /\ Known'
    BY ExecAssumption DEF SandboxEnds, MarkExited, Notify, TellError, Fault, Blame
  <1>3. Late'
    BY ExecAssumption DEF SandboxEnds, MarkExited, Notify, TellError, Fault, Blame
  <1>4. Stopped'
    BY ExecAssumption DEF SandboxEnds, MarkExited, Notify, TellError, Fault, Blame
  <1> QED
    BY <1>1, <1>2, <1>3, <1>4, <1>5

LEMMA YieldBooks ==
  ASSUME Inv, Books, NEW c \in Calls, Yield(c)
  PROVE  Books'
  BY ExecAssumption DEF Yield

LEMMA NetBooks ==
  ASSUME Inv, Books, NEW c \in Calls, Net(c)
  PROVE  Books'
  <1>1. FunctionalToo'
    BY DEF Net, NetKills, MarkExited, OnExit, Notify, Fault, Blame, approvals
  <1>2. /\ UNCHANGED <<call, aborted, verdict, rec, row, saved, after, bcast>>
        /\ \A d \in Calls : child'[d] # "none" <=> child[d] # "none"
        /\ child[c] # "none" /\ running' \cup nets' \subseteq running \cup nets
    BY DEF Net, NetKills, MarkExited
  <1>3. \A d \in Calls : d # c => notice'[d] = notice[d] /\ cause'[d] = cause[d]
    BY DEF Net, OnExit, Notify, Fault, Blame
  <1>4. "stopped" \in cause'[c] => "stopped" \in cause[c]
    BY DEF Net, OnExit, Notify, Fault, Blame
  <1>5. \A d \in Calls : "slow" \in cause[d] => "slow" \in cause'[d]
    BY DEF Net, OnExit, Notify, Fault, Blame
  <1> QED
    BY <1>1, <1>2, <1>3, <1>4, <1>5

LEMMA ExitsBooks ==
  ASSUME Inv, Books, NEW c \in Calls, Exits(c)
  PROVE  Books'
  <1>1. FunctionalToo'
    <2> HIDE DEF Inv, Written, Fresh, Late, Stopped, Permits, Known
    <2> QED
      BY ExecAssumption DEF Exits, MarkExited, OnExit, Notify, Fault, Blame
  <1>5. Fresh'
    BY ExecAssumption DEF Exits, MarkExited, OnExit, Notify, Fault, Blame
  <1>2. Written' /\ Permits' /\ Known'
    BY ExecAssumption DEF Exits, MarkExited, OnExit, Notify, Fault, Blame
  <1>3. Late'
    BY ExecAssumption DEF Exits, MarkExited, OnExit, Notify, Fault, Blame
  <1>4. Stopped'
    BY ExecAssumption DEF Exits, MarkExited, OnExit, Notify, Fault, Blame
  <1> QED
    BY <1>1, <1>2, <1>3, <1>4, <1>5

LEMMA KillBooks ==
  ASSUME Inv, Books, NEW c \in Calls, Kill(c)
  PROVE  Books'
  BY ExecAssumption DEF Kill, KillSession, approvals

LEMMA DropBooks ==
  ASSUME Inv, Books, NEW c \in Calls, Drop(c)
  PROVE  Books'
  BY ExecAssumption DEF Drop, Clear, approvals

LEMMA DeathBooks ==
  ASSUME Inv, Books, NEW c \in Calls, Death(c)
  PROVE  Books'
  BY ExecAssumption DEF Death, Dies, approvals

LEMMA EvictedBooks ==
  ASSUME Inv, Books, NEW c \in Calls, Evicted(c)
  PROVE  Books'
  BY ExecAssumption DEF Evicted, Evict, Blame

LEMMA DecideBooks ==
  ASSUME Inv, Books, NEW k \in Clicks, Decide(k)
  PROVE  Books'
  <1>1. FunctionalToo' /\ Fresh'
    BY ExecAssumption, SMTT(60) DEF Decide, Settles, Fault
  <1>5. Permits' /\ Known'
    BY ExecAssumption DEF Decide, Settles, Fault
  <1>2. Written'
    <2> DEFINE c == CallOf[k]
    <2>1. c \in Calls /\ UNCHANGED <<rec, row, saved, after, child, notice>>
      BY ExecAssumption DEF Decide
    <2>2. CASE verdict' = verdict
      BY <2>1, <2>2
    <2>3. CASE verdict' # verdict
      <3>1. verdict[c] = "open" /\ \A d \in Calls : d # c => verdict'[d] = verdict[d]
        BY <2>1, <2>3 DEF Decide, Settles
      <3>2. /\ rec[c] = "none" /\ after[c] \notin {"run", "inside", "over"}
            /\ child[c] = "none" /\ notice[c] = {}
        BY <2>1, <3>1
      <3> QED
        BY <2>1, <3>1, <3>2
    <2> QED
      BY <2>2, <2>3
  <1>3. Late'
    BY ExecAssumption DEF Decide, Settles, Fault
  <1>4. Stopped'
    BY ExecAssumption DEF Decide, Settles, Fault
  <1> QED
    BY <1>1, <1>2, <1>3, <1>4, <1>5

LEMMA CrashBooks ==
  ASSUME Inv, Books, CrashAndRestart
  PROVE  Books'
  BY DEF CrashAndRestart, Forget, Fault, Recording

LEMMA StepBooks ==
  ASSUME Inv, Books, [Next]_vars
  PROVE  Books'
  <1>1. CASE UNCHANGED vars
    BY <1>1 DEF vars, approvals
  <1>2. ASSUME NEW c \in Calls,
               Begin(c) \/ Asks(c) \/ TimesOut(c) \/ Abort(c) \/ Records(c)
        PROVE  Books'
    BY <1>2, BeginBooks, PolicyBooks, LookupBooks, CreateBooks, PromptBooks, ReplyBooks,
       TimesOutBooks, AbortBooks, SavePatternsBooks, UpdateRowBooks DEF Asks, Records
  <1>3. ASSUME NEW c \in Calls,
               Follows(c) \/ SandboxEnds(c) \/ Yield(c) \/ Net(c) \/ Commands(c)
        PROVE  Books'
    BY <1>3, ResumeBooks, RunApprovedBooks, SandboxEndsBooks, YieldBooks, NetBooks,
       ExitsBooks, KillBooks, DropBooks, DeathBooks, EvictedBooks DEF Follows, Commands
  <1>4. ASSUME NEW k \in Clicks, Decide(k)
        PROVE  Books'
    BY <1>4, DecideBooks
  <1>5. CASE CrashAndRestart
    BY <1>5, CrashBooks
  <1> QED
    BY <1>1, <1>2, <1>3, <1>4, <1>5 DEF Next

LEMMA AlwaysBooks == Spec => [](Inv /\ Books)
  <1>1. Init => Inv /\ Books
    BY Initially, BooksInitially
  <1>2. Inv /\ Books /\ [Next]_vars => (Inv /\ Books)'
    BY StepKeeps, StepBooks
  <1> QED
    BY <1>1, <1>2, PTL DEF Spec, Safe

\* When a command is started on a verdict, or the verdict is told, the verdict is
\* in the table and what was allowed always is in the allowlist
\* (exec-approval.service.ts recordResolvedOutcome, exec.tool.ts).
THEOREM RecordsComeFirst == Spec => []RecordedFirst
  <1>1. Inv /\ Books => RecordedFirst
    BY DEF RecordedFirst
  <1> QED
    BY <1>1, AlwaysBooks, PTL

\* A call that was aborted while its approval was open is not run, unless the
\* approval had timed out before anybody looked (exec-approval.service.ts
\* requestExecApprovalPending).
THEOREM AbortsAreHonoured == Spec => []AbortHonoured
  <1>1. Inv /\ Books => AbortHonoured
    BY DEF AbortHonoured
  <1> QED
    BY <1>1, AlwaysBooks, PTL

----------------------------------------------------------------------------
(* The clients of the gateway learn of the end of a request, and a command *)
(* that runs can be reached.                                               *)

\* A decision was made by a click, which is broadcast unless it was made in Slack;
\* and what follows a request comes after its broadcast.
Clicked ==
    \A c \in Calls :
        /\ verdict[c] \in Decisions => \E k \in Clicks :
              /\ CallOf[k] = c /\ click[k] = "ok"
              /\ k \in Rpc /\ call[c] # "lost" => "resolved" \in bcast[c]
        /\ call[c] = "lost" => after[c] = "none"
        /\ after[c] \in {"run", "inside"} => c \notin Remote
        /\ c \in Remote /\ after[c] # "none" => "requested" \in bcast[c]
        /\ c \in Remote /\ after[c] = "over" =>
              verdict[c] \in Decisions \/ "resolved" \in bcast[c]

\* A command in a container is never in the background, nor waited for as those
\* of the host are; and the process knows of what it started.
Apart ==
    \A c \in Calls :
        /\ child[c] = "boxed" => c \notin background /\ call[c] # "waiting"
        /\ c \in background \/ call[c] = "waiting" => child[c] # "none"
        /\ child[c] # "none" => call[c] # "none"

Ends == Clicked /\ Apart /\ Reachable

USE DEF Ends, Clicked, Apart, Reachable, Owned

LEMMA EndsInitially == Init => Ends
  BY DEF Init, RegistryInit

LEMMA BeginEnds ==
  ASSUME Inv, Books, Ends, NEW c \in Calls, Begin(c)
  PROVE  Ends'
  <1>1. Clicked'
    BY ExecAssumption DEF Begin
  <1>2. Apart' /\ Reachable'
    BY ExecAssumption DEF Begin
  <1> QED
    BY <1>1, <1>2

\* A command that starts is in the map, and who had to leave it was evicted.
LEMMA StartsInMap ==
  ASSUME Known, NEW c \in Calls, NEW as, NEW b \in BOOLEAN, Starts(c, as, b)
  PROVE  /\ child' = [child EXCEPT ![c] = as]
         /\ background' = IF b THEN background \cup {c} ELSE background
         /\ c \in running'
         /\ \A d \in running : d \in running' \/ "evicted" \in cause'[d]
         /\ \A d \in Calls : cause[d] \subseteq cause'[d]
  <1>1. c \in running' /\ (running' = running \cup {c}
                           \/ \E o \in running : running' = (running \ {o}) \cup {c})
    BY DEF Starts, AddSession
  <1>2. cause' = Blame(running \ running', "evicted")
    BY DEF Starts
  <1>3. \A d \in running : d \in running' \/ "evicted" \in cause'[d]
    BY <1>2 DEF Blame
  <1>4. \A d \in Calls : cause[d] \subseteq cause'[d]
    BY <1>2 DEF Blame
  <1> QED
    BY <1>1, <1>3, <1>4 DEF Starts, AddSession

\* So the commands can be reached after it.
LEMMA StartsReachable ==
  ASSUME Functional, Known, Apart, Reachable,
         NEW c \in Calls, NEW as \in {"alive", "boxed"}, NEW b \in BOOLEAN,
         Starts(c, as, b), as = "boxed" => ~b /\ call'[c] # "waiting",
         call[c] # "none", child[c] = "none", call'[c] # "none",
         \A d \in Calls : d # c =>
            /\ call'[d] = call[d] \/ (call[d] = "none" /\ call'[d] = "lookup")
  PROVE  Apart' /\ Reachable'
  <1>1. /\ child' = [child EXCEPT ![c] = as]
        /\ background' = IF b THEN background \cup {c} ELSE background
        /\ c \in running'
        /\ \A d \in running : d \in running' \/ "evicted" \in cause'[d]
        /\ \A d \in Calls : cause[d] \subseteq cause'[d]
    BY StartsInMap, ZenonT(60)
  <1>2. ASSUME NEW d \in Calls
        PROVE  /\ child'[d] = "boxed" => d \notin background' /\ call'[d] # "waiting"
               /\ d \in background' \/ call'[d] = "waiting" => child'[d] # "none"
               /\ child'[d] # "none" => call'[d] # "none"
    <2>1. CASE d = c
      BY <1>1, <2>1
    <2>2. CASE d # c
      BY <1>1, <2>2
    <2> QED
      BY <2>1, <2>2
  <1>3. ASSUME NEW d \in Calls, child'[d] \in {"alive", "boxed"}, call'[d] # "lost"
        PROVE  d \in running' \/ {"evicted", "escalated"} \cap cause'[d] # {}
    <2>1. CASE d = c
      BY <1>1, <2>1
    <2>2. CASE d # c
      <3>1. child[d] \in {"alive", "boxed"} /\ call[d] # "lost"
        BY <1>1, <1>3, <2>2
      <3>2. d \in running \/ {"evicted", "escalated"} \cap cause[d] # {}
        BY <3>1
      <3> QED
        BY <1>1, <3>2
    <2> QED
      BY <2>1, <2>2
  <1> QED
    BY <1>2, <1>3

LEMMA PolicyEnds ==
  ASSUME Inv, Books, Ends, NEW c \in Calls, Policy(c)
  PROVE  Ends'
  <1>1. Clicked'
    BY ExecAssumption DEF Policy, NeedsApproval, Starts, AddSession, Fault, Blame
  <1>2. Apart' /\ Reachable'
    <2>1. /\ Functional /\ Known /\ Apart /\ Reachable
          /\ call[c] = "policy" /\ child[c] = "none"
      BY DEF Policy
    <2> HIDE DEF Inv, Books, Ends, Known, FunctionalToo
    <2>2. ASSUME NEW as \in {"alive", "boxed"}, NEW b \in BOOLEAN, NEW at,
                 Starts(c, as, b), Goes(c, at), at \notin {"none", "lost"},
                 as = "boxed" => ~b /\ at # "waiting"
          PROVE  Apart' /\ Reachable'
      <3>1. call'[c] = at /\ \A d \in Calls : d # c => call'[d] = call[d]
        BY <2>1, <2>2
      <3> HIDE DEF Apart, Reachable, Functional
      <3> QED
        BY <2>1, <2>2, <3>1, StartsReachable
    <2>3. ASSUME NEW at \in {"threw", "lookup", "denied"}, Goes(c, at), UNCHANGED registry,
                 cause' = cause \/ cause' = Blame({c}, "stopped")
          PROVE  Apart' /\ Reachable'
      BY <2>1, <2>3 DEF Blame
    <2> QED
      BY <2>2, <2>3 DEF Policy
  <1> QED
    BY <1>1, <1>2

LEMMA LookupEnds ==
  ASSUME Inv, Books, Ends, NEW c \in Calls, Lookup(c)
  PROVE  Ends'
  <1>1. Clicked'
    BY ExecAssumption DEF Lookup, Fault
  <1>2. Apart' /\ Reachable'
    <2>1. /\ UNCHANGED <<child, background, running, cause>>
          /\ \E at \in {"threw", "denied", "create"} : call' = [call EXCEPT ![c] = at]
          /\ call[c] = "lookup"
      BY DEF Lookup
    <2>2. Apart /\ Reachable /\ Functional
      OBVIOUS
    <2> HIDE DEF Inv, Books, Ends
    <2> QED
      BY <2>1, <2>2
  <1> QED
    BY <1>1, <1>2

LEMMA CreateEnds ==
  ASSUME Inv, Books, Ends, NEW c \in Calls, Create(c)
  PROVE  Ends'
  <1>1. Clicked'
    BY ExecAssumption DEF Create, Failed, Fault
  <1>2. Apart' /\ Reachable'
    BY ExecAssumption DEF Create, Failed, Fault
  <1> QED
    BY <1>1, <1>2

LEMMA PromptEnds ==
  ASSUME Inv, Books, Ends, NEW c \in Calls, Prompt(c)
  PROVE  Ends'
  <1>1. Clicked'
    BY ExecAssumption DEF Prompt, Failed, Fault, Return
  <1>2. Apart' /\ Reachable'
    BY ExecAssumption DEF Prompt, Failed, Fault, Return
  <1> QED
    BY <1>1, <1>2

LEMMA ReplyEnds ==
  ASSUME Inv, Books, Ends, NEW c \in Calls, Reply(c)
  PROVE  Ends'
  <1>1. Clicked'
    BY ExecAssumption DEF Reply, Failed, Fault, Return
  <1>2. Apart' /\ Reachable'
    BY ExecAssumption DEF Reply, Failed, Fault, Return
  <1> QED
    BY <1>1, <1>2

LEMMA TimesOutEnds ==
  ASSUME Inv, Books, Ends, NEW c \in Calls, TimesOut(c)
  PROVE  Ends'
  <1>1. Clicked'
    BY ExecAssumption DEF TimesOut, Blame
  <1>2. Apart' /\ Reachable'
    BY ExecAssumption DEF TimesOut, Blame
  <1> QED
    BY <1>1, <1>2

LEMMA AbortEnds ==
  ASSUME Inv, Books, Ends, NEW c \in Calls, Abort(c)
  PROVE  Ends'
  <1>1. Clicked'
    BY ExecAssumption DEF Abort, Failed, Blame
  <1>2. Apart' /\ Reachable'
    BY ExecAssumption DEF Abort, Failed, Blame
  <1> QED
    BY <1>1, <1>2

LEMMA SavePatternsEnds ==
  ASSUME Inv, Books, Ends, NEW c \in Calls, SavePatterns(c)
  PROVE  Ends'
  <1>1. Clicked'
    BY ExecAssumption DEF SavePatterns, Recording
  <1>2. Apart' /\ Reachable'
    BY ExecAssumption DEF SavePatterns, Recording
  <1> QED
    BY <1>1, <1>2

LEMMA UpdateRowEnds ==
  ASSUME Inv, Books, Ends, NEW c \in Calls, UpdateRow(c)
  PROVE  Ends'
  <1>1. Clicked'
    BY ExecAssumption DEF UpdateRow, Recording
  <1>2. Apart' /\ Reachable'
    BY ExecAssumption DEF UpdateRow, Recording
  <1> QED
    BY <1>1, <1>2

LEMMA ResumeEnds ==
  ASSUME Inv, Books, Ends, NEW c \in Calls, Resume(c)
  PROVE  Ends'
  <1>1. Clicked'
    BY ExecAssumption DEF Resume, Decided, Follow, TellClients, TakesFallback, Notify, TellError, Fault, Blame
  <1>2. Apart' /\ Reachable'
    BY ExecAssumption DEF Resume, Decided, Follow, TellClients, TakesFallback, Notify, TellError, Fault, Blame
  <1> QED
    BY <1>1, <1>2

LEMMA RunApprovedEnds ==
  ASSUME Inv, Books, Ends, NEW c \in Calls, RunApproved(c)
  PROVE  Ends'
  <1>1. /\ Functional /\ Known /\ Apart /\ Reachable /\ Clicked
        /\ after[c] = "run" /\ child[c] = "none" /\ call[c] # "none"
        /\ cause \in [Calls -> SUBSET {"evicted", "escalated", "unheard", "slow", "stopped",
                                       "again"}]
    BY DEF RunApproved
  <1> HIDE DEF Inv, Books, FunctionalToo, Known
  <1>2. \A d \in Calls : call'[d] = call[d] \/ (call[d] = "none" /\ call'[d] = "lookup")
    <2> HIDE DEF Apart, Reachable, Clicked
    <2>1. call' = call \/ (Again(c) /\ Goes(AgainOf[c], "lookup"))
      BY DEF RunApproved
    <2> QED
      BY <1>1, <2>1, ExecAssumption DEF Again
  <1>3. Clicked'
    <2>1. UNCHANGED <<verdict, click, bcast>>
      BY DEF RunApproved
    <2> HIDE DEF Apart, Reachable
    <2>2. /\ after'[c] \in {"over", "inside"} /\ \A d \in Calls : d # c => after'[d] = after[d]
      <3> HIDE DEF Clicked
      <3>1. Then(c, "over") \/ Then(c, "inside")
        BY DEF RunApproved
      <3> QED
        BY <1>1, <3>1
    <2> QED
      BY <1>1, <1>2, <2>1, <2>2
  <1>4. Apart' /\ Reachable'
    <2> HIDE DEF Clicked
    <2>1. ASSUME NEW as \in {"alive", "boxed"}, NEW b \in BOOLEAN,
                 Starts(c, as, b), UNCHANGED call, as = "boxed" => ~b
          PROVE  Apart' /\ Reachable'
      <3>1. as = "boxed" => ~b /\ call'[c] # "waiting"
        BY <1>1, <2>1
      <3> HIDE DEF Apart, Reachable, Functional
      <3> QED
        BY <1>1, <2>1, <3>1, StartsReachable
    <2>2. ASSUME UNCHANGED registry, \A d \in Calls : cause[d] \subseteq cause'[d]
          PROVE  Apart' /\ Reachable'
      BY <1>1, <1>2, <2>2
    <2>3. \A S \in SUBSET Calls, why \in {"again", "unheard"} :
            cause' = Blame(S, why) => \A d \in Calls : cause[d] \subseteq cause'[d]
      BY DEF Blame
    <2>4. CASE UNCHANGED registry
      <3>1. \/ UNCHANGED cause
            \/ cause' = Blame({c}, "unheard")
            \/ AgainOf[c] # None /\ cause' = Blame({AgainOf[c]}, "again")
            \/ \E as \in {"alive", "boxed"}, b \in BOOLEAN :
                  Starts(c, as, b) /\ UNCHANGED call /\ (as = "boxed" => ~b)
        BY DEF RunApproved, TellError, Again
      <3> QED
        BY <2>1, <2>2, <2>3, <2>4, <3>1, ExecAssumption
    <2>5. CASE \E as \in {"alive", "boxed"}, b \in BOOLEAN :
                 Starts(c, as, b) /\ UNCHANGED call /\ (as = "boxed" => ~b)
      BY <2>1, <2>5
    <2> QED
      BY <2>4, <2>5 DEF RunApproved
  <1> QED
    BY <1>3, <1>4 DEF Ends

LEMMA SandboxEndsEnds ==
  ASSUME Inv, Books, Ends, NEW c \in Calls, SandboxEnds(c)
  PROVE  Ends'
  <1>1. Clicked'
    <2>1. /\ UNCHANGED <<verdict, click, bcast>>
          /\ \A d \in Calls : call'[d] = call[d] \/ (call[d] = "inside" /\ call'[d] = "done")
          /\ \A d \in Calls : after'[d] = after[d] \/ (after[d] = "inside" /\ after'[d] = "over")
      BY DEF SandboxEnds
    <2> QED
      BY <2>1
  <1>2. Apart' /\ Reachable'
    BY ExecAssumption DEF SandboxEnds, MarkExited, Notify, TellError, Fault, Blame
  <1> QED
    BY <1>1, <1>2

LEMMA YieldEnds ==
  ASSUME Inv, Books, Ends, NEW c \in Calls, Yield(c)
  PROVE  Ends'
  <1>1. Clicked'
    BY ExecAssumption DEF Yield
  <1>2. Apart' /\ Reachable'
    BY ExecAssumption DEF Yield
  <1> QED
    BY <1>1, <1>2

LEMMA NetEnds ==
  ASSUME Inv, Books, Ends, NEW c \in Calls, Net(c)
  PROVE  Ends'
  <1>1. Clicked'
    BY ExecAssumption DEF Net, NetKills, MarkExited, OnExit, Notify, Fault, Blame, approvals
  <1>2. Apart' /\ Reachable'
    <2>1. /\ UNCHANGED <<call, background>>
          /\ child' = [child EXCEPT ![c] = IF @ = "alive" THEN "dead" ELSE @]
          /\ running' = running \ {c}
          /\ c \notin background => "escalated" \in cause'[c]
          /\ \A d \in Calls : cause[d] \subseteq cause'[d]
      BY DEF Net, NetKills, MarkExited, OnExit, Notify, Fault, Blame
    <2> QED
      BY <2>1
  <1> QED
    BY <1>1, <1>2

LEMMA ExitsEnds ==
  ASSUME Inv, Books, Ends, NEW c \in Calls, Exits(c)
  PROVE  Ends'
  <1>1. Clicked'
    BY ExecAssumption DEF Exits, MarkExited, OnExit, Notify, Fault, Blame
  <1>2. Apart' /\ Reachable'
    BY ExecAssumption DEF Exits, MarkExited, OnExit, Notify, Fault, Blame
  <1> QED
    BY <1>1, <1>2

LEMMA KillEnds ==
  ASSUME Inv, Books, Ends, NEW c \in Calls, Kill(c)
  PROVE  Ends'
  <1>1. Clicked'
    BY ExecAssumption DEF Kill, KillSession, approvals
  <1>2. Apart' /\ Reachable'
    BY ExecAssumption DEF Kill, KillSession, approvals
  <1> QED
    BY <1>1, <1>2

LEMMA DropEnds ==
  ASSUME Inv, Books, Ends, NEW c \in Calls, Drop(c)
  PROVE  Ends'
  <1>1. Clicked'
    BY ExecAssumption DEF Drop, Clear, approvals
  <1>2. Apart' /\ Reachable'
    BY ExecAssumption DEF Drop, Clear, approvals
  <1> QED
    BY <1>1, <1>2

LEMMA DeathEnds ==
  ASSUME Inv, Books, Ends, NEW c \in Calls, Death(c)
  PROVE  Ends'
  <1>1. Clicked'
    BY ExecAssumption DEF Death, Dies, approvals
  <1>2. Apart' /\ Reachable'
    BY ExecAssumption DEF Death, Dies, approvals
  <1> QED
    BY <1>1, <1>2

LEMMA EvictedEnds ==
  ASSUME Inv, Books, Ends, NEW c \in Calls, Evicted(c)
  PROVE  Ends'
  <1>1. Clicked'
    BY ExecAssumption DEF Evicted, Evict, Blame
  <1>2. Apart' /\ Reachable'
    BY ExecAssumption DEF Evicted, Evict, Blame
  <1> QED
    BY <1>1, <1>2

LEMMA DecideEnds ==
  ASSUME Inv, Books, Ends, NEW k \in Clicks, Decide(k)
  PROVE  Ends'
  <1>1. Clicked'
    BY ExecAssumption DEF Decide, Settles, Fault
  <1>2. Apart' /\ Reachable'
    BY ExecAssumption DEF Decide, Settles, Fault
  <1> QED
    BY <1>1, <1>2

LEMMA CrashEnds ==
  ASSUME Inv, Books, Ends, CrashAndRestart
  PROVE  Ends'
  BY DEF CrashAndRestart, Forget, Fault, Recording

LEMMA StepEnds ==
  ASSUME Inv, Books, Ends, [Next]_vars
  PROVE  Ends'
  <1>1. CASE UNCHANGED vars
    BY <1>1 DEF vars, approvals
  <1>2. ASSUME NEW c \in Calls,
               Begin(c) \/ Asks(c) \/ TimesOut(c) \/ Abort(c) \/ Records(c)
        PROVE  Ends'
    BY <1>2, BeginEnds, PolicyEnds, LookupEnds, CreateEnds, PromptEnds, ReplyEnds,
       TimesOutEnds, AbortEnds, SavePatternsEnds, UpdateRowEnds DEF Asks, Records
  <1>3. ASSUME NEW c \in Calls,
               Follows(c) \/ SandboxEnds(c) \/ Yield(c) \/ Net(c) \/ Commands(c)
        PROVE  Ends'
    BY <1>3, ResumeEnds, RunApprovedEnds, SandboxEndsEnds, YieldEnds, NetEnds,
       ExitsEnds, KillEnds, DropEnds, DeathEnds, EvictedEnds DEF Follows, Commands
  <1>4. ASSUME NEW k \in Clicks, Decide(k)
        PROVE  Ends'
    BY <1>4, DecideEnds
  <1>5. CASE CrashAndRestart
    BY <1>5, CrashEnds
  <1> QED
    BY <1>1, <1>2, <1>3, <1>4, <1>5 DEF Next

LEMMA AlwaysEnds == Spec => []Ends
  <1>1. Init => Inv /\ Books /\ Ends
    BY Initially, BooksInitially, EndsInitially
  <1>2. Inv /\ Books /\ Ends /\ [Next]_vars => (Inv /\ Books /\ Ends)'
    BY StepKeeps, StepBooks, StepEnds
  <1> QED
    BY <1>1, <1>2, PTL DEF Spec, Safe

\* A command that runs can be seen and stopped by the process that started it,
\* unless it was evicted or its kill escalated (process-registry.ts).
THEOREM RunningIsReachable == Spec => []Reachable
  BY AlwaysEnds, PTL DEF Ends

\* The clients that were told of a request of the gateway are told of its end, or
\* it was decided in Slack (gateway/methods/exec-approval.ts).
THEOREM ClientsAreTold == Spec => []ClientsTold
  <1>1. ASSUME Clicked, NEW c \in Remote, after[c] = "over"
        PROVE  /\ "requested" \in bcast[c]
               /\ \/ "resolved" \in bcast[c]
                  \/ \E k \in Clicks \ Rpc : CallOf[k] = c /\ click[k] = "ok"
    <2>1. c \in Calls /\ call[c] # "lost" /\ "requested" \in bcast[c]
      BY <1>1, ExecAssumption
    <2>2. CASE verdict[c] \in Decisions
      <3>1. PICK k \in Clicks : /\ CallOf[k] = c /\ click[k] = "ok"
                                /\ k \in Rpc /\ call[c] # "lost" => "resolved" \in bcast[c]
        BY <1>1, <2>1, <2>2
      <3> QED
        BY <2>1, <3>1
    <2>3. CASE verdict[c] \notin Decisions
      BY <1>1, <2>1, <2>3
    <2> QED
      BY <2>2, <2>3
  <1>2. Clicked => ClientsTold
    <2> HIDE DEF Clicked
    <2> QED
      BY <1>1 DEF ClientsTold
  <1>3. Ends => ClientsTold
    BY <1>2 DEF Ends
  <1> QED
    BY <1>3, AlwaysEnds, PTL

----------------------------------------------------------------------------
(* The end of a command, and of what follows a decision, is told.          *)

\* An exit is told as an event only of a command in the background; and what the
\* call waits for is in the foreground, and not over.
Hushed ==
    \A c \in Calls :
        /\ "exit" \in notice[c] /\ Owned(c) => c \in background
        /\ call[c] = "waiting" => c \notin background /\ child[c] # "closed"

\* The end of the command of a call is told,
EndTold ==
    \A c \in Calls : child[c] = "closed" /\ Owned(c) =>
        \/ /\ c \notin background /\ "exit" \notin notice[c]
           /\ \/ call[c] = "done" \/ {"finished", "error"} \cap notice[c] # {}
              \/ "unheard" \in cause[c]
        \/ c \in background /\ c \notin Quiet /\ "exit" \in notice[c]
        \/ c \in background /\ (c \in Quiet \/ "unheard" \in cause[c])

\* and so is the end of what follows its decision.
Told(c) ==
    \/ child[c] # "none" \/ notice[c] # {} \/ "unheard" \in cause[c]
    \/ trait[c] = "untrusted"
    \/ AgainOf[c] # None /\ "again" \in cause[AgainOf[c]]

FollowTold == \A c \in Calls : after[c] = "over" /\ c \notin Remote => Told(c)

Accounts == Hushed /\ EndTold /\ FollowTold
USE DEF Accounts, Hushed, EndTold, FollowTold
HIDE DEF Clicked, Reachable, Written, Fresh, Late, Stopped, Permits, Known, Recalled, Cleared

LEMMA AccountsInitially == Init => Accounts
  BY DEF Init, RegistryInit

\* What was told stays told, whatever else a step does.
LEMMA FollowStays ==
  ASSUME FollowTold,
         \A d \in Calls :
            /\ child[d] # "none" => child'[d] # "none"
            /\ notice[d] \subseteq notice'[d] /\ cause[d] \subseteq cause'[d],
         \A d \in Calls : after'[d] = "over" /\ d \notin Remote =>
            (after[d] = "over" /\ trait'[d] = trait[d]) \/ Told(d)'
  PROVE  FollowTold'
  <1> SUFFICES ASSUME NEW d \in Calls, after'[d] = "over", d \notin Remote, ~Told(d)'
               PROVE  FALSE
    OBVIOUS
  <1>1. after[d] = "over" /\ trait'[d] = trait[d] /\ Told(d)
    OBVIOUS
  <1>2. AgainOf[d] # None => AgainOf[d] \in Calls
    BY ExecAssumption
  <1> QED
    BY <1>1, <1>2 DEF Told

LEMMA BeginAccounts ==
  ASSUME Inv, Books, Ends, Accounts, NEW c \in Calls, Begin(c)
  PROVE  Accounts'
  <1>1. Hushed'
    BY ExecAssumption DEF Begin
  <1>2. EndTold'
    BY ExecAssumption DEF Begin
  <1>3. FollowTold'
    <2>1. \A d \in Calls :
            /\ child[d] # "none" => child'[d] # "none"
            /\ notice[d] \subseteq notice'[d] /\ cause[d] \subseteq cause'[d]
      BY DEF Begin
    <2>2. \A d \in Calls : after'[d] = "over" /\ d \notin Remote =>
            (after[d] = "over" /\ trait'[d] = trait[d]) \/ Told(d)'
      BY ExecAssumption DEF Begin
    <2> HIDE DEF FollowTold
    <2> QED
      BY <2>1, <2>2, FollowStays
  <1> QED
    BY <1>1, <1>2, <1>3

LEMMA PolicyAccounts ==
  ASSUME Inv, Books, Ends, Accounts, NEW c \in Calls, Policy(c)
  PROVE  Accounts'
  <1>1. Hushed'
    BY ExecAssumption DEF Policy, NeedsApproval, Starts, AddSession, Fault, Blame
  <1>2. EndTold'
    BY ExecAssumption DEF Policy, NeedsApproval, Starts, AddSession, Fault, Blame
  <1>3. FollowTold'
    <2>1. \A d \in Calls :
            /\ child[d] # "none" => child'[d] # "none"
            /\ notice[d] \subseteq notice'[d] /\ cause[d] \subseteq cause'[d]
      BY DEF Policy, NeedsApproval, Starts, AddSession, Fault, Blame
    <2>2. \A d \in Calls : after'[d] = "over" /\ d \notin Remote =>
            (after[d] = "over" /\ trait'[d] = trait[d]) \/ Told(d)'
      BY ExecAssumption DEF Policy, NeedsApproval, Starts, AddSession, Fault, Blame
    <2> HIDE DEF FollowTold
    <2> QED
      BY <2>1, <2>2, FollowStays
  <1> QED
    BY <1>1, <1>2, <1>3

LEMMA LookupAccounts ==
  ASSUME Inv, Books, Ends, Accounts, NEW c \in Calls, Lookup(c)
  PROVE  Accounts'
  <1>1. Hushed'
    BY ExecAssumption DEF Lookup, Fault
  <1>2. EndTold'
    BY ExecAssumption DEF Lookup, Fault
  <1>3. FollowTold'
    BY ExecAssumption DEF Lookup, Fault, Told
  <1> QED
    BY <1>1, <1>2, <1>3

LEMMA CreateAccounts ==
  ASSUME Inv, Books, Ends, Accounts, NEW c \in Calls, Create(c)
  PROVE  Accounts'
  <1>1. Hushed'
    BY ExecAssumption DEF Create, Failed, Fault
  <1>2. EndTold'
    BY ExecAssumption DEF Create, Failed, Fault
  <1>3. FollowTold'
    BY ExecAssumption DEF Create, Failed, Fault, Told
  <1> QED
    BY <1>1, <1>2, <1>3

LEMMA PromptAccounts ==
  ASSUME Inv, Books, Ends, Accounts, NEW c \in Calls, Prompt(c)
  PROVE  Accounts'
  <1>1. Hushed'
    BY ExecAssumption DEF Prompt, Failed, Fault, Return
  <1>2. EndTold'
    BY ExecAssumption DEF Prompt, Failed, Fault, Return
  <1>3. FollowTold'
    BY ExecAssumption DEF Prompt, Failed, Fault, Return, Told
  <1> QED
    BY <1>1, <1>2, <1>3

LEMMA ReplyAccounts ==
  ASSUME Inv, Books, Ends, Accounts, NEW c \in Calls, Reply(c)
  PROVE  Accounts'
  <1>1. Hushed'
    BY ExecAssumption DEF Reply, Failed, Fault, Return
  <1>2. EndTold'
    BY ExecAssumption DEF Reply, Failed, Fault, Return
  <1>3. FollowTold'
    BY ExecAssumption DEF Reply, Failed, Fault, Return, Told
  <1> QED
    BY <1>1, <1>2, <1>3

LEMMA TimesOutAccounts ==
  ASSUME Inv, Books, Ends, Accounts, NEW c \in Calls, TimesOut(c)
  PROVE  Accounts'
  <1>1. Hushed'
    BY ExecAssumption DEF TimesOut, Blame
  <1>2. EndTold'
    BY ExecAssumption DEF TimesOut, Blame
  <1>3. FollowTold'
    <2>1. \A d \in Calls :
            /\ child[d] # "none" => child'[d] # "none"
            /\ notice[d] \subseteq notice'[d] /\ cause[d] \subseteq cause'[d]
      BY DEF TimesOut, Blame
    <2>2. \A d \in Calls : after'[d] = "over" /\ d \notin Remote =>
            (after[d] = "over" /\ trait'[d] = trait[d]) \/ Told(d)'
      BY ExecAssumption DEF TimesOut, Blame
    <2> HIDE DEF FollowTold
    <2> QED
      BY <2>1, <2>2, FollowStays
  <1> QED
    BY <1>1, <1>2, <1>3

LEMMA AbortAccounts ==
  ASSUME Inv, Books, Ends, Accounts, NEW c \in Calls, Abort(c)
  PROVE  Accounts'
  <1>1. Hushed'
    BY ExecAssumption DEF Abort, Failed, Blame
  <1>2. EndTold'
    BY ExecAssumption DEF Abort, Failed, Blame
  <1>3. FollowTold'
    BY ExecAssumption DEF Abort, Failed, Blame, Told
  <1> QED
    BY <1>1, <1>2, <1>3

LEMMA SavePatternsAccounts ==
  ASSUME Inv, Books, Ends, Accounts, NEW c \in Calls, SavePatterns(c)
  PROVE  Accounts'
  <1>1. Hushed'
    BY ExecAssumption DEF SavePatterns
  <1>2. EndTold'
    BY ExecAssumption DEF SavePatterns
  <1>3. FollowTold'
    BY ExecAssumption DEF SavePatterns, Told
  <1> QED
    BY <1>1, <1>2, <1>3

LEMMA UpdateRowAccounts ==
  ASSUME Inv, Books, Ends, Accounts, NEW c \in Calls, UpdateRow(c)
  PROVE  Accounts'
  <1>1. Hushed'
    BY ExecAssumption DEF UpdateRow
  <1>2. EndTold'
    BY ExecAssumption DEF UpdateRow
  <1>3. FollowTold'
    BY ExecAssumption DEF UpdateRow, Told
  <1> QED
    BY <1>1, <1>2, <1>3

LEMMA ResumeAccounts ==
  ASSUME Inv, Books, Ends, Accounts, NEW c \in Calls, Resume(c)
  PROVE  Accounts'
  <1>1. Hushed'
    BY ExecAssumption DEF Resume, Follow, TellClients, TakesFallback, Notify, TellError, Fault, Blame
  <1>2. EndTold'
    BY ExecAssumption DEF Resume, Follow, TellClients, TakesFallback, Notify, TellError, Fault, Blame
  <1>3. FollowTold'
    <2>1. \A d \in Calls :
            /\ child[d] # "none" => child'[d] # "none"
            /\ notice[d] \subseteq notice'[d] /\ cause[d] \subseteq cause'[d]
      BY DEF Resume, Follow, TellClients, TakesFallback, Notify, TellError, Fault, Blame
    <2>2. \A d \in Calls : after'[d] = "over" /\ d \notin Remote =>
            (after[d] = "over" /\ trait'[d] = trait[d]) \/ Told(d)'
      <3>1. trait' = trait /\ \A d \in Calls : d # c => after'[d] = after[d]
        BY DEF Resume, Follow, TellClients
      <3>2. CASE c \notin Remote /\ after'[c] = "over"
        <4>1. notice'[c] # {} \/ "unheard" \in cause'[c]
          <5>1. after' # [after EXCEPT ![c] = "run"]
            BY <3>2
          <5>2. notice \in [Calls -> SUBSET Keys]
            OBVIOUS
          <5> HIDE DEF Inv, Books, Ends, Accounts
          <5>3. \/ \E what \in Keys : notice' = [notice EXCEPT ![c] = @ \cup {what}]
                \/ cause' = Blame({c}, "unheard")
            BY <3>2, <5>1 DEF Resume, Follow, TellClients, Notify, TellError
          <5> QED
            BY <5>2, <5>3 DEF Blame
        <4> QED
          BY <3>1, <4>1 DEF Told
      <3>3. CASE ~(c \notin Remote /\ after'[c] = "over")
        BY <3>1, <3>3
      <3> QED
        BY <3>2, <3>3
    <2> HIDE DEF FollowTold
    <2> QED
      BY <2>1, <2>2, FollowStays
  <1> QED
    BY <1>1, <1>2, <1>3

LEMMA RunApprovedAccounts ==
  ASSUME Inv, Books, Ends, Accounts, NEW c \in Calls, RunApproved(c)
  PROVE  Accounts'
  <1>1. Hushed'
    BY ExecAssumption DEF RunApproved, Again, Starts, AddSession, TellError, Fault, Blame
  <1>2. EndTold'
    BY ExecAssumption DEF RunApproved, Again, Starts, AddSession, TellError, Fault, Blame
  <1>3. FollowTold'
    <2>1. \A d \in Calls :
            /\ child[d] # "none" => child'[d] # "none"
            /\ notice[d] \subseteq notice'[d] /\ cause[d] \subseteq cause'[d]
      BY DEF RunApproved, Again, Starts, AddSession, TellError, Fault, Blame
    <2>2. \A d \in Calls : after'[d] = "over" /\ d \notin Remote =>
            (after[d] = "over" /\ trait'[d] = trait[d]) \/ Told(d)'
      <3>1. \A d \in Calls : d # c => after'[d] = after[d]
        BY DEF RunApproved, Starts
      <3>2. \A d \in Calls : after[d] = "over" => trait'[d] = trait[d]
        <4>1. \A d \in Calls : after[d] = "over" => call[d] # "none"
          OBVIOUS
        <4>2. trait \in [Calls -> Traits]
          OBVIOUS
        <4> HIDE DEF Inv, Books, Ends, Accounts
        <4>3. \/ trait' = trait
              \/ /\ AgainOf[c] # None /\ call[AgainOf[c]] = "none"
                 /\ trait' = [trait EXCEPT ![AgainOf[c]] = "obfuscated"]
          BY DEF RunApproved, Again
        <4> QED
          BY <4>1, <4>2, <4>3, ExecAssumption
      <3>3. CASE trait[c] = "obfuscated" /\ trait' # trait
        <4>1. AgainOf[c] \in Calls /\ "again" \in cause'[AgainOf[c]]
          BY <3>3, ExecAssumption DEF RunApproved, Again, Blame
        <4> QED
          BY <3>1, <3>2, <4>1, ExecAssumption DEF Told
      <3>4. CASE child'[c] # "none" \/ notice'[c] # {} \/ trait'[c] = "untrusted"
        BY <3>1, <3>2, <3>4 DEF Told
      <3>5. CASE after'[c] # "over"
        BY <3>1, <3>2, <3>5
      <3>6. CASE trait' = trait /\ trait[c] \notin {"untrusted", "obfuscated"} /\ after'[c] = "over"
        <4>1. \/ notice' = [notice EXCEPT ![c] = @ \cup {"error"}]
              \/ cause' = Blame({c}, "unheard")
              \/ child' = [child EXCEPT ![c] = "alive"]
          BY <3>6 DEF RunApproved, TellError, Starts, AddSession
        <4>2. /\ notice \in [Calls -> SUBSET Keys]
              /\ child \in [Calls -> {"none", "closed"} \cup Alive]
          OBVIOUS
        <4> HIDE DEF Inv, Books, Ends, Accounts
        <4> QED
          BY <3>1, <3>2, <3>4, <4>1, <4>2 DEF Told, Blame
      <3>7. CASE trait' = trait /\ trait[c] \in {"untrusted", "obfuscated"}
        <4>1. \/ notice' = [notice EXCEPT ![c] = @ \cup {"error"}] \/ trait[c] = "untrusted"
              \/ cause' = Blame({c}, "unheard")
              \/ AgainOf[c] # None /\ cause' = Blame({AgainOf[c]}, "again")
          BY <3>7 DEF RunApproved, TellError, Again
        <4>2. CASE AgainOf[c] # None /\ cause' = Blame({AgainOf[c]}, "again")
          BY <3>1, <3>2, <4>2, ExecAssumption DEF Told, Blame
        <4>3. notice \in [Calls -> SUBSET Keys]
          OBVIOUS
        <4> HIDE DEF Inv, Books, Ends, Accounts
        <4>4. CASE cause' = Blame({c}, "unheard")
          BY <3>1, <3>2, <4>4 DEF Told, Blame
        <4> QED
          BY <3>4, <3>7, <4>1, <4>2, <4>3, <4>4
      <3> QED
        BY <3>3, <3>5, <3>6, <3>7 DEF RunApproved
    <2> HIDE DEF FollowTold
    <2> QED
      BY <2>1, <2>2, FollowStays
  <1> QED
    BY <1>1, <1>2, <1>3

LEMMA SandboxEndsAccounts ==
  ASSUME Inv, Books, Ends, Accounts, NEW c \in Calls, SandboxEnds(c)
  PROVE  Accounts'
  <1>1. Hushed'
    BY ExecAssumption DEF SandboxEnds, MarkExited, Notify, TellError, Fault, Blame
  <1>2. EndTold'
    <2>1. /\ background' = background /\ c \notin background /\ child[c] = "boxed"
          /\ \A d \in Calls : d # c =>
                /\ child'[d] = child[d] /\ call'[d] = call[d]
                /\ notice'[d] = notice[d] /\ cause'[d] = cause[d]
      BY DEF SandboxEnds, MarkExited, Notify, TellError, Fault, Blame
    <2>2. "exit" \notin notice'[c]
      BY <2>1 DEF SandboxEnds, Notify, TellError, Fault
    <2>3. \/ call'[c] = "done" \/ {"finished", "error"} \cap notice'[c] # {}
          \/ "unheard" \in cause'[c]
      <3>1. \/ call' = [call EXCEPT ![c] = "done"]
            \/ \E what \in {"finished", "error"} : notice' = [notice EXCEPT ![c] = @ \cup {what}]
            \/ cause' = Blame({c}, "unheard")
        BY DEF SandboxEnds, Notify, TellError
      <3>2. /\ call' = [call EXCEPT ![c] = "done"] => call'[c] = "done"
            /\ cause' = Blame({c}, "unheard") => "unheard" \in cause'[c]
        BY DEF Blame
      <3>3. ASSUME NEW what \in {"finished", "error"},
                   notice' = [notice EXCEPT ![c] = @ \cup {what}]
            PROVE  {"finished", "error"} \cap notice'[c] # {}
        <4>1. what \in notice'[c]
          BY <3>3
        <4> QED
          BY <3>3, <4>1
      <3> QED
        BY <3>1, <3>2, <3>3
    <2> QED
      BY <2>1, <2>2, <2>3
  <1>3. FollowTold'
    <2>1. \A d \in Calls :
            /\ child[d] # "none" => child'[d] # "none"
            /\ notice[d] \subseteq notice'[d] /\ cause[d] \subseteq cause'[d]
      BY DEF SandboxEnds, MarkExited, Notify, TellError, Fault, Blame
    <2>2. \A d \in Calls : after'[d] = "over" /\ d \notin Remote =>
            (after[d] = "over" /\ trait'[d] = trait[d]) \/ Told(d)'
      BY ExecAssumption DEF SandboxEnds, MarkExited, Notify, TellError, Fault, Blame, Told
    <2> HIDE DEF FollowTold
    <2> QED
      BY <2>1, <2>2, FollowStays
  <1> QED
    BY <1>1, <1>2, <1>3

LEMMA YieldAccounts ==
  ASSUME Inv, Books, Ends, Accounts, NEW c \in Calls, Yield(c)
  PROVE  Accounts'
  <1>1. Hushed'
    BY ExecAssumption DEF Yield
  <1>2. EndTold'
    BY ExecAssumption DEF Yield
  <1>3. FollowTold'
    BY ExecAssumption DEF Yield, Told
  <1> QED
    BY <1>1, <1>2, <1>3

LEMMA NetAccounts ==
  ASSUME Inv, Books, Ends, Accounts, NEW c \in Calls, Net(c)
  PROVE  Accounts'
  <1>1. Hushed'
    BY ExecAssumption DEF Net, NetKills, MarkExited, OnExit, Notify, Fault, Blame, approvals
  <1>2. EndTold'
    BY ExecAssumption DEF Net, NetKills, MarkExited, OnExit, Notify, Fault, Blame, approvals
  <1>3. FollowTold'
    <2>1. \A d \in Calls :
            /\ child[d] # "none" => child'[d] # "none"
            /\ notice[d] \subseteq notice'[d] /\ cause[d] \subseteq cause'[d]
      BY DEF Net, NetKills, MarkExited, OnExit, Notify, Fault, Blame, approvals
    <2>2. \A d \in Calls : after'[d] = "over" /\ d \notin Remote =>
            (after[d] = "over" /\ trait'[d] = trait[d]) \/ Told(d)'
      BY ExecAssumption DEF Net, NetKills, MarkExited, OnExit, Notify, Fault, Blame, approvals
    <2> HIDE DEF FollowTold
    <2> QED
      BY <2>1, <2>2, FollowStays
  <1> QED
    BY <1>1, <1>2, <1>3

LEMMA ExitsAccounts ==
  ASSUME Inv, Books, Ends, Accounts, NEW c \in Calls, Exits(c)
  PROVE  Accounts'
  <1>1. Hushed'
    BY ExecAssumption DEF Exits, MarkExited, OnExit, Notify, Fault, Blame
  <1>2. EndTold'
    BY ExecAssumption DEF Exits, MarkExited, OnExit, Notify, Fault, Blame
  <1>3. FollowTold'
    <2>1. \A d \in Calls :
            /\ child[d] # "none" => child'[d] # "none"
            /\ notice[d] \subseteq notice'[d] /\ cause[d] \subseteq cause'[d]
      BY DEF Exits, MarkExited, OnExit, Notify, Fault, Blame
    <2>2. \A d \in Calls : after'[d] = "over" /\ d \notin Remote =>
            (after[d] = "over" /\ trait'[d] = trait[d]) \/ Told(d)'
      BY ExecAssumption DEF Exits, MarkExited, OnExit, Notify, Fault, Blame
    <2> HIDE DEF FollowTold
    <2> QED
      BY <2>1, <2>2, FollowStays
  <1> QED
    BY <1>1, <1>2, <1>3

LEMMA KillAccounts ==
  ASSUME Inv, Books, Ends, Accounts, NEW c \in Calls, Kill(c)
  PROVE  Accounts'
  <1>1. Hushed'
    BY ExecAssumption DEF Kill, KillSession, approvals
  <1>2. EndTold'
    BY ExecAssumption DEF Kill, KillSession, approvals
  <1>3. FollowTold'
    BY ExecAssumption DEF Kill, KillSession, approvals, Told
  <1> QED
    BY <1>1, <1>2, <1>3

LEMMA DropAccounts ==
  ASSUME Inv, Books, Ends, Accounts, NEW c \in Calls, Drop(c)
  PROVE  Accounts'
  <1>1. Hushed'
    BY ExecAssumption DEF Drop, Clear, approvals
  <1>2. EndTold'
    BY ExecAssumption DEF Drop, Clear, approvals
  <1>3. FollowTold'
    BY ExecAssumption DEF Drop, Clear, approvals, Told
  <1> QED
    BY <1>1, <1>2, <1>3

LEMMA DeathAccounts ==
  ASSUME Inv, Books, Ends, Accounts, NEW c \in Calls, Death(c)
  PROVE  Accounts'
  <1>1. Hushed'
    BY ExecAssumption DEF Death, Dies, approvals
  <1>2. EndTold'
    BY ExecAssumption DEF Death, Dies, approvals
  <1>3. FollowTold'
    BY ExecAssumption DEF Death, Dies, approvals, Told
  <1> QED
    BY <1>1, <1>2, <1>3

LEMMA EvictedAccounts ==
  ASSUME Inv, Books, Ends, Accounts, NEW c \in Calls, Evicted(c)
  PROVE  Accounts'
  <1>1. Hushed'
    BY ExecAssumption DEF Evicted, Evict, Blame
  <1>2. EndTold'
    BY ExecAssumption DEF Evicted, Evict, Blame
  <1>3. FollowTold'
    BY ExecAssumption DEF Evicted, Evict, Blame, Told
  <1> QED
    BY <1>1, <1>2, <1>3

LEMMA DecideAccounts ==
  ASSUME Inv, Books, Ends, Accounts, NEW k \in Clicks, Decide(k)
  PROVE  Accounts'
  <1>1. Hushed'
    BY ExecAssumption DEF Decide, Settles, Fault
  <1>2. EndTold'
    BY ExecAssumption DEF Decide, Settles, Fault
  <1>3. FollowTold'
    BY ExecAssumption DEF Decide, Settles, Fault, Told
  <1> QED
    BY <1>1, <1>2, <1>3

LEMMA CrashAccounts ==
  ASSUME Inv, Books, Ends, Accounts, CrashAndRestart
  PROVE  Accounts'
  BY DEF CrashAndRestart, Forget, Fault, Recording, Told

LEMMA StepAccounts ==
  ASSUME Inv, Books, Ends, Accounts, [Next]_vars
  PROVE  Accounts'
  <1>1. CASE UNCHANGED vars
    BY <1>1 DEF vars, approvals, Told
  <1>2. ASSUME NEW c \in Calls,
               Begin(c) \/ Asks(c) \/ TimesOut(c) \/ Abort(c) \/ Records(c)
        PROVE  Accounts'
    BY <1>2, BeginAccounts, PolicyAccounts, LookupAccounts, CreateAccounts, PromptAccounts,
       ReplyAccounts, TimesOutAccounts, AbortAccounts, SavePatternsAccounts,
       UpdateRowAccounts DEF Asks, Records
  <1>3. ASSUME NEW c \in Calls,
               Follows(c) \/ SandboxEnds(c) \/ Yield(c) \/ Net(c) \/ Commands(c)
        PROVE  Accounts'
    BY <1>3, ResumeAccounts, RunApprovedAccounts, SandboxEndsAccounts, YieldAccounts,
       NetAccounts, ExitsAccounts, KillAccounts, DropAccounts, DeathAccounts,
       EvictedAccounts DEF Follows, Commands
  <1>4. ASSUME NEW k \in Clicks, Decide(k)
        PROVE  Accounts'
    BY <1>4, DecideAccounts
  <1>5. CASE CrashAndRestart
    BY <1>5, CrashAccounts
  <1> QED
    BY <1>1, <1>2, <1>3, <1>4, <1>5 DEF Next

LEMMA AlwaysAccounts == Spec => []Accounts
  <1>1. Init => Inv /\ Books /\ Ends /\ Accounts
    BY Initially, BooksInitially, EndsInitially, AccountsInitially
  <1>2. Inv /\ Books /\ Ends /\ Accounts /\ [Next]_vars => (Inv /\ Books /\ Ends /\ Accounts)'
    BY StepKeeps, StepBooks, StepEnds, StepAccounts
  <1> QED
    BY <1>1, <1>2, PTL DEF Spec, Safe

\* The end of a command is told once, by its call or by an event, and what follows
\* a decision comes to a command, an event or a new approval, unless the approved
\* tool denied it (exec.tool.ts, process-registry.ts markExited).
THEOREM EndsAreTold == Spec => []Accounted
  <1>1. Accounts => Accounted
    BY DEF Accounted, Told
  <1> QED
    BY <1>1, AlwaysAccounts, PTL
=============================================================================
