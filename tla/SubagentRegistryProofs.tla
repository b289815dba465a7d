----------------------- MODULE SubagentRegistryProofs -----------------------
(***************************************************************************)
(* The invariants of SubagentRegistry, proved for any runs, sessions and   *)
(* bounds.  Inv, below, is inductive: the books of a run that is not yet   *)
(* registered are blank, one that is running has nothing announced, an     *)
(* announcement that is under way is of a run that has ended and is open,  *)
(* and each executor of a session but one waits for another to be over.    *)
(***************************************************************************)
EXTENDS SubagentRegistry, FiniteSetTheorems, TLAPS

----------------------------------------------------------------------------
\* The books of a run.

\* Before registerRun.
Early == {"none", "flow", "settling"}
Fresh(r) ==
    exec[r].at \in Early =>
        /\ run[r] = NoRun /\ rows[r] = {NoRun}
        /\ ann[r] = "idle" /\ r \notin timer /\ key[r] = "none" /\ cause[r] = {}
        /\ \A c \in Channels : told[r][c] = 0

\* From registerRun to the end.
Underway(r) ==
    run[r].status = "running" =>
        /\ r \in known
        /\ exec[r].at \notin Early \cup {"over"}
        /\ ~run[r].handled /\ ~run[r].dropped
        /\ ann[r] = "idle" /\ r \notin timer /\ key[r] = "none" /\ "killed" \notin cause[r]
        /\ \A c \in Channels : told[r][c] = 0

\* killRun leaves nothing to announce, in the row either.
Closed(row) == row.status = "killed" => row.handled /\ row.dropped
Shut(r)     == Closed(run[r]) /\ \A row \in rows[r] : Closed(row)

Announcing(r) ==
    /\ ann[r] # "idle" => /\ run[r].status = "ended" /\ ~run[r].handled /\ ~run[r].dropped
                          /\ r \notin timer
    /\ r \in timer => ann[r] = "idle"

\* What the key says of the post.
Posted(r) ==
    /\ told[r]["direct"] <= 1 /\ told[r]["event"] <= 1
    /\ told[r]["direct"] > 0 => key[r] # "none"
    /\ ann[r] = "post" => key[r] # "none" /\ told[r]["direct"] = 0
    /\ ann[r] = "mark" => told[r]["direct"] > 0

\* A run that was told of is not taken up again.
Told(r) ==
    {"lostAck", "torn"} \cap cause[r] = {} =>
        /\ ToldIn(r) <= 1
        /\ ToldIn(r) > 0 => ann[r] = "mark" \/ run[r].handled

\* A key that was taken for nothing.
Wasted(r) ==
    "torn" \notin cause[r] /\ key[r] # "none" /\ ToldIn(r) = 0 /\ ann[r] # "post" =>
        "post" \in cause[r] /\ (ann[r] = "event" \/ "db" \in cause[r])

Quiet(r) ==
    "killed" \in cause[r] /\ "torn" \notin cause[r] =>
        run[r].status = "killed" /\ ToldIn(r) = 0

Made(r) ==
    /\ run[r].status = "ended" /\ run[r].handled /\ ~run[r].dropped
    /\ "torn" \notin cause[r]
    => ToldIn(r) > 0 \/ {"post", "db"} \subseteq cause[r]

Books(r) == /\ Fresh(r) /\ Underway(r) /\ Shut(r) /\ Announcing(r)
            /\ Posted(r) /\ Told(r) /\ Wasted(r) /\ Quiet(r) /\ Made(r)
BooksKept == \A r \in Runs : Books(r)

----------------------------------------------------------------------------
\* The executors of a session.

LeaksLate == \A r \in Runs : "leak" \in cause[r] => exec[r].at \in {"ended", "over"}

Begun(r)  == exec[r].at # "none"
Alive(r)  == exec[r].at \notin {"none", "over"}
WaitsFor(r, q) == exec[r].at = "settling" /\ ReplacementOf[r] = q

\* A session begins with a spawn.
Rooted == \A r \in Runs : Begun(r) =>
              \E q \in Runs : ChildOf[q] = ChildOf[r] /\ ReplacementOf[q] = None /\ Begun(q)

\* A steer has killed the run it replaces.
Steered ==
    \A r \in Runs :
        /\ exec[r].at = "flow" => ReplacementOf[r] = None
        /\ exec[r].at = "settling" =>
              /\ ReplacementOf[r] \in Runs
              /\ exec[ReplacementOf[r]].at \notin Early
              /\ run[ReplacementOf[r]].status # "running"

SlowIn(x) == \E q \in Runs : ChildOf[q] = x /\ "slowAbort" \in cause[q]

InLine ==
    \A q, r \in Runs :
        q # r /\ ChildOf[q] = ChildOf[r] /\ Alive(q) /\ Alive(r) =>
            WaitsFor(q, r) \/ WaitsFor(r, q) \/ SlowIn(ChildOf[r])

Inv == /\ TypeOK /\ BooksKept
       /\ LeaksLate /\ SlotsBalanced
       /\ Rooted /\ Steered /\ InLine /\ SessionKept
       /\ NoneOutlives

----------------------------------------------------------------------------
\* What the operators do.

LEMMA Counting == TypeOK => Now \in Nat \ {0}
<1> SUFFICES ASSUME TypeOK PROVE Now \in Nat \ {0}
  OBVIOUS
<1> DEFINE E == {r \in Runs : endedAt[r] > 0}
<1>1. IsFiniteSet(E)
  BY FS_Subset, SubagentAssumption
<1>2. Cardinality(E) \in Nat
  BY <1>1, FS_CardinalityType
<1>3. Now = Cardinality(E) + 1
  BY DEF Now
<1> HIDE DEF E
<1> QED BY <1>2, <1>3

LEMMA Persisting ==
    ASSUME TypeOK, NEW S \in SUBSET Runs, NEW obj \in [Runs -> RunRow],
           rows' = Persisted(S, obj)
    PROVE  /\ rows' \in [Runs -> SUBSET RunRow]
           /\ \A r \in S : rows'[r] = rows[r] \cup {obj[r]}
           /\ \A r \in Runs \ S : rows'[r] = rows[r]
<1>1. \A r \in Runs : rows[r] \in SUBSET RunRow /\ obj[r] \in RunRow
  BY DEF TypeOK
<1> QED BY <1>1 DEF Persisted

LEMMA Blaming ==
    ASSUME TypeOK, NEW S, NEW why \in Causes, cause' = Blame(S, why)
    PROVE  /\ cause' \in [Runs -> SUBSET Causes]
           /\ \A r \in Runs : r \in S => cause'[r] = cause[r] \cup {why}
           /\ \A r \in Runs : r \notin S => cause'[r] = cause[r]
<1>1. \A r \in Runs : cause[r] \in SUBSET Causes
  BY DEF TypeOK
<1> QED BY <1>1 DEF Blame

LEMMA Faulting == ASSUME TypeOK, NEW kind, Fault(kind) PROVE faults' \in 0 .. MaxFaults
  BY SubagentAssumption DEF TypeOK, Fault

\* killRun kills what it is called for, running runs only, and all their running
\* children.
LEMMA Cascades ==
    ASSUME NEW r \in Running, known \in SUBSET Runs
    PROVE  /\ r \in Cascade(r) /\ Cascade(r) \subseteq Running
           /\ \A c \in Running, p \in Cascade(r) :
                 ParentOf[c] = ChildOf[p] => c \in Cascade(r)
<1>1. Running \subseteq Runs /\ Running \in SUBSET Runs /\ r \in Runs
  BY DEF Running
<1>2. Spared(Running) = {}
  BY DEF Spared
<1>3. Cascade(r) \subseteq Running
  BY <1>1, <1>2 DEF Cascade
<1>4. ASSUME NEW c \in Running, NEW p \in Cascade(r), ParentOf[c] = ChildOf[p],
             NEW S \in SUBSET Runs, r \in S, Spared(S) = {}
      PROVE  c \in S
  <2>1. p \in S
    BY <1>4 DEF Cascade
  <2> QED BY <2>1, <1>4 DEF Spared
<1> QED BY <1>1, <1>3, <1>4 DEF Cascade

Fallen(S) == UNION {Cascade(r) : r \in S}

LEMMA Killing ==
    ASSUME TypeOK, NEW S, S \subseteq Running, Kills(S)
    PROVE  /\ S \subseteq Fallen(S) /\ Fallen(S) \subseteq Running
           /\ \A c \in Running, p \in Fallen(S) : ParentOf[c] = ChildOf[p] => c \in Fallen(S)
           /\ run' \in [Runs -> RunRow]
           /\ \A r \in Fallen(S) : /\ run'[r].status = "killed"
                                   /\ run'[r].handled /\ run'[r].dropped
                                   /\ rows'[r] = rows[r] \cup {run'[r]}
                                   /\ cause'[r] = cause[r] \cup {"killed"}
           /\ \A r \in Runs \ Fallen(S) : /\ run'[r] = run[r] /\ rows'[r] = rows[r]
                                          /\ cause'[r] = cause[r]
           /\ rows' \in [Runs -> SUBSET RunRow]
           /\ endedAt' \in [Runs -> Nat]
           /\ timer' = timer \ Fallen(S) /\ timer' \in SUBSET Runs
           /\ cause' \in [Runs -> SUBSET Causes]
<1> DEFINE K == Fallen(S)
           row(r) == [run[r] EXCEPT !.status = "killed", !.handled = TRUE, !.dropped = TRUE]
<1>1. known \in SUBSET Runs
  BY DEF TypeOK
<1>2. S \subseteq K /\ K \subseteq Running
  BY <1>1, Cascades DEF Fallen
<1>3. \A c \in Running, p \in K : ParentOf[c] = ChildOf[p] => c \in K
  BY <1>1, Cascades DEF Fallen
<1>4. K \in SUBSET Runs
  BY <1>1, <1>2 DEF Running
<1>5. /\ run' = [r \in Runs |-> IF r \in K THEN row(r) ELSE run[r]]
      /\ rows' = Persisted(K, run')
      /\ endedAt' = [r \in Runs |-> IF r \in K THEN Now ELSE endedAt[r]]
      /\ timer' = timer \ K
      /\ cause' = Blame(K, "killed")
  BY DEF Kills, Fallen
<1> HIDE DEF K
<1>6. \A r \in Runs : run[r] \in RunRow
  BY DEF TypeOK
<1>7. \A r \in Runs : /\ row(r) \in RunRow /\ row(r).status = "killed"
                      /\ row(r).handled = TRUE /\ row(r).dropped = TRUE
  BY <1>6 DEF RunRow, Over
<1> HIDE DEF row
<1>8. run' \in [Runs -> RunRow]
  BY <1>5, <1>6, <1>7
<1>9. \A r \in K : run'[r].status = "killed" /\ run'[r].handled /\ run'[r].dropped
  BY <1>4, <1>5, <1>7
<1>10. \A r \in Runs \ K : run'[r] = run[r]
  BY <1>5
<1>11. /\ rows' \in [Runs -> SUBSET RunRow]
       /\ \A r \in K : rows'[r] = rows[r] \cup {run'[r]}
       /\ \A r \in Runs \ K : rows'[r] = rows[r]
  BY <1>4, <1>5, <1>8, Persisting
<1>12. /\ cause' \in [Runs -> SUBSET Causes]
       /\ \A r \in K : cause'[r] = cause[r] \cup {"killed"}
       /\ \A r \in Runs \ K : cause'[r] = cause[r]
  BY <1>4, <1>5, Blaming DEF Causes
<1>13. endedAt' \in [Runs -> Nat]
  BY <1>5, Counting DEF TypeOK
<1>14. timer' \in SUBSET Runs
  BY <1>5 DEF TypeOK
<1> QED BY <1>2, <1>3, <1>5, <1>8, <1>9, <1>10, <1>11, <1>12, <1>13, <1>14 DEF K

LEMMA Aborting ==
    ASSUME TypeOK, NEW S
    PROVE  /\ Aborted(S) \in [Runs -> ExecRow]
           /\ \A r \in Runs : Aborted(S)[r].at = exec[r].at /\ Aborted(S)[r].ok = exec[r].ok
<1> DEFINE row(r) == [exec[r] EXCEPT !.aborted = TRUE]
<1>1. \A r \in Runs : exec[r] \in ExecRow
  BY DEF TypeOK
<1>2. \A r \in Runs : row(r) \in ExecRow /\ row(r).at = exec[r].at /\ row(r).ok = exec[r].ok
  BY <1>1 DEF ExecRow
<1>3. \A r \in Runs : Aborted(S)[r] = row(r) \/ Aborted(S)[r] = exec[r]
  BY DEF Aborted
<1>4. Aborted(S) = [r \in Runs |-> Aborted(S)[r]]
  BY DEF Aborted
<1> HIDE DEF row
<1>5. \A r \in Runs : Aborted(S)[r] \in ExecRow
  BY <1>1, <1>2, <1>3
<1>6. \A r \in Runs : Aborted(S)[r].at = exec[r].at /\ Aborted(S)[r].ok = exec[r].ok
  BY <1>2, <1>3
<1> QED BY <1>4, <1>5, <1>6

LEMMA GoingOn ==
    ASSUME TypeOK, NEW r \in Runs, NEW at \in {"flow", "identity", "work", "ended"}, Goes(r, at)
    PROVE  /\ exec' \in [Runs -> ExecRow]
           /\ exec'[r].at = at /\ exec'[r].ok = exec[r].ok
           /\ \A q \in Runs \ {r} : exec'[q] = exec[q]
<1> DEFINE row == [exec[r] EXCEPT !.at = at]
<1>1. exec \in [Runs -> ExecRow] /\ exec[r] \in ExecRow
  BY DEF TypeOK
<1>2. row \in ExecRow /\ row.at = at /\ row.ok = exec[r].ok
  BY <1>1 DEF ExecRow
<1>3. exec' = [exec EXCEPT ![r] = row]
  BY <1>1 DEF Goes
<1> HIDE DEF row
<1> QED BY <1>1, <1>2, <1>3

\* So does one that begins or ends its prompts.
LEMMA TalkingOn ==
    ASSUME TypeOK, NEW r \in Runs, NEW at \in {"work", "ended"}, NEW p \in BOOLEAN,
           GoesTalking(r, at, p)
    PROVE  /\ exec' \in [Runs -> ExecRow]
           /\ exec'[r].at = at /\ exec'[r].ok = exec[r].ok
           /\ \A q \in Runs \ {r} : exec'[q] = exec[q]
<1> DEFINE row == [exec[r] EXCEPT !.at = at, !.prompt = p]
<1>1. exec \in [Runs -> ExecRow] /\ exec[r] \in ExecRow
  BY DEF TypeOK
<1>2. row \in ExecRow /\ row.at = at /\ row.ok = exec[r].ok
  BY <1>1 DEF ExecRow
<1>3. exec' = [exec EXCEPT ![r] = row]
  BY <1>1 DEF GoesTalking
<1> HIDE DEF row
<1> QED BY <1>1, <1>2, <1>3

\* The prompt of an executor begins.
LEMMA Prompting ==
    ASSUME TypeOK, NEW r \in Runs, GoesTalking(r, "work", Spawns(r))
    PROVE  /\ exec' \in [Runs -> ExecRow]
           /\ exec'[r].at = "work" /\ exec'[r].ok = exec[r].ok
           /\ \A q \in Runs \ {r} : exec'[q] = exec[q]
<1>1. Spawns(r) \in BOOLEAN
  BY DEF Spawns
<1> QED BY <1>1, TalkingOn

\* A run that succeeded has no prompt left.
LEMMA FallingSilent ==
    ASSUME TypeOK, NEW r \in Runs, GoesTalking(r, "ended", exec[r].prompt /\ ~exec[r].ok)
    PROVE  /\ exec' \in [Runs -> ExecRow]
           /\ exec'[r].at = "ended" /\ exec'[r].ok = exec[r].ok
           /\ \A q \in Runs \ {r} : exec'[q] = exec[q]
<1>1. (exec[r].prompt /\ ~exec[r].ok) \in BOOLEAN
  OBVIOUS
<1> QED BY <1>1, TalkingOn

LEMMA Telling ==
    ASSUME TypeOK, NEW r \in Runs, NEW channel \in Channels, Tell(r, channel)
    PROVE  /\ told' \in [Runs -> [Channels -> Nat]]
           /\ told'[r][channel] = told[r][channel] + 1
           /\ \A c \in Channels \ {channel} : told'[r][c] = told[r][c]
           /\ \A q \in Runs \ {r} : told'[q] = told[q]
<1> DEFINE row == [told[r] EXCEPT ![channel] = @ + 1]
<1>1. told \in [Runs -> [Channels -> Nat]] /\ told[r] \in [Channels -> Nat]
  BY DEF TypeOK
<1>2. /\ row \in [Channels -> Nat] /\ row[channel] = told[r][channel] + 1
      /\ \A c \in Channels \ {channel} : row[c] = told[r][c]
  BY <1>1
<1>3. told' = [told EXCEPT ![r] = row]
  BY <1>1 DEF Tell
<1> HIDE DEF row
<1> QED BY <1>1, <1>2, <1>3

LEMMA Failing ==
    ASSUME TypeOK, SubagentAssumption, NEW r \in Runs, Fails(r)
    PROVE  /\ exec' \in [Runs -> ExecRow] /\ held' \in [Sessions -> Nat]
           /\ exec'[r].at = "clean" /\ ~exec'[r].ok
           /\ \A q \in Runs \ {r} : exec'[q] = exec[q]
           /\ held' = [held EXCEPT ![ParentOf[r]] = IF @ <= 1 THEN 0 ELSE @ - 1]
<1> DEFINE row == [exec[r] EXCEPT !.at = "clean", !.ok = FALSE]
<1>1. exec \in [Runs -> ExecRow] /\ exec[r] \in ExecRow
  BY DEF TypeOK
<1>2. row \in ExecRow /\ row.at = "clean" /\ ~row.ok
  BY <1>1 DEF ExecRow
<1>3. exec' = [exec EXCEPT ![r] = row]
  BY <1>1 DEF Fails
<1>4. held' = [held EXCEPT ![ParentOf[r]] = IF @ <= 1 THEN 0 ELSE @ - 1]
  BY DEF Fails, Released
<1>5. held' \in [Sessions -> Nat]
  BY <1>4, SubagentAssumption DEF TypeOK
<1> HIDE DEF row
<1> QED BY <1>1, <1>2, <1>3, <1>4, <1>5

LEMMA Ending ==
    ASSUME TypeOK, NEW r \in Runs, Ends(r)
    PROVE  /\ run' \in [Runs -> RunRow] /\ rows' \in [Runs -> SUBSET RunRow]
           /\ endedAt' \in [Runs -> Nat]
           /\ known' \subseteq known /\ timer' \subseteq timer \cup {r}
           /\ ann' \in [Runs -> AnnAt]
           /\ run'[r].status = "ended" /\ ~run'[r].handled /\ ~run'[r].dropped
           /\ rows'[r] = rows[r] \cup {run'[r]}
           /\ \A q \in Runs \ {r} : run'[q] = run[q] /\ rows'[q] = rows[q] /\ ann'[q] = ann[q]
           /\ \A q \in known \ known' : q = r \/ run[q].status \in Over
           /\ \/ ann'[r] = ann[r]
              \/ ann'[r] = "check" /\ (r \in timer' => r \in timer)
<1> DEFINE row == [NoRun EXCEPT !.status = "ended"]
<1>1. run \in [Runs -> RunRow] /\ known \in SUBSET Runs /\ ann \in [Runs -> AnnAt]
  BY DEF TypeOK
<1>2. row \in RunRow /\ row.status = "ended" /\ ~row.handled /\ ~row.dropped
  BY DEF RunRow, NoRun, Over
<1>3. run' = [run EXCEPT ![r] = row]
  BY DEF Ends
<1> HIDE DEF row
<1>4. /\ run' \in [Runs -> RunRow] /\ run'[r] = row
      /\ \A q \in Runs \ {r} : run'[q] = run[q]
  BY <1>1, <1>2, <1>3
<1>5. rows' = Persisted({r}, run')
  BY DEF Ends
<1>6. /\ rows' \in [Runs -> SUBSET RunRow] /\ rows'[r] = rows[r] \cup {run'[r]}
      /\ \A q \in Runs \ {r} : rows'[q] = rows[q]
  BY <1>4, <1>5, Persisting
<1>7. endedAt' \in [Runs -> Nat]
  BY Counting DEF Ends, TypeOK
<1>8. PICK G \in Evictions({q \in known : run[q].status \in Over} \cup {r}, endedAt') :
          /\ known' = known \ G
          /\ timer' = (timer \cup {q \in {r} : HasRunningDescendants(q)}) \ G
          /\ ann' = [ann EXCEPT ![r] = IF r \in G \/ HasRunningDescendants(r) THEN @
                                      ELSE "check"]
  BY DEF Ends
<1>9. G \subseteq {q \in known : run[q].status \in Over} \cup {r}
  BY DEF Evictions
<1>10. \A q \in known \ known' : q = r \/ run[q].status \in Over
  BY <1>8, <1>9
<1>11. ann' \in [Runs -> AnnAt] /\ (\A q \in Runs \ {r} : ann'[q] = ann[q])
  BY <1>1, <1>8 DEF AnnAt
<1>12. known' \subseteq known /\ timer' \subseteq timer \cup {r}
  BY <1>8
<1>13. \/ ann'[r] = ann[r]
       \/ ann'[r] = "check" /\ (r \in timer' => r \in timer)
  BY <1>1, <1>8
<1> QED BY <1>2, <1>4, <1>6, <1>7, <1>10, <1>11, <1>12, <1>13

LEMMA Handling ==
    ASSUME TypeOK, NEW r \in Runs, NEW out, Handled(r, out)
    PROVE  /\ run' \in [Runs -> RunRow] /\ rows' \in [Runs -> SUBSET RunRow]
           /\ timer' = timer \ {r}
           /\ run'[r].status = run[r].status /\ run'[r].handled
           /\ run'[r].dropped \/ out # "suppressed"
           /\ rows'[r] = rows[r] \cup {run'[r]}
           /\ \A q \in Runs \ {r} : run'[q] = run[q] /\ rows'[q] = rows[q]
<1> DEFINE flag == run[r].dropped \/ out = "suppressed"
           row == [run[r] EXCEPT !.handled = TRUE, !.dropped = flag]
<1>1. run \in [Runs -> RunRow] /\ run[r] \in RunRow
  BY DEF TypeOK
<1>2. flag \in BOOLEAN
  BY DEF TypeOK
<1>3. out = "suppressed" => flag = TRUE
  OBVIOUS
<1>4. run' = [run EXCEPT ![r] = row]
  BY <1>1 DEF Handled
<1> HIDE DEF flag
<1>5. row \in RunRow /\ row.status = run[r].status /\ row.handled = TRUE /\ row.dropped = flag
  BY <1>1, <1>2 DEF RunRow
<1> HIDE DEF row
<1>6. /\ run' \in [Runs -> RunRow] /\ run'[r] = row
      /\ \A q \in Runs \ {r} : run'[q] = run[q]
  BY <1>1, <1>4, <1>5
<1>7. rows' = Persisted({r}, run') /\ timer' = timer \ {r}
  BY DEF Handled
<1>8. /\ rows' \in [Runs -> SUBSET RunRow] /\ rows'[r] = rows[r] \cup {run'[r]}
      /\ \A q \in Runs \ {r} : rows'[q] = rows[q]
  BY <1>6, <1>7, Persisting
<1>9. run'[r].dropped \/ out # "suppressed"
  BY <1>3, <1>5, <1>6
<1> QED BY <1>5, <1>6, <1>7, <1>8, <1>9

LEMMA Concluding ==
    ASSUME TypeOK, NEW r \in Runs, NEW out, Conclude(r, out)
    PROVE  /\ run' \in [Runs -> RunRow] /\ rows' \in [Runs -> SUBSET RunRow]
           /\ ann' \in [Runs -> AnnAt] /\ timer' \subseteq timer \cup {r}
           /\ ann'[r] = "idle"
           /\ run'[r].status = run[r].status
           /\ rows'[r] = rows[r] \cup {run'[r]}
           /\ \A q \in Runs \ {r} : run'[q] = run[q] /\ rows'[q] = rows[q] /\ ann'[q] = ann[q]
           /\ \/ /\ run'[r].handled
                 /\ run'[r].dropped \/ out \notin {"suppressed", "failed"}
              \/ /\ out = "failed"
                 /\ run'[r].handled = run[r].handled /\ run'[r].dropped = run[r].dropped
<1>1. run \in [Runs -> RunRow] /\ run[r] \in RunRow /\ ann \in [Runs -> AnnAt]
  BY DEF TypeOK
<1>2. /\ ann' \in [Runs -> AnnAt] /\ ann'[r] = "idle"
      /\ \A q \in Runs \ {r} : ann'[q] = ann[q]
  BY <1>1 DEF Conclude, AnnAt
<1> DEFINE n == run[r].retries + 1
<1>3. CASE out # "failed" /\ Handled(r, out)
  BY <1>2, <1>3, Handling
<1>4. ASSUME out = "failed", timer' \subseteq timer \cup {r}, rows' = Persisted({r}, run'),
             \/ run' = [run EXCEPT ![r].handled = TRUE, ![r].dropped = TRUE, ![r].retries = n]
             \/ run' = [run EXCEPT ![r].retries = n]
      PROVE  /\ run' \in [Runs -> RunRow] /\ rows' \in [Runs -> SUBSET RunRow]
             /\ run'[r].status = run[r].status
             /\ rows'[r] = rows[r] \cup {run'[r]}
             /\ \A q \in Runs \ {r} : run'[q] = run[q] /\ rows'[q] = rows[q]
             /\ \/ run'[r].handled /\ run'[r].dropped
                \/ run'[r].handled = run[r].handled /\ run'[r].dropped = run[r].dropped
    <2> DEFINE full == [run[r] EXCEPT !.handled = TRUE, !.dropped = TRUE, !.retries = n]
               more == [run[r] EXCEPT !.retries = n]
    <2>1. n \in Nat
      BY <1>1 DEF RunRow
    <2>2. run' = [run EXCEPT ![r] = full] \/ run' = [run EXCEPT ![r] = more]
      BY <1>1, <1>4
    <2> HIDE DEF n
    <2>3. /\ full \in RunRow /\ full.status = run[r].status
          /\ full.handled = TRUE /\ full.dropped = TRUE
      BY <1>1, <2>1 DEF RunRow
    <2>4. /\ more \in RunRow /\ more.status = run[r].status
          /\ more.handled = run[r].handled /\ more.dropped = run[r].dropped
      BY <1>1, <2>1 DEF RunRow
    <2> HIDE DEF full, more
    <2>5. /\ run' \in [Runs -> RunRow] /\ run'[r] \in {full, more}
          /\ \A q \in Runs \ {r} : run'[q] = run[q]
      BY <1>1, <2>2, <2>3, <2>4
    <2>6. /\ rows' \in [Runs -> SUBSET RunRow] /\ rows'[r] = rows[r] \cup {run'[r]}
          /\ \A q \in Runs \ {r} : rows'[q] = rows[q]
      BY <1>4, <2>5, Persisting
    <2> QED BY <2>3, <2>4, <2>5, <2>6
<1>5. CASE /\ out = "failed" /\ timer' \in {timer \ {r}, timer \cup {r}}
           /\ rows' = Persisted({r}, run')
           /\ \/ run' = [run EXCEPT ![r].handled = TRUE, ![r].dropped = TRUE, ![r].retries = n]
              \/ run' = [run EXCEPT ![r].retries = n]
  <2>1. timer' \subseteq timer \cup {r}
    BY <1>5
  <2> QED BY <1>2, <1>4, <1>5, <2>1
<1> QED BY <1>3, <1>5 DEF Conclude

LEMMA AnnGoing ==
    ASSUME TypeOK, NEW r \in Runs, NEW at \in AnnAt, AnnGoes(r, at)
    PROVE  /\ ann' \in [Runs -> AnnAt] /\ ann'[r] = at
           /\ \A q \in Runs \ {r} : ann'[q] = ann[q]
           /\ run' = run /\ timer' = timer /\ rows' = rows
  BY DEF AnnGoes, TypeOK

----------------------------------------------------------------------------
\* Types.

LEMMA TypeInit == Init => TypeOK
<1> SUFFICES ASSUME Init PROVE TypeOK
  OBVIOUS
<1>1. NoRun \in RunRow /\ NoExec \in ExecRow
  BY DEF NoRun, NoExec, RunRow, ExecRow, Over
<1>2. MaxFaults \in Nat
  BY SubagentAssumption
<1> QED BY <1>1, <1>2 DEF Init, TypeOK, AnnAt, Channels

LEMMA Slots ==
    ASSUME TypeOK, NEW s \in Sessions
    PROVE  Taken(s) \in [Sessions -> Nat] /\ Released(s) \in [Sessions -> Nat]
<1>1. held \in [Sessions -> Nat] /\ held[s] \in Nat
  BY DEF TypeOK
<1>2. held[s] + 1 \in Nat /\ (IF held[s] <= 1 THEN 0 ELSE held[s] - 1) \in Nat
  BY <1>1
<1> QED BY <1>1, <1>2 DEF Taken, Released

LEMMA TypeKills ==
    ASSUME TypeOK, NEW S, S \subseteq Running, Kills(S)
    PROVE  /\ run' \in [Runs -> RunRow] /\ rows' \in [Runs -> SUBSET RunRow]
           /\ endedAt' \in [Runs -> Nat] /\ timer' \in SUBSET Runs
           /\ cause' \in [Runs -> SUBSET Causes]
  BY Killing

LEMMA TypeStops ==
    ASSUME TypeOK, \/ \E r \in Runs : Steer(r) \/ Kill(r)
                   \/ \E s \in Tops : KillAll(s) \/ Archive(s)
    PROVE  TypeOK'
<1>1. ASSUME NEW r \in Runs, Steer(r) PROVE TypeOK'
  <2> DEFINE old == ReplacementOf[r]
             row == [Aborted({old})[r] EXCEPT !.at = "settling"]
  <2>1. {old} \subseteq Running /\ Kills({old})
    BY <1>1 DEF Steer
  <2>2. Aborted({old}) \in [Runs -> ExecRow]
    BY Aborting
  <2>3. row \in ExecRow
    BY <2>2 DEF ExecRow
  <2>4. exec' = [Aborted({old}) EXCEPT ![r] = row]
    BY <1>1, <2>2 DEF Steer
  <2>5. exec' \in [Runs -> ExecRow]
    BY <2>2, <2>3, <2>4
  <2> QED BY <1>1, <2>1, <2>5, TypeKills DEF Steer, TypeOK
<1>2. ASSUME NEW r \in Runs, Kill(r) PROVE TypeOK'
  BY <1>2, TypeKills, Aborting DEF Kill, TypeOK
<1>3. ASSUME NEW s \in Tops, KillAll(s) PROVE TypeOK'
  <2>1. session' \in [Sessions -> {"none", "active", "archiving", "archived"}]
    BY <1>3 DEF KillAll, TypeOK, Sessions
  <2> QED BY <1>3, <2>1, TypeKills, Aborting DEF KillAll, TypeOK
<1>4. ASSUME NEW s \in Tops, Archive(s) PROVE TypeOK'
  BY <1>4 DEF Archive, TypeOK
<1> QED BY <1>1, <1>2, <1>3, <1>4

LEMMA Registering ==
    ASSUME TypeOK, NEW r \in Runs, Register(r)
    PROVE  /\ run' \in [Runs -> RunRow] /\ rows' \in [Runs -> SUBSET RunRow]
           /\ run'[r].status = "running" /\ ~run'[r].handled /\ ~run'[r].dropped
           /\ rows'[r] = rows[r] \cup {run'[r]}
           /\ \A q \in Runs \ {r} : /\ run'[q] = run[q] /\ rows'[q] = rows[q]
                                    /\ exec'[q] = exec[q] /\ cause'[q] = cause[q]
           /\ known' = known \cup {r}
           /\ exec' \in [Runs -> ExecRow] /\ exec'[r].ok = exec[r].ok
           /\ \/ exec'[r].at = "identity" /\ held' = Taken(ParentOf[r])
              \/ exec'[r].at = "ended" /\ held' = held
           /\ cause' \in [Runs -> SUBSET Causes]
           /\ cause[r] \subseteq cause'[r]
           /\ cause'[r] \subseteq cause[r] \cup {"slowAbort", "afterKill"}
           /\ AfterKill(r) => "afterKill" \in cause'[r]
           /\ \/ exec[r].at = "flow"
              \/ exec[r].at = "settling" /\ exec[ReplacementOf[r]].at = "over"
              \/ exec[r].at = "settling" /\ "slowAbort" \in cause'[r]
           /\ faults' \in 0 .. MaxFaults
<1> DEFINE row == [NoRun EXCEPT !.status = "running"]
<1>1. run \in [Runs -> RunRow] /\ cause \in [Runs -> SUBSET Causes] /\ cause[r] \subseteq Causes
  BY DEF TypeOK
<1>2. row \in RunRow /\ row.status = "running" /\ ~row.handled /\ ~row.dropped
  BY DEF RunRow, NoRun, Over
<1>3. run' = [run EXCEPT ![r] = row] /\ rows' = Persisted({r}, run') /\ known' = known \cup {r}
  BY DEF Register
<1> HIDE DEF row
<1>4. /\ run' \in [Runs -> RunRow] /\ run'[r] = row
      /\ \A q \in Runs \ {r} : run'[q] = run[q]
  BY <1>1, <1>2, <1>3
<1>5. /\ rows' \in [Runs -> SUBSET RunRow] /\ rows'[r] = rows[r] \cup {run'[r]}
      /\ \A q \in Runs \ {r} : rows'[q] = rows[q]
  BY <1>3, <1>4, Persisting
<1>6. \/ Goes(r, "identity") /\ held' = Taken(ParentOf[r])
      \/ Goes(r, "ended") /\ held' = held
  BY DEF Register
<1>7. /\ exec' \in [Runs -> ExecRow] /\ exec'[r].ok = exec[r].ok
      /\ \A q \in Runs \ {r} : exec'[q] = exec[q]
      /\ \/ exec'[r].at = "identity" /\ held' = Taken(ParentOf[r])
         \/ exec'[r].at = "ended" /\ held' = held
  BY <1>6, GoingOn
<1>8. PICK slow \in SUBSET {"slowAbort"} :
          /\ \/ (exec[r].at = "flow" \/ MaySettle(r)) /\ slow = {} /\ UNCHANGED faults
             \/ slow # {} /\ TooSlow(r) /\ Fault("slowAbort")
          /\ cause' = [cause EXCEPT ![r] =
                @ \cup slow \cup (IF AfterKill(r) THEN {"afterKill"} ELSE {})]
  BY DEF Register
<1> DEFINE more == cause[r] \cup slow \cup (IF AfterKill(r) THEN {"afterKill"} ELSE {})
<1>9. more \subseteq Causes
  BY <1>1 DEF Causes
<1>10. /\ cause[r] \subseteq more /\ more \subseteq cause[r] \cup {"slowAbort", "afterKill"}
       /\ AfterKill(r) => "afterKill" \in more
       /\ slow # {} => "slowAbort" \in more
  OBVIOUS
<1>11. cause' = [cause EXCEPT ![r] = more]
  BY <1>8
<1> HIDE DEF more
<1>12. /\ cause' \in [Runs -> SUBSET Causes] /\ cause'[r] = more
       /\ \A q \in Runs \ {r} : cause'[q] = cause[q]
  BY <1>1, <1>9, <1>11
<1>13. \/ exec[r].at = "flow"
       \/ exec[r].at = "settling" /\ exec[ReplacementOf[r]].at = "over"
       \/ exec[r].at = "settling" /\ slow # {}
  BY <1>8 DEF MaySettle, TooSlow
<1>14. faults' \in 0 .. MaxFaults
  BY <1>8, Faulting DEF TypeOK
<1> QED BY <1>2, <1>3, <1>4, <1>5, <1>7, <1>10, <1>12, <1>13, <1>14

LEMMA TypeExecutes ==
    ASSUME TypeOK, NEW r \in Runs,
           Spawn(r) \/ Register(r) \/ Identify(r) \/ Work(r) \/ CleanUp(r) \/ Settle(r)
    PROVE  TypeOK'
<1>1. CASE Spawn(r)
  BY <1>1, GoingOn DEF Spawn, TypeOK
<1>2. CASE Register(r)
  <2>1. held' \in [Sessions -> Nat]
    <3>1. held' = held \/ held' = Taken(ParentOf[r])
      BY <1>2, Registering
    <3>2. held \in [Sessions -> Nat]
      BY DEF TypeOK
    <3>3. ParentOf[r] \in Sessions
      BY SubagentAssumption
    <3> QED BY <3>1, <3>2, <3>3, Slots
  <2>2. known' \in SUBSET Runs
    BY <1>2 DEF Register, TypeOK
  <2> QED BY <1>2, <2>1, <2>2, Registering DEF Register, TypeOK
<1>3. CASE Identify(r)
  <2>1. exec' \in [Runs -> ExecRow] /\ held' \in [Sessions -> Nat]
    BY <1>3, GoingOn, Prompting, Failing, SubagentAssumption DEF Identify, TypeOK
  <2>2. cause' \in [Runs -> SUBSET Causes]
    BY <1>3, Blaming DEF Identify, TypeOK, Causes
  <2>3. faults' \in 0 .. MaxFaults
    BY <1>3, Faulting DEF Identify, TypeOK
  <2>4. session' \in [Sessions -> {"none", "active", "archiving", "archived"}]
    BY <1>3 DEF Identify, TypeOK
  <2> QED BY <1>3, <2>1, <2>2, <2>3, <2>4 DEF Identify, TypeOK
<1>4. CASE Work(r)
  <2> DEFINE row == [exec[r] EXCEPT !.at = "clean", !.ok = TRUE]
  <2>1. exec \in [Runs -> ExecRow] /\ exec[r] \in ExecRow
    BY DEF TypeOK
  <2>2. row \in ExecRow
    BY <2>1 DEF ExecRow
  <2>3. \/ exec' = [exec EXCEPT ![r] = row] /\ UNCHANGED held
        \/ Fails(r)
    BY <1>4, <2>1 DEF Work
  <2> HIDE DEF row
  <2>4. exec' \in [Runs -> ExecRow] /\ held' \in [Sessions -> Nat]
    BY <2>1, <2>2, <2>3, Failing, SubagentAssumption DEF TypeOK
  <2> QED BY <1>4, <2>4 DEF Work, TypeOK
<1>5. CASE CleanUp(r)
  <2>1. Released(ParentOf[r]) \in [Sessions -> Nat]
    BY Slots, SubagentAssumption
  <2>2. exec' \in [Runs -> ExecRow] /\ held' \in [Sessions -> Nat]
    BY <1>5, <2>1, GoingOn, FallingSilent, Failing, SubagentAssumption DEF CleanUp, TypeOK
  <2>3. faults' \in 0 .. MaxFaults
    BY <1>5, Faulting DEF CleanUp, TypeOK
  <2>4. session' \in [Sessions -> {"none", "active", "archiving", "archived"}]
    BY <1>5 DEF CleanUp, TypeOK
  <2> QED BY <1>5, <2>2, <2>3, <2>4 DEF CleanUp, TypeOK
<1>6. CASE Settle(r)
  <2>1. exec' \in [Runs -> ExecRow]
    BY <1>6 DEF Settle, TypeOK, ExecRow, Done, NoExec
  <2>2. CASE Ends(r)
    <3>1. known' \in SUBSET Runs /\ timer' \in SUBSET Runs
      BY <2>2, Ending DEF TypeOK
    <3>2. /\ run' \in [Runs -> RunRow] /\ rows' \in [Runs -> SUBSET RunRow]
          /\ endedAt' \in [Runs -> Nat] /\ ann' \in [Runs -> AnnAt]
      BY <2>2, Ending
    <3> QED BY <1>6, <2>1, <3>1, <3>2 DEF Settle, TypeOK
  <2>3. CASE UNCHANGED <<known, run, rows, endedAt, timer, ann>>
    BY <1>6, <2>1, <2>3 DEF Settle, TypeOK
  <2> QED BY <1>6, <2>2, <2>3 DEF Settle
<1> QED BY <1>1, <1>2, <1>3, <1>4, <1>5, <1>6

\* What a step of the announcement of r does to the books of r.
AnnounceStep(r) ==
    \/ \E out \in {"suppressed", "failed", "duplicate", "sent", "queued"} : Conclude(r, out)
    \/ \E at \in {"followup", "reserve", "event", "post", "mark"} : AnnGoes(r, at)

LEMMA AnnounceSteps == ASSUME NEW r \in Runs, Announces(r) PROVE AnnounceStep(r)
<1>1. CASE CheckParent(r)
  BY <1>1 DEF CheckParent, AnnounceStep
<1>2. CASE Reserve(r)
  BY <1>2 DEF Reserve, AnnounceStep
<1>3. CASE Post(r) \/ Mark(r)
  BY <1>3 DEF Post, Mark, AnnounceStep
<1>4. CASE Followup(r) \/ Event(r)
  BY <1>4 DEF Followup, Event, AnnounceStep
<1> QED BY <1>1, <1>2, <1>3, <1>4 DEF Announces

LEMMA TypeAnnounces == ASSUME TypeOK, NEW r \in Runs, Announces(r) PROVE TypeOK'
<1>1. timer' \subseteq timer \cup {r}
  BY AnnounceSteps, Concluding, AnnGoing DEF AnnounceStep, AnnAt
<1>2. /\ run' \in [Runs -> RunRow] /\ rows' \in [Runs -> SUBSET RunRow]
      /\ ann' \in [Runs -> AnnAt]
  BY AnnounceSteps, Concluding, AnnGoing DEF AnnounceStep, AnnAt, TypeOK
<1>3. told' \in [Runs -> [Channels -> Nat]]
  BY Telling DEF Announces, CheckParent, Reserve, Post, Mark, Followup, Event, Channels, TypeOK
<1>4. cause' \in [Runs -> SUBSET Causes]
  BY Blaming DEF Announces, CheckParent, Reserve, Post, Mark, Followup, Event, Causes, TypeOK
<1>5. faults' \in 0 .. MaxFaults
  BY Faulting DEF Announces, CheckParent, Reserve, Post, Mark, Followup, Event, TypeOK
<1>6. key' \in [Runs -> {"none", "pending", "sent"}]
  BY DEF Announces, CheckParent, Reserve, Post, Mark, Followup, Event, TypeOK
<1>7. /\ known' = known /\ endedAt' = endedAt /\ late' = late
      /\ exec' = exec /\ held' = held /\ session' = session
  BY DEF Announces, CheckParent, Reserve, Post, Mark, Followup, Event
<1> QED BY <1>1, <1>2, <1>3, <1>4, <1>5, <1>6, <1>7 DEF TypeOK

LEMMA TypeTimes ==
    ASSUME TypeOK, NEW r \in Runs, AnnounceTimer(r) \/ Expire(r)
    PROVE  TypeOK'
<1>1. CASE AnnounceTimer(r)
  <2>1. /\ run \in [Runs -> RunRow] /\ rows \in [Runs -> SUBSET RunRow]
        /\ ann \in [Runs -> AnnAt] /\ timer \in SUBSET Runs
    BY DEF TypeOK
  <2>2. CASE timer' = timer \ {r} /\ UNCHANGED <<run, rows, ann>>
    BY <1>1, <2>1, <2>2 DEF AnnounceTimer, TypeOK
  <2>3. CASE Handled(r, "suppressed") /\ UNCHANGED ann
    <3>1. /\ run' \in [Runs -> RunRow] /\ rows' \in [Runs -> SUBSET RunRow]
          /\ timer' = timer \ {r}
      BY <2>3, Handling
    <3> QED BY <1>1, <2>1, <2>3, <3>1 DEF AnnounceTimer, TypeOK
  <2>4. CASE /\ timer' = timer \ {r} /\ ann' = [ann EXCEPT ![r] = "check"]
             /\ rows' = Persisted({r}, run) /\ UNCHANGED run
    <3>1. rows' \in [Runs -> SUBSET RunRow]
      BY <2>1, <2>4, Persisting
    <3>2. timer' \in SUBSET Runs /\ ann' \in [Runs -> AnnAt]
      BY <2>1, <2>4 DEF AnnAt
    <3> QED BY <1>1, <2>1, <2>4, <3>1, <3>2 DEF AnnounceTimer, TypeOK
  <2> QED BY <1>1, <2>2, <2>3, <2>4 DEF AnnounceTimer
<1>2. CASE Expire(r)
  BY <1>2 DEF Expire, TypeOK
<1> QED BY <1>1, <1>2

\* What the registry takes from the table when it starts.
LEMMA Restarting ==
    ASSUME TypeOK, CrashAndRestart
    PROVE  /\ run' \in [Runs -> RunRow] /\ rows' \in [Runs -> SUBSET RunRow]
           /\ known' \in SUBSET Runs /\ timer' \in SUBSET Runs
           /\ endedAt' \in [Runs -> Nat] /\ late' \in SUBSET Runs
           /\ cause' \in [Runs -> SUBSET Causes]
           /\ \A r \in Runs :
                /\ rows'[r] = {run'[r]} /\ ann'[r] = "idle"
                /\ r \in timer' => ~run'[r].handled
                /\ \E old \in rows[r] :
                     /\ \/ old.status # "running" /\ run'[r] = old
                        \/ /\ old.status = "running" /\ run'[r].status = "ended"
                           /\ run'[r].handled = old.handled /\ run'[r].dropped = old.dropped
                     /\ cause'[r] \subseteq cause[r] \cup {"torn"}
                     /\ cause[r] \ {"leak"} \subseteq cause'[r]
                     /\ "leak" \notin cause'[r]
                     /\ old # run[r] \/ ann[r] # "idle" => "torn" \in cause'[r]
                     /\ old = run[r] /\ ann[r] = "idle" => cause'[r] = cause[r] \ {"leak"}
<1>1. PICK row \in [Runs -> UNION {rows[r] : r \in Runs}] :
       LET there == {r \in Runs : row[r].status # "absent"}
           cut   == {r \in there : row[r].status = "running"}
       IN /\ \A r \in Runs : row[r] \in rows[r]
          /\ run' = [r \in Runs |-> IF r \in cut THEN [row[r] EXCEPT !.status = "ended"] ELSE row[r]]
          /\ known' = there
          /\ timer' = {r \in there : ~run'[r].handled}
          /\ endedAt' = [r \in Runs |-> IF r \notin there THEN 0
                                        ELSE IF r \in cut THEN Now ELSE endedAt[r]]
          /\ late' \in {late \cap (there \ cut), there \ cut}
          /\ cause' = [r \in Runs |-> (cause[r] \ {"leak"}) \cup
                                      (IF row[r] # run[r] \/ ann[r] # "idle" THEN {"torn"} ELSE {})]
  BY DEF CrashAndRestart
<1> DEFINE there == {r \in Runs : row[r].status # "absent"}
           cut   == {r \in there : row[r].status = "running"}
           fixed(r) == [row[r] EXCEPT !.status = "ended"]
           torn(r) == IF row[r] # run[r] \/ ann[r] # "idle" THEN {"torn"} ELSE {}
           causes(r) == (cause[r] \ {"leak"}) \cup torn(r)
<1>2. \A r \in Runs : row[r] \in rows[r] /\ row[r] \in RunRow
  BY <1>1 DEF TypeOK
<1>3. \A r \in Runs : /\ fixed(r) \in RunRow /\ fixed(r).status = "ended"
                      /\ fixed(r).handled = row[r].handled /\ fixed(r).dropped = row[r].dropped
  BY <1>2 DEF RunRow, Over
<1>4. \A r \in Runs : r \in cut <=> row[r].status = "running"
  OBVIOUS
<1>5. run' = [r \in Runs |-> IF r \in cut THEN fixed(r) ELSE row[r]]
  BY <1>1
<1>6. there \in SUBSET Runs
  OBVIOUS
<1>7. known' = there /\ timer' = {r \in there : ~run'[r].handled}
  BY <1>1
<1>8. endedAt' \in [Runs -> Nat]
  BY <1>1, Counting DEF TypeOK
<1>9. late' \in SUBSET Runs
  BY <1>1, <1>6
<1>10. cause' = [r \in Runs |-> causes(r)]
  BY <1>1
<1>11. \A r \in Runs : causes(r) \in SUBSET Causes
  BY DEF TypeOK, Causes
<1>12. \A r \in Runs :
         /\ causes(r) \subseteq cause[r] \cup {"torn"}
         /\ cause[r] \ {"leak"} \subseteq causes(r)
         /\ "leak" \notin causes(r)
         /\ row[r] # run[r] \/ ann[r] # "idle" => "torn" \in causes(r)
         /\ row[r] = run[r] /\ ann[r] = "idle" => causes(r) = cause[r] \ {"leak"}
  OBVIOUS
<1> HIDE DEF there, cut, fixed, causes
<1>13. run' \in [Runs -> RunRow]
  BY <1>2, <1>3, <1>5
<1>14. \A r \in Runs : \/ row[r].status # "running" /\ run'[r] = row[r]
                       \/ row[r].status = "running" /\ run'[r] = fixed(r)
  BY <1>4, <1>5
<1>15. /\ cause' \in [Runs -> SUBSET Causes]
       /\ \A r \in Runs : cause'[r] = causes(r)
  BY <1>10, <1>11
<1>16. /\ rows' = [r \in Runs |-> {run'[r]}]
       /\ ann' = [r \in Runs |-> "idle"]
  BY DEF CrashAndRestart
<1>17. rows' \in [Runs -> SUBSET RunRow]
  BY <1>13, <1>16
<1>18. known' \in SUBSET Runs /\ timer' \in SUBSET Runs
  BY <1>6, <1>7
<1>19. ASSUME NEW r \in Runs
       PROVE  /\ rows'[r] = {run'[r]} /\ ann'[r] = "idle"
              /\ r \in timer' => ~run'[r].handled
              /\ row[r] \in rows[r]
              /\ \/ row[r].status # "running" /\ run'[r] = row[r]
                 \/ /\ row[r].status = "running" /\ run'[r].status = "ended"
                    /\ run'[r].handled = row[r].handled /\ run'[r].dropped = row[r].dropped
  BY <1>2, <1>3, <1>7, <1>14, <1>16
<1>20. ASSUME NEW r \in Runs
       PROVE  /\ cause'[r] \subseteq cause[r] \cup {"torn"}
              /\ cause[r] \ {"leak"} \subseteq cause'[r]
              /\ "leak" \notin cause'[r]
              /\ row[r] # run[r] \/ ann[r] # "idle" => "torn" \in cause'[r]
              /\ row[r] = run[r] /\ ann[r] = "idle" => cause'[r] = cause[r] \ {"leak"}
  BY <1>12, <1>15
<1> QED BY <1>8, <1>9, <1>13, <1>15, <1>17, <1>18, <1>19, <1>20

LEMMA TypeRestart == ASSUME TypeOK, CrashAndRestart PROVE TypeOK'
<1>1. NoExec \in ExecRow /\ Done \in ExecRow
  BY DEF NoExec, Done, ExecRow
<1>2. /\ exec' \in [Runs -> ExecRow] /\ held' \in [Sessions -> Nat]
      /\ ann' \in [Runs -> AnnAt]
  BY <1>1 DEF CrashAndRestart, AnnAt
<1>3. faults' \in 0 .. MaxFaults
  BY Faulting DEF CrashAndRestart
<1>4. UNCHANGED <<session, key, told>>
  BY DEF CrashAndRestart
<1> QED BY <1>2, <1>3, <1>4, Restarting DEF TypeOK

LEMMA TypeKept == ASSUME TypeOK, Next PROVE TypeOK'
  BY TypeStops, TypeExecutes, TypeAnnounces, TypeTimes, TypeRestart DEF Next, Executes

----------------------------------------------------------------------------
\* The books of a run, step by step.

LEMMA BooksInit == Init => BooksKept
<1> SUFFICES ASSUME Init, NEW r \in Runs PROVE Books(r)
  BY DEF BooksKept
<1>1. /\ run[r] = NoRun /\ rows[r] = {NoRun} /\ ann[r] = "idle" /\ r \notin timer
      /\ key[r] = "none" /\ cause[r] = {} /\ \A c \in Channels : told[r][c] = 0
  BY DEF Init
<1>2. /\ NoRun.status = "absent"
      /\ told[r]["direct"] = 0 /\ told[r]["followup"] = 0 /\ told[r]["event"] = 0
  BY <1>1 DEF NoRun, Channels
<1> QED BY <1>1, <1>2 DEF Books, Fresh, Underway, Shut, Closed, Announcing, Posted, Told,
                          Wasted, Quiet, Made, ToldIn

\* What a step leaves alone of the books of r.
Untouched(r) ==
    /\ run'[r] = run[r] /\ rows'[r] = rows[r] /\ ann'[r] = ann[r]
    /\ key'[r] = key[r] /\ told'[r] = told[r]
    /\ r \in timer' => r \in timer
    /\ r \in known => r \in known' \/ run[r].status # "running"
    /\ \/ exec'[r].at = exec[r].at
       \/ /\ exec'[r].at \in Early => exec[r].at \in Early
          /\ run[r].status = "running" => exec'[r].at \notin Early \cup {"over"}
    /\ \/ cause'[r] = cause[r]
       \/ cause'[r] = cause[r] \cup {"leak"} /\ exec'[r].at \notin Early

LEMMA BooksUntouched == ASSUME NEW r \in Runs, Books(r), Untouched(r) PROVE Books(r)'
<1>1. Fresh(r)' /\ Underway(r)'
  BY DEF Books, Untouched, Fresh, Underway
<1>2. Shut(r)'
  BY DEF Books, Untouched, Shut, Closed
<1>3. Announcing(r)'
  BY DEF Books, Untouched, Announcing
<1>4. Posted(r)'
  BY DEF Books, Untouched, Posted
<1>5. ToldIn(r)' = ToldIn(r)
  BY DEF Untouched, ToldIn
<1>6. Told(r)' /\ Wasted(r)' /\ Quiet(r)' /\ Made(r)'
  BY <1>5 DEF Books, Untouched, Told, Wasted, Quiet, Made
<1> QED BY <1>1, <1>2, <1>3, <1>4, <1>6 DEF Books

\* A running run is killed.
LEMMA BooksKilled ==
    ASSUME TypeOK, NEW r \in Runs, Books(r), run[r].status = "running",
           run'[r].status = "killed", run'[r].handled, run'[r].dropped,
           rows'[r] = rows[r] \cup {run'[r]}, cause'[r] = cause[r] \cup {"killed"},
           r \notin timer', exec'[r].at = exec[r].at,
           ann'[r] = ann[r], key'[r] = key[r], told'[r] = told[r]
    PROVE  Books(r)'
<1>1. /\ exec[r].at \notin Early
      /\ ann[r] = "idle" /\ key[r] = "none"
      /\ told[r]["direct"] = 0 /\ told[r]["followup"] = 0 /\ told[r]["event"] = 0
  BY DEF Books, Underway, Channels
<1>2. ToldIn(r)' = 0
  BY <1>1 DEF ToldIn
<1> QED BY <1>1, <1>2 DEF Books, Fresh, Underway, Shut, Closed, Announcing, Posted, Told,
                          Wasted, Quiet, Made

LEMMA BooksStops ==
    ASSUME TypeOK, BooksKept, \/ \E r \in Runs : Steer(r) \/ Kill(r)
                              \/ \E s \in Tops : KillAll(s) \/ Archive(s)
    PROVE  BooksKept'
<1>1. ASSUME NEW S, S \subseteq Running, Kills(S),
             UNCHANGED <<known, ann, key, told>>,
             \A r \in Runs : \/ exec'[r].at = exec[r].at
                             \/ exec[r].at = "none" /\ exec'[r].at = "settling"
      PROVE  BooksKept'
  <2> SUFFICES ASSUME NEW r \in Runs PROVE Books(r)'
    BY DEF BooksKept
  <2>1. Books(r)
    BY DEF BooksKept
  <2>2. CASE r \in Fallen(S)
    <3>1. run[r].status = "running" /\ exec[r].at # "none"
      BY <1>1, <2>1, <2>2, Killing DEF Running, Books, Underway, Early
    <3>2. r \notin timer'
      BY <1>1, <2>2, Killing
    <3> QED BY <1>1, <2>1, <2>2, <3>1, <3>2, Killing, BooksKilled
  <2>3. CASE r \notin Fallen(S)
    <3>1. run'[r] = run[r] /\ rows'[r] = rows[r] /\ cause'[r] = cause[r]
      BY <1>1, <2>3, Killing
    <3>2. r \in timer' => r \in timer
      BY <1>1, Killing
    <3>3. run[r].status = "running" => exec[r].at # "none"
      BY <2>1 DEF Books, Underway, Early
    <3>4. Untouched(r)
      BY <1>1, <3>1, <3>2, <3>3 DEF Untouched, Early
    <3> QED BY <2>1, <3>4, BooksUntouched
  <2> QED BY <2>2, <2>3
<1>2. ASSUME NEW r \in Runs, Steer(r) PROVE BooksKept'
  <2> DEFINE old == ReplacementOf[r]
  <2>1. {old} \subseteq Running /\ Kills({old}) /\ UNCHANGED <<known, ann, key, told>>
    BY <1>2 DEF Steer
  <2>2. exec' = [Aborted({old}) EXCEPT ![r].at = "settling"] /\ exec[r].at = "none"
    BY <1>2 DEF Steer
  <2>3. \A q \in Runs : \/ exec'[q].at = exec[q].at
                        \/ exec[q].at = "none" /\ exec'[q].at = "settling"
    BY <2>2, Aborting DEF ExecRow
  <2> QED BY <1>1, <2>1, <2>3
<1>3. ASSUME NEW r \in Runs, Kill(r) PROVE BooksKept'
  BY <1>1, <1>3, Aborting DEF Kill
<1>4. ASSUME NEW s \in Tops, KillAll(s) PROVE BooksKept'
  BY <1>1, <1>4, Aborting DEF KillAll
<1>5. ASSUME NEW s \in Tops, Archive(s) PROVE BooksKept'
  <2>1. \A r \in Runs : Untouched(r)
    BY <1>5 DEF Archive, Untouched
  <2> QED BY <2>1, BooksUntouched DEF BooksKept
<1> QED BY <1>2, <1>3, <1>4, <1>5

LEMMA BooksExecutes ==
    ASSUME TypeOK, BooksKept, NEW r \in Runs,
           Spawn(r) \/ Identify(r) \/ Work(r) \/ CleanUp(r)
    PROVE  BooksKept'
<1>1. UNCHANGED <<known, run, rows, timer, ann, key, told>>
  BY DEF Spawn, Identify, Work, CleanUp
<1>2. /\ \A q \in Runs \ {r} : exec'[q] = exec[q]
      /\ exec'[r].at \notin {"none", "settling", "over"}
      /\ exec'[r].at \in Early => exec[r].at \in Early
      /\ exec[r].at \notin Early => exec'[r].at \notin Early
  <2>1. CASE Spawn(r)
    BY <2>1, GoingOn DEF Spawn, Early
  <2>2. CASE Identify(r)
    BY <2>2, GoingOn, Prompting, Failing, SubagentAssumption DEF Identify, Early
  <2>3. CASE Work(r)
    BY <2>3, Failing, SubagentAssumption DEF Work, Early, TypeOK, ExecRow
  <2>4. CASE CleanUp(r)
    BY <2>4, GoingOn, FallingSilent, Failing, SubagentAssumption DEF CleanUp, Early
  <2> QED BY <2>1, <2>2, <2>3, <2>4
<1>3. /\ \A q \in Runs \ {r} : cause'[q] = cause[q]
      /\ cause'[r] = cause[r] \/ (cause'[r] = cause[r] \cup {"leak"} /\ exec'[r].at \notin Early)
  BY GoingOn, Prompting, Blaming DEF Spawn, Identify, Work, CleanUp, Causes, Early
<1>4. \A q \in Runs : Books(q) => Untouched(q)
  BY <1>1, <1>2, <1>3 DEF Untouched, Books, Underway, Early
<1> QED BY <1>4, BooksUntouched DEF BooksKept

LEMMA BooksRegister == ASSUME TypeOK, BooksKept, NEW r \in Runs, Register(r) PROVE BooksKept'
<1>1. UNCHANGED <<timer, ann, key, told>>
  BY DEF Register
<1>2. ASSUME NEW q \in Runs, q # r PROVE Books(q)'
  <2>1. Untouched(q)
    BY <1>1, <1>2, Registering DEF Untouched
  <2> QED BY <2>1, BooksUntouched DEF BooksKept
<1>3. Books(r)'
  <2>1. Fresh(r) /\ exec[r].at \in Early
    BY Registering DEF BooksKept, Books, Early
  <2>2. /\ ann[r] = "idle" /\ r \notin timer /\ key[r] = "none"
        /\ "killed" \notin cause[r] /\ rows[r] = {NoRun}
        /\ \A c \in Channels : told[r][c] = 0
    BY <2>1 DEF Fresh
  <2>3. ToldIn(r)' = 0 /\ told[r]["direct"] = 0 /\ told[r]["event"] = 0
    BY <1>1, <2>2 DEF ToldIn, Channels
  <2>4. /\ run'[r].status = "running" /\ ~run'[r].handled /\ ~run'[r].dropped
        /\ rows'[r] = rows[r] \cup {run'[r]} /\ r \in known'
        /\ exec'[r].at \in {"identity", "ended"}
        /\ "killed" \notin cause'[r]
    BY <2>2, Registering
  <2>5. Fresh(r)' /\ Underway(r)'
    BY <1>1, <2>2, <2>4 DEF Fresh, Underway, Early
  <2>6. Shut(r)'
    BY <2>2, <2>4 DEF Shut, Closed, NoRun
  <2>7. Announcing(r)' /\ Posted(r)'
    BY <1>1, <2>2, <2>3 DEF Announcing, Posted
  <2>8. Told(r)' /\ Wasted(r)' /\ Quiet(r)' /\ Made(r)'
    BY <1>1, <2>2, <2>3, <2>4 DEF Told, Wasted, Quiet, Made
  <2> QED BY <2>5, <2>6, <2>7, <2>8 DEF Books
<1> QED BY <1>2, <1>3 DEF BooksKept

LEMMA BooksSettle == ASSUME TypeOK, BooksKept, NEW r \in Runs, Settle(r) PROVE BooksKept'
<1>1. UNCHANGED <<key, told, cause>>
  BY DEF Settle
<1>2. /\ \A q \in Runs \ {r} : exec'[q] = exec[q]
      /\ exec[r].at = "ended" /\ exec'[r].at = "over"
  BY DEF Settle, Done, NoExec, TypeOK
<1>3. CASE ~MayEnd(r) /\ UNCHANGED <<known, run, rows, endedAt, timer, ann>>
  <2>1. run[r].status # "running"
    BY <1>3 DEF MayEnd, Running, BooksKept, Books, Underway
  <2>2. \A q \in Runs : Untouched(q)
    BY <1>1, <1>2, <1>3, <2>1 DEF Untouched, Early
  <2> QED BY <2>2, BooksUntouched DEF BooksKept
<1>4. CASE MayEnd(r) /\ Ends(r)
  <2>1. ASSUME NEW q \in Runs, q # r PROVE Books(q)'
    <3>1. q \in known => q \in known' \/ run[q].status # "running"
      BY <1>4, <2>1, Ending DEF Over
    <3>2. q \in timer' => q \in timer
      BY <1>4, <2>1, Ending
    <3>3. Untouched(q)
      BY <1>1, <1>2, <1>4, <2>1, <3>1, <3>2, Ending DEF Untouched
    <3> QED BY <3>3, BooksUntouched DEF BooksKept
  <2>2. Books(r)'
    <3>1. Books(r) /\ run[r].status = "running"
      BY <1>4 DEF BooksKept, MayEnd, Running
    <3>2. /\ ann[r] = "idle" /\ r \notin timer /\ key[r] = "none" /\ "killed" \notin cause[r]
          /\ \A c \in Channels : told[r][c] = 0
      BY <3>1 DEF Books, Underway
    <3>3. ToldIn(r)' = 0 /\ told[r]["direct"] = 0 /\ told[r]["event"] = 0
      BY <1>1, <3>2 DEF ToldIn, Channels
    <3>4. /\ run'[r].status = "ended" /\ ~run'[r].handled /\ ~run'[r].dropped
          /\ rows'[r] = rows[r] \cup {run'[r]}
          /\ \/ ann'[r] = "idle"
             \/ ann'[r] = "check" /\ r \notin timer'
      BY <1>4, <3>2, Ending
    <3>5. Fresh(r)' /\ Underway(r)'
      BY <1>2, <3>4 DEF Fresh, Underway, Early
    <3>6. Shut(r)'
      BY <3>1, <3>4 DEF Books, Shut, Closed
    <3>7. Announcing(r)' /\ Posted(r)'
      BY <1>1, <3>3, <3>4 DEF Announcing, Posted
    <3>8. Told(r)' /\ Wasted(r)' /\ Quiet(r)' /\ Made(r)'
      BY <1>1, <3>2, <3>3, <3>4 DEF Told, Wasted, Quiet, Made
    <3> QED BY <3>5, <3>6, <3>7, <3>8 DEF Books
  <2> QED BY <2>1, <2>2 DEF BooksKept
<1> QED BY <1>3, <1>4 DEF Settle

\* An announcement that is under way.
OpenRun(r) ==
    /\ run[r].status = "ended" /\ run[r].handled = FALSE /\ run[r].dropped = FALSE
    /\ r \notin timer /\ exec[r].at \notin Early
    /\ told[r]["direct"] \in Nat /\ told[r]["followup"] \in Nat /\ told[r]["event"] \in Nat
    /\ "killed" \in cause[r] => "torn" \in cause[r]

LEMMA Open == ASSUME TypeOK, NEW r \in Runs, Books(r), ann[r] # "idle" PROVE OpenRun(r)
<1>1. run[r] \in RunRow /\ told[r] \in [Channels -> Nat]
  BY DEF TypeOK
<1>2. run[r].handled \in BOOLEAN /\ run[r].dropped \in BOOLEAN
  BY <1>1 DEF RunRow
<1>3. told[r]["direct"] \in Nat /\ told[r]["followup"] \in Nat /\ told[r]["event"] \in Nat
  BY <1>1 DEF Channels
<1> QED BY <1>2, <1>3 DEF Books, Announcing, Fresh, Quiet, OpenRun

\* What every step of an announcement keeps.
LEMMA BooksOpen ==
    ASSUME TypeOK, NEW r \in Runs, Books(r), ann[r] # "idle", exec' = exec, AnnounceStep(r)
    PROVE  Fresh(r)' /\ Underway(r)' /\ Shut(r)' /\ Announcing(r)'
<1>1. ASSUME NEW out, Conclude(r, out)
      PROVE  Fresh(r)' /\ Underway(r)' /\ Shut(r)' /\ Announcing(r)'
  BY <1>1, Open, Concluding DEF OpenRun, Fresh, Underway, Books, Shut, Closed, Announcing
<1>2. ASSUME NEW at \in {"followup", "reserve", "event", "post", "mark"}, AnnGoes(r, at)
      PROVE  Fresh(r)' /\ Underway(r)' /\ Shut(r)' /\ Announcing(r)'
  BY <1>2, Open, AnnGoing DEF OpenRun, Fresh, Underway, Books, Shut, Closed, Announcing, AnnAt
<1> QED BY <1>1, <1>2 DEF AnnounceStep

\* The books of what was told, of the key and of the outcome.
Outcome(r) == Posted(r) /\ Told(r) /\ Wasted(r) /\ Quiet(r) /\ Made(r)

\* The outcomes of Conclude.
Concluded(r, out) ==
    /\ ann'[r] = "idle" /\ run'[r].status = "ended"
    /\ \/ run'[r].handled /\ (run'[r].dropped \/ out \notin {"suppressed", "failed"})
       \/ out = "failed" /\ ~run'[r].handled

LEMMA Concludes ==
    ASSUME TypeOK, NEW r \in Runs, Books(r), ann[r] # "idle", NEW out, Conclude(r, out)
    PROVE  Concluded(r, out)
  BY Open, Concluding DEF OpenRun, Concluded

LEMMA OutcomeCheck ==
    ASSUME TypeOK, NEW r \in Runs, Books(r), CheckParent(r) PROVE Outcome(r)'
<1>1. ann[r] = "check" /\ key' = key /\ told' = told
  BY DEF CheckParent
<1>0. OpenRun(r)
  BY <1>1, Open
<1>2. cause'[r] = cause[r] \/ cause'[r] = cause[r] \cup {"db"}
  BY Blaming DEF CheckParent, Causes
<1>3. \/ Concluded(r, "suppressed") \/ Concluded(r, "failed")
      \/ ann'[r] \in {"followup", "reserve"} /\ run' = run
  BY <1>1, Concludes, AnnGoing DEF CheckParent, AnnAt
<1>4. ToldIn(r)' = ToldIn(r)
  BY <1>1 DEF ToldIn
<1> QED BY <1>0, <1>1, <1>2, <1>3, <1>4
        DEF OpenRun, Books, Outcome, Concluded, Posted, Told, Wasted, Quiet, Made

LEMMA OutcomeReserve ==
    ASSUME TypeOK, NEW r \in Runs, Books(r), Reserve(r) PROVE Outcome(r)'
<1>1. ann[r] = "reserve" /\ told' = told /\ cause' = cause
  BY DEF Reserve
<1>0. OpenRun(r)
  BY <1>1, Open
<1>2. \/ ann'[r] \in {"followup", "event"} /\ run' = run /\ key' = key
      \/ Concluded(r, "suppressed") /\ key' = key
      \/ Concluded(r, "duplicate") /\ key' = key /\ key[r] # "none"
      \/ ann'[r] = "post" /\ run' = run /\ key[r] = "none" /\ key'[r] = "pending"
  BY <1>1, Concludes, AnnGoing DEF Reserve, AnnAt, KeyTaken, TypeOK
<1>3. ToldIn(r)' = ToldIn(r)
  BY <1>1 DEF ToldIn
<1>4. ToldIn(r) \in Nat
  BY <1>1, <1>0 DEF OpenRun, ToldIn
<1> QED BY <1>0, <1>1, <1>2, <1>3, <1>4
        DEF OpenRun, Books, Outcome, Concluded, Posted, Told, Wasted, Quiet, Made

LEMMA OutcomePost ==
    ASSUME TypeOK, NEW r \in Runs, Books(r), Post(r) PROVE Outcome(r)'
<1>1. ann[r] = "post" /\ key' = key /\ run' = run
  BY AnnGoing DEF Post, AnnAt
<1>0. OpenRun(r)
  BY <1>1, Open
<1>2. \/ Tell(r, "direct") /\ ann'[r] = "mark" /\ cause' = cause
      \/ told' = told /\ ann'[r] = "event" /\ cause'[r] = cause[r] \cup {"post"}
      \/ Tell(r, "direct") /\ ann'[r] = "event" /\ cause'[r] = cause[r] \cup {"lostAck"}
  BY AnnGoing, Blaming DEF Post, AnnAt, Causes
<1>3. Tell(r, "direct") => /\ told'[r]["direct"] = told[r]["direct"] + 1
                           /\ told'[r]["followup"] = told[r]["followup"]
                           /\ told'[r]["event"] = told[r]["event"]
  BY Telling DEF Channels
<1>4. Tell(r, "direct") => ToldIn(r)' = ToldIn(r) + 1
  BY <1>1, <1>3, <1>0 DEF OpenRun, ToldIn
<1>5. told' = told => ToldIn(r)' = ToldIn(r)
  BY DEF ToldIn
<1>6. ToldIn(r) \in Nat
  BY <1>1, <1>0 DEF OpenRun, ToldIn
<1> QED BY <1>0, <1>1, <1>2, <1>3, <1>4, <1>5, <1>6
        DEF OpenRun, Books, Outcome, Posted, Told, Wasted, Quiet, Made

LEMMA OutcomeMark ==
    ASSUME TypeOK, NEW r \in Runs, Books(r), Mark(r) PROVE Outcome(r)'
<1>1. ann[r] = "mark" /\ told' = told /\ cause' = cause
  BY DEF Mark
<1>0. OpenRun(r)
  BY <1>1, Open
<1>2. Concluded(r, "sent") /\ (key'[r] = key[r] \/ key'[r] = "sent")
  BY <1>1, Concludes DEF Mark, TypeOK
<1>3. ToldIn(r)' = ToldIn(r) /\ ToldIn(r) > 0
  BY <1>1, <1>0 DEF OpenRun, ToldIn, Books, Posted
<1> QED BY <1>0, <1>1, <1>2, <1>3
        DEF OpenRun, Books, Outcome, Concluded, Posted, Told, Wasted, Quiet, Made

LEMMA OutcomeFollowup ==
    ASSUME TypeOK, NEW r \in Runs, Books(r), Followup(r) PROVE Outcome(r)'
<1>1. ann[r] = "followup" /\ key' = key
  BY DEF Followup
<1>0. OpenRun(r)
  BY <1>1, Open
<1>2. \/ Tell(r, "followup") /\ Concluded(r, "queued") /\ cause' = cause
      \/ told' = told /\ ann'[r] = "event" /\ run' = run
         /\ (cause' = cause \/ cause'[r] = cause[r] \cup {"db"})
  BY <1>1, Concludes, AnnGoing, Blaming DEF Followup, AnnAt, Causes
<1>3. Tell(r, "followup") => /\ told'[r]["direct"] = told[r]["direct"]
                             /\ told'[r]["followup"] = told[r]["followup"] + 1
                             /\ told'[r]["event"] = told[r]["event"]
  BY Telling DEF Channels
<1>4. Tell(r, "followup") => ToldIn(r)' = ToldIn(r) + 1
  BY <1>1, <1>3, <1>0 DEF OpenRun, ToldIn
<1>5. told' = told => ToldIn(r)' = ToldIn(r)
  BY DEF ToldIn
<1>6. ToldIn(r) \in Nat
  BY <1>1, <1>0 DEF OpenRun, ToldIn
<1> QED BY <1>0, <1>1, <1>2, <1>3, <1>4, <1>5, <1>6
        DEF OpenRun, Books, Outcome, Concluded, Posted, Told, Wasted, Quiet, Made

LEMMA OutcomeEvent ==
    ASSUME TypeOK, NEW r \in Runs, Books(r), Event(r) PROVE Outcome(r)'
<1>1. ann[r] = "event" /\ key' = key
  BY DEF Event
<1>0. OpenRun(r)
  BY <1>1, Open
<1>2. \/ /\ told[r]["event"] = 0 /\ Tell(r, "event") /\ Concluded(r, "queued")
         /\ cause' = cause
      \/ /\ told[r]["event"] > 0 /\ told' = told /\ Concluded(r, "duplicate")
         /\ cause' = cause
      \/ /\ told' = told /\ Concluded(r, "failed")
         /\ cause'[r] = cause[r] \cup {"db"}
  BY <1>1, Concludes, Blaming DEF Event, Causes
<1>3. Tell(r, "event") => /\ told'[r]["direct"] = told[r]["direct"]
                          /\ told'[r]["followup"] = told[r]["followup"]
                          /\ told'[r]["event"] = told[r]["event"] + 1
  BY Telling DEF Channels
<1>4. Tell(r, "event") => ToldIn(r)' = ToldIn(r) + 1
  BY <1>1, <1>3, <1>0 DEF OpenRun, ToldIn
<1>5. told' = told => ToldIn(r)' = ToldIn(r)
  BY DEF ToldIn
<1>6. ToldIn(r) \in Nat /\ (told[r]["event"] > 0 => ToldIn(r) > 0)
  BY <1>1, <1>0 DEF OpenRun, ToldIn
<1> QED BY <1>0, <1>1, <1>2, <1>3, <1>4, <1>5, <1>6
        DEF OpenRun, Books, Outcome, Concluded, Posted, Told, Wasted, Quiet, Made

LEMMA BooksAnnounces == ASSUME TypeOK, BooksKept, NEW r \in Runs, Announces(r) PROVE BooksKept'
<1>1. UNCHANGED <<known, exec>> /\ ann[r] # "idle"
  BY DEF Announces, CheckParent, Reserve, Post, Mark, Followup, Event
<1>2. ASSUME NEW q \in Runs, q # r PROVE Books(q)'
  <2>1. /\ run'[q] = run[q] /\ rows'[q] = rows[q] /\ ann'[q] = ann[q]
        /\ q \in timer' => q \in timer
    BY <1>2, AnnounceSteps, Concluding, AnnGoing DEF AnnounceStep, AnnAt
  <2>2. key'[q] = key[q]
    BY <1>2 DEF Announces, CheckParent, Reserve, Post, Mark, Followup, Event, TypeOK
  <2>3. told'[q] = told[q]
    BY <1>2, Telling DEF Announces, CheckParent, Reserve, Post, Mark, Followup, Event, Channels
  <2>4. cause'[q] = cause[q]
    BY <1>2, Blaming DEF Announces, CheckParent, Reserve, Post, Mark, Followup, Event, Causes
  <2> QED BY <1>1, <2>1, <2>2, <2>3, <2>4, BooksUntouched DEF Untouched, BooksKept
<1>3. Books(r)'
  <2>1. Books(r)
    BY DEF BooksKept
  <2>2. Outcome(r)'
    BY <2>1, OutcomeCheck, OutcomeReserve, OutcomePost, OutcomeMark, OutcomeFollowup,
       OutcomeEvent DEF Announces
  <2>3. Fresh(r)' /\ Underway(r)' /\ Shut(r)' /\ Announcing(r)'
    BY <1>1, <2>1, BooksOpen, AnnounceSteps
  <2> QED BY <2>2, <2>3 DEF Books, Outcome
<1> QED BY <1>2, <1>3 DEF BooksKept

LEMMA BooksTimes ==
    ASSUME TypeOK, BooksKept, NEW r \in Runs, AnnounceTimer(r) \/ Expire(r)
    PROVE  BooksKept'
<1>1. CASE Expire(r)
  BY <1>1, BooksUntouched DEF Expire, Untouched, BooksKept
<1>2. CASE AnnounceTimer(r)
  <2>1. UNCHANGED <<known, exec, key, told, cause>> /\ r \in timer
    BY <1>2 DEF AnnounceTimer
  <2>2. ASSUME NEW q \in Runs, q # r PROVE Books(q)'
    <3>1. /\ run'[q] = run[q] /\ rows'[q] = rows[q] /\ ann'[q] = ann[q]
          /\ q \in timer' => q \in timer
      <4>1. run \in [Runs -> RunRow] /\ ann \in [Runs -> AnnAt]
        BY DEF TypeOK
      <4>2. CASE \E out \in {"suppressed"} : Handled(r, out) /\ UNCHANGED ann
        BY <2>2, <4>2, Handling
      <4>3. CASE /\ timer' = timer \ {r} /\ ann' = [ann EXCEPT ![r] = "check"]
                 /\ rows' = Persisted({r}, run) /\ UNCHANGED run
        BY <2>2, <4>1, <4>3, Persisting
      <4>4. CASE timer' = timer \ {r} /\ UNCHANGED <<run, rows, ann>>
        BY <4>4
      <4> QED BY <1>2, <4>2, <4>3, <4>4 DEF AnnounceTimer
    <3> QED BY <2>1, <3>1, BooksUntouched DEF Untouched, BooksKept
  <2>3. Books(r) /\ ann[r] = "idle" /\ ToldIn(r)' = ToldIn(r) /\ ToldIn(r) \in Nat
    <3>1. told[r]["direct"] \in Nat /\ told[r]["followup"] \in Nat /\ told[r]["event"] \in Nat
      BY DEF TypeOK, Channels
    <3> QED BY <2>1, <3>1 DEF BooksKept, Books, Announcing, ToldIn
  <2>4. CASE timer' = timer \ {r} /\ UNCHANGED <<run, rows, ann>>
    <3>1. Untouched(r)
      BY <2>1, <2>4 DEF Untouched
    <3> QED BY <2>2, <2>3, <3>1, BooksUntouched DEF BooksKept
  <2>5. ASSUME run[r].status \in Over, ~run[r].handled
        PROVE  /\ run[r].status = "ended" /\ exec[r].at \notin Early
               /\ "killed" \in cause[r] => "torn" \in cause[r]
    BY <2>3, <2>5 DEF Books, Shut, Closed, Fresh, NoRun, Over, Quiet
  <2>6. CASE /\ run[r].status \in Over /\ ~run[r].handled
             /\ Handled(r, "suppressed") /\ UNCHANGED ann
    <3>1. /\ run'[r].status = "ended" /\ run'[r].handled /\ run'[r].dropped
          /\ rows'[r] = rows[r] \cup {run'[r]} /\ r \notin timer'
      BY <2>5, <2>6, Handling
    <3>2. Fresh(r)' /\ Underway(r)' /\ Shut(r)' /\ Announcing(r)'
      BY <2>1, <2>3, <2>5, <2>6, <3>1 DEF Books, Fresh, Underway, Shut, Closed, Announcing
    <3>3. Outcome(r)'
      BY <2>1, <2>3, <2>5, <2>6, <3>1 DEF Books, Outcome, Posted, Told, Wasted, Quiet, Made
    <3> QED BY <2>2, <3>2, <3>3 DEF BooksKept, Books, Outcome
  <2>7. CASE /\ run[r].status \in Over /\ ~run[r].handled /\ ~run[r].dropped
             /\ timer' = timer \ {r} /\ ann' = [ann EXCEPT ![r] = "check"]
             /\ rows' = Persisted({r}, run) /\ UNCHANGED run
    <3>1. rows'[r] = rows[r] \cup {run[r]} /\ ann'[r] = "check" /\ r \notin timer'
      <4>1. run \in [Runs -> RunRow] /\ ann \in [Runs -> AnnAt]
        BY DEF TypeOK
      <4> QED BY <2>7, <4>1, Persisting
    <3>2. Fresh(r)' /\ Underway(r)' /\ Shut(r)' /\ Announcing(r)'
      BY <2>1, <2>3, <2>5, <2>7, <3>1 DEF Books, Fresh, Underway, Shut, Closed, Announcing
    <3>3. Outcome(r)'
      BY <2>1, <2>3, <2>5, <2>7, <3>1 DEF Books, Outcome, Posted, Told, Wasted, Quiet, Made
    <3> QED BY <2>2, <3>2, <3>3 DEF BooksKept, Books, Outcome
  <2> QED BY <1>2, <2>4, <2>6, <2>7 DEF AnnounceTimer
<1> QED BY <1>1, <1>2

LEMMA BooksRestart == ASSUME TypeOK, BooksKept, CrashAndRestart PROVE BooksKept'
<1> SUFFICES ASSUME NEW r \in Runs PROVE Books(r)'
  BY DEF BooksKept
<1>1. Books(r) /\ UNCHANGED <<key, told>> /\ ann'[r] = "idle" /\ rows'[r] = {run'[r]}
      /\ (r \in timer' => ~run'[r].handled)
  BY Restarting DEF BooksKept, CrashAndRestart
<1>2. PICK old \in rows[r] :
        /\ \/ old.status # "running" /\ run'[r] = old
           \/ /\ old.status = "running" /\ run'[r].status = "ended"
              /\ run'[r].handled = old.handled /\ run'[r].dropped = old.dropped
        /\ cause'[r] \subseteq cause[r] \cup {"torn"}
        /\ cause[r] \ {"leak"} \subseteq cause'[r]
        /\ "leak" \notin cause'[r]
        /\ old # run[r] \/ ann[r] # "idle" => "torn" \in cause'[r]
        /\ old = run[r] /\ ann[r] = "idle" => cause'[r] = cause[r] \ {"leak"}
  BY Restarting
<1>3. exec'[r].at = "over" \/ (exec'[r].at = "none" /\ exec[r].at = "none")
  <2>1. Done \in ExecRow /\ NoExec \in ExecRow /\ Done.at = "over" /\ NoExec.at = "none"
    BY DEF Done, NoExec, ExecRow
  <2>2. exec' = [q \in Runs |-> IF exec[q].at = "none" THEN NoExec ELSE Done]
    BY DEF CrashAndRestart
  <2> QED BY <2>1, <2>2 DEF ExecRow
<1>4. Fresh(r)'
  <2>1. SUFFICES ASSUME exec'[r].at \in Early PROVE Fresh(r)'
    BY DEF Fresh
  <2>2. exec[r].at \in Early
    BY <1>3, <2>1 DEF Early
  <2>3. /\ run[r] = NoRun /\ rows[r] = {NoRun} /\ ann[r] = "idle" /\ key[r] = "none"
        /\ cause[r] = {} /\ \A c \in Channels : told[r][c] = 0
    BY <1>1, <2>2 DEF Books, Fresh
  <2>4. old = NoRun /\ run'[r] = NoRun
    <3>1. old = NoRun /\ NoRun.status = "absent"
      BY <1>2, <2>3 DEF NoRun
    <3> QED BY <1>2, <3>1
  <2>5. r \notin timer'
    <3>1. run'[r].status = "absent"
      BY <2>4 DEF NoRun
    <3> QED BY <3>1 DEF CrashAndRestart
  <2> QED BY <1>1, <1>2, <2>3, <2>4, <2>5 DEF Fresh
<1>5. run'[r].status # "running" /\ Closed(run'[r])
  BY <1>1, <1>2 DEF Books, Shut, Closed
<1>6. ToldIn(r)' = ToldIn(r)
  BY <1>1 DEF ToldIn
<1>7. Underway(r)' /\ Shut(r)' /\ Announcing(r)' /\ Posted(r)'
  BY <1>1, <1>5 DEF Books, Underway, Shut, Closed, Announcing, Posted
<1>8. CASE "torn" \in cause'[r]
  BY <1>1, <1>8, <1>4, <1>7 DEF Books, Told, Wasted, Quiet, Made
<1>9. CASE "torn" \notin cause'[r]
  <2>1. old = run[r] /\ ann[r] = "idle" /\ cause'[r] = cause[r] \ {"leak"}
    BY <1>2, <1>9
  <2>2. CASE run[r].status = "running"
    <3>1. /\ key[r] = "none" /\ "killed" \notin cause[r] /\ ~run'[r].handled
          /\ \A c \in Channels : told[r][c] = 0
      BY <1>1, <1>2, <2>1, <2>2 DEF Books, Underway
    <3>2. ToldIn(r)' = 0
      BY <1>1, <3>1 DEF ToldIn, Channels
    <3>3. Told(r)' /\ Wasted(r)' /\ Quiet(r)' /\ Made(r)'
      BY <1>1, <2>1, <3>1, <3>2 DEF Told, Wasted, Quiet, Made
    <3> QED BY <1>4, <1>7, <3>3 DEF Books
  <2>3. CASE run[r].status # "running"
    <3>1. run'[r] = run[r]
      BY <1>2, <2>1, <2>3
    <3>2. Told(r)' /\ Wasted(r)' /\ Quiet(r)' /\ Made(r)'
      BY <1>1, <1>6, <2>1, <3>1 DEF Books, Told, Wasted, Quiet, Made
    <3> QED BY <1>4, <1>7, <3>2 DEF Books
  <2> QED BY <2>2, <2>3
<1> QED BY <1>8, <1>9

LEMMA BooksNext == ASSUME TypeOK, BooksKept, Next PROVE BooksKept'
  BY BooksStops, BooksExecutes, BooksRegister, BooksSettle, BooksAnnounces, BooksTimes,
     BooksRestart DEF Next, Executes

----------------------------------------------------------------------------
\* The slots of a session.

Holds(r) == \/ exec[r].at \in {"identity", "work"}
            \/ exec[r].at = "clean" /\ exec[r].ok
            \/ "leak" \in cause[r]
Holders(s) == {r \in Runs : ParentOf[r] = s /\ Holds(r)}

LEMMA Finite == ASSUME NEW s PROVE IsFiniteSet(Holders(s)) /\ Cardinality(Holders(s)) \in Nat
<1>1. IsFiniteSet(Runs) /\ Holders(s) \subseteq Runs
  BY SubagentAssumption DEF Holders
<1> QED BY <1>1, FS_Subset, FS_CardinalityType

LEMMA Balanced == SlotsBalanced <=> \A s \in Sessions : held[s] = Cardinality(Holders(s))
  BY DEF SlotsBalanced, Holders, Holds

LEMMA SlotsSame ==
    ASSUME SlotsBalanced, held' = held, \A r \in Runs : Holds(r)' <=> Holds(r)
    PROVE  SlotsBalanced'
<1>1. \A s : Holders(s)' = Holders(s)
  BY DEF Holders
<1> HIDE DEF Holders
<1>2. \A s \in Sessions : held'[s] = Cardinality(Holders(s)')
  BY <1>1, Balanced
<1>3. SlotsBalanced' <=> \A s \in Sessions : held'[s] = Cardinality(Holders(s)')
  BY DEF SlotsBalanced, Holders, Holds
<1> QED BY <1>2, <1>3

LEMMA SlotTaken ==
    ASSUME TypeOK, SlotsBalanced, NEW r \in Runs, ~Holds(r), Holds(r)',
           \A q \in Runs \ {r} : Holds(q)' <=> Holds(q),
           held' = Taken(ParentOf[r])
    PROVE  SlotsBalanced'
<1> DEFINE p == ParentOf[r]
<1>1. \A s : s # p => Holders(s)' = Holders(s)
  BY DEF Holders
<1>2. Holders(p)' = Holders(p) \cup {r} /\ r \notin Holders(p)
  BY DEF Holders
<1>3. Cardinality(Holders(p)') = Cardinality(Holders(p)) + 1
  BY <1>2, Finite, FS_AddElement
<1>4. p \in Sessions /\ held \in [Sessions -> Nat]
  BY SubagentAssumption DEF TypeOK
<1>5. held' = [held EXCEPT ![p] = @ + 1]
  BY DEF Taken
<1> HIDE DEF p
<1>6. \A s \in Sessions : held'[s] = Cardinality(Holders(s)')
  BY <1>1, <1>3, <1>4, <1>5, Balanced
<1>7. SlotsBalanced' <=> \A s \in Sessions : held'[s] = Cardinality(Holders(s)')
  BY DEF SlotsBalanced, Holders, Holds
<1> QED BY <1>6, <1>7

LEMMA SlotGiven ==
    ASSUME TypeOK, SlotsBalanced, NEW r \in Runs, Holds(r), ~Holds(r)',
           \A q \in Runs \ {r} : Holds(q)' <=> Holds(q),
           held' = Released(ParentOf[r])
    PROVE  SlotsBalanced'
<1> DEFINE p == ParentOf[r]
<1>1. \A s : s # p => Holders(s)' = Holders(s)
  BY DEF Holders
<1>2. Holders(p)' = Holders(p) \ {r} /\ r \in Holders(p)
  BY DEF Holders
<1>3. Cardinality(Holders(p)') = Cardinality(Holders(p)) - 1
  BY <1>2, Finite, FS_RemoveElement
<1>4. Cardinality(Holders(p)') \in Nat
  BY <1>2, Finite, FS_RemoveElement, FS_CardinalityType
<1>5. p \in Sessions /\ held \in [Sessions -> Nat]
  BY SubagentAssumption DEF TypeOK
<1>6. held' = [held EXCEPT ![p] = IF @ <= 1 THEN 0 ELSE @ - 1]
  BY DEF Released
<1>7. Cardinality(Holders(p)) \in Nat /\ held[p] = Cardinality(Holders(p))
  BY <1>5, Finite, Balanced
<1> HIDE DEF p
<1>8. held'[p] = Cardinality(Holders(p)')
  BY <1>3, <1>4, <1>5, <1>6, <1>7
<1>9. \A s \in Sessions : held'[s] = Cardinality(Holders(s)')
  BY <1>1, <1>5, <1>6, <1>8, Balanced
<1>10. SlotsBalanced' <=> \A s \in Sessions : held'[s] = Cardinality(Holders(s)')
  BY DEF SlotsBalanced, Holders, Holds
<1> QED BY <1>9, <1>10

\* Steps that neither take nor give a slot.
LEMMA Restful ==
    ASSUME TypeOK, BooksKept, LeaksLate,
           \/ \E r \in Runs : \/ Steer(r) \/ Kill(r) \/ Spawn(r) \/ Settle(r)
                              \/ AnnounceTimer(r) \/ Announces(r) \/ Expire(r)
           \/ \E s \in Tops : KillAll(s) \/ Archive(s)
    PROVE  /\ held' = held
           /\ \A q \in Runs : "leak" \in cause'[q] <=> "leak" \in cause[q]
           /\ \A q \in Runs : /\ \/ exec'[q].at = exec[q].at
                                 \/ exec[q].at = "none" /\ exec'[q].at \in {"flow", "settling"}
                                 \/ exec[q].at = "ended" /\ exec'[q].at = "over"
                              /\ exec'[q].ok = exec[q].ok \/ exec'[q].at = "over"
<1>1. ASSUME NEW S, S \subseteq Running, Kills(S)
      PROVE  \A q \in Runs : "leak" \in cause'[q] <=> "leak" \in cause[q]
  BY <1>1, Killing
<1>2. CASE \E r \in Runs : Steer(r)
  <2>1. PICK r \in Runs : Steer(r)
    BY <1>2
  <2> DEFINE old == ReplacementOf[r]
  <2>2. {old} \subseteq Running /\ Kills({old}) /\ held' = held
    BY <2>1 DEF Steer
  <2>3. exec' = [Aborted({old}) EXCEPT ![r].at = "settling"] /\ exec[r].at = "none"
    BY <2>1 DEF Steer
  <2>4. \A q \in Runs : /\ exec'[q].ok = exec[q].ok
                        /\ \/ exec'[q].at = exec[q].at
                           \/ exec[q].at = "none" /\ exec'[q].at = "settling"
    BY <2>3, Aborting DEF ExecRow
  <2> QED BY <1>1, <2>2, <2>4
<1>3. CASE (\E r \in Runs : Kill(r)) \/ \E s \in Tops : KillAll(s)
  <2>1. PICK S : S \subseteq Running /\ Kills(S) /\ exec' = Aborted(S) /\ held' = held
    <3>1. ASSUME NEW r \in Runs, Kill(r)
          PROVE  {r} \subseteq Running /\ Kills({r}) /\ exec' = Aborted({r}) /\ held' = held
      BY <3>1 DEF Kill
    <3>2. ASSUME NEW s \in Tops, KillAll(s)
          PROVE  LET S == Children(s) \cap Running
                 IN  S \subseteq Running /\ Kills(S) /\ exec' = Aborted(S) /\ held' = held
      BY <3>2 DEF KillAll
    <3> QED BY <1>3, <3>1, <3>2
  <2> QED BY <1>1, <2>1, Aborting
<1>4. CASE \E s \in Tops : Archive(s)
  BY <1>4 DEF Archive
<1>5. ASSUME NEW r \in Runs, Spawn(r) \/ Settle(r)
      PROVE  /\ held' = held /\ cause' = cause
             /\ \A q \in Runs \ {r} : exec'[q] = exec[q]
             /\ \/ exec[r].at = "none" /\ exec'[r].at = "flow" /\ exec'[r].ok = exec[r].ok
                \/ exec[r].at = "ended" /\ exec'[r].at = "over"
  BY <1>5, GoingOn DEF Spawn, Settle, Done, NoExec, TypeOK
<1>6. ASSUME NEW r \in Runs, AnnounceTimer(r) \/ Announces(r) \/ Expire(r)
      PROVE  /\ held' = held /\ exec' = exec
             /\ \A q \in Runs : "leak" \in cause'[q] <=> "leak" \in cause[q]
  BY <1>6, Blaming DEF AnnounceTimer, Expire, Announces, CheckParent, Reserve, Post, Mark,
                       Followup, Event, Causes
<1> QED BY <1>2, <1>3, <1>4, <1>5, <1>6

\* What the executor of r does when it takes a slot, uses it or gives it back.
LEMMA Working ==
    ASSUME TypeOK, BooksKept, LeaksLate, NEW r \in Runs,
           Register(r) \/ Identify(r) \/ Work(r) \/ CleanUp(r)
    PROVE  /\ \A q \in Runs \ {r} : exec'[q] = exec[q] /\ cause'[q] = cause[q]
           /\ "leak" \notin cause[r]
           /\ "leak" \in cause'[r] => exec'[r].at = "ended"
           /\ \/ held' = held /\ (Holds(r)' <=> Holds(r))
              \/ held' = Taken(ParentOf[r]) /\ ~Holds(r) /\ Holds(r)'
              \/ held' = Released(ParentOf[r]) /\ Holds(r) /\ ~Holds(r)'
<1>1. CASE Register(r)
  <2>1. exec[r].at \in Early /\ cause[r] = {}
    BY <1>1, Registering DEF BooksKept, Books, Fresh, Early
  <2>2. "leak" \notin cause'[r]
    BY <1>1, <2>1, Registering
  <2>3. \A q \in Runs \ {r} : exec'[q] = exec[q] /\ cause'[q] = cause[q]
    BY <1>1, Registering
  <2>4. \/ exec'[r].at = "identity" /\ held' = Taken(ParentOf[r])
        \/ exec'[r].at = "ended" /\ held' = held
    BY <1>1, Registering
  <2> QED BY <2>1, <2>2, <2>3, <2>4 DEF Holds, Early
<1>2. CASE Identify(r)
  <2>1. exec[r].at = "identity" /\ "leak" \notin cause[r]
    BY <1>2 DEF Identify, LeaksLate
  <2>2. CASE cause' = Blame({r}, "leak") /\ Goes(r, "ended") /\ UNCHANGED held
    <3>1. exec'[r].at = "ended" /\ \A q \in Runs \ {r} : exec'[q] = exec[q]
      BY <2>2, GoingOn
    <3>2. "leak" \in cause'[r] /\ \A q \in Runs \ {r} : cause'[q] = cause[q]
      <4>1. "leak" \in Causes
        BY DEF Causes
      <4> QED BY <2>2, <4>1, Blaming
    <3>3. Holds(r) /\ Holds(r)'
      BY <2>1, <3>2 DEF Holds
    <3> QED BY <2>1, <2>2, <3>1, <3>2, <3>3
  <2>3. CASE Fails(r) /\ UNCHANGED cause
    BY <2>1, <2>3, Failing, SubagentAssumption DEF Holds, Fails
  <2>4. CASE GoesTalking(r, "work", Spawns(r)) /\ UNCHANGED <<held, cause>>
    BY <2>1, <2>4, Prompting DEF Holds
  <2> QED BY <1>2, <2>2, <2>3, <2>4 DEF Identify
<1>3. CASE Work(r)
  <2>1. exec[r].at = "work" /\ "leak" \notin cause[r] /\ cause' = cause
    BY <1>3 DEF Work, LeaksLate
  <2>2. CASE exec' = [exec EXCEPT ![r].at = "clean", ![r].ok = TRUE] /\ UNCHANGED held
    <3>1. /\ exec'[r].at = "clean" /\ exec'[r].ok = TRUE
          /\ \A q \in Runs \ {r} : exec'[q] = exec[q]
      BY <2>2 DEF TypeOK, ExecRow
    <3> QED BY <2>1, <2>2, <3>1 DEF Holds
  <2>3. CASE Fails(r)
    BY <2>1, <2>3, Failing, SubagentAssumption DEF Holds, Fails
  <2> QED BY <1>3, <2>2, <2>3 DEF Work
<1>4. CASE CleanUp(r)
  <2>1. exec[r].at = "clean" /\ "leak" \notin cause[r] /\ cause' = cause
    BY <1>4 DEF CleanUp, LeaksLate
  <2>2. CASE /\ GoesTalking(r, "ended", exec[r].prompt /\ ~exec[r].ok) \/ Goes(r, "ended")
             /\ held' = IF exec[r].ok THEN Released(ParentOf[r]) ELSE held
    <3>1. exec'[r].at = "ended" /\ \A q \in Runs \ {r} : exec'[q] = exec[q]
      BY <2>2, GoingOn, FallingSilent
    <3>2. CASE exec[r].ok
      BY <2>1, <2>2, <3>1, <3>2 DEF Holds
    <3>3. CASE ~exec[r].ok
      BY <2>1, <2>2, <3>1, <3>3 DEF Holds
    <3> QED BY <3>2, <3>3
  <2>3. CASE exec[r].ok /\ Fails(r)
    BY <2>1, <2>3, Failing, SubagentAssumption DEF Holds, Fails
  <2> QED BY <1>4, <2>2, <2>3 DEF CleanUp
<1> QED BY <1>1, <1>2, <1>3, <1>4

LEMMA SlotsRestart == ASSUME TypeOK, CrashAndRestart PROVE SlotsBalanced' /\ LeaksLate'
<1>1. \A r \in Runs : exec'[r].at \in {"none", "over"} /\ "leak" \notin cause'[r]
  <2>1. Done \in ExecRow /\ NoExec \in ExecRow /\ Done.at = "over" /\ NoExec.at = "none"
    BY DEF Done, NoExec, ExecRow
  <2>2. exec' = [q \in Runs |-> IF exec[q].at = "none" THEN NoExec ELSE Done]
    BY DEF CrashAndRestart
  <2> QED BY <2>1, <2>2, Restarting
<1>2. \A s : Holders(s)' = {}
  BY <1>1 DEF Holders, Holds
<1>3. \A s \in Sessions : held'[s] = 0
  BY DEF CrashAndRestart
<1>4. \A s \in Sessions : held'[s] = Cardinality(Holders(s)')
  BY <1>2, <1>3, FS_EmptySet
<1>5. SlotsBalanced' <=> \A s \in Sessions : held'[s] = Cardinality(Holders(s)')
  BY DEF SlotsBalanced, Holders, Holds
<1> QED BY <1>1, <1>4, <1>5 DEF LeaksLate

LEMMA SlotsNext ==
    ASSUME TypeOK, BooksKept, LeaksLate, SlotsBalanced, Next
    PROVE  LeaksLate' /\ SlotsBalanced'
<1>1. CASE \/ \E r \in Runs : \/ Steer(r) \/ Kill(r) \/ Spawn(r) \/ Settle(r)
                              \/ AnnounceTimer(r) \/ Announces(r) \/ Expire(r)
           \/ \E s \in Tops : KillAll(s) \/ Archive(s)
  <2>1. LeaksLate'
    BY <1>1, Restful DEF LeaksLate
  <2>2. \A q \in Runs : Holds(q)' <=> Holds(q)
    BY <1>1, Restful DEF Holds
  <2> QED BY <1>1, <2>1, <2>2, Restful, SlotsSame
<1>2. ASSUME NEW r \in Runs, Register(r) \/ Identify(r) \/ Work(r) \/ CleanUp(r)
      PROVE  LeaksLate' /\ SlotsBalanced'
  <2>1. LeaksLate'
    BY <1>2, Working DEF LeaksLate
  <2>2. \A q \in Runs \ {r} : Holds(q)' <=> Holds(q)
    BY <1>2, Working DEF Holds
  <2>3. CASE held' = held /\ (Holds(r)' <=> Holds(r))
    <3>1. \A q \in Runs : Holds(q)' <=> Holds(q)
      BY <2>2, <2>3
    <3> QED BY <2>1, <2>3, <3>1, SlotsSame
  <2>4. CASE held' = Taken(ParentOf[r]) /\ ~Holds(r) /\ Holds(r)'
    BY <1>2, <2>1, <2>2, <2>4, SlotTaken
  <2>5. CASE held' = Released(ParentOf[r]) /\ Holds(r) /\ ~Holds(r)'
    BY <1>2, <2>1, <2>2, <2>5, SlotGiven
  <2> QED BY <1>2, <2>1, <2>3, <2>4, <2>5, Working
<1>3. CASE CrashAndRestart
  BY <1>3, SlotsRestart
<1> QED BY <1>1, <1>2, <1>3 DEF Next, Executes

----------------------------------------------------------------------------
\* The executors of a session, step by step.

Lines == Rooted /\ Steered /\ InLine

\* A step that begins no executor.
Onward ==
    \A q \in Runs :
        /\ exec[q].at = "none" <=> exec'[q].at = "none"
        /\ exec[q].at \notin Early => exec'[q].at \notin Early
        /\ exec'[q].at \in {"flow", "settling"} => exec'[q].at = exec[q].at
        /\ exec'[q].at \notin {"none", "over"} => exec[q].at \notin {"none", "over"}
        /\ run'[q].status = "running" => run[q].status = "running" \/ exec[q].at \in Early
        /\ "slowAbort" \in cause[q] => "slowAbort" \in cause'[q]

LEMMA OnwardKept == ASSUME Rooted, Steered, Onward PROVE Rooted' /\ Steered'
<1>1. Rooted'
  BY DEF Rooted, Begun, Onward
<1>2. Steered'
  BY DEF Steered, Onward, Early
<1> QED BY <1>1, <1>2

LEMMA LineKept ==
    ASSUME InLine, Onward,
           \A q \in Runs : exec[q].at = "settling" /\ exec'[q].at \notin {"none", "over"}
                           => exec'[q].at = "settling"
    PROVE  InLine'
<1>1. \A q, r \in Runs : Alive(r)' /\ WaitsFor(r, q) => WaitsFor(r, q)'
  BY DEF Alive, WaitsFor
<1>2. \A r \in Runs : Alive(r)' => Alive(r)
  BY DEF Alive, Onward
<1>3. \A x : SlowIn(x) => SlowIn(x)'
  BY DEF SlowIn, Onward
<1> QED BY <1>1, <1>2, <1>3 DEF InLine

\* A kill stops runs, and changes nothing else of an executor.
LEMMA Stopping ==
    ASSUME TypeOK, (\E r \in Runs : Kill(r)) \/ (\E s \in Tops : KillAll(s))
    PROVE  \E S : /\ S \subseteq Running /\ Kills(S) /\ exec' = Aborted(S)
                  /\ \A q \in Runs : session'[ChildOf[q]] = session[ChildOf[q]]
                  /\ UNCHANGED <<known, ann, held, key, told>>
<1>1. ASSUME NEW r \in Runs, Kill(r)
      PROVE  {r} \subseteq Running /\ Kills({r}) /\ exec' = Aborted({r}) /\ session' = session
  BY <1>1 DEF Kill
<1>2. ASSUME NEW s \in Tops, KillAll(s)
      PROVE  LET S == Children(s) \cap Running
             IN  /\ S \subseteq Running /\ Kills(S) /\ exec' = Aborted(S)
                 /\ \A q \in Runs : session'[ChildOf[q]] = session[ChildOf[q]]
  <2>1. \A q \in Runs : ChildOf[q] # s
    BY <1>2, SubagentAssumption
  <2>2. session' = [session EXCEPT ![s] = IF @ = "archiving" THEN "archived" ELSE @]
    BY <1>2 DEF KillAll
  <2>3. \A q \in Runs : session'[ChildOf[q]] = session[ChildOf[q]]
    BY <2>1, <2>2 DEF TypeOK, Sessions
  <2> QED BY <1>2, <2>3 DEF KillAll
<1>3. UNCHANGED <<known, ann, held, key, told>>
  BY DEF Kill, KillAll
<1> QED BY <1>1, <1>2, <1>3

\* Steps outside the executors: they kill, or announce.
LEMMA Outside ==
    ASSUME TypeOK,
           \/ \E r \in Runs : Kill(r) \/ AnnounceTimer(r) \/ Announces(r) \/ Expire(r)
           \/ \E s \in Tops : KillAll(s) \/ Archive(s)
    PROVE  \A q \in Runs :
             /\ exec'[q].at = exec[q].at
             /\ session'[ChildOf[q]] = session[ChildOf[q]]
             /\ "slowAbort" \in cause[q] => "slowAbort" \in cause'[q]
             /\ run'[q].status = "running" => run[q].status = "running"
<1>1. CASE (\E r \in Runs : Kill(r)) \/ (\E s \in Tops : KillAll(s))
  <2>1. PICK S : /\ S \subseteq Running /\ Kills(S) /\ exec' = Aborted(S)
                 /\ \A q \in Runs : session'[ChildOf[q]] = session[ChildOf[q]]
    BY <1>1, Stopping
  <2>2. \A q \in Runs : /\ "slowAbort" \in cause[q] => "slowAbort" \in cause'[q]
                        /\ run'[q].status = "running" => run[q].status = "running"
    BY <2>1, Killing
  <2> QED BY <2>1, <2>2, Aborting
<1>2. ASSUME NEW s \in Tops, Archive(s)
      PROVE  /\ exec' = exec /\ run' = run /\ cause' = cause
             /\ \A q \in Runs : session'[ChildOf[q]] = session[ChildOf[q]]
  <2>1. \A q \in Runs : ChildOf[q] # s
    BY <1>2, SubagentAssumption
  <2> QED BY <1>2, <2>1 DEF Archive, TypeOK, Sessions
<1>3. ASSUME NEW r \in Runs, AnnounceTimer(r) \/ Announces(r) \/ Expire(r)
      PROVE  /\ exec' = exec /\ session' = session
             /\ \A q \in Runs : "slowAbort" \in cause[q] => "slowAbort" \in cause'[q]
             /\ \A q \in Runs : run'[q].status = run[q].status
  <2>1. /\ exec' = exec /\ session' = session
        /\ \A q \in Runs : "slowAbort" \in cause[q] => "slowAbort" \in cause'[q]
    BY <1>3, Blaming DEF AnnounceTimer, Expire, Announces, CheckParent, Reserve, Post, Mark,
                         Followup, Event, Causes
  <2>2. CASE AnnounceTimer(r)
    BY <1>3, <2>1, <2>2, Handling DEF AnnounceTimer
  <2>3. CASE Announces(r)
    BY <1>3, <2>1, <2>3, AnnounceSteps, Concluding, AnnGoing DEF AnnounceStep, AnnAt
  <2>4. CASE Expire(r)
    BY <2>1, <2>4 DEF Expire
  <2> QED BY <1>3, <2>2, <2>3, <2>4
<1> QED BY <1>1, <1>2, <1>3

LEMMA LinesOutside ==
    ASSUME TypeOK, Lines, SessionKept,
           \/ \E r \in Runs : Kill(r) \/ AnnounceTimer(r) \/ Announces(r) \/ Expire(r)
           \/ \E s \in Tops : KillAll(s) \/ Archive(s)
    PROVE  Lines' /\ SessionKept'
<1>1. Onward
  BY Outside DEF Onward
<1>2. Lines'
  BY <1>1, Outside, OnwardKept, LineKept DEF Lines
<1>3. SessionKept'
  BY Outside DEF SessionKept
<1> QED BY <1>2, <1>3

LEMMA LinesSpawn ==
    ASSUME TypeOK, BooksKept, Lines, SessionKept, NEW r \in Runs, Spawn(r)
    PROVE  Lines' /\ SessionKept'
<1>1. /\ exec[r].at = "none" /\ exec'[r].at = "flow" /\ ReplacementOf[r] = None
      /\ \A q \in Runs \ {r} : exec'[q] = exec[q]
      /\ UNCHANGED <<run, session, cause>>
  BY GoingOn DEF Spawn
<1>2. Rooted'
  BY <1>1 DEF Lines, Rooted, Begun
<1>3. Steered'
  BY <1>1 DEF Lines, Steered, Early
<1>4. \A q \in Runs \ {r} : ChildOf[q] = ChildOf[r] => ~Begun(q)
  BY <1>1, SubagentAssumption DEF Lines, Rooted, Begun
<1>5. InLine'
  <2> SUFFICES ASSUME NEW p \in Runs, NEW q \in Runs, p # q, ChildOf[p] = ChildOf[q],
                      Alive(p)', Alive(q)'
               PROVE  (WaitsFor(p, q) \/ WaitsFor(q, p) \/ SlowIn(ChildOf[q]))'
    BY DEF InLine
  <2>1. p # r /\ q # r
    BY <1>1, <1>4 DEF Alive, Begun
  <2> QED BY <1>1, <2>1 DEF Lines, InLine, Alive, WaitsFor, SlowIn
<1>6. SessionKept'
  BY <1>1 DEF SessionKept
<1> QED BY <1>2, <1>3, <1>5, <1>6 DEF Lines

LEMMA LinesSteer ==
    ASSUME TypeOK, BooksKept, Lines, SessionKept, NEW r \in Runs, Steer(r)
    PROVE  Lines' /\ SessionKept'
<1> DEFINE old == ReplacementOf[r]
<1>1. /\ exec[r].at = "none" /\ old \in Runs /\ old # r /\ ChildOf[old] = ChildOf[r]
      /\ run[old].status = "running"
  BY SubagentAssumption DEF Steer, Running, TypeOK
<1>2. /\ exec'[r].at = "settling" /\ session' = session
      /\ \A q \in Runs \ {r} : exec'[q].at = exec[q].at
  BY <1>1, Aborting DEF Steer, ExecRow
<1>3. /\ run'[old].status = "killed"
      /\ \A q \in Runs : /\ run'[q].status = "running" => run[q].status = "running"
                         /\ "slowAbort" \in cause[q] => "slowAbort" \in cause'[q]
  <2>1. {old} \subseteq Running /\ Kills({old})
    BY DEF Steer
  <2>2. old \in Fallen({old})
    BY <2>1, Killing
  <2> QED BY <2>1, <2>2, Killing
<1>4. exec[old].at \notin Early \cup {"over"}
  BY <1>1 DEF BooksKept, Books, Underway
<1>5. Rooted'
  BY <1>1, <1>2, <1>4 DEF Lines, Rooted, Begun, Early
<1>6. Steered'
  <2>1. ASSUME NEW q \in Runs, q # r, exec'[q].at = "settling"
        PROVE  /\ ReplacementOf[q] \in Runs
               /\ exec'[ReplacementOf[q]].at \notin Early
               /\ run'[ReplacementOf[q]].status # "running"
    BY <1>1, <1>2, <1>3, <2>1 DEF Lines, Steered, Early
  <2>2. \A q \in Runs : exec'[q].at = "flow" => ReplacementOf[q] = None
    BY <1>2 DEF Lines, Steered
  <2> QED BY <1>1, <1>2, <1>3, <1>4, <2>1, <2>2 DEF Steered
<1>7. InLine'
  <2>1. \A x : SlowIn(x) => SlowIn(x)'
    BY <1>3 DEF SlowIn
  <2>2. ASSUME NEW q \in Runs, q # r, ChildOf[q] = ChildOf[r], Alive(q)'
        PROVE  WaitsFor(r, q)' \/ SlowIn(ChildOf[r])'
    <3>1. CASE q = old
      BY <1>2, <3>1 DEF WaitsFor
    <3>2. CASE q # old
      <4>1. Alive(q) /\ Alive(old)
        BY <1>2, <1>4, <2>2 DEF Alive, Early
      <4>2. ~WaitsFor(q, old)
        BY <1>1, <2>2 DEF WaitsFor, Lines, Steered
      <4>3. ~WaitsFor(old, q)
        BY <1>4 DEF WaitsFor, Early
      <4> QED BY <1>1, <2>1, <2>2, <3>2, <4>1, <4>2, <4>3 DEF Lines, InLine
    <3> QED BY <3>1, <3>2
  <2>3. ASSUME NEW p \in Runs \ {r}, NEW q \in Runs \ {r}, p # q, ChildOf[p] = ChildOf[q],
               Alive(p)', Alive(q)'
        PROVE  (WaitsFor(p, q) \/ WaitsFor(q, p) \/ SlowIn(ChildOf[q]))'
    BY <1>2, <2>1, <2>3 DEF Lines, InLine, Alive, WaitsFor
  <2> QED BY <2>2, <2>3 DEF InLine
<1>8. SessionKept'
  BY <1>2, <1>3 DEF SessionKept
<1> QED BY <1>5, <1>6, <1>7, <1>8 DEF Lines

LEMMA LinesRegister ==
    ASSUME TypeOK, Lines, SessionKept, NEW r \in Runs, Register(r)
    PROVE  Lines' /\ SessionKept'
<1>1. /\ \A q \in Runs \ {r} : exec'[q] = exec[q] /\ run'[q] = run[q]
      /\ exec[r].at \in {"flow", "settling"} /\ exec'[r].at \in {"identity", "ended"}
      /\ \A q \in Runs : "slowAbort" \in cause[q] => "slowAbort" \in cause'[q]
      /\ session' = session
  <2>1. \A q \in Runs : "slowAbort" \in cause[q] => "slowAbort" \in cause'[q]
    BY Registering
  <2>2. session' = session
    BY DEF Register
  <2>3. exec'[r].at \in {"identity", "ended"} /\ exec[r].at \in {"flow", "settling"}
    BY Registering
  <2> QED BY <2>1, <2>2, <2>3, Registering
<1>2. Onward
  BY <1>1 DEF Onward, Early
<1>3. InLine'
  <2>1. \A x : SlowIn(x) => SlowIn(x)'
    BY <1>1 DEF SlowIn
  <2>2. ASSUME NEW q \in Runs, q # r, ChildOf[q] = ChildOf[r], Alive(q)'
        PROVE  WaitsFor(q, r)' \/ SlowIn(ChildOf[r])'
    <3>1. Alive(q) /\ Alive(r)
      BY <1>1, <2>2 DEF Alive
    <3>2. CASE WaitsFor(q, r)
      BY <1>1, <2>2, <3>2 DEF WaitsFor
    <3>3. CASE WaitsFor(r, q)
      <4>1. exec[r].at = "settling" /\ ReplacementOf[r] = q
        BY <3>3 DEF WaitsFor
      <4>2. exec[q].at # "over"
        BY <3>1 DEF Alive
      <4>3. "slowAbort" \in cause'[r]
        BY <4>1, <4>2, Registering
      <4> QED BY <4>3 DEF SlowIn
    <3>4. CASE SlowIn(ChildOf[r])
      BY <2>1, <3>4
    <3> QED BY <2>2, <3>1, <3>2, <3>3, <3>4 DEF Lines, InLine
  <2>3. ASSUME NEW p \in Runs \ {r}, NEW q \in Runs \ {r}, p # q, ChildOf[p] = ChildOf[q],
               Alive(p)', Alive(q)'
        PROVE  (WaitsFor(p, q) \/ WaitsFor(q, p) \/ SlowIn(ChildOf[q]))'
    BY <1>1, <2>1, <2>3 DEF Lines, InLine, Alive, WaitsFor
  <2> QED BY <2>2, <2>3 DEF InLine
<1>4. SessionKept'
  BY <1>1 DEF SessionKept
<1> QED BY <1>2, <1>3, <1>4, OnwardKept DEF Lines

\* An executor that has identified itself goes on.
LEMMA LinesExecutes ==
    ASSUME TypeOK, BooksKept, Lines, SessionKept, NEW r \in Runs,
           Identify(r) \/ Work(r) \/ CleanUp(r) \/ Settle(r)
    PROVE  Lines' /\ SessionKept'
<1>1. /\ \A q \in Runs \ {r} : exec'[q] = exec[q]
      /\ exec[r].at \in {"identity", "work", "clean", "ended"}
      /\ exec'[r].at \in {"work", "clean", "ended", "over"}
      /\ exec'[r].at = "work" => session'[ChildOf[r]] = "active"
  <2>1. CASE Identify(r)
    <3>2. CASE Goes(r, "ended") \/ Fails(r)
      BY <2>1, <3>2, GoingOn, Failing, SubagentAssumption DEF Identify
    <3>3. CASE GoesTalking(r, "work", Spawns(r)) /\ session' = [session EXCEPT ![ChildOf[r]] = "active"]
      <4>1. ChildOf[r] \in Sessions /\ session \in [Sessions -> {"none", "active", "archiving", "archived"}]
        BY DEF Sessions, TypeOK
      <4> QED BY <2>1, <3>3, <4>1, Prompting DEF Identify
    <3> QED BY <2>1, <3>2, <3>3 DEF Identify
  <2>2. CASE Work(r)
    BY <2>2, Failing, SubagentAssumption DEF Work, TypeOK, ExecRow
  <2>3. CASE CleanUp(r)
    BY <2>3, GoingOn, FallingSilent, Failing, SubagentAssumption DEF CleanUp
  <2>4. CASE Settle(r)
    BY <2>4 DEF Settle, Done, NoExec, TypeOK
  <2> QED BY <2>1, <2>2, <2>3, <2>4
<1>2. \A q \in Runs : "slowAbort" \in cause[q] => "slowAbort" \in cause'[q]
  BY Blaming DEF Identify, Work, CleanUp, Settle, Causes
<1>3. \A q \in Runs : run'[q].status = "running" => run[q].status = "running"
  BY Ending DEF Identify, Work, CleanUp, Settle
<1>4. Onward
  BY <1>1, <1>2, <1>3 DEF Onward, Early
<1>5. Lines'
  BY <1>1, <1>4, OnwardKept, LineKept DEF Lines
<1>6. \/ session' = session
      \/ \A q \in Runs : \/ session'[ChildOf[q]] = session[ChildOf[q]]
                         \/ session'[ChildOf[q]] = "active"
      \/ /\ exec[r].at = "clean"
         /\ \A q \in Runs : ChildOf[q] # ChildOf[r] => session'[ChildOf[q]] = session[ChildOf[q]]
  <2>1. \A q \in Runs : ChildOf[q] \in Sessions
    BY DEF Sessions
  <2> QED BY <2>1 DEF Identify, Work, CleanUp, Settle, TypeOK
<1>7. SessionKept'
  <2> SUFFICES ASSUME NEW q \in Runs, exec'[q].at = "work"
               PROVE  session'[ChildOf[q]] = "active" \/ SlowIn(ChildOf[q])'
    BY DEF SessionKept, SlowIn
  <2>1. SlowIn(ChildOf[q]) => SlowIn(ChildOf[q])'
    BY <1>2 DEF SlowIn
  <2>2. CASE q = r
    BY <1>1, <2>2
  <2>3. CASE q # r
    <3>1. session[ChildOf[q]] = "active" \/ SlowIn(ChildOf[q])
      BY <1>1, <2>3 DEF SessionKept, SlowIn
    <3>2. CASE exec[r].at = "clean" /\ ChildOf[q] = ChildOf[r]
      <4>1. Alive(q) /\ Alive(r) /\ ~WaitsFor(q, r) /\ ~WaitsFor(r, q)
        BY <1>1, <2>3, <3>2 DEF Alive, WaitsFor
      <4> QED BY <2>1, <2>3, <3>2, <4>1 DEF Lines, InLine
    <3>3. CASE ~(exec[r].at = "clean" /\ ChildOf[q] = ChildOf[r])
      BY <1>6, <2>1, <3>1, <3>3
    <3> QED BY <3>2, <3>3
  <2> QED BY <2>2, <2>3
<1> QED BY <1>5, <1>7

LEMMA LinesRestart ==
    ASSUME TypeOK, Lines, SessionKept, CrashAndRestart
    PROVE  Lines' /\ SessionKept'
<1>1. \A r \in Runs : IF exec[r].at = "none" THEN exec'[r].at = "none" ELSE exec'[r].at = "over"
  <2>1. Done \in ExecRow /\ NoExec \in ExecRow /\ Done.at = "over" /\ NoExec.at = "none"
    BY DEF Done, NoExec, ExecRow
  <2>2. exec' = [q \in Runs |-> IF exec[q].at = "none" THEN NoExec ELSE Done]
    BY DEF CrashAndRestart
  <2> QED BY <2>1, <2>2
<1>2. Rooted'
  BY <1>1 DEF Lines, Rooted, Begun
<1>3. Steered' /\ InLine' /\ SessionKept'
  BY <1>1 DEF Steered, InLine, Alive, SessionKept
<1> QED BY <1>2, <1>3 DEF Lines

LEMMA LinesNext == ASSUME TypeOK, BooksKept, Lines, SessionKept, Next PROVE Lines' /\ SessionKept'
  BY LinesOutside, LinesSpawn, LinesSteer, LinesRegister, LinesExecutes, LinesRestart
     DEF Next, Executes

----------------------------------------------------------------------------
\* The children of killed runs.

LEMMA OutlivesKilled ==
    ASSUME TypeOK, NoneOutlives, NEW S, S \subseteq Running, Kills(S), known' = known
    PROVE  NoneOutlives'
<1> SUFFICES ASSUME NEW r \in Running', NEW p \in Runs, ParentOf[r] = ChildOf[p],
                    run'[p].status = "killed"
             PROVE  "afterKill" \in cause'[r]
  BY DEF NoneOutlives
<1>1. r \in known /\ r \in Runs /\ run'[r].status = "running"
  BY DEF Running, TypeOK
<1>2. r \notin Fallen(S)
  BY <1>1, Killing
<1>3. r \in Running /\ cause'[r] = cause[r]
  BY <1>1, <1>2, Killing DEF Running
<1>4. p \notin Fallen(S)
  BY <1>2, <1>3, Killing
<1>5. run[p].status = "killed"
  BY <1>4, Killing
<1> QED BY <1>3, <1>5 DEF NoneOutlives

\* No run begins to run or is killed.
LEMMA OutlivesSame ==
    ASSUME NoneOutlives, \A r \in Running' : r \in Running /\ ("afterKill" \in cause[r] => "afterKill" \in cause'[r]),
           \A p \in Runs : run'[p].status = "killed" => run[p].status = "killed"
    PROVE  NoneOutlives'
  BY DEF NoneOutlives

LEMMA OutlivesNext == ASSUME TypeOK, BooksKept, NoneOutlives, Next PROVE NoneOutlives'
<1>1. CASE (\E r \in Runs : Kill(r)) \/ (\E s \in Tops : KillAll(s))
  BY <1>1, Stopping, OutlivesKilled
<1>2. ASSUME NEW r \in Runs, Steer(r) PROVE NoneOutlives'
  <2>1. /\ {ReplacementOf[r]} \subseteq Running /\ Kills({ReplacementOf[r]})
        /\ known' = known
    BY <1>2 DEF Steer
  <2> QED BY <2>1, OutlivesKilled
<1>3. ASSUME NEW r \in Runs, Register(r) PROVE NoneOutlives'
  <2> SUFFICES ASSUME NEW q \in Running', NEW p \in Runs, ParentOf[q] = ChildOf[p],
                      run'[p].status = "killed"
               PROVE  "afterKill" \in cause'[q]
    BY DEF NoneOutlives
  <2>1. p # r /\ run[p].status = "killed"
    BY <1>3, Registering
  <2>2. CASE q = r
    <3>1. AfterKill(r)
      BY <2>1, <2>2 DEF AfterKill
    <3> QED BY <1>3, <2>2, <3>1, Registering
  <2>3. CASE q # r
    <3>1. q \in Runs /\ q \in Running /\ cause'[q] = cause[q]
      BY <1>3, <2>3, Registering DEF Running, TypeOK
    <3> QED BY <2>1, <3>1 DEF NoneOutlives
  <2> QED BY <2>2, <2>3
<1>4. ASSUME NEW r \in Runs, Spawn(r) \/ Identify(r) \/ Work(r) \/ CleanUp(r) \/ Expire(r)
      PROVE  NoneOutlives'
  <2>1. run' = run /\ known' = known
    BY <1>4 DEF Spawn, Identify, Work, CleanUp, Expire
  <2>2. \A q \in Runs : "afterKill" \in cause[q] => "afterKill" \in cause'[q]
    BY <1>4, Blaming DEF Spawn, Identify, Work, CleanUp, Expire, Causes
  <2> QED BY <2>1, <2>2, OutlivesSame DEF Running, TypeOK
<1>5. ASSUME NEW r \in Runs, Settle(r) \/ AnnounceTimer(r) \/ Announces(r) PROVE NoneOutlives'
  <2>1. /\ known' \subseteq known
        /\ \A q \in Runs : run'[q].status = run[q].status \/ run'[q].status = "ended"
    <3>1. CASE Settle(r)
      BY <1>5, <3>1, Ending DEF Settle
    <3>2. CASE AnnounceTimer(r)
      BY <1>5, <3>2, Handling DEF AnnounceTimer
    <3>3. CASE Announces(r)
      <4>1. known' = known
        BY <3>3 DEF Announces, CheckParent, Reserve, Post, Mark, Followup, Event
      <4> QED BY <1>5, <3>3, <4>1, AnnounceSteps, Concluding, AnnGoing DEF AnnounceStep, AnnAt
    <3> QED BY <1>5, <3>1, <3>2, <3>3
  <2>2. \A q \in Runs : "afterKill" \in cause[q] => "afterKill" \in cause'[q]
    BY <1>5, Blaming DEF Settle, AnnounceTimer, Announces, CheckParent, Reserve, Post, Mark,
                         Followup, Event, Causes
  <2>3. \A q \in Running' : q \in Running
    BY <2>1 DEF Running, TypeOK
  <2>4. Running \subseteq Runs
    BY DEF Running, TypeOK
  <2> QED BY <2>1, <2>2, <2>3, <2>4, OutlivesSame
<1>6. ASSUME NEW s \in Tops, Archive(s) PROVE NoneOutlives'
  BY <1>6 DEF Archive, NoneOutlives, Running
<1>7. CASE CrashAndRestart
  <2>1. \A r \in Runs : run'[r].status # "running"
    BY <1>7, Restarting
  <2>2. Running' = {}
    BY <1>7, <2>1, Restarting DEF Running
  <2> QED BY <2>2 DEF NoneOutlives
<1> QED BY <1>1, <1>2, <1>3, <1>4, <1>5, <1>6, <1>7 DEF Next, Executes

----------------------------------------------------------------------------
\* The invariant.

LEMMA InvInit == Init => Inv
<1> SUFFICES ASSUME Init PROVE Inv
  OBVIOUS
<1>1. TypeOK /\ BooksKept
  BY TypeInit, BooksInit
<1>2. \A r \in Runs : /\ exec[r].at = "none" /\ cause[r] = {}
                      /\ run[r].status = "absent"
  BY DEF Init, NoExec, NoRun
<1>3. LeaksLate /\ Rooted /\ Steered /\ InLine /\ SessionKept
  BY <1>2 DEF LeaksLate, Rooted, Begun, Steered, InLine, Alive, SessionKept
<1>4. SlotsBalanced
  <2>1. \A s : Holders(s) = {}
    BY <1>2 DEF Holders, Holds
  <2>2. \A s \in Sessions : held[s] = Cardinality(Holders(s))
    BY <2>1, FS_EmptySet DEF Init
  <2> QED BY <2>2, Balanced
<1>5. NoneOutlives
  BY DEF Init, NoneOutlives, Running
<1> QED BY <1>1, <1>3, <1>4, <1>5 DEF Inv

LEMMA InvStep == Inv /\ [Next]_vars => Inv'
<1> SUFFICES ASSUME Inv, [Next]_vars PROVE Inv'
  OBVIOUS
<1>1. CASE Next
  <2>1. TypeOK' /\ BooksKept'
    BY <1>1, TypeKept, BooksNext DEF Inv
  <2>2. LeaksLate' /\ SlotsBalanced'
    BY <1>1, SlotsNext DEF Inv
  <2>3. Lines' /\ SessionKept'
    BY <1>1, LinesNext DEF Inv, Lines
  <2>4. NoneOutlives'
    BY <1>1, OutlivesNext DEF Inv
  <2> QED BY <2>1, <2>2, <2>3, <2>4 DEF Inv, Lines
<1>2. CASE UNCHANGED vars
  <2>1. TypeOK'
    BY <1>2 DEF vars, Inv, TypeOK
  <2>2. \A r \in Runs : Untouched(r)
    BY <1>2 DEF vars, Untouched
  <2>3. BooksKept'
    BY <2>2, BooksUntouched DEF Inv, BooksKept
  <2>4. LeaksLate' /\ SlotsBalanced'
    BY <1>2 DEF vars, Inv, LeaksLate, SlotsBalanced
  <2>5. Rooted' /\ Steered' /\ InLine' /\ SessionKept'
    BY <1>2 DEF vars, Inv, Rooted, Begun, Steered, InLine, Alive, WaitsFor, SlowIn, SessionKept
  <2>6. NoneOutlives'
    BY <1>2 DEF vars, Inv, NoneOutlives, Running
  <2> QED BY <2>1, <2>3, <2>4, <2>5, <2>6 DEF Inv
<1> QED BY <1>1, <1>2

\* The invariant is one: it holds at the start and every step keeps it.
THEOREM RegistryInvariant == Spec => []Inv
<1> QED BY InvInit, InvStep, PTL DEF Spec, Safe

\* The state of the registry, its executors and its announcements is what its
\* declarations say (subagent-registry.ts, subagent-executor.ts).
THEOREM RegistryTypes == Spec => []TypeOK
<1>1. Inv => TypeOK
  BY DEF Inv
<1> QED BY <1>1, RegistryInvariant, PTL

\* childrenCount is the number of executors that hold a slot, through every
\* error path of spawnSubagent and whoever kills what meanwhile.
THEOREM SlotsAreBalanced == Spec => []SlotsBalanced
<1>1. Inv => SlotsBalanced
  BY DEF Inv
<1> QED BY <1>1, RegistryInvariant, PTL

\* An agent at work keeps its session, however its runs are steered: only a steer
\* that gave up waiting can take it away.
THEOREM SessionsAreKept == Spec => []SessionKept
<1>1. Inv => SessionKept
  BY DEF Inv
<1> QED BY <1>1, RegistryInvariant, PTL

\* killRun stops all the descendants that are registered, to any depth.
THEOREM KillsReachAll == Spec => []NoneOutlives
<1>1. Inv => NoneOutlives
  BY DEF Inv
<1> QED BY <1>1, RegistryInvariant, PTL

\* What a killed run still returns is told to nobody.
THEOREM KilledAreQuiet == Spec => []KilledStaysQuiet
<1>1. Inv => KilledStaysQuiet
  BY DEF Inv, BooksKept, Books, Quiet, KilledStaysQuiet
<1> QED BY <1>1, RegistryInvariant, PTL

\* A completion is made known once, on one way, through retries and restarts.
THEOREM AnnouncedOnce == Spec => []ToldOnce
<1>1. Inv => ToldOnce
  BY DEF Inv, BooksKept, Books, Posted, Told, ToldOnce
<1> QED BY <1>1, RegistryInvariant, PTL

\* An announcement that is closed as made was made.
THEOREM HandledWasTold == Spec => []HandledMeansTold
<1>1. ASSUME Inv PROVE HandledMeansTold
  <2> SUFFICES ASSUME NEW r \in Runs, run[r].status = "ended", run[r].handled,
                      ~run[r].dropped, "torn" \notin cause[r]
               PROVE  ToldIn(r) > 0 \/ {"post", "db"} \subseteq cause[r]
    BY DEF HandledMeansTold
  <2> QED BY <1>1 DEF Inv, BooksKept, Books, Made
<1> QED BY <1>1, RegistryInvariant, PTL
=============================================================================
