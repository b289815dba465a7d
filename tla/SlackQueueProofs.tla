--------------------------- MODULE SlackQueueProofs ---------------------------
(***************************************************************************)
(* Theorems about SlackQueue, for any number of messages and sessions, any *)
(* modes and any limits.  Every step is of one session, and the invariant  *)
(* is one of each session (SessionStays), but for the count of all runs:   *)
(*   Placed     what is queued was given to the session, and fits,         *)
(*   Known      a mode once looked up is known as long as the session is   *)
(*              in use, so that only the end of a run of a session that    *)
(*              /new has cut off can lose its drain,                       *)
(*   OneMode    a mode that nobody has changed is the stored one at every  *)
(*              place that has a copy of it,                               *)
(*   OnePlace   a message is in one place of one queue or in one run,      *)
(*   Kept       what is not in a run, lost or too old is in the queue that *)
(*              the end of a run will read or has read,                    *)
(*   Silent     what a stop cleared is in no queue,                        *)
(*   Sorted     who was submitted first is ahead in every queue.           *)
(* The last four hold as long as nothing befalls the session between the   *)
(* halves of a run's end, and where the limit on all runs would break them,*)
(* as long as it is not met.                                               *)
(*                                                                         *)
(* A queue only loses entries: each way to shorten it leaves a queue whose *)
(* places are places of the old one, in their order (Thinned).             *)
(***************************************************************************)
EXTENDS SlackQueue, FiniteSetTheorems, WellFoundedInduction, TLAPS

(* The sessions with a run.                                                *)
Running == {s \in Sessions : active[s] # <<>>}
Counted == IsFiniteSet(Running) /\ count = Cardinality(Running)

(* The queue of a session, and those that the ends of its runs have read.  *)
Queues(s) == {pending[s]} \cup {drains[s][k].queue : k \in DOMAIN drains[s]}

Unraced(s) == "raced" \notin mishap[s]
Clean(s)   == Unraced(s) /\ "limited" \notin mishap[s]
Steady(s)  == Clean(s) /\ "mode" \notin mishap[s]
Of(s)      == {m \in Messages : SessionOf[m] = s}

(* What is in a queue, in a run or in a history was given to the session.  *)
Given(s) == {m \in Of(s) : at[m] = "given"}

Placed(s) ==
    /\ \A q \in Queues(s) :
          /\ Len(q) <= MaxPending
          /\ \A k \in DOMAIN q : q[k] # <<>> /\ In(q[k]) \subseteq Given(s)
    /\ \A m \in Of(s) :
          /\ ran[m] > 0 \/ m \in stopped \/ m \in ToSet(order) => m \in Given(s)
          /\ at[m] = "looking" => look[m] \in Look

(* A mode that was looked up stays known, until /new.                      *)
Known(s) ==
    s \notin closed =>
        /\ modes[s] = None =>
             /\ active[s] = <<>> /\ pending[s] = <<>> /\ drains[s] = <<>>
             /\ \A m \in Of(s) : at[m] = "looking" => look[m].miss
        /\ \A k \in DOMAIN drains[s] : ~drains[s][k].look.miss
        /\ "db" \notin mishap[s]

(* A mode that nobody has changed is the stored one.                       *)
OneMode(s) ==
    "mode" \notin mishap[s] =>
        /\ storing[s] = None /\ modes[s] \in {None, stored[s]}
        /\ \A m \in Of(s) : at[m] = "looking" => look[m].mode = stored[s]
        /\ \A k \in DOMAIN drains[s] : drains[s][k].look.mode = stored[s]
        /\ Unraced(s) =>
             /\ pending[s] # <<>> \/ drains[s] # <<>> => modes[s] # None
             /\ \A k \in DOMAIN drains[s] : ~drains[s][k].look.miss
             /\ "db" \notin mishap[s]

(* Unless something comes between the halves of a drain, a message has one *)
(* place.                                                                  *)
Apart(q) == \A i, j \in DOMAIN q : i # j => In(q[i]) \cap In(q[j]) = {}

OnePlace(s) ==
    Unraced(s) =>
        /\ drains[s] # <<>> => Len(drains[s]) = 1 /\ active[s] = <<>>
        /\ \A q \in Queues(s) : Apart(q) /\ \A m \in Waiting(q) : ran[m] = 0
        /\ \A m \in Of(s) : ran[m] <= 1

(* Unless it meets the limit too, what waits is found.                     *)
Whole(e) == \A m \in In(e) : Last(e) = m

Settled(m) == ran[m] > 0 \/ cause[m] # {} \/ m \in old

Kept(s) ==
    Clean(s) =>
        /\ \A q \in Queues(s) : \A k \in DOMAIN q : Whole(q[k])
        /\ \A k \in DOMAIN drains[s] :
              Waiting(pending[s]) \ Waiting(drains[s][k].queue) \subseteq old
        /\ "db" \notin mishap[s] =>
              /\ pending[s] # <<>> => active[s] # <<>> \/ IsDraining(s)
              /\ \A m \in Given(s) : Settled(m) \/ m \in Waiting(pending[s])

(* What was waiting when a stop was acknowledged is in no queue.           *)
Silent(s) ==
    Clean(s) => \A m \in stopped \cap Of(s) :
                   ran[m] = 0 /\ \A q \in Queues(s) : m \notin Waiting(q)

(* Who was submitted before another is ahead of it.                        *)
Earlier(s) == {p \in (DOMAIN order) \X (DOMAIN order) :
                 p[1] < p[2] /\ {order[p[1]], order[p[2]]} \subseteq Of(s)}

Ahead(m, n, q) ==
    \A k \in DOMAIN q : n \in In(q[k]) => \E i \in DOMAIN q : i < k /\ m \in In(q[i])

Sorted(s) ==
    Steady(s) /\ stored[s] \notin Steers =>
        \A p \in Earlier(s) :
            LET m == order[p[1]]  n == order[p[2]]
            IN  \/ Settled(m)
                \/ ran[n] = 0 /\ \A q \in Queues(s) : Ahead(m, n, q)

SessionInv(s) ==
    /\ Placed(s) /\ Known(s) /\ OneMode(s) /\ OnePlace(s) /\ Kept(s)
    /\ Silent(s) /\ Sorted(s)

Inv == TypeOK /\ Counted /\ \A s \in Sessions : SessionInv(s)

----------------------------------------------------------------------------
(* Queues.                                                                 *)

LEMMA LeastNat ==
  ASSUME NEW T \in SUBSET Nat, T # {}
  PROVE  \E x \in T : \A y \in T : x <= y
  <1> DEFINE R == OpToRel(<, Nat)
  <1>1. PICK x \in T : \A y \in T : ~ (<<y, x>> \in R)
    <2> HIDE DEF R
    <2>1. IsWellFoundedOn(R, Nat)
      BY NatLessThanWellFounded DEF R
    <2> QED
      BY <2>1, WFMin
  <1>2. ASSUME NEW y \in T PROVE x <= y
    <2>1. ~(y < x)
      BY <1>1 DEF OpToRel
    <2> QED
      BY <2>1
  <1> QED
    BY <1>2

Entry == Seq(Messages)
Queue == Seq(Entry)

(* r is q without some entries, all of which are in lost.                  *)
Places(r, q, lost, f) ==
    /\ f \in [DOMAIN r -> DOMAIN q]
    /\ \A i, j \in DOMAIN r : i < j => f[i] < f[j]
    /\ \A i \in DOMAIN r : r[i] = q[f[i]]
    /\ \A k \in DOMAIN q : q[k] \in lost \/ \E i \in DOMAIN r : f[i] = k
Thinned(r, q, lost) == r \in Queue /\ \E f : Places(r, q, lost, f)

LEMMA ThinnedTwice ==
  ASSUME NEW q \in Queue, NEW r, NEW t, NEW L, NEW M,
         Thinned(r, q, L), Thinned(t, r, M)
  PROVE  Thinned(t, q, L \cup M)
  <1>1. PICK f : Places(r, q, L, f)
    BY DEF Thinned
  <1>2. PICK g : Places(t, r, M, g)
    BY DEF Thinned
  <1> DEFINE h == [i \in DOMAIN t |-> f[g[i]]]
  <1>3. h \in [DOMAIN t -> DOMAIN q]
    BY <1>1, <1>2 DEF Places
  <1>4. \A i, j \in DOMAIN t : i < j => h[i] < h[j]
    BY <1>1, <1>2 DEF Places
  <1>5. \A i \in DOMAIN t : t[i] = q[h[i]]
    BY <1>1, <1>2 DEF Places
  <1>6. \A k \in DOMAIN q : q[k] \in L \cup M \/ \E i \in DOMAIN t : h[i] = k
    BY <1>1, <1>2 DEF Places
  <1>7. Places(t, q, L \cup M, h)
    BY <1>3, <1>4, <1>5, <1>6 DEF Places
  <1> QED
    BY <1>7 DEF Thinned

(* What is left of a queue is in it, and in its order.                     *)
LEMMA ThinnedKeeps ==
  ASSUME NEW q \in Queue, NEW r, NEW L, Thinned(r, q, L)
  PROVE  /\ r \in Queue
         /\ \A k \in DOMAIN r : \E i \in DOMAIN q : r[k] = q[i]
         /\ Waiting(r) \subseteq Waiting(q)
         /\ Apart(q) => Apart(r)
         /\ \A k \in DOMAIN q : q[k] \in L \/ \E i \in DOMAIN r : r[i] = q[k]
  <1>1. PICK f : Places(r, q, L, f)
    BY DEF Thinned
  <1>2. r \in Queue /\ DOMAIN r \subseteq Nat
    BY DEF Thinned, Queue
  <1>3. \A k \in DOMAIN r : \E i \in DOMAIN q : r[k] = q[i]
    BY <1>1 DEF Places
  <1>4. Waiting(r) \subseteq Waiting(q)
    BY <1>3 DEF Waiting
  <1>5. Apart(q) => Apart(r)
    <2>1. \A i, j \in DOMAIN r : i # j => f[i] # f[j]
      <3> SUFFICES ASSUME NEW i \in DOMAIN r, NEW j \in DOMAIN r, i # j
                   PROVE  f[i] # f[j]
        OBVIOUS
      <3>1. i \in Nat /\ j \in Nat /\ f[i] \in Nat /\ f[j] \in Nat
        BY <1>1, <1>2 DEF Places, Queue
      <3> QED
        BY <1>1, <3>1 DEF Places
    <2>2. \A i \in DOMAIN r : r[i] = q[f[i]] /\ f[i] \in DOMAIN q
      BY <1>1 DEF Places
    <2> QED
      BY <2>1, <2>2 DEF Apart
  <1>6. \A k \in DOMAIN q : q[k] \in L \/ \E i \in DOMAIN r : r[i] = q[k]
    BY <1>1 DEF Places
  <1> QED
    BY <1>2, <1>3, <1>4, <1>5, <1>6

(* A message that is ahead of another stays so, unless it is lost.         *)
LEMMA ThinnedOrder ==
  ASSUME NEW q \in Queue, NEW r, NEW L, Thinned(r, q, L), NEW m, NEW n,
         Ahead(m, n, q), \A k \in DOMAIN q : q[k] \in L => m \notin In(q[k])
  PROVE  Ahead(m, n, r)
  <1>1. PICK f : Places(r, q, L, f)
    BY DEF Thinned
  <1>2. DOMAIN r \subseteq Nat /\ DOMAIN q \subseteq Nat
    BY DEF Thinned, Queue
  <1> SUFFICES ASSUME NEW k \in DOMAIN r, n \in In(r[k])
               PROVE  \E i \in DOMAIN r : i < k /\ m \in In(r[i])
    BY DEF Ahead
  <1>3. f[k] \in DOMAIN q /\ n \in In(q[f[k]])
    BY <1>1 DEF Places
  <1>4. PICK j \in DOMAIN q : j < f[k] /\ m \in In(q[j])
    BY <1>3 DEF Ahead
  <1>5. PICK i \in DOMAIN r : f[i] = j
    BY <1>1, <1>4 DEF Places
  <1>6. i < k
    <2>1. i \in Nat /\ k \in Nat /\ f[i] \in Nat /\ f[k] \in Nat /\ f[i] < f[k]
      BY <1>2, <1>3, <1>4, <1>5
    <2>2. k < i => f[k] < f[i]
      BY <1>1 DEF Places
    <2>3. k # i
      BY <2>1
    <2> QED
      BY <2>1, <2>2, <2>3
  <1>7. m \in In(r[i])
    BY <1>1, <1>4, <1>5 DEF Places
  <1> QED
    BY <1>6, <1>7

(* collectWithinWindow and the limit of a queue.                           *)
Stale == {e \in Entry : Last(e) \in old}

LEMMA FreshThins ==
  ASSUME NEW q \in Queue
  PROVE  Thinned(Fresh(q), q, Stale) /\ Len(Fresh(q)) <= Len(q)
  <1> DEFINE N == Len(q)
             Step(f, n) == IF n = 0 THEN <<>>
                           ELSE IF Last(q[n]) \in old THEN f[n - 1]
                           ELSE Append(f[n - 1], q[n])
             Upto(n) == \E g \in [0 .. n -> Queue] : \A i \in 0 .. n : g[i] = Step(g, i)
             kept == CHOOSE f : f = [n \in 0 .. N |-> Step(f, n)]
  <1>1. N \in Nat /\ DOMAIN q = 1 .. N /\ \A n \in 1 .. N : q[n] \in Entry
    BY DEF Queue
  <1>2. <<>> \in Queue /\ \A t \in Queue, e \in Entry : Append(t, e) \in Queue
    BY DEF Queue
  <1> HIDE DEF Entry, Queue
  <1>3. Upto(N)
    <2> SUFFICES ASSUME ~Upto(N) PROVE FALSE
      OBVIOUS
    <2> DEFINE Bad == {n \in Nat : n <= N /\ ~Upto(n)}
    <2>1. PICK n \in Bad : \A m \in Bad : n <= m
      <3>1. Bad \subseteq Nat /\ N \in Bad
        BY <1>1
      <3> HIDE DEF Bad
      <3> QED
        BY <3>1, LeastNat
    <2>2. n # 0
      <3>1. Upto(0)
        <4> DEFINE g == [i \in 0 .. 0 |-> <<>>]
        <4>1. g \in [0 .. 0 -> Queue] /\ \A i \in 0 .. 0 : g[i] = Step(g, i)
          BY <1>2
        <4> QED
          BY <4>1
      <3> QED
        BY <2>1, <3>1
    <2>3. Upto(n - 1)
      <3>1. n - 1 \in Nat /\ n - 1 <= N /\ ~(n <= n - 1)
        BY <1>1, <2>1, <2>2
      <3> QED
        BY <2>1, <3>1
    <2>4. PICK g \in [0 .. (n - 1) -> Queue] : \A i \in 0 .. (n - 1) : g[i] = Step(g, i)
      BY <2>3
    <2> DEFINE h == [i \in 0 .. n |-> IF i = n THEN Step(g, n) ELSE g[i]]
    <2>5. n \in Nat /\ n <= N /\ n >= 1 /\ n \in 1 .. N /\ n - 1 \in 0 .. (n - 1)
      BY <1>1, <2>1, <2>2
    <2>6. Step(g, n) \in Queue
      BY <1>1, <1>2, <2>4, <2>5
    <2>7. h \in [0 .. n -> Queue]
      BY <2>4, <2>5, <2>6
    <2>8. \A i \in 0 .. n : h[i] = Step(h, i)
      <3> SUFFICES ASSUME NEW i \in 0 .. n PROVE h[i] = Step(h, i)
        OBVIOUS
      <3>1. i = 0 \/ (i - 1 \in 0 .. (n - 1) /\ i - 1 # n /\ i - 1 \in 0 .. n)
        BY <2>5
      <3>2. i = 0 \/ h[i - 1] = g[i - 1]
        BY <3>1
      <3>3. CASE i = n
        BY <2>5, <3>2, <3>3
      <3>4. CASE i # n
        <4>1. i \in 0 .. (n - 1)
          BY <2>5, <3>4
        <4>2. h[i] = Step(g, i)
          BY <2>4, <3>4, <4>1
        <4> QED
          BY <3>2, <4>2
      <3> QED
        BY <3>3, <3>4
    <2>9. Upto(n)
      BY <2>7, <2>8
    <2> QED
      BY <2>1, <2>9
  <1>4. kept = [n \in 0 .. N |-> Step(kept, n)]
    <2>1. PICK g \in [0 .. N -> Queue] : \A i \in 0 .. N : g[i] = Step(g, i)
      BY <1>3
    <2>2. g = [n \in 0 .. N |-> Step(g, n)]
      BY <2>1
    <2> QED
      BY <2>2
  <1>5. Fresh(q) = kept[N]
    BY DEF Fresh
  <1> HIDE DEF kept
  <1>6. \A n \in 0 .. N : kept[n] = Step(kept, n)
    BY <1>4
  <1> DEFINE Good(n, f) ==
               /\ kept[n] \in Queue /\ Len(kept[n]) <= n
               /\ f \in [1 .. Len(kept[n]) -> 1 .. n]
               /\ \A i, j \in 1 .. Len(kept[n]) : i < j => f[i] < f[j]
               /\ \A i \in 1 .. Len(kept[n]) : kept[n][i] = q[f[i]]
               /\ \A k \in 1 .. n : \/ Last(q[k]) \in old
                                    \/ \E i \in 1 .. Len(kept[n]) : f[i] = k
             Fine(n) == \E f : Good(n, f)
  <1>7. Fine(0)
    <2>1. kept[0] = <<>>
      BY <1>1, <1>6
    <2>2. Good(0, <<>>)
      BY <1>2, <2>1
    <2> QED
      BY <2>2
  <1>8. ASSUME NEW n \in 1 .. N, Fine(n - 1) PROVE Fine(n)
    <2>1. PICK f : Good(n - 1, f)
      BY <1>8
    <2>2. /\ n \in Nat /\ n # 0 /\ n - 1 \in Nat /\ n \in 0 .. N /\ q[n] \in Entry
          /\ 1 .. n = (1 .. (n - 1)) \cup {n}
      BY <1>1
    <2>3. CASE Last(q[n]) \in old
      <3>1. kept[n] = kept[n - 1]
        BY <1>6, <2>2, <2>3
      <3>2. Good(n, f)
        BY <2>1, <2>2, <2>3, <3>1
      <3> QED
        BY <3>2
    <2>4. CASE Last(q[n]) \notin old
      <3> DEFINE r == kept[n - 1]
                 l == Len(kept[n - 1])
                 g == [i \in 1 .. (l + 1) |-> IF i = l + 1 THEN n ELSE f[i]]
      <3>1. kept[n] = Append(r, q[n])
        BY <1>6, <2>2, <2>4
      <3>2. r \in Queue /\ l \in Nat /\ l <= n - 1
        BY <2>1 DEF Queue
      <3>3. /\ kept[n] \in Queue /\ Len(kept[n]) = l + 1
            /\ kept[n][l + 1] = q[n]
            /\ \A i \in 1 .. l : kept[n][i] = r[i]
        BY <1>2, <2>2, <3>1, <3>2 DEF Queue
      <3>4. /\ f \in [1 .. l -> 1 .. (n - 1)]
            /\ \A i, j \in 1 .. l : i < j => f[i] < f[j]
            /\ \A i \in 1 .. l : r[i] = q[f[i]]
            /\ \A k \in 1 .. (n - 1) : Last(q[k]) \in old \/ \E i \in 1 .. l : f[i] = k
        BY <2>1
      <3> HIDE DEF r, l
      <3>5. 1 .. (l + 1) = (1 .. l) \cup {l + 1} /\ \A i \in 1 .. l : i # l + 1
        BY <3>2
      <3>6. \A i \in 1 .. l : g[i] = f[i] /\ f[i] \in 1 .. n /\ f[i] < n
        BY <2>2, <3>2, <3>4
      <3>7. g[l + 1] = n
        BY <3>2
      <3> HIDE DEF g
      <3>8. g \in [1 .. (l + 1) -> 1 .. n]
        <4>1. g = [i \in 1 .. (l + 1) |-> g[i]]
          BY DEF g
        <4> QED
          BY <2>2, <3>5, <3>6, <3>7, <4>1
      <3>9. \A i, j \in 1 .. (l + 1) : i < j => g[i] < g[j]
        <4> SUFFICES ASSUME NEW i \in 1 .. (l + 1), NEW j \in 1 .. (l + 1), i < j
                     PROVE  g[i] < g[j]
          OBVIOUS
        <4>1. i \in 1 .. l
          BY <3>2
        <4>2. CASE j = l + 1
          BY <3>6, <3>7, <4>1, <4>2
        <4>3. CASE j # l + 1
          <5>1. j \in 1 .. l
            BY <3>5, <4>3
          <5> QED
            BY <3>4, <3>6, <4>1, <5>1
        <4> QED
          BY <4>2, <4>3
      <3>10. \A i \in 1 .. (l + 1) : kept[n][i] = q[g[i]]
        BY <3>3, <3>4, <3>5, <3>6, <3>7
      <3>11. \A k \in 1 .. n : Last(q[k]) \in old \/ \E i \in 1 .. (l + 1) : g[i] = k
        BY <2>2, <3>4, <3>5, <3>6, <3>7
      <3>12. Good(n, g)
        <4>1. Len(kept[n]) <= n
          BY <2>2, <3>2, <3>3
        <4> QED
          BY <3>3, <3>8, <3>9, <3>10, <3>11, <4>1
      <3> QED
        BY <3>12
    <2> QED
      BY <2>3, <2>4
  <1>9. Fine(N)
    <2> SUFFICES ASSUME ~Fine(N) PROVE FALSE
      OBVIOUS
    <2> DEFINE Bad == {n \in Nat : n <= N /\ ~Fine(n)}
    <2> HIDE DEF Fine
    <2>1. PICK n \in Bad : \A m \in Bad : n <= m
      <3>1. Bad \subseteq Nat /\ N \in Bad
        BY <1>1
      <3> HIDE DEF Bad
      <3> QED
        BY <3>1, LeastNat
    <2>2. n # 0
      BY <1>7, <2>1
    <2>3. n \in 1 .. N /\ n - 1 \in Nat /\ n - 1 <= N /\ ~(n <= n - 1)
      BY <1>1, <2>1, <2>2
    <2>4. Fine(n - 1)
      BY <2>1, <2>3
    <2> QED
      BY <1>8, <2>1, <2>3, <2>4
  <1>10. PICK f : Good(N, f)
    BY <1>9
  <1>11. DOMAIN kept[N] = 1 .. Len(kept[N])
    BY <1>10 DEF Queue
  <1>12. \A k \in 1 .. N : Last(q[k]) \in old => q[k] \in Stale
    BY <1>1 DEF Stale
  <1>13. Places(kept[N], q, Stale, f)
    BY <1>1, <1>10, <1>11, <1>12 DEF Places
  <1> QED
    BY <1>5, <1>10, <1>13 DEF Thinned

LEMMA CappedThins ==
  ASSUME NEW q \in Queue
  PROVE  /\ Len(Capped(q)) <= MaxPending
         /\ Len(q) <= MaxPending => Capped(q) = q
         /\ Thinned(Capped(q), q, {q[k] : k \in 1 .. (Len(q) - MaxPending)})
  <1> DEFINE d == Len(q) - MaxPending
             r == Capped(q)
             L == {q[k] : k \in 1 .. d}
  <1>1. Len(q) \in Nat /\ MaxPending \in Nat /\ DOMAIN q = 1 .. Len(q)
    BY SlackAssumption DEF Queue
  <1>2. CASE Len(q) <= MaxPending
    <2>1. r = q
      BY <1>1, <1>2 DEF Capped
    <2> DEFINE f == [i \in DOMAIN q |-> i]
    <2>2. Places(q, q, L, f)
      BY <1>1 DEF Places
    <2> QED
      BY <1>2, <2>1, <2>2 DEF Thinned
  <1>3. CASE ~(Len(q) <= MaxPending)
    <2>1. d \in Nat /\ d >= 1 /\ Len(q) = d + MaxPending /\ r = SubSeq(q, d + 1, Len(q))
      BY <1>1, <1>3 DEF Capped
    <2>2. /\ r \in Queue /\ Len(r) = MaxPending /\ DOMAIN r = 1 .. MaxPending
          /\ \A i \in 1 .. MaxPending : r[i] = q[i + d]
      BY <1>1, <2>1 DEF Queue
    <2> HIDE DEF d, r
    <2> DEFINE f == [i \in 1 .. MaxPending |-> i + d]
    <2>3. f \in [DOMAIN r -> DOMAIN q]
      BY <1>1, <2>1, <2>2
    <2>4. \A i, j \in DOMAIN r : i < j => f[i] < f[j]
      BY <1>1, <2>1, <2>2
    <2>5. \A i \in DOMAIN r : r[i] = q[f[i]]
      BY <2>2
    <2>6. \A k \in DOMAIN q : q[k] \in L \/ \E i \in DOMAIN r : f[i] = k
      <3> SUFFICES ASSUME NEW k \in DOMAIN q, ~(k \in 1 .. d)
                   PROVE  \E i \in DOMAIN r : f[i] = k
        OBVIOUS
      <3>1. k - d \in 1 .. MaxPending /\ (k - d) + d = k
        BY <1>1, <2>1
      <3> QED
        BY <2>2, <3>1
    <2>7. Places(r, q, L, f)
      BY <2>3, <2>4, <2>5, <2>6 DEF Places
    <2> HIDE DEF f, L
    <2>8. Thinned(r, q, L)
      BY <2>2, <2>7 DEF Thinned
    <2>9. Len(r) <= MaxPending
      BY <1>1, <2>2
    <2> QED
      BY <1>3, <2>8, <2>9 DEF L, r, d
  <1> QED
    BY <1>2, <1>3

LEMMA NormalThins ==
  ASSUME NEW q \in Queue
  PROVE  /\ Len(Normal(q)) <= MaxPending
         /\ Len(q) <= MaxPending => Thinned(Normal(q), q, Stale)
         /\ Normal(q) \in Queue
  <1>1. Thinned(Fresh(q), q, Stale) /\ Len(Fresh(q)) <= Len(q)
    BY FreshThins
  <1>2. Fresh(q) \in Queue /\ Len(Fresh(q)) \in Nat /\ Len(q) \in Nat
        /\ MaxPending \in Nat
    BY <1>1, SlackAssumption DEF Thinned, Queue
  <1>3. /\ Len(Normal(q)) <= MaxPending
        /\ Len(Fresh(q)) <= MaxPending => Normal(q) = Fresh(q)
        /\ Normal(q) \in Queue
    BY <1>2, CappedThins DEF Normal, Thinned
  <1> QED
    BY <1>1, <1>2, <1>3

(* The queue after a message that waits.                                   *)
Cut(q) == {q[k] : k \in 1 .. (Len(q) - MaxPending)}

LEMMA WaitingThins ==
  ASSUME NEW q \in Queue
  PROVE  /\ Len(Normal(Capped(q))) <= MaxPending
         /\ Thinned(Normal(Capped(q)), q, Stale \cup Cut(q))
  <1>1. Len(Capped(q)) <= MaxPending /\ Thinned(Capped(q), q, Cut(q))
    BY CappedThins DEF Cut
  <1>2. Capped(q) \in Queue
    BY <1>1 DEF Thinned
  <1>3. /\ Len(Normal(Capped(q))) <= MaxPending
        /\ Thinned(Normal(Capped(q)), Capped(q), Stale)
    BY <1>1, <1>2, NormalThins
  <1>4. Thinned(Normal(Capped(q)), q, Cut(q) \cup Stale)
    BY <1>1, <1>3, ThinnedTwice
  <1>5. Cut(q) \cup Stale = Stale \cup Cut(q)
    OBVIOUS
  <1> QED
    BY <1>3, <1>4, <1>5

(* An entry that joins others has their messages.                          *)
LEMMA Joined ==
  ASSUME NEW x \in Entry, NEW y \in Entry
  PROVE  x \o y \in Entry /\ In(x \o y) = In(x) \cup In(y)
  <1>1. /\ x \o y \in Entry /\ Len(x \o y) = Len(x) + Len(y)
        /\ Len(x) \in Nat /\ Len(y) \in Nat
        /\ DOMAIN x = 1 .. Len(x) /\ DOMAIN y = 1 .. Len(y)
        /\ DOMAIN (x \o y) = 1 .. (Len(x) + Len(y))
    BY DEF Entry
  <1>2. /\ \A i \in 1 .. Len(x) : (x \o y)[i] = x[i]
        /\ \A i \in 1 .. Len(y) : (x \o y)[i + Len(x)] = y[i]
    BY <1>1 DEF Entry
  <1>3. In(x \o y) \subseteq In(x) \cup In(y)
    <2> SUFFICES ASSUME NEW k \in 1 .. (Len(x) + Len(y))
                 PROVE  (x \o y)[k] \in In(x) \cup In(y)
      BY <1>1 DEF In, ToSet
    <2>1. CASE k <= Len(x)
      <3>1. k \in DOMAIN x /\ (x \o y)[k] = x[k]
        BY <1>1, <1>2, <2>1
      <3> QED
        BY <3>1 DEF In, ToSet
    <2>2. CASE ~(k <= Len(x))
      <3>1. k - Len(x) \in DOMAIN y /\ (k - Len(x)) + Len(x) = k
        BY <1>1, <2>2
      <3>2. (x \o y)[k] = y[k - Len(x)]
        BY <1>1, <1>2, <3>1
      <3> QED
        BY <3>1, <3>2 DEF In, ToSet
    <2> QED
      BY <2>1, <2>2
  <1>4. In(x) \subseteq In(x \o y)
    <2> SUFFICES ASSUME NEW k \in 1 .. Len(x) PROVE x[k] \in In(x \o y)
      BY <1>1 DEF In, ToSet
    <2>1. k \in DOMAIN (x \o y) /\ (x \o y)[k] = x[k]
      BY <1>1, <1>2
    <2> QED
      BY <2>1 DEF In, ToSet
  <1>5. In(y) \subseteq In(x \o y)
    <2> SUFFICES ASSUME NEW k \in 1 .. Len(y) PROVE y[k] \in In(x \o y)
      BY <1>1 DEF In, ToSet
    <2>1. k + Len(x) \in DOMAIN (x \o y) /\ (x \o y)[k + Len(x)] = y[k]
      BY <1>1, <1>2
    <2> QED
      BY <2>1 DEF In, ToSet
  <1> QED
    BY <1>1, <1>3, <1>4, <1>5

LEMMA FlatWaiting ==
  ASSUME NEW q \in Queue, q # <<>>
  PROVE  FlattenSeq(q) \in Entry /\ In(FlattenSeq(q)) = Waiting(q)
  <1> DEFINE N == Len(q)
             Step(f, i) == IF i = 1 THEN q[i] ELSE f[i - 1] \o q[i]
             Upto(n) == \E g \in [1 .. n -> Entry] :
                           \A i \in 1 .. n : /\ g[i] = Step(g, i)
                                             /\ In(g[i]) = UNION {In(q[k]) : k \in 1 .. i}
             flatten == CHOOSE f : f = [i \in 1 .. N |-> Step(f, i)]
  <1>1. N \in Nat /\ N >= 1 /\ DOMAIN q = 1 .. N /\ \A n \in 1 .. N : q[n] \in Entry
    BY DEF Queue
  <1> HIDE DEF Entry, Queue
  <1>2. Upto(0)
    <2>1. <<>> \in [1 .. 0 -> Entry] /\ 1 .. 0 = {}
      OBVIOUS
    <2> QED
      BY <2>1
  <1>3. ASSUME NEW n \in 1 .. N, Upto(n - 1) PROVE Upto(n)
    <2>1. PICK g \in [1 .. (n - 1) -> Entry] :
             \A i \in 1 .. (n - 1) : /\ g[i] = Step(g, i)
                                     /\ In(g[i]) = UNION {In(q[k]) : k \in 1 .. i}
      BY <1>3
    <2> DEFINE new == Step(g, n)
               h == [i \in 1 .. n |-> IF i = n THEN new ELSE g[i]]
    <2>2. /\ n \in Nat /\ n \in 1 .. n /\ 1 .. n = (1 .. (n - 1)) \cup {n}
          /\ q[n] \in Entry /\ \A i \in 1 .. (n - 1) : i # n
      BY <1>1
    <2>3. new \in Entry /\ In(new) = UNION {In(q[k]) : k \in 1 .. n}
      <3>1. CASE n = 1
        BY <2>2, <3>1
      <3>2. CASE n # 1
        <4>1. n - 1 \in 1 .. (n - 1)
          BY <2>2, <3>2
        <4>2. new = g[n - 1] \o q[n] /\ g[n - 1] \in Entry
          BY <2>1, <3>2, <4>1
        <4>3. In(new) = In(g[n - 1]) \cup In(q[n]) /\ new \in Entry
          BY <2>2, <4>2, Joined
        <4>4. In(g[n - 1]) = UNION {In(q[k]) : k \in 1 .. (n - 1)}
          BY <2>1, <4>1
        <4> HIDE DEF new
        <4> QED
          BY <2>2, <4>3, <4>4
      <3> QED
        BY <3>1, <3>2
    <2> HIDE DEF new
    <2>4. h \in [1 .. n -> Entry]
      BY <2>1, <2>2, <2>3
    <2>5. \A i \in 1 .. (n - 1) : h[i] = g[i] /\ (i = 1 \/ (i - 1 \in 1 .. (n - 1)))
      BY <2>2
    <2>6. \A i \in 1 .. n : i # 1 => i - 1 \in 1 .. (n - 1) /\ h[i - 1] = g[i - 1]
      <3>1. \A i \in 1 .. n : i # 1 => i - 1 \in 1 .. (n - 1)
        BY <2>2
      <3> QED
        BY <2>5, <3>1
    <2>7. \A i \in 1 .. n : h[i] = Step(h, i)
      <3> SUFFICES ASSUME NEW i \in 1 .. n PROVE h[i] = Step(h, i)
        OBVIOUS
      <3>1. h[i] = Step(g, i)
        BY <2>1, <2>2 DEF new
      <3> QED
        BY <2>6, <3>1
    <2>8. \A i \in 1 .. n : In(h[i]) = UNION {In(q[k]) : k \in 1 .. i}
      BY <2>1, <2>2, <2>3
    <2> QED
      BY <2>4, <2>7, <2>8
  <1>4. Upto(N)
    <2> SUFFICES ASSUME ~Upto(N) PROVE FALSE
      OBVIOUS
    <2> DEFINE Bad == {n \in Nat : n <= N /\ ~Upto(n)}
    <2> HIDE DEF Upto
    <2>1. PICK n \in Bad : \A m \in Bad : n <= m
      <3>1. Bad \subseteq Nat /\ N \in Bad
        BY <1>1
      <3> HIDE DEF Bad
      <3> QED
        BY <3>1, LeastNat
    <2>2. n # 0
      BY <1>2, <2>1
    <2>3. n \in 1 .. N /\ n - 1 \in Nat /\ n - 1 <= N /\ ~(n <= n - 1)
      BY <1>1, <2>1, <2>2
    <2>4. Upto(n - 1)
      BY <2>1, <2>3
    <2> QED
      BY <1>3, <2>1, <2>3, <2>4
  <1>5. PICK g \in [1 .. N -> Entry] :
           \A i \in 1 .. N : /\ g[i] = Step(g, i)
                             /\ In(g[i]) = UNION {In(q[k]) : k \in 1 .. i}
    BY <1>4
  <1>6. flatten = [i \in 1 .. N |-> Step(flatten, i)]
    <2>1. g = [i \in 1 .. N |-> Step(g, i)]
      BY <1>5
    <2> QED
      BY <2>1
  <1>7. FlattenSeq(q) = flatten[N]
    BY <1>1 DEF FlattenSeq
  <1> HIDE DEF flatten
  <1>8. \A n \in 0 .. N : \A i \in 1 .. n : flatten[i] = g[i]
    <2> DEFINE Same(n) == \A i \in 1 .. n : flatten[i] = g[i]
               Bad == {n \in Nat : n <= N /\ ~Same(n)}
    <2> SUFFICES ASSUME Bad # {} PROVE FALSE
      BY <1>1
    <2>1. PICK n \in Bad : \A m \in Bad : n <= m
      <3>1. Bad \subseteq Nat
        OBVIOUS
      <3> HIDE DEF Bad
      <3> QED
        BY <3>1, LeastNat
    <2>2. n # 0
      BY <2>1
    <2>3. n \in 1 .. N /\ n - 1 \in Nat /\ n - 1 <= N /\ ~(n <= n - 1)
          /\ 1 .. n = (1 .. (n - 1)) \cup {n}
      BY <1>1, <2>1, <2>2
    <2>4. Same(n - 1)
      BY <2>1, <2>3
    <2>5. flatten[n] = g[n]
      <3>1. flatten[n] = Step(flatten, n) /\ g[n] = Step(g, n)
        BY <1>5, <1>6, <2>3
      <3>2. n = 1 \/ n - 1 \in 1 .. (n - 1)
        BY <2>3
      <3> QED
        BY <2>4, <3>1, <3>2
    <2> QED
      BY <2>1, <2>3, <2>4, <2>5
  <1>9. FlattenSeq(q) = g[N] /\ N \in 1 .. N
    BY <1>1, <1>7, <1>8
  <1> QED
    BY <1>1, <1>5, <1>9 DEF Waiting

----------------------------------------------------------------------------
(* A step of one session leaves the others alone.                          *)
Elsewhere(t) ==
    /\ pending'[t] = pending[t] /\ active'[t] = active[t] /\ drains'[t] = drains[t]
    /\ mishap'[t] = mishap[t] /\ modes'[t] = modes[t] /\ stored'[t] = stored[t]
    /\ storing'[t] = storing[t] /\ (t \in closed' <=> t \in closed)
    /\ \A m \in Of(t) :
          /\ at'[m] = at[m] /\ look'[m] = look[m] /\ ran'[m] = ran[m]
          /\ cause'[m] = cause[m] /\ (m \in old' <=> m \in old)
          /\ (m \in stopped' <=> m \in stopped)
    /\ order' = order \/ \E m \in Messages \ Of(t) : order' = Append(order, m)

(* The order of a session's messages, after a message of another.          *)
LEMMA OrderElsewhere ==
  ASSUME order \in Seq(Messages), NEW t,
         order' = order \/ \E m \in Messages \ Of(t) : order' = Append(order, m)
  PROVE  /\ \A m \in Of(t) : m \in ToSet(order)' => m \in ToSet(order)
         /\ \A p \in Earlier(t)' : /\ p \in Earlier(t)
                                   /\ order'[p[1]] = order[p[1]]
                                   /\ order'[p[2]] = order[p[2]]
  <1>1. CASE order' = order
    BY <1>1 DEF Earlier, ToSet, Of
  <1>2. ASSUME NEW m \in Messages \ Of(t), order' = Append(order, m)
        PROVE  /\ \A n \in Of(t) : n \in ToSet(order)' => n \in ToSet(order)
               /\ \A p \in Earlier(t)' : /\ p \in Earlier(t)
                                         /\ order'[p[1]] = order[p[1]]
                                         /\ order'[p[2]] = order[p[2]]
    <2>1. /\ DOMAIN order' = DOMAIN order \cup {Len(order) + 1}
          /\ order'[Len(order) + 1] = m
          /\ \A k \in DOMAIN order : order'[k] = order[k]
      BY <1>2
    <2>2. \A n \in Of(t) : n \in ToSet(order)' => n \in ToSet(order)
      BY <1>2, <2>1 DEF ToSet
    <2>3. ASSUME NEW p \in Earlier(t)'
          PROVE  /\ p \in Earlier(t)
                 /\ order'[p[1]] = order[p[1]] /\ order'[p[2]] = order[p[2]]
      <3>1. /\ p \in (DOMAIN order') \X (DOMAIN order') /\ p[1] < p[2]
            /\ order'[p[1]] \in Of(t) /\ order'[p[2]] \in Of(t)
        BY <2>3 DEF Earlier, Of
      <3>2. p[1] \in DOMAIN order /\ p[2] \in DOMAIN order
        BY <1>2, <2>1, <3>1
      <3> QED
        BY <2>1, <3>1, <3>2 DEF Earlier
    <2> QED
      BY <2>2, <2>3
  <1> QED
    BY <1>1, <1>2

LEMMA SessionStays ==
  ASSUME TypeOK, NEW t \in Sessions, SessionInv(t), Elsewhere(t)
  PROVE  SessionInv(t)'
  <1>1. /\ \A m \in Of(t) : m \in ToSet(order)' => m \in ToSet(order)
        /\ \A p \in Earlier(t)' : /\ p \in Earlier(t)
                                  /\ order'[p[1]] = order[p[1]]
                                  /\ order'[p[2]] = order[p[2]]
    BY OrderElsewhere DEF TypeOK, Elsewhere
  <1>2. Queues(t)' = Queues(t) /\ Given(t)' = Given(t) /\ Of(t)' = Of(t)
    BY DEF Elsewhere, Queues, Given, Of
  <1>3. Placed(t)'
    BY <1>1, <1>2 DEF SessionInv, Placed, Elsewhere
  <1>4. Known(t)'
    BY <1>2 DEF SessionInv, Known, Elsewhere
  <1>5. OneMode(t)'
    BY <1>2 DEF SessionInv, OneMode, Unraced, Elsewhere
  <1>6. \A q \in Queues(t) : \A k \in DOMAIN q : In(q[k]) \subseteq Of(t)
    BY DEF SessionInv, Placed, Given
  <1>7. OnePlace(t)'
    <2>1. \A q \in Queues(t) : Waiting(q) \subseteq Of(t)
      BY <1>6 DEF Waiting
    <2> QED
      BY <1>2, <2>1 DEF SessionInv, OnePlace, Unraced, Elsewhere
  <1>8. \A m \in Of(t) : Settled(m)' <=> Settled(m)
    BY DEF Settled, Elsewhere
  <1>9. Kept(t)'
    <2>1. Waiting(pending[t]) \subseteq Of(t)
      BY <1>6 DEF Waiting, Queues
    <2>2. Clean(t)' = Clean(t)
      BY DEF Clean, Unraced, Elsewhere
    <2>3. \A k \in DOMAIN drains'[t] :
              Clean(t)' => Waiting(pending'[t]) \ Waiting(drains'[t][k].queue) \subseteq old'
      BY <2>1, <2>2 DEF SessionInv, Kept, Elsewhere
    <2>4. \A m \in Given(t) : m \in Of(t)
      BY DEF Given
    <2> QED
      BY <1>2, <1>8, <2>2, <2>3, <2>4 DEF SessionInv, Kept, Elsewhere, IsDraining
  <1>10. Silent(t)'
    BY <1>2 DEF SessionInv, Silent, Clean, Unraced, Elsewhere
  <1>11. Sorted(t)'
    <2>1. \A p \in Earlier(t) : order[p[1]] \in Of(t) /\ order[p[2]] \in Of(t)
      BY DEF Earlier
    <2>2. Steady(t)' = Steady(t) /\ stored'[t] = stored[t]
      BY DEF Steady, Clean, Unraced, Elsewhere
    <2> SUFFICES ASSUME Steady(t)', stored'[t] \notin Steers, NEW p \in Earlier(t)'
                 PROVE  LET m == order'[p[1]]  n == order'[p[2]]
                        IN  \/ ran'[m] > 0 \/ cause'[m] # {} \/ m \in old'
                            \/ ran'[n] = 0 /\ \A q \in Queues(t)' : Ahead(m, n, q)
      BY DEF Sorted, Settled
    <2> DEFINE m == order[p[1]]  n == order[p[2]]
    <2>3. /\ order'[p[1]] = m /\ order'[p[2]] = n /\ m \in Of(t) /\ n \in Of(t)
      BY <1>1, <2>1
    <2>4. Settled(m) \/ (ran[n] = 0 /\ \A q \in Queues(t) : Ahead(m, n, q))
      BY <1>1, <2>2 DEF SessionInv, Sorted
    <2> QED
      BY <1>2, <2>3, <2>4 DEF Elsewhere, Settled
  <1> QED
    BY <1>3, <1>4, <1>5, <1>7, <1>9, <1>10, <1>11 DEF SessionInv

LEMMA OneSessionMoves ==
  ASSUME Inv, TypeOK', Counted', NEW s \in Sessions, SessionInv(s)',
         \A t \in Sessions \ {s} : Elsewhere(t)
  PROVE  Inv'
  <1>1. \A t \in Sessions \ {s} : SessionInv(t)'
    BY SessionStays DEF Inv
  <1> QED
    BY <1>1 DEF Inv

LEMMA Initially == Init => Inv
  <1> SUFFICES ASSUME Init PROVE Inv
    OBVIOUS
  <1>1. TypeOK
    BY SlackAssumption DEF Init, TypeOK
  <1>2. Counted
    <2>1. Running = {}
      BY DEF Init, Running
    <2> QED
      BY <2>1, FS_EmptySet DEF Init, Counted
  <1>3. ASSUME NEW s \in Sessions PROVE SessionInv(s)
    <2>1. Queues(s) = {<<>>} /\ Waiting(<<>>) = {} /\ Len(<<>>) = 0
      BY DEF Init, Queues, Waiting
    <2>2. Placed(s)
      BY <2>1, SlackAssumption DEF Init, Placed, Of, ToSet
    <2>3. Known(s) /\ OneMode(s)
      BY DEF Init, Known, OneMode, Of, Unraced
    <2>4. OnePlace(s)
      BY <2>1 DEF Init, OnePlace, Of, Apart
    <2>5. Kept(s) /\ Silent(s)
      BY <2>1 DEF Init, Kept, Silent, Given, Of
    <2>6. Sorted(s)
      BY DEF Init, Sorted, Earlier
    <2> QED
      BY <2>2, <2>3, <2>4, <2>5, <2>6 DEF SessionInv
  <1> QED
    BY <1>1, <1>2, <1>3 DEF Inv

(* The handler of a message, up to its submission.                         *)
LEMMA FoundIsALook ==
  ASSUME TypeOK, NEW s \in Sessions
  PROVE  Found(s) \in Look
  BY DEF TypeOK, Found, Look

LEMMA FoundIs ==
  ASSUME NEW s
  PROVE  /\ Found(s).mode = IF modes[s] # None THEN modes[s] ELSE stored[s]
         /\ Found(s).miss <=> modes[s] = None
  <1>1. Found(s).mode = IF modes[s] # None THEN modes[s] ELSE stored[s]
    BY DEF Found
  <1>2. Found(s).miss <=> modes[s] = None
    BY Zenon DEF Found
  <1> QED
    BY <1>1, <1>2

LEMMA HandlerKeeps ==
  ASSUME Inv, NEW m \in Messages, at[m] \in {"new", "handling", "looking"},
         NEW a \in {"handling", "looking", "failed"}, NEW l \in Look \cup {None},
         a = "looking" => l = Found(SessionOf[m]),
         at' = [at EXCEPT ![m] = a], look' = [look EXCEPT ![m] = l],
         spent' \in 0 .. MaxSpent,
         UNCHANGED <<modes, stored, storing, queueVars, drains, closed, old, historyVars>>
  PROVE  Inv'
  <1> DEFINE s == SessionOf[m]
  <1>1. s \in Sessions /\ m \in Of(s)
    BY SlackAssumption DEF Of
  <1>2. TypeOK'
    BY DEF Inv, TypeOK, queueVars, historyVars
  <1>3. Counted'
    BY DEF Inv, Counted, Running, queueVars
  <1>4. \A t \in Sessions \ {s} : Elsewhere(t)
    BY DEF Inv, TypeOK, Elsewhere, Of, queueVars, historyVars
  <1>5. /\ at'[m] = a /\ look'[m] = l
        /\ \A n \in Messages : n # m => at'[n] = at[n] /\ look'[n] = look[n]
    BY DEF Inv, TypeOK
  <1>6. /\ Queues(s)' = Queues(s) /\ Given(s)' = Given(s) /\ Of(s)' = Of(s)
        /\ Unraced(s)' = Unraced(s)
    BY <1>5 DEF Queues, Given, Of, Unraced, queueVars, historyVars
  <1>7. SessionInv(s)
    BY <1>1 DEF Inv
  <1> HIDE DEF s
  <1>8. Placed(s)'
    <2>1. a = "looking" => l \in Look
      BY <1>1, FoundIsALook DEF Inv, s
    <2> QED
      BY <1>5, <1>6, <1>7, <2>1 DEF SessionInv, Placed, Of, queueVars, historyVars
  <1>9. Known(s)'
    <2>1. a = "looking" => (modes[s] = None => l.miss)
      BY FoundIs DEF s
    <2> QED
      BY <1>5, <1>6, <1>7, <2>1 DEF SessionInv, Known, Of, queueVars, historyVars
  <1>10. OneMode(s)'
    <2>1. a = "looking" /\ modes[s] \in {None, stored[s]} => l.mode = stored[s]
      BY FoundIs DEF s
    <2> QED
      BY <1>5, <1>6, <1>7, <2>1 DEF SessionInv, OneMode, Of, queueVars, historyVars
  <1>11. OnePlace(s)'
    BY <1>6, <1>7 DEF SessionInv, OnePlace, queueVars
  <1>12. Kept(s)' /\ Silent(s)'
    BY <1>6, <1>7 DEF SessionInv, Kept, Silent, Clean, Settled, IsDraining, queueVars,
                      historyVars
  <1>13. Sorted(s)'
    BY <1>6, <1>7 DEF SessionInv, Sorted, Steady, Clean, Settled, Earlier, queueVars,
                      historyVars
  <1>14. SessionInv(s)'
    BY <1>8, <1>9, <1>10, <1>11, <1>12, <1>13 DEF SessionInv
  <1> QED
    BY <1>1, <1>2, <1>3, <1>4, <1>14, OneSessionMoves DEF s

LEMMA ArriveKeeps ==
  ASSUME Inv, NEW m \in Messages, Arrive(m)
  PROVE  Inv'
  <1>1. look' = [look EXCEPT ![m] = look[m]] /\ look[m] \in Look \cup {None}
    BY DEF Inv, TypeOK, Arrive, modeVars
  <1> QED
    BY <1>1, HandlerKeeps DEF Inv, TypeOK, Arrive, modeVars

LEMMA LookUpKeeps ==
  ASSUME Inv, NEW m \in Messages, LookUp(m)
  PROVE  Inv'
  <1>1. Found(SessionOf[m]) \in Look
    BY SlackAssumption, FoundIsALook DEF Inv
  <1> QED
    BY <1>1, HandlerKeeps DEF Inv, TypeOK, LookUp

LEMMA SpendCounts ==
  ASSUME TypeOK, Spend
  PROVE  spent' \in 0 .. MaxSpent
  BY SlackAssumption DEF TypeOK, Spend

LEMMA HandlerFailsKeeps ==
  ASSUME Inv, NEW m \in Messages, HandlerFails(m)
  PROVE  Inv'
  BY SpendCounts, HandlerKeeps DEF Inv, HandlerFails

(* The commands, and the clock.                                            *)
LEMMA StoreModeKeeps ==
  ASSUME Inv, NEW s \in Sessions, StoreMode(s)
  PROVE  Inv'
  <1>1. /\ storing[s] # None
        /\ stored' = [stored EXCEPT ![s] = storing[s]]
        /\ storing' = [storing EXCEPT ![s] = None]
        /\ UNCHANGED <<at, look, modes, queueVars, drains, closed, old, historyVars, spent>>
    BY DEF StoreMode
  <1>2. TypeOK'
    BY <1>1 DEF Inv, TypeOK, queueVars, historyVars
  <1>3. Counted'
    BY <1>1 DEF Inv, Counted, Running, queueVars
  <1>4. \A t \in Sessions \ {s} : Elsewhere(t)
    BY <1>1 DEF Inv, TypeOK, Elsewhere, Of, queueVars, historyVars
  <1>5. SessionInv(s) /\ "mode" \in mishap[s]
    BY <1>1 DEF Inv, SessionInv, OneMode
  <1>6. /\ Queues(s)' = Queues(s) /\ Given(s)' = Given(s) /\ Of(s)' = Of(s)
    BY <1>1 DEF Queues, Given, Of, queueVars, historyVars
  <1>7. Placed(s)' /\ Known(s)' /\ OnePlace(s)'
    BY <1>1, <1>5, <1>6 DEF SessionInv, Placed, Known, OnePlace, Unraced, queueVars,
                            historyVars
  <1>8. Kept(s)' /\ Silent(s)'
    BY <1>1, <1>5, <1>6 DEF SessionInv, Kept, Silent, Clean, Unraced, Settled, IsDraining,
                            queueVars, historyVars
  <1>9. OneMode(s)' /\ Sorted(s)'
    BY <1>1, <1>5 DEF OneMode, Sorted, Steady, historyVars
  <1>10. SessionInv(s)'
    BY <1>7, <1>8, <1>9 DEF SessionInv
  <1> QED
    BY <1>2, <1>3, <1>4, <1>10, OneSessionMoves

LEMMA SetModeKeeps ==
  ASSUME Inv, NEW s \in Sessions, NEW mode \in Settable, SetMode(s, mode)
  PROVE  Inv'
  <1>1. /\ modes' = [modes EXCEPT ![s] = mode]
        /\ storing' = [storing EXCEPT ![s] = mode]
        /\ mishap' = Befalls(s, "mode")
        /\ UNCHANGED <<at, look, stored, queueVars, drains, closed, old, order, cause, stopped>>
    BY DEF SetMode
  <1>2. mode \in Mode /\ mode # None
    BY SlackAssumption
  <1>3. /\ mishap'[s] = mishap[s] \cup {"mode"}
        /\ \A t \in Sessions \ {s} : mishap'[t] = mishap[t]
        /\ mishap' \in [Sessions -> SUBSET {"limited", "raced", "db", "mode"}]
    BY <1>1 DEF Inv, TypeOK, Befalls
  <1>4. TypeOK'
    <2>1. spent' \in 0 .. MaxSpent
      BY SpendCounts DEF Inv, SetMode
    <2> QED
      BY <1>1, <1>2, <1>3, <2>1 DEF Inv, TypeOK, queueVars
  <1>5. Counted'
    BY <1>1 DEF Inv, Counted, Running, queueVars
  <1>6. \A t \in Sessions \ {s} : Elsewhere(t)
    BY <1>1, <1>3 DEF Inv, TypeOK, Elsewhere, Of, queueVars
  <1>7. SessionInv(s)
    BY DEF Inv
  <1>8. /\ Queues(s)' = Queues(s) /\ Given(s)' = Given(s) /\ Of(s)' = Of(s)
        /\ Unraced(s)' = Unraced(s) /\ Clean(s)' = Clean(s) /\ modes'[s] = mode
    BY <1>1, <1>3 DEF Queues, Given, Of, Clean, Unraced, queueVars, Inv, TypeOK
  <1>9. Placed(s)' /\ OnePlace(s)'
    BY <1>1, <1>7, <1>8 DEF SessionInv, Placed, OnePlace, queueVars
  <1>10. Known(s)'
    BY <1>1, <1>2, <1>3, <1>7, <1>8 DEF SessionInv, Known, queueVars
  <1>11. Kept(s)' /\ Silent(s)'
    BY <1>1, <1>3, <1>7, <1>8 DEF SessionInv, Kept, Silent, Settled, IsDraining, queueVars
  <1>12. OneMode(s)' /\ Sorted(s)'
    BY <1>3 DEF OneMode, Sorted, Steady
  <1>13. SessionInv(s)'
    BY <1>9, <1>10, <1>11, <1>12 DEF SessionInv
  <1> QED
    BY <1>4, <1>5, <1>6, <1>13, OneSessionMoves

LEMMA LapseKeeps ==
  ASSUME Inv, NEW s \in Sessions, Lapse(s)
  PROVE  Inv'
  <1>1. PICK k \in DOMAIN pending[s] : old' = old \cup In(pending[s][k])
    BY DEF Lapse
  <1>2. UNCHANGED <<at, modeVars, queueVars, drains, closed, historyVars>>
    BY DEF Lapse
  <1>3. SessionInv(s)
    BY DEF Inv
  <1>4. In(pending[s][k]) \subseteq Of(s)
    BY <1>3 DEF SessionInv, Placed, Queues, Given
  <1>5. TypeOK'
    <2>1. spent' \in 0 .. MaxSpent
      BY SpendCounts DEF Inv, Lapse
    <2>2. old' \subseteq Messages
      BY <1>1, <1>4 DEF Inv, TypeOK, Of
    <2> QED
      BY <1>2, <2>1, <2>2 DEF Inv, TypeOK, modeVars, queueVars, historyVars
  <1>6. Counted'
    BY <1>2 DEF Inv, Counted, Running, queueVars
  <1>7. \A t \in Sessions \ {s} : Elsewhere(t)
    BY <1>1, <1>2, <1>4 DEF Elsewhere, Of, modeVars, queueVars, historyVars
  <1>8. /\ Queues(s)' = Queues(s) /\ Given(s)' = Given(s) /\ Of(s)' = Of(s)
        /\ Unraced(s)' = Unraced(s) /\ Clean(s)' = Clean(s) /\ Steady(s)' = Steady(s)
    BY <1>2 DEF Queues, Given, Of, Unraced, Clean, Steady, queueVars, historyVars
  <1>9. Placed(s)' /\ Known(s)' /\ OneMode(s)' /\ OnePlace(s)' /\ Silent(s)'
    BY <1>2, <1>3, <1>8 DEF SessionInv, Placed, Known, OneMode, OnePlace, Silent,
                            modeVars, queueVars, historyVars
  <1>10. \A m : Settled(m) => ran'[m] > 0 \/ cause'[m] # {} \/ m \in old'
    BY <1>1, <1>2 DEF Settled, queueVars, historyVars
  <1>11. Kept(s)'
    BY <1>1, <1>2, <1>3, <1>8, <1>10 DEF SessionInv, Kept, Settled, IsDraining, modeVars,
                                         queueVars, historyVars
  <1>12. Sorted(s)'
    BY <1>2, <1>3, <1>8, <1>10 DEF SessionInv, Sorted, Earlier, Settled, modeVars,
                                   queueVars, historyVars
  <1>13. SessionInv(s)'
    BY <1>9, <1>11, <1>12 DEF SessionInv
  <1> QED
    BY <1>5, <1>6, <1>7, <1>13, OneSessionMoves

(* The messages of a queue were given, and are in none if it is empty.     *)
LEMMA NoneWaiting == Waiting(<<>>) = {} /\ \A m, n : Ahead(m, n, <<>>) /\ Apart(<<>>)
  BY DEF Waiting, Ahead, Apart

LEMMA WaitingGiven ==
  ASSUME NEW s, Placed(s), NEW q \in Queues(s)
  PROVE  Waiting(q) \subseteq Given(s)
  BY DEF Placed, Waiting

LEMMA BlameGrows ==
  ASSUME TypeOK, NEW s \in Sessions, NEW M \in SUBSET Of(s), cause' = Blame(M, "cleared")
  PROVE  /\ cause' \in [Messages -> SUBSET {"replaced", "cleared", "full"}]
         /\ \A m \in M : cause'[m] # {}
         /\ \A m \in Messages : cause[m] # {} => cause'[m] # {}
         /\ \A m \in Messages \ Of(s) : cause'[m] = cause[m]
  BY DEF TypeOK, Blame, Of

LEMMA RacedOrNot ==
  ASSUME TypeOK, NEW s \in Sessions,
         mishap' = IF IsDraining(s) THEN Befalls(s, "raced") ELSE mishap
  PROVE  /\ mishap' \in [Sessions -> SUBSET {"limited", "raced", "db", "mode"}]
         /\ \A t \in Sessions \ {s} : mishap'[t] = mishap[t]
         /\ mishap[s] \subseteq mishap'[s]
         /\ \A x \in mishap'[s] : x # "raced" => x \in mishap[s]
         /\ drains[s] # <<>> => "raced" \in mishap'[s]
  BY DEF TypeOK, Befalls, IsDraining

LEMMA ClearingKeeps ==
  ASSUME Inv, NEW s \in Sessions,
         pending' = [pending EXCEPT ![s] = <<>>],
         cause' = Blame(Waiting(pending[s]), "cleared"),
         mishap' = IF IsDraining(s) THEN Befalls(s, "raced") ELSE mishap,
         stopped' = stopped \/ stopped' = stopped \cup Waiting(pending[s]),
         \/ modes' = modes /\ closed' = closed
         \/ modes' = [modes EXCEPT ![s] = None] /\ closed' = closed \cup {s},
         signal' \in [Sessions -> {"none", "queue", "user"}], spent' \in 0 .. MaxSpent,
         UNCHANGED <<at, look, stored, storing, active, count, ran, drains, old, order>>
  PROVE  Inv'
  <1>1. SessionInv(s)
    BY DEF Inv
  <1>2. Waiting(pending[s]) \subseteq Given(s) /\ Waiting(pending[s]) \subseteq Of(s)
    BY <1>1, WaitingGiven DEF SessionInv, Queues, Given
  <1>3. /\ cause' \in [Messages -> SUBSET {"replaced", "cleared", "full"}]
        /\ \A m \in Waiting(pending[s]) : cause'[m] # {}
        /\ \A m \in Messages : cause[m] # {} => cause'[m] # {}
        /\ \A m \in Messages \ Of(s) : cause'[m] = cause[m]
    BY <1>2, BlameGrows DEF Inv
  <1>4. /\ mishap' \in [Sessions -> SUBSET {"limited", "raced", "db", "mode"}]
        /\ \A t \in Sessions \ {s} : mishap'[t] = mishap[t]
        /\ mishap[s] \subseteq mishap'[s]
        /\ \A x \in mishap'[s] : x # "raced" => x \in mishap[s]
        /\ drains[s] # <<>> => "raced" \in mishap'[s]
    BY RacedOrNot DEF Inv
  <1>5. TypeOK'
    <2>1. pending' \in [Sessions -> Seq(Seq(Messages))]
      BY DEF Inv, TypeOK
    <2>2. stopped' \subseteq Messages
      BY <1>2 DEF Inv, TypeOK, Of
    <2>3. modes' \in [Sessions -> Mode \cup {None}] /\ closed' \subseteq Sessions
      BY DEF Inv, TypeOK
    <2> QED
      BY <1>3, <1>4, <2>1, <2>2, <2>3 DEF Inv, TypeOK
  <1>6. Counted'
    BY DEF Inv, Counted, Running
  <1>7. \A t \in Sessions \ {s} : Elsewhere(t)
    <2> SUFFICES ASSUME NEW t \in Sessions \ {s} PROVE Elsewhere(t)
      OBVIOUS
    <2>1. \A m \in Of(t) : m \in Messages \ Of(s)
      BY DEF Of
    <2>2. pending'[t] = pending[t] /\ modes'[t] = modes[t]
      BY DEF Inv, TypeOK
    <2> QED
      BY <1>2, <1>3, <1>4, <2>1, <2>2 DEF Elsewhere
  <1>8. /\ pending'[s] = <<>> /\ Given(s)' = Given(s) /\ Of(s)' = Of(s)
        /\ \A q \in Queues(s)' : q = <<>> \/ q \in Queues(s)
        /\ Unraced(s)' => drains[s] = <<>> /\ Unraced(s) /\ Queues(s)' = {<<>>}
        /\ Clean(s)' => Clean(s)
        /\ Steady(s)' => Steady(s)
    BY <1>4 DEF Inv, TypeOK, Given, Of, Queues, Unraced, Clean, Steady
  <1>9. Placed(s)'
    <2>1. \A q \in Queues(s)' :
             Len(q) <= MaxPending /\ \A k \in DOMAIN q : q[k] # <<>> /\ In(q[k]) \subseteq Given(s)
      <3>1. Len(<<>>) <= MaxPending /\ DOMAIN <<>> = {}
        BY SlackAssumption
      <3> QED
        BY <1>1, <1>8, <3>1 DEF SessionInv, Placed
    <2>2. \A m \in Of(s) : m \in stopped' => m \in Given(s)
      BY <1>1, <1>2 DEF SessionInv, Placed
    <2> QED
      BY <1>1, <1>8, <2>1, <2>2 DEF SessionInv, Placed
  <1>10. Known(s)'
    BY <1>1, <1>4, <1>8 DEF SessionInv, Known
  <1>11. OneMode(s)'
    <2>1. modes'[s] = modes[s] \/ modes'[s] = None
      BY DEF Inv, TypeOK
    <2> QED
      BY <1>1, <1>4, <1>8, <2>1 DEF SessionInv, OneMode
  <1>12. OnePlace(s)'
    BY <1>1, <1>8, NoneWaiting DEF SessionInv, OnePlace
  <1>13. Kept(s)'
    <2> SUFFICES ASSUME Clean(s)'
                 PROVE  /\ \A q \in Queues(s)' : \A k \in DOMAIN q : Whole(q[k])
                        /\ \A k \in DOMAIN drains'[s] :
                              Waiting(pending'[s]) \ Waiting(drains'[s][k].queue) \subseteq old'
                        /\ "db" \notin mishap'[s] =>
                              /\ pending'[s] # <<>> => active'[s] # <<>> \/ IsDraining(s)'
                              /\ \A m \in Given(s) : \/ ran'[m] > 0 \/ cause'[m] # {}
                                                     \/ m \in old' \/ m \in Waiting(pending'[s])
      BY <1>8 DEF Kept, Settled
    <2>1. Clean(s) /\ drains[s] = <<>> /\ Queues(s)' = {<<>>}
      BY <1>8 DEF Clean
    <2>2. "db" \notin mishap'[s] => "db" \notin mishap[s]
      BY <1>4
    <2>3. \A m \in Given(s) : m \in Messages
      BY DEF Given, Of
    <2> QED
      BY <1>1, <1>3, <1>8, <2>1, <2>2, <2>3 DEF SessionInv, Kept, Settled
  <1>14. Silent(s)'
    <2> SUFFICES ASSUME Clean(s)', NEW m \in stopped', m \in Of(s)
                 PROVE  ran[m] = 0
      BY <1>8, NoneWaiting DEF Silent, Clean
    <2>1. Clean(s) /\ Unraced(s)
      BY <1>8 DEF Clean
    <2>2. CASE m \in stopped
      BY <1>1, <2>1, <2>2 DEF SessionInv, Silent
    <2>3. CASE m \in Waiting(pending[s])
      BY <1>1, <2>1, <2>3 DEF SessionInv, OnePlace, Queues
    <2> QED
      BY <2>2, <2>3
  <1>15. Sorted(s)'
    <2> SUFFICES ASSUME Steady(s)', stored[s] \notin Steers, NEW p \in Earlier(s)
                 PROVE  LET m == order[p[1]]  n == order[p[2]]
                        IN  \/ ran[m] > 0 \/ cause'[m] # {} \/ m \in old
                            \/ ran[n] = 0 /\ \A q \in Queues(s)' : Ahead(m, n, q)
      BY DEF Sorted, Settled, Earlier, Of
    <2> DEFINE m == order[p[1]]  n == order[p[2]]
    <2>1. Steady(s) /\ Queues(s)' = {<<>>}
      BY <1>8 DEF Steady, Clean
    <2>2. Settled(m) \/ ran[n] = 0
      BY <1>1, <2>1 DEF SessionInv, Sorted
    <2>3. m \in Messages
      BY DEF Earlier, Of
    <2> QED
      BY <1>3, <2>1, <2>2, <2>3, NoneWaiting DEF Settled
  <1>16. SessionInv(s)'
    BY <1>9, <1>10, <1>11, <1>12, <1>13, <1>14, <1>15 DEF SessionInv
  <1> QED
    BY <1>5, <1>6, <1>7, <1>16, OneSessionMoves

LEMMA ClearKeeps ==
  ASSUME Inv, NEW s \in Sessions, Clear(s)
  PROVE  Inv'
  <1>1. signal' \in [Sessions -> {"none", "queue", "user"}] /\ spent' \in 0 .. MaxSpent
    BY SpendCounts DEF Clear, Inv, TypeOK, queueVars
  <1> QED
    BY <1>1, ClearingKeeps DEF Clear, modeVars

LEMMA ResetKeeps ==
  ASSUME Inv, NEW s \in Sessions, Reset(s)
  PROVE  Inv'
  <1>1. signal' \in [Sessions -> {"none", "queue", "user"}] /\ spent' \in 0 .. MaxSpent
    BY SpendCounts DEF Reset, Inv, TypeOK
  <1> QED
    BY <1>1, ClearingKeeps DEF Reset

(* A stop that finds no run clears nothing: it leaves what waits for the   *)
(* limit, and a queue that the end of a run is about to take.              *)
LEMMA StopKeeps ==
  ASSUME Inv, NEW s \in Sessions, Stop(s)
  PROVE  Inv'
  <1>1. signal' \in [Sessions -> {"none", "queue", "user"}] /\ spent' \in 0 .. MaxSpent
    BY SpendCounts DEF Stop, Inv, TypeOK
  <1>2. CASE active[s] # <<>>
    BY <1>1, <1>2, ClearingKeeps DEF Stop, Stopped, modeVars
  <1>3. CASE active[s] = <<>>
    <2>1. SessionInv(s) /\ s \notin closed
      BY DEF Inv, Stop
    <2>2. /\ pending' = pending /\ cause' = cause
          /\ stopped' = stopped \cup Waiting(pending[s])
          /\ mishap' = IF IsDraining(s) THEN Befalls(s, "raced") ELSE mishap
          /\ UNCHANGED <<at, modeVars, active, count, ran, drains, closed, old, order>>
      BY <1>3 DEF Stop, Stopped
    <2>3. /\ mishap' \in [Sessions -> SUBSET {"limited", "raced", "db", "mode"}]
          /\ \A t \in Sessions \ {s} : mishap'[t] = mishap[t]
          /\ mishap[s] \subseteq mishap'[s]
          /\ \A x \in mishap'[s] : x # "raced" => x \in mishap[s]
          /\ drains[s] # <<>> => "raced" \in mishap'[s]
      BY <2>2, RacedOrNot DEF Inv
    <2>4. Waiting(pending[s]) \subseteq Given(s)
      BY <2>1, WaitingGiven DEF SessionInv, Queues
    <2>5. /\ Given(s)' = Given(s) /\ Of(s)' = Of(s) /\ Queues(s)' = Queues(s)
          /\ Unraced(s)' => drains[s] = <<>> /\ Unraced(s)
          /\ Clean(s)' => Clean(s) /\ drains[s] = <<>>
          /\ Steady(s)' => Steady(s)
      BY <2>2, <2>3 DEF Given, Of, Queues, Unraced, Clean, Steady
    <2>6. Clean(s)' => stopped' = stopped
      <3>1. Clean(s)' => pending[s] = <<>>
        BY <1>3, <2>1, <2>5 DEF SessionInv, Known, Kept, IsDraining
      <3> QED
        BY <2>2, <3>1, NoneWaiting
    <2>7. TypeOK'
      <3>1. stopped' \subseteq Messages
        BY <2>2, <2>4 DEF Inv, TypeOK, Given, Of
      <3> QED
        BY <1>1, <2>2, <2>3, <3>1 DEF Inv, TypeOK, modeVars
    <2>8. Counted'
      BY <2>2 DEF Inv, Counted, Running
    <2>9. \A t \in Sessions \ {s} : Elsewhere(t)
      BY <2>2, <2>3, <2>4 DEF Elsewhere, Given, Of, modeVars
    <2>10. Placed(s)'
      BY <2>1, <2>2, <2>4, <2>5 DEF SessionInv, Placed, modeVars
    <2>11. Known(s)' /\ OneMode(s)' /\ OnePlace(s)'
      BY <2>1, <2>2, <2>3, <2>5 DEF SessionInv, Known, OneMode, OnePlace, modeVars
    <2>12. Kept(s)' /\ Silent(s)'
      BY <2>1, <2>2, <2>3, <2>5, <2>6 DEF SessionInv, Kept, Silent, Settled, IsDraining
    <2>13. Sorted(s)'
      BY <2>1, <2>2, <2>5 DEF SessionInv, Sorted, Earlier, Settled, modeVars
    <2>14. SessionInv(s)'
      BY <2>10, <2>11, <2>12, <2>13 DEF SessionInv
    <2> QED
      BY <2>7, <2>8, <2>9, <2>14, OneSessionMoves
  <1> QED
    BY <1>2, <1>3

(* The end of a run.                                                       *)
LEMMA Removed ==
  ASSUME NEW S, NEW q \in Seq(S), NEW k \in DOMAIN q
  PROVE  /\ RemoveAt(q, k) \in Seq(S)
         /\ \A i \in DOMAIN RemoveAt(q, k) : \E j \in DOMAIN q : RemoveAt(q, k)[i] = q[j]
         /\ Len(q) = 1 => RemoveAt(q, k) = <<>>
  <1> DEFINE a == SubSeq(q, 1, k - 1)
             b == SubSeq(q, k + 1, Len(q))
  <1>1. RemoveAt(q, k) = a \o b
    BY DEF RemoveAt
  <1>2. Len(q) \in Nat /\ DOMAIN q = 1 .. Len(q) /\ k \in 1 .. Len(q)
    OBVIOUS
  <1>3. /\ a \in Seq(S) /\ Len(a) = k - 1 /\ DOMAIN a = 1 .. (k - 1)
        /\ \A i \in 1 .. (k - 1) : a[i] = q[i]
    BY <1>2
  <1>4. /\ b \in Seq(S) /\ Len(b) = Len(q) - k /\ DOMAIN b = 1 .. (Len(q) - k)
        /\ \A i \in 1 .. (Len(q) - k) : b[i] = q[i + k]
    BY <1>2
  <1> HIDE DEF a, b
  <1>5. /\ a \o b \in Seq(S) /\ Len(a \o b) = Len(q) - 1
        /\ DOMAIN (a \o b) = 1 .. (Len(q) - 1)
    <2>1. a \o b \in Seq(S) /\ Len(a \o b) = Len(a) + Len(b)
      <3>1. a \in Seq(S) /\ b \in Seq(S)
        BY <1>3, <1>4
      <3> QED
        BY <3>1
    <2>2. Len(a) + Len(b) = Len(q) - 1
      BY <1>2, <1>3, <1>4
    <2> QED
      BY <2>1, <2>2
  <1>6. ASSUME NEW i \in 1 .. (Len(q) - 1)
        PROVE  \E j \in DOMAIN q : (a \o b)[i] = q[j]
    <2>1. CASE i <= k - 1
      <3>1. (a \o b)[i] = a[i] /\ i \in 1 .. (k - 1) /\ i \in DOMAIN q
        BY <1>2, <1>3, <1>4, <2>1
      <3> QED
        BY <1>3, <3>1
    <2>2. CASE ~(i <= k - 1)
      <3>1. i - (k - 1) \in 1 .. (Len(q) - k) /\ i - (k - 1) + k \in DOMAIN q
        BY <1>2, <2>2
      <3>2. (a \o b)[i] = b[i - (k - 1)]
        <4>1. a \in Seq(S) /\ b \in Seq(S)
          BY <1>3, <1>4
        <4>2. Len(a) = k - 1 /\ Len(b) = Len(q) - k
          BY <1>3, <1>4
        <4>3. \A j \in 1 .. (Len(a) + Len(b)) : j > Len(a) => (a \o b)[j] = b[j - Len(a)]
          BY <4>1
        <4>4. i \in 1 .. (Len(a) + Len(b)) /\ i > Len(a)
          BY <1>2, <2>2, <4>2
        <4> QED
          BY <4>2, <4>3, <4>4
      <3> QED
        BY <1>4, <3>1, <3>2
    <2> QED
      BY <2>1, <2>2
  <1>7. Len(q) = 1 => a \o b = <<>>
    BY <1>5
  <1> QED
    BY <1>1, <1>5, <1>6, <1>7

LEMMA DrainFailsKeeps ==
  ASSUME Inv, NEW s \in Sessions, NEW k \in DOMAIN drains[s], DrainFails(s, k)
  PROVE  Inv'
  <1>1. /\ drains[s][k].look.miss
        /\ drains' = [drains EXCEPT ![s] = RemoveAt(@, k)]
        /\ mishap' = Befalls(s, "db")
        /\ UNCHANGED <<at, modeVars, queueVars, closed, old, order, cause, stopped>>
    BY DEF DrainFails
  <1>2. SessionInv(s)
    BY DEF Inv
  <1>3. s \in closed
    BY <1>1, <1>2 DEF SessionInv, Known
  <1>4. "mode" \in mishap[s] \/ "raced" \in mishap[s]
    BY <1>1, <1>2 DEF SessionInv, OneMode, Unraced
  <1>5. /\ drains'[s] = RemoveAt(drains[s], k)
        /\ \A t \in Sessions \ {s} : drains'[t] = drains[t]
        /\ drains' \in [Sessions -> Seq([queue : Seq(Seq(Messages)), look : Look])]
        /\ \A i \in DOMAIN drains'[s] : \E j \in DOMAIN drains[s] :
              drains'[s][i] = drains[s][j]
        /\ Len(drains[s]) = 1 => drains'[s] = <<>>
    <2>1. drains[s] \in Seq([queue : Seq(Seq(Messages)), look : Look])
      BY DEF Inv, TypeOK
    <2>2. /\ RemoveAt(drains[s], k) \in Seq([queue : Seq(Seq(Messages)), look : Look])
          /\ \A i \in DOMAIN RemoveAt(drains[s], k) : \E j \in DOMAIN drains[s] :
                RemoveAt(drains[s], k)[i] = drains[s][j]
          /\ Len(drains[s]) = 1 => RemoveAt(drains[s], k) = <<>>
      BY <2>1, Removed
    <2>3. /\ drains'[s] = RemoveAt(drains[s], k)
          /\ \A t \in Sessions \ {s} : drains'[t] = drains[t]
      BY <1>1 DEF Inv, TypeOK
    <2>4. drains' \in [Sessions -> Seq([queue : Seq(Seq(Messages)), look : Look])]
      BY <1>1, <2>2 DEF Inv, TypeOK
    <2> QED
      BY <2>2, <2>3, <2>4
  <1>6. /\ mishap'[s] = mishap[s] \cup {"db"}
        /\ \A t \in Sessions \ {s} : mishap'[t] = mishap[t]
        /\ mishap' \in [Sessions -> SUBSET {"limited", "raced", "db", "mode"}]
    BY <1>1 DEF Inv, TypeOK, Befalls
  <1>7. TypeOK'
    <2>1. spent' \in 0 .. MaxSpent
      BY SpendCounts DEF Inv, DrainFails
    <2> QED
      BY <1>1, <1>5, <1>6, <2>1 DEF Inv, TypeOK, modeVars, queueVars
  <1>8. Counted'
    BY <1>1 DEF Inv, Counted, Running, queueVars
  <1>9. \A t \in Sessions \ {s} : Elsewhere(t)
    BY <1>1, <1>5, <1>6 DEF Elsewhere, modeVars, queueVars
  <1>10. /\ Given(s)' = Given(s) /\ Of(s)' = Of(s) /\ Queues(s)' \subseteq Queues(s)
         /\ Unraced(s)' = Unraced(s) /\ Clean(s)' = Clean(s)
    <2>1. Queues(s)' \subseteq Queues(s)
      BY <1>1, <1>5 DEF Queues, queueVars
    <2> QED
      BY <1>1, <1>6, <2>1 DEF Given, Of, Unraced, Clean
  <1>11. Placed(s)' /\ Known(s)'
    BY <1>1, <1>2, <1>3, <1>10 DEF SessionInv, Placed, Known, modeVars, queueVars
  <1>12. OneMode(s)'
    BY <1>1, <1>2, <1>4, <1>5, <1>6, <1>10 DEF SessionInv, OneMode, Unraced, modeVars
  <1>13. OnePlace(s)'
    BY <1>1, <1>2, <1>5, <1>10 DEF SessionInv, OnePlace, queueVars
  <1>14. Kept(s)'
    <2>1. Clean(s) => drains'[s] = <<>>
      <3>1. Clean(s) => Len(drains[s]) = 1
        BY <1>2 DEF SessionInv, OnePlace, Clean
      <3> QED
        BY <1>5, <3>1
    <2> QED
      BY <1>1, <1>2, <1>6, <1>10, <2>1 DEF SessionInv, Kept, queueVars
  <1>15. Silent(s)'
    BY <1>1, <1>2, <1>10 DEF SessionInv, Silent, queueVars
  <1>16. Sorted(s)'
    BY <1>4, <1>6 DEF Sorted, Steady, Clean, Unraced
  <1>17. SessionInv(s)'
    BY <1>11, <1>12, <1>13, <1>14, <1>15, <1>16 DEF SessionInv
  <1> QED
    BY <1>7, <1>8, <1>9, <1>17, OneSessionMoves

(* The two halves of a run's end.  What is read of the queue is all of it  *)
(* that is not too old.                                                    *)
LEMMA NormalKeeps ==
  ASSUME NEW q \in Queue, Len(q) <= MaxPending, \A k \in DOMAIN q : Whole(q[k])
  PROVE  /\ \A k \in DOMAIN Normal(q) : Whole(Normal(q)[k])
         /\ Waiting(q) \ Waiting(Normal(q)) \subseteq old
         /\ \A m, n : Ahead(m, n, q) => m \in old \/ Ahead(m, n, Normal(q))
  <1>1. Thinned(Normal(q), q, Stale)
    BY NormalThins
  <1>2. /\ \A k \in DOMAIN Normal(q) : \E i \in DOMAIN q : Normal(q)[k] = q[i]
        /\ \A k \in DOMAIN q : q[k] \in Stale \/ \E i \in DOMAIN Normal(q) : Normal(q)[i] = q[k]
    BY <1>1, ThinnedKeeps
  <1>3. ASSUME NEW k \in DOMAIN q, q[k] \in Stale, NEW m \in In(q[k]) PROVE m \in old
    BY <1>3 DEF Stale, Whole
  <1>4. Waiting(q) \ Waiting(Normal(q)) \subseteq old
    <2> SUFFICES ASSUME NEW k \in DOMAIN q, NEW m \in In(q[k]), m \notin Waiting(Normal(q))
                 PROVE  m \in old
      BY DEF Waiting
    <2>1. CASE q[k] \in Stale
      BY <1>3, <2>1
    <2>2. CASE \E i \in DOMAIN Normal(q) : Normal(q)[i] = q[k]
      BY <2>2 DEF Waiting
    <2> QED
      BY <1>2, <2>1, <2>2
  <1>5. ASSUME NEW m, NEW n, Ahead(m, n, q), m \notin old PROVE Ahead(m, n, Normal(q))
    BY <1>1, <1>3, <1>5, ThinnedOrder
  <1> QED
    BY <1>2, <1>4, <1>5

LEMMA RunEndsKeeps ==
  ASSUME Inv, NEW s \in Sessions, RunEnds(s)
  PROVE  Inv'
  <1> DEFINE q == pending[s]
             r == Normal(pending[s])
  <1>1. /\ active[s] # <<>> /\ count' = count - 1
        /\ active' = [active EXCEPT ![s] = <<>>]
        /\ signal' = [signal EXCEPT ![s] = "none"]
        /\ drains' = IF pending[s] = <<>> THEN drains
                     ELSE [drains EXCEPT ![s] = Append(@, [queue |-> r, look |-> Found(s)])]
        /\ mishap' = IF IsDraining(s) THEN Befalls(s, "raced") ELSE mishap
        /\ UNCHANGED <<at, modeVars, pending, ran, closed, old, order, cause, stopped, spent>>
    BY DEF RunEnds
  <1>2. SessionInv(s) /\ q \in Queue /\ Len(q) <= MaxPending
    BY DEF Inv, SessionInv, Placed, Queues, TypeOK, Queue, Entry
  <1>3. /\ r \in Queue /\ Len(r) <= MaxPending /\ Thinned(r, q, Stale)
        /\ \A k \in DOMAIN r : \E i \in DOMAIN q : r[k] = q[i]
        /\ Waiting(r) \subseteq Waiting(q) /\ (Apart(q) => Apart(r))
    BY <1>2, NormalThins, ThinnedKeeps
  <1>4. Found(s) \in Look /\ (Found(s).miss <=> modes[s] = None)
        /\ (modes[s] \in {None, stored[s]} => Found(s).mode = stored[s])
    BY FoundIsALook, FoundIs DEF Inv
  <1> HIDE DEF r
  <1> DEFINE d == [queue |-> r, look |-> Found(s)]
  <1>5. d.queue = r /\ d.look = Found(s) /\ d \in [queue : Seq(Seq(Messages)), look : Look]
    BY <1>3, <1>4 DEF Queue, Entry
  <1> HIDE DEF d
  <1>6. /\ drains' \in [Sessions -> Seq([queue : Seq(Seq(Messages)), look : Look])]
        /\ \A t \in Sessions \ {s} : drains'[t] = drains[t]
        /\ q = <<>> => drains'[s] = drains[s]
        /\ q # <<>> => drains'[s] = Append(drains[s], d)
    <2> DEFINE R == [queue : Seq(Seq(Messages)), look : Look]
    <2>1. drains \in [Sessions -> Seq(R)] /\ d \in R
      BY <1>5 DEF Inv, TypeOK
    <2>2. drains' = IF q = <<>> THEN drains
                    ELSE [drains EXCEPT ![s] = Append(drains[s], d)]
      BY <1>1 DEF d
    <2> HIDE DEF R
    <2>3. Append(drains[s], d) \in Seq(R)
      BY <2>1
    <2> QED
      BY <2>1, <2>2, <2>3 DEF R
  <1>7. \A k \in DOMAIN drains'[s] :
           \/ k \in DOMAIN drains[s] /\ drains'[s][k] = drains[s][k]
           \/ q # <<>> /\ drains'[s][k] = d
    <2>1. drains[s] \in Seq([queue : Seq(Seq(Messages)), look : Look])
      BY DEF Inv, TypeOK
    <2> DEFINE a == Append(drains[s], d)
    <2>2. \A k \in DOMAIN a : \/ k \in DOMAIN drains[s] /\ a[k] = drains[s][k]
                              \/ a[k] = d
      BY <1>5, <2>1
    <2> QED
      BY <1>6, <2>2
  <1>8. /\ drains[s] = <<>> => \/ q = <<>> /\ drains'[s] = <<>>
                               \/ q # <<>> /\ drains'[s] # <<>> /\ Len(drains'[s]) = 1
    <2>1. <<>> # <<d>> /\ Len(<<d>>) = 1 /\ Append(<<>>, d) = <<d>>
      OBVIOUS
    <2> QED
      BY <1>6, <2>1
  <1>9. /\ mishap' \in [Sessions -> SUBSET {"limited", "raced", "db", "mode"}]
        /\ \A t \in Sessions \ {s} : mishap'[t] = mishap[t]
        /\ mishap[s] \subseteq mishap'[s]
        /\ \A x \in mishap'[s] : x # "raced" => x \in mishap[s]
        /\ drains[s] # <<>> => "raced" \in mishap'[s]
    BY <1>1, RacedOrNot DEF Inv
  <1>10. active'[s] = <<>> /\ \A t \in Sessions \ {s} : active'[t] = active[t]
    BY <1>1 DEF Inv, TypeOK
  <1>11. Counted' /\ count' \in 0 .. MaxRuns
    <2>1. Running' = Running \ {s} /\ s \in Running
      BY <1>1, <1>10 DEF Running
    <2>2. IsFiniteSet(Running) /\ count = Cardinality(Running)
      BY DEF Inv, Counted
    <2>3. IsFiniteSet(Running') /\ Cardinality(Running') = count - 1
      BY <2>1, <2>2, FS_RemoveElement
    <2>4. Cardinality(Running') \in Nat
      BY <2>3, FS_CardinalityType
    <2> QED
      BY <1>1, <2>3, <2>4, SlackAssumption DEF Counted, Inv, TypeOK
  <1>12. TypeOK'
    <2>1. /\ active' \in [Sessions -> Seq(Messages)]
          /\ signal' \in [Sessions -> {"none", "queue", "user"}]
      BY <1>1 DEF Inv, TypeOK
    <2> QED
      BY <1>1, <1>6, <1>9, <1>11, <2>1 DEF Inv, TypeOK, modeVars
  <1>13. \A t \in Sessions \ {s} : Elsewhere(t)
    BY <1>1, <1>6, <1>9, <1>10 DEF Elsewhere, modeVars
  <1>14. /\ Given(s)' = Given(s) /\ Of(s)' = Of(s)
         /\ \A x \in Queues(s)' : x \in Queues(s) \/ x = r
         /\ Unraced(s)' => drains[s] = <<>> /\ Unraced(s)
         /\ Clean(s)' => Clean(s) /\ drains[s] = <<>>
         /\ Steady(s)' => Steady(s) /\ Clean(s)'
    <2>1. \A x \in Queues(s)' : x \in Queues(s) \/ x = r
      BY <1>1, <1>5, <1>7 DEF Queues
    <2> QED
      BY <1>1, <1>9, <2>1 DEF Given, Of, Unraced, Clean, Steady
  <1>15. q \in Queues(s)
    BY DEF Queues
  <1> HIDE DEF q
  <1>16. Placed(s)'
    <2>1. \A k \in DOMAIN r : r[k] # <<>> /\ In(r[k]) \subseteq Given(s)
      BY <1>2, <1>3, <1>15 DEF SessionInv, Placed
    <2> QED
      BY <1>1, <1>2, <1>3, <1>14, <2>1 DEF SessionInv, Placed, modeVars
  <1>17. Known(s)'
    <2>1. s \notin closed => ~Found(s).miss
      BY <1>1, <1>2, <1>4 DEF SessionInv, Known
    <2>2. s \notin closed => modes[s] # None
      BY <1>4, <2>1
    <2> QED
      BY <1>1, <1>2, <1>5, <1>7, <1>9, <2>1, <2>2 DEF SessionInv, Known, modeVars
  <1>18. OneMode(s)'
    <2>1. ASSUME "mode" \notin mishap'[s]
          PROVE  /\ storing[s] = None /\ modes[s] \in {None, stored[s]}
                 /\ \A m \in Of(s) : at[m] = "looking" => look[m].mode = stored[s]
                 /\ \A k \in DOMAIN drains'[s] : drains'[s][k].look.mode = stored[s]
      BY <1>2, <1>4, <1>5, <1>7, <1>9, <2>1 DEF SessionInv, OneMode
    <2>2. ASSUME "mode" \notin mishap'[s], Unraced(s)'
          PROVE  /\ q # <<>> \/ drains'[s] # <<>> => modes[s] # None
                 /\ \A k \in DOMAIN drains'[s] : ~drains'[s][k].look.miss
                 /\ "db" \notin mishap'[s]
      <3>1. drains[s] = <<>> /\ Unraced(s) /\ "mode" \notin mishap[s]
        BY <1>9, <1>14, <2>2
      <3>2. "db" \notin mishap'[s] /\ (q # <<>> => modes[s] # None)
        BY <1>2, <1>9, <3>1 DEF SessionInv, OneMode, q
      <3>3. q # <<>> => ~Found(s).miss
        BY <1>4, <3>2
      <3> QED
        BY <1>5, <1>7, <1>8, <3>1, <3>2, <3>3
    <2> QED
      BY <1>1, <1>14, <2>1, <2>2 DEF OneMode, modeVars, q
  <1>19. OnePlace(s)'
    <2>1. Unraced(s)' => (drains'[s] # <<>> => Len(drains'[s]) = 1 /\ active'[s] = <<>>)
      BY <1>8, <1>10, <1>14
    <2>2. \A x \in Queues(s)' : Unraced(s)' => Apart(x) /\ \A m \in Waiting(x) : ran[m] = 0
      BY <1>2, <1>3, <1>14, <1>15 DEF SessionInv, OnePlace
    <2> QED
      BY <1>1, <1>2, <1>14, <2>1, <2>2 DEF SessionInv, OnePlace
  <1>20. Clean(s) => /\ \A k \in DOMAIN q : Whole(q[k])
                     /\ \A k \in DOMAIN r : Whole(r[k])
                     /\ Waiting(q) \ Waiting(r) \subseteq old
                     /\ \A m, n : Ahead(m, n, q) => m \in old \/ Ahead(m, n, r)
    <2>1. Clean(s) => \A k \in DOMAIN q : Whole(q[k])
      BY <1>2, <1>15 DEF SessionInv, Kept
    <2> QED
      BY <1>2, <2>1, NormalKeeps DEF r, q
  <1>21. Kept(s)'
    <2> SUFFICES ASSUME Clean(s)'
                 PROVE  /\ \A x \in Queues(s)' : \A k \in DOMAIN x : Whole(x[k])
                        /\ \A k \in DOMAIN drains'[s] :
                              Waiting(q) \ Waiting(drains'[s][k].queue) \subseteq old
                        /\ "db" \notin mishap'[s] =>
                              /\ q # <<>> => drains'[s] # <<>>
                              /\ \A m \in Given(s) : Settled(m) \/ m \in Waiting(q)
      BY <1>1, <1>14 DEF Kept, IsDraining, q, Settled
    <2>1. Clean(s) /\ drains[s] = <<>>
      BY <1>14
    <2>2. \A x \in Queues(s)' : \A k \in DOMAIN x : Whole(x[k])
      BY <1>2, <1>14, <1>20, <2>1 DEF SessionInv, Kept
    <2>3. \A k \in DOMAIN drains'[s] : Waiting(q) \ Waiting(drains'[s][k].queue) \subseteq old
      BY <1>5, <1>7, <1>20, <2>1
    <2>4. q # <<>> => drains'[s] # <<>>
      BY <1>8, <2>1
    <2>5. "db" \notin mishap'[s] => \A m \in Given(s) : Settled(m) \/ m \in Waiting(q)
      BY <1>2, <1>9, <2>1 DEF SessionInv, Kept, q
    <2> QED
      BY <2>2, <2>3, <2>4, <2>5
  <1>22. Silent(s)'
    <2>1. \A m : m \in Waiting(r) => m \in Waiting(q)
      BY <1>3
    <2> QED
      BY <1>1, <1>2, <1>14, <1>15, <2>1 DEF SessionInv, Silent
  <1>23. Sorted(s)'
    <2> SUFFICES ASSUME Steady(s)', stored[s] \notin Steers, NEW p \in Earlier(s)
                 PROVE  LET m == order[p[1]]  n == order[p[2]]
                        IN  \/ Settled(m)
                            \/ ran[n] = 0 /\ \A x \in Queues(s)' : Ahead(m, n, x)
      BY <1>1 DEF Sorted, Earlier, Of, Settled, modeVars
    <2> DEFINE m == order[p[1]]  n == order[p[2]]
    <2>1. Steady(s) /\ Clean(s)
      BY <1>14
    <2>2. Settled(m) \/ (ran[n] = 0 /\ \A x \in Queues(s) : Ahead(m, n, x))
      BY <1>2, <2>1 DEF SessionInv, Sorted
    <2>3. Settled(m) \/ Ahead(m, n, r)
      BY <1>15, <1>20, <2>1, <2>2 DEF Settled
    <2> QED
      BY <1>14, <2>2, <2>3
  <1>24. SessionInv(s)'
    BY <1>16, <1>17, <1>18, <1>19, <1>21, <1>22, <1>23 DEF SessionInv
  <1> QED
    BY <1>11, <1>12, <1>13, <1>24, OneSessionMoves

----------------------------------------------------------------------------
(* withSessionQueue.                                                       *)
Joins(b, q, e, mode) ==
    \/ mode \in Replaces /\ b = <<e>>
    \/ mode \notin Replaces /\ b = Append(q, e)
    \/ mode = "steer-backlog" /\ b = <<e>> \o q

LEMMA JoinedQueue ==
  ASSUME NEW q \in Queue, NEW e \in Entry, NEW mode, NEW b, Joins(b, q, e, mode)
  PROVE  /\ b \in Queue
         /\ \A k \in DOMAIN b : b[k] = e \/ \E j \in DOMAIN q : b[k] = q[j]
         /\ \E k \in DOMAIN b : b[k] = e
         /\ mode \notin Replaces => \A j \in DOMAIN q : \E k \in DOMAIN b : b[k] = q[j]
         /\ Apart(q) /\ In(e) \cap Waiting(q) = {} => Apart(b)
         /\ \A m, n : /\ mode \notin Steers /\ Ahead(m, n, q)
                      /\ n \in In(e) => m \in Waiting(q)
                      => Ahead(m, n, b)
  <1> DEFINE l == Len(q)
  <1>1. l \in Nat /\ DOMAIN q = 1 .. l /\ \A k \in 1 .. l : q[k] \in Entry
    BY DEF Queue
  <1>2. \A k \in DOMAIN q : In(q[k]) \subseteq Waiting(q)
    BY DEF Waiting
  <1>3. CASE mode \in Replaces /\ b = <<e>>
    <2>1. DOMAIN b = {1} /\ b[1] = e /\ b \in Queue
      BY <1>3 DEF Queue
    <2> QED
      BY <1>3, <2>1 DEF Steers, Apart
  <1>4. CASE mode \notin Replaces /\ b = Append(q, e)
    <2>1. /\ b \in Queue /\ DOMAIN b = 1 .. (l + 1) /\ b[l + 1] = e
          /\ \A k \in 1 .. l : b[k] = q[k]
      BY <1>1, <1>4 DEF Queue
    <2>2. 1 .. (l + 1) = (1 .. l) \cup {l + 1} /\ \A k \in 1 .. l : k < l + 1
      BY <1>1
    <2> HIDE DEF l
    <2>3. Apart(q) /\ In(e) \cap Waiting(q) = {} => Apart(b)
      <3> SUFFICES ASSUME Apart(q), In(e) \cap Waiting(q) = {},
                          NEW i \in 1 .. (l + 1), NEW j \in 1 .. (l + 1), i # j
                   PROVE  In(b[i]) \cap In(b[j]) = {}
        BY <2>1 DEF Apart
      <3>1. CASE i \in 1 .. l /\ j \in 1 .. l
        BY <1>1, <2>1, <3>1 DEF Apart
      <3>2. CASE i = l + 1 \/ j = l + 1
        BY <1>1, <1>2, <2>1, <2>2, <3>2
      <3> QED
        BY <2>2, <3>1, <3>2
    <2>4. ASSUME NEW m, NEW n, Ahead(m, n, q), n \in In(e) => m \in Waiting(q)
          PROVE  Ahead(m, n, b)
      <3> SUFFICES ASSUME NEW k \in 1 .. (l + 1), n \in In(b[k])
                   PROVE  \E i \in 1 .. (l + 1) : i < k /\ m \in In(b[i])
        BY <2>1 DEF Ahead
      <3>1. CASE k \in 1 .. l
        <4>1. PICK i \in DOMAIN q : i < k /\ m \in In(q[i])
          BY <1>1, <2>1, <2>4, <3>1 DEF Ahead
        <4> QED
          BY <1>1, <2>1, <2>2, <4>1
      <3>2. CASE k = l + 1
        <4>1. PICK i \in DOMAIN q : m \in In(q[i])
          BY <2>1, <2>4, <3>2 DEF Waiting
        <4> QED
          BY <1>1, <2>1, <2>2, <3>2, <4>1
      <3> QED
        BY <2>2, <3>1, <3>2
    <2> QED
      BY <1>1, <2>1, <2>2, <2>3, <2>4
  <1>5. CASE mode = "steer-backlog" /\ b = <<e>> \o q
    <2>1. /\ b \in Queue /\ DOMAIN b = 1 .. (l + 1) /\ b[1] = e
          /\ \A k \in 1 .. l : b[k + 1] = q[k]
      <3>1. <<e>> \in Queue /\ Len(<<e>>) = 1 /\ <<e>>[1] = e
        BY DEF Queue
      <3>2. b \in Queue /\ Len(b) = l + 1 /\ b[1] = e /\ \A k \in 1 .. l : b[k + 1] = q[k]
        BY <1>1, <1>5, <3>1 DEF Queue
      <3> QED
        BY <3>2 DEF Queue
    <2>2. /\ \A k \in 1 .. (l + 1) : k = 1 \/ (k - 1 \in 1 .. l /\ (k - 1) + 1 = k)
          /\ \A k \in 1 .. l : k + 1 \in 1 .. (l + 1)
          /\ 1 \in 1 .. (l + 1)
      BY <1>1
    <2>3. \A k \in 1 .. (l + 1) : k = 1 \/ b[k] = q[k - 1]
      BY <2>1, <2>2
    <2> HIDE DEF l
    <2>4. Apart(q) /\ In(e) \cap Waiting(q) = {} => Apart(b)
      <3> SUFFICES ASSUME Apart(q), In(e) \cap Waiting(q) = {},
                          NEW i \in 1 .. (l + 1), NEW j \in 1 .. (l + 1), i # j
                   PROVE  In(b[i]) \cap In(b[j]) = {}
        BY <2>1 DEF Apart
      <3>1. CASE i # 1 /\ j # 1
        <4>1. i - 1 # j - 1 /\ i - 1 \in DOMAIN q /\ j - 1 \in DOMAIN q
          BY <1>1, <2>2, <3>1
        <4> QED
          BY <2>3, <3>1, <4>1 DEF Apart
      <3>2. CASE i = 1 \/ j = 1
        BY <1>1, <1>2, <2>1, <2>2, <2>3, <3>2
      <3> QED
        BY <3>1, <3>2
    <2>5. \A j \in DOMAIN q : \E k \in DOMAIN b : b[k] = q[j]
      BY <1>1, <2>1, <2>2
    <2>6. \A k \in DOMAIN b : b[k] = e \/ \E j \in DOMAIN q : b[k] = q[j]
      BY <1>1, <2>1, <2>2, <2>3
    <2>7. \E k \in DOMAIN b : b[k] = e
      BY <2>1, <2>2
    <2>8. mode \in Steers
      BY <1>5 DEF Steers
    <2> QED
      BY <2>1, <2>4, <2>5, <2>6, <2>7, <2>8
  <1> QED
    BY <1>3, <1>4, <1>5 DEF Joins

LEMMA DisplacedIs ==
  ASSUME TypeOK, NEW s \in Sessions, NEW q \in Queue, NEW b \in Queue, NEW mode,
         Waiting(q) \subseteq Of(s), Waiting(b) \subseteq Of(s),
         cause' = Displaced(q, b, mode)
  PROVE  /\ cause' \in [Messages -> SUBSET {"replaced", "cleared", "full"}]
         /\ \A m \in Messages : cause[m] # {} => cause'[m] # {}
         /\ \A m \in Messages \ Of(s) : cause'[m] = cause[m]
         /\ mode \in Replaces => \A m \in Waiting(q) : cause'[m] # {}
         /\ \A k \in DOMAIN b : b[k] \in Cut(b) => \A m \in In(b[k]) : cause'[m] # {}
  <1> DEFINE d == Len(b) - MaxPending
             cut == IF Len(b) > MaxPending THEN Waiting(SubSeq(b, 1, d)) ELSE {}
  <1>1. Len(b) \in Nat /\ MaxPending \in Nat /\ DOMAIN b = 1 .. Len(b)
    BY SlackAssumption DEF Queue
  <1>2. /\ \A x \in Cut(b) : In(x) \subseteq cut
        /\ cut \subseteq Waiting(b)
    <2>1. CASE Len(b) > MaxPending
      <3>1. /\ DOMAIN SubSeq(b, 1, d) = 1 .. d /\ d \in 1 .. Len(b)
            /\ \A k \in 1 .. d : SubSeq(b, 1, d)[k] = b[k]
        BY <1>1, <2>1 DEF Queue
      <3> HIDE DEF d
      <3>2. cut = UNION {In(b[k]) : k \in 1 .. d}
        BY <2>1, <3>1 DEF Waiting
      <3>3. \A k \in 1 .. d : k \in DOMAIN b
        BY <1>1, <3>1
      <3>4. Cut(b) = {b[k] : k \in 1 .. d}
        BY DEF Cut, d
      <3> HIDE DEF cut
      <3> QED
        BY <3>2, <3>3, <3>4 DEF Waiting
    <2>2. CASE ~(Len(b) > MaxPending)
      <3>1. 1 .. (Len(b) - MaxPending) = {}
        BY <1>1, <2>2
      <3> QED
        BY <2>2, <3>1 DEF Cut
    <2> QED
      BY <2>1, <2>2
  <1>3. cause' = [m \in Messages |->
            cause[m] \cup (IF mode \in Replaces /\ m \in Waiting(q) THEN {"replaced"} ELSE {})
                     \cup (IF m \in cut THEN {"full"} ELSE {})]
    BY DEF Displaced
  <1> HIDE DEF cut
  <1>4. Of(s) \subseteq Messages /\ cause \in [Messages -> SUBSET {"replaced", "cleared", "full"}]
    BY DEF Of, TypeOK
  <1>5. cause' \in [Messages -> SUBSET {"replaced", "cleared", "full"}]
    BY <1>3, <1>4
  <1>6. \A m \in Messages : cause[m] \subseteq cause'[m] /\ (m \in cut => "full" \in cause'[m])
    BY <1>3
  <1>7. \A m \in Messages : mode \in Replaces /\ m \in Waiting(q) => "replaced" \in cause'[m]
    BY <1>3
  <1>8. \A m \in Messages \ Of(s) : cause'[m] = cause[m]
    BY <1>2, <1>3
  <1>9. ASSUME NEW k \in DOMAIN b, b[k] \in Cut(b), NEW m \in In(b[k])
        PROVE  cause'[m] # {}
    <2>1. m \in cut /\ m \in Messages
      BY <1>2, <1>4, <1>9
    <2> QED
      BY <1>6, <2>1
  <1> QED
    BY <1>4, <1>5, <1>6, <1>7, <1>8, <1>9

LEMMA EntryWaits ==
  ASSUME TypeOK, NEW s \in Sessions, NEW q \in Queue, NEW e \in Entry, NEW mode, NEW b,
         Joins(b, q, e, mode), Waiting(q) \subseteq Of(s), In(e) \subseteq Of(s),
         cause' = Displaced(q, b, mode), NEW r, r = Normal(Capped(b))
  PROVE  /\ r \in Queue /\ Len(r) <= MaxPending
         /\ \A k \in DOMAIN r : r[k] = e \/ \E j \in DOMAIN q : r[k] = q[j]
         /\ Apart(q) /\ In(e) \cap Waiting(q) = {} => Apart(r)
         /\ cause' \in [Messages -> SUBSET {"replaced", "cleared", "full"}]
         /\ \A m \in Messages : cause[m] # {} => cause'[m] # {}
         /\ \A m \in Messages \ Of(s) : cause'[m] = cause[m]
         /\ Whole(e) /\ (\A k \in DOMAIN q : Whole(q[k])) =>
              /\ \A m \in Waiting(q) \cup In(e) :
                    cause'[m] # {} \/ m \in old \/ m \in Waiting(r)
              /\ \A m, n : /\ mode \notin Steers /\ Ahead(m, n, q)
                           /\ n \in In(e) => m \in Waiting(q)
                           => cause'[m] # {} \/ m \in old \/ Ahead(m, n, r)
  <1>1. /\ b \in Queue
        /\ \A k \in DOMAIN b : b[k] = e \/ \E j \in DOMAIN q : b[k] = q[j]
        /\ \E k \in DOMAIN b : b[k] = e
        /\ mode \notin Replaces => \A j \in DOMAIN q : \E k \in DOMAIN b : b[k] = q[j]
        /\ Apart(q) /\ In(e) \cap Waiting(q) = {} => Apart(b)
        /\ \A m, n : /\ mode \notin Steers /\ Ahead(m, n, q)
                     /\ n \in In(e) => m \in Waiting(q)
                     => Ahead(m, n, b)
    BY JoinedQueue
  <1>2. Len(r) <= MaxPending /\ Thinned(r, b, Stale \cup Cut(b))
    BY <1>1, WaitingThins
  <1>3. /\ r \in Queue
        /\ \A k \in DOMAIN r : \E i \in DOMAIN b : r[k] = b[i]
        /\ Apart(b) => Apart(r)
        /\ \A k \in DOMAIN b : b[k] \in Stale \cup Cut(b) \/ \E i \in DOMAIN r : r[i] = b[k]
    BY <1>1, <1>2, ThinnedKeeps
  <1>4. Waiting(b) \subseteq Of(s)
    BY <1>1 DEF Waiting
  <1>5. /\ cause' \in [Messages -> SUBSET {"replaced", "cleared", "full"}]
        /\ \A m \in Messages : cause[m] # {} => cause'[m] # {}
        /\ \A m \in Messages \ Of(s) : cause'[m] = cause[m]
        /\ mode \in Replaces => \A m \in Waiting(q) : cause'[m] # {}
        /\ \A k \in DOMAIN b : b[k] \in Cut(b) => \A m \in In(b[k]) : cause'[m] # {}
    BY <1>1, <1>4, DisplacedIs
  <1>6. ASSUME Whole(e), \A k \in DOMAIN q : Whole(q[k])
        PROVE  /\ \A m \in Waiting(q) \cup In(e) :
                     cause'[m] # {} \/ m \in old \/ m \in Waiting(r)
               /\ \A m, n : /\ mode \notin Steers /\ Ahead(m, n, q)
                            /\ n \in In(e) => m \in Waiting(q)
                            => cause'[m] # {} \/ m \in old \/ Ahead(m, n, r)
    <2>1. \A k \in DOMAIN b : Whole(b[k])
      BY <1>1, <1>6
    <2>2. ASSUME NEW k \in DOMAIN b, b[k] \in Stale \cup Cut(b), NEW m \in In(b[k])
          PROVE  cause'[m] # {} \/ m \in old
      <3>1. CASE b[k] \in Stale
        BY <2>1, <2>2, <3>1 DEF Stale, Whole
      <3>2. CASE b[k] \in Cut(b)
        BY <1>5, <2>2, <3>2
      <3> QED
        BY <2>2, <3>1, <3>2
    <2>3. ASSUME NEW k \in DOMAIN b, NEW m \in In(b[k])
          PROVE  cause'[m] # {} \/ m \in old \/ m \in Waiting(r)
      <3>1. CASE b[k] \in Stale \cup Cut(b)
        BY <2>2, <3>1
      <3>2. CASE \E i \in DOMAIN r : r[i] = b[k]
        BY <3>2 DEF Waiting
      <3> QED
        BY <1>3, <3>1, <3>2
    <2>4. ASSUME NEW m \in Waiting(q) \cup In(e)
          PROVE  cause'[m] # {} \/ m \in old \/ m \in Waiting(r)
      <3>1. CASE m \in In(e)
        BY <1>1, <2>3, <3>1
      <3>2. CASE m \in Waiting(q) /\ mode \in Replaces
        BY <1>5, <3>2
      <3>3. CASE m \in Waiting(q) /\ mode \notin Replaces
        <4>1. PICK j \in DOMAIN q : m \in In(q[j])
          BY <3>3 DEF Waiting
        <4>2. PICK k \in DOMAIN b : b[k] = q[j]
          BY <1>1, <3>3
        <4> QED
          BY <2>3, <4>1, <4>2
      <3> QED
        BY <3>1, <3>2, <3>3
    <2>5. ASSUME NEW m, NEW n, mode \notin Steers, Ahead(m, n, q),
                 n \in In(e) => m \in Waiting(q), ~(cause'[m] # {} \/ m \in old)
          PROVE  Ahead(m, n, r)
      <3>1. Ahead(m, n, b)
        BY <1>1, <2>5
      <3>2. \A k \in DOMAIN b : b[k] \in Stale \cup Cut(b) => m \notin In(b[k])
        BY <2>2, <2>5
      <3> QED
        BY <1>1, <1>2, <3>1, <3>2, ThinnedOrder
    <2> QED
      BY <2>4, <2>5
  <1> QED
    BY <1>1, <1>2, <1>3, <1>5, <1>6

(* An entry begins, or it waits behind the run or for the limit.           *)
Begins(s, e, q) ==
    /\ active[s] = <<>> /\ MayBegin
    /\ active'[s] = e /\ pending'[s] = q /\ cause' = cause
    /\ \A m \in Messages : ran'[m] = IF m \in In(e) THEN ran[m] + 1 ELSE ran[m]

Waits(s, e, mode, q) ==
    /\ active[s] # <<>> \/ IsLimited(s)
    /\ active'[s] = active[s] /\ ran' = ran
    /\ \E b : /\ Joins(b, q, e, mode)
              /\ pending'[s] = Normal(Capped(b)) /\ cause' = Displaced(q, b, mode)

Moves(s) ==
    /\ Counted' /\ count' \in 0 .. MaxRuns
    /\ pending' \in [Sessions -> Seq(Seq(Messages))]
    /\ active' \in [Sessions -> Seq(Messages)]
    /\ signal' \in [Sessions -> {"none", "queue", "user"}]
    /\ ran' \in [Messages -> Nat]
    /\ cause' \in [Messages -> SUBSET {"replaced", "cleared", "full"}]
    /\ \A t \in Sessions \ {s} : pending'[t] = pending[t] /\ active'[t] = active[t]
    /\ \A m \in Messages \ Of(s) : ran'[m] = ran[m] /\ cause'[m] = cause[m]
    /\ \A m \in Messages : /\ ran[m] > 0 => ran'[m] > 0
                           /\ cause[m] # {} => cause'[m] # {}

LEMMA EntryBegins ==
  ASSUME TypeOK, Counted, NEW s \in Sessions, NEW e \in Entry, e # <<>>,
         NEW q \in Queue, In(e) \subseteq Of(s),
         active[s] = <<>>, MayBegin, count' = count + 1,
         active' = [active EXCEPT ![s] = e], signal' = [signal EXCEPT ![s] = "none"],
         ran' = [m \in Messages |-> IF m \in In(e) THEN ran[m] + 1 ELSE ran[m]],
         pending' = [pending EXCEPT ![s] = q], cause' = cause
  PROVE  Begins(s, e, q) /\ Moves(s)
  <1>1. /\ active'[s] = e /\ \A t \in Sessions \ {s} : active'[t] = active[t]
        /\ pending'[s] = q /\ \A t \in Sessions \ {s} : pending'[t] = pending[t]
    BY DEF TypeOK
  <1>2. /\ pending' \in [Sessions -> Seq(Seq(Messages))]
        /\ active' \in [Sessions -> Seq(Messages)]
        /\ signal' \in [Sessions -> {"none", "queue", "user"}]
    BY DEF TypeOK, Queue, Entry
  <1>3. Counted' /\ count' \in 0 .. MaxRuns
    <2>1. Running' = Running \cup {s} /\ s \notin Running
      BY <1>1 DEF Running
    <2>2. IsFiniteSet(Running) /\ count = Cardinality(Running)
      BY DEF Counted
    <2>3. IsFiniteSet(Running') /\ Cardinality(Running') = count + 1
      BY <2>1, <2>2, FS_AddElement
    <2>4. count + 1 \in 0 .. MaxRuns
      BY SlackAssumption DEF TypeOK, MayBegin
    <2> QED
      BY <2>3, <2>4 DEF Counted
  <1>4. ran \in [Messages -> Nat] /\ \A m \in Messages : ran[m] \in Nat
    BY DEF TypeOK
  <1>5. /\ ran' \in [Messages -> Nat]
        /\ \A m \in Messages : ran'[m] = IF m \in In(e) THEN ran[m] + 1 ELSE ran[m]
        /\ \A m \in Messages : ran[m] > 0 => ran'[m] > 0
        /\ \A m \in Messages \ Of(s) : ran'[m] = ran[m]
    BY <1>4
  <1>6. cause \in [Messages -> SUBSET {"replaced", "cleared", "full"}]
    BY DEF TypeOK
  <1>7. Begins(s, e, q)
    BY <1>1, <1>5 DEF Begins
  <1> QED
    BY <1>1, <1>2, <1>3, <1>5, <1>6, <1>7 DEF Moves

LEMMA EntryIsQueued ==
  ASSUME TypeOK, Counted, NEW s \in Sessions, NEW e \in Entry, NEW q \in Queue,
         In(e) \subseteq Of(s), Waiting(q) \subseteq Of(s), NEW mode, NEW b,
         Joins(b, q, e, mode), active[s] # <<>> \/ IsLimited(s),
         pending' = [pending EXCEPT ![s] = Normal(Capped(b))],
         cause' = Displaced(q, b, mode),
         signal' \in [Sessions -> {"none", "queue", "user"}],
         UNCHANGED <<active, count, ran>>
  PROVE  Waits(s, e, mode, q) /\ Moves(s)
  <1> DEFINE r == Normal(Capped(b))
  <1>1. /\ r \in Queue
        /\ cause' \in [Messages -> SUBSET {"replaced", "cleared", "full"}]
        /\ \A m \in Messages : cause[m] # {} => cause'[m] # {}
        /\ \A m \in Messages \ Of(s) : cause'[m] = cause[m]
    BY EntryWaits
  <1>2. pending'[s] = r /\ \A t \in Sessions \ {s} : pending'[t] = pending[t]
    BY DEF TypeOK
  <1>3. pending' \in [Sessions -> Seq(Seq(Messages))]
    BY <1>1 DEF TypeOK, Queue, Entry
  <1>4. Counted' /\ count' \in 0 .. MaxRuns
    BY DEF Counted, Running, TypeOK
  <1>5. Waits(s, e, mode, q)
    BY <1>2 DEF Waits
  <1> QED
    BY <1>1, <1>2, <1>3, <1>4, <1>5 DEF Moves, TypeOK

LEMMA SessionQueueMoves ==
  ASSUME TypeOK, Counted, NEW s \in Sessions, NEW e \in Entry, e # <<>>,
         NEW q \in Queue, In(e) \subseteq Of(s), Waiting(q) \subseteq Of(s),
         NEW mode \in Mode, WithSessionQueue(s, e, mode, q)
  PROVE  (Begins(s, e, q) \/ Waits(s, e, mode, q)) /\ Moves(s)
  <1>1. CASE /\ active[s] # <<>>
             /\ pending' = [pending EXCEPT ![s] = Normal(Capped(Behind(q, e, mode)))]
             /\ signal' = IF mode \in Steers /\ signal[s] = "none"
                          THEN [signal EXCEPT ![s] = "queue"] ELSE signal
             /\ cause' = Displaced(q, Behind(q, e, mode), mode)
             /\ UNCHANGED <<active, count, ran>>
    <2>1. Joins(Behind(q, e, mode), q, e, mode)
      BY DEF Joins, Behind, Mode, Replaces
    <2>2. signal' \in [Sessions -> {"none", "queue", "user"}]
      BY <1>1 DEF TypeOK
    <2> QED
      BY <1>1, <2>1, <2>2, EntryIsQueued
  <1>2. CASE /\ active[s] = <<>>
             /\ ~MayBegin
             /\ pending' = [pending EXCEPT ![s] = Normal(Capped(Limited(q, e, mode)))]
             /\ cause' = Displaced(q, Limited(q, e, mode), mode)
             /\ UNCHANGED <<active, signal, count, ran>>
    <2>1. Joins(Limited(q, e, mode), q, e, mode)
      BY DEF Joins, Limited
    <2>2. signal' \in [Sessions -> {"none", "queue", "user"}] /\ IsLimited(s)
      BY <1>2 DEF TypeOK, IsLimited
    <2> QED
      BY <1>2, <2>1, <2>2, EntryIsQueued
  <1>3. CASE /\ active[s] = <<>>
             /\ MayBegin
             /\ count' = count + 1
             /\ active' = [active EXCEPT ![s] = e]
             /\ signal' = [signal EXCEPT ![s] = "none"]
             /\ ran' = [m \in Messages |-> IF m \in In(e) THEN ran[m] + 1 ELSE ran[m]]
             /\ pending' = [pending EXCEPT ![s] = q]
             /\ UNCHANGED cause
    BY <1>3, EntryBegins
  <1> QED
    BY <1>1, <1>2, <1>3 DEF WithSessionQueue

(* The queue of a session after an entry that begins or waits.             *)
LEMMA MovedQueue ==
  ASSUME TypeOK, NEW s \in Sessions, NEW q \in Queue, NEW e \in Entry, NEW mode,
         Waiting(q) \subseteq Of(s), In(e) \subseteq Of(s), Len(q) <= MaxPending,
         Begins(s, e, q) \/ Waits(s, e, mode, q)
  PROVE  /\ Len(pending'[s]) <= MaxPending
         /\ \A k \in DOMAIN pending'[s] :
               pending'[s][k] = e \/ \E j \in DOMAIN q : pending'[s][k] = q[j]
         /\ Apart(q) /\ In(e) \cap Waiting(q) = {} => Apart(pending'[s])
  <1>1. CASE Begins(s, e, q)
    BY <1>1 DEF Begins
  <1>2. CASE Waits(s, e, mode, q)
    <2>1. PICK b : /\ Joins(b, q, e, mode)
                   /\ pending'[s] = Normal(Capped(b)) /\ cause' = Displaced(q, b, mode)
      BY <1>2 DEF Waits
    <2> QED
      BY <2>1, EntryWaits
  <1> QED
    BY <1>1, <1>2

LEMMA Single ==
  ASSUME NEW m \in Messages
  PROVE  <<m>> \in Entry /\ <<m>> # <<>> /\ In(<<m>>) = {m} /\ Whole(<<m>>)
  <1>1. <<m>> \in Entry /\ Len(<<m>>) = 1 /\ <<m>>[1] = m /\ DOMAIN <<m>> = {1}
    BY DEF Entry
  <1>2. In(<<m>>) = {m}
    BY <1>1 DEF In, ToSet
  <1>3. Last(<<m>>) = m
    BY <1>1 DEF Last
  <1> QED
    BY <1>1, <1>2, <1>3 DEF Whole

(* The first facts of a step that submits.                                 *)
LEMMA SubmitMoves ==
  ASSUME Inv, NEW m \in Messages, Submit(m), NEW s, s = SessionOf[m]
  PROVE  /\ s \in Sessions /\ m \in Of(s) /\ m \notin Given(s) /\ ran[m] = 0
         /\ look[m] \in Look
         /\ pending[s] \in Queue /\ m \notin Waiting(pending[s])
         /\ Begins(s, <<m>>, pending[s]) \/ Waits(s, <<m>>, look[m].mode, pending[s])
         /\ Moves(s) /\ order' = Append(order, m)
         /\ at' = [at EXCEPT ![m] = "given"] /\ look' = [look EXCEPT ![m] = None]
         /\ Given(s)' = Given(s) \cup {m} /\ Of(s)' = Of(s)
         /\ modes' \in [Sessions -> Mode \cup {None}]
         /\ \A t \in Sessions \ {s} : modes'[t] = modes[t] /\ mishap'[t] = mishap[t]
         /\ mishap' \in [Sessions -> SUBSET {"limited", "raced", "db", "mode"}]
         /\ UNCHANGED <<stored, storing, drains, closed, old, stopped, spent>>
  <1>1. /\ s \in Sessions /\ m \in Of(s) /\ at[m] = "looking"
    BY SlackAssumption DEF Of, Submit
  <1>2. SessionInv(s)
    BY <1>1 DEF Inv
  <1>3. m \notin Given(s) /\ look[m] \in Look /\ ran[m] = 0
    <2>1. /\ ran[m] > 0 => m \in Given(s)
          /\ look[m] \in Look
      BY <1>1, <1>2 DEF SessionInv, Placed
    <2>2. m \notin Given(s)
      BY <1>1 DEF Given
    <2>3. ran[m] \in Nat
      BY DEF Inv, TypeOK
    <2> QED
      BY <2>1, <2>2, <2>3
  <1>4. /\ pending[s] \in Queue /\ Waiting(pending[s]) \subseteq Given(s)
        /\ Waiting(pending[s]) \subseteq Of(s)
    BY <1>1, <1>2, WaitingGiven DEF SessionInv, Inv, TypeOK, Queues, Queue, Entry, Given
  <1>5. look[m].mode \in Mode
    BY <1>3 DEF Look
  <1>6. WithSessionQueue(s, <<m>>, look[m].mode, pending[s])
    BY DEF Submit
  <1>7. /\ Begins(s, <<m>>, pending[s]) \/ Waits(s, <<m>>, look[m].mode, pending[s])
        /\ Moves(s)
    <2>1. <<m>> \in Entry /\ <<m>> # <<>> /\ In(<<m>>) \subseteq Of(s)
      BY <1>1, Single
    <2> QED
      BY <1>1, <1>4, <1>5, <1>6, <2>1, SessionQueueMoves DEF Inv
  <1>8. /\ at' = [at EXCEPT ![m] = "given"] /\ look' = [look EXCEPT ![m] = None]
        /\ order' = Append(order, m)
        /\ UNCHANGED <<stored, storing, drains, closed, old, stopped, spent>>
    BY DEF Submit
  <1>9. /\ modes' \in [Sessions -> Mode \cup {None}]
        /\ \A t \in Sessions \ {s} : modes'[t] = modes[t]
    BY <1>1, <1>5 DEF Submit, Learned, Inv, TypeOK
  <1>10. /\ \A t \in Sessions \ {s} : mishap'[t] = mishap[t]
         /\ mishap' \in [Sessions -> SUBSET {"limited", "raced", "db", "mode"}]
    <2> DEFINE new == mishap[s] \cup (IF IsLimited(s) THEN {"limited"} ELSE {})
                                \cup (IF IsDraining(s) THEN {"raced"} ELSE {})
                                \cup (IF look[m].mode # modes'[s] THEN {"mode"} ELSE {})
    <2>1. mishap' = [mishap EXCEPT ![s] = new]
      BY DEF Submit
    <2>2. new \subseteq {"limited", "raced", "db", "mode"}
      BY <1>1 DEF Inv, TypeOK
    <2> HIDE DEF new
    <2> QED
      BY <1>1, <2>1, <2>2 DEF Inv, TypeOK
  <1>11. Given(s)' = Given(s) \cup {m} /\ Of(s)' = Of(s)
    BY <1>1, <1>8 DEF Given, Of, Inv, TypeOK
  <1> QED
    BY <1>1, <1>3, <1>4, <1>7, <1>8, <1>9, <1>10, <1>11

LEMMA SubmitMishap ==
  ASSUME Inv, NEW m \in Messages, Submit(m), NEW s, s = SessionOf[m]
  PROVE  /\ mishap[s] \subseteq mishap'[s]
         /\ "db" \in mishap'[s] => "db" \in mishap[s]
         /\ "limited" \notin mishap'[s] => ~IsLimited(s)
         /\ "raced" \notin mishap'[s] => drains[s] = <<>>
         /\ "mode" \notin mishap'[s] => modes'[s] = look[m].mode
         /\ look[m].miss => modes'[s] # None
         /\ modes[s] # None => modes'[s] # None
  <1>1. s \in Sessions /\ look[m] \in Look
    BY SubmitMoves
  <1>2. mishap'[s] = mishap[s] \cup (IF IsLimited(s) THEN {"limited"} ELSE {})
                               \cup (IF IsDraining(s) THEN {"raced"} ELSE {})
                               \cup (IF look[m].mode # modes'[s] THEN {"mode"} ELSE {})
    BY <1>1 DEF Submit, Inv, TypeOK
  <1>3. look[m].mode \in Mode /\ look[m].mode # None
    BY <1>1, SlackAssumption DEF Look
  <1>4. /\ look[m].miss => modes'[s] # None
        /\ modes[s] # None => modes'[s] # None
    BY <1>1, <1>3 DEF Submit, Learned, Inv, TypeOK
  <1> QED
    BY <1>2, <1>4 DEF IsDraining

LEMMA SubmitKeeps ==
  ASSUME Inv, NEW m \in Messages, Submit(m)
  PROVE  Inv'
  <1> DEFINE s == SessionOf[m]
             e == <<m>>
             q == pending[s]
             mode == look[m].mode
  <1>1. /\ s \in Sessions /\ m \in Of(s) /\ m \notin Given(s) /\ ran[m] = 0
        /\ look[m] \in Look
        /\ q \in Queue /\ m \notin Waiting(q)
        /\ Begins(s, e, q) \/ Waits(s, e, mode, q)
        /\ Moves(s) /\ order' = Append(order, m)
        /\ at' = [at EXCEPT ![m] = "given"] /\ look' = [look EXCEPT ![m] = None]
        /\ Given(s)' = Given(s) \cup {m} /\ Of(s)' = Of(s)
        /\ modes' \in [Sessions -> Mode \cup {None}]
        /\ \A t \in Sessions \ {s} : modes'[t] = modes[t] /\ mishap'[t] = mishap[t]
        /\ mishap' \in [Sessions -> SUBSET {"limited", "raced", "db", "mode"}]
        /\ UNCHANGED <<stored, storing, drains, closed, old, stopped, spent>>
    BY SubmitMoves
  <1>2. /\ mishap[s] \subseteq mishap'[s]
        /\ "db" \in mishap'[s] => "db" \in mishap[s]
        /\ "limited" \notin mishap'[s] => ~IsLimited(s)
        /\ "raced" \notin mishap'[s] => drains[s] = <<>>
        /\ "mode" \notin mishap'[s] => modes'[s] = mode
        /\ look[m].miss => modes'[s] # None
        /\ modes[s] # None => modes'[s] # None
    BY SubmitMishap
  <1>3. SessionInv(s) /\ at[m] = "looking"
    BY <1>1 DEF Inv, Submit
  <1>4. e \in Entry /\ e # <<>> /\ In(e) = {m} /\ Whole(e)
    BY Single
  <1>5. Waiting(q) \subseteq Given(s) /\ Waiting(q) \subseteq Of(s) /\ q \in Queues(s)
    BY <1>3, WaitingGiven DEF SessionInv, Queues, Given
  <1>6. Len(q) <= MaxPending /\ \A k \in DOMAIN q : q[k] # <<>> /\ In(q[k]) \subseteq Given(s)
    BY <1>3, <1>5 DEF SessionInv, Placed
  <1>7. /\ mode \in Mode /\ mode # None
        /\ at'[m] = "given" /\ look'[m] = None
        /\ \A n \in Messages \ {m} : at'[n] = at[n] /\ look'[n] = look[n]
    BY <1>1, SlackAssumption DEF Inv, TypeOK, Look
  <1> HIDE DEF s, e, q, mode
  <1>8. /\ Len(pending'[s]) <= MaxPending
        /\ \A k \in DOMAIN pending'[s] :
              pending'[s][k] = e \/ \E j \in DOMAIN q : pending'[s][k] = q[j]
        /\ Apart(q) => Apart(pending'[s])
    <2>1. In(e) \subseteq Of(s) /\ In(e) \cap Waiting(q) = {}
      BY <1>1, <1>4
    <2>2. TypeOK /\ s \in Sessions /\ q \in Queue /\ e \in Entry
      BY <1>1, <1>4 DEF Inv
    <2>3. Waiting(q) \subseteq Of(s) /\ Len(q) <= MaxPending
      BY <1>5, <1>6
    <2>4. Begins(s, e, q) \/ Waits(s, e, mode, q)
      BY <1>1
    <2> QED
      BY <2>1, <2>2, <2>3, <2>4, MovedQueue
  <1>9. TypeOK'
    <2>1. order' \in Seq(Messages)
      BY <1>1 DEF Inv, TypeOK
    <2>2. /\ at' \in [Messages -> {"new", "handling", "looking", "given", "failed"}]
          /\ look' \in [Messages -> Look \cup {None}]
      BY <1>1 DEF Inv, TypeOK
    <2> QED
      BY <1>1, <2>1, <2>2 DEF Inv, TypeOK, Moves
  <1>10. Counted'
    BY <1>1 DEF Moves
  <1>11. \A t \in Sessions \ {s} : Elsewhere(t)
    <2> SUFFICES ASSUME NEW t \in Sessions \ {s} PROVE Elsewhere(t)
      OBVIOUS
    <2>1. \A n \in Of(t) : n \in Messages \ Of(s) /\ n # m
      BY <1>1 DEF Of
    <2>2. m \in Messages \ Of(t)
      BY <1>1 DEF Of
    <2>3. \A n \in Of(t) : /\ at'[n] = at[n] /\ look'[n] = look[n]
                           /\ ran'[n] = ran[n] /\ cause'[n] = cause[n]
      BY <1>1, <1>7, <2>1 DEF Moves
    <2> QED
      BY <1>1, <2>2, <2>3 DEF Elsewhere, Moves
  <1>12. /\ \A x \in Queues(s)' : x = pending'[s] \/ x \in Queues(s)
         /\ Unraced(s)' => Unraced(s) /\ drains[s] = <<>> /\ Queues(s)' = {pending'[s]}
         /\ Clean(s)' => Clean(s) /\ Unraced(s)' /\ ~IsLimited(s)
         /\ Steady(s)' => Steady(s) /\ Clean(s)' /\ "mode" \notin mishap'[s]
    BY <1>1, <1>2 DEF Queues, Unraced, Clean, Steady
  <1>13. Placed(s)'
    <2>1. \A x \in Queues(s)' :
             /\ Len(x) <= MaxPending
             /\ \A k \in DOMAIN x : x[k] # <<>> /\ In(x[k]) \subseteq Given(s) \cup {m}
      <3>1. \A k \in DOMAIN pending'[s] :
               pending'[s][k] # <<>> /\ In(pending'[s][k]) \subseteq Given(s) \cup {m}
        BY <1>4, <1>6, <1>8
      <3> QED
        BY <1>3, <1>8, <1>12, <3>1 DEF SessionInv, Placed
    <2>2. ASSUME NEW n \in Of(s)
          PROVE  /\ ran'[n] > 0 \/ n \in stopped' \/ n \in ToSet(order)'
                       => n \in Given(s) \cup {m}
                 /\ at'[n] = "looking" => look'[n] \in Look
      <3>1. CASE n = m
        BY <1>7, <3>1
      <3>2. CASE n # m
        <4>1. n \in Messages /\ at'[n] = at[n] /\ look'[n] = look[n] /\ stopped' = stopped
          BY <1>1, <1>7, <3>2 DEF Of
        <4>2. ran'[n] = ran[n]
          BY <1>1, <1>4, <3>2, <4>1 DEF Begins, Waits
        <4>3. n \in ToSet(order)' => n \in ToSet(order)
          <5>1. order \in Seq(Messages) /\ order' = Append(order, m)
            BY <1>1 DEF Inv, TypeOK
          <5>2. /\ DOMAIN order' = DOMAIN order \cup {Len(order) + 1}
                /\ order'[Len(order) + 1] = m
                /\ \A k \in DOMAIN order : order'[k] = order[k]
            BY <5>1
          <5> QED
            BY <3>2, <5>2 DEF ToSet
        <4> QED
          BY <1>3, <4>1, <4>2, <4>3 DEF SessionInv, Placed
      <3> QED
        BY <3>1, <3>2
    <2> QED
      BY <1>1, <2>1, <2>2 DEF Placed
  <1>14. Known(s)'
    <2>1. s \notin closed => modes'[s] # None
      BY <1>1, <1>2, <1>3 DEF SessionInv, Known
    <2>2. s \notin closed => /\ \A k \in DOMAIN drains[s] : ~drains[s][k].look.miss
                             /\ "db" \notin mishap'[s]
      BY <1>2, <1>3 DEF SessionInv, Known
    <2> QED
      BY <1>1, <2>1, <2>2 DEF Known
  <1>15. OneMode(s)'
    <2> SUFFICES ASSUME "mode" \notin mishap'[s] PROVE OneMode(s)'
      BY DEF OneMode
    <2>1. "mode" \notin mishap[s] /\ modes'[s] = mode /\ modes'[s] # None
      BY <1>2, <1>7
    <2>2. /\ storing[s] = None
          /\ \A n \in Of(s) : at[n] = "looking" => look[n].mode = stored[s]
          /\ \A k \in DOMAIN drains[s] : drains[s][k].look.mode = stored[s]
          /\ Unraced(s) => /\ \A k \in DOMAIN drains[s] : ~drains[s][k].look.miss
                           /\ "db" \notin mishap[s]
      BY <1>3, <2>1 DEF SessionInv, OneMode
    <2>3. mode = stored[s]
      BY <1>1, <1>3, <2>2 DEF mode
    <2>4. \A n \in Of(s) : at'[n] = "looking" => look'[n].mode = stored[s]
      BY <1>7, <2>2 DEF Of
    <2> QED
      BY <1>1, <1>2, <1>12, <2>1, <2>2, <2>3, <2>4 DEF OneMode
  <1>16. \A n \in Waiting(pending'[s]) : n = m \/ n \in Waiting(q)
    BY <1>4, <1>8 DEF Waiting
  <1>17. \A n \in Messages : n # m => ran'[n] = ran[n]
    BY <1>1, <1>4 DEF Begins, Waits
  <1>18. /\ Begins(s, e, q) => ran'[m] = 1
         /\ Waits(s, e, mode, q) => ran'[m] = 0
    BY <1>1, <1>4 DEF Begins, Waits
  <1>19. OnePlace(s)'
    <2> SUFFICES ASSUME Unraced(s)'
                 PROVE  /\ Apart(pending'[s]) /\ \A n \in Waiting(pending'[s]) : ran'[n] = 0
                        /\ \A n \in Of(s) : ran'[n] <= 1
      BY <1>1, <1>12 DEF OnePlace
    <2>1. Unraced(s)
      BY <1>12
    <2>2. Apart(q) /\ (\A n \in Waiting(q) : ran[n] = 0) /\ \A n \in Of(s) : ran[n] <= 1
      BY <1>3, <1>5, <2>1 DEF SessionInv, OnePlace
    <2>3. \A n \in Of(s) : ran'[n] <= 1
      BY <1>1, <1>17, <1>18, <2>2 DEF Of
    <2>4. \A n \in Waiting(pending'[s]) : ran'[n] = 0
      <3>1. CASE Begins(s, e, q)
        <4>1. pending'[s] = q
          BY <3>1 DEF Begins
        <4> QED
          BY <1>1, <1>5, <1>17, <2>2, <4>1 DEF Of
      <3>2. CASE Waits(s, e, mode, q)
        BY <1>5, <1>16, <1>17, <1>18, <2>2, <3>2 DEF Of
      <3> QED
        BY <1>1, <3>1, <3>2
    <2> QED
      BY <1>8, <2>2, <2>3, <2>4
  <1>20. \A n \in Of(s) : Settled(n) => ran'[n] > 0 \/ cause'[n] # {} \/ n \in old'
    BY <1>1 DEF Moves, Settled, Of
  <1>21. Clean(s)' /\ Waits(s, e, mode, q) =>
           /\ active[s] # <<>> /\ active'[s] # <<>>
           /\ \A n \in Waiting(q) \cup {m} :
                 cause'[n] # {} \/ n \in old \/ n \in Waiting(pending'[s])
           /\ \A a, n : /\ mode \notin Steers /\ Ahead(a, n, q)
                        /\ n = m => a \in Waiting(q)
                        => cause'[a] # {} \/ a \in old \/ Ahead(a, n, pending'[s])
    <2> SUFFICES ASSUME Clean(s)', Waits(s, e, mode, q)
                 PROVE  /\ active[s] # <<>> /\ active'[s] # <<>>
                        /\ \A n \in Waiting(q) \cup {m} :
                              cause'[n] # {} \/ n \in old \/ n \in Waiting(pending'[s])
                        /\ \A a, n : /\ mode \notin Steers /\ Ahead(a, n, q)
                                     /\ n = m => a \in Waiting(q)
                                     => cause'[a] # {} \/ a \in old \/ Ahead(a, n, pending'[s])
      OBVIOUS
    <2>1. PICK b : /\ Joins(b, q, e, mode)
                   /\ pending'[s] = Normal(Capped(b)) /\ cause' = Displaced(q, b, mode)
      BY DEF Waits
    <2>2. active[s] # <<>> /\ active'[s] # <<>>
      BY <1>12 DEF Waits
    <2>3. \A k \in DOMAIN q : Whole(q[k])
      BY <1>3, <1>5, <1>12 DEF SessionInv, Kept
    <2>4. In(e) \subseteq Of(s)
      BY <1>1, <1>4
    <2>5. /\ \A n \in Waiting(q) \cup In(e) :
                cause'[n] # {} \/ n \in old \/ n \in Waiting(pending'[s])
          /\ \A a, n : /\ mode \notin Steers /\ Ahead(a, n, q)
                       /\ n \in In(e) => a \in Waiting(q)
                       => cause'[a] # {} \/ a \in old \/ Ahead(a, n, pending'[s])
      <3>1. TypeOK /\ s \in Sessions /\ q \in Queue /\ e \in Entry
        BY <1>1, <1>4 DEF Inv
      <3>2. Waiting(q) \subseteq Of(s) /\ Whole(e)
        BY <1>4, <1>5
      <3> QED
        BY <2>1, <2>3, <2>4, <3>1, <3>2, EntryWaits
    <2> QED
      BY <1>4, <2>2, <2>5
  <1>22. Kept(s)'
    <2> SUFFICES ASSUME Clean(s)'
                 PROVE  /\ \A k \in DOMAIN pending'[s] : Whole(pending'[s][k])
                        /\ "db" \notin mishap'[s] =>
                              /\ pending'[s] # <<>> => active'[s] # <<>>
                              /\ \A n \in Given(s) \cup {m} :
                                    \/ ran'[n] > 0 \/ cause'[n] # {} \/ n \in old
                                    \/ n \in Waiting(pending'[s])
      BY <1>1, <1>12 DEF Kept, Settled
    <2>1. Clean(s) /\ drains[s] = <<>>
      BY <1>12
    <2>2. \A k \in DOMAIN pending'[s] : Whole(pending'[s][k])
      BY <1>3, <1>4, <1>5, <1>8, <2>1 DEF SessionInv, Kept
    <2>3. ASSUME "db" \notin mishap'[s], NEW n \in Given(s) \cup {m}
          PROVE  \/ ran'[n] > 0 \/ cause'[n] # {} \/ n \in old
                 \/ n \in Waiting(pending'[s])
      <3>1. n # m => Settled(n) \/ n \in Waiting(q)
        BY <1>2, <1>3, <2>1, <2>3 DEF SessionInv, Kept, q
      <3>2. n # m /\ Settled(n) => ran'[n] > 0 \/ cause'[n] # {} \/ n \in old
        BY <1>1, <1>20, <2>3 DEF Given
      <3>3. CASE Begins(s, e, q)
        BY <1>18, <3>1, <3>2, <3>3 DEF Begins
      <3>4. CASE Waits(s, e, mode, q)
        BY <1>21, <3>1, <3>2, <3>4
      <3> QED
        BY <1>1, <3>3, <3>4
    <2>4. active'[s] # <<>>
      BY <1>1, <1>4, <1>21 DEF Begins
    <2> QED
      BY <2>2, <2>3, <2>4
  <1>23. Silent(s)'
    <2> SUFFICES ASSUME Clean(s)', NEW n \in stopped, n \in Of(s)
                 PROVE  ran'[n] = 0 /\ n \notin Waiting(pending'[s])
      BY <1>1, <1>12 DEF Silent
    <2>1. ran[n] = 0 /\ n \notin Waiting(q)
      BY <1>3, <1>5, <1>12 DEF SessionInv, Silent
    <2>2. n # m /\ n \in Messages
      BY <1>1, <1>3 DEF SessionInv, Placed, Of
    <2> QED
      BY <1>16, <1>17, <2>1, <2>2
  <1>24. Sorted(s)'
    <2> SUFFICES ASSUME Steady(s)', stored[s] \notin Steers, NEW p \in Earlier(s)'
                 PROVE  LET a == order'[p[1]]  n == order'[p[2]]
                        IN  \/ ran'[a] > 0 \/ cause'[a] # {} \/ a \in old
                            \/ ran'[n] = 0 /\ Ahead(a, n, pending'[s])
      BY <1>1, <1>12 DEF Sorted, Settled
    <2> DEFINE a == order'[p[1]]
               n == order'[p[2]]
    <2>1. Steady(s) /\ Clean(s) /\ Clean(s)' /\ drains[s] = <<>> /\ "mode" \notin mishap[s]
      BY <1>12 DEF Steady
    <2>2. mode \notin Steers
      <3>1. mode = stored[s]
        BY <1>1, <1>3, <2>1 DEF SessionInv, OneMode, mode
      <3> QED
        BY <3>1
    <2>3. /\ order \in Seq(Messages) /\ Len(order) \in Nat
          /\ DOMAIN order' = 1 .. (Len(order) + 1) /\ DOMAIN order = 1 .. Len(order)
          /\ order'[Len(order) + 1] = m
          /\ \A k \in DOMAIN order : order'[k] = order[k]
      BY <1>1 DEF Inv, TypeOK
    <2>4. /\ p \in (DOMAIN order') \X (DOMAIN order') /\ p[1] < p[2]
          /\ a \in Of(s) /\ n \in Of(s)
      BY <1>1 DEF Earlier
    <2>5. p[1] \in DOMAIN order /\ a = order[p[1]] /\ a \in Given(s)
      <3>1. p[1] \in DOMAIN order
        BY <2>3, <2>4
      <3>2. a \in ToSet(order)
        BY <2>3, <3>1 DEF ToSet
      <3> QED
        BY <1>3, <2>3, <2>4, <3>1, <3>2 DEF SessionInv, Placed
    <2>6. CASE p[2] \in DOMAIN order
      <3>1. p \in Earlier(s) /\ n = order[p[2]]
        BY <2>3, <2>4, <2>5, <2>6 DEF Earlier
      <3>2. Settled(a) \/ (ran[n] = 0 /\ Ahead(a, n, q))
        BY <1>3, <1>5, <2>1, <2>5, <3>1 DEF SessionInv, Sorted
      <3>3. n \in Given(s)
        <4>1. n \in ToSet(order)
          BY <2>6, <3>1 DEF ToSet
        <4> QED
          BY <1>3, <2>4, <4>1 DEF SessionInv, Placed
      <3>4. n # m /\ n \in Messages
        BY <1>1, <3>3 DEF Given, Of
      <3> HIDE DEF a, n
      <3>5. CASE Settled(a)
        BY <1>1, <1>20, <2>4, <3>5 DEF a
      <3>6. CASE ran[n] = 0 /\ Ahead(a, n, q)
        <4>1. ran'[n] = 0
          BY <1>17, <3>4, <3>6
        <4>2. CASE Begins(s, e, q)
          BY <3>6, <4>1, <4>2 DEF Begins, a, n
        <4>3. CASE Waits(s, e, mode, q)
          BY <1>21, <2>1, <2>2, <3>4, <3>6, <4>1, <4>3 DEF a, n
        <4> QED
          BY <1>1, <4>2, <4>3
      <3> QED
        BY <3>2, <3>5, <3>6
    <2>7. CASE p[2] \notin DOMAIN order
      <3>1. n = m
        <4>1. p[2] = Len(order) + 1
          BY <2>3, <2>4, <2>7
        <4> QED
          BY <2>3, <4>1
      <3>2. Settled(a) \/ a \in Waiting(q)
        <4>1. "db" \notin mishap[s]
          BY <1>3, <2>1 DEF SessionInv, OneMode, Clean
        <4> QED
          BY <1>3, <2>1, <2>5, <4>1 DEF SessionInv, Kept, q
      <3>3. \A k \in DOMAIN q : m \notin In(q[k])
        BY <1>1 DEF Waiting
      <3> HIDE DEF a, n
      <3>4. CASE Settled(a)
        BY <1>1, <1>20, <2>4, <3>4 DEF a
      <3>5. CASE a \in Waiting(q) /\ Begins(s, e, q)
        <4>1. active[s] = <<>> /\ q # <<>>
          BY <3>5, NoneWaiting DEF Begins
        <4>2. "db" \notin mishap[s]
          BY <1>3, <2>1 DEF SessionInv, OneMode, Clean
        <4> QED
          BY <1>3, <2>1, <4>1, <4>2 DEF SessionInv, Kept, IsDraining, q
      <3>6. CASE a \in Waiting(q) /\ Waits(s, e, mode, q)
        <4>1. Ahead(a, m, q)
          BY <3>3 DEF Ahead
        <4>2. ran'[m] = 0
          BY <1>18, <3>6
        <4>3. cause'[a] # {} \/ a \in old \/ Ahead(a, m, pending'[s])
          BY <1>21, <2>1, <2>2, <3>6, <4>1
        <4> QED
          BY <3>1, <4>2, <4>3 DEF a, n
      <3> QED
        BY <1>1, <3>2, <3>4, <3>5, <3>6
    <2> QED
      BY <2>6, <2>7
  <1>25. SessionInv(s)'
    BY <1>13, <1>14, <1>15, <1>19, <1>22, <1>23, <1>24 DEF SessionInv
  <1> QED
    BY <1>1, <1>9, <1>10, <1>11, <1>25, OneSessionMoves

(* What the next run is given, and what is left of the queue.              *)
LEMMA TakenIs ==
  ASSUME NEW q \in Queue, q # <<>>, \A k \in DOMAIN q : q[k] # <<>>,
         Len(q) <= MaxPending, NEW mode, NEW T, T = Taken(q, mode)
  PROVE  /\ T.entry \in Entry /\ T.entry # <<>> /\ T.rest \in Queue
         /\ Len(T.rest) <= MaxPending
         /\ In(T.entry) \cup Waiting(T.rest) = Waiting(q)
         /\ \A k \in DOMAIN T.rest : \E j \in DOMAIN q : T.rest[k] = q[j]
         /\ Apart(q) => Apart(T.rest) /\ In(T.entry) \cap Waiting(T.rest) = {}
         /\ \A m, n : Ahead(m, n, q) =>
               m \in In(T.entry) \/ (n \notin In(T.entry) /\ Ahead(m, n, T.rest))
  <1> DEFINE l == Len(q)
  <1>1. l \in Nat /\ l >= 1 /\ DOMAIN q = 1 .. l /\ \A k \in 1 .. l : q[k] \in Entry
    BY DEF Queue
  <1>2. CASE mode = "collect"
    <2>1. T.entry = FlattenSeq(q) /\ T.rest = <<>>
      BY <1>2 DEF Taken
    <2>2. T.entry \in Entry /\ In(T.entry) = Waiting(q)
      BY <2>1, FlatWaiting
    <2>3. T.entry # <<>>
      <3>1. q[1] # <<>> /\ q[1] \in Entry /\ In(q[1]) \subseteq Waiting(q)
        BY <1>1 DEF Waiting
      <3>2. q[1][1] \in In(q[1])
        BY <3>1 DEF In, ToSet, Entry
      <3>3. In(<<>>) = {}
        BY DEF In, ToSet
      <3> QED
        BY <2>2, <3>1, <3>2, <3>3
    <2>4. \A m, n : Ahead(m, n, q) => m \in Waiting(q) \/ n \notin Waiting(q)
      BY DEF Ahead, Waiting
    <2>5. <<>> \in Queue /\ Len(<<>>) <= MaxPending /\ DOMAIN <<>> = {}
      BY SlackAssumption DEF Queue
    <2> QED
      BY <2>1, <2>2, <2>3, <2>4, <2>5, NoneWaiting
  <1>3. CASE mode # "collect"
    <2>1. T.entry = q[1] /\ T.rest = Tail(q)
      BY <1>3 DEF Taken
    <2>2. /\ T.rest \in Queue /\ Len(T.rest) = l - 1 /\ DOMAIN T.rest = 1 .. (l - 1)
          /\ \A k \in 1 .. (l - 1) : T.rest[k] = q[k + 1]
      BY <1>1, <2>1 DEF Queue
    <2> DEFINE r == T.rest
               e == T.entry
    <2>3. /\ r \in Queue /\ DOMAIN r = 1 .. (l - 1) /\ e = q[1]
          /\ \A k \in 1 .. (l - 1) : r[k] = q[k + 1]
      BY <2>1, <2>2
    <2>4. Len(r) <= MaxPending
      <3>1. MaxPending \in Nat /\ l <= MaxPending
        BY SlackAssumption
      <3>2. l - 1 <= MaxPending
        <4> HIDE DEF l
        <4> QED
          BY <1>1, <3>1
      <3> QED
        BY <2>2, <3>2
    <2> HIDE DEF r, e, l
    <2>5. /\ 1 \in 1 .. l /\ \A k \in 1 .. (l - 1) : k + 1 \in 1 .. l /\ k + 1 # 1
          /\ \A k \in 1 .. l : k = 1 \/ (k - 1 \in 1 .. (l - 1) /\ (k - 1) + 1 = k)
      BY <1>1
    <2>6. \A k \in 1 .. l : k = 1 \/ (k - 1 \in DOMAIN r /\ r[k - 1] = q[k])
      BY <2>3, <2>5
    <2>7. \A k \in DOMAIN r : r[k] = q[k + 1] /\ k + 1 \in DOMAIN q
      BY <1>1, <2>3, <2>5
    <2>8. In(e) \cup Waiting(r) = Waiting(q)
      <3>1. In(e) \cup Waiting(r) \subseteq Waiting(q)
        BY <1>1, <2>3, <2>5, <2>7 DEF Waiting
      <3>2. Waiting(q) \subseteq In(e) \cup Waiting(r)
        BY <1>1, <2>3, <2>6 DEF Waiting
      <3> QED
        BY <3>1, <3>2
    <2>9. Apart(q) => Apart(r) /\ In(e) \cap Waiting(r) = {}
      <3>1. \A i, j \in DOMAIN r : i # j => i + 1 # j + 1
        BY <1>1, <2>3
      <3>2. Apart(q) => Apart(r)
        BY <2>7, <3>1 DEF Apart
      <3>3. Apart(q) => In(e) \cap Waiting(r) = {}
        <4> SUFFICES ASSUME Apart(q), NEW k \in DOMAIN r PROVE In(e) \cap In(r[k]) = {}
          BY DEF Waiting
        <4>1. k + 1 # 1 /\ k + 1 \in DOMAIN q /\ 1 \in DOMAIN q
          BY <1>1, <2>3, <2>5, <2>7
        <4> QED
          BY <2>3, <2>7, <4>1 DEF Apart
      <3> QED
        BY <3>2, <3>3
    <2>10. ASSUME NEW m, NEW n, Ahead(m, n, q), m \notin In(e)
           PROVE  n \notin In(e) /\ Ahead(m, n, r)
      <3>1. n \notin In(e)
        <4>1. \A i \in DOMAIN q : ~(i < 1)
          BY <1>1
        <4> QED
          BY <1>1, <2>3, <2>5, <2>10, <4>1 DEF Ahead
      <3>2. ASSUME NEW k \in DOMAIN r, n \in In(r[k])
            PROVE  \E i \in DOMAIN r : i < k /\ m \in In(r[i])
        <4>1. PICK i \in DOMAIN q : i < k + 1 /\ m \in In(q[i])
          BY <2>7, <2>10, <3>2 DEF Ahead
        <4>2. i # 1
          BY <2>3, <2>10, <4>1
        <4>3. i - 1 \in DOMAIN r /\ r[i - 1] = q[i]
          BY <1>1, <2>6, <4>2
        <4>4. i - 1 < k
          BY <1>1, <2>3, <4>1
        <4> QED
          BY <4>1, <4>3, <4>4
      <3> QED
        BY <3>1, <3>2 DEF Ahead
    <2>11. e \in Entry /\ e # <<>>
      BY <1>1, <2>3, <2>5
    <2>12. \A k \in DOMAIN r : \E j \in DOMAIN q : r[k] = q[j]
      BY <2>7
    <2> QED
      BY <2>3, <2>4, <2>8, <2>9, <2>10, <2>11, <2>12 DEF r, e
  <1> QED
    BY <1>2, <1>3

(* The end of a run takes its queue out of the list of those being read.   *)
Drained(s, d, T) ==
    /\ d.queue \in Queues(s) /\ d.queue \in Queue /\ d.look \in Look
    /\ drains' \in [Sessions -> Seq([queue : Seq(Seq(Messages)), look : Look])]
    /\ \A t \in Sessions \ {s} : drains'[t] = drains[t]
    /\ \A i \in DOMAIN drains'[s] : \E j \in DOMAIN drains[s] :
          drains'[s][i] = drains[s][j]
    /\ Unraced(s) => /\ drains'[s] = <<>> /\ active[s] = <<>>
                     /\ \A j \in DOMAIN drains[s] : drains[s][j] = d
    /\ modes' \in [Sessions -> Mode \cup {None}]
    /\ \A t \in Sessions \ {s} : modes'[t] = modes[t]
    /\ modes'[s] = IF d.look.miss THEN d.look.mode ELSE modes[s]
    /\ mishap' \in [Sessions -> SUBSET {"limited", "raced", "db", "mode"}]
    /\ \A t \in Sessions \ {s} : mishap'[t] = mishap[t]
    /\ mishap[s] \subseteq mishap'[s]
    /\ \A x \in mishap'[s] : x # "limited" => x \in mishap[s]
    /\ \/ d.queue = <<>> /\ Moves(s) /\ pending'[s] = <<>>
          /\ UNCHANGED <<active, ran, cause>>
       \/ /\ d.queue # <<>> /\ Moves(s)
          /\ Begins(s, T.entry, T.rest) \/ Waits(s, T.entry, d.look.mode, T.rest)
          /\ "limited" \notin mishap'[s] => ~IsLimited(s)
    /\ UNCHANGED <<at, look, stored, storing, closed, old, order, stopped, spent>>

LEMMA DrainMoves ==
  ASSUME Inv, NEW s \in Sessions, NEW k \in DOMAIN drains[s], Drain(s, k),
         NEW d, d = drains[s][k], NEW T, T = Taken(d.queue, d.look.mode)
  PROVE  Drained(s, d, T)
  <1> DEFINE R == [queue : Seq(Seq(Messages)), look : Look]
  <1>1. SessionInv(s) /\ drains \in [Sessions -> Seq(R)]
    BY DEF Inv, TypeOK
  <1> HIDE DEF R
  <1>2. d \in R
    BY <1>1
  <1>3. d.queue \in Queues(s) /\ d.queue \in Queue /\ d.look \in Look
    BY <1>2 DEF Queues, Queue, Entry, R
  <1>4. /\ drains' = [drains EXCEPT ![s] = RemoveAt(drains[s], k)]
        /\ modes' = Learned(s, d.look)
        /\ \/ /\ d.queue = <<>>
              /\ pending' = [pending EXCEPT ![s] = <<>>]
              /\ UNCHANGED <<active, signal, count, ran, cause, mishap>>
           \/ /\ d.queue # <<>>
              /\ WithSessionQueue(s, T.entry, d.look.mode, T.rest)
              /\ mishap' = IF IsLimited(s) THEN Befalls(s, "limited") ELSE mishap
        /\ UNCHANGED <<at, look, stored, storing, closed, old, order, stopped, spent>>
    BY DEF Drain
  <1>5. /\ RemoveAt(drains[s], k) \in Seq(R)
        /\ \A i \in DOMAIN RemoveAt(drains[s], k) : \E j \in DOMAIN drains[s] :
              RemoveAt(drains[s], k)[i] = drains[s][j]
        /\ Len(drains[s]) = 1 => RemoveAt(drains[s], k) = <<>>
    BY <1>1, Removed
  <1>6. /\ drains'[s] = RemoveAt(drains[s], k)
        /\ \A t \in Sessions \ {s} : drains'[t] = drains[t]
        /\ drains' \in [Sessions -> Seq(R)]
    BY <1>1, <1>4, <1>5
  <1>7. Unraced(s) => /\ drains'[s] = <<>> /\ active[s] = <<>>
                      /\ \A j \in DOMAIN drains[s] : drains[s][j] = d
    <2>1. Unraced(s) => Len(drains[s]) = 1 /\ active[s] = <<>>
      BY <1>1 DEF SessionInv, OnePlace
    <2>2. Len(drains[s]) = 1 => DOMAIN drains[s] = {1}
      BY <1>1
    <2> QED
      BY <1>5, <1>6, <2>1, <2>2
  <1>8. /\ modes' \in [Sessions -> Mode \cup {None}]
        /\ \A t \in Sessions \ {s} : modes'[t] = modes[t]
        /\ modes'[s] = IF d.look.miss THEN d.look.mode ELSE modes[s]
    <2>1. modes \in [Sessions -> Mode \cup {None}] /\ d.look.mode \in Mode
      BY <1>3 DEF Inv, TypeOK, Look
    <2>2. CASE d.look.miss
      <3>1. modes' = [modes EXCEPT ![s] = d.look.mode]
        BY <1>4, <2>2 DEF Learned
      <3> QED
        BY <2>1, <2>2, <3>1
    <2>3. CASE ~d.look.miss
      <3>1. modes' = modes
        BY <1>4, <2>3 DEF Learned
      <3> QED
        BY <2>1, <2>3, <3>1
    <2> QED
      BY <2>2, <2>3
  <1>9. /\ mishap' \in [Sessions -> SUBSET {"limited", "raced", "db", "mode"}]
        /\ \A t \in Sessions \ {s} : mishap'[t] = mishap[t]
        /\ mishap[s] \subseteq mishap'[s]
        /\ \A x \in mishap'[s] : x # "limited" => x \in mishap[s]
        /\ d.queue # <<>> /\ "limited" \notin mishap'[s] => ~IsLimited(s)
    <2>1. mishap' = mishap \/ mishap' = Befalls(s, "limited")
      BY <1>4
    <2>2. d.queue # <<>> /\ IsLimited(s) => mishap' = Befalls(s, "limited")
      BY <1>4
    <2>3. mishap \in [Sessions -> SUBSET {"limited", "raced", "db", "mode"}]
      BY DEF Inv, TypeOK
    <2>4. CASE mishap' = mishap
      <3>1. d.queue # <<>> /\ IsLimited(s) => "limited" \in mishap'[s]
        BY <2>2, <2>3 DEF Befalls
      <3> QED
        BY <2>3, <2>4, <3>1
    <2>5. CASE mishap' = Befalls(s, "limited")
      <3>1. /\ mishap'[s] = mishap[s] \cup {"limited"}
            /\ \A t \in Sessions \ {s} : mishap'[t] = mishap[t]
            /\ mishap' \in [Sessions -> SUBSET {"limited", "raced", "db", "mode"}]
        BY <2>3, <2>5 DEF Befalls
      <3> QED
        BY <3>1
    <2> QED
      BY <2>1, <2>4, <2>5
  <1>10. CASE d.queue = <<>>
    <2>1. /\ pending' = [pending EXCEPT ![s] = <<>>]
          /\ UNCHANGED <<active, signal, count, ran, cause>>
      BY <1>4, <1>10
    <2>2. Counted'
      BY <2>1 DEF Inv, Counted, Running
    <2>3. Moves(s) /\ pending'[s] = <<>>
      BY <2>1, <2>2 DEF Moves, Inv, TypeOK
    <2> QED
      BY <1>3, <1>4, <1>5, <1>6, <1>7, <1>8, <1>9, <1>10, <2>1, <2>3 DEF R, Drained
  <1>11. CASE d.queue # <<>>
    <2>1. Len(d.queue) <= MaxPending /\ \A j \in DOMAIN d.queue : d.queue[j] # <<>>
      BY <1>1, <1>3 DEF SessionInv, Placed
    <2>2. Waiting(d.queue) \subseteq Of(s)
      BY <1>1, <1>3, WaitingGiven DEF SessionInv, Given
    <2>3. /\ T.entry \in Entry /\ T.entry # <<>> /\ T.rest \in Queue
          /\ In(T.entry) \cup Waiting(T.rest) = Waiting(d.queue)
      BY <1>3, <1>11, <2>1, TakenIs
    <2>4. In(T.entry) \subseteq Of(s) /\ Waiting(T.rest) \subseteq Of(s)
      BY <2>2, <2>3
    <2>5. WithSessionQueue(s, T.entry, d.look.mode, T.rest)
      BY <1>4, <1>11
    <2>6. d.look.mode \in Mode
      BY <1>3 DEF Look
    <2>7. /\ Begins(s, T.entry, T.rest) \/ Waits(s, T.entry, d.look.mode, T.rest)
          /\ Moves(s)
      BY <2>3, <2>4, <2>5, <2>6, SessionQueueMoves DEF Inv
    <2> QED
      BY <1>3, <1>4, <1>5, <1>6, <1>7, <1>8, <1>9, <1>11, <2>7
         DEF R, Drained
  <1> QED
    BY <1>10, <1>11

LEMMA DrainKeeps ==
  ASSUME Inv, NEW s \in Sessions, NEW k \in DOMAIN drains[s], Drain(s, k)
  PROVE  Inv'
  <1> SUFFICES ASSUME NEW d, d = drains[s][k],
                      NEW T, T = Taken(d.queue, d.look.mode)
               PROVE  Inv'
    OBVIOUS
  <1> DEFINE e == T.entry
             rest == T.rest
             q == d.queue
             l == d.look
             Ends   == q = <<>> /\ pending'[s] = <<>> /\ UNCHANGED <<active, ran, cause>>
             Starts == q # <<>> /\ Begins(s, e, rest)
             Queued == q # <<>> /\ Waits(s, e, l.mode, rest)
  <1>1. /\ q \in Queues(s) /\ q \in Queue /\ l \in Look
        /\ drains' \in [Sessions -> Seq([queue : Seq(Seq(Messages)), look : Look])]
        /\ \A t \in Sessions \ {s} : drains'[t] = drains[t]
        /\ \A i \in DOMAIN drains'[s] : \E j \in DOMAIN drains[s] :
              drains'[s][i] = drains[s][j]
        /\ Unraced(s) => /\ drains'[s] = <<>> /\ active[s] = <<>>
                         /\ \A j \in DOMAIN drains[s] : drains[s][j] = d
        /\ modes' \in [Sessions -> Mode \cup {None}]
        /\ \A t \in Sessions \ {s} : modes'[t] = modes[t]
        /\ modes'[s] = IF l.miss THEN l.mode ELSE modes[s]
        /\ mishap' \in [Sessions -> SUBSET {"limited", "raced", "db", "mode"}]
        /\ \A t \in Sessions \ {s} : mishap'[t] = mishap[t]
        /\ mishap[s] \subseteq mishap'[s]
        /\ \A x \in mishap'[s] : x # "limited" => x \in mishap[s]
        /\ Moves(s) /\ (Ends \/ Starts \/ Queued)
        /\ q # <<>> /\ "limited" \notin mishap'[s] => ~IsLimited(s)
        /\ UNCHANGED <<at, look, stored, storing, closed, old, order, stopped, spent>>
    <2>0. Drained(s, d, T)
      BY DrainMoves
    <2>1. /\ q \in Queues(s) /\ q \in Queue /\ l \in Look
          /\ drains' \in [Sessions -> Seq([queue : Seq(Seq(Messages)), look : Look])]
          /\ \A t \in Sessions \ {s} : drains'[t] = drains[t]
          /\ \A i \in DOMAIN drains'[s] : \E j \in DOMAIN drains[s] :
                drains'[s][i] = drains[s][j]
          /\ Unraced(s) => /\ drains'[s] = <<>> /\ active[s] = <<>>
                           /\ \A j \in DOMAIN drains[s] : drains[s][j] = d
          /\ modes' \in [Sessions -> Mode \cup {None}]
          /\ \A t \in Sessions \ {s} : modes'[t] = modes[t]
          /\ modes'[s] = IF l.miss THEN l.mode ELSE modes[s]
          /\ mishap' \in [Sessions -> SUBSET {"limited", "raced", "db", "mode"}]
          /\ \A t \in Sessions \ {s} : mishap'[t] = mishap[t]
          /\ mishap[s] \subseteq mishap'[s]
          /\ \A x \in mishap'[s] : x # "limited" => x \in mishap[s]
          /\ \/ q = <<>> /\ Moves(s) /\ pending'[s] = <<>>
                /\ UNCHANGED <<active, ran, cause>>
             \/ /\ q # <<>> /\ Moves(s)
                /\ Begins(s, e, rest) \/ Waits(s, e, l.mode, rest)
                /\ "limited" \notin mishap'[s] => ~IsLimited(s)
          /\ UNCHANGED <<at, look, stored, storing, closed, old, order, stopped, spent>>
      BY <2>0 DEF Drained
    <2> HIDE DEF e, rest, q, l
    <2>2. Moves(s) /\ (Ends \/ Starts \/ Queued)
      BY <2>1
    <2> QED
      BY <2>1, <2>2
  <1>2. SessionInv(s) /\ drains[s] # <<>>
    BY DEF Inv, TypeOK
  <1>3. /\ Len(q) <= MaxPending
        /\ \A i \in DOMAIN q : q[i] # <<>> /\ In(q[i]) \subseteq Given(s)
        /\ Waiting(q) \subseteq Given(s) /\ Waiting(q) \subseteq Of(s)
    BY <1>1, <1>2, WaitingGiven DEF SessionInv, Placed, Given
  <1>4. q # <<>> =>
          /\ e \in Entry /\ e # <<>> /\ rest \in Queue
          /\ Len(rest) <= MaxPending
          /\ In(e) \cup Waiting(rest) = Waiting(q)
          /\ \A i \in DOMAIN rest : \E j \in DOMAIN q : rest[i] = q[j]
          /\ Apart(q) => Apart(rest) /\ In(e) \cap Waiting(rest) = {}
          /\ \A m, n : Ahead(m, n, q) =>
                m \in In(e) \/ (n \notin In(e) /\ Ahead(m, n, rest))
    <2> SUFFICES ASSUME q # <<>>
                 PROVE  /\ e \in Entry /\ e # <<>> /\ rest \in Queue
                        /\ Len(rest) <= MaxPending
                        /\ In(e) \cup Waiting(rest) = Waiting(q)
                        /\ \A i \in DOMAIN rest : \E j \in DOMAIN q : rest[i] = q[j]
                        /\ Apart(q) => Apart(rest) /\ In(e) \cap Waiting(rest) = {}
                        /\ \A m, n : Ahead(m, n, q) =>
                              m \in In(e) \/ (n \notin In(e) /\ Ahead(m, n, rest))
      OBVIOUS
    <2>1. q \in Queue /\ T = Taken(q, l.mode)
      BY <1>1
    <2>2. Len(q) <= MaxPending /\ \A i \in DOMAIN q : q[i] # <<>>
      BY <1>3
    <2> HIDE DEF q, l
    <2> QED
      BY <2>1, <2>2, TakenIs
  <1>5. \E j \in DOMAIN drains[s] : q = drains[s][j].queue /\ l = drains[s][j].look
    OBVIOUS
  <1>6. /\ s \notin closed => ~l.miss
        /\ "mode" \notin mishap[s] => l.mode = stored[s]
        /\ "mode" \notin mishap[s] /\ Unraced(s) => ~l.miss
    BY <1>2 DEF SessionInv, Known, OneMode
  <1>7. Clean(s) => Waiting(pending[s]) \ Waiting(q) \subseteq old
    BY <1>2 DEF SessionInv, Kept
  <1> HIDE DEF e, rest, q, l
  <1>8. /\ Len(pending'[s]) <= MaxPending
        /\ \A i \in DOMAIN pending'[s] :
              (q # <<>> /\ pending'[s][i] = e) \/ \E j \in DOMAIN q : pending'[s][i] = q[j]
        /\ Apart(q) => Apart(pending'[s])
    <2>1. CASE Ends
      <3>1. Len(<<>>) <= MaxPending /\ DOMAIN <<>> = {}
        BY SlackAssumption
      <3> QED
        BY <2>1, <3>1, NoneWaiting
    <2>2. CASE q # <<>> /\ (Begins(s, e, rest) \/ Waits(s, e, l.mode, rest))
      <3>1. In(e) \subseteq Of(s) /\ Waiting(rest) \subseteq Of(s)
        BY <1>3, <1>4, <2>2
      <3>2. /\ Len(pending'[s]) <= MaxPending
            /\ \A i \in DOMAIN pending'[s] :
                  pending'[s][i] = e \/ \E j \in DOMAIN rest : pending'[s][i] = rest[j]
            /\ Apart(rest) /\ In(e) \cap Waiting(rest) = {} => Apart(pending'[s])
        BY <1>4, <2>2, <3>1, MovedQueue DEF Inv
      <3> QED
        BY <1>4, <2>2, <3>2
    <2> QED
      BY <1>1, <2>1, <2>2
  <1>9. TypeOK'
    BY <1>1 DEF Inv, TypeOK, Moves
  <1>10. Counted'
    BY <1>1 DEF Moves
  <1>11. \A t \in Sessions \ {s} : Elsewhere(t)
    <2> SUFFICES ASSUME NEW t \in Sessions \ {s} PROVE Elsewhere(t)
      OBVIOUS
    <2>1. \A n \in Of(t) : n \in Messages \ Of(s)
      BY DEF Of
    <2> QED
      BY <1>1, <2>1 DEF Elsewhere, Moves
  <1>12. /\ Given(s)' = Given(s) /\ Of(s)' = Of(s)
         /\ \A x \in Queues(s)' : x = pending'[s] \/ x \in Queues(s)
         /\ Unraced(s)' => Unraced(s) /\ drains'[s] = <<>> /\ Queues(s)' = {pending'[s]}
         /\ Clean(s)' => /\ Clean(s) /\ Unraced(s)' /\ active[s] = <<>>
                         /\ q # <<>> => ~IsLimited(s)
         /\ Steady(s)' => Steady(s) /\ Clean(s)'
    <2>1. Given(s)' = Given(s) /\ Of(s)' = Of(s)
      BY <1>1 DEF Given, Of
    <2>2. \A x \in Queues(s)' : x = pending'[s] \/ x \in Queues(s)
      BY <1>1 DEF Queues
    <2>3. Unraced(s)' => Unraced(s) /\ drains'[s] = <<>> /\ Queues(s)' = {pending'[s]}
      BY <1>1 DEF Unraced, Queues
    <2> QED
      BY <1>1, <2>1, <2>2, <2>3 DEF Clean, Steady, Unraced
  <1>13. Clean(s)' => Ends \/ Starts
    <2>1. Clean(s)' => ~Queued
      BY <1>12 DEF Waits
    <2> QED
      BY <1>1, <2>1
  <1>14. /\ \A n \in Waiting(pending'[s]) : n \in Waiting(q)
         /\ \A i \in DOMAIN pending'[s] :
               pending'[s][i] # <<>> /\ In(pending'[s][i]) \subseteq Given(s)
    BY <1>3, <1>4, <1>8 DEF Waiting
  <1>15. /\ \A n \in Messages : n \notin Waiting(q) => ran'[n] = ran[n]
         /\ Ends \/ Queued => ran' = ran
    BY <1>1, <1>4 DEF Begins, Waits
  <1>16. Placed(s)'
    <2>1. \A x \in Queues(s)' :
             /\ Len(x) <= MaxPending
             /\ \A i \in DOMAIN x : x[i] # <<>> /\ In(x[i]) \subseteq Given(s)
      BY <1>2, <1>8, <1>12, <1>14 DEF SessionInv, Placed
    <2>2. ASSUME NEW n \in Of(s)
          PROVE  /\ ran'[n] > 0 \/ n \in stopped' \/ n \in ToSet(order)' => n \in Given(s)
                 /\ at'[n] = "looking" => look'[n] \in Look
      <3>1. n \in Messages /\ ToSet(order)' = ToSet(order)
        BY <1>1 DEF Of, ToSet
      <3>2. n \in Waiting(q) \/ ran'[n] = ran[n]
        BY <1>15, <3>1
      <3> QED
        BY <1>1, <1>2, <1>3, <3>1, <3>2 DEF SessionInv, Placed
    <2> QED
      BY <1>12, <2>1, <2>2 DEF Placed
  <1>17. Known(s)'
    <2> SUFFICES ASSUME s \notin closed PROVE Known(s)'
      BY <1>1 DEF Known
    <2>1. modes'[s] = modes[s] /\ modes[s] # None
      BY <1>1, <1>2, <1>6 DEF SessionInv, Known
    <2>2. /\ \A i \in DOMAIN drains[s] : ~drains[s][i].look.miss
          /\ "db" \notin mishap'[s]
      BY <1>1, <1>2 DEF SessionInv, Known
    <2> QED
      BY <1>1, <2>1, <2>2 DEF Known
  <1>18. OneMode(s)'
    <2> SUFFICES ASSUME "mode" \notin mishap'[s] PROVE OneMode(s)'
      BY DEF OneMode
    <2>1. "mode" \notin mishap[s]
      BY <1>1
    <2>2. /\ storing[s] = None /\ modes[s] \in {None, stored[s]}
          /\ \A n \in Of(s) : at[n] = "looking" => look[n].mode = stored[s]
          /\ \A i \in DOMAIN drains[s] : drains[s][i].look.mode = stored[s]
          /\ Unraced(s) => modes[s] # None /\ "db" \notin mishap[s]
      BY <1>2, <2>1 DEF SessionInv, OneMode
    <2>3. modes'[s] \in {None, stored[s]}
      BY <1>1, <1>6, <2>1, <2>2
    <2>4. Unraced(s)' => modes'[s] # None /\ drains'[s] = <<>> /\ "db" \notin mishap'[s]
      BY <1>1, <1>6, <1>12, <2>1, <2>2
    <2> QED
      BY <1>1, <1>12, <2>2, <2>3, <2>4 DEF OneMode
  <1>19. OnePlace(s)'
    <2> SUFFICES ASSUME Unraced(s)'
                 PROVE  /\ Apart(pending'[s]) /\ \A n \in Waiting(pending'[s]) : ran'[n] = 0
                        /\ \A n \in Of(s) : ran'[n] <= 1
      BY <1>12 DEF OnePlace
    <2>1. /\ Apart(q) /\ \A n \in Waiting(q) : ran[n] = 0
          /\ \A n \in Of(s) : ran[n] <= 1
      BY <1>1, <1>2, <1>12 DEF SessionInv, OnePlace
    <2>2. CASE Ends \/ Queued
      BY <1>8, <1>14, <1>15, <2>1, <2>2
    <2>3. CASE Starts
      <3>1. /\ \A n \in Messages : ran'[n] = IF n \in In(e) THEN ran[n] + 1 ELSE ran[n]
            /\ pending'[s] = rest
        BY <2>3 DEF Begins
      <3>2. \A n \in In(e) : ran[n] = 0
        BY <1>4, <2>1, <2>3
      <3>3. \A n \in Of(s) : ran'[n] <= 1
        BY <2>1, <3>1, <3>2 DEF Of
      <3>4. \A n \in Waiting(rest) : n \notin In(e) /\ ran[n] = 0 /\ n \in Messages
        BY <1>3, <1>4, <2>1, <2>3 DEF Of
      <3> QED
        BY <1>8, <2>1, <3>1, <3>3, <3>4
    <2> QED
      BY <1>1, <2>2, <2>3
  <1>20. \A n \in Of(s) : Settled(n) => ran'[n] > 0 \/ cause'[n] # {} \/ n \in old'
    BY <1>1 DEF Moves, Settled, Of
  <1>21. ASSUME Starts
         PROVE  /\ pending'[s] = rest /\ active'[s] # <<>>
                /\ \A n \in In(e) : n \in Of(s) => ran'[n] > 0
                /\ \A n \in Of(s) \ In(e) : ran'[n] = ran[n]
    <2>1. ran \in [Messages -> Nat] /\ e # <<>>
      BY <1>4, <1>21 DEF Inv, TypeOK
    <2> QED
      BY <1>21, <2>1 DEF Begins, Of
  <1>22. Kept(s)'
    <2> SUFFICES ASSUME Clean(s)'
                 PROVE  /\ \A i \in DOMAIN pending'[s] : Whole(pending'[s][i])
                        /\ pending'[s] # <<>> => active'[s] # <<>>
                        /\ "db" \notin mishap'[s] =>
                              \A n \in Given(s) :
                                    \/ ran'[n] > 0 \/ cause'[n] # {} \/ n \in old
                                    \/ n \in Waiting(pending'[s])
      BY <1>1, <1>12 DEF Kept, Settled
    <2>1. Clean(s) /\ (Ends \/ Starts)
      BY <1>12, <1>13
    <2>2. \A i \in DOMAIN q : Whole(q[i])
      BY <1>1, <1>2, <2>1 DEF SessionInv, Kept
    <2>3. \A i \in DOMAIN pending'[s] : Whole(pending'[s][i])
      BY <1>4, <1>21, <2>1, <2>2
    <2>4. pending'[s] # <<>> => active'[s] # <<>>
      BY <1>21, <2>1
    <2>5. ASSUME "db" \notin mishap'[s], NEW n \in Given(s)
          PROVE  ran'[n] > 0 \/ cause'[n] # {} \/ n \in old \/ n \in Waiting(pending'[s])
      <3>1. Settled(n) \/ n \in Waiting(pending[s])
        BY <1>1, <1>2, <2>1, <2>5 DEF SessionInv, Kept
      <3>2. n \in Of(s)
        BY DEF Given
      <3>3. CASE Settled(n)
        BY <1>1, <1>20, <3>2, <3>3
      <3>4. CASE n \in Waiting(q)
        <4>1. Starts
          BY <2>1, <3>4, NoneWaiting
        <4> QED
          BY <1>4, <1>21, <3>2, <3>4, <4>1
      <3> QED
        BY <1>7, <2>1, <3>1, <3>3, <3>4
    <2> QED
      BY <2>3, <2>4, <2>5
  <1>23. Silent(s)'
    <2> SUFFICES ASSUME Clean(s)', NEW n \in stopped, n \in Of(s)
                 PROVE  ran'[n] = 0 /\ n \notin Waiting(pending'[s])
      BY <1>1, <1>12 DEF Silent
    <2>1. ran[n] = 0 /\ n \notin Waiting(q) /\ n \in Messages
      BY <1>1, <1>2, <1>12 DEF SessionInv, Silent, Of
    <2> QED
      BY <1>14, <1>15, <2>1
  <1>24. Sorted(s)'
    <2> SUFFICES ASSUME Steady(s)', stored[s] \notin Steers, NEW p \in Earlier(s)
                 PROVE  LET m == order[p[1]]  n == order[p[2]]
                        IN  \/ ran'[m] > 0 \/ cause'[m] # {} \/ m \in old
                            \/ ran'[n] = 0 /\ Ahead(m, n, pending'[s])
      <3>1. Earlier(s)' = Earlier(s) /\ order' = order /\ stored' = stored /\ old' = old
        BY <1>1, <1>12 DEF Earlier
      <3>2. Steady(s)' => Queues(s)' = {pending'[s]}
        BY <1>12
      <3> QED
        BY <3>1, <3>2 DEF Sorted, Settled
    <2> DEFINE m == order[p[1]]
               n == order[p[2]]
    <2>1. Steady(s) /\ (Ends \/ Starts)
      BY <1>12, <1>13
    <2>2. m \in Of(s) /\ n \in Of(s)
      BY DEF Earlier
    <2>3. Settled(m) \/ (ran[n] = 0 /\ Ahead(m, n, q))
      BY <1>1, <1>2, <2>1 DEF SessionInv, Sorted
    <2> HIDE DEF m, n
    <2>4. CASE Settled(m)
      BY <1>1, <1>20, <2>2, <2>4 DEF m
    <2>5. CASE ran[n] = 0 /\ Ahead(m, n, q) /\ Ends
      BY <1>15, <2>5, NoneWaiting DEF m, n
    <2>6. CASE ran[n] = 0 /\ Ahead(m, n, q) /\ Starts
      <3>1. m \in In(e) \/ (n \notin In(e) /\ Ahead(m, n, rest))
        BY <1>4, <2>6
      <3>2. CASE m \in In(e)
        BY <1>21, <2>2, <2>6, <3>2 DEF m
      <3>3. CASE n \notin In(e) /\ Ahead(m, n, rest)
        BY <1>21, <2>2, <2>6, <3>3 DEF m, n
      <3> QED
        BY <3>1, <3>2, <3>3
    <2> QED
      BY <2>1, <2>3, <2>4, <2>5, <2>6
  <1>25. SessionInv(s)'
    BY <1>16, <1>17, <1>18, <1>19, <1>22, <1>23, <1>24 DEF SessionInv
  <1> QED
    BY <1>9, <1>10, <1>11, <1>25, OneSessionMoves

----------------------------------------------------------------------------
LEMMA Stuttering ==
  ASSUME Inv, UNCHANGED vars
  PROVE  Inv'
  <1>1. /\ UNCHANGED <<at, modeVars, queueVars, drains, closed, old, historyVars, spent>>
    BY DEF vars
  <1>2. TypeOK' /\ Counted'
    BY <1>1 DEF Inv, TypeOK, Counted, Running, modeVars, queueVars, historyVars
  <1>3. \A t \in Sessions : Elsewhere(t)
    BY <1>1 DEF Elsewhere, modeVars, queueVars, historyVars
  <1> QED
    BY <1>2, <1>3, SessionStays DEF Inv

LEMMA StepKeeps ==
  ASSUME Inv, Next
  PROVE  Inv'
  <1>1. ASSUME NEW m \in Messages, Arrive(m) \/ LookUp(m) \/ Submit(m) \/ HandlerFails(m)
        PROVE  Inv'
    BY <1>1, ArriveKeeps, LookUpKeeps, SubmitKeeps, HandlerFailsKeeps
  <1>2. ASSUME NEW s \in Sessions,
               \/ RunEnds(s) \/ Stop(s) \/ Clear(s) \/ Reset(s) \/ StoreMode(s)
               \/ Lapse(s)
        PROVE  Inv'
    BY <1>2, RunEndsKeeps, StopKeeps, ClearKeeps, ResetKeeps, StoreModeKeeps, LapseKeeps
  <1>3. ASSUME NEW s \in Sessions, NEW mode \in Settable, SetMode(s, mode)
        PROVE  Inv'
    BY <1>3, SetModeKeeps
  <1>4. ASSUME NEW s \in Sessions, NEW k \in DOMAIN drains[s],
               Drain(s, k) \/ DrainFails(s, k)
        PROVE  Inv'
    BY <1>4, DrainKeeps, DrainFailsKeeps
  <1> QED
    BY <1>1, <1>2, <1>3, <1>4 DEF Next

(* The invariant of the queue (runtime.ts:264), from which its properties  *)
(* follow.                                                                 *)
THEOREM SlackInvariant == Spec => []Inv
  <1>1. Inv /\ [Next]_vars => Inv'
    BY StepKeeps, Stuttering
  <1> QED
    BY <1>1, Initially, PTL DEF Spec

----------------------------------------------------------------------------
(* The queue's theorems.                                                   *)

(* The variables have their types (slack/monitor/runtime.ts:236).          *)
THEOREM SlackTyped == Spec => []TypeOK
  <1>1. Inv => TypeOK
    BY DEF Inv
  <1> QED
    BY <1>1, SlackInvariant, PTL

(* globalRunCount is the number of sessions with a run, and within the     *)
(* limit, although a run that ends gives its place back before it takes    *)
(* one for what it drains (runtime.ts:322); and no message is given to two *)
(* runs, unless a message or a command came between the two halves.        *)
THEOREM RunsAreCounted == Spec => []RunsCounted
  <1>1. ASSUME Inv PROVE RunsCounted
    <2>1. count = Cardinality({s \in Sessions : active[s] # <<>>}) /\ count <= MaxRuns
      BY <1>1, SlackAssumption DEF Inv, Counted, Running, TypeOK
    <2>2. ASSUME NEW m \in Messages, ran[m] > 1 PROVE "raced" \in mishap[SessionOf[m]]
      <3>1. SessionOf[m] \in Sessions /\ m \in Of(SessionOf[m]) /\ ran[m] \in Nat
        BY <1>1, SlackAssumption DEF Of, Inv, TypeOK
      <3>2. Unraced(SessionOf[m]) => ran[m] <= 1
        BY <1>1, <3>1 DEF Inv, SessionInv, OnePlace
      <3> QED
        BY <2>2, <3>1, <3>2 DEF Unraced
    <2> QED
      BY <2>1, <2>2 DEF RunsCounted
  <1> QED
    BY <1>1, SlackInvariant, PTL

(* A message that was submitted begins, or waits where a run or the end of *)
(* one will find it (runtime.ts:326): or one of the listed things befell   *)
(* it or its session.                                                      *)
THEOREM NoneForgotten == Spec => []Attended
  <1>1. ASSUME Inv PROVE Attended
    <2> SUFFICES ASSUME NEW m \in Messages, at[m] = "given", ran[m] = 0,
                        cause[m] = {}, m \notin old,
                        mishap[SessionOf[m]] \cap {"limited", "raced", "db"} = {}
                 PROVE  /\ m \in Waiting(pending[SessionOf[m]])
                        /\ active[SessionOf[m]] # <<>> \/ IsDraining(SessionOf[m])
      BY DEF Attended
    <2> DEFINE s == SessionOf[m]
    <2>1. s \in Sessions /\ m \in Given(s) /\ ~Settled(m)
      BY SlackAssumption DEF Given, Of, Settled
    <2> HIDE DEF s
    <2>2. Clean(s) /\ "db" \notin mishap[s]
      BY DEF Clean, Unraced, s
    <2>3. /\ m \in Waiting(pending[s])
          /\ pending[s] # <<>> => active[s] # <<>> \/ IsDraining(s)
      BY <1>1, <2>1, <2>2 DEF Inv, SessionInv, Kept
    <2> QED
      BY <2>3, NoneWaiting DEF s
  <1> QED
    BY <1>1, SlackInvariant, PTL

(* Without steering, changes of the mode and the limit, a session's        *)
(* messages are given to runs in the order in which they were submitted,   *)
(* but for those that are never given (runtime.ts:334).                    *)
THEOREM OrderIsKept == Spec => []InOrder
  <1>1. ASSUME Inv PROVE InOrder
    <2> SUFFICES ASSUME NEW i \in DOMAIN order, NEW j \in DOMAIN order, i < j,
                        SessionOf[order[j]] = SessionOf[order[i]],
                        stored[SessionOf[order[i]]] \notin Steers, ran[order[j]] > 0,
                        mishap[SessionOf[order[i]]] \cap {"limited", "raced", "mode"} = {}
                 PROVE  Settled(order[i])
      BY DEF InOrder, Settled
    <2> DEFINE s == SessionOf[order[i]]
    <2>1. order[i] \in Messages /\ order[j] \in Messages
      BY <1>1 DEF Inv, TypeOK
    <2>2. s \in Sessions /\ order[i] \in Of(s) /\ order[j] \in Of(s)
      BY <2>1, SlackAssumption DEF Of
    <2>3. <<i, j>> \in Earlier(s)
      BY <2>2 DEF Earlier
    <2>4. Steady(s) /\ stored[s] \notin Steers
      BY DEF Steady, Clean, Unraced
    <2> HIDE DEF s
    <2>5. Settled(order[i]) \/ ran[order[j]] = 0
      BY <1>1, <2>2, <2>3, <2>4 DEF Inv, SessionInv, Sorted
    <2> QED
      BY <2>5
  <1> QED
    BY <1>1, SlackInvariant, PTL

(* What waited when a stop was acknowledged never begins, unless it waited *)
(* for the limit, or the run was just ending (runtime.ts:617).             *)
THEOREM StopsHold == Spec => []StopHolds
  <1>1. ASSUME Inv PROVE StopHolds
    <2> SUFFICES ASSUME NEW m \in stopped, ran[m] > 0,
                        mishap[SessionOf[m]] \cap {"limited", "raced"} = {}
                 PROVE  FALSE
      BY DEF StopHolds
    <2>1. m \in Messages /\ SessionOf[m] \in Sessions /\ m \in Of(SessionOf[m])
      BY <1>1, SlackAssumption DEF Inv, TypeOK, Of
    <2>2. Clean(SessionOf[m])
      BY DEF Clean, Unraced
    <2>3. ran[m] = 0
      BY <1>1, <2>1, <2>2 DEF Inv, SessionInv, Silent
    <2> QED
      BY <2>3
  <1> QED
    BY <1>1, SlackInvariant, PTL
=============================================================================
