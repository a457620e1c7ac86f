------------------------- MODULE AchievementsProofs -------------------------
(***************************************************************************)
(* What Achievements and SubjectMatching promise for every set of courses,  *)
(* rules, catalogs, recipes and calls.                                      *)
(*                                                                          *)
(* The matching.  An attempt to seat a rating never misses a way, although  *)
(* a slot that was looked at in vain is not looked at again: the slots an   *)
(* attempt has left behind hold ratings that all their slots accept only    *)
(* among themselves.  A rule is met exactly if its slots can be filled, and *)
(* no way to fill them uses fewer fallback ratings.  The recursions are     *)
(* followed from their least counterexample.                                *)
(*                                                                          *)
(* The titles.  The invariant IInv has four parts.  TitlesOK: the titles    *)
(* that are held form chains, each title required by one other at most, and *)
(* whatever is superseded is required by a title that is held, is a source  *)
(* of one person title, or was left behind by one.  EarnedOK: the titles that are held are      *)
(* earned, nothing else has evidence, and no two active titles share a      *)
(* silver or gold tier.  CallsOK: what a call in progress has read.         *)
(* TypeOK.  The properties of steps follow from it: a deletion looks at the *)
(* one chain the rating belongs to, and what it leaves fills that chain.    *)
(***************************************************************************)
EXTENDS Achievements, FiniteSetTheorems, WellFoundedInduction, TLAPS

-----------------------------------------------------------------------------
(* A rating is given a slot by moving others: what an attempt returns. *)

Seats(slots) == [DOMAIN slots -> Course \cup {Free}]
Attempts(slots) == Course \X Nat \X (SUBSET DOMAIN slots) \X Seats(slots)
Results(slots) == [ok : BOOLEAN, visited : SUBSET DOMAIN slots, holds : Seats(slots)]

\* One attempt, with f for the attempts it makes in turn.
AttemptWith(slots, f, c, k, visited, holds) ==
  IF k \notin DOMAIN slots
  THEN [ok |-> FALSE, visited |-> visited, holds |-> holds]
  ELSE IF k \in visited \/ Subject[c] \notin slots[k]
  THEN f[<<c, k + 1, visited, holds>>]
  ELSE LET moved == IF holds[k] = Free
                    THEN [ok |-> TRUE, visited |-> visited, holds |-> holds]
                    ELSE f[<<holds[k], 1, visited \cup {k}, holds>>]
       IN  IF moved.ok
           THEN [moved EXCEPT !.holds[k] = c]
           ELSE f[<<c, k + 1, moved.visited, holds>>]

IsAssign(slots, f) ==
  f = [x \in Attempts(slots) |-> AttemptWith(slots, f, x[1], x[2], x[3], x[4])]

LEMMA AugmentIs ==
  ASSUME NEW slots, NEW c, NEW held, \E f : IsAssign(slots, f)
  PROVE  \E f : IsAssign(slots, f) /\ Augment(slots, c, held) = f[<<c, 1, {}, held>>].holds
<1> DEFINE f == CHOOSE f : IsAssign(slots, f)
<1>1. IsAssign(slots, f)
  OBVIOUS
<1>2. Augment(slots, c, held) = f[<<c, 1, {}, held>>].holds
  BY DEF Augment, IsAssign, AttemptWith, Attempts, Seats
<1> QED BY <1>1, <1>2

\* Every attempt made in turn looks at a later slot, or forgets a slot for good.
Weight(slots, k, visited) ==
  IF k \in DOMAIN slots
  THEN Cardinality(DOMAIN slots \ visited) * (Len(slots) + 2) + (Len(slots) + 1 - k)
  ELSE 0

Seated(holds, K) == {holds[j] : j \in K} \ {Free}
Apart(holds, K) == \A i, j \in K : i # j /\ holds[i] = holds[j] => holds[i] = Free
\* c sits nowhere in K, and each rating of K sits in one slot; and what comes of
\* giving c a slot there.
MayTake(holds, K, c) == Apart(holds, K) /\ c \notin Seated(holds, K) /\ c # Free
Takes(after, holds, K, c) ==
  Apart(after, K) /\ Seated(after, K) = Seated(holds, K) \cup {c}
Agree(after, holds, K) == \A j \in K : after[j] = holds[j]
Fits(slots, holds) == \A j \in DOMAIN slots : holds[j] # Free => Subject[holds[j]] \in slots[j]

\* The slots that accept c; and slots whose ratings are accepted in W alone.
Wants(slots, c) == {j \in DOMAIN slots : Subject[c] \in slots[j]}
DeadEnds(slots, holds, V, W) ==
  \A j \in V : holds[j] # Free /\ Wants(slots, holds[j]) \subseteq W

\* An attempt that fails leaves every seat as it was and has looked at all slots that
\* could have helped; one that succeeds leaves the slots it must not look at, and
\* seats c besides those that sat elsewhere.
Good(slots, c, k, visited, holds, r) ==
  /\ visited \subseteq r.visited
  /\ ~r.ok =>
       /\ r.holds = holds
       /\ DeadEnds(slots, holds, r.visited \ visited, r.visited)
       /\ k > 0 => \A j \in Wants(slots, c) : j >= k => j \in r.visited
  /\ r.ok =>
       /\ Agree(r.holds, holds, visited)
       /\ Fits(slots, holds) => Fits(slots, r.holds)
       /\ LET K == DOMAIN slots \ visited
          IN  MayTake(holds, K, c) => Takes(r.holds, holds, K, c)

LEMMA UpTo ==
  ASSUME NEW n \in Nat
  PROVE  IsFiniteSet(1..n) /\ Cardinality(1..n) = n
<1>1. 1 \in Int /\ n \in Int
  OBVIOUS
<1>2. IsFiniteSet(1..n) /\ Cardinality(1..n) = IF 1 > n THEN 0 ELSE n - 1 + 1
  BY <1>1, FS_Interval
<1> QED BY <1>2

LEMMA SlotsFinite ==
  ASSUME NEW slots \in Slots
  PROVE  /\ Len(slots) \in Nat /\ DOMAIN slots = 1..Len(slots)
         /\ IsFiniteSet(DOMAIN slots) /\ Cardinality(DOMAIN slots) = Len(slots)
         /\ \A V : /\ IsFiniteSet(DOMAIN slots \ V)
                   /\ Cardinality(DOMAIN slots \ V) \in Nat
                   /\ Cardinality(DOMAIN slots \ V) <= Len(slots)
<1>1. Len(slots) \in Nat /\ DOMAIN slots = 1..Len(slots)
  BY DEF Slots
<1>2. IsFiniteSet(1..Len(slots)) /\ Cardinality(1..Len(slots)) = Len(slots)
  BY <1>1, UpTo
<1>3. ASSUME NEW V PROVE /\ IsFiniteSet(DOMAIN slots \ V)
                         /\ Cardinality(DOMAIN slots \ V) \in Nat
                         /\ Cardinality(DOMAIN slots \ V) <= Len(slots)
  <2>1. DOMAIN slots \ V \in SUBSET DOMAIN slots
    OBVIOUS
  <2> QED BY <1>1, <1>2, <2>1, FS_Subset, FS_CardinalityType
<1> QED BY <1>1, <1>2, <1>3

LEMMA Products ==
  ASSUME NEW a \in Nat, NEW b \in Nat, NEW w \in Nat
  PROVE  /\ a * w \in Nat
         /\ a <= b => a * w <= b * w
         /\ a < b => a * w + w <= b * w
<1>1. a * w \in Nat /\ b * w \in Nat
  OBVIOUS
<1>2. ASSUME a <= b PROVE a * w <= b * w
  <2>1. (b - a) \in Nat
    BY <1>2
  <2>2. (b - a) * w \in Nat
    BY <2>1
  <2>3. (b - a) * w = b * w - a * w
    OBVIOUS
  <2> QED BY <1>1, <2>2, <2>3
<1>3. ASSUME a < b PROVE a * w + w <= b * w
  <2>1. (b - a - 1) \in Nat
    BY <1>3
  <2>2. (b - a - 1) * w \in Nat
    BY <2>1
  <2>3. (b - a - 1) * w = b * w - a * w - w
    OBVIOUS
  <2> QED BY <1>1, <2>2, <2>3
<1> QED BY <1>1, <1>2, <1>3

LEMMA WeightType ==
  ASSUME NEW slots \in Slots, NEW k \in Nat, NEW V
  PROVE  /\ Weight(slots, k, V) \in Nat
         /\ Weight(slots, k, V) <= Len(slots) * (Len(slots) + 2) + Len(slots)
<1> DEFINE n == Len(slots)
           d == Cardinality(DOMAIN slots \ V)
<1>1. n \in Nat /\ DOMAIN slots = 1..n /\ d \in Nat /\ d <= n
  BY SlotsFinite
<1>2. d * (n + 2) \in Nat /\ d * (n + 2) <= n * (n + 2) /\ n * (n + 2) \in Nat
  BY <1>1, Products
<1> HIDE DEF n, d
<1>3. CASE k \in 1..n
  <2>1. Weight(slots, k, V) = d * (n + 2) + (n + 1 - k)
    BY <1>1, <1>3 DEF Weight, n, d
  <2> DEFINE p == d * (n + 2)
             q == n * (n + 2)
  <2>2. p \in Nat /\ q \in Nat /\ p <= q
    BY <1>2
  <2> HIDE DEF p, q
  <2>3. p + (n + 1 - k) \in Nat /\ p + (n + 1 - k) <= q + n
    BY <1>1, <1>3, <2>2
  <2> QED BY <2>1, <2>3 DEF p, q, n
<1>4. CASE k \notin 1..n
  <2>1. Weight(slots, k, V) = 0
    BY <1>1, <1>4 DEF Weight
  <2> QED BY <1>1, <1>2, <2>1 DEF n
<1> QED BY <1>3, <1>4

LEMMA WeightDrops ==
  ASSUME NEW slots \in Slots, NEW k \in DOMAIN slots, NEW V
  PROVE  /\ Weight(slots, k + 1, V) < Weight(slots, k, V)
         /\ \A U : V \subseteq U /\ k \in U /\ k \notin V =>
              /\ Weight(slots, 1, U) < Weight(slots, k, V)
              /\ Weight(slots, k + 1, U) < Weight(slots, k, V)
<1> DEFINE n == Len(slots)
           D == DOMAIN slots
           d == Cardinality(D \ V)
           w == n + 2
<1>0. n \in Nat /\ D = 1..n /\ d \in Nat
  BY SlotsFinite
<1>1. n \in Nat /\ D = 1..n /\ d \in Nat /\ k \in 1..n /\ w \in Nat
  BY <1>0
<1>2. d * w \in Nat
  BY <1>1, Products
<1>3. Weight(slots, k, V) = d * w + (n + 1 - k)
  BY DEF Weight
<1>4. Weight(slots, k + 1, V) = IF k + 1 \in D THEN d * w + (n + 1 - (k + 1)) ELSE 0
  BY DEF Weight
<1>5. Weight(slots, k + 1, V) < Weight(slots, k, V)
  <2> DEFINE p == d * w
  <2>1. p \in Nat
    BY <1>2
  <2> HIDE DEF p, n, D, d, w
  <2>2. p + (n + 1 - (k + 1)) < p + (n + 1 - k) /\ 0 < p + (n + 1 - k)
    BY <1>1, <2>1
  <2> QED BY <1>3, <1>4, <2>2 DEF p
<1>6. ASSUME NEW U, V \subseteq U, k \in U, k \notin V
      PROVE  /\ Weight(slots, 1, U) < Weight(slots, k, V)
             /\ Weight(slots, k + 1, U) < Weight(slots, k, V)
  <2> DEFINE e == Cardinality(D \ U)
  <2>1. e \in Nat /\ e < d
    <3>1. IsFiniteSet(D \ V) /\ e \in Nat /\ d \in Nat
      BY SlotsFinite
    <3>2. D \ U \in SUBSET (D \ V) /\ D \ U # D \ V
      BY <1>6
    <3>3. e <= d /\ (d = e => D \ V = D \ U)
      BY <3>1, <3>2, FS_Subset
    <3> HIDE DEF d, e
    <3> QED BY <3>1, <3>2, <3>3
  <2>2. e * w \in Nat /\ e * w + w <= d * w
    BY <1>1, <2>1, Products
  <2>3. /\ Weight(slots, 1, U) = IF 1 \in D THEN e * w + (n + 1 - 1) ELSE 0
        /\ Weight(slots, k + 1, U) = IF k + 1 \in D THEN e * w + (n + 1 - (k + 1)) ELSE 0
    BY DEF Weight
  <2> DEFINE p == d * w
             q == e * w
  <2>4. p \in Nat /\ q \in Nat /\ q + w <= p /\ w = n + 2
    BY <1>2, <2>2
  <2> HIDE DEF p, q, n, D, d, e, w
  <2>5. /\ q + (n + 1 - 1) < p + (n + 1 - k)
        /\ q + (n + 1 - (k + 1)) < p + (n + 1 - k)
        /\ 0 < p + (n + 1 - k)
    BY <1>1, <2>4
  <2> QED BY <1>3, <2>3, <2>5 DEF p, q
<1> QED BY <1>5, <1>6

LEMMA AttemptTypes ==
  ASSUME NEW slots \in Slots, NEW f \in [Attempts(slots) -> Results(slots)],
         NEW c \in Course, NEW k \in Nat, NEW V \in SUBSET DOMAIN slots,
         NEW h \in Seats(slots)
  PROVE  AttemptWith(slots, f, c, k, V, h) \in Results(slots)
<1>0. ASSUME NEW a \in Course, NEW l \in Nat, NEW U \in SUBSET DOMAIN slots
      PROVE  f[<<a, l, U, h>>] \in Results(slots)
  BY DEF Attempts
<1>1. CASE k \notin DOMAIN slots
  BY <1>1 DEF AttemptWith, Results
<1>2. CASE k \in DOMAIN slots /\ (k \in V \/ Subject[c] \notin slots[k])
  <2>1. AttemptWith(slots, f, c, k, V, h) = f[<<c, k + 1, V, h>>]
    BY <1>2 DEF AttemptWith
  <2>2. f[<<c, k + 1, V, h>>] \in Results(slots)
    BY <1>0
  <2> QED BY <2>1, <2>2
<1>3. CASE k \in DOMAIN slots /\ ~(k \in V \/ Subject[c] \notin slots[k])
  <2> DEFINE moved == IF h[k] = Free
                      THEN [ok |-> TRUE, visited |-> V, holds |-> h]
                      ELSE f[<<h[k], 1, V \cup {k}, h>>]
  <2>1. moved \in Results(slots)
    <3>1. CASE h[k] = Free
      BY <3>1 DEF Results
    <3>2. CASE h[k] # Free
      <4>1. h[k] \in Course /\ V \cup {k} \in SUBSET DOMAIN slots
        BY <1>3, <3>2 DEF Seats
      <4> QED BY <1>0, <3>2, <4>1
    <3> QED BY <3>1, <3>2
  <2>2. AttemptWith(slots, f, c, k, V, h) =
          IF moved.ok THEN [moved EXCEPT !.holds[k] = c]
          ELSE f[<<c, k + 1, moved.visited, h>>]
    BY <1>3 DEF AttemptWith
  <2> HIDE DEF moved
  <2>3. [moved EXCEPT !.holds[k] = c] \in Results(slots)
    BY <2>1 DEF Results, Seats
  <2>4. moved.visited \in SUBSET DOMAIN slots
    BY <2>1 DEF Results
  <2>5. f[<<c, k + 1, moved.visited, h>>] \in Results(slots)
    BY <1>0, <2>4
  <2> QED BY <2>2, <2>3, <2>5
<1> QED BY <1>1, <1>2, <1>3

\* The rating of slot k moves elsewhere among the other slots, and c takes its place.
LEMMA Reseat ==
  ASSUME NEW N, NEW V \in SUBSET N, NEW h, NEW g, NEW c, NEW k \in N \ V,
         g \in [N -> Course \cup {Free}], h[k] # Free,
         Agree(g, h, V \cup {k}), MayTake(h, N \ V, c),
         Takes(g, h, N \ (V \cup {k}), h[k])
  PROVE  Takes([g EXCEPT ![k] = c], h, N \ V, c)
<1> DEFINE K == N \ V
           L == N \ (V \cup {k})
           q == [g EXCEPT ![k] = c]
<1>0. /\ c # Free /\ \A j \in V \cup {k} : g[j] = h[j]
      /\ Apart(h, K) /\ c \notin Seated(h, K)
      /\ Apart(g, L) /\ Seated(g, L) = Seated(h, L) \cup {h[k]}
  BY DEF Agree, MayTake, Takes
<1>1. K = L \cup {k} /\ k \notin L
  OBVIOUS
<1>2. q[k] = c /\ \A j \in L : q[j] = g[j]
  OBVIOUS
<1>3. Seated(q, L) = Seated(g, L)
  BY <1>2 DEF Seated
<1>4. Seated(h, K) = Seated(h, L) \cup {h[k]}
  BY <1>1 DEF Seated
<1>5. Seated(q, K) = Seated(q, L) \cup {c}
  BY <1>0, <1>1, <1>2 DEF Seated
<1>6. Seated(q, K) = Seated(h, K) \cup {c}
  BY <1>0, <1>3, <1>4, <1>5
<1>7. Apart(q, K)
  <2>1. \A j \in L : g[j] # c
    <3>1. c \notin Seated(g, L)
      BY <1>0, <1>4
    <3> QED BY <1>0, <3>1 DEF Seated
  <2>2. \A i, j \in L : i # j /\ q[i] = q[j] => q[i] = Free
    BY <1>0, <1>2 DEF Apart
  <2> QED BY <1>1, <1>2, <2>1, <2>2 DEF Apart
<1> QED BY <1>6, <1>7 DEF Takes

\* Looking at fewer slots loses nothing: the others keep what they hold.
LEMMA LookLess ==
  ASSUME NEW N, NEW V, NEW U, V \subseteq U, U \subseteq N, NEW h, NEW g, NEW c,
         Agree(g, h, U), MayTake(h, N \ V, c), Takes(g, h, N \ U, c)
  PROVE  Takes(g, h, N \ V, c)
<1> DEFINE K == N \ V
           L == N \ U
           M == U \ V
<1>0. /\ c # Free /\ \A j \in U : g[j] = h[j]
      /\ Apart(h, K) /\ c \notin Seated(h, K)
      /\ Apart(g, L) /\ Seated(g, L) = Seated(h, L) \cup {c}
  BY DEF Agree, MayTake, Takes
<1>1. K = L \cup M
  OBVIOUS
<1>2. \A j \in M : g[j] = h[j] /\ j \in K
  BY <1>0
<1>3. Seated(g, M) = Seated(h, M)
  BY <1>2 DEF Seated
<1>4. /\ Seated(g, K) = Seated(g, L) \cup Seated(g, M)
      /\ Seated(h, K) = Seated(h, L) \cup Seated(h, M)
  BY <1>1 DEF Seated
<1>5. Seated(g, K) = Seated(h, K) \cup {c}
  BY <1>0, <1>3, <1>4
<1>6. ASSUME NEW i \in K, NEW j \in K, i # j, g[i] = g[j], g[i] # Free PROVE FALSE
  <2>1. ASSUME NEW a \in L, NEW b \in M, g[a] = g[b], g[a] # Free PROVE FALSE
    <3>1. h[b] = g[a] /\ h[b] # c
      BY <1>0, <1>2, <2>1 DEF Seated
    <3>2. g[a] \in Seated(g, L)
      BY <2>1 DEF Seated
    <3>3. h[b] \in Seated(h, L)
      BY <1>0, <3>1, <3>2
    <3>4. PICK e \in L : h[e] = h[b]
      BY <3>3 DEF Seated
    <3>5. e # b /\ e \in K /\ b \in K
      BY <1>2
    <3> QED BY <1>0, <2>1, <3>1, <3>4, <3>5 DEF Apart
  <2>2. CASE i \in L /\ j \in L
    BY <1>0, <1>6, <2>2 DEF Apart
  <2>3. CASE i \in M /\ j \in M
    BY <1>0, <1>2, <1>6, <2>3 DEF Apart
  <2>4. CASE i \in L /\ j \in M
    BY <1>6, <2>1, <2>4
  <2>5. CASE i \in M /\ j \in L
    BY <1>6, <2>1, <2>5
  <2> QED BY <1>1, <2>2, <2>3, <2>4, <2>5
<1>7. Apart(g, K)
  BY <1>6 DEF Apart
<1> QED BY <1>5, <1>7 DEF Takes

\* An attempt does what it should if those it makes in turn do.
LEMMA AttemptGood ==
  ASSUME NEW slots \in Slots, NEW f \in [Attempts(slots) -> Results(slots)],
         NEW c \in Course, NEW k \in Nat, NEW V \in SUBSET DOMAIN slots,
         NEW h \in Seats(slots),
         \A a \in Course, l \in Nat, U \in SUBSET DOMAIN slots :
           Weight(slots, l, U) < Weight(slots, k, V) => Good(slots, a, l, U, h, f[<<a, l, U, h>>])
  PROVE  Good(slots, c, k, V, h, AttemptWith(slots, f, c, k, V, h))
<1> DEFINE N == DOMAIN slots
<1>0. c # Free /\ k + 1 \in Nat /\ 1 \in Nat
  BY CourseAssumption DEF Free
<1>1. CASE k \notin N
  <2>1. k > 0 => \A j \in Wants(slots, c) : ~(j >= k)
    BY <1>1, SlotsFinite DEF Wants
  <2> QED BY <1>1, <2>1 DEF AttemptWith, Good, DeadEnds
<1>2. CASE k \in N /\ (k \in V \/ Subject[c] \notin slots[k])
  <2> DEFINE s == f[<<c, k + 1, V, h>>]
  <2>1. Good(slots, c, k + 1, V, h, s)
    BY <1>0, <1>2, WeightDrops
  <2>2. AttemptWith(slots, f, c, k, V, h) = s
    BY <1>2 DEF AttemptWith
  <2> HIDE DEF s
  <2>3. ASSUME ~s.ok, NEW j \in Wants(slots, c), j >= k PROVE j \in s.visited
    <3>1. V \subseteq s.visited /\ \A i \in Wants(slots, c) : i >= k + 1 => i \in s.visited
      BY <1>0, <2>1, <2>3 DEF Good
    <3>2. CASE j = k
      BY <1>2, <3>1, <3>2 DEF Wants
    <3>3. CASE j # k
      <4>1. j \in Nat
        BY SlotsFinite DEF Wants
      <4>2. j >= k + 1
        BY <2>3, <3>3, <4>1
      <4> QED BY <3>1, <4>2
    <3> QED BY <3>2, <3>3
  <2> QED BY <2>1, <2>2, <2>3 DEF Good
<1>3. CASE k \in N /\ ~(k \in V \/ Subject[c] \notin slots[k])
  <2> DEFINE moved == IF h[k] = Free
                      THEN [ok |-> TRUE, visited |-> V, holds |-> h]
                      ELSE f[<<h[k], 1, V \cup {k}, h>>]
             r == [moved EXCEPT !.holds[k] = c]
             s == f[<<c, k + 1, moved.visited, h>>]
             U == V \cup {k}
  <2>0. k \in N \ V /\ U \in SUBSET N /\ Subject[c] \in slots[k]
    BY <1>3
  <2>1. AttemptWith(slots, f, c, k, V, h) = IF moved.ok THEN r ELSE s
    BY <1>3 DEF AttemptWith
  <2>2. CASE h[k] = Free
    <3> DEFINE q == [h EXCEPT ![k] = c]
    <3>0. moved = [ok |-> TRUE, visited |-> V, holds |-> h]
      BY <2>2
    <3> HIDE DEF moved
    <3>1. moved.ok /\ r.ok /\ r.visited = V /\ r.holds = q
      <4>1. moved \in Results(slots)
        BY <3>0 DEF Results
      <4>2. moved.ok /\ moved.visited = V /\ moved.holds = h
        BY <3>0
      <4> QED BY <4>1, <4>2 DEF Results
    <3> HIDE DEF r, s
    <3>2. q[k] = c /\ \A j \in N \ {k} : q[j] = h[j]
      BY <2>0 DEF Seats
    <3>3. Agree(q, h, V)
      BY <2>0, <3>2 DEF Agree
    <3>4. Fits(slots, h) => Fits(slots, q)
      BY <2>0, <3>2 DEF Fits
    <3>5. ASSUME MayTake(h, N \ V, c) PROVE Takes(q, h, N \ V, c)
      <4>0. Apart(h, N \ V) /\ c \notin Seated(h, N \ V)
        BY <3>5 DEF MayTake
      <4>1. N \ V = (N \ U) \cup {k} /\ k \notin N \ U
        BY <2>0
      <4>2. Seated(q, N \ V) = Seated(q, N \ U) \cup {c}
        BY <1>0, <3>2, <4>1 DEF Seated
      <4>3. Seated(h, N \ V) = Seated(h, N \ U)
        BY <2>2, <4>1 DEF Seated
      <4>4. Seated(q, N \ U) = Seated(h, N \ U)
        BY <3>2 DEF Seated
      <4>5. \A j \in N \ U : h[j] # c
        BY <1>0, <4>0, <4>1 DEF Seated
      <4>6. Apart(q, N \ V)
        BY <3>2, <4>0, <4>1, <4>5 DEF Apart
      <4> QED BY <4>2, <4>3, <4>4, <4>6 DEF Takes
    <3> HIDE DEF q
    <3>6. Good(slots, c, k, V, h, r)
      BY <3>1, <3>3, <3>4, <3>5 DEF Good
    <3> QED BY <2>1, <3>1, <3>6
  <2>3. CASE h[k] # Free
    <3>1. h[k] \in Course /\ moved = f[<<h[k], 1, U, h>>]
      BY <2>0, <2>3 DEF Seats
    <3>2. Good(slots, h[k], 1, U, h, moved)
      BY <1>0, <2>0, <3>1, WeightDrops
    <3>3. moved \in Results(slots)
      BY <2>0, <3>1 DEF Attempts
    <3>4. CASE ~moved.ok
      <4> HIDE DEF moved
      <4>1. U \subseteq moved.visited /\ moved.visited \in SUBSET N
        BY <3>2, <3>3 DEF Good, Results
      <4> DEFINE W == moved.visited
      <4>2. Good(slots, c, k + 1, W, h, s)
        BY <1>0, <2>0, <4>1, WeightDrops
      <4>3. s \in Results(slots)
        BY <1>0, <4>1 DEF Attempts
      <4> HIDE DEF s, W
      <4>4. V \subseteq s.visited /\ (~s.ok => s.holds = h)
        BY <4>1, <4>2 DEF Good, W
      <4>5. ASSUME s.ok PROVE Agree(s.holds, h, V) /\ (Fits(slots, h) => Fits(slots, s.holds))
        BY <4>1, <4>2, <4>5 DEF Good, Agree, W
      <4>6. ASSUME s.ok, MayTake(h, N \ V, c) PROVE Takes(s.holds, h, N \ V, c)
        <5>1. V \subseteq W /\ W \subseteq N
          BY <4>1 DEF W
        <5>2. MayTake(h, N \ W, c)
          BY <4>6, <5>1 DEF MayTake, Apart, Seated
        <5> DEFINE g == s.holds
        <5>3. Agree(g, h, W) /\ Takes(g, h, N \ W, c)
          BY <4>2, <4>6, <5>2 DEF Good
        <5> HIDE DEF N, g
        <5>4. Takes(g, h, N \ V, c)
          BY <4>6, <5>1, <5>3, LookLess
        <5> QED BY <5>4 DEF g
      <4>7. ASSUME ~s.ok
            PROVE  /\ DeadEnds(slots, h, s.visited \ V, s.visited)
                   /\ \A j \in Wants(slots, c) : j >= k => j \in s.visited
        <5>1. /\ W \subseteq s.visited /\ DeadEnds(slots, h, s.visited \ W, s.visited)
              /\ \A j \in Wants(slots, c) : j >= k + 1 => j \in s.visited
          BY <1>0, <4>2, <4>7 DEF Good
        <5>2. /\ DeadEnds(slots, h, W \ U, W)
              /\ \A j \in Wants(slots, h[k]) : j >= 1 => j \in W
          BY <3>2, <3>4 DEF Good, W
        <5>3. \A j \in DOMAIN slots : j \in Nat /\ j >= 1
          BY SlotsFinite
        <5>4. Wants(slots, h[k]) \subseteq W
          BY <5>2, <5>3 DEF Wants
        <5>5. U \subseteq W
          BY <4>1 DEF W
        <5>6. DeadEnds(slots, h, s.visited \ V, s.visited)
          BY <2>3, <5>1, <5>2, <5>4, <5>5 DEF DeadEnds
        <5>7. \A j \in Wants(slots, c) : j >= k => j = k \/ j >= k + 1
          BY <5>3 DEF Wants
        <5> QED BY <5>1, <5>5, <5>6, <5>7
      <4>8. Good(slots, c, k, V, h, s)
        BY <4>4, <4>5, <4>6, <4>7 DEF Good
      <4> QED BY <2>1, <3>4, <4>8
    <3>5. CASE moved.ok
      <4> HIDE DEF moved
      <4> DEFINE g == moved.holds
                 q == [g EXCEPT ![k] = c]
      <4>1. g \in [N -> Course \cup {Free}] /\ U \subseteq moved.visited
        BY <3>2, <3>3 DEF Good, Results, Seats
      <4>2. r.holds = q /\ r.visited = moved.visited /\ r.ok
        BY <3>3, <3>5 DEF Results
      <4>3. q[k] = c /\ \A j \in N \ {k} : q[j] = g[j]
        BY <2>0, <4>1
      <4>4. Agree(g, h, U)
        BY <3>2, <3>5 DEF Good
      <4>5. Agree(q, h, V)
        BY <2>0, <4>3, <4>4 DEF Agree
      <4>6. Fits(slots, h) => Fits(slots, q)
        <5>1. Fits(slots, h) => Fits(slots, g)
          BY <3>2, <3>5 DEF Good
        <5> QED BY <2>0, <4>3, <5>1 DEF Fits
      <4>7. ASSUME MayTake(h, N \ V, c) PROVE Takes(q, h, N \ V, c)
        <5>1. MayTake(h, N \ U, h[k])
          BY <2>0, <2>3, <4>7 DEF MayTake, Apart, Seated
        <5>2. Takes(g, h, N \ U, h[k])
          BY <3>2, <3>5, <5>1 DEF Good
        <5>3. /\ V \in SUBSET N /\ k \in N \ V /\ g \in [N -> Course \cup {Free}]
              /\ h[k] # Free /\ Agree(g, h, V \cup {k})
          BY <2>0, <2>3, <4>1, <4>4
        <5> HIDE DEF g, N
        <5> QED BY <4>7, <5>2, <5>3, Reseat
      <4> HIDE DEF r, g, q
      <4>8. Good(slots, c, k, V, h, r)
        BY <4>1, <4>2, <4>5, <4>6, <4>7 DEF Good
      <4> QED BY <2>1, <3>5, <4>8
    <3> QED BY <3>4, <3>5
  <2> QED BY <2>2, <2>3
<1> QED BY <1>1, <1>2, <1>3

LEMMA Smallest ==
  ASSUME NEW T \in SUBSET Nat, T # {}
  PROVE  \E m \in T : \A l \in T : m <= l
<1> DEFINE R == OpToRel(<, Nat)
<1>1. IsWellFoundedOn(R, Nat)
  BY NatLessThanWellFounded
<1>2. \A l, m \in Nat : l < m => <<l, m>> \in R
  BY DEF OpToRel
<1> HIDE DEF R
<1>3. PICK m \in T : \A l \in T : <<l, m>> \notin R
  BY <1>1, WFMin
<1>4. \A l \in T : ~(l < m)
  BY <1>2, <1>3
<1> QED BY <1>4

\* f answers every attempt lighter than m as the code does.
Correct(slots, f, m) ==
  /\ f \in [Attempts(slots) -> Results(slots)]
  /\ \A c \in Course, k \in Nat, V \in SUBSET DOMAIN slots, h \in Seats(slots) :
       Weight(slots, k, V) < m =>
         /\ f[<<c, k, V, h>>] = AttemptWith(slots, f, c, k, V, h)
         /\ Good(slots, c, k, V, h, f[<<c, k, V, h>>])

\* An attempt depends on lighter ones only.
LEMMA AttemptLocal ==
  ASSUME NEW slots \in Slots, NEW f \in [Attempts(slots) -> Results(slots)],
         NEW g,
         NEW c \in Course, NEW k \in Nat, NEW V \in SUBSET DOMAIN slots,
         NEW h \in Seats(slots),
         \A a \in Course, l \in Nat, U \in SUBSET DOMAIN slots :
           Weight(slots, l, U) < Weight(slots, k, V) =>
             /\ Good(slots, a, l, U, h, f[<<a, l, U, h>>])
             /\ g[<<a, l, U, h>>] = f[<<a, l, U, h>>]
  PROVE  AttemptWith(slots, g, c, k, V, h) = AttemptWith(slots, f, c, k, V, h)
<1>0. c # Free /\ k + 1 \in Nat /\ 1 \in Nat
  BY CourseAssumption DEF Free
<1>1. CASE k \notin DOMAIN slots
  BY <1>1 DEF AttemptWith
<1>2. CASE k \in DOMAIN slots /\ (k \in V \/ Subject[c] \notin slots[k])
  <2>1. g[<<c, k + 1, V, h>>] = f[<<c, k + 1, V, h>>]
    BY <1>0, <1>2, WeightDrops
  <2> QED BY <1>2, <2>1 DEF AttemptWith
<1>3. CASE k \in DOMAIN slots /\ ~(k \in V \/ Subject[c] \notin slots[k])
  <2> DEFINE M(q) == IF h[k] = Free
                     THEN [ok |-> TRUE, visited |-> V, holds |-> h]
                     ELSE q[<<h[k], 1, V \cup {k}, h>>]
             moved == M(f)
  <2>1. ASSUME NEW q PROVE AttemptWith(slots, q, c, k, V, h) =
          IF M(q).ok THEN [M(q) EXCEPT !.holds[k] = c]
          ELSE q[<<c, k + 1, M(q).visited, h>>]
    BY <1>3 DEF AttemptWith
  <2>2. V \cup {k} \in SUBSET DOMAIN slots /\ V \subseteq V \cup {k}
    BY <1>3
  <2>3. h[k] # Free =>
          /\ g[<<h[k], 1, V \cup {k}, h>>] = f[<<h[k], 1, V \cup {k}, h>>]
          /\ Good(slots, h[k], 1, V \cup {k}, h, f[<<h[k], 1, V \cup {k}, h>>])
          /\ f[<<h[k], 1, V \cup {k}, h>>] \in Results(slots)
    <3> SUFFICES ASSUME h[k] # Free
                 PROVE  /\ g[<<h[k], 1, V \cup {k}, h>>] = f[<<h[k], 1, V \cup {k}, h>>]
                        /\ Good(slots, h[k], 1, V \cup {k}, h, f[<<h[k], 1, V \cup {k}, h>>])
                        /\ f[<<h[k], 1, V \cup {k}, h>>] \in Results(slots)
      OBVIOUS
    <3>1. h[k] \in Course
      BY <1>3 DEF Seats
    <3>2. Weight(slots, 1, V \cup {k}) < Weight(slots, k, V)
      BY <1>3, <2>2, WeightDrops
    <3>3. <<h[k], 1, V \cup {k}, h>> \in Attempts(slots)
      BY <1>0, <2>2, <3>1 DEF Attempts
    <3> QED BY <1>0, <2>2, <3>1, <3>2, <3>3
  <2>4. M(g) = moved
    BY <2>3
  <2>5. CASE moved.ok
    <3> HIDE DEF M
    <3> QED BY <2>1, <2>4, <2>5
  <2>6. CASE ~moved.ok
    <3>1. h[k] # Free
      BY <2>6
    <3>2. V \subseteq moved.visited /\ k \in moved.visited /\ moved.visited \in SUBSET DOMAIN slots
      BY <2>3, <3>1 DEF Good, Results
    <3> DEFINE W == moved.visited
    <3>3. W \in SUBSET DOMAIN slots /\ V \subseteq W /\ k \in W
      BY <3>2
    <3> HIDE DEF W
    <3>4. g[<<c, k + 1, W, h>>] = f[<<c, k + 1, W, h>>]
      BY <1>0, <1>3, <3>3, WeightDrops
    <3> HIDE DEF M
    <3> QED BY <2>1, <2>4, <2>6, <3>4 DEF W
  <2> QED BY <2>5, <2>6
<1> QED BY <1>1, <1>2, <1>3

LEMMA CorrectStep ==
  ASSUME NEW slots \in Slots, NEW f, NEW m \in Nat, Correct(slots, f, m)
  PROVE  \E g : Correct(slots, g, m + 1)
<1> DEFINE g == [x \in Attempts(slots) |->
                   IF Weight(slots, x[2], x[3]) < m THEN f[x]
                   ELSE AttemptWith(slots, f, x[1], x[2], x[3], x[4])]
<1>0. f \in [Attempts(slots) -> Results(slots)]
  BY DEF Correct
<1>1. ASSUME NEW c \in Course, NEW k \in Nat, NEW V \in SUBSET DOMAIN slots,
             NEW h \in Seats(slots)
      PROVE  /\ g[<<c, k, V, h>>] = IF Weight(slots, k, V) < m THEN f[<<c, k, V, h>>]
                                    ELSE AttemptWith(slots, f, c, k, V, h)
             /\ Weight(slots, k, V) \in Nat
  <2>1. <<c, k, V, h>> \in Attempts(slots)
    BY DEF Attempts
  <2> QED BY <2>1, WeightType
<1>2. g \in [Attempts(slots) -> Results(slots)]
  <2>1. ASSUME NEW x \in Attempts(slots) PROVE g[x] \in Results(slots)
    <3>1. /\ x[1] \in Course /\ x[2] \in Nat /\ x[3] \in SUBSET DOMAIN slots
          /\ x[4] \in Seats(slots)
      BY DEF Attempts
    <3>2. AttemptWith(slots, f, x[1], x[2], x[3], x[4]) \in Results(slots)
      BY <1>0, <3>1, AttemptTypes
    <3> QED BY <1>0, <3>2
  <2> QED BY <2>1
<1> HIDE DEF g
<1>3. ASSUME NEW c \in Course, NEW k \in Nat, NEW V \in SUBSET DOMAIN slots,
             NEW h \in Seats(slots), Weight(slots, k, V) < m + 1
      PROVE  /\ g[<<c, k, V, h>>] = AttemptWith(slots, g, c, k, V, h)
             /\ Good(slots, c, k, V, h, g[<<c, k, V, h>>])
  <2>1. ASSUME NEW a \in Course, NEW l \in Nat, NEW U \in SUBSET DOMAIN slots,
               Weight(slots, l, U) < Weight(slots, k, V)
        PROVE  /\ Good(slots, a, l, U, h, f[<<a, l, U, h>>])
               /\ g[<<a, l, U, h>>] = f[<<a, l, U, h>>]
    <3>0. Weight(slots, l, U) \in Nat /\ Weight(slots, k, V) \in Nat
      BY WeightType
    <3>1. Weight(slots, l, U) < m
      BY <1>3, <2>1, <3>0
    <3> QED BY <1>1, <3>1 DEF Correct
  <2>2. AttemptWith(slots, g, c, k, V, h) = AttemptWith(slots, f, c, k, V, h)
    BY <1>0, <2>1, AttemptLocal
  <2>3. Good(slots, c, k, V, h, AttemptWith(slots, f, c, k, V, h))
    BY <1>0, <2>1, AttemptGood
  <2>4. CASE Weight(slots, k, V) < m
    BY <1>1, <2>2, <2>3, <2>4 DEF Correct
  <2>5. CASE ~(Weight(slots, k, V) < m)
    BY <1>1, <2>2, <2>3, <2>5
  <2> QED BY <2>4, <2>5
<1>4. Correct(slots, g, m + 1)
  BY <1>2, <1>3 DEF Correct
<1> QED BY <1>4

LEMMA CorrectAll ==
  ASSUME NEW slots \in Slots, NEW m \in Nat
  PROVE  \E f : Correct(slots, f, m)
<1> DEFINE T == {l \in Nat : ~ \E f : Correct(slots, f, l)}
<1>1. SUFFICES ASSUME T # {} PROVE FALSE
  OBVIOUS
<1>2. PICK l \in T : \A j \in T : l <= j
  BY <1>1, Smallest
<1>3. CASE l = 0
  <2> DEFINE f == [x \in Attempts(slots) |-> [ok |-> FALSE, visited |-> x[3], holds |-> x[4]]]
  <2>1. f \in [Attempts(slots) -> Results(slots)]
    BY DEF Attempts, Results
  <2>2. \A V : \A k \in Nat : ~(Weight(slots, k, V) < 0)
    BY WeightType
  <2> HIDE DEF f
  <2>3. Correct(slots, f, 0)
    BY <2>1, <2>2 DEF Correct
  <2> QED BY <1>3, <2>3
<1>4. CASE l # 0
  <2>1. l - 1 \in Nat /\ (l - 1) + 1 = l /\ ~(l <= l - 1)
    BY <1>4
  <2>2. PICK f : Correct(slots, f, l - 1)
    BY <1>2, <2>1
  <2> QED BY <2>1, <2>2, CorrectStep
<1> QED BY <1>3, <1>4

\* What the code's attempt computes.
LEMMA AugmentGood ==
  ASSUME NEW slots \in Slots, NEW c \in Course, NEW held \in Seats(slots)
  PROVE  \E r \in Results(slots) :
           /\ Augment(slots, c, held) = r.holds
           /\ Good(slots, c, 1, {}, held, r)
<1> DEFINE m == Len(slots) * (Len(slots) + 2) + Len(slots) + 1
<1>1. m \in Nat /\ \A V : \A k \in Nat : Weight(slots, k, V) < m
  <2> DEFINE q == Len(slots) * (Len(slots) + 2)
  <2>1. Len(slots) \in Nat /\ Len(slots) + 2 \in Nat
    BY SlotsFinite
  <2>2. q \in Nat
    BY <2>1, Products
  <2>3. \A V : \A k \in Nat : Weight(slots, k, V) \in Nat /\ Weight(slots, k, V) <= q + Len(slots)
    BY WeightType
  <2> HIDE DEF q
  <2>4. q + Len(slots) + 1 \in Nat /\ \A V : \A k \in Nat : Weight(slots, k, V) < q + Len(slots) + 1
    BY <2>1, <2>2, <2>3
  <2> QED BY <2>4 DEF q
<1> HIDE DEF m
<1>2. PICK g : Correct(slots, g, m)
  BY <1>1, CorrectAll
<1>3. IsAssign(slots, g)
  <2>1. g = [x \in Attempts(slots) |-> g[x]]
    BY <1>2 DEF Correct
  <2>2. ASSUME NEW x \in Attempts(slots)
        PROVE  g[x] = AttemptWith(slots, g, x[1], x[2], x[3], x[4])
    <3>1. /\ x[1] \in Course /\ x[2] \in Nat /\ x[3] \in SUBSET DOMAIN slots
          /\ x[4] \in Seats(slots) /\ x = <<x[1], x[2], x[3], x[4]>>
      BY DEF Attempts
    <3> QED BY <1>1, <1>2, <3>1 DEF Correct
  <2> QED BY <2>1, <2>2 DEF IsAssign
<1>4. PICK f : IsAssign(slots, f) /\ Augment(slots, c, held) = f[<<c, 1, {}, held>>].holds
  BY <1>3, AugmentIs
<1> DEFINE Differs(w) == \E a \in Course, k \in Nat, V \in SUBSET DOMAIN slots,
                           h \in Seats(slots) :
                           Weight(slots, k, V) = w /\ f[<<a, k, V, h>>] # g[<<a, k, V, h>>]
           T == {w \in Nat : Differs(w)}
<1>5. ASSUME NEW a \in Course, NEW k \in Nat, NEW V \in SUBSET DOMAIN slots,
             NEW h \in Seats(slots),
             \A l \in Nat : l < Weight(slots, k, V) => ~Differs(l)
      PROVE  f[<<a, k, V, h>>] = g[<<a, k, V, h>>]
  <2>1. g \in [Attempts(slots) -> Results(slots)]
    BY <1>2 DEF Correct
  <2>2. ASSUME NEW b \in Course, NEW l \in Nat, NEW U \in SUBSET DOMAIN slots,
               Weight(slots, l, U) < Weight(slots, k, V)
        PROVE  /\ Good(slots, b, l, U, h, g[<<b, l, U, h>>])
               /\ f[<<b, l, U, h>>] = g[<<b, l, U, h>>]
    <3>1. Weight(slots, l, U) \in Nat
      BY WeightType
    <3>2. ~Differs(Weight(slots, l, U))
      <4> HIDE DEF Differs
      <4> QED BY <1>5, <2>2, <3>1
    <3>3. f[<<b, l, U, h>>] = g[<<b, l, U, h>>]
      BY <3>2
    <3> QED BY <1>1, <1>2, <3>3 DEF Correct
  <2>3. AttemptWith(slots, f, a, k, V, h) = AttemptWith(slots, g, a, k, V, h)
    BY <2>1, <2>2, AttemptLocal
  <2>4. <<a, k, V, h>> \in Attempts(slots)
    BY DEF Attempts
  <2>5. f[<<a, k, V, h>>] = AttemptWith(slots, f, a, k, V, h)
    BY <1>4, <2>4 DEF IsAssign
  <2>6. g[<<a, k, V, h>>] = AttemptWith(slots, g, a, k, V, h)
    BY <1>3, <2>4 DEF IsAssign
  <2> QED BY <2>3, <2>5, <2>6
<1>6. T = {}
  <2> SUFFICES ASSUME T # {} PROVE FALSE
    OBVIOUS
  <2>1. PICK w \in T : \A l \in T : w <= l
    BY Smallest
  <2>2. \A l \in Nat : l < w => ~Differs(l)
    <3> HIDE DEF Differs
    <3>1. w \in Nat
      BY <2>1
    <3> QED BY <2>1, <3>1
  <2>3. PICK a \in Course, k \in Nat, V \in SUBSET DOMAIN slots, h \in Seats(slots) :
          Weight(slots, k, V) = w /\ f[<<a, k, V, h>>] # g[<<a, k, V, h>>]
    BY <2>1
  <2> HIDE DEF Differs
  <2> QED BY <1>5, <2>2, <2>3
<1>7. 1 \in Nat /\ {} \in SUBSET DOMAIN slots
  OBVIOUS
<1>8. f[<<c, 1, {}, held>>] = g[<<c, 1, {}, held>>]
  <2>1. Weight(slots, 1, {}) \in Nat
    BY <1>7, WeightType
  <2>2. ~Differs(Weight(slots, 1, {}))
    <3> HIDE DEF Differs
    <3> QED BY <1>6, <2>1
  <2> QED BY <1>7, <2>2
<1>9. g[<<c, 1, {}, held>>] \in Results(slots)
  <2>1. <<c, 1, {}, held>> \in Attempts(slots)
    BY <1>7 DEF Attempts
  <2> QED BY <1>2, <2>1 DEF Correct
<1> QED BY <1>1, <1>2, <1>4, <1>7, <1>8, <1>9 DEF Correct

-----------------------------------------------------------------------------
(* Every candidate in turn *)

Tries(slots) == (SUBSET Course) \X Seats(slots)

\* One candidate, with f for those after it.
TryWith(slots, f, S, held) ==
  IF S = {} THEN held ELSE f[<<S \ {First(S)}, Augment(slots, First(S), held)>>]

IsTry(slots, f) == f = [x \in Tries(slots) |-> TryWith(slots, f, x[1], x[2])]

LEMMA AssignmentIs ==
  ASSUME NEW slots, NEW candidates, \E f : IsTry(slots, f)
  PROVE  \E f : /\ IsTry(slots, f)
                /\ Assignment(slots, candidates) = f[<<candidates, [k \in DOMAIN slots |-> Free]>>]
<1> DEFINE f == CHOOSE f : IsTry(slots, f)
<1>1. IsTry(slots, f)
  OBVIOUS
<1>2. Assignment(slots, candidates) = f[<<candidates, [k \in DOMAIN slots |-> Free]>>]
  BY DEF Assignment, IsTry, TryWith, Tries, Seats
<1> QED BY <1>1, <1>2

LEMMA FirstIn ==
  ASSUME NEW S \in SUBSET Course, S # {}
  PROVE  First(S) \in S /\ \A d \in S \ {First(S)} : Before(First(S), d)
<1>0. S \in SUBSET Nat
  BY CourseAssumption
<1> DEFINE R == {c \in S : ~IsFallback(c)}
           T == IF R = {} THEN S ELSE R
<1>1. PICK c \in T : \A d \in T : c <= d
  <2>1. T # {} /\ T \in SUBSET Nat
    BY <1>0
  <2> HIDE DEF T
  <2> QED BY <2>1, Smallest
<1>2. c \in S /\ \A d \in S \ {c} : Before(c, d)
  <2>1. c \in S /\ T \subseteq S
    OBVIOUS
  <2>2. ASSUME NEW d \in S \ {c}, d \in T PROVE c < d
    <3>1. c <= d /\ c \in Nat /\ d \in Nat
      BY <1>0, <1>1, <2>1, <2>2
    <3> QED BY <3>1
  <2>3. ASSUME NEW d \in S \ {c} PROVE Before(c, d)
    BY <2>2 DEF Before
  <2> QED BY <2>1, <2>3
<1> QED BY <1>2 DEF First

\* What stands in the slots once the candidates in done were tried.
Matched(slots, done, held) ==
  /\ held \in Seats(slots)
  /\ Fits(slots, held)
  /\ Apart(held, DOMAIN slots)
  /\ Seated(held, DOMAIN slots) \subseteq done

\* Why a candidate has no slot: those that accept it are among slots V whose ratings
\* are accepted there alone, and none of them had to stand back for the candidate.
Blocks(slots, held, V, c) ==
  /\ Wants(slots, c) \subseteq V /\ DeadEnds(slots, held, V, V)
  /\ \A j \in V : IsFallback(held[j]) => IsFallback(c)

Tried(slots, done, held) ==
  \A c \in done \ Seated(held, DOMAIN slots) :
    \E V \in SUBSET DOMAIN slots : Blocks(slots, held, V, c)

\* As long as those who sit remain seated, nobody leaves such slots.
LEMMA BlocksStays ==
  ASSUME NEW slots \in Slots, NEW held \in Seats(slots), NEW next \in Seats(slots),
         Apart(held, DOMAIN slots), Fits(slots, next),
         Seated(held, DOMAIN slots) \subseteq Seated(next, DOMAIN slots),
         NEW V \in SUBSET DOMAIN slots, NEW c, Blocks(slots, held, V, c)
  PROVE  Blocks(slots, next, V, c)
<1> DEFINE N == DOMAIN slots
<1>1. ASSUME NEW j \in V PROVE \E i \in V : next[i] = held[j]
  <2>1. held[j] # Free /\ Wants(slots, held[j]) \subseteq V /\ j \in N
    BY DEF Blocks, DeadEnds
  <2>2. PICK i \in N : next[i] = held[j]
    BY <2>1 DEF Seated
  <2>3. i \in Wants(slots, held[j])
    BY <2>1, <2>2 DEF Fits, Wants
  <2> QED BY <2>1, <2>2, <2>3
<1> DEFINE g == [j \in V |-> CHOOSE i \in V : next[i] = held[j]]
<1>2. g \in [V -> V] /\ \A j \in V : next[g[j]] = held[j]
  BY <1>1
<1> HIDE DEF g
<1>3. g \in Injection(V, V)
  <2>1. \A j, k \in V : g[j] = g[k] => j = k
    <3> SUFFICES ASSUME NEW j \in V, NEW k \in V, g[j] = g[k] PROVE j = k
      OBVIOUS
    <3>1. held[j] = held[k] /\ held[j] # Free /\ j \in N /\ k \in N
      BY <1>2 DEF Blocks, DeadEnds
    <3> QED BY <3>1 DEF Apart
  <2> QED BY <1>2, <2>1 DEF Injection, IsInjective
<1>4. IsFiniteSet(V)
  BY SlotsFinite, FS_Subset
<1>5. g \in Surjection(V, V)
  BY <1>3, <1>4, FS_Injection
<1>6. \A i \in V : \E j \in V : g[j] = i
  BY <1>5 DEF Surjection
<1>7. \A i \in V : \E j \in V : next[i] = held[j]
  BY <1>2, <1>6
<1> QED BY <1>7 DEF Blocks, DeadEnds

LEMMA MatchOne ==
  ASSUME NEW slots \in Slots, NEW done \in SUBSET Course, NEW held,
         Matched(slots, done, held), Tried(slots, done, held), NEW c \in Course, c \notin done,
         \A d \in done : IsFallback(d) => IsFallback(c)
  PROVE  /\ Matched(slots, done \cup {c}, Augment(slots, c, held))
         /\ Tried(slots, done \cup {c}, Augment(slots, c, held))
<1> DEFINE N == DOMAIN slots
<1>1. held \in Seats(slots)
  BY DEF Matched
<1>2. PICK r \in Results(slots) : /\ Augment(slots, c, held) = r.holds
                                  /\ Good(slots, c, 1, {}, held, r)
  BY <1>1, AugmentGood
<1>3. r.holds \in Seats(slots) /\ r.visited \in SUBSET N
  BY <1>2 DEF Results
<1>4. CASE ~r.ok
  <2>1. r.holds = held
    BY <1>2, <1>4 DEF Good
  <2>2. Blocks(slots, held, r.visited, c)
    <3>1. \A j \in N : j >= 1
      BY SlotsFinite
    <3>2. /\ DeadEnds(slots, held, r.visited, r.visited)
          /\ \A j \in Wants(slots, c) : j >= 1 => j \in r.visited
      BY <1>2, <1>4 DEF Good
    <3>3. \A j \in r.visited : held[j] # Free /\ held[j] \in done
      BY <1>3, <3>2 DEF DeadEnds, Matched, Seated
    <3> QED BY <3>1, <3>2, <3>3 DEF Blocks, Wants
  <2>3. Tried(slots, done \cup {c}, held)
    BY <1>3, <2>2 DEF Tried
  <2> QED BY <1>2, <2>1, <2>3 DEF Matched
<1>5. CASE r.ok
  <2>1. N \ {} = N
    OBVIOUS
  <2>2. MayTake(held, N, c)
    BY CourseAssumption DEF MayTake, Matched, Free
  <2>3. Takes(r.holds, held, N, c) /\ Fits(slots, r.holds)
    BY <1>2, <1>5, <2>1, <2>2 DEF Good, Matched
  <2>4. Apart(held, N) /\ Seated(held, N) \subseteq Seated(r.holds, N) /\ c \in Seated(r.holds, N)
    BY <2>3 DEF Takes, Matched
  <2>5. ASSUME NEW d \in (done \cup {c}) \ Seated(r.holds, N)
        PROVE  \E V \in SUBSET N : Blocks(slots, r.holds, V, d)
    <3>1. d \in done \ Seated(held, N)
      BY <2>4
    <3>2. PICK V \in SUBSET N : Blocks(slots, held, V, d)
      BY <3>1 DEF Tried
    <3>3. Blocks(slots, r.holds, V, d)
      BY <1>1, <1>3, <2>3, <2>4, <3>2, BlocksStays
    <3> QED BY <3>3
  <2>6. Tried(slots, done \cup {c}, r.holds)
    BY <2>5 DEF Tried
  <2> QED BY <1>2, <1>3, <2>3, <2>6 DEF Takes, Matched
<1> QED BY <1>4, <1>5

LEMMA AugmentType ==
  ASSUME NEW slots \in Slots, NEW c \in Course, NEW held \in Seats(slots)
  PROVE  Augment(slots, c, held) \in Seats(slots)
BY AugmentGood DEF Results

LEMMA Removed ==
  ASSUME NEW S \in SUBSET Course, S # {}
  PROVE  /\ IsFiniteSet(S) /\ Cardinality(S) \in Nat /\ Cardinality(S) > 0
         /\ S \ {First(S)} \in SUBSET Course
         /\ Cardinality(S \ {First(S)}) = Cardinality(S) - 1
<1>1. IsFiniteSet(S)
  BY CourseAssumption, FS_Subset
<1>2. First(S) \in S
  BY FirstIn
<1> QED BY <1>1, <1>2, FS_RemoveElement, FS_CardinalityType, FS_EmptySet

\* f tries fewer than m candidates as the code does.
TriesUpTo(slots, f, m) ==
  /\ f \in [Tries(slots) -> Seats(slots)]
  /\ \A S \in SUBSET Course, h \in Seats(slots) :
       Cardinality(S) < m => f[<<S, h>>] = TryWith(slots, f, S, h)

LEMMA TriesStep ==
  ASSUME NEW slots \in Slots, NEW f, NEW m \in Nat, TriesUpTo(slots, f, m)
  PROVE  \E g : TriesUpTo(slots, g, m + 1)
<1> DEFINE g == [x \in Tries(slots) |-> IF Cardinality(x[1]) < m THEN f[x]
                                        ELSE TryWith(slots, f, x[1], x[2])]
<1>0. f \in [Tries(slots) -> Seats(slots)]
  BY DEF TriesUpTo
<1>1. ASSUME NEW S \in SUBSET Course, NEW h \in Seats(slots)
      PROVE  g[<<S, h>>] = IF Cardinality(S) < m THEN f[<<S, h>>] ELSE TryWith(slots, f, S, h)
  BY DEF Tries
<1>2. ASSUME NEW S \in SUBSET Course, NEW h \in Seats(slots)
      PROVE  TryWith(slots, f, S, h) \in Seats(slots)
  <2>1. CASE S = {}
    BY <2>1 DEF TryWith
  <2>2. CASE S # {}
    <3>1. First(S) \in Course /\ S \ {First(S)} \in SUBSET Course
      BY <2>2, FirstIn
    <3>2. Augment(slots, First(S), h) \in Seats(slots)
      BY <3>1, AugmentType
    <3> QED BY <1>0, <2>2, <3>1, <3>2 DEF TryWith, Tries
  <2> QED BY <2>1, <2>2
<1>3. g \in [Tries(slots) -> Seats(slots)]
  BY <1>0, <1>2 DEF Tries
<1> HIDE DEF g
<1>4. ASSUME NEW S \in SUBSET Course, NEW h \in Seats(slots), Cardinality(S) < m + 1
      PROVE  g[<<S, h>>] = TryWith(slots, g, S, h)
  <2>1. TryWith(slots, g, S, h) = TryWith(slots, f, S, h)
    <3>1. CASE S = {}
      BY <3>1 DEF TryWith
    <3>2. CASE S # {}
      <4> DEFINE S1 == S \ {First(S)}
                 h1 == Augment(slots, First(S), h)
      <4>1. Cardinality(S1) < m /\ S1 \in SUBSET Course
        <5>1. Cardinality(S) \in Nat /\ Cardinality(S1) = Cardinality(S) - 1 /\ S1 \in SUBSET Course
          BY <3>2, Removed
        <5> HIDE DEF S1
        <5> QED BY <1>4, <5>1
      <4>2. h1 \in Seats(slots)
        BY <3>2, FirstIn, AugmentType
      <4> HIDE DEF S1, h1
      <4>3. g[<<S1, h1>>] = f[<<S1, h1>>]
        BY <1>1, <4>1, <4>2
      <4> QED BY <3>2, <4>3 DEF TryWith, S1, h1
    <3> QED BY <3>1, <3>2
  <2>2. CASE Cardinality(S) < m
    BY <1>1, <2>1, <2>2 DEF TriesUpTo
  <2>3. CASE ~(Cardinality(S) < m)
    BY <1>1, <2>1, <2>3
  <2> QED BY <2>2, <2>3
<1>5. TriesUpTo(slots, g, m + 1)
  BY <1>3, <1>4 DEF TriesUpTo
<1> QED BY <1>5

LEMMA TriesAll ==
  ASSUME NEW slots \in Slots, NEW m \in Nat
  PROVE  \E f : TriesUpTo(slots, f, m)
<1> DEFINE T == {l \in Nat : ~ \E f : TriesUpTo(slots, f, l)}
<1>1. SUFFICES ASSUME T # {} PROVE FALSE
  OBVIOUS
<1>2. PICK l \in T : \A j \in T : l <= j
  BY <1>1, Smallest
<1>3. CASE l = 0
  <2> DEFINE f == [x \in Tries(slots) |-> x[2]]
  <2>1. f \in [Tries(slots) -> Seats(slots)]
    BY DEF Tries
  <2>2. \A S \in SUBSET Course : ~(Cardinality(S) < 0)
    <3>1. \A S \in SUBSET Course : Cardinality(S) \in Nat
      BY CourseAssumption, FS_Subset, FS_CardinalityType
    <3> QED BY <3>1
  <2> HIDE DEF f
  <2>3. TriesUpTo(slots, f, 0)
    BY <2>1, <2>2 DEF TriesUpTo
  <2> QED BY <1>3, <2>3
<1>4. CASE l # 0
  <2>1. l - 1 \in Nat /\ (l - 1) + 1 = l /\ ~(l <= l - 1)
    BY <1>4
  <2>2. PICK f : TriesUpTo(slots, f, l - 1)
    BY <1>2, <2>1
  <2> QED BY <2>1, <2>2, TriesStep
<1> QED BY <1>3, <1>4

LEMMA TryExists ==
  ASSUME NEW slots \in Slots
  PROVE  \E f : IsTry(slots, f)
<1> DEFINE m == Cardinality(Course) + 1
<1>1. m \in Nat /\ \A S \in SUBSET Course : Cardinality(S) < m
  <2>1. Cardinality(Course) \in Nat
    BY CourseAssumption, FS_CardinalityType
  <2>2. \A S \in SUBSET Course : Cardinality(S) \in Nat /\ Cardinality(S) <= Cardinality(Course)
    BY CourseAssumption, FS_Subset, FS_CardinalityType
  <2> QED BY <2>1, <2>2
<1> HIDE DEF m
<1>2. PICK f : TriesUpTo(slots, f, m)
  BY <1>1, TriesAll
<1>3. ASSUME NEW x \in Tries(slots) PROVE f[x] = TryWith(slots, f, x[1], x[2])
  <2>1. x[1] \in SUBSET Course /\ x[2] \in Seats(slots) /\ x = <<x[1], x[2]>>
    BY DEF Tries
  <2> QED BY <1>1, <1>2, <2>1 DEF TriesUpTo
<1>4. f = [x \in Tries(slots) |-> f[x]]
  BY <1>2 DEF TriesUpTo
<1>5. IsTry(slots, f)
  BY <1>3, <1>4 DEF IsTry
<1> QED BY <1>5

\* The candidates that were tried come before those that are left.
Earlier(done, S) == \A d \in done, c \in S : IsFallback(d) => IsFallback(c)

LEMMA MatchAll ==
  ASSUME NEW slots \in Slots, NEW f, IsTry(slots, f)
  PROVE  \A m \in Nat : \A S, done \in SUBSET Course, held \in Seats(slots) :
           /\ Cardinality(S) = m
           /\ S \cap done = {} /\ Earlier(done, S)
           /\ Matched(slots, done, held) /\ Tried(slots, done, held)
           => /\ Matched(slots, done \cup S, f[<<S, held>>])
              /\ Tried(slots, done \cup S, f[<<S, held>>])
<1> DEFINE Claim(m) == \A S, done \in SUBSET Course, held \in Seats(slots) :
                         /\ Cardinality(S) = m
                         /\ S \cap done = {} /\ Earlier(done, S)
                         /\ Matched(slots, done, held) /\ Tried(slots, done, held)
                         => /\ Matched(slots, done \cup S, f[<<S, held>>])
                            /\ Tried(slots, done \cup S, f[<<S, held>>])
           T == {m \in Nat : ~Claim(m)}
<1>1. SUFFICES ASSUME T # {} PROVE FALSE
  OBVIOUS
<1>2. PICK m \in T : \A j \in T : m <= j
  BY <1>1, Smallest
<1>3. ASSUME NEW S \in SUBSET Course, NEW done \in SUBSET Course, NEW held \in Seats(slots),
             Cardinality(S) = m, S \cap done = {}, Earlier(done, S),
             Matched(slots, done, held), Tried(slots, done, held)
      PROVE  /\ Matched(slots, done \cup S, f[<<S, held>>])
             /\ Tried(slots, done \cup S, f[<<S, held>>])
  <2>0. <<S, held>> \in Tries(slots)
    BY DEF Tries
  <2>1. f[<<S, held>>] = TryWith(slots, f, S, held)
    BY <2>0 DEF IsTry
  <2>2. CASE S = {}
    <3>1. done \cup S = done /\ f[<<S, held>>] = held
      BY <2>1, <2>2 DEF TryWith
    <3> QED BY <1>3, <3>1
  <2>3. CASE S # {}
    <3> DEFINE c == First(S)
               S1 == S \ {c}
               h1 == Augment(slots, c, held)
               d1 == done \cup {c}
    <3>1. c \in S /\ c \in Course /\ \A d \in S1 : Before(c, d)
      BY <2>3, FirstIn
    <3>2. m \in Nat /\ m - 1 \in Nat /\ ~(m <= m - 1) /\ Cardinality(S1) = m - 1 /\ S1 \in SUBSET Course
      <4>1. /\ Cardinality(S) \in Nat /\ Cardinality(S) > 0 /\ S1 \in SUBSET Course
            /\ Cardinality(S1) = Cardinality(S) - 1
        BY <2>3, Removed
      <4> HIDE DEF S1
      <4> QED BY <1>3, <4>1
    <3>3. S1 \cap d1 = {} /\ d1 \in SUBSET Course /\ d1 \cup S1 = done \cup S
      BY <1>3, <3>1
    <3>4. Matched(slots, d1, h1) /\ Tried(slots, d1, h1)
      <4>1. c \notin done /\ \A d \in done : IsFallback(d) => IsFallback(c)
        BY <1>3, <3>1 DEF Earlier
      <4> HIDE DEF c
      <4> QED BY <1>3, <3>1, <4>1, MatchOne
    <3>5. h1 \in Seats(slots)
      BY <3>4 DEF Matched
    <3>51. Earlier(d1, S1)
      BY <1>3, <3>1 DEF Earlier, Before
    <3>6. Claim(m - 1)
      <4> HIDE DEF Claim
      <4> QED BY <1>2, <3>2
    <3> HIDE DEF S1, h1, d1
    <3>7. /\ Matched(slots, d1 \cup S1, f[<<S1, h1>>])
          /\ Tried(slots, d1 \cup S1, f[<<S1, h1>>])
      BY <3>2, <3>3, <3>4, <3>5, <3>51, <3>6
    <3> QED BY <2>1, <2>3, <3>3, <3>7 DEF TryWith, S1, h1
  <2> QED BY <2>2, <2>3
<1>4. Claim(m)
  BY <1>3
<1> HIDE DEF Claim
<1> QED BY <1>2, <1>4

LEMMA AssignmentDone ==
  ASSUME NEW slots \in Slots, NEW candidates \in SUBSET Course
  PROVE  /\ Matched(slots, candidates, Assignment(slots, candidates))
         /\ Tried(slots, candidates, Assignment(slots, candidates))
<1> DEFINE empty == [k \in DOMAIN slots |-> Free]
<1>1. PICK f : IsTry(slots, f) /\ Assignment(slots, candidates) = f[<<candidates, empty>>]
  BY TryExists, AssignmentIs
<1>2. Matched(slots, {}, empty) /\ empty \in Seats(slots) /\ Tried(slots, {}, empty)
  BY DEF Matched, Seats, Fits, Apart, Seated, Tried
<1>3. Cardinality(candidates) \in Nat
  BY CourseAssumption, FS_Subset, FS_CardinalityType
<1>31. Earlier({}, candidates) /\ {} \cup candidates = candidates
  BY DEF Earlier
<1> HIDE DEF empty
<1>4. /\ Matched(slots, {} \cup candidates, f[<<candidates, empty>>])
      /\ Tried(slots, {} \cup candidates, f[<<candidates, empty>>])
  BY <1>1, <1>2, <1>3, <1>31, MatchAll
<1> QED BY <1>1, <1>31, <1>4

\* What the evaluation puts into slots: courses of the candidates, each accepted by
\* the slot it is in, and no course in two slots.
THEOREM MatchingSound ==
  ASSUME NEW slots \in Slots, NEW candidates \in SUBSET Course
  PROVE  Matched(slots, candidates, Assignment(slots, candidates))
BY AssignmentDone

-----------------------------------------------------------------------------
(* Nobody is left out who could have been seated *)

\* f gives each slot of D a course of R that it accepts, and no course twice.
PartFill(slots, D, R, f) ==
  /\ f \in [D -> R]
  /\ \A k \in D : Subject[f[k]] \in slots[k]
  /\ \A k, l \in D : k # l => f[k] # f[l]

\* R has, with each course, those that are tried before it or are of its kind.
Preferred(R, S) == R \subseteq S /\ \A c \in R, d \in S : (IsFallback(d) => IsFallback(c)) => d \in R

\* However the slots of D are filled from R, the evaluation has as many of R seated.
LEMMA AsManySeated ==
  ASSUME NEW slots \in Slots, NEW S \in SUBSET Course, NEW R, Preferred(R, S),
         NEW D \in SUBSET DOMAIN slots, NEW f, PartFill(slots, D, R, f)
  PROVE  \E g : g \in Injection(D, {k \in DOMAIN slots : Assignment(slots, S)[k] \in R})
<1> DEFINE N == DOMAIN slots
           held == Assignment(slots, S)
           V == {j \in N : \E W \in SUBSET N, c \in R : Blocks(slots, held, W, c) /\ j \in W}
<1>1. Matched(slots, S, held) /\ Tried(slots, S, held)
  BY AssignmentDone
<1>2. R \subseteq S /\ \A c \in R, d \in S : (IsFallback(d) => IsFallback(c)) => d \in R
  BY DEF Preferred
<1> HIDE DEF held
<1>3. ASSUME NEW j \in V PROVE held[j] \in R /\ Wants(slots, held[j]) \subseteq V
  <2>1. PICK W \in SUBSET N, c \in R : Blocks(slots, held, W, c) /\ j \in W
    OBVIOUS
  <2>2. /\ held[j] # Free /\ Wants(slots, held[j]) \subseteq W
        /\ IsFallback(held[j]) => IsFallback(c)
    BY <2>1 DEF Blocks, DeadEnds
  <2>3. held[j] \in S
    BY <1>1, <2>2 DEF Matched, Seated
  <2>4. held[j] \in R
    BY <1>2, <2>2, <2>3
  <2>5. \A i \in W : i \in V
    BY <2>1
  <2> QED BY <2>2, <2>4, <2>5
<1>4. ASSUME NEW c \in R, c \notin Seated(held, N) PROVE Wants(slots, c) \subseteq V
  <2>1. PICK W \in SUBSET N : Blocks(slots, held, W, c)
    BY <1>1, <1>2, <1>4 DEF Tried
  <2>2. \A i \in W : i \in V
    BY <2>1
  <2> QED BY <2>1, <2>2 DEF Blocks
<1>5. V \subseteq N
  OBVIOUS
<1> HIDE DEF V
<1>6. ASSUME NEW k \in D \ V PROVE \E i \in N \ V : held[i] = f[k]
  <2>1. f[k] \in R /\ k \in Wants(slots, f[k])
    BY DEF PartFill, Wants
  <2>2. f[k] \in Seated(held, N)
    BY <1>4, <2>1
  <2>3. PICK i \in N : held[i] = f[k]
    BY <2>2 DEF Seated
  <2>4. i \notin V
    BY <1>3, <2>1, <2>3
  <2> QED BY <2>3, <2>4
<1> DEFINE g == [k \in D |-> IF k \in V THEN k ELSE CHOOSE i \in N \ V : held[i] = f[k]]
<1>7. \A k \in D : /\ k \in V => g[k] = k
                   /\ k \notin V => g[k] \in N \ V /\ held[g[k]] = f[k]
  BY <1>6
<1>8. DOMAIN g = D /\ g = [k \in D |-> g[k]]
  OBVIOUS
<1> HIDE DEF g
<1>9. \A k \in D : g[k] \in N /\ held[g[k]] \in R
  BY <1>3, <1>5, <1>7 DEF PartFill
<1>10. g \in [D -> {k \in N : held[k] \in R}]
  BY <1>8, <1>9
<1>11. \A k, l \in D : g[k] = g[l] => k = l
  <2> SUFFICES ASSUME NEW k \in D, NEW l \in D, g[k] = g[l], k # l PROVE FALSE
    OBVIOUS
  <2>1. f[k] # f[l]
    BY DEF PartFill
  <2> QED BY <1>7, <2>1
<1>12. g \in Injection(D, {k \in N : held[k] \in R})
  BY <1>10, <1>11 DEF Injection, IsInjective
<1> QED BY <1>12 DEF held

\* If R alone can fill every slot, it does.
LEMMA AllSeated ==
  ASSUME NEW slots \in Slots, NEW S \in SUBSET Course, NEW R, Preferred(R, S), CanFill(slots, R)
  PROVE  \A k \in DOMAIN slots : Assignment(slots, S)[k] \in R
<1> DEFINE N == DOMAIN slots
           T == {k \in N : Assignment(slots, S)[k] \in R}
<1>1. PICK f : PartFill(slots, N, R, f)
  BY DEF CanFill, PartFill
<1>2. PICK g : g \in Injection(N, T)
  BY <1>1, AsManySeated
<1>3. IsFiniteSet(N) /\ T \subseteq N
  BY SlotsFinite
<1> HIDE DEF T, N
<1>4. g \in Injection(N, N)
  BY <1>2, <1>3 DEF Injection, IsInjective
<1>5. g \in Surjection(N, N)
  BY <1>3, <1>4, FS_Injection
<1>6. \A i \in N : \E k \in N : g[k] = i
  BY <1>5 DEF Surjection
<1>7. \A k \in N : g[k] \in T
  BY <1>2 DEF Injection
<1>8. \A i \in N : i \in T
  BY <1>6, <1>7
<1> QED BY <1>8 DEF N, T

\* A rule is met exactly if the ratings can fill its slots, whichever way they are
\* put into them: moving ratings about never misses a way, although a slot that was
\* looked at in vain is not looked at again (evaluateSubjectCountRule).
THEOREM MatchingComplete ==
  ASSUME NEW slots \in Slots, NEW S \in SUBSET Course
  PROVE  Eligible(slots, S) <=> CanFill(slots, S)
<1> DEFINE N == DOMAIN slots
           held == Assignment(slots, S)
<1>1. Matched(slots, S, held)
  BY MatchingSound
<1>2. Free \notin S
  BY CourseAssumption DEF Free
<1>3. ASSUME Eligible(slots, S) PROVE CanFill(slots, S)
  <2>1. \A k \in N : held[k] # Free
    BY <1>3 DEF Eligible
  <2> HIDE DEF held
  <2>2. held \in [N -> S]
    BY <1>1, <2>1 DEF Matched, Seats, Seated
  <2>3. /\ \A k \in N : Subject[held[k]] \in slots[k]
        /\ \A k, l \in N : k # l => held[k] # held[l]
    BY <1>1, <2>1 DEF Matched, Fits, Apart
  <2> QED BY <2>2, <2>3 DEF CanFill
<1>4. ASSUME CanFill(slots, S) PROVE Eligible(slots, S)
  <2>1. Preferred(S, S)
    BY DEF Preferred
  <2>2. \A k \in N : held[k] \in S
    BY <1>4, <2>1, AllSeated
  <2> QED BY <1>2, <2>2 DEF Eligible
<1> QED BY <1>3, <1>4

-----------------------------------------------------------------------------
(* Chains *)

Grade(k) == Rank[Tier[k]]

\* Every row is of the rule it belongs to; only a title that never was has none.
RowsOK ==
  /\ title \in [Key -> Row]
  /\ \A k \in Key : /\ title[k].rule = NoRule <=> title[k].status = "absent"
                    /\ title[k].rule # NoRule => KeyOf[title[k].rule] = k

LEMMA GradeType ==
  ASSUME NEW k \in Key
  PROVE  Grade(k) \in 0..2
BY CatalogAssumption DEF Grade, TierName, Rank

LEMMA PrerequisiteGrade ==
  ASSUME RowsOK, NEW k \in Key
  PROVE  /\ Prerequisite(k) \in Professional \cup {NoTitle}
         /\ Prerequisite(k) # NoTitle =>
              Prerequisite(k) \in Professional /\ Grade(Prerequisite(k)) < Grade(k)
         /\ k \in Person => Prerequisite(k) = NoTitle
<1>1. title[k].rule # NoRule => title[k].rule \in Rule /\ KeyOf[title[k].rule] = k
  BY DEF RowsOK, Row
<1>2. CASE title[k].rule = NoRule
  BY <1>2 DEF Prerequisite
<1>3. CASE title[k].rule # NoRule
  <2>1. Prerequisite(k) = Requires[title[k].rule]
    BY <1>3 DEF Prerequisite
  <2>2. Prerequisite(k) \in Professional \cup {NoTitle}
    BY <1>1, <1>3, <2>1, CatalogAssumption
  <2> QED BY <1>1, <1>3, <2>1, <2>2, TierAssumption, PersonRuleAssumption DEF Grade
<1> QED BY <1>2, <1>3

Closed(S, rows) == \A s \in S : Prerequisite(s) \in rows => Prerequisite(s) \in S

LEMMA ChainBasics ==
  ASSUME NEW rows, NEW k \in rows
  PROVE  /\ k \in Chain(k, rows) /\ Chain(k, rows) \subseteq rows
         /\ Closed(Chain(k, rows), rows)
         /\ \A S \in SUBSET rows : k \in S /\ Closed(S, rows) => Chain(k, rows) \subseteq S
<1>1. Chain(k, rows) = {t \in rows : \A S \in SUBSET rows :
                                       (k \in S /\ Closed(S, rows)) => t \in S}
  BY DEF Chain, Closed
<1>2. ASSUME NEW s \in Chain(k, rows), Prerequisite(s) \in rows
      PROVE  Prerequisite(s) \in Chain(k, rows)
  <2>1. \A S \in SUBSET rows : (k \in S /\ Closed(S, rows)) => s \in S
    BY <1>1
  <2>2. \A S \in SUBSET rows : (k \in S /\ Closed(S, rows)) => Prerequisite(s) \in S
    BY <1>2, <2>1 DEF Closed
  <2> QED BY <1>1, <1>2, <2>2
<1>3. Closed(Chain(k, rows), rows)
  BY <1>2 DEF Closed
<1> QED BY <1>1, <1>3

\* No two titles of a chain are of the same tier; each but the first tier requires
\* the one below it, and each but the last is required.
Linear(C) ==
  /\ \A x, y \in C : Grade(x) = Grade(y) => x = y
  /\ \A x, y \in C : Grade(x) < Grade(y) =>
       Prerequisite(y) \in C /\ Grade(x) <= Grade(Prerequisite(y))

LEMMA ChainLinear ==
  ASSUME RowsOK, NEW rows \in SUBSET Key, NEW k \in rows
  PROVE  /\ Linear(Chain(k, rows))
         /\ \A x \in Chain(k, rows) : Grade(x) <= Grade(k)
         /\ \A x \in Chain(k, rows) \ {k} :
              \E y \in Chain(k, rows) : Prerequisite(y) = x
<1> DEFINE C == Chain(k, rows)
           p == Prerequisite(k)
           q == Prerequisite(p)
<1>0. NoTitle \notin rows
  BY CatalogAssumption
<1>1. k \in C /\ C \in SUBSET rows /\ Closed(C, rows)
      /\ \A S \in SUBSET rows : k \in S /\ Closed(S, rows) => C \subseteq S
  BY ChainBasics
<1>2. \A x \in rows : /\ Grade(x) \in 0..2
                      /\ Prerequisite(x) \in rows => Grade(Prerequisite(x)) < Grade(x)
  BY <1>0, GradeType, PrerequisiteGrade
<1> HIDE DEF C
<1>3. ASSUME NEW x \in C \ {k} PROVE \E y \in C : Prerequisite(y) = x
  <2>1. SUFFICES ASSUME \A y \in C : Prerequisite(y) # x PROVE FALSE
    OBVIOUS
  <2>2. k \in C \ {x} /\ Closed(C \ {x}, rows)
    BY <1>1, <1>3, <2>1 DEF Closed
  <2> QED BY <1>1, <1>3, <2>2
<1>4. CASE p \notin rows
  <2>1. Closed({k}, rows)
    BY <1>4 DEF Closed
  <2>2. C = {k}
    BY <1>1, <2>1
  <2> QED BY <1>2, <2>2 DEF Linear, C
<1>5. CASE p \in rows /\ q \notin rows
  <2>1. Closed({k, p}, rows)
    BY <1>5 DEF Closed
  <2>2. p \in C
    BY <1>1, <1>5 DEF Closed
  <2>3. C = {k, p}
    BY <1>1, <1>5, <2>1, <2>2
  <2>4. Grade(p) < Grade(k) /\ Grade(p) \in 0..2 /\ Grade(k) \in 0..2
    BY <1>2, <1>5
  <2>5. Linear(C) /\ \A x \in C : Grade(x) <= Grade(k)
    BY <2>3, <2>4 DEF Linear
  <2> QED BY <1>3, <2>5 DEF C
<1>6. CASE p \in rows /\ q \in rows
  <2>1. Grade(p) < Grade(k) /\ Grade(q) < Grade(p) /\ Grade(p) \in 0..2 /\ Grade(k) \in 0..2
        /\ Grade(q) \in 0..2
    BY <1>2, <1>6
  <2>2. Prerequisite(q) \notin rows
    <3>1. SUFFICES ASSUME Prerequisite(q) \in rows PROVE FALSE
      OBVIOUS
    <3>2. Grade(Prerequisite(q)) \in 0..2 /\ Grade(Prerequisite(q)) < Grade(q)
      BY <1>2, <1>6, <3>1
    <3> QED BY <2>1, <3>2
  <2>3. Closed({k, p, q}, rows)
    BY <1>6, <2>2 DEF Closed
  <2>4. p \in C /\ q \in C
    BY <1>1, <1>6 DEF Closed
  <2>5. C = {k, p, q}
    BY <1>1, <1>6, <2>3, <2>4
  <2>6. Linear(C) /\ \A x \in C : Grade(x) <= Grade(k)
    <3> DEFINE a == Grade(k)
               b == Grade(p)
               c == Grade(q)
    <3>1. /\ \A x, y \in C : Grade(x) = Grade(y) => x = y
          /\ \A x, y \in C : Grade(x) < Grade(y) => (y = k \/ y = p) /\ (y = p => x = q)
          /\ \A x \in C : x # k => Grade(x) <= Grade(p)
          /\ \A x \in C : Grade(x) <= Grade(k)
      BY <2>1, <2>5
    <3>2. Grade(q) <= Grade(q)
      BY <2>1
    <3> QED BY <2>1, <2>5, <3>1, <3>2 DEF Linear
  <2> QED BY <1>3, <2>6 DEF C
<1> QED BY <1>4, <1>5, <1>6

-----------------------------------------------------------------------------
(* The order of a chain *)

LowerThan(C, k) == {j \in C : Grade(j) <= Grade(k)}
Distinct(C) == \A x, y \in C : Grade(x) = Grade(y) => x = y

LEMMA Places ==
  ASSUME NEW C \in SUBSET Key
  PROVE  /\ IsFiniteSet(C) /\ Cardinality(C) \in Nat
         /\ \A x \in C : Place(C, x) \in 1..Cardinality(C)
         /\ \A x, y \in C : Grade(x) < Grade(y) => Place(C, x) < Place(C, y)
<1>1. IsFiniteSet(C) /\ Cardinality(C) \in Nat
  BY CatalogAssumption, FS_Subset, FS_CardinalityType
<1>2. \A x \in C : /\ IsFiniteSet(LowerThan(C, x)) /\ Cardinality(LowerThan(C, x)) \in Nat
                   /\ Cardinality(LowerThan(C, x)) <= Cardinality(C)
                   /\ Place(C, x) = Cardinality(LowerThan(C, x))
  <2> SUFFICES ASSUME NEW x \in C
               PROVE  /\ IsFiniteSet(LowerThan(C, x)) /\ Cardinality(LowerThan(C, x)) \in Nat
                      /\ Cardinality(LowerThan(C, x)) <= Cardinality(C)
                      /\ Place(C, x) = Cardinality(LowerThan(C, x))
    OBVIOUS
  <2>1. LowerThan(C, x) \in SUBSET C
    BY DEF LowerThan
  <2>2. Place(C, x) = Cardinality(LowerThan(C, x))
    BY DEF Place, LowerThan, Grade
  <2> QED BY <1>1, <2>1, <2>2, FS_Subset, FS_CardinalityType
<1>3. ASSUME NEW x \in C PROVE Place(C, x) \in 1..Cardinality(C)
  <2>1. x \in LowerThan(C, x)
    BY GradeType DEF LowerThan
  <2>2. Cardinality(LowerThan(C, x)) # 0
    BY <1>2, <2>1, FS_EmptySet
  <2> QED BY <1>1, <1>2, <2>2
<1>4. ASSUME NEW x \in C, NEW y \in C, Grade(x) < Grade(y)
      PROVE  Place(C, x) < Place(C, y)
  <2>1. /\ Grade(x) \in 0..2 /\ Grade(y) \in 0..2
        /\ \A j \in C : Grade(j) \in 0..2
    BY GradeType
  <2>2. LowerThan(C, x) \in SUBSET LowerThan(C, y)
        /\ y \in LowerThan(C, y) /\ y \notin LowerThan(C, x)
    BY <1>4, <2>1 DEF LowerThan
  <2>3. /\ Cardinality(LowerThan(C, x)) <= Cardinality(LowerThan(C, y))
        /\ Cardinality(LowerThan(C, x)) # Cardinality(LowerThan(C, y))
    BY <1>2, <2>2, FS_Subset
  <2> QED BY <1>2, <2>3
<1> QED BY <1>1, <1>3, <1>4

LEMMA PlaceOne ==
  ASSUME NEW C \in SUBSET Key, Distinct(C)
  PROVE  \A x, y \in C : /\ Place(C, x) = Place(C, y) => x = y
                         /\ Place(C, x) < Place(C, y) <=> Grade(x) < Grade(y)
<1> SUFFICES ASSUME NEW x \in C, NEW y \in C
             PROVE  /\ Place(C, x) = Place(C, y) => x = y
                    /\ Place(C, x) < Place(C, y) <=> Grade(x) < Grade(y)
  OBVIOUS
<1>1. Grade(x) \in Int /\ Grade(y) \in Int
  BY GradeType
<1>2. Grade(x) < Grade(y) \/ Grade(y) < Grade(x) \/ x = y
  BY <1>1 DEF Distinct
<1>3. /\ Place(C, x) \in Int /\ Place(C, y) \in Int
      /\ Grade(x) < Grade(y) => Place(C, x) < Place(C, y)
      /\ Grade(y) < Grade(x) => Place(C, y) < Place(C, x)
  BY Places
<1> QED BY <1>1, <1>2, <1>3

\* Each place is some title's.
LEMMA PlaceOnto ==
  ASSUME NEW C \in SUBSET Key, Distinct(C), NEW i \in 1..Cardinality(C)
  PROVE  \E x \in C : Place(C, x) = i
<1> DEFINE n == Cardinality(C)
           P == [x \in C |-> Place(C, x)]
<1>1. IsFiniteSet(C) /\ n \in Nat
  BY Places
<1>2. P \in [C -> 1..n] /\ \A x, y \in C : P[x] = P[y] => x = y
  BY Places, PlaceOne
<1>3. P \in Injection(C, 1..n)
  BY <1>2 DEF Injection, IsInjective
<1>4. IsFiniteSet(1..n) /\ Cardinality(1..n) = n
  BY <1>1, UpTo
<1> HIDE DEF P
<1>5. P \in Surjection(C, 1..n)
  BY <1>3, <1>4, FS_Injection
<1>6. \E x \in C : P[x] = i
  BY <1>5 DEF Surjection
<1> QED BY <1>6 DEF P

LEMMA OrderedIs ==
  ASSUME NEW C \in SUBSET Key, Distinct(C)
  PROVE  /\ Ordered(C) \in [1..Cardinality(C) -> C]
         /\ \A i \in 1..Cardinality(C) : Place(C, Ordered(C)[i]) = i
         /\ \A x \in C : Ordered(C)[Place(C, x)] = x
<1> DEFINE n == Cardinality(C)
           Up(s) == \A i, j \in 1..n : i < j => Grade(s[i]) < Grade(s[j])
           t == [i \in 1..n |-> CHOOSE x \in C : Place(C, x) = i]
           s == Ordered(C)
<1>1. IsFiniteSet(C) /\ n \in Nat /\ \A x \in C : Place(C, x) \in 1..n
  BY Places
<1>2. \A i \in 1..n : t[i] \in C /\ Place(C, t[i]) = i
  BY PlaceOnto
<1>3. t \in [1..n -> C] /\ Up(t)
  <2>1. t \in [1..n -> C]
    BY <1>2
  <2>2. \A i, j \in 1..n : i < j => Place(C, t[i]) < Place(C, t[j])
    BY <1>2
  <2> HIDE DEF t
  <2>3. Up(t)
    BY <1>2, <2>2, PlaceOne
  <2> QED BY <2>1, <2>3
<1>4. Ordered(C) = CHOOSE r \in [1..n -> C] : Up(r)
  BY DEF Ordered, Grade
<1> HIDE DEF t, s
<1>5. s \in [1..n -> C] /\ Up(s)
  <2> HIDE DEF Up
  <2> QED BY <1>3, <1>4 DEF s
<1>6. \A i, j \in 1..n : Place(C, s[i]) = Place(C, s[j]) => i = j
  <2>1. \A i, j \in 1..n : i < j => Place(C, s[i]) < Place(C, s[j])
    BY <1>5, Places
  <2>2. \A i, j \in 1..n : i < j \/ j < i \/ i = j
    BY <1>1
  <2>3. \A i \in 1..n : Place(C, s[i]) \in Int
    BY <1>1, <1>5
  <2> QED BY <2>1, <2>2, <2>3
<1>7. ASSUME NEW i \in 1..n PROVE Place(C, s[i]) = i
  <2> DEFINE D == LowerThan(C, s[i])
             g == [m \in 1..i |-> s[m]]
  <2>1. s[i] \in C /\ i \in Nat /\ i <= n /\ \A m \in 1..i : m \in 1..n
    BY <1>1, <1>5
  <2>2. Place(C, s[i]) = Cardinality(D)
    BY DEF Place, LowerThan, Grade
  <2>3. ASSUME NEW m \in 1..n PROVE s[m] \in D <=> m <= i
    <3>1. s[m] \in C /\ Grade(s[m]) \in Int /\ Grade(s[i]) \in Int /\ m \in Nat
      <4>1. s[m] \in C /\ m \in Nat
        BY <1>1, <1>5
      <4>2. s[m] \in Key /\ s[i] \in Key
        BY <2>1, <4>1
      <4>3. Grade(s[m]) \in 0..2 /\ Grade(s[i]) \in 0..2
        BY <4>2, GradeType
      <4> QED BY <4>1, <4>3
    <3>2. m < i => Grade(s[m]) < Grade(s[i])
      BY <1>5
    <3>3. i < m => Grade(s[i]) < Grade(s[m])
      BY <1>5
    <3>4. m = i => Grade(s[m]) = Grade(s[i])
      OBVIOUS
    <3>5. s[m] \in D <=> Grade(s[m]) <= Grade(s[i])
      BY <3>1 DEF LowerThan
    <3> HIDE DEF D
    <3>6. \/ Grade(s[m]) < Grade(s[i]) /\ m < i
          \/ Grade(s[i]) < Grade(s[m]) /\ i < m
          \/ Grade(s[m]) = Grade(s[i]) /\ m = i
      BY <2>1, <3>1, <3>2, <3>3, <3>4
    <3> QED BY <2>1, <3>1, <3>5, <3>6
  <2>4. \A x \in C : \E m \in 1..n : s[m] = x
    <3>1. \A a, b \in 1..n : s[a] = s[b] => a = b
      BY <1>6
    <3>2. s \in Injection(1..n, C)
      BY <1>5, <3>1 DEF Injection, IsInjective
    <3>3. Cardinality(1..n) = n
      BY <1>1, UpTo
    <3>4. s \in Surjection(1..n, C)
      BY <1>1, <3>2, <3>3, FS_Injection
    <3> QED BY <3>4 DEF Surjection
  <2>5. g \in [1..i -> D] /\ \A a, b \in 1..i : g[a] = g[b] => a = b
    <3>1. \A m \in 1..i : g[m] = s[m] /\ s[m] \in D
      BY <2>1, <2>3
    <3>2. g \in [1..i -> D]
      BY <3>1
    <3>3. \A a, b \in 1..i : g[a] = g[b] => a = b
      BY <1>6, <2>1, <3>1
    <3> QED BY <3>2, <3>3
  <2>6. \A x \in D : \E m \in 1..i : g[m] = x
    <3> SUFFICES ASSUME NEW x \in D PROVE \E m \in 1..i : g[m] = x
      OBVIOUS
    <3>1. PICK m \in 1..n : s[m] = x
      BY <2>4 DEF LowerThan
    <3>2. m \in 1..i
      BY <2>1, <2>3, <3>1
    <3> QED BY <3>1, <3>2
  <2> HIDE DEF D, g
  <2>7. g \in Bijection(1..i, D)
    BY <2>5, <2>6 DEF Bijection, Injection, Surjection, IsInjective
  <2>8. IsFiniteSet(1..i) /\ Cardinality(1..i) = i
    BY <2>1, UpTo
  <2>9. Cardinality(D) = i
    BY <2>7, <2>8, FS_Bijection DEF ExistsBijection
  <2> QED BY <2>2, <2>9
<1>8. ASSUME NEW x \in C PROVE s[Place(C, x)] = x
  <2>1. Place(C, x) \in 1..n
    BY <1>1
  <2>2. s[Place(C, x)] \in C /\ Place(C, s[Place(C, x)]) = Place(C, x)
    BY <1>5, <1>7, <2>1
  <2> QED BY <2>2, PlaceOne
<1> QED BY <1>5, <1>7, <1>8 DEF s

-----------------------------------------------------------------------------
(* The slots of a chain *)

\* f adds up the slots of the first n tiers.
AddsUp(C, n, f) ==
  f = [i \in 0..n |-> IF i = 0 THEN <<>>
                      ELSE f[i - 1] \o Asks[title[Ordered(C)[i]].rule]]

LEMMA SlotsUpToIs ==
  ASSUME NEW C, NEW n, \E f : AddsUp(C, n, f)
  PROVE  \E f : AddsUp(C, n, f) /\ SlotsUpTo(C, n) = f[n]
<1> DEFINE f == CHOOSE f : AddsUp(C, n, f)
<1>1. AddsUp(C, n, f)
  OBVIOUS
<1>2. SlotsUpTo(C, n) = f[n]
  BY DEF SlotsUpTo, AddsUp
<1> QED BY <1>1, <1>2

\* A chain of titles the student has.
ChainOK(C) == RowsOK /\ C \in SUBSET Exists /\ Distinct(C)

AskedAt(C, i) == Asks[title[Ordered(C)[i]].rule]

LEMMA AskedType ==
  ASSUME NEW C, ChainOK(C)
  PROVE  /\ C \in SUBSET Key /\ Cardinality(C) \in Nat
         /\ \A k \in C : title[k].rule \in Rule /\ Asks[title[k].rule] \in Slots
         /\ \A i \in 1..Cardinality(C) : Ordered(C)[i] \in C /\ AskedAt(C, i) \in Slots
<1>1. C \in SUBSET Key /\ Distinct(C)
  BY DEF ChainOK, Exists
<1>2. Cardinality(C) \in Nat
  BY <1>1, Places
<1>3. \A k \in C : title[k].rule \in Rule /\ Asks[title[k].rule] \in Slots
  <2>1. \A k \in C : k \in Key /\ title[k].status # "absent"
    BY DEF ChainOK, Exists
  <2>2. \A k \in C : title[k].rule \in Rule
    BY <2>1 DEF ChainOK, RowsOK, Row
  <2> QED BY <2>2, CatalogAssumption
<1>4. \A i \in 1..Cardinality(C) : Ordered(C)[i] \in C
  BY <1>1, OrderedIs
<1> QED BY <1>1, <1>2, <1>3, <1>4 DEF AskedAt

LEMMA Appended ==
  ASSUME NEW s \in Slots, NEW t \in Slots
  PROVE  s \o t \in Slots
BY DEF Slots

LEMMA AddsUpStep ==
  ASSUME NEW C, ChainOK(C), NEW n \in Nat, n < Cardinality(C),
         NEW f \in [0..n -> Slots], AddsUp(C, n, f)
  PROVE  \E g \in [0..(n + 1) -> Slots] : AddsUp(C, n + 1, g)
<1> DEFINE g == [i \in 0..(n + 1) |-> IF i = n + 1 THEN f[n] \o AskedAt(C, n + 1) ELSE f[i]]
<1>1. /\ n + 1 \in 1..Cardinality(C) /\ n \in 0..n /\ n + 1 # 0 /\ (n + 1) - 1 = n
      /\ \A i \in 0..(n + 1) : i = n + 1 \/ i \in 0..n
      /\ \A i \in 0..n : i # n + 1 /\ i - 1 # n + 1
      /\ \A i \in 0..n : i # 0 => i - 1 \in 0..(n + 1)
  BY AskedType
<1>2. f[n] \in Slots /\ AskedAt(C, n + 1) \in Slots
  BY <1>1, AskedType
<1>3. f[n] \o AskedAt(C, n + 1) \in Slots
  BY <1>2, Appended
<1>4. g \in [0..(n + 1) -> Slots]
  BY <1>1, <1>3
<1>5. \A i \in 0..n : f[i] = IF i = 0 THEN <<>> ELSE f[i - 1] \o AskedAt(C, i)
  BY DEF AddsUp, AskedAt
<1>6. \A i \in 0..(n + 1) : g[i] = IF i = 0 THEN <<>> ELSE g[i - 1] \o AskedAt(C, i)
  <2> SUFFICES ASSUME NEW i \in 0..(n + 1)
               PROVE  g[i] = IF i = 0 THEN <<>> ELSE g[i - 1] \o AskedAt(C, i)
    OBVIOUS
  <2>1. CASE i = n + 1
    <3>1. g[i] = f[n] \o AskedAt(C, n + 1)
      BY <2>1
    <3>2. g[i - 1] = f[n]
      BY <1>1, <2>1
    <3> QED BY <1>1, <2>1, <3>1, <3>2
  <2>2. CASE i # n + 1
    <3>1. i \in 0..n /\ g[i] = f[i]
      BY <1>1, <2>2
    <3>2. i # 0 => g[i - 1] = f[i - 1]
      BY <1>1, <3>1
    <3> QED BY <1>5, <3>1, <3>2
  <2> QED BY <2>1, <2>2
<1>7. g = [i \in 0..(n + 1) |-> g[i]]
  OBVIOUS
<1> HIDE DEF g
<1>8. AddsUp(C, n + 1, g)
  BY <1>6, <1>7 DEF AddsUp, AskedAt
<1> QED BY <1>4, <1>8

LEMMA AddsUpAll ==
  ASSUME NEW C, ChainOK(C), NEW n \in 0..Cardinality(C)
  PROVE  \E f \in [0..n -> Slots] : AddsUp(C, n, f)
<1> DEFINE Claim(m) == \E f \in [0..m -> Slots] : AddsUp(C, m, f)
           T == {m \in 0..Cardinality(C) : ~Claim(m)}
<1>1. SUFFICES ASSUME T # {} PROVE FALSE
  OBVIOUS
<1>2. PICK m \in T : \A j \in T : m <= j
  <2>1. T \in SUBSET Nat
    BY AskedType
  <2> HIDE DEF T
  <2> QED BY <1>1, <2>1, Smallest
<1>3. CASE m = 0
  <2> DEFINE f == [i \in 0..0 |-> <<>>]
  <2>1. f \in [0..0 -> Slots] /\ AddsUp(C, 0, f)
    <3>1. f \in [0..0 -> Slots]
      BY DEF Slots
    <3>2. \A i \in 0..0 : i = 0
      OBVIOUS
    <3> QED BY <3>1, <3>2 DEF AddsUp
  <2> QED BY <1>3, <2>1
<1>4. CASE m # 0
  <2>1. /\ m - 1 \in Nat /\ m - 1 < Cardinality(C) /\ (m - 1) + 1 = m /\ ~(m <= m - 1)
        /\ m - 1 \in 0..Cardinality(C)
    BY <1>4, AskedType
  <2>2. Claim(m - 1)
    <3> HIDE DEF Claim
    <3> QED BY <1>2, <2>1
  <2>3. PICK f \in [0..(m - 1) -> Slots] : AddsUp(C, m - 1, f)
    BY <2>2
  <2>4. Claim((m - 1) + 1)
    BY <2>1, <2>3, AddsUpStep
  <2> HIDE DEF Claim
  <2> QED BY <2>1, <2>4
<1> QED BY <1>3, <1>4

\* The sum does not depend on where it is broken off.
LEMMA AddsUpAlike ==
  ASSUME NEW C, NEW m \in Nat, NEW n \in Nat, NEW f, NEW g, AddsUp(C, m, f), AddsUp(C, n, g),
         NEW i \in 0..m, i \in 0..n
  PROVE  f[i] = g[i]
<1> DEFINE T == {j \in 0..m : j \in 0..n /\ f[j] # g[j]}
<1>1. SUFFICES ASSUME T # {} PROVE FALSE
  OBVIOUS
<1>2. PICK j \in T : \A l \in T : j <= l
  <2>1. T \in SUBSET Nat
    OBVIOUS
  <2> HIDE DEF T
  <2> QED BY <1>1, <2>1, Smallest
<1>3. /\ f[j] = IF j = 0 THEN <<>> ELSE f[j - 1] \o AskedAt(C, j)
      /\ g[j] = IF j = 0 THEN <<>> ELSE g[j - 1] \o AskedAt(C, j)
  BY DEF AddsUp, AskedAt
<1>4. j # 0 => f[j - 1] = g[j - 1]
  <2>1. j # 0 => j - 1 \in 0..m /\ j - 1 \in 0..n /\ ~(j <= j - 1)
    OBVIOUS
  <2> QED BY <1>2, <2>1
<1> QED BY <1>3, <1>4

\* The slots of one more tier are added at the end.
LEMMA SlotsUpToStep ==
  ASSUME NEW C, ChainOK(C)
  PROVE  /\ SlotsUpTo(C, 0) = <<>>
         /\ \A n \in 0..Cardinality(C) : SlotsUpTo(C, n) \in Slots
         /\ \A n \in 1..Cardinality(C) :
              SlotsUpTo(C, n) = SlotsUpTo(C, n - 1) \o AskedAt(C, n)
<1>1. ASSUME NEW n \in 0..Cardinality(C)
      PROVE  \E f \in [0..n -> Slots] : AddsUp(C, n, f) /\ SlotsUpTo(C, n) = f[n]
  <2>1. PICK g \in [0..n -> Slots] : AddsUp(C, n, g)
    BY AddsUpAll
  <2>2. PICK f : AddsUp(C, n, f) /\ SlotsUpTo(C, n) = f[n]
    BY <2>1, SlotsUpToIs
  <2>3. n \in Nat /\ n \in 0..n
    BY AskedType
  <2>4. f[n] = g[n]
    BY <2>1, <2>2, <2>3, AddsUpAlike
  <2> QED BY <2>1, <2>2, <2>4
<1>2. SlotsUpTo(C, 0) = <<>>
  <2>1. 0 \in 0..Cardinality(C)
    BY AskedType
  <2>2. PICK f \in [0..0 -> Slots] : AddsUp(C, 0, f) /\ SlotsUpTo(C, 0) = f[0]
    BY <1>1, <2>1
  <2> QED BY <2>2 DEF AddsUp
<1>3. ASSUME NEW n \in 1..Cardinality(C)
      PROVE  SlotsUpTo(C, n) = SlotsUpTo(C, n - 1) \o AskedAt(C, n)
  <2>1. /\ n \in 0..Cardinality(C) /\ n - 1 \in 0..Cardinality(C) /\ n # 0 /\ n \in Nat
        /\ n - 1 \in Nat /\ n - 1 \in 0..n /\ n - 1 \in 0..(n - 1) /\ n \in 0..n
    BY AskedType
  <2>2. PICK f \in [0..n -> Slots] : AddsUp(C, n, f) /\ SlotsUpTo(C, n) = f[n]
    BY <1>1, <2>1
  <2>3. PICK g \in [0..(n - 1) -> Slots] : AddsUp(C, n - 1, g) /\ SlotsUpTo(C, n - 1) = g[n - 1]
    BY <1>1, <2>1
  <2>4. f[n - 1] = g[n - 1]
    BY <2>1, <2>2, <2>3, AddsUpAlike
  <2>5. f[n] = f[n - 1] \o AskedAt(C, n)
    BY <2>1, <2>2 DEF AddsUp, AskedAt
  <2> QED BY <2>2, <2>3, <2>4, <2>5
<1> QED BY <1>1, <1>2, <1>3

\* Where the slots of the p-th tier stand among those of the first n.
LEMMA SlotsUpToPrefix ==
  ASSUME NEW C, ChainOK(C), NEW p \in 0..Cardinality(C), NEW n \in p..Cardinality(C)
  PROVE  /\ Len(SlotsUpTo(C, p)) <= Len(SlotsUpTo(C, n))
         /\ \A i \in 1..Len(SlotsUpTo(C, p)) : SlotsUpTo(C, n)[i] = SlotsUpTo(C, p)[i]
<1> DEFINE s(m) == SlotsUpTo(C, m)
           Claim(m) == /\ Len(s(p)) <= Len(s(m))
                       /\ \A i \in 1..Len(s(p)) : s(m)[i] = s(p)[i]
           T == {m \in p..Cardinality(C) : ~Claim(m)}
<1>1. SUFFICES ASSUME T # {} PROVE FALSE
  OBVIOUS
<1>2. PICK m \in T : \A j \in T : m <= j
  <2>1. T \in SUBSET Nat
    BY AskedType
  <2> HIDE DEF T
  <2> QED BY <1>1, <2>1, Smallest
<1>3. p \in Nat /\ s(p) \in Slots /\ Len(s(p)) \in Nat
  BY AskedType, SlotsUpToStep DEF Slots
<1>4. CASE m = p
  <2> HIDE DEF s
  <2> QED BY <1>2, <1>3, <1>4
<1>5. CASE m # p
  <2>1. /\ m \in 1..Cardinality(C) /\ m - 1 \in p..Cardinality(C) /\ ~(m <= m - 1)
        /\ m - 1 \in 0..Cardinality(C)
    BY <1>3, <1>5, AskedType
  <2>2. Claim(m - 1)
    <3> HIDE DEF Claim
    <3> QED BY <1>2, <2>1
  <2>3. /\ s(m) = s(m - 1) \o AskedAt(C, m) /\ s(m - 1) \in Slots /\ AskedAt(C, m) \in Slots
    BY <2>1, SlotsUpToStep, AskedType
  <2> HIDE DEF s
  <2>4. /\ Len(s(m)) = Len(s(m - 1)) + Len(AskedAt(C, m)) /\ Len(AskedAt(C, m)) \in Nat
        /\ Len(s(m - 1)) \in Nat
        /\ \A i \in 1..Len(s(m - 1)) : s(m)[i] = s(m - 1)[i]
    BY <2>3 DEF Slots
  <2>5. Len(s(p)) <= Len(s(m))
    BY <1>3, <2>2, <2>4
  <2>6. ASSUME NEW i \in 1..Len(s(p)) PROVE s(m)[i] = s(p)[i]
    <3>1. i \in 1..Len(s(m - 1))
      BY <1>3, <2>2, <2>4
    <3> QED BY <2>2, <2>4, <3>1
  <2> QED BY <1>2, <2>5, <2>6
<1> QED BY <1>4, <1>5

LEMMA SlotsOfTier ==
  ASSUME NEW C, ChainOK(C), NEW n \in 0..Cardinality(C), NEW p \in 1..n
  PROVE  LET b == Len(SlotsUpTo(C, p - 1))
             w == Len(AskedAt(C, p))
         IN  /\ b \in Nat /\ w \in Nat /\ SlotsOf(C, p) = (b + 1)..(b + w)
             /\ Len(SlotsUpTo(C, p)) = b + w
             /\ b + w <= Len(SlotsUpTo(C, n)) /\ Len(SlotsUpTo(C, n)) \in Nat
             /\ \A j \in 1..w : SlotsUpTo(C, n)[b + j] = AskedAt(C, p)[j]
<1> DEFINE b == Len(SlotsUpTo(C, p - 1))
           w == Len(AskedAt(C, p))
           u == SlotsUpTo(C, p - 1)
           v == SlotsUpTo(C, p)
           s == SlotsUpTo(C, n)
           a == AskedAt(C, p)
<1>1. /\ p \in 1..Cardinality(C) /\ p \in 0..Cardinality(C) /\ p - 1 \in 0..Cardinality(C)
      /\ n \in p..Cardinality(C)
  BY AskedType
<1>2. u \in Slots /\ v \in Slots /\ s \in Slots /\ a \in Slots /\ v = u \o a
  BY <1>1, AskedType, SlotsUpToStep
<1>3. Len(v) <= Len(s) /\ \A i \in 1..Len(v) : s[i] = v[i]
  BY <1>1, SlotsUpToPrefix
<1>4. SlotsOf(C, p) = (Len(u) + 1)..Len(v)
  BY DEF SlotsOf
<1> HIDE DEF u, v, s, a
<1>5. /\ Len(u) \in Nat /\ Len(a) \in Nat /\ Len(v) = Len(u) + Len(a) /\ Len(s) \in Nat
      /\ \A j \in 1..Len(a) : v[Len(u) + j] = a[j]
  BY <1>2 DEF Slots
<1>6. \A j \in 1..Len(a) : Len(u) + j \in 1..Len(v)
  BY <1>5
<1>7. \A j \in 1..Len(a) : s[Len(u) + j] = a[j]
  BY <1>3, <1>5, <1>6
<1> QED BY <1>3, <1>4, <1>5, <1>7 DEF u, v, s, a

-----------------------------------------------------------------------------
(* The evidence of a chain *)

\* A rule's slots are filled by S, one course each, and nothing is left over.
Fills(a, S) == Cardinality(S) = Len(a) /\ CanFill(a, S)

LEMMA FilledBy ==
  ASSUME NEW a \in Slots, NEW S, NEW h \in [DOMAIN a -> S],
         \A k \in DOMAIN a : Subject[h[k]] \in a[k],
         \A k, l \in DOMAIN a : h[k] = h[l] => k = l,
         \A c \in S : \E k \in DOMAIN a : h[k] = c
  PROVE  Fills(a, S)
<1>1. IsFiniteSet(DOMAIN a) /\ Cardinality(DOMAIN a) = Len(a)
  BY SlotsFinite
<1>2. h \in Bijection(DOMAIN a, S)
  BY DEF Bijection, Injection, Surjection, IsInjective
<1>3. Cardinality(S) = Len(a)
  BY <1>1, <1>2, FS_Bijection DEF ExistsBijection
<1>4. CanFill(a, S)
  BY DEF CanFill
<1> QED BY <1>3, <1>4 DEF Fills

\* Part of a full assignment fills the part of the slots it stands in.
LEMMA PartFills ==
  ASSUME NEW slots \in Slots, NEW S \in SUBSET Course, Eligible(slots, S),
         NEW a \in Slots, NEW b \in Nat, b + Len(a) <= Len(slots),
         \A j \in 1..Len(a) : slots[b + j] = a[j]
  PROVE  Fills(a, {c \in S : \E i \in (b + 1)..(b + Len(a)) : Assignment(slots, S)[i] = c})
<1> DEFINE held == Assignment(slots, S)
           w == Len(a)
           E == {c \in S : \E i \in (b + 1)..(b + w) : held[i] = c}
           h == [j \in DOMAIN a |-> held[b + j]]
<1>1. Matched(slots, S, held) /\ \A k \in DOMAIN slots : held[k] # Free
  BY MatchingSound DEF Eligible
<1> HIDE DEF held
<1>2. w \in Nat /\ DOMAIN a = 1..w /\ Len(slots) \in Nat /\ DOMAIN slots = 1..Len(slots)
  BY SlotsFinite
<1>3. \A j \in 1..w : b + j \in DOMAIN slots /\ b + j \in (b + 1)..(b + w)
  BY <1>2
<1>4. \A i \in DOMAIN slots : held[i] \in S /\ Subject[held[i]] \in slots[i]
  BY <1>1 DEF Matched, Seated, Fits
<1>5. \A i, l \in DOMAIN slots : held[i] = held[l] => i = l
  BY <1>1 DEF Matched, Apart
<1>6. h \in [DOMAIN a -> E]
  BY <1>2, <1>3, <1>4
<1>7. \A j \in DOMAIN a : Subject[h[j]] \in a[j]
  BY <1>2, <1>3, <1>4
<1>8. \A j, l \in DOMAIN a : h[j] = h[l] => j = l
  <2>1. \A j, l \in 1..w : b + j = b + l => j = l
    BY <1>2
  <2> QED BY <1>2, <1>3, <1>5, <2>1
<1>9. \A c \in E : \E j \in DOMAIN a : h[j] = c
  <2> SUFFICES ASSUME NEW c \in E PROVE \E j \in DOMAIN a : h[j] = c
    OBVIOUS
  <2>1. PICK i \in (b + 1)..(b + w) : held[i] = c
    OBVIOUS
  <2>2. i - b \in 1..w /\ b + (i - b) = i
    BY <1>2
  <2> QED BY <1>2, <2>1, <2>2
<1>10. Fills(a, E)
  <2> HIDE DEF E, h
  <2> QED BY <1>6, <1>7, <1>8, <1>9, FilledBy
<1> QED BY <1>10 DEF held

\* What the evaluation selects for one rule fills its slots.
LEMMA SelectedFills ==
  ASSUME NEW a \in Slots, NEW S \in SUBSET Course, Eligible(a, S)
  PROVE  Fills(a, Selected(a, S)) /\ Selected(a, S) \subseteq S
<1>1. Len(a) \in Nat /\ DOMAIN a = 1..Len(a)
  BY SlotsFinite
<1>2. 0 + Len(a) <= Len(a) /\ \A j \in 1..Len(a) : a[0 + j] = a[j]
  BY <1>1
<1>3. (0 + 1)..(0 + Len(a)) = DOMAIN a
  BY <1>1
<1>4. Fills(a, {c \in S : \E i \in (0 + 1)..(0 + Len(a)) : Assignment(a, S)[i] = c})
  BY <1>2, PartFills
<1> QED BY <1>3, <1>4 DEF Selected

\* The evidence of a chain rewritten for its first n tiers: each of them is earned,
\* the others have none, and no rating is used twice.
LEMMA RewrittenFills ==
  ASSUME NEW C, ChainOK(C), NEW n \in 0..Cardinality(C), NEW S \in SUBSET Course,
         n > 0 => Eligible(SlotsUpTo(C, n), S), NEW ev
  PROVE  LET ev2 == Rewritten(ev, C, n, S)
         IN  /\ DOMAIN ev2 = Key
             /\ \A k \in Key \ C : ev2[k] = ev[k]
             /\ \A k \in C : /\ ev2[k] \subseteq S
                             /\ Place(C, k) > n => ev2[k] = {}
                             /\ ~(Place(C, k) > n) => Fills(Asks[title[k].rule], ev2[k])
             /\ \A j, k \in C : j # k => ev2[j] \cap ev2[k] = {}
<1> DEFINE ev2 == Rewritten(ev, C, n, S)
           slots == SlotsUpTo(C, n)
           held == Assignment(slots, S)
<1>1. C \in SUBSET Key /\ Distinct(C) /\ Cardinality(C) \in Nat /\ n \in Nat
  BY AskedType DEF ChainOK
<1>2. \A k \in Key : ev2[k] =
        IF k \notin C THEN ev[k]
        ELSE IF Place(C, k) > n THEN {}
        ELSE {c \in S : \E i \in SlotsOf(C, Place(C, k)) : held[i] = c}
  BY DEF Rewritten
<1>3. DOMAIN ev2 = Key
  BY DEF Rewritten
<1>4. \A k \in C : Place(C, k) \in 1..Cardinality(C) /\ Ordered(C)[Place(C, k)] = k
  BY <1>1, Places, OrderedIs
<1>5. slots \in Slots
  BY SlotsUpToStep
<1> HIDE DEF ev2, slots, held
<1>6. ASSUME NEW k \in C, ~(Place(C, k) > n)
      PROVE  Fills(Asks[title[k].rule], ev2[k])
  <2> DEFINE p == Place(C, k)
             b == Len(SlotsUpTo(C, p - 1))
             a == AskedAt(C, p)
  <2>1. p \in 1..n /\ n > 0 /\ p \in 1..Cardinality(C)
    BY <1>1, <1>4, <1>6
  <2>2. a = Asks[title[k].rule] /\ a \in Slots
    BY <1>4, <2>1, AskedType DEF AskedAt
  <2>3. /\ b \in Nat /\ Len(a) \in Nat /\ SlotsOf(C, p) = (b + 1)..(b + Len(a))
        /\ b + Len(a) <= Len(slots)
        /\ \A j \in 1..Len(a) : slots[b + j] = a[j]
    <3> HIDE DEF p
    <3>1. /\ b \in Nat /\ Len(a) \in Nat /\ SlotsOf(C, p) = (b + 1)..(b + Len(a))
          /\ b + Len(a) <= Len(SlotsUpTo(C, n))
          /\ \A j \in 1..Len(a) : SlotsUpTo(C, n)[b + j] = a[j]
      BY <2>1, SlotsOfTier
    <3> QED BY <3>1 DEF slots
  <2>4. ev2[k] = {c \in S : \E i \in SlotsOf(C, p) : held[i] = c}
    BY <1>1, <1>2, <1>6
  <2> HIDE DEF p, b, a
  <2>5. Eligible(slots, S)
    BY <2>1 DEF slots
  <2>6. Fills(a, {c \in S : \E i \in (b + 1)..(b + Len(a)) : Assignment(slots, S)[i] = c})
    BY <1>5, <2>2, <2>3, <2>5, PartFills, SMTT(30)
  <2> QED BY <2>2, <2>3, <2>4, <2>6 DEF held
<1>7. ASSUME NEW j \in C, NEW k \in C, j # k, NEW c \in ev2[j], c \in ev2[k] PROVE FALSE
  <2> DEFINE p == Place(C, j)
             q == Place(C, k)
  <2>1. ~(p > n) /\ ~(q > n)
    BY <1>1, <1>2, <1>7
  <2>2. p \in 1..n /\ q \in 1..n /\ p \in 1..Cardinality(C) /\ q \in 1..Cardinality(C)
    BY <1>1, <1>4, <2>1
  <2>3. p # q
    BY <1>1, <1>7, PlaceOne
  <2>4. PICK x \in SlotsOf(C, p) : held[x] = c
    <3>1. ev2[j] = {d \in S : \E i \in SlotsOf(C, p) : held[i] = d}
      BY <1>1, <1>2, <2>1
    <3> QED BY <1>7, <3>1
  <2>5. PICK y \in SlotsOf(C, q) : held[y] = c
    <3>1. ev2[k] = {d \in S : \E i \in SlotsOf(C, q) : held[i] = d}
      BY <1>1, <1>2, <2>1
    <3> QED BY <1>7, <3>1
  <2> HIDE DEF p, q
  <2>6. /\ SlotsOf(C, p) \subseteq 1..Len(slots) /\ SlotsOf(C, q) \subseteq 1..Len(slots)
    <3> SUFFICES ASSUME NEW r \in 1..n PROVE SlotsOf(C, r) \subseteq 1..Len(slots)
      BY <2>2
    <3> DEFINE b == Len(SlotsUpTo(C, r - 1))
               w == Len(AskedAt(C, r))
               l == Len(SlotsUpTo(C, n))
    <3>1. b \in Nat /\ w \in Nat /\ SlotsOf(C, r) = (b + 1)..(b + w) /\ b + w <= l /\ l \in Nat
      BY SlotsOfTier
    <3> HIDE DEF b, w, l
    <3>2. (b + 1)..(b + w) \subseteq 1..l
      BY <3>1
    <3> QED BY <3>1, <3>2 DEF l, slots
  <2>7. ASSUME NEW r \in 1..n, NEW t \in 1..n, r < t
        PROVE  \A u \in SlotsOf(C, r), v \in SlotsOf(C, t) : u # v
    <3> DEFINE b == Len(SlotsUpTo(C, r - 1))
               w == Len(AskedAt(C, r))
               d == Len(SlotsUpTo(C, t - 1))
               z == Len(AskedAt(C, t))
    <3>1. b \in Nat /\ w \in Nat /\ SlotsOf(C, r) = (b + 1)..(b + w) /\ Len(SlotsUpTo(C, r)) = b + w
      BY SlotsOfTier
    <3>2. d \in Nat /\ z \in Nat /\ SlotsOf(C, t) = (d + 1)..(d + z)
      BY SlotsOfTier
    <3>3. r \in 0..Cardinality(C) /\ t - 1 \in r..Cardinality(C)
      BY <1>1, <2>7
    <3>4. Len(SlotsUpTo(C, r)) <= d
      BY <3>3, SlotsUpToPrefix
    <3>5. b + w <= d
      BY <3>1, <3>4
    <3> HIDE DEF b, w, d, z
    <3> QED BY <3>1, <3>2, <3>5
  <2>8. x # y
    <3>1. p < q \/ q < p
      BY <2>2, <2>3
    <3> QED BY <2>2, <2>4, <2>5, <2>7, <3>1
  <2>9. n > 0
    BY <1>1, <2>2
  <2>10. Matched(slots, S, held) /\ \A i \in DOMAIN slots : held[i] # Free
    BY <1>5, <2>9, MatchingSound DEF Eligible, held, slots
  <2>11. x \in DOMAIN slots /\ y \in DOMAIN slots
    BY <1>5, <2>4, <2>5, <2>6, SlotsFinite
  <2> QED BY <2>4, <2>5, <2>8, <2>10, <2>11 DEF Matched, Apart
<1>8. \A k \in C : k \in Key /\ ev2[k] \subseteq S /\ (Place(C, k) > n => ev2[k] = {})
  BY <1>1, <1>2
<1>9. \A k \in Key \ C : ev2[k] = ev[k]
  BY <1>2
<1>10. \A j, k \in C : j # k => ev2[j] \cap ev2[k] = {}
  BY <1>7
<1> QED BY <1>3, <1>6, <1>8, <1>9, <1>10 DEF ev2

-----------------------------------------------------------------------------
(* The invariant *)

\* What a person title is fused from: two bronzes, or a gold.
Shaped(S) ==
  \/ \E j, k \in Professional : j # k /\ S = {j, k} /\ Tier[j] = "bronze" /\ Tier[k] = "bronze"
  \/ \E k \in Professional : S = {k} /\ Tier[k] = "gold"

\* A held title's prerequisite is superseded, and by that title alone; a superseded
\* title is required by a held one, fused into an active person title or left behind.
Forest ==
  /\ \A k \in Held : Prerequisite(k) # NoTitle => title[Prerequisite(k)].status = "superseded"
  /\ \A j, k \in Held : Prerequisite(j) = Prerequisite(k) /\ Prerequisite(j) # NoTitle => j = k
  /\ \A k \in Key : title[k].status = "superseded" =>
       /\ k \in Professional
       /\ \/ \E j \in Held : Prerequisite(j) = k
          \/ \E p \in Person : Active(p) /\ k \in sources[p]
          \/ k \in stranded

\* An active person title has its sources, which no held title requires.
Fusions ==
  /\ \A p \in Person : Active(p) =>
       /\ Shaped(sources[p])
       /\ \A k \in sources[p] : /\ title[k].status = "superseded"
                                /\ \A j \in Held : Prerequisite(j) # k
  /\ \A p, q \in Person : p # q /\ Active(p) /\ Active(q) => sources[p] \cap sources[q] = {}

\* What was left behind stays superseded, required by no title and source of none.
LeftBehind ==
  /\ \A k \in stranded : /\ k \in Key /\ title[k].status = "superseded"
                         /\ \A j \in Held : Prerequisite(j) # k
  /\ \A p \in Person : Active(p) => sources[p] \cap stranded = {}

TitlesOK == RowsOK /\ Forest /\ Fusions /\ LeftBehind

LEMMA ShapedKeys ==
  ASSUME NEW S, Shaped(S)
  PROVE  S \subseteq Professional /\ S # {}
BY DEF Shaped

\* What the rows' rules have to do with prerequisites.
LEMMA PrerequisiteIs ==
  ASSUME NEW k \in Key
  PROVE  /\ title'[k].rule = title[k].rule => Prerequisite(k)' = Prerequisite(k)
         /\ \A r \in Rule : title'[k].rule = r => Prerequisite(k)' = Requires[r]
BY CatalogAssumption DEF Prerequisite

LEMMA RedeemTitles ==
  ASSUME TitlesOK, enabled \in Catalog, NEW r \in Rule, Redeem(r)
  PROVE  TitlesOK'
<1> DEFINE k == KeyOf[r]
           needed == Requires[r]
<1>1. /\ k \in Professional /\ k \in Key /\ k # needed
      /\ needed # NoTitle => needed \in Professional /\ needed \in Key /\ Active(needed)
      /\ k \notin Held /\ NoTitle \notin Key
  <2>1. r \in enabled /\ k \notin Held /\ (needed # NoTitle => Active(needed))
    BY DEF Redeem
  <2>2. k \in Professional
    BY <2>1, CatalogAssumption
  <2>3. needed # NoTitle => needed \in Professional
    BY CatalogAssumption
  <2>4. k \in Key /\ NoTitle \notin Key
    BY <2>2, CatalogAssumption DEF Professional
  <2>5. needed # NoTitle => Grade(needed) < Grade(k) /\ Grade(k) \in 0..2
    BY <2>4, GradeType, TierAssumption DEF Grade
  <2>6. k # needed
    BY <2>4, <2>5
  <2> QED BY <2>1, <2>2, <2>3, <2>4, <2>6 DEF Professional
<1>2. /\ title' = [j \in Key |->
                     IF j = k THEN [status |-> "active", rule |-> r]
                     ELSE IF j = needed THEN [title[j] EXCEPT !.status = "superseded"]
                     ELSE title[j]]
      /\ sources' = sources /\ stranded' = stranded
  BY DEF Redeem
<1>3. \A j \in Key : title[j] \in Row
  BY DEF TitlesOK, RowsOK
<1> HIDE DEF k, needed
<1>4. \A j \in Key :
        /\ title'[j].status = IF j = k THEN "active" ELSE IF j = needed THEN "superseded"
                              ELSE title[j].status
        /\ title'[j].rule = IF j = k THEN r ELSE title[j].rule
        /\ title'[j] \in Row
  <2> SUFFICES ASSUME NEW j \in Key
               PROVE  /\ title'[j].status = IF j = k THEN "active"
                                            ELSE IF j = needed THEN "superseded"
                                            ELSE title[j].status
                      /\ title'[j].rule = IF j = k THEN r ELSE title[j].rule
                      /\ title'[j] \in Row
    OBVIOUS
  <2>1. title[j] \in [status : Status, rule : Rule \cup {NoRule}]
    BY <1>3 DEF Row
  <2>2. CASE j = k
    BY <1>2, <2>2 DEF Row, Status
  <2>3. CASE j # k /\ j = needed
    <3>1. title'[j] = [title[j] EXCEPT !.status = "superseded"]
      BY <1>2, <2>3
    <3> QED BY <2>1, <2>3, <3>1 DEF Row, Status
  <2>4. CASE j # k /\ j # needed
    BY <1>2, <1>3, <2>4
  <2> QED BY <2>2, <2>3, <2>4
<1>5. \A j \in Key : Prerequisite(j)' = IF j = k THEN needed ELSE Prerequisite(j)
  BY <1>4, PrerequisiteIs DEF needed
<1>6. Held' = Held \cup {k}
  BY <1>1, <1>4 DEF Held, Active
<1>7. RowsOK'
  <2>1. title' \in [Key -> Row]
    BY <1>2, <1>4
  <2>2. \A j \in Key : /\ title[j].rule = NoRule <=> title[j].status = "absent"
                       /\ title[j].rule # NoRule => KeyOf[title[j].rule] = j
    BY DEF TitlesOK, RowsOK
  <2>3. r # NoRule /\ (needed # NoTitle => title[needed].status # "absent")
    BY <1>1, CatalogAssumption DEF Active
  <2>4. \A j \in Key : /\ title'[j].rule = NoRule <=> title'[j].status = "absent"
                       /\ title'[j].rule # NoRule => KeyOf[title'[j].rule] = j
    BY <1>1, <1>4, <2>2, <2>3 DEF k
  <2> QED BY <2>1, <2>4 DEF RowsOK
<1>8. /\ \A j \in Held : Prerequisite(j) # NoTitle => title[Prerequisite(j)].status = "superseded"
      /\ \A i, j \in Held : Prerequisite(i) = Prerequisite(j) /\ Prerequisite(i) # NoTitle => i = j
      /\ \A j \in Key : title[j].status = "superseded" =>
           /\ j \in Professional
           /\ \/ \E i \in Held : Prerequisite(i) = j
              \/ \E p \in Person : Active(p) /\ j \in sources[p]
              \/ j \in stranded
  BY DEF TitlesOK, Forest
<1>9. /\ \A j \in Held : j \in Key /\ j # k
      /\ \A j \in Held : Prerequisite(j) # NoTitle => Prerequisite(j) \in Key
      /\ needed # NoTitle => title[needed].status = "active"
      /\ \A j \in Key : title[j].status = "superseded" => j \in Held
  BY <1>1, PrerequisiteGrade DEF Held, TitlesOK, Professional, Active
<1>10. \A j \in Held : Prerequisite(j) # NoTitle => Prerequisite(j) # needed /\ Prerequisite(j) # k
  BY <1>8, <1>9
<1>11. \A p \in Person : p \in Key /\ p # k /\ p # needed /\ title'[p].status = title[p].status
  BY <1>1, <1>4, CatalogAssumption DEF Professional
<1>12. Forest'
  <2>1. \A j \in Held' : Prerequisite(j)' # NoTitle => title'[Prerequisite(j)'].status = "superseded"
    BY <1>1, <1>4, <1>5, <1>6, <1>8, <1>9, <1>10
  <2>2. \A i, j \in Held' : Prerequisite(i)' = Prerequisite(j)' /\ Prerequisite(i)' # NoTitle => i = j
    BY <1>1, <1>5, <1>6, <1>8, <1>9, <1>10
  <2>3. \A j \in Key : title'[j].status = "superseded" =>
          /\ j \in Professional
          /\ \/ \E i \in Held' : Prerequisite(i)' = j
             \/ \E p \in Person : title'[p].status = "active" /\ j \in sources'[p]
             \/ j \in stranded'
    <3> SUFFICES ASSUME NEW j \in Key, title'[j].status = "superseded"
                 PROVE  /\ j \in Professional
                        /\ \/ \E i \in Held' : Prerequisite(i)' = j
                           \/ \E p \in Person : title'[p].status = "active" /\ j \in sources'[p]
                           \/ j \in stranded'
      OBVIOUS
    <3>1. CASE j = needed
      BY <1>1, <1>5, <1>6, <3>1, CatalogAssumption
    <3>2. CASE j # needed
      <4>1. j # k /\ title[j].status = "superseded"
        BY <1>4, <3>2
      <4>2. j \in Professional
        BY <1>8, <4>1
      <4>3. ASSUME NEW i \in Held, Prerequisite(i) = j PROVE i \in Held' /\ Prerequisite(i)' = j
        BY <1>5, <1>6, <1>9, <4>3
      <4>4. ASSUME NEW p \in Person, Active(p), j \in sources[p]
            PROVE  title'[p].status = "active" /\ j \in sources'[p]
        BY <1>2, <1>11, <4>4 DEF Active
      <4> QED BY <1>2, <1>8, <4>1, <4>2, <4>3, <4>4
    <3> QED BY <3>1, <3>2
  <2> QED BY <2>1, <2>2, <2>3 DEF Forest, Active
<1>13. Fusions'
  <2>1. ASSUME NEW p \in Person
        PROVE  title'[p].status = "active" =>
                 /\ Shaped(sources'[p])
                 /\ \A j \in sources'[p] : /\ title'[j].status = "superseded"
                                           /\ \A i \in Held' : Prerequisite(i)' # j
    <3>1. CASE title[p].status = "active"
      <4>1. /\ Shaped(sources[p])
            /\ \A j \in sources[p] : /\ title[j].status = "superseded"
                                     /\ \A i \in Held : Prerequisite(i) # j
        BY <3>1 DEF TitlesOK, Fusions, Active
      <4>2. \A j \in sources[p] : j \in Key /\ j # k /\ j # needed
        BY <1>1, <1>9, <4>1, ShapedKeys DEF Professional
      <4>3. \A j \in sources[p] : title'[j].status = "superseded"
        BY <1>4, <4>1, <4>2
      <4>4. \A j \in sources[p] : \A i \in Held' : Prerequisite(i)' # j
        BY <1>1, <1>5, <1>6, <1>9, <4>1, <4>2
      <4>5. sources'[p] = sources[p] /\ title'[p].status = "active"
        BY <1>2, <1>11, <3>1
      <4> QED BY <4>1, <4>3, <4>4, <4>5
    <3>2. CASE title[p].status # "active"
      BY <1>2, <1>11, <3>2 DEF TitlesOK, Fusions, Active
    <3> QED BY <3>1, <3>2
  <2>2. \A p, q \in Person : p # q /\ title'[p].status = "active" /\ title'[q].status = "active"
                             => sources'[p] \cap sources'[q] = {}
    BY <1>2, <1>11 DEF TitlesOK, Fusions, Active
  <2> QED BY <2>1, <2>2 DEF Fusions, Active
<1>14. LeftBehind'
  <2>1. ASSUME NEW j \in stranded
        PROVE  /\ j \in Key /\ title'[j].status = "superseded"
               /\ \A i \in Held' : Prerequisite(i)' # j
    <3>1. /\ j \in Key /\ title[j].status = "superseded"
          /\ \A i \in Held : Prerequisite(i) # j
      BY DEF TitlesOK, LeftBehind
    <3>2. j # k /\ j # needed
      BY <1>1, <1>9, <3>1
    <3> QED BY <1>1, <1>4, <1>5, <1>6, <1>9, <3>1, <3>2
  <2>2. \A p \in Person : title'[p].status = "active" => sources'[p] \cap stranded = {}
    BY <1>2, <1>11 DEF TitlesOK, LeftBehind, Active
  <2> QED BY <1>2, <2>1, <2>2 DEF LeftBehind, Active
<1> QED BY <1>7, <1>12, <1>13, <1>14 DEF TitlesOK

\* The chain of a held title, through whichever rows it is followed.
LEMMA ChainFacts ==
  ASSUME TitlesOK, NEW rows \in SUBSET Key, NEW k \in Held, k \in rows,
         Held \cap Professional \subseteq rows
  PROVE  LET C == Chain(k, rows)
         IN  /\ k \in C /\ C \subseteq Held /\ C \subseteq rows /\ Linear(C) /\ ChainOK(C)
             /\ \A x \in C : Prerequisite(x) # NoTitle =>
                  Prerequisite(x) \in C /\ Grade(Prerequisite(x)) < Grade(x)
             /\ \A x \in C : Grade(x) <= Grade(k)
             /\ \A x \in C \ {k} : /\ title[x].status = "superseded" /\ x \in Professional
                                   /\ \E y \in C : Prerequisite(y) = x
                                   /\ \A y \in Held : Prerequisite(y) = x => y \in C
<1> DEFINE C == Chain(k, rows)
<1>1. /\ \A j \in Held : j \in Key /\ (Prerequisite(j) # NoTitle =>
             /\ Prerequisite(j) \in Professional /\ Prerequisite(j) \in Held
             /\ title[Prerequisite(j)].status = "superseded"
             /\ Grade(Prerequisite(j)) < Grade(j))
      /\ NoTitle \notin Key
      /\ \A i, j \in Held : Prerequisite(i) = Prerequisite(j) /\ Prerequisite(i) # NoTitle => i = j
  <2>1. NoTitle \notin Key
    BY CatalogAssumption
  <2>2. \A j \in Held : j \in Key
    BY DEF Held
  <2>3. \A j \in Held : Prerequisite(j) # NoTitle =>
          /\ Prerequisite(j) \in Professional /\ Grade(Prerequisite(j)) < Grade(j)
    BY <2>2, PrerequisiteGrade DEF TitlesOK
  <2>4. \A j \in Held : Prerequisite(j) # NoTitle => title[Prerequisite(j)].status = "superseded"
    BY DEF TitlesOK, Forest
  <2>5. \A j \in Held : Prerequisite(j) # NoTitle => Prerequisite(j) \in Held
    BY <2>3, <2>4 DEF Held, Professional
  <2>6. \A i, j \in Held : Prerequisite(i) = Prerequisite(j) /\ Prerequisite(i) # NoTitle => i = j
    BY DEF TitlesOK, Forest
  <2> QED BY <2>1, <2>2, <2>3, <2>4, <2>5, <2>6
<1>2. /\ k \in C /\ C \subseteq rows /\ Closed(C, rows)
      /\ \A S \in SUBSET rows : k \in S /\ Closed(S, rows) => C \subseteq S
  BY ChainBasics
<1>3. /\ Linear(C) /\ \A x \in C : Grade(x) <= Grade(k)
      /\ \A x \in C \ {k} : \E y \in C : Prerequisite(y) = x
  BY ChainLinear DEF TitlesOK
<1> HIDE DEF C
<1>4. C \subseteq Held
  <2>1. Closed(C \cap Held, rows)
    BY <1>1, <1>2 DEF Closed
  <2>2. C \cap Held \in SUBSET rows
    BY <1>2
  <2> QED BY <1>2, <2>1, <2>2
<1>5. \A x \in C : Prerequisite(x) # NoTitle =>
        Prerequisite(x) \in C /\ Grade(Prerequisite(x)) < Grade(x)
  BY <1>1, <1>2, <1>4 DEF Closed
<1>6. ASSUME NEW x \in C \ {k}
      PROVE  /\ title[x].status = "superseded" /\ x \in Professional
             /\ \E y \in C : Prerequisite(y) = x
             /\ \A y \in Held : Prerequisite(y) = x => y \in C
  <2>1. PICK y \in C : Prerequisite(y) = x
    BY <1>3
  <2>2. y \in Held /\ x # NoTitle
    BY <1>1, <1>2, <1>4
  <2> QED BY <1>1, <2>1, <2>2
<1>7. ChainOK(C)
  <2>1. C \in SUBSET Exists
    BY <1>4 DEF Held, Exists
  <2> QED BY <1>3, <2>1 DEF ChainOK, Linear, Distinct, TitlesOK
<1> QED BY <1>2, <1>3, <1>4, <1>5, <1>6, <1>7 DEF C

LEMMA ActiveFacts ==
  ASSUME TitlesOK
  PROVE  /\ \A k \in Key : Active(k) => k \in Held
         /\ \A k \in Key, j \in Held : Active(k) => Prerequisite(j) # k
         /\ \A k \in Key : title[k].status = "superseded" => k \in Held /\ k \in Professional /\ ~Active(k)
         /\ \A p \in Person : p \in Key /\ p \notin Professional /\ title[p].status # "superseded"
         /\ \A p \in Person, j \in Held : Prerequisite(j) # p
         /\ \A p \in Person : Prerequisite(p) = NoTitle
<1>1. NoTitle \notin Key /\ \A p \in Person : p \in Key /\ p \notin Professional
  BY CatalogAssumption DEF Professional
<1>2. \A k \in Key : Active(k) => k \in Held
  BY DEF Active, Held
<1>3. \A k \in Key, j \in Held : Active(k) => Prerequisite(j) # k
  BY <1>1 DEF Active, TitlesOK, Forest
<1>4. \A k \in Key : title[k].status = "superseded" => k \in Held /\ k \in Professional /\ ~Active(k)
  BY DEF Active, Held, TitlesOK, Forest
<1>5. \A p \in Person, j \in Held : Prerequisite(j) # p
  <2>1. \A j \in Held : j \in Key
    BY DEF Held
  <2> QED BY <1>1, <2>1, PrerequisiteGrade DEF TitlesOK
<1>6. \A p \in Person : Prerequisite(p) = NoTitle
  BY <1>1, PrerequisiteGrade DEF TitlesOK
<1> QED BY <1>1, <1>2, <1>3, <1>4, <1>5, <1>6

LEMMA RevokeTitles ==
  ASSUME TitlesOK, NEW k \in Key, Revoke(k)
  PROVE  TitlesOK'
<1> DEFINE C == Chain(k, Exists)
<1>1. Active(k) /\ k \in Held /\ k \in Exists /\ sources' = sources
      /\ Held \cap Professional \subseteq Exists /\ Exists \in SUBSET Key
  BY DEF Revoke, Active, Held, Exists
<1>2. /\ title' = [j \in Key |-> IF j \in C THEN [title[j] EXCEPT !.status = "revoked"]
                             ELSE title[j]]
      /\ stranded' = stranded \cup (IF k \in Person THEN sources[k] ELSE {})
  BY DEF Revoke
<1>3. /\ k \in C /\ C \subseteq Held
      /\ \A x \in C : Prerequisite(x) # NoTitle => Prerequisite(x) \in C
      /\ \A x \in C \ {k} : /\ title[x].status = "superseded" /\ x \in Professional
                            /\ \E y \in C : Prerequisite(y) = x
                            /\ \A y \in Held : Prerequisite(y) = x => y \in C
  BY <1>1, ChainFacts
<1> HIDE DEF C
<1>4. \A j \in Key :
        /\ title'[j].status = IF j \in C THEN "revoked" ELSE title[j].status
        /\ title'[j].rule = title[j].rule
        /\ title'[j] \in Row
  <2> SUFFICES ASSUME NEW j \in Key
               PROVE  /\ title'[j].status = IF j \in C THEN "revoked" ELSE title[j].status
                      /\ title'[j].rule = title[j].rule
                      /\ title'[j] \in Row
    OBVIOUS
  <2>1. title[j] \in [status : Status, rule : Rule \cup {NoRule}]
    BY DEF Row, TitlesOK, RowsOK
  <2>2. CASE j \in C
    <3>1. title'[j] = [title[j] EXCEPT !.status = "revoked"]
      BY <1>2, <2>2
    <3> QED BY <2>1, <2>2, <3>1 DEF Row, Status
  <2>3. CASE j \notin C
    BY <1>2, <2>1, <2>3 DEF Row
  <2> QED BY <2>2, <2>3
<1>5. \A j \in Key : Prerequisite(j)' = Prerequisite(j)
  BY <1>4, PrerequisiteIs
<1>6. Held' = Held \ C
  BY <1>4 DEF Held
<1>7. RowsOK'
  <2>1. title' \in [Key -> Row]
    BY <1>2, <1>4
  <2>2. \A j \in Key : /\ title[j].rule = NoRule <=> title[j].status = "absent"
                       /\ title[j].rule # NoRule => KeyOf[title[j].rule] = j
    BY DEF TitlesOK, RowsOK
  <2>3. \A j \in C : title[j].status # "absent"
    BY <1>3 DEF Held
  <2>4. \A j \in Key : /\ title'[j].rule = NoRule <=> title'[j].status = "absent"
                       /\ title'[j].rule # NoRule => KeyOf[title'[j].rule] = j
    BY <1>4, <2>2, <2>3
  <2> QED BY <2>1, <2>4 DEF RowsOK
<1>8. \A j \in Held : j \in Key
  BY DEF Held
<1>9. \A j \in Held \ C : Prerequisite(j) \notin C
  BY <1>1, <1>3, <1>8, ActiveFacts
<1>10. \A p \in Person : /\ p \in Key
                         /\ p # k => p \notin C /\ title'[p].status = title[p].status
                         /\ p = k => title'[p].status = "revoked"
  BY <1>1, <1>3, <1>4, ActiveFacts
<1>11. \A j \in Key : title[j].status = "superseded" /\ (\A i \in Held : Prerequisite(i) # j)
                      => j \notin C
  <2> SUFFICES ASSUME NEW j \in Key, title[j].status = "superseded", j \in C,
                      \A i \in Held : Prerequisite(i) # j
               PROVE  FALSE
    OBVIOUS
  <2>1. j # k
    BY <1>1 DEF Active
  <2> QED BY <1>3, <2>1
<1>14. \A p \in Person : Active(p) =>
         /\ Shaped(sources[p])
         /\ \A j \in sources[p] : /\ j \in Key /\ j \notin C /\ title'[j].status = "superseded"
                                  /\ \A i \in Held' : Prerequisite(i)' # j
  <2> SUFFICES ASSUME NEW p \in Person, Active(p)
               PROVE  /\ Shaped(sources[p])
                      /\ \A j \in sources[p] :
                           /\ j \in Key /\ j \notin C /\ title'[j].status = "superseded"
                           /\ \A i \in Held' : Prerequisite(i)' # j
    OBVIOUS
  <2>1. /\ Shaped(sources[p])
        /\ \A j \in sources[p] : /\ title[j].status = "superseded"
                                 /\ \A i \in Held : Prerequisite(i) # j
    BY DEF TitlesOK, Fusions
  <2>2. \A j \in sources[p] : j \in Key /\ j \notin C
    BY <1>11, <2>1, ShapedKeys DEF Professional
  <2> QED BY <1>4, <1>5, <1>6, <1>8, <2>1, <2>2
<1>12. Forest'
  <2>1. \A j \in Held' : Prerequisite(j)' # NoTitle => title'[Prerequisite(j)'].status = "superseded"
    <3> SUFFICES ASSUME NEW j \in Held \ C, Prerequisite(j) # NoTitle
                 PROVE  title'[Prerequisite(j)].status = "superseded"
      BY <1>5, <1>6, <1>8
    <3>1. Prerequisite(j) \in Key
      BY <1>8, PrerequisiteGrade DEF TitlesOK, Professional
    <3>2. title[Prerequisite(j)].status = "superseded"
      BY DEF TitlesOK, Forest
    <3> QED BY <1>4, <1>9, <3>1, <3>2
  <2>2. \A i, j \in Held' : Prerequisite(i)' = Prerequisite(j)' /\ Prerequisite(i)' # NoTitle => i = j
    BY <1>5, <1>6, <1>8 DEF TitlesOK, Forest
  <2>3. ASSUME NEW j \in Key, title'[j].status = "superseded"
        PROVE  /\ j \in Professional
               /\ \/ \E i \in Held' : Prerequisite(i)' = j
                  \/ \E p \in Person : title'[p].status = "active" /\ j \in sources'[p]
                  \/ j \in stranded'
    <3>1. j \notin C /\ title[j].status = "superseded"
      BY <1>4, <2>3
    <3>2. /\ j \in Professional
          /\ \/ \E i \in Held : Prerequisite(i) = j
             \/ \E p \in Person : Active(p) /\ j \in sources[p]
             \/ j \in stranded
      BY <3>1 DEF TitlesOK, Forest
    <3>3. ASSUME NEW i \in Held, Prerequisite(i) = j PROVE i \in Held' /\ Prerequisite(i)' = j
      <4>1. j # NoTitle
        BY CatalogAssumption
      <4>2. i \notin C
        BY <1>3, <3>1, <3>3, <4>1
      <4> QED BY <1>5, <1>6, <1>8, <3>3, <4>2
    <3>4. ASSUME NEW p \in Person, Active(p), j \in sources[p]
          PROVE  \/ title'[p].status = "active" /\ j \in sources'[p]
                 \/ j \in stranded'
      BY <1>1, <1>2, <1>10, <3>4 DEF Active
    <3> QED BY <1>2, <3>2, <3>3, <3>4
  <2> QED BY <2>1, <2>2, <2>3 DEF Forest, Active
<1>13. Fusions'
  <2>1. ASSUME NEW p \in Person, title'[p].status = "active"
        PROVE  p # k /\ Active(p) /\ sources'[p] = sources[p]
    BY <1>1, <1>10, <2>1 DEF Active
  <2>2. ASSUME NEW p \in Person, title'[p].status = "active"
        PROVE  /\ Shaped(sources'[p])
               /\ \A j \in sources'[p] : /\ title'[j].status = "superseded"
                                         /\ \A i \in Held' : Prerequisite(i)' # j
    BY <1>14, <2>1, <2>2
  <2>3. \A p, q \in Person : p # q /\ title'[p].status = "active" /\ title'[q].status = "active"
                             => sources'[p] \cap sources'[q] = {}
    BY <2>1 DEF TitlesOK, Fusions
  <2> QED BY <2>2, <2>3 DEF Fusions, Active
<1>15. LeftBehind'
  <2>1. ASSUME NEW j \in stranded'
        PROVE  /\ j \in Key /\ title'[j].status = "superseded"
               /\ \A i \in Held' : Prerequisite(i)' # j
    <3>1. CASE j \in stranded
      <4>1. /\ j \in Key /\ title[j].status = "superseded"
            /\ \A i \in Held : Prerequisite(i) # j
        BY <3>1 DEF TitlesOK, LeftBehind
      <4> QED BY <1>4, <1>5, <1>6, <1>8, <1>11, <4>1
    <3>2. CASE k \in Person /\ j \in sources[k]
      BY <1>1, <1>14, <3>2
    <3> QED BY <1>2, <3>1, <3>2
  <2>2. ASSUME NEW p \in Person, title'[p].status = "active"
        PROVE  sources'[p] \cap stranded' = {}
    <3>1. p # k /\ Active(p) /\ sources'[p] = sources[p]
      BY <1>1, <1>10, <2>2 DEF Active
    <3>2. sources[p] \cap stranded = {}
      BY <3>1 DEF TitlesOK, LeftBehind
    <3>3. k \in Person => sources[p] \cap sources[k] = {}
      BY <1>1, <3>1 DEF TitlesOK, Fusions
    <3> QED BY <1>2, <3>1, <3>2, <3>3
  <2> QED BY <2>1, <2>2 DEF LeftBehind, Active
<1> QED BY <1>7, <1>12, <1>13, <1>15 DEF TitlesOK

LEMMA FuseTitles ==
  ASSUME TitlesOK, sources \in [Person -> SUBSET Key],
         NEW f \in Recipe, NEW b \in BOOLEAN, Fuse(f, b)
  PROVE  TitlesOK'
<1> DEFINE p == f.target
           S == f.sources
<1>1. PICK r \in Rule :
        /\ KeyOf[r] = p
        /\ title' = [k \in Key |->
                      IF k = p THEN [status |-> "active", rule |-> r]
                      ELSE IF k \in S THEN [title[k] EXCEPT !.status = "superseded"]
                      ELSE title[k]]
  BY DEF Fuse
<1>2. /\ \A k \in S : Active(k)
      /\ ~Active(p) /\ sources' = [sources EXCEPT ![p] = S] /\ stranded' = stranded
  BY DEF Fuse
<1>3. p \in Person /\ Shaped(S) /\ Requires[r] = NoTitle
  BY <1>1, TierAssumption, PersonRuleAssumption DEF Shaped
<1> HIDE DEF p, S
<1>4. /\ p \in Key /\ p \notin Professional /\ p \notin S /\ S \subseteq Key /\ S \subseteq Professional
      /\ p \notin Held
  <2>1. S \subseteq Professional /\ p \in Key /\ p \notin Professional /\ title[p].status # "superseded"
    BY <1>3, ShapedKeys, ActiveFacts
  <2>2. p \notin Held
    BY <1>2, <2>1 DEF Held, Active
  <2> QED BY <2>1, <2>2 DEF Professional
<1>5. \A j \in Key :
        /\ title'[j].status = IF j = p THEN "active" ELSE IF j \in S THEN "superseded"
                              ELSE title[j].status
        /\ title'[j].rule = IF j = p THEN r ELSE title[j].rule
        /\ title'[j] \in Row
  <2> SUFFICES ASSUME NEW j \in Key
               PROVE  /\ title'[j].status = IF j = p THEN "active"
                                            ELSE IF j \in S THEN "superseded"
                                            ELSE title[j].status
                      /\ title'[j].rule = IF j = p THEN r ELSE title[j].rule
                      /\ title'[j] \in Row
    OBVIOUS
  <2>1. title[j] \in [status : Status, rule : Rule \cup {NoRule}]
    BY DEF Row, TitlesOK, RowsOK
  <2>2. CASE j = p
    BY <1>1, <2>2 DEF Row, Status
  <2>3. CASE j # p /\ j \in S
    <3>1. title'[j] = [title[j] EXCEPT !.status = "superseded"]
      BY <1>1, <2>3
    <3> QED BY <2>1, <2>3, <3>1 DEF Row, Status
  <2>4. CASE j # p /\ j \notin S
    BY <1>1, <2>1, <2>4 DEF Row
  <2> QED BY <2>2, <2>3, <2>4
<1>6. \A j \in Key : Prerequisite(j)' = IF j = p THEN NoTitle ELSE Prerequisite(j)
  BY <1>3, <1>5, PrerequisiteIs
<1>7. Held' = Held \cup {p}
  BY <1>2, <1>4, <1>5, ActiveFacts DEF Held
<1>8. RowsOK'
  <2>1. title' \in [Key -> Row]
    BY <1>1, <1>5
  <2>2. \A j \in Key : /\ title[j].rule = NoRule <=> title[j].status = "absent"
                       /\ title[j].rule # NoRule => KeyOf[title[j].rule] = j
    BY DEF TitlesOK, RowsOK
  <2>3. r # NoRule /\ \A j \in S : title[j].status # "absent"
    BY <1>2, CatalogAssumption DEF Active
  <2>4. \A j \in Key : /\ title'[j].rule = NoRule <=> title'[j].status = "absent"
                       /\ title'[j].rule # NoRule => KeyOf[title'[j].rule] = j
    BY <1>1, <1>5, <2>2, <2>3
  <2> QED BY <2>1, <2>4 DEF RowsOK
<1>9. \A j \in Held : j \in Key /\ j # p
  BY <1>4 DEF Held
<1>10. \A q \in Person : q \in Key /\ q \notin S /\ (q # p => title'[q].status = title[q].status)
  BY <1>4, <1>5, ActiveFacts
<1>11. sources'[p] = S /\ \A q \in Person : q # p => sources'[q] = sources[q]
  BY <1>2, <1>3
<1>12. Forest'
  <2>1. \A j \in Held' : Prerequisite(j)' # NoTitle => title'[Prerequisite(j)'].status = "superseded"
    <3> SUFFICES ASSUME NEW j \in Held, Prerequisite(j) # NoTitle
                 PROVE  title'[Prerequisite(j)].status = "superseded"
      BY <1>4, <1>6, <1>7, <1>9
    <3>1. Prerequisite(j) \in Key /\ Prerequisite(j) \in Professional
      BY <1>9, PrerequisiteGrade DEF TitlesOK, Professional
    <3>2. title[Prerequisite(j)].status = "superseded"
      BY DEF TitlesOK, Forest
    <3> QED BY <1>4, <1>5, <3>1, <3>2
  <2>2. \A i, j \in Held' : Prerequisite(i)' = Prerequisite(j)' /\ Prerequisite(i)' # NoTitle => i = j
    BY <1>4, <1>6, <1>7, <1>9 DEF TitlesOK, Forest
  <2>3. ASSUME NEW j \in Key, title'[j].status = "superseded"
        PROVE  /\ j \in Professional
               /\ \/ \E i \in Held' : Prerequisite(i)' = j
                  \/ \E q \in Person : title'[q].status = "active" /\ j \in sources'[q]
                  \/ j \in stranded'
    <3>1. CASE j \in S
      BY <1>3, <1>4, <1>5, <1>11, <3>1
    <3>2. CASE j \notin S
      <4>1. j # p /\ title[j].status = "superseded"
        BY <1>5, <2>3, <3>2
      <4>2. /\ j \in Professional
            /\ \/ \E i \in Held : Prerequisite(i) = j
               \/ \E q \in Person : Active(q) /\ j \in sources[q]
               \/ j \in stranded
        BY <4>1 DEF TitlesOK, Forest
      <4>3. ASSUME NEW i \in Held, Prerequisite(i) = j PROVE i \in Held' /\ Prerequisite(i)' = j
        BY <1>6, <1>7, <1>9, <4>3
      <4>4. ASSUME NEW q \in Person, Active(q), j \in sources[q]
            PROVE  title'[q].status = "active" /\ j \in sources'[q]
        BY <1>2, <1>10, <1>11, <4>4 DEF Active
      <4> QED BY <1>2, <4>2, <4>3, <4>4
    <3> QED BY <3>1, <3>2
  <2> QED BY <2>1, <2>2, <2>3 DEF Forest, Active
<1>13. Fusions'
  <2>0. \A j \in S : \A i \in Held' : Prerequisite(i)' # j
    <3> SUFFICES ASSUME NEW j \in S, NEW i \in Held' PROVE Prerequisite(i)' # j
      OBVIOUS
    <3>1. j \in Key /\ Active(j) /\ j # NoTitle
      BY <1>2, <1>4, CatalogAssumption
    <3>2. CASE i = p
      BY <1>4, <1>6, <3>1, <3>2
    <3>3. CASE i # p
      BY <1>6, <1>7, <1>9, <3>1, <3>3, ActiveFacts
    <3> QED BY <3>2, <3>3
  <2>1. ASSUME NEW q \in Person
        PROVE  title'[q].status = "active" =>
                 /\ Shaped(sources'[q])
                 /\ \A j \in sources'[q] : /\ title'[j].status = "superseded"
                                           /\ \A i \in Held' : Prerequisite(i)' # j
    <3>0. CASE q = p
      BY <1>3, <1>4, <1>5, <1>11, <2>0, <3>0
    <3>1. CASE q # p /\ Active(q)
      <4>1. /\ Shaped(sources[q])
            /\ \A j \in sources[q] : /\ title[j].status = "superseded"
                                     /\ \A i \in Held : Prerequisite(i) # j
        BY <3>1 DEF TitlesOK, Fusions
      <4>2. \A j \in sources[q] : j \in Key /\ j # p /\ j # NoTitle
        BY <1>4, <4>1, ShapedKeys, CatalogAssumption DEF Professional
      <4>3. \A j \in sources[q] : title'[j].status = "superseded"
        BY <1>5, <4>1, <4>2
      <4>4. \A j \in sources[q] : \A i \in Held' : Prerequisite(i)' # j
        BY <1>4, <1>6, <1>7, <1>9, <4>1, <4>2
      <4>5. sources'[q] = sources[q] /\ title'[q].status = "active"
        BY <1>10, <1>11, <3>1 DEF Active
      <4> QED BY <4>1, <4>3, <4>4, <4>5
    <3>2. CASE q # p /\ ~Active(q)
      BY <1>10, <1>11, <3>2 DEF TitlesOK, Fusions, Active
    <3> QED BY <3>0, <3>1, <3>2
  <2>2. \A q \in Person \ {p} : Active(q) => S \cap sources[q] = {}
    <3> SUFFICES ASSUME NEW q \in Person \ {p}, Active(q), NEW j \in S, j \in sources[q]
                 PROVE  FALSE
      OBVIOUS
    <3>1. title[j].status = "superseded"
      BY DEF TitlesOK, Fusions
    <3> QED BY <1>2, <3>1 DEF Active
  <2>3. \A q, s \in Person : q # s /\ title'[q].status = "active" /\ title'[s].status = "active"
                             => sources'[q] \cap sources'[s] = {}
    <3>1. \A q, s \in Person : q # s /\ Active(q) /\ Active(s) => sources[q] \cap sources[s] = {}
      BY DEF TitlesOK, Fusions
    <3>2. \A q \in Person : q # p /\ title'[q].status = "active" => Active(q)
      BY <1>10 DEF Active
    <3> QED BY <1>11, <2>2, <3>1, <3>2
  <2> QED BY <2>1, <2>3 DEF Fusions, Active
<1>14. LeftBehind'
  <2>1. ASSUME NEW j \in stranded
        PROVE  /\ j \in Key /\ j \notin S /\ title'[j].status = "superseded"
               /\ \A i \in Held' : Prerequisite(i)' # j
    <3>1. /\ j \in Key /\ title[j].status = "superseded"
          /\ \A i \in Held : Prerequisite(i) # j
      BY DEF TitlesOK, LeftBehind
    <3>2. j # p /\ j \notin S /\ j # NoTitle
      BY <1>2, <1>4, <3>1, ActiveFacts, CatalogAssumption DEF Active
    <3> QED BY <1>4, <1>5, <1>6, <1>7, <1>9, <3>1, <3>2
  <2>2. ASSUME NEW q \in Person, title'[q].status = "active"
        PROVE  sources'[q] \cap stranded = {}
    <3>1. CASE q = p
      BY <1>11, <2>1, <3>1
    <3>2. CASE q # p
      <4>1. Active(q) /\ sources'[q] = sources[q]
        BY <1>10, <1>11, <2>2, <3>2 DEF Active
      <4> QED BY <4>1 DEF TitlesOK, LeftBehind
    <3> QED BY <3>1, <3>2
  <2> QED BY <1>2, <2>1, <2>2 DEF LeftBehind, Active
<1> QED BY <1>8, <1>12, <1>13, <1>14 DEF TitlesOK

LEMMA DismantleTitles ==
  ASSUME TitlesOK, sources \in [Person -> SUBSET Key], NEW p \in Person, Dismantle(p)
  PROVE  TitlesOK'
<1> DEFINE S == sources[p]
<1>1. /\ Active(p) /\ sources' = [sources EXCEPT ![p] = {}] /\ stranded' = stranded
      /\ title' = [k \in Key |-> IF k = p THEN [title[k] EXCEPT !.status = "revoked"]
                                 ELSE IF k \in S THEN [title[k] EXCEPT !.status = "active"]
                                 ELSE title[k]]
  BY DEF Dismantle, Dismantled
<1>3. Shaped(S) /\ \A j \in S : title[j].status = "superseded" /\ \A i \in Held : Prerequisite(i) # j
  BY <1>1 DEF TitlesOK, Fusions
<1> HIDE DEF S
<1>4. /\ p \in Key /\ p \notin Professional /\ p \notin S /\ S \subseteq Key /\ S \subseteq Professional
      /\ p \in Held
  BY <1>1, <1>3, ShapedKeys, ActiveFacts DEF Professional
<1>5. \A j \in Key :
        /\ title'[j].status = IF j = p THEN "revoked" ELSE IF j \in S THEN "active"
                              ELSE title[j].status
        /\ title'[j].rule = title[j].rule
        /\ title'[j] \in Row
  <2> SUFFICES ASSUME NEW j \in Key
               PROVE  /\ title'[j].status = IF j = p THEN "revoked"
                                            ELSE IF j \in S THEN "active"
                                            ELSE title[j].status
                      /\ title'[j].rule = title[j].rule
                      /\ title'[j] \in Row
    OBVIOUS
  <2>1. title[j] \in [status : Status, rule : Rule \cup {NoRule}]
    BY DEF Row, TitlesOK, RowsOK
  <2>2. CASE j = p
    <3>1. title'[j] = [title[j] EXCEPT !.status = "revoked"]
      BY <1>1, <2>2
    <3> QED BY <2>1, <2>2, <3>1 DEF Row, Status
  <2>3. CASE j # p /\ j \in S
    <3>1. title'[j] = [title[j] EXCEPT !.status = "active"]
      BY <1>1, <2>3
    <3> QED BY <2>1, <2>3, <3>1 DEF Row, Status
  <2>4. CASE j # p /\ j \notin S
    BY <1>1, <2>1, <2>4 DEF Row
  <2> QED BY <2>2, <2>3, <2>4
<1>6. \A j \in Key : Prerequisite(j)' = Prerequisite(j)
  BY <1>5, PrerequisiteIs
<1>7. Held' = Held \ {p}
  <2>1. \A j \in S : j \in Held
    BY <1>3, <1>4, ActiveFacts
  <2> QED BY <1>4, <1>5, <2>1 DEF Held
<1>8. RowsOK'
  <2>1. title' \in [Key -> Row]
    BY <1>1, <1>5
  <2>2. \A j \in Key : /\ title[j].rule = NoRule <=> title[j].status = "absent"
                       /\ title[j].rule # NoRule => KeyOf[title[j].rule] = j
    BY DEF TitlesOK, RowsOK
  <2>3. title[p].status # "absent" /\ \A j \in S : title[j].status # "absent"
    BY <1>1, <1>3 DEF Active
  <2>4. \A j \in Key : /\ title'[j].rule = NoRule <=> title'[j].status = "absent"
                       /\ title'[j].rule # NoRule => KeyOf[title'[j].rule] = j
    BY <1>5, <2>2, <2>3
  <2> QED BY <2>1, <2>4 DEF RowsOK
<1>9. \A j \in Held : j \in Key
  BY DEF Held
<1>10. \A q \in Person : q \in Key /\ q \notin S /\ (q # p => title'[q].status = title[q].status)
  BY <1>4, <1>5, ActiveFacts
<1>11. sources'[p] = {} /\ \A q \in Person : q # p => sources'[q] = sources[q]
  BY <1>1
<1>12. Forest'
  <2>1. \A j \in Held' : Prerequisite(j)' # NoTitle => title'[Prerequisite(j)'].status = "superseded"
    <3> SUFFICES ASSUME NEW j \in Held, Prerequisite(j) # NoTitle
                 PROVE  title'[Prerequisite(j)].status = "superseded"
      BY <1>6, <1>7, <1>9
    <3>1. Prerequisite(j) \in Key /\ Prerequisite(j) \in Professional
      BY <1>9, PrerequisiteGrade DEF TitlesOK, Professional
    <3>2. title[Prerequisite(j)].status = "superseded" /\ Prerequisite(j) \notin S
      BY <1>3 DEF TitlesOK, Forest
    <3> QED BY <1>4, <1>5, <3>1, <3>2
  <2>2. \A i, j \in Held' : Prerequisite(i)' = Prerequisite(j)' /\ Prerequisite(i)' # NoTitle => i = j
    BY <1>6, <1>7, <1>9 DEF TitlesOK, Forest
  <2>3. ASSUME NEW j \in Key, title'[j].status = "superseded"
        PROVE  /\ j \in Professional
               /\ \/ \E i \in Held' : Prerequisite(i)' = j
                  \/ \E q \in Person : title'[q].status = "active" /\ j \in sources'[q]
                  \/ j \in stranded'
    <3>1. j # p /\ j \notin S /\ title[j].status = "superseded"
      BY <1>5, <2>3
    <3>2. /\ j \in Professional
          /\ \/ \E i \in Held : Prerequisite(i) = j
             \/ \E q \in Person : Active(q) /\ j \in sources[q]
             \/ j \in stranded
      BY <3>1 DEF TitlesOK, Forest
    <3>3. ASSUME NEW i \in Held, Prerequisite(i) = j PROVE i \in Held' /\ Prerequisite(i)' = j
      <4>1. i # p
        BY <3>3, ActiveFacts, CatalogAssumption
      <4> QED BY <1>6, <1>7, <1>9, <3>3, <4>1
    <3>4. ASSUME NEW q \in Person, Active(q), j \in sources[q]
          PROVE  title'[q].status = "active" /\ j \in sources'[q]
      <4>1. q # p
        BY <3>1, <3>4 DEF S
      <4> QED BY <1>10, <1>11, <3>4, <4>1 DEF Active
    <3> QED BY <1>1, <3>2, <3>3, <3>4
  <2> QED BY <2>1, <2>2, <2>3 DEF Forest, Active
<1>13. Fusions'
  <2>1. ASSUME NEW q \in Person
        PROVE  title'[q].status = "active" =>
                 /\ Shaped(sources'[q])
                 /\ \A j \in sources'[q] : /\ title'[j].status = "superseded"
                                           /\ \A i \in Held' : Prerequisite(i)' # j
    <3>0. CASE q = p
      BY <1>4, <1>5, <1>11, <3>0
    <3>1. CASE q # p /\ Active(q)
      <4>1. /\ Shaped(sources[q])
            /\ \A j \in sources[q] : /\ title[j].status = "superseded"
                                     /\ \A i \in Held : Prerequisite(i) # j
        BY <3>1 DEF TitlesOK, Fusions
      <4>2. \A j \in sources[q] : j \in Key /\ j # p /\ j \notin S
        <5>1. sources[q] \cap sources[p] = {}
          BY <1>1, <3>1 DEF TitlesOK, Fusions
        <5> QED BY <1>4, <4>1, <5>1, ShapedKeys DEF Professional, S
      <4>3. \A j \in sources[q] : title'[j].status = "superseded"
        BY <1>5, <4>1, <4>2
      <4>4. \A j \in sources[q] : \A i \in Held' : Prerequisite(i)' # j
        BY <1>6, <1>7, <1>9, <4>1
      <4>5. sources'[q] = sources[q] /\ title'[q].status = "active"
        BY <1>10, <1>11, <3>1 DEF Active
      <4> QED BY <4>1, <4>3, <4>4, <4>5
    <3>2. CASE q # p /\ ~Active(q)
      BY <1>10, <1>11, <3>2 DEF TitlesOK, Fusions, Active
    <3> QED BY <3>0, <3>1, <3>2
  <2>3. \A q, s \in Person : q # s /\ title'[q].status = "active" /\ title'[s].status = "active"
                             => sources'[q] \cap sources'[s] = {}
    <3>1. \A q, s \in Person : q # s /\ Active(q) /\ Active(s) => sources[q] \cap sources[s] = {}
      BY DEF TitlesOK, Fusions
    <3>2. \A q \in Person : title'[q].status = "active" => q # p /\ Active(q)
      BY <1>4, <1>5, <1>10 DEF Active
    <3> QED BY <1>11, <3>1, <3>2
  <2> QED BY <2>1, <2>3 DEF Fusions, Active
<1>14. LeftBehind'
  <2>1. ASSUME NEW j \in stranded
        PROVE  /\ j \in Key /\ title'[j].status = "superseded"
               /\ \A i \in Held' : Prerequisite(i)' # j
    <3>1. /\ j \in Key /\ title[j].status = "superseded"
          /\ \A i \in Held : Prerequisite(i) # j
      BY DEF TitlesOK, LeftBehind
    <3>2. j # p /\ j \notin S
      BY <1>1, <3>1 DEF TitlesOK, LeftBehind, Active, S
    <3> QED BY <1>5, <1>6, <1>7, <1>9, <3>1, <3>2
  <2>2. \A q \in Person : title'[q].status = "active" => sources'[q] \cap stranded = {}
    <3>1. \A q \in Person : title'[q].status = "active" => q # p /\ Active(q)
      BY <1>4, <1>5, <1>10 DEF Active
    <3> QED BY <1>11, <3>1 DEF TitlesOK, LeftBehind
  <2> QED BY <1>1, <2>1, <2>2 DEF LeftBehind, Active
<1> QED BY <1>8, <1>12, <1>13, <1>14 DEF TitlesOK

-----------------------------------------------------------------------------
(* Demoting a chain *)

\* leaf is the last tier of a chain: shown, or fused into the person title of P.
LeafOf(leaf, P, others) ==
  /\ leaf \in Professional /\ P \in SUBSET Person
  /\ \/ Active(leaf) /\ P = {} /\ others = {}
     \/ \E p \in Person : /\ P = {p} /\ Active(p) /\ leaf \in sources[p]
                          /\ others = sources[p] \ {leaf}

LEMMA LeafFacts ==
  ASSUME TitlesOK, NEW leaf, NEW P, NEW others, LeafOf(leaf, P, others)
  PROVE  /\ leaf \in Held /\ leaf \in Key
         /\ \A j \in Held : Prerequisite(j) # leaf
         /\ \A j \in P : j \in Person /\ j \in Key /\ j \notin Professional /\ Active(j)
         /\ \A j \in others : /\ j \in Professional /\ j \in Key /\ title[j].status = "superseded"
                              /\ \A i \in Held : Prerequisite(i) # j
                              /\ j # leaf
         /\ \A p \in P : sources[p] = {leaf} \cup others
         /\ \A q \in Person \ P : Active(q) => leaf \notin sources[q] /\ sources[q] \cap others = {}
         /\ leaf \notin stranded /\ stranded \cap others = {}
<1>1. CASE Active(leaf) /\ P = {} /\ others = {}
  <2>1. leaf \in Key
    BY DEF LeafOf, Professional
  <2>2. \A q \in Person : Active(q) => leaf \notin sources[q]
    BY <1>1 DEF TitlesOK, Fusions, Active
  <2>3. leaf \notin stranded
    BY <1>1 DEF TitlesOK, LeftBehind, Active
  <2> QED BY <1>1, <2>1, <2>2, <2>3, ActiveFacts
<1>2. CASE ~(Active(leaf) /\ P = {} /\ others = {})
  <2>1. PICK p \in Person : /\ P = {p} /\ Active(p) /\ leaf \in sources[p]
                            /\ others = sources[p] \ {leaf}
    BY <1>2 DEF LeafOf
  <2>2. /\ Shaped(sources[p])
        /\ \A j \in sources[p] : title[j].status = "superseded" /\ \A i \in Held : Prerequisite(i) # j
        /\ \A q \in Person : q # p /\ Active(q) => sources[p] \cap sources[q] = {}
        /\ sources[p] \cap stranded = {}
    BY <2>1 DEF TitlesOK, Fusions, LeftBehind
  <2>3. \A j \in sources[p] : j \in Professional /\ j \in Key
    BY <2>2, ShapedKeys DEF Professional
  <2>4. leaf \in Held
    BY <2>1, <2>2, <2>3, ActiveFacts
  <2>5. p \in Key /\ p \notin Professional
    BY ActiveFacts
  <2> QED BY <2>1, <2>2, <2>3, <2>4, <2>5
<1> QED BY <1>1, <1>2

\* Places along a chain.
LEMMA ChainPlaces ==
  ASSUME TitlesOK, NEW rows \in SUBSET Key, NEW k \in Held, k \in rows,
         Held \cap Professional \subseteq rows
  PROVE  LET C == Chain(k, rows)
             n == Cardinality(C)
         IN  /\ C \in SUBSET Key /\ n \in Nat /\ n > 0 /\ IsFiniteSet(C)
             /\ \A x \in C : Place(C, x) \in 1..n
             /\ Place(C, k) = n
             /\ \A x \in C : Place(C, x) = n => x = k
             /\ \A x \in C : Prerequisite(x) # NoTitle => Place(C, Prerequisite(x)) < Place(C, x)
             /\ \A x \in C : x # k => \E y \in C : Prerequisite(y) = x /\ Place(C, y) = Place(C, x) + 1
             /\ Ordered(C) \in [1..n -> C] /\ Ordered(C)[n] = k
             /\ \A i \in 1..n : Place(C, Ordered(C)[i]) = i
<1> DEFINE C == Chain(k, rows)
           n == Cardinality(C)
<1>1. /\ k \in C /\ C \subseteq Held /\ Linear(C)
      /\ \A x \in C : Prerequisite(x) # NoTitle =>
           Prerequisite(x) \in C /\ Grade(Prerequisite(x)) < Grade(x)
      /\ \A x \in C : Grade(x) <= Grade(k)
      /\ \A x \in C \ {k} : \E y \in C : Prerequisite(y) = x
  BY ChainFacts
<1> HIDE DEF C
<1>2. C \in SUBSET Key /\ Distinct(C) /\ NoTitle \notin C
  BY <1>1, CatalogAssumption DEF Held, Linear, Distinct
<1>3. /\ IsFiniteSet(C) /\ n \in Nat
      /\ \A x \in C : Place(C, x) \in 1..n
      /\ \A x, y \in C : Grade(x) < Grade(y) => Place(C, x) < Place(C, y)
  BY <1>2, Places
<1>4. \A x, y \in C : /\ Place(C, x) = Place(C, y) => x = y
                      /\ Place(C, x) < Place(C, y) <=> Grade(x) < Grade(y)
  BY <1>2, PlaceOne
<1>5. /\ Ordered(C) \in [1..n -> C]
      /\ \A i \in 1..n : Place(C, Ordered(C)[i]) = i
      /\ \A x \in C : Ordered(C)[Place(C, x)] = x
  BY <1>2, OrderedIs
<1>6. \A x \in C : Grade(x) \in 0..2
  BY <1>2, GradeType
<1>7. n > 0 /\ Place(C, k) = n
  <2>1. n > 0
    BY <1>1, <1>3
  <2>2. n \in 1..n /\ Ordered(C)[n] \in C /\ Place(C, Ordered(C)[n]) = n
    BY <1>3, <1>5, <2>1
  <2>3. Grade(Ordered(C)[n]) <= Grade(k)
    BY <1>1, <2>2
  <2>4. ~(Place(C, k) < n)
    <3>1. ~(Grade(k) < Grade(Ordered(C)[n]))
      BY <1>1, <1>6, <2>2, <2>3
    <3> QED BY <1>1, <1>4, <2>2, <3>1
  <2> QED BY <1>1, <1>3, <2>1, <2>4
<1>8. Ordered(C)[n] = k
  BY <1>1, <1>5, <1>7
<1>9. ASSUME NEW x \in C, x # k
      PROVE  \E y \in C : Prerequisite(y) = x /\ Place(C, y) = Place(C, x) + 1
  <2> DEFINE i == Place(C, x) + 1
             z == Ordered(C)[i]
  <2>1. Place(C, x) # n
    BY <1>1, <1>4, <1>7, <1>9
  <2>2. i \in 1..n
    BY <1>3, <2>1
  <2>3. z \in C /\ Place(C, z) = Place(C, x) + 1
    BY <1>5, <2>2
  <2> HIDE DEF z, i
  <2>4. Place(C, x) < Place(C, z)
    BY <1>3, <2>3
  <2>5. Grade(x) < Grade(z)
    BY <1>4, <2>3, <2>4
  <2>6. Prerequisite(z) \in C /\ Grade(x) <= Grade(Prerequisite(z))
    BY <1>1, <2>3, <2>5 DEF Linear
  <2>7. Grade(Prerequisite(z)) < Grade(z)
    BY <1>1, <1>2, <2>3, <2>6
  <2>8. Place(C, Prerequisite(z)) < Place(C, z)
    BY <1>3, <2>3, <2>6, <2>7
  <2>9. ~(Place(C, x) < Place(C, Prerequisite(z)))
    BY <1>3, <2>3, <2>6, <2>8
  <2>10. ~(Grade(x) < Grade(Prerequisite(z)))
    BY <1>4, <2>6, <2>9
  <2>11. Grade(x) = Grade(Prerequisite(z))
    BY <1>6, <2>6, <2>10
  <2>12. Prerequisite(z) = x
    BY <1>2, <2>6, <2>11 DEF Distinct
  <2> QED BY <2>3, <2>12
<1>10. \A x \in C : Prerequisite(x) # NoTitle => Place(C, Prerequisite(x)) < Place(C, x)
  BY <1>1, <1>3
<1>11. \A x \in C : Place(C, x) = n => x = k
  BY <1>1, <1>4, <1>7
<1> QED BY <1>2, <1>3, <1>5, <1>7, <1>8, <1>9, <1>10, <1>11 DEF C

\* n tiers of leaf's chain remain; the person title in P is taken apart.
LEMMA DemoteTitles ==
  ASSUME TitlesOK, NEW leaf, NEW P, NEW others, LeafOf(leaf, P, others),
         NEW C, C = Chain(leaf, Held), NEW n \in 0..Cardinality(C),
         title' = [k \in Key |->
                     IF k \in P THEN [title[k] EXCEPT !.status = "revoked"]
                     ELSE IF k \in others THEN [title[k] EXCEPT !.status = "active"]
                     ELSE Demoted(C, n)[k]],
         \A q \in Person : sources'[q] = IF q \in P THEN {} ELSE sources[q],
         stranded' = stranded
  PROVE  TitlesOK'
<1>1. /\ leaf \in Held /\ leaf \in Key
      /\ \A j \in Held : Prerequisite(j) # leaf
      /\ \A j \in P : j \in Person /\ j \in Key /\ j \notin Professional /\ Active(j)
      /\ \A j \in others : /\ j \in Professional /\ j \in Key /\ title[j].status = "superseded"
                           /\ \A i \in Held : Prerequisite(i) # j
                           /\ j # leaf
      /\ \A p \in P : sources[p] = {leaf} \cup others
      /\ \A q \in Person \ P : Active(q) => leaf \notin sources[q] /\ sources[q] \cap others = {}
      /\ leaf \notin stranded /\ stranded \cap others = {}
  BY LeafFacts
<1>2. Held \in SUBSET Key /\ Held \cap Professional \subseteq Held /\ leaf \in Professional
  BY DEF Held, LeafOf
<1>3. /\ leaf \in C /\ C \subseteq Held
      /\ \A x \in C : Prerequisite(x) # NoTitle => Prerequisite(x) \in C
      /\ \A x \in C \ {leaf} : /\ title[x].status = "superseded" /\ x \in Professional
                               /\ \E y \in C : Prerequisite(y) = x
                               /\ \A y \in Held : Prerequisite(y) = x => y \in C
  BY <1>1, <1>2, ChainFacts
<1>4. /\ Cardinality(C) \in Nat
      /\ \A x \in C : Place(C, x) \in 1..Cardinality(C)
      /\ Place(C, leaf) = Cardinality(C)
      /\ \A x \in C : Prerequisite(x) # NoTitle => Place(C, Prerequisite(x)) < Place(C, x)
      /\ \A x \in C : x # leaf => \E y \in C : Prerequisite(y) = x /\ Place(C, y) = Place(C, x) + 1
  BY <1>1, <1>2, ChainPlaces
<1>5. /\ \A j \in P : j \notin C /\ j \notin others
      /\ \A j \in others : j \notin C
      /\ \A j \in Person : j \notin C /\ j \notin others /\ j \in Key
      /\ \A j \in Key : j # NoTitle
  <2>1. \A j \in Person : j \in Key /\ j \notin Professional
    BY ActiveFacts
  <2>2. \A j \in C : j \in Professional
    BY <1>2, <1>3
  <2>3. \A j \in others : j \notin C
    BY <1>1, <1>3
  <2>4. \A j \in Key : j # NoTitle
    BY CatalogAssumption
  <2> QED BY <1>1, <2>1, <2>2, <2>3, <2>4
<1> DEFINE st(k) == IF k \in P THEN "revoked" ELSE IF k \in others THEN "active"
                    ELSE IF k \notin C THEN title[k].status
                    ELSE IF Place(C, k) = n THEN "active"
                    ELSE IF Place(C, k) < n THEN "superseded" ELSE "revoked"
<1>6. \A j \in Key : title'[j].status = st(j) /\ title'[j].rule = title[j].rule /\ title'[j] \in Row
  <2> SUFFICES ASSUME NEW j \in Key
               PROVE  title'[j].status = st(j) /\ title'[j].rule = title[j].rule /\ title'[j] \in Row
    OBVIOUS
  <2>1. title[j] \in [status : Status, rule : Rule \cup {NoRule}]
    BY DEF Row, TitlesOK, RowsOK
  <2>2. CASE j \in P
    <3>1. title'[j] = [title[j] EXCEPT !.status = "revoked"]
      BY <2>2
    <3> QED BY <2>1, <2>2, <3>1 DEF Row, Status
  <2>3. CASE j \notin P /\ j \in others
    <3>1. title'[j] = [title[j] EXCEPT !.status = "active"]
      BY <2>3
    <3> QED BY <2>1, <2>3, <3>1 DEF Row, Status
  <2>4. CASE j \notin P /\ j \notin others /\ j \notin C
    <3>1. title'[j] = title[j]
      BY <2>4 DEF Demoted
    <3> QED BY <2>1, <2>4, <3>1 DEF Row
  <2>5. CASE j \notin P /\ j \notin others /\ j \in C
    <3>1. title'[j] = [title[j] EXCEPT !.status = IF Place(C, j) = n THEN "active"
                                                  ELSE IF Place(C, j) < n THEN "superseded"
                                                  ELSE "revoked"]
      BY <2>5 DEF Demoted
    <3> DEFINE s == IF Place(C, j) = n THEN "active" ELSE IF Place(C, j) < n THEN "superseded"
                    ELSE "revoked"
    <3>2. s \in Status
      BY DEF Status
    <3>3. title'[j] = [title[j] EXCEPT !.status = s]
      BY <3>1
    <3>4. st(j) = s
      BY <2>5
    <3> HIDE DEF s, st
    <3> QED BY <2>1, <3>2, <3>3, <3>4 DEF Row
  <2> QED BY <2>2, <2>3, <2>4, <2>5
<1>7. \A j \in Key : Prerequisite(j)' = Prerequisite(j)
  BY <1>6, PrerequisiteIs
<1>8. /\ \A j \in Key : j \in Held <=> title[j].status \in {"active", "superseded"}
      /\ \A j \in Key : j \in Held' <=> st(j) \in {"active", "superseded"}
      /\ Held' \subseteq Key /\ Held \subseteq Key
  BY <1>6 DEF Held
<1>9. Held' \subseteq Held
  <2> SUFFICES ASSUME NEW j \in Key, st(j) \in {"active", "superseded"} PROVE j \in Held
    BY <1>8
  <2>1. CASE j \in others
    BY <1>1, <1>8, <2>1
  <2>2. CASE j \in C
    BY <1>3, <2>2
  <2>3. CASE j \notin others /\ j \notin C
    BY <1>8, <2>3
  <2> QED BY <2>1, <2>2, <2>3
<1> HIDE DEF st
<1>10. RowsOK'
  <2>1. title' \in [Key -> Row]
    BY <1>6
  <2>2. \A j \in Key : /\ title[j].rule = NoRule <=> title[j].status = "absent"
                       /\ title[j].rule # NoRule => KeyOf[title[j].rule] = j
    BY DEF TitlesOK, RowsOK
  <2>3. \A j \in Key : st(j) = "absent" <=> title[j].status = "absent"
    <3> SUFFICES ASSUME NEW j \in Key PROVE st(j) = "absent" <=> title[j].status = "absent"
      OBVIOUS
    <3>1. CASE j \in P \/ j \in others \/ j \in C
      <4>1. title[j].status # "absent"
        BY <1>1, <1>3, <1>8, <3>1 DEF Active
      <4> QED BY <3>1, <4>1 DEF st
    <3>2. CASE ~(j \in P \/ j \in others \/ j \in C)
      BY <3>2 DEF st
    <3> QED BY <3>1, <3>2
  <2>4. \A j \in Key : title'[j].status = st(j) /\ title'[j].rule = title[j].rule
    BY <1>6
  <2>5. \A j \in Key : /\ title'[j].rule = NoRule <=> title'[j].status = "absent"
                       /\ title'[j].rule # NoRule => KeyOf[title'[j].rule] = j
    BY <2>2, <2>3, <2>4
  <2> QED BY <2>1, <2>5 DEF RowsOK
<1>11. \A j \in Held' : j \in C => Place(C, j) <= n
  <2> SUFFICES ASSUME NEW j \in Held', j \in C PROVE Place(C, j) <= n
    OBVIOUS
  <2>1. st(j) \in {"active", "superseded"} /\ j \notin P /\ j \notin others
    BY <1>5, <1>8
  <2>2. Place(C, j) \in Int /\ n \in Int
    BY <1>4
  <2> QED BY <2>1, <2>2 DEF st
<1>12. \A j \in Held \ C : Prerequisite(j) \notin C
  BY <1>1, <1>3
<1>13. Forest'
  <2>1. \A j \in Held' : Prerequisite(j)' # NoTitle => title'[Prerequisite(j)'].status = "superseded"
    <3> SUFFICES ASSUME NEW j \in Held', Prerequisite(j) # NoTitle
                 PROVE  title'[Prerequisite(j)].status = "superseded"
      BY <1>7, <1>8
    <3> DEFINE q == Prerequisite(j)
    <3>1. j \in Held /\ j \in Key
      BY <1>8, <1>9
    <3>2. q \in Key /\ q \in Professional /\ title[q].status = "superseded"
      <4>1. q \in Professional
        BY <3>1, PrerequisiteGrade DEF TitlesOK
      <4> QED BY <3>1, <4>1 DEF TitlesOK, Forest, Professional
    <3>3. q \notin P /\ q \notin others
      BY <1>1, <3>1, <3>2
    <3> HIDE DEF q
    <3>4. CASE j \in C
      <4>1. q \in C /\ Place(C, q) < Place(C, j) /\ Place(C, j) <= n
        BY <1>3, <1>4, <1>11, <3>4 DEF q
      <4>2. Place(C, q) \in Int /\ Place(C, j) \in Int /\ n \in Int
        BY <1>4, <3>4, <4>1
      <4>3. st(q) = "superseded"
        BY <3>3, <4>1, <4>2 DEF st
      <4> QED BY <1>6, <3>2, <4>3 DEF q
    <3>5. CASE j \notin C
      <4>1. q \notin C
        BY <1>12, <3>1, <3>5 DEF q
      <4>2. st(q) = "superseded"
        BY <3>2, <3>3, <4>1 DEF st
      <4> QED BY <1>6, <3>2, <4>2 DEF q
    <3> QED BY <3>4, <3>5
  <2>2. \A i, j \in Held' : Prerequisite(i)' = Prerequisite(j)' /\ Prerequisite(i)' # NoTitle => i = j
    <3>1. \A i, j \in Held : Prerequisite(i) = Prerequisite(j) /\ Prerequisite(i) # NoTitle => i = j
      BY DEF TitlesOK, Forest
    <3>2. \A i \in Held' : i \in Held /\ Prerequisite(i)' = Prerequisite(i)
      BY <1>7, <1>8, <1>9
    <3> QED BY <3>1, <3>2
  <2>3. ASSUME NEW j \in Key, title'[j].status = "superseded"
        PROVE  /\ j \in Professional
               /\ \/ \E i \in Held' : Prerequisite(i)' = j
                  \/ \E q \in Person : title'[q].status = "active" /\ j \in sources'[q]
                  \/ j \in stranded'
    <3>1. st(j) = "superseded"
      BY <1>6, <2>3
    <3>2. CASE j \in C
      <4>0. j \notin P /\ j \notin others
        BY <1>5, <3>2
      <4>1. Place(C, j) < n
        BY <3>1, <3>2, <4>0 DEF st
      <4>2. Place(C, j) \in 1..Cardinality(C) /\ Cardinality(C) \in Nat /\ n \in 0..Cardinality(C)
        BY <1>4, <3>2
      <4>3. j # leaf
        BY <1>4, <4>1, <4>2
      <4>4. PICK y \in C : Prerequisite(y) = j /\ Place(C, y) = Place(C, j) + 1
        BY <1>4, <3>2, <4>3
      <4>5. st(y) \in {"active", "superseded"}
        <5>1. y \notin P /\ y \notin others
          BY <1>5, <4>4
        <5>2. Place(C, y) = n \/ Place(C, y) < n
          BY <4>1, <4>2, <4>4
        <5> QED BY <4>4, <5>1, <5>2 DEF st
      <4>6. y \in Key
        BY <1>3, <1>8, <4>4
      <4>7. y \in Held' /\ Prerequisite(y)' = j
        BY <1>7, <1>8, <4>4, <4>5, <4>6
      <4>8. j \in Professional
        BY <1>3, <3>2, <4>3
      <4> QED BY <4>7, <4>8
    <3>3. CASE j \notin C
      <4>1. j \notin P /\ j \notin others /\ title[j].status = "superseded"
        BY <3>1, <3>3 DEF st
      <4>2. /\ j \in Professional
            /\ \/ \E i \in Held : Prerequisite(i) = j
               \/ \E q \in Person : Active(q) /\ j \in sources[q]
               \/ j \in stranded
        BY <4>1 DEF TitlesOK, Forest
      <4>3. ASSUME NEW i \in Held, Prerequisite(i) = j PROVE i \in Held' /\ Prerequisite(i)' = j
        <5>1. j # NoTitle /\ i \in Key
          BY <1>5, <1>8
        <5>2. i \notin C
          BY <1>3, <3>3, <4>3, <5>1
        <5>3. i \notin P
          BY <1>1, <4>3, <5>1, ActiveFacts
        <5>4. st(i) \in {"active", "superseded"}
          BY <1>8, <5>1, <5>2, <5>3 DEF st
        <5> QED BY <1>7, <1>8, <4>3, <5>1, <5>4
      <4>4. ASSUME NEW q \in Person, Active(q), j \in sources[q]
            PROVE  title'[q].status = "active" /\ j \in sources'[q]
        <5>1. q \notin P
          BY <1>1, <1>3, <3>3, <4>1, <4>4
        <5>2. q \notin C /\ q \notin others /\ q \in Key
          BY <1>5
        <5>3. st(q) = "active"
          BY <4>4, <5>1, <5>2 DEF st, Active
        <5> QED BY <1>6, <4>4, <5>1, <5>2, <5>3
      <4> QED BY <4>2, <4>3, <4>4
    <3> QED BY <3>2, <3>3
  <2> QED BY <2>1, <2>2, <2>3 DEF Forest, Active
<1>14. Fusions'
  <2>1. ASSUME NEW q \in Person
        PROVE  title'[q].status = "active" =>
                 /\ Shaped(sources'[q])
                 /\ \A j \in sources'[q] : /\ title'[j].status = "superseded"
                                           /\ \A i \in Held' : Prerequisite(i)' # j
    <3>1. q \notin C /\ q \notin others /\ q \in Key
      BY <1>5
    <3>2. CASE q \in P
      <4>1. st(q) = "revoked"
        BY <3>2 DEF st
      <4> QED BY <1>6, <3>1, <3>2, <4>1
    <3>3. CASE q \notin P
      <4>1. title'[q].status = title[q].status /\ sources'[q] = sources[q]
        BY <1>6, <3>1, <3>3 DEF st
      <4>2. CASE Active(q)
        <5>1. /\ Shaped(sources[q])
              /\ \A j \in sources[q] : /\ title[j].status = "superseded"
                                       /\ \A i \in Held : Prerequisite(i) # j
          BY <4>2 DEF TitlesOK, Fusions
        <5>2. \A j \in sources[q] : j \in Key /\ j \in Professional
          BY <5>1, ShapedKeys DEF Professional
        <5>3. \A j \in sources[q] : j \notin C /\ j \notin others /\ j \notin P
          <6>1. leaf \notin sources[q] /\ sources[q] \cap others = {}
            BY <1>1, <3>3, <4>2
          <6> QED BY <1>1, <1>3, <5>1, <5>2, <6>1
        <5>4. \A j \in sources[q] : title'[j].status = "superseded"
          BY <1>6, <5>1, <5>2, <5>3 DEF st
        <5>5. \A j \in sources[q] : \A i \in Held' : Prerequisite(i)' # j
          BY <1>7, <1>8, <1>9, <5>1
        <5> QED BY <4>1, <4>2, <5>1, <5>4, <5>5 DEF Active
      <4>3. CASE ~Active(q)
        BY <4>1, <4>3 DEF TitlesOK, Fusions, Active
      <4> QED BY <4>2, <4>3
    <3> QED BY <3>2, <3>3
  <2>2. \A q \in Person : title'[q].status = "active" =>
          q \notin P /\ Active(q) /\ sources'[q] = sources[q]
    <3> SUFFICES ASSUME NEW q \in Person, title'[q].status = "active"
                 PROVE  q \notin P /\ Active(q) /\ sources'[q] = sources[q]
      OBVIOUS
    <3>1. q \notin C /\ q \notin others /\ st(q) = "active"
      BY <1>5, <1>6
    <3> QED BY <3>1 DEF st, Active
  <2>3. \A q, s \in Person : q # s /\ title'[q].status = "active" /\ title'[s].status = "active"
                             => sources'[q] \cap sources'[s] = {}
    BY <2>2 DEF TitlesOK, Fusions
  <2> QED BY <2>1, <2>3 DEF Fusions, Active
<1>15. LeftBehind'
  <2>1. ASSUME NEW j \in stranded
        PROVE  /\ j \in Key /\ title'[j].status = "superseded"
               /\ \A i \in Held' : Prerequisite(i)' # j
    <3>1. /\ j \in Key /\ title[j].status = "superseded"
          /\ \A i \in Held : Prerequisite(i) # j
      BY DEF TitlesOK, LeftBehind
    <3>2. j \notin C /\ j \notin others /\ j \notin P
      BY <1>1, <1>3, <3>1 DEF Active
    <3>3. st(j) = "superseded"
      BY <3>1, <3>2 DEF st
    <3> QED BY <1>6, <1>7, <1>8, <1>9, <3>1, <3>3
  <2>2. ASSUME NEW q \in Person, title'[q].status = "active"
        PROVE  sources'[q] \cap stranded = {}
    <3>1. q \in Key /\ q \notin C /\ q \notin others /\ st(q) = "active"
      BY <1>5, <1>6, <2>2
    <3>2. Active(q) /\ sources'[q] = sources[q]
      BY <3>1 DEF st, Active
    <3> QED BY <3>2 DEF TitlesOK, LeftBehind
  <2> QED BY <2>1, <2>2 DEF LeftBehind, Active
<1> QED BY <1>10, <1>13, <1>14, <1>15 DEF TitlesOK

-----------------------------------------------------------------------------
(* What the deletion of a rating does *)

\* Every professional title that is held is earned, no other title has evidence, and
\* the unique indexes hold.
EarnedOK ==
  /\ TitlesAreEarned
  /\ \A k \in Person : evidence[k] = {}
  /\ UniqueRows(title, evidence)

LEMMA RemainingIs ==
  ASSUME NEW C \in SUBSET Key, NEW c, NEW leaf, NEW blocked
  PROVE  LET n == Remaining(c, C, leaf, blocked)
         IN  /\ n \in 0..Cardinality(C)
             /\ n > 0 => /\ Ordered(C)[n] = leaf \/ Tier[Ordered(C)[n]] \notin blocked
                         /\ Eligible(SlotsUpTo(C, n), Candidates(c, C))
             /\ \A m \in 1..Cardinality(C) :
                  /\ Ordered(C)[m] = leaf \/ Tier[Ordered(C)[m]] \notin blocked
                  /\ Eligible(SlotsUpTo(C, m), Candidates(c, C))
                  => m <= n
<1> DEFINE N == Cardinality(C)
           able == {m \in 1..N :
                      /\ Ordered(C)[m] = leaf \/ Tier[Ordered(C)[m]] \notin blocked
                      /\ Eligible(SlotsUpTo(C, m), Candidates(c, C))}
           n == Remaining(c, C, leaf, blocked)
<1>1. N \in Nat
  BY Places
<1>2. n = IF able = {} THEN 0 ELSE CHOOSE m \in able : \A l \in able : l <= m
  BY DEF Remaining
<1>3. able \subseteq 1..N
  OBVIOUS
<1> HIDE DEF able, n, N
<1>4. CASE able = {}
  BY <1>1, <1>2, <1>4 DEF able, n, N
<1>5. CASE able # {}
  <2> DEFINE T == {N - m : m \in able}
  <2>0. \A m \in able : m \in 1..N
    BY <1>3
  <2>01. \A m \in 1..N : N - m \in Nat
    BY <1>1
  <2>1. T # {} /\ T \in SUBSET Nat
    <3>1. PICK m \in able : TRUE
      BY <1>5
    <3>2. N - m \in T
      OBVIOUS
    <3> QED BY <2>0, <2>01, <3>2
  <2>2. PICK t \in T : \A s \in T : t <= s
    <3> HIDE DEF T
    <3> QED BY <2>1, Smallest
  <2>3. PICK m \in able : t = N - m
    BY <2>2
  <2>4. \A l \in able : l <= m
    <3> SUFFICES ASSUME NEW l \in able PROVE l <= m
      OBVIOUS
    <3>1. t <= N - l
      BY <2>2
    <3>2. l \in Int /\ m \in Int /\ N \in Int
      BY <1>1, <1>3
    <3> QED BY <2>3, <3>1, <3>2
  <2>5. n \in able /\ \A l \in able : l <= n
    BY <1>2, <1>5, <2>4
  <2>6. n \in 1..N
    BY <1>3, <2>5
  <2>7. /\ n \in 0..N
        /\ Ordered(C)[n] = leaf \/ Tier[Ordered(C)[n]] \notin blocked
        /\ Eligible(SlotsUpTo(C, n), Candidates(c, C))
    BY <1>1, <2>5, <2>6 DEF able
  <2>8. \A l \in 1..N :
          /\ Ordered(C)[l] = leaf \/ Tier[Ordered(C)[l]] \notin blocked
          /\ Eligible(SlotsUpTo(C, l), Candidates(c, C))
          => l <= n
    BY <2>5 DEF able
  <2> QED BY <2>7, <2>8 DEF n, N
<1> QED BY <1>4, <1>5

Uses(c, k) == \E j \in Chain(k, Held) : c \in evidence[j]
Untouched == [kind |-> "unchanged", title |-> title, evidence |-> evidence,
              sources |-> sources, primary |-> primary]

LEMMA OutcomeCases ==
  ASSUME NEW c
  PROVE  \/ \E p \in Person, leaf \in Held :
              Active(p) /\ leaf \in sources[p] /\ Uses(c, leaf) /\ Outcome(c) = FusedOutcome(c, p, leaf)
         \/ \E leaf \in Key : Active(leaf) /\ Uses(c, leaf) /\ Outcome(c) = ChainOutcome(c, leaf)
         \/ /\ Outcome(c) = Untouched
            /\ \A p \in Person, leaf \in Held : Active(p) /\ leaf \in sources[p] => ~Uses(c, leaf)
            /\ \A leaf \in Key : Active(leaf) => ~Uses(c, leaf)
<1> DEFINE fused == {x \in Person \X Held :
                       Active(x[1]) /\ x[2] \in sources[x[1]] /\ Uses(c, x[2])}
           leaves == {k \in Key : Active(k) /\ Uses(c, k)}
           x == CHOOSE x \in fused : TRUE
           k == CHOOSE k \in leaves : TRUE
<1>1. Outcome(c) = IF fused # {} THEN FusedOutcome(c, x[1], x[2])
                   ELSE IF leaves # {} THEN ChainOutcome(c, k)
                   ELSE Untouched
  BY DEF Outcome, Uses, Untouched
<1>2. CASE fused # {}
  <2>1. x \in fused
    BY <1>2
  <2> HIDE DEF x
  <2>2. x[1] \in Person /\ x[2] \in Held /\ Active(x[1]) /\ x[2] \in sources[x[1]] /\ Uses(c, x[2])
    BY <2>1
  <2> QED BY <1>1, <1>2, <2>2
<1>3. CASE fused = {} /\ leaves # {}
  <2>1. k \in leaves
    BY <1>3
  <2> HIDE DEF k
  <2> QED BY <1>1, <1>3, <2>1
<1>4. CASE fused = {} /\ leaves = {}
  <2>1. Outcome(c) = Untouched
    BY <1>1, <1>4
  <2>2. \A p \in Person, leaf \in Held : Active(p) /\ leaf \in sources[p] => ~Uses(c, leaf)
    <3> SUFFICES ASSUME NEW p \in Person, NEW leaf \in Held, Active(p), leaf \in sources[p],
                        Uses(c, leaf)
                 PROVE  FALSE
      OBVIOUS
    <3>1. <<p, leaf>> \in fused
      OBVIOUS
    <3> QED BY <1>4, <3>1
  <2>3. \A leaf \in Key : Active(leaf) => ~Uses(c, leaf)
    BY <1>4
  <2> QED BY <2>1, <2>2, <2>3
<1> QED BY <1>2, <1>3, <1>4

\* The rows when n tiers remain and the person title in P is taken apart.
Lowered(C, n, P, others) ==
  [k \in Key |-> IF k \in P THEN [title[k] EXCEPT !.status = "revoked"]
                 ELSE IF k \in others THEN [title[k] EXCEPT !.status = "active"]
                 ELSE Demoted(C, n)[k]]

\* o keeps n tiers of the chain C that ends in leaf.
Keeps(c, o, leaf, P, others, C, n) ==
  /\ LeafOf(leaf, P, others) /\ C = Chain(leaf, Held) /\ Uses(c, leaf)
  /\ n \in 0..Cardinality(C)
  /\ n > 0 => /\ Eligible(SlotsUpTo(C, n), Candidates(c, C))
              /\ n = Cardinality(C) \/ \A k \in Key :
                   Active(k) /\ k \notin P /\ k # leaf /\ Tier[k] = Tier[Ordered(C)[n]]
                   => Tier[k] = "bronze"
  /\ n # Cardinality(C) => ~Eligible(SlotsUpTo(C, Cardinality(C)), Candidates(c, C))
  /\ o.evidence = Rewritten(evidence, C, n, Candidates(c, C))
  /\ IF n = Cardinality(C) THEN o.kind = "preserved" ELSE o.kind \in Loss
  /\ \/ /\ P # {} /\ n = Cardinality(C)
        /\ o.title = title /\ o.sources = sources /\ o.primary = primary
     \/ /\ P = {} \/ n # Cardinality(C)
        /\ o.title = Lowered(C, n, P, others)
        /\ o.sources \in [Person -> SUBSET Key]
        /\ \A q \in Person : o.sources[q] = IF q \in P THEN {} ELSE sources[q]
        /\ \/ o.primary = primary /\ primary \notin P /\ (P = {} => primary # leaf)
           \/ o.primary = NoTitle
           \/ n > 0 /\ o.primary = Ordered(C)[n]
           \/ o.primary \in others

LEMMA TiersFree ==
  ASSUME NEW except, NEW tier, tier \notin ActiveTiers(except), NEW k \in Key, k # except,
         Active(k), Tier[k] = tier
  PROVE  Tier[k] = "bronze"
BY DEF ActiveTiers

LEMMA OutcomeIs ==
  ASSUME TitlesOK, EarnedOK, sources \in [Person -> SUBSET Key], NEW c
  PROVE  \/ \E leaf, P, others, C, n : Keeps(c, Outcome(c), leaf, P, others, C, n)
         \/ /\ Outcome(c) = Untouched
            /\ \A p \in Person, leaf \in Held : Active(p) /\ leaf \in sources[p] => ~Uses(c, leaf)
            /\ \A leaf \in Key : Active(leaf) => ~Uses(c, leaf)
<1> DEFINE o == Outcome(c)
<1>0. Held \in SUBSET Key /\ Held \cap Professional \subseteq Held
  BY DEF Held
<1>1. ASSUME NEW p \in Person, NEW leaf \in Held, Active(p), leaf \in sources[p], Uses(c, leaf),
             o = FusedOutcome(c, p, leaf)
      PROVE  \E P, others, C, n : Keeps(c, o, leaf, P, others, C, n)
  <2> DEFINE P == {p}
             others == sources[p] \ {leaf}
             C == Chain(leaf, Held)
             n == Remaining(c, C, leaf, ActiveTiers(p))
             N == Cardinality(C)
             ev == Rewritten(evidence, C, n, Candidates(c, C))
             next == IF n > 0 THEN Ordered(C)[n]
                     ELSE IF others # {} THEN CHOOSE k \in others : TRUE ELSE NoTitle
  <2>1. leaf \in Professional /\ LeafOf(leaf, P, others)
    <3>1. Shaped(sources[p])
      BY <1>1 DEF TitlesOK, Fusions
    <3>2. leaf \in Professional
      BY <1>1, <3>1, ShapedKeys
    <3> QED BY <1>1, <3>2 DEF LeafOf
  <2>2. C \in SUBSET Key /\ N \in Nat /\ N > 0 /\ Ordered(C)[N] = leaf
    BY <1>0, ChainPlaces
  <2>3. /\ n \in 0..N
        /\ n > 0 => /\ Ordered(C)[n] = leaf \/ Tier[Ordered(C)[n]] \notin ActiveTiers(p)
                    /\ Eligible(SlotsUpTo(C, n), Candidates(c, C))
        /\ \A m \in 1..N :
             /\ Ordered(C)[m] = leaf \/ Tier[Ordered(C)[m]] \notin ActiveTiers(p)
             /\ Eligible(SlotsUpTo(C, m), Candidates(c, C))
             => m <= n
    BY <2>2, RemainingIs
  <2>4. o = IF n = N
            THEN [kind |-> "preserved", title |-> title, evidence |-> ev,
                  sources |-> sources, primary |-> primary]
            ELSE [kind |-> "dismantled", title |-> Lowered(C, n, P, others), evidence |-> ev,
                  sources |-> [sources EXCEPT ![p] = {}],
                  primary |-> IF primary = p THEN next ELSE primary]
    <3>1. Lowered(C, n, P, others) =
            [k \in Key |-> IF k = p THEN [title[k] EXCEPT !.status = "revoked"]
                           ELSE IF k \in others THEN [title[k] EXCEPT !.status = "active"]
                           ELSE Demoted(C, n)[k]]
      BY DEF Lowered
    <3> QED BY <1>1, <3>1, Zenon DEF FusedOutcome
  <2> HIDE DEF o, C, n, N, ev, next, others
  <2>5. n = N \/ \A k \in Key :
          n > 0 /\ Active(k) /\ k \notin P /\ k # leaf /\ Tier[k] = Tier[Ordered(C)[n]]
          => Tier[k] = "bronze"
    <3>1. CASE n > 0 /\ Ordered(C)[n] # leaf
      <4>1. Tier[Ordered(C)[n]] \notin ActiveTiers(p)
        BY <2>3, <3>1
      <4> QED BY <4>1, TiersFree
    <3>2. CASE n > 0 /\ Ordered(C)[n] = leaf
      <4>1. Place(C, Ordered(C)[n]) = n
        <5>1. n \in 1..N
          BY <2>2, <2>3, <3>2
        <5> QED BY <1>0, <5>1, ChainPlaces DEF C, N
      <4>2. Place(C, leaf) = N
        BY <1>0, ChainPlaces DEF C, N
      <4> QED BY <3>2, <4>1, <4>2
    <3>3. CASE ~(n > 0)
      BY <3>3
    <3> QED BY <3>1, <3>2, <3>3
  <2>6. n # N => ~Eligible(SlotsUpTo(C, N), Candidates(c, C))
    <3>1. N \in 1..N
      BY <2>2
    <3>2. Eligible(SlotsUpTo(C, N), Candidates(c, C)) => N <= n
      BY <2>2, <2>3, <3>1
    <3> QED BY <2>2, <2>3, <3>2
  <2>7. CASE n = N
    <3>1. /\ o.kind = "preserved" /\ o.title = title /\ o.evidence = ev /\ o.sources = sources
          /\ o.primary = primary
      BY <2>4, <2>7
    <3>2. Keeps(c, o, leaf, P, others, C, n)
      BY <1>1, <2>1, <2>3, <2>7, <3>1 DEF Keeps, C, N, ev
    <3> QED BY <3>2
  <2>8. CASE n # N
    <3>1. /\ o.kind = "dismantled" /\ o.title = Lowered(C, n, P, others) /\ o.evidence = ev
          /\ o.sources = [sources EXCEPT ![p] = {}]
          /\ o.primary = IF primary = p THEN next ELSE primary
      BY <2>4, <2>8
    <3>2. /\ o.sources \in [Person -> SUBSET Key]
          /\ \A q \in Person : o.sources[q] = IF q \in P THEN {} ELSE sources[q]
      BY <3>1
    <3>3. \/ o.primary = primary /\ primary \notin P /\ (P = {} => primary # leaf)
          \/ o.primary = NoTitle
          \/ n > 0 /\ o.primary = Ordered(C)[n]
          \/ o.primary \in others
      BY <3>1 DEF next
    <3>4. n > 0 => /\ Eligible(SlotsUpTo(C, n), Candidates(c, C))
                   /\ \A k \in Key :
                        Active(k) /\ k \notin P /\ k # leaf /\ Tier[k] = Tier[Ordered(C)[n]]
                        => Tier[k] = "bronze"
      BY <2>3, <2>5, <2>8
    <3>5. Keeps(c, o, leaf, P, others, C, n)
      BY <1>1, <2>1, <2>3, <2>6, <2>8, <3>1, <3>2, <3>3, <3>4 DEF Keeps, C, N, ev, Loss
    <3> QED BY <3>5
  <2> QED BY <2>7, <2>8
<1>2. ASSUME NEW leaf \in Key, Active(leaf), Uses(c, leaf), o = ChainOutcome(c, leaf)
      PROVE  \E P, others, C, n : Keeps(c, o, leaf, P, others, C, n)
  <2> DEFINE C == Chain(leaf, Held)
             n == Remaining(c, C, leaf, ActiveTiers(leaf))
             N == Cardinality(C)
             ev == Rewritten(evidence, C, n, Candidates(c, C))
             next == IF n > 0 THEN Ordered(C)[n] ELSE NoTitle
             D == Demoted(C, n)
  <2>0. leaf \in Held
    BY <1>2 DEF Active, Held
  <2>1. leaf \in Professional
    <3> SUFFICES ASSUME leaf \in Person PROVE FALSE
      BY <1>2 DEF Professional
    <3>1. PICK j \in C : c \in evidence[j]
      BY <1>2 DEF Uses
    <3>2. \A x \in C \ {leaf} : \E y \in C : Prerequisite(y) = x
      BY <1>0, <2>0, ChainFacts
    <3>3. Prerequisite(leaf) = NoTitle /\ NoTitle \notin Held
      BY CatalogAssumption, ActiveFacts DEF Held
    <3>4. Closed({leaf}, Held)
      BY <3>3 DEF Closed
    <3>5. C \subseteq {leaf}
      BY <2>0, <3>4, ChainBasics
    <3> QED BY <3>1, <3>5 DEF EarnedOK
  <2>2. C \in SUBSET Key /\ N \in Nat /\ N > 0 /\ Ordered(C)[N] = leaf
    BY <1>0, <2>0, ChainPlaces
  <2>3. /\ n \in 0..N
        /\ n > 0 => /\ Ordered(C)[n] = leaf \/ Tier[Ordered(C)[n]] \notin ActiveTiers(leaf)
                    /\ Eligible(SlotsUpTo(C, n), Candidates(c, C))
        /\ \A m \in 1..N :
             /\ Ordered(C)[m] = leaf \/ Tier[Ordered(C)[m]] \notin ActiveTiers(leaf)
             /\ Eligible(SlotsUpTo(C, m), Candidates(c, C))
             => m <= n
    BY <2>2, RemainingIs
  <2>4. o = [kind |-> IF n = N THEN "preserved" ELSE IF n > 0 THEN "downgraded" ELSE "revoked",
             title |-> D, evidence |-> ev, sources |-> sources,
             primary |-> IF primary = leaf THEN next ELSE primary]
    BY <1>2, Zenon DEF ChainOutcome
  <2>41. D = Lowered(C, n, {}, {})
    BY DEF Lowered, Demoted
  <2> HIDE DEF o, C, n, N, ev, next, D
  <2>5. n = N \/ \A k \in Key :
          n > 0 /\ Active(k) /\ k # leaf /\ Tier[k] = Tier[Ordered(C)[n]] => Tier[k] = "bronze"
    <3>1. CASE n > 0 /\ Ordered(C)[n] # leaf
      <4>1. Tier[Ordered(C)[n]] \notin ActiveTiers(leaf)
        BY <2>3, <3>1
      <4> QED BY <4>1, TiersFree
    <3>2. CASE n > 0 /\ Ordered(C)[n] = leaf
      <4>1. Place(C, Ordered(C)[n]) = n
        <5>1. n \in 1..N
          BY <2>2, <2>3, <3>2
        <5> QED BY <1>0, <2>0, <5>1, ChainPlaces DEF C, N
      <4>2. Place(C, leaf) = N
        BY <1>0, <2>0, ChainPlaces DEF C, N
      <4> QED BY <3>2, <4>1, <4>2
    <3>3. CASE ~(n > 0)
      BY <3>3
    <3> QED BY <3>1, <3>2, <3>3
  <2>6. n # N => ~Eligible(SlotsUpTo(C, N), Candidates(c, C))
    <3>1. N \in 1..N
      BY <2>2
    <3>2. Eligible(SlotsUpTo(C, N), Candidates(c, C)) => N <= n
      BY <2>2, <2>3, <3>1
    <3> QED BY <2>2, <2>3, <3>2
  <2>7. /\ o.kind = IF n = N THEN "preserved" ELSE IF n > 0 THEN "downgraded" ELSE "revoked"
        /\ o.title = Lowered(C, n, {}, {}) /\ o.evidence = ev /\ o.sources = sources
        /\ o.primary = IF primary = leaf THEN next ELSE primary
    BY <2>4, <2>41
  <2>8. LeafOf(leaf, {}, {})
    BY <1>2, <2>1 DEF LeafOf
  <2>9. n > 0 => /\ Eligible(SlotsUpTo(C, n), Candidates(c, C))
                 /\ n = N \/ \A k \in Key :
                      Active(k) /\ k \notin {} /\ k # leaf /\ Tier[k] = Tier[Ordered(C)[n]]
                      => Tier[k] = "bronze"
    BY <2>3, <2>5
  <2>10. IF n = N THEN o.kind = "preserved" ELSE o.kind \in Loss
    BY <2>7 DEF Loss
  <2>11. \/ o.primary = primary /\ primary \notin {} /\ ({} = {} => primary # leaf)
         \/ o.primary = NoTitle
         \/ n > 0 /\ o.primary = Ordered(C)[n]
         \/ o.primary \in {}
    BY <2>7 DEF next
  <2>12. Keeps(c, o, leaf, {}, {}, C, n)
    BY <1>2, <2>3, <2>6, <2>7, <2>8, <2>9, <2>10, <2>11 DEF Keeps, C, N, ev
  <2> QED BY <2>12
<1> HIDE DEF o
<1>3. \/ \E p \in Person, leaf \in Held :
            Active(p) /\ leaf \in sources[p] /\ Uses(c, leaf) /\ o = FusedOutcome(c, p, leaf)
      \/ \E leaf \in Key : Active(leaf) /\ Uses(c, leaf) /\ o = ChainOutcome(c, leaf)
      \/ /\ o = Untouched
         /\ \A p \in Person, leaf \in Held : Active(p) /\ leaf \in sources[p] => ~Uses(c, leaf)
         /\ \A leaf \in Key : Active(leaf) => ~Uses(c, leaf)
  BY OutcomeCases DEF o
<1>4. CASE \E p \in Person, leaf \in Held :
            Active(p) /\ leaf \in sources[p] /\ Uses(c, leaf) /\ o = FusedOutcome(c, p, leaf)
  BY <1>1, <1>4 DEF o
<1>5. CASE \E leaf \in Key : Active(leaf) /\ Uses(c, leaf) /\ o = ChainOutcome(c, leaf)
  BY <1>2, <1>5 DEF o
<1> QED BY <1>3, <1>4, <1>5 DEF o

-----------------------------------------------------------------------------
(* Titles stay earned *)

\* Nothing but what is held has evidence, and that fills its rule's slots.
EarnedBy(ratings, ev) ==
  /\ ev \in [Key -> SUBSET Course]
  /\ \A k \in Professional :
       IF k \in Held THEN ev[k] \subseteq ratings /\ Fills(Asks[title[k].rule], ev[k])
       ELSE ev[k] = {}
  /\ \A k \in Person : ev[k] = {}
  /\ \A j, k \in Key : j # k => ev[j] \cap ev[k] = {}

\* No two active silver or gold titles.
OneOfTier(rows) ==
  \A j, k \in Key :
    j # k /\ rows[j].status = "active" /\ rows[k].status = "active" /\ Tier[j] = Tier[k]
    => Tier[j] = "bronze"

LEMMA EarnedIs ==
  ASSUME evidence \in [Key -> SUBSET Course]
  PROVE  EarnedOK <=> EarnedBy(rated, evidence) /\ OneOfTier(title)
BY DEF EarnedOK, TitlesAreEarned, UniqueRows, EarnedBy, OneOfTier, Fills

LEMMA ReboundEarned ==
  ASSUME TitlesOK, NEW ratings \in SUBSET Course, NEW ev, EarnedBy(ratings, ev),
         NEW leaf \in Leaves
  PROVE  EarnedBy(ratings, Rebound(ratings, ev, leaf))
<1> DEFINE rows == Held \cap Professional
           C == Chain(leaf, rows)
           n == Cardinality(C)
           S == ratings \ Outside(ev, C)
           e2 == Rewritten(ev, C, n, S)
<1>1. /\ rows \in SUBSET Key /\ leaf \in Held /\ leaf \in rows /\ Held \cap Professional \subseteq rows
  BY DEF Leaves, Held
<1>2. /\ C \subseteq Held /\ C \subseteq rows /\ ChainOK(C)
  BY <1>1, ChainFacts
<1>3. /\ n \in Nat /\ \A x \in C : Place(C, x) \in 1..n
  BY <1>1, ChainPlaces
<1>4. \/ Rebound(ratings, ev, leaf) = ev
      \/ Rebound(ratings, ev, leaf) = e2 /\ Eligible(SlotsUpTo(C, n), S)
  BY DEF Rebound
<1>5. S \in SUBSET Course /\ S \subseteq ratings
  OBVIOUS
<1>6. \A k \in Key \ C : ev[k] \cap S = {}
  BY DEF Outside
<1> HIDE DEF C, n, S, e2, rows
<1>7. ASSUME Eligible(SlotsUpTo(C, n), S)
      PROVE  EarnedBy(ratings, e2)
  <2>1. n \in 0..Cardinality(C)
    BY <1>3 DEF n
  <2>2. /\ DOMAIN e2 = Key
        /\ \A k \in Key \ C : e2[k] = ev[k]
        /\ \A k \in C : /\ e2[k] \subseteq S
                        /\ Place(C, k) > n => e2[k] = {}
                        /\ ~(Place(C, k) > n) => Fills(Asks[title[k].rule], e2[k])
        /\ \A j, k \in C : j # k => e2[j] \cap e2[k] = {}
    BY <1>2, <1>5, <1>7, <2>1, RewrittenFills DEF e2
  <2>3. \A k \in C : Fills(Asks[title[k].rule], e2[k])
    BY <1>3, <2>2
  <2>4. e2 = [k \in Key |-> e2[k]]
    BY <2>2 DEF e2, Rewritten
  <2>5. \A k \in Key : e2[k] \in SUBSET Course
    BY <1>5, <2>2 DEF EarnedBy
  <2>6. e2 \in [Key -> SUBSET Course]
    BY <2>4, <2>5
  <2>7. \A k \in Professional : k \in Key /\ k \notin Person
    BY DEF Professional
  <2>8. \A k \in C : k \in Held /\ k \in Professional
    BY <1>2 DEF rows
  <2>9. \A k \in Professional :
          IF k \in Held THEN e2[k] \subseteq ratings /\ Fills(Asks[title[k].rule], e2[k])
          ELSE e2[k] = {}
    BY <1>5, <2>2, <2>3, <2>7, <2>8 DEF EarnedBy
  <2>10. \A k \in Person : e2[k] = {}
    BY <2>2, <2>8, CatalogAssumption DEF EarnedBy, Professional
  <2>11. \A j, k \in Key : j # k => e2[j] \cap e2[k] = {}
    BY <1>6, <2>2 DEF EarnedBy
  <2> QED BY <2>6, <2>9, <2>10, <2>11 DEF EarnedBy
<1> QED BY <1>4, <1>7

\* f rebinds the chains of order one after the other.
IsAfter(ratings, order, m, f) ==
  f = [i \in 0..m |-> IF i = 0 THEN evidence ELSE Rebound(ratings, f[i - 1], order[i])]

LEMMA IsAfterStep ==
  ASSUME NEW ratings, NEW order, NEW m \in Nat, NEW f, IsAfter(ratings, order, m, f)
  PROVE  \E g : IsAfter(ratings, order, m + 1, g)
<1> DEFINE g == [i \in 0..(m + 1) |->
                   IF i = m + 1 THEN Rebound(ratings, f[m], order[m + 1]) ELSE f[i]]
<1>1. \A i \in 0..(m + 1) : i = m + 1 \/ i \in 0..m
  OBVIOUS
<1>2. \A i \in 0..m : /\ f[i] = IF i = 0 THEN evidence ELSE Rebound(ratings, f[i - 1], order[i])
                      /\ i \in 0..(m + 1) /\ i # m + 1
                      /\ i # 0 => i - 1 \in 0..m /\ i - 1 \in 0..(m + 1) /\ i - 1 # m + 1
  BY DEF IsAfter
<1>3. m + 1 # 0 /\ (m + 1) - 1 = m /\ m \in 0..m /\ m # m + 1 /\ m \in 0..(m + 1)
  OBVIOUS
<1>4. g[m] = f[m]
  BY <1>3
<1>5. ASSUME NEW i \in 0..(m + 1)
      PROVE  g[i] = IF i = 0 THEN evidence ELSE Rebound(ratings, g[i - 1], order[i])
  <2>1. CASE i = m + 1
    <3>1. g[i] = Rebound(ratings, f[m], order[i])
      BY <2>1
    <3>2. g[i - 1] = g[m] /\ i # 0
      BY <1>3, <2>1
    <3> QED BY <1>4, <3>1, <3>2
  <2>2. CASE i # m + 1
    <3>1. i \in 0..m
      BY <1>1, <2>2
    <3>2. g[i] = f[i]
      BY <2>2
    <3>3. CASE i = 0
      BY <1>2, <3>1, <3>2, <3>3
    <3>4. CASE i # 0
      <4>1. g[i - 1] = f[i - 1]
        BY <1>2, <3>1, <3>4
      <4> QED BY <1>2, <3>1, <3>2, <3>4, <4>1
    <3> QED BY <3>3, <3>4
  <2> QED BY <2>1, <2>2
<1>6. g = [i \in 0..(m + 1) |-> g[i]]
  OBVIOUS
<1> HIDE DEF g
<1>7. g = [i \in 0..(m + 1) |->
             IF i = 0 THEN evidence ELSE Rebound(ratings, g[i - 1], order[i])]
  BY <1>5, <1>6
<1> QED BY <1>7 DEF IsAfter

LEMMA IsAfterAll ==
  ASSUME NEW ratings, NEW order, NEW n \in Nat
  PROVE  \E f : IsAfter(ratings, order, n, f)
<1> DEFINE T == {m \in Nat : ~\E f : IsAfter(ratings, order, m, f)}
<1>1. SUFFICES ASSUME T # {} PROVE FALSE
  OBVIOUS
<1>2. PICK m \in T : \A l \in T : m <= l
  <2>1. T \in SUBSET Nat
    OBVIOUS
  <2> HIDE DEF T
  <2> QED BY <1>1, <2>1, Smallest
<1>3. m \in Nat /\ ~\E f : IsAfter(ratings, order, m, f)
  OBVIOUS
<1>4. CASE m = 0
  <2> DEFINE g == [i \in 0..0 |-> evidence]
  <2>1. \A i \in 0..0 : i = 0
    OBVIOUS
  <2>2. g = [i \in 0..0 |-> IF i = 0 THEN evidence ELSE Rebound(ratings, g[i - 1], order[i])]
    BY <2>1
  <2> QED BY <1>3, <1>4, <2>2 DEF IsAfter
<1>5. CASE m # 0
  <2>1. m - 1 \in Nat /\ ~(m <= m - 1) /\ (m - 1) + 1 = m
    BY <1>3, <1>5
  <2>2. m - 1 \notin T
    BY <1>2, <2>1
  <2>3. PICK f : IsAfter(ratings, order, m - 1, f)
    BY <2>1, <2>2
  <2> HIDE DEF T
  <2>4. \E g : IsAfter(ratings, order, (m - 1) + 1, g)
    BY <2>1, <2>3, IsAfterStep
  <2> QED BY <1>3, <2>1, <2>4
<1> QED BY <1>4, <1>5

LEMMA ReboundAllIs ==
  ASSUME NEW ratings, NEW order, Len(order) \in Nat
  PROVE  \E f : IsAfter(ratings, order, Len(order), f) /\ ReboundAll(ratings, order) = f[Len(order)]
<1> DEFINE f == CHOOSE f : IsAfter(ratings, order, Len(order), f)
<1>1. IsAfter(ratings, order, Len(order), f)
  BY IsAfterAll
<1>2. ReboundAll(ratings, order) = f[Len(order)]
  BY DEF ReboundAll, IsAfter
<1> QED BY <1>1, <1>2

LEMMA ReboundAllEarned ==
  ASSUME TitlesOK, NEW ratings \in SUBSET Course, EarnedBy(ratings, evidence),
         NEW order \in Orders(Leaves)
  PROVE  EarnedBy(ratings, ReboundAll(ratings, order))
<1> DEFINE n == Len(order)
<1>1. Cardinality(Leaves) \in Nat
  <2>1. Leaves \in SUBSET Key
    BY DEF Leaves, Held
  <2> QED BY <2>1, CatalogAssumption, FS_Subset, FS_CardinalityType
<1>2. n = Cardinality(Leaves) /\ n \in Nat /\ \A i \in 1..n : order[i] \in Leaves
  <2>1. order \in [1..Cardinality(Leaves) -> Leaves]
    BY DEF Orders
  <2>2. order \in Seq(Leaves)
    BY <1>1, <2>1
  <2> QED BY <1>1, <2>1, <2>2
<1> HIDE DEF n
<1>3. PICK f : IsAfter(ratings, order, n, f) /\ ReboundAll(ratings, order) = f[n]
  BY <1>2, ReboundAllIs DEF n
<1>4. \A i \in 0..n : f[i] = IF i = 0 THEN evidence ELSE Rebound(ratings, f[i - 1], order[i])
  BY <1>3 DEF IsAfter
<1> DEFINE T == {i \in 0..n : ~EarnedBy(ratings, f[i])}
<1>5. T = {}
  <2>1. SUFFICES ASSUME T # {} PROVE FALSE
    OBVIOUS
  <2>2. T \in SUBSET Nat
    BY <1>2
  <2>3. PICK i \in T : \A l \in T : i <= l
    <3> HIDE DEF T
    <3> QED BY <2>1, <2>2, Smallest
  <2>4. i \in 0..n /\ ~EarnedBy(ratings, f[i])
    OBVIOUS
  <2>5. i # 0
    BY <1>4, <2>4
  <2>6. i - 1 \in 0..n /\ ~(i <= i - 1) /\ i \in 1..n
    BY <1>2, <2>4, <2>5
  <2>7. EarnedBy(ratings, f[i - 1])
    BY <2>3, <2>6
  <2>8. f[i] = Rebound(ratings, f[i - 1], order[i])
    BY <1>4, <2>4, <2>5
  <2>9. order[i] \in Leaves
    BY <1>2, <2>6
  <2>10. EarnedBy(ratings, Rebound(ratings, f[i - 1], order[i]))
    BY <2>7, <2>9, ReboundEarned
  <2> QED BY <2>4, <2>8, <2>10
<1>6. n \in 0..n
  BY <1>2
<1> QED BY <1>3, <1>5, <1>6

\* What the columns hold that the proofs below need.
Columns ==
  /\ rated \subseteq Course
  /\ evidence \in [Key -> SUBSET Course]
  /\ sources \in [Person -> SUBSET Key]
  /\ enabled \in Catalog

\* It is enough to look at each title after a step.
LEMMA EarnedNext ==
  ASSUME evidence' \in [Key -> SUBSET Course],
         \A k \in Professional :
           IF k \in Held' THEN evidence'[k] \subseteq rated' /\ Fills(Asks[title'[k].rule], evidence'[k])
           ELSE evidence'[k] = {},
         \A k \in Person : evidence'[k] = {},
         \A j, k \in Key : j # k => evidence'[j] \cap evidence'[k] = {},
         OneOfTier(title')
  PROVE  EarnedOK'
<1>1. \A k \in Professional :
        IF k \in Held' THEN /\ evidence'[k] \subseteq rated'
                            /\ Cardinality(evidence'[k]) = Len(Asks[title'[k].rule])
                            /\ CanFill(Asks[title'[k].rule], evidence'[k])
        ELSE evidence'[k] = {}
  BY DEF Fills
<1>2. \A j, k \in Key :
        j # k /\ title'[j].status = "active" /\ title'[k].status = "active" /\ Tier[j] = Tier[k]
        => Tier[j] = "bronze"
  BY DEF OneOfTier
<1> QED BY <1>1, <1>2 DEF EarnedOK, TitlesAreEarned, UniqueRows

LEMMA RedeemEarned ==
  ASSUME TitlesOK, EarnedOK, Columns, NEW r \in Rule, Redeem(r)
  PROVE  EarnedOK'
<1> DEFINE k == KeyOf[r]
           needed == Requires[r]
           free == rated \ Outside(evidence, {})
           new == Selected(Asks[r], free)
<1>1. EarnedBy(rated, evidence) /\ OneOfTier(title)
  BY EarnedIs DEF Columns
<1>2. k \in Professional /\ k \in Key /\ k \notin Held /\ k \notin Person
  BY CatalogAssumption DEF Redeem, Columns, Professional
<1>3. evidence[k] = {}
  BY <1>1, <1>2 DEF EarnedBy
<1>4. free \in SUBSET Course /\ free \subseteq rated /\ \A j \in Key : evidence[j] \cap free = {}
  BY DEF Columns, Outside
<1>5. Fills(Asks[r], new) /\ new \subseteq free
  BY <1>4, SelectedFills, CatalogAssumption DEF Redeem
<1>6. /\ evidence' = [evidence EXCEPT ![k] = @ \cup new]
      /\ title' = [j \in Key |->
                     IF j = k THEN [status |-> "active", rule |-> r]
                     ELSE IF j = needed THEN [title[j] EXCEPT !.status = "superseded"]
                     ELSE title[j]]
      /\ UniqueRows(title', evidence') /\ rated' = rated
      /\ needed # NoTitle => Active(needed)
  BY DEF Redeem
<1> HIDE DEF k, needed, free, new
<1>7. \A j \in Key : evidence'[j] = IF j = k THEN new ELSE evidence[j]
  BY <1>2, <1>3, <1>6 DEF Columns
<1>8. evidence' \in [Key -> SUBSET Course]
  BY <1>2, <1>4, <1>5, <1>6 DEF Columns
<1>9. \A j \in Key : /\ j = k => title'[j].rule = r /\ title'[j].status = "active"
                     /\ j # k => title'[j].rule = title[j].rule
                     /\ j # k /\ j # needed => title'[j] = title[j]
                     /\ j # k /\ j = needed => title'[j].status = "superseded"
  <2> SUFFICES ASSUME NEW j \in Key
               PROVE  /\ j = k => title'[j].rule = r /\ title'[j].status = "active"
                      /\ j # k => title'[j].rule = title[j].rule
                      /\ j # k /\ j # needed => title'[j] = title[j]
                      /\ j # k /\ j = needed => title'[j].status = "superseded"
    OBVIOUS
  <2>1. title[j] \in [status : Status, rule : Rule \cup {NoRule}]
    BY DEF TitlesOK, RowsOK, Row
  <2>2. j = k => title'[j] = [status |-> "active", rule |-> r]
    BY <1>6
  <2>3. j # k /\ j = needed => title'[j] = [title[j] EXCEPT !.status = "superseded"]
    BY <1>6
  <2>4. j # k /\ j # needed => title'[j] = title[j]
    BY <1>6
  <2> QED BY <2>1, <2>2, <2>3, <2>4
<1>10. \A j \in Key : j \in Held' <=> j = k \/ j \in Held
  <2>1. \A j \in Key : j = needed => Active(j)
    BY <1>6, CatalogAssumption
  <2> QED BY <1>9, <2>1 DEF Held, Active
<1>11. \A j \in Professional : j \in Key
  BY DEF Professional
<1>12. \A j \in Professional :
        IF j \in Held' THEN evidence'[j] \subseteq rated' /\ Fills(Asks[title'[j].rule], evidence'[j])
        ELSE evidence'[j] = {}
  BY <1>1, <1>4, <1>5, <1>6, <1>7, <1>9, <1>10, <1>11 DEF EarnedBy
<1>13. \A j \in Person : evidence'[j] = {}
  BY <1>1, <1>2, <1>7, CatalogAssumption DEF EarnedBy
<1>14. /\ \A i, j \in Key : i # j => evidence'[i] \cap evidence'[j] = {}
       /\ OneOfTier(title')
  BY <1>6 DEF UniqueRows, OneOfTier
<1> QED BY <1>8, <1>12, <1>13, <1>14, EarnedNext

LEMMA RevokeEarned ==
  ASSUME TitlesOK, EarnedOK, Columns, NEW k \in Key, Revoke(k)
  PROVE  EarnedOK'
<1> DEFINE C == Chain(k, Exists)
<1>1. EarnedBy(rated, evidence) /\ OneOfTier(title)
  BY EarnedIs DEF Columns
<1>2. /\ title' = [j \in Key |-> IF j \in C THEN [title[j] EXCEPT !.status = "revoked"]
                                 ELSE title[j]]
      /\ evidence' = [j \in Key |-> IF j \in C THEN {} ELSE evidence[j]]
      /\ rated' = rated
  BY DEF Revoke
<1> HIDE DEF C
<1>3. \A j \in Key : /\ title'[j].status = IF j \in C THEN "revoked" ELSE title[j].status
                     /\ title'[j].rule = title[j].rule
  <2> SUFFICES ASSUME NEW j \in Key
               PROVE  /\ title'[j].status = IF j \in C THEN "revoked" ELSE title[j].status
                      /\ title'[j].rule = title[j].rule
    OBVIOUS
  <2>1. title[j] \in [status : Status, rule : Rule \cup {NoRule}]
    BY DEF TitlesOK, RowsOK, Row
  <2>2. j \in C => title'[j] = [title[j] EXCEPT !.status = "revoked"]
    BY <1>2
  <2>3. j \notin C => title'[j] = title[j]
    BY <1>2
  <2> QED BY <2>1, <2>2, <2>3
<1>4. \A j \in Key : j \in Held' <=> j \in Held /\ j \notin C
  BY <1>3 DEF Held
<1>5. evidence' \in [Key -> SUBSET Course]
  BY <1>2 DEF Columns
<1>6. \A j \in Key : evidence'[j] = IF j \in C THEN {} ELSE evidence[j]
  BY <1>2
<1>7. \A j \in Professional : j \in Key
  BY DEF Professional
<1>8. \A j \in Professional :
        IF j \in Held' THEN evidence'[j] \subseteq rated' /\ Fills(Asks[title'[j].rule], evidence'[j])
        ELSE evidence'[j] = {}
  BY <1>1, <1>2, <1>3, <1>4, <1>6, <1>7 DEF EarnedBy
<1>9. \A j \in Person : evidence'[j] = {}
  BY <1>1, <1>6, CatalogAssumption DEF EarnedBy
<1>10. \A i, j \in Key : i # j => evidence'[i] \cap evidence'[j] = {}
  BY <1>1, <1>6 DEF EarnedBy
<1>11. OneOfTier(title')
  BY <1>1, <1>3 DEF OneOfTier
<1> QED BY <1>5, <1>8, <1>9, <1>10, <1>11, EarnedNext

\* Steps that leave the evidence alone.
LEMMA SameEvidence ==
  ASSUME EarnedOK, Columns, evidence' = evidence, rated \subseteq rated',
         \A k \in Professional : /\ k \in Held' <=> k \in Held
                                 /\ k \in Held => title'[k].rule = title[k].rule,
         OneOfTier(title')
  PROVE  EarnedOK'
<1>1. EarnedBy(rated, evidence)
  BY EarnedIs DEF Columns
<1>2. evidence' \in [Key -> SUBSET Course]
  BY DEF Columns
<1>3. \A k \in Professional :
           IF k \in Held' THEN evidence'[k] \subseteq rated' /\ Fills(Asks[title'[k].rule], evidence'[k])
           ELSE evidence'[k] = {}
  BY <1>1 DEF EarnedBy
<1>4. /\ \A k \in Person : evidence'[k] = {}
      /\ \A j, k \in Key : j # k => evidence'[j] \cap evidence'[k] = {}
  BY <1>1 DEF EarnedBy
<1> QED BY <1>2, <1>3, <1>4, EarnedNext

LEMMA FuseEarned ==
  ASSUME TitlesOK, EarnedOK, Columns, NEW f \in Recipe, NEW b \in BOOLEAN, Fuse(f, b)
  PROVE  EarnedOK'
<1> DEFINE p == f.target
           S == f.sources
<1>1. PICK r \in Rule :
        title' = [k \in Key |->
                      IF k = p THEN [status |-> "active", rule |-> r]
                      ELSE IF k \in S THEN [title[k] EXCEPT !.status = "superseded"]
                      ELSE title[k]]
  BY DEF Fuse
<1>2. /\ \A k \in S : Active(k)
      /\ \A k \in Key \ S : Active(k) => Tier[k] # "gold"
      /\ evidence' = evidence /\ rated' = rated
  BY DEF Fuse
<1>3. p \in Person /\ Tier[p] = "gold" /\ \A k \in Professional : k \in Key /\ k # p
  BY TierAssumption DEF Professional
<1> HIDE DEF p, S
<1>4. \A j \in Key \ {p} : /\ title'[j].status = IF j \in S THEN "superseded" ELSE title[j].status
                           /\ title'[j].rule = title[j].rule
  <2> SUFFICES ASSUME NEW j \in Key, j # p
               PROVE  /\ title'[j].status = IF j \in S THEN "superseded" ELSE title[j].status
                      /\ title'[j].rule = title[j].rule
    OBVIOUS
  <2>1. title[j] \in [status : Status, rule : Rule \cup {NoRule}]
    BY DEF TitlesOK, RowsOK, Row
  <2>2. j \in S => title'[j] = [title[j] EXCEPT !.status = "superseded"]
    BY <1>1
  <2>3. j \notin S => title'[j] = title[j]
    BY <1>1
  <2> QED BY <2>1, <2>2, <2>3
<1>5. \A k \in Professional : /\ k \in Held' <=> k \in Held
                              /\ k \in Held => title'[k].rule = title[k].rule
  BY <1>2, <1>3, <1>4 DEF Held, Active
<1>6. OneOfTier(title)
  BY EarnedIs DEF Columns
<1>7. OneOfTier(title')
  <2>1. \A j \in Key \ {p} :
          title'[j].status = "active" => Tier[j] # "gold" /\ title[j].status = "active"
    BY <1>2, <1>4 DEF Active
  <2> QED BY <1>3, <1>6, <2>1 DEF OneOfTier
<1> QED BY <1>2, <1>5, <1>7, SameEvidence

LEMMA DismantleEarned ==
  ASSUME TitlesOK, EarnedOK, Columns, NEW p \in Person, Dismantle(p)
  PROVE  EarnedOK'
<1> DEFINE S == sources[p]
<1>1. /\ title' = [k \in Key |-> IF k = p THEN [title[k] EXCEPT !.status = "revoked"]
                                 ELSE IF k \in S THEN [title[k] EXCEPT !.status = "active"]
                                 ELSE title[k]]
      /\ evidence' = evidence /\ rated' = rated
      /\ UniqueRows(title', evidence')
      /\ Active(p)
  BY DEF Dismantle, Dismantled
<1>2. \A k \in S : title[k].status = "superseded"
  BY <1>1 DEF TitlesOK, Fusions
<1> HIDE DEF S
<1>3. \A j \in Professional : /\ title'[j].status = IF j \in S THEN "active" ELSE title[j].status
                              /\ title'[j].rule = title[j].rule
                              /\ j \in Key
  <2> SUFFICES ASSUME NEW j \in Professional
               PROVE  /\ title'[j].status = IF j \in S THEN "active" ELSE title[j].status
                      /\ title'[j].rule = title[j].rule
                      /\ j \in Key
    OBVIOUS
  <2>1. j \in Key /\ j # p
    BY DEF Professional
  <2>2. title[j] \in [status : Status, rule : Rule \cup {NoRule}]
    BY <2>1 DEF TitlesOK, RowsOK, Row
  <2>3. j \in S => title'[j] = [title[j] EXCEPT !.status = "active"]
    BY <1>1, <2>1
  <2>4. j \notin S => title'[j] = title[j]
    BY <1>1, <2>1
  <2> QED BY <2>1, <2>2, <2>3, <2>4
<1>4. \A k \in Professional : /\ k \in Held' <=> k \in Held
                              /\ k \in Held => title'[k].rule = title[k].rule
  BY <1>2, <1>3 DEF Held
<1>5. OneOfTier(title')
  BY <1>1 DEF UniqueRows, OneOfTier
<1> QED BY <1>1, <1>4, <1>5, SameEvidence

LEMMA SubmitEarned ==
  ASSUME TitlesOK, EarnedOK, Columns, NEW p \in Call, call[p].course \in Course, Submit(p)
  PROVE  EarnedOK'
<1>1. EarnedBy(rated, evidence) /\ OneOfTier(title)
  BY EarnedIs DEF Columns
<1> DEFINE ratings == rated \cup {call[p].course}
<1>2. PICK order \in Orders(Leaves) : evidence' = ReboundAll(ratings, order)
  BY DEF Submit
<1>3. rated' = ratings /\ title' = title /\ ratings \in SUBSET Course /\ rated \subseteq ratings
  BY DEF Submit, Columns
<1> HIDE DEF ratings
<1>4. EarnedBy(ratings, evidence)
  BY <1>1, <1>3 DEF EarnedBy
<1>5. EarnedBy(ratings, evidence')
  BY <1>2, <1>3, <1>4, ReboundAllEarned
<1>6. Held' = Held /\ OneOfTier(title')
  BY <1>1, <1>3 DEF Held
<1> QED BY <1>3, <1>5, <1>6, EarnedNext DEF EarnedBy

LEMMA ClearRatingEarned ==
  ASSUME EarnedOK, Columns, NEW p \in Call, ClearRating(p)
  PROVE  EarnedOK'
<1>1. EarnedBy(rated, evidence) /\ OneOfTier(title)
  BY EarnedIs DEF Columns
<1>2. evidence' = evidence /\ title' = title
  BY DEF ClearRating, titleVars
<1>3. Held' = Held /\ OneOfTier(title')
  BY <1>1, <1>2 DEF Held
<1>4. \A k \in Key : evidence[k] \subseteq rated => evidence[k] \subseteq rated'
  BY DEF ClearRating
<1>5. \A k \in Professional :
           IF k \in Held' THEN evidence'[k] \subseteq rated' /\ Fills(Asks[title'[k].rule], evidence'[k])
           ELSE evidence'[k] = {}
  BY <1>1, <1>2, <1>3, <1>4 DEF EarnedBy, Professional
<1>6. /\ \A k \in Person : evidence'[k] = {}
      /\ \A j, k \in Key : j # k => evidence'[j] \cap evidence'[k] = {}
      /\ evidence' \in [Key -> SUBSET Course]
  BY <1>1, <1>2 DEF EarnedBy
<1> QED BY <1>3, <1>5, <1>6, EarnedNext

-----------------------------------------------------------------------------
(* Where a chain ends *)

\* k stands in the chain of an active title, of a source of one or of one left behind.
Shown(k) ==
  \/ \E j \in Key : Active(j) /\ k \in Chain(j, Held)
  \/ \E p \in Person : Active(p) /\ \E j \in sources[p] : j \in Held /\ k \in Chain(j, Held)
  \/ \E j \in stranded : j \in Held /\ k \in Chain(j, Held)

LEMMA ShownNext ==
  ASSUME TitlesOK, NEW i \in Held, Shown(i), NEW k \in Held, Prerequisite(i) = k
  PROVE  Shown(k)
<1>1. \A j \in Held : i \in Chain(j, Held) => k \in Chain(j, Held)
  BY ChainBasics DEF Closed
<1>2. \A j \in Key : Active(j) => j \in Held
  BY ActiveFacts
<1> QED BY <1>1, <1>2 DEF Shown

LEMMA HeldShown ==
  ASSUME TitlesOK, NEW k \in Held
  PROVE  Shown(k)
<1>1. \A j \in Held : j \in Key /\ Grade(j) \in 0..2 /\ j \in Chain(j, Held)
  BY GradeType, ChainBasics DEF Held
<1>2. ASSUME NEW j \in Held
      PROVE  Shown(j) \/ \E i \in Held : Prerequisite(i) = j /\ Grade(j) < Grade(i)
  <2>1. CASE Active(j)
    BY <1>1, <2>1 DEF Shown
  <2>2. CASE ~Active(j)
    <3>1. title[j].status = "superseded" /\ j \in Key
      BY <2>2 DEF Held, Active
    <3>2. \/ \E i \in Held : Prerequisite(i) = j
          \/ \E p \in Person : Active(p) /\ j \in sources[p]
          \/ j \in stranded
      BY <3>1 DEF TitlesOK, Forest
    <3>3. ASSUME NEW i \in Held, Prerequisite(i) = j PROVE Grade(j) < Grade(i)
      <4>1. j # NoTitle
        BY <3>1, CatalogAssumption
      <4> QED BY <1>1, <3>3, <4>1, PrerequisiteGrade DEF TitlesOK
    <3>4. ASSUME NEW p \in Person, Active(p), j \in sources[p] PROVE Shown(j)
      BY <1>1, <3>4 DEF Shown
    <3>5. j \in stranded => Shown(j)
      BY <1>1 DEF Shown
    <3> QED BY <3>2, <3>3, <3>4, <3>5
  <2> QED BY <2>1, <2>2
<1>3. \A j \in Held : Grade(j) = 2 => Shown(j)
  BY <1>1, <1>2
<1>4. \A j \in Held : Grade(j) = 1 => Shown(j)
  <2> SUFFICES ASSUME NEW j \in Held, Grade(j) = 1, ~Shown(j) PROVE FALSE
    OBVIOUS
  <2>1. PICK i \in Held : Prerequisite(i) = j /\ Grade(j) < Grade(i)
    BY <1>2
  <2>2. Grade(i) = 2
    BY <1>1, <2>1
  <2> QED BY <1>3, <2>1, <2>2, ShownNext
<1>5. \A j \in Held : Grade(j) = 0 => Shown(j)
  <2> SUFFICES ASSUME NEW j \in Held, Grade(j) = 0, ~Shown(j) PROVE FALSE
    OBVIOUS
  <2>1. PICK i \in Held : Prerequisite(i) = j /\ Grade(j) < Grade(i)
    BY <1>2
  <2>2. Grade(i) = 2 \/ Grade(i) = 1
    BY <1>1, <2>1
  <2> QED BY <1>3, <1>4, <2>1, <2>2, ShownNext
<1> QED BY <1>1, <1>3, <1>4, <1>5

LEMMA Orphans ==
  ASSUME TitlesOK
  PROVE  NothingOrphaned
<1>1. \A k \in Key : title[k].status = "superseded" => Shown(k)
  BY HeldShown DEF Held
<1> QED BY <1>1 DEF NothingOrphaned, Shown, Left

-----------------------------------------------------------------------------
(* What the deletion of a rating leaves *)

\* Whatever the outcome, no title is earned with the rating any more, every title
\* that is left is, and the indexes hold.
AfterDeletion(c, o) ==
  /\ o.evidence \in [Key -> SUBSET Course]
  /\ \A k \in Key : c \notin o.evidence[k]
  /\ \A k \in Professional :
       IF o.title[k].status \in {"active", "superseded"}
       THEN o.evidence[k] \subseteq rated /\ Fills(Asks[o.title[k].rule], o.evidence[k])
       ELSE o.evidence[k] = {}
  /\ \A k \in Person : o.evidence[k] = {}
  /\ \A j, k \in Key : j # k => o.evidence[j] \cap o.evidence[k] = {}
  /\ OneOfTier(o.title)

\* The rows that Lowered gives, key by key.
LEMMA LoweredRows ==
  ASSUME TitlesOK, NEW C, NEW n, NEW P, NEW others, NEW k \in Key
  PROVE  LET row == Lowered(C, n, P, others)[k]
         IN  /\ row.rule = title[k].rule
             /\ row.status = IF k \in P THEN "revoked"
                             ELSE IF k \in others THEN "active"
                             ELSE IF k \notin C THEN title[k].status
                             ELSE IF Place(C, k) = n THEN "active"
                             ELSE IF Place(C, k) < n THEN "superseded" ELSE "revoked"
<1>1. title[k] \in [status : Status, rule : Rule \cup {NoRule}]
  BY DEF TitlesOK, RowsOK, Row
<1>2. k \in P => Lowered(C, n, P, others)[k] = [title[k] EXCEPT !.status = "revoked"]
  BY DEF Lowered
<1>3. k \notin P /\ k \in others => Lowered(C, n, P, others)[k] = [title[k] EXCEPT !.status = "active"]
  BY DEF Lowered
<1>4. k \notin P /\ k \notin others /\ k \notin C => Lowered(C, n, P, others)[k] = title[k]
  BY DEF Lowered, Demoted
<1>5. k \notin P /\ k \notin others /\ k \in C =>
        Lowered(C, n, P, others)[k] =
          [title[k] EXCEPT !.status = IF Place(C, k) = n THEN "active"
                                      ELSE IF Place(C, k) < n THEN "superseded"
                                      ELSE "revoked"]
  BY DEF Lowered, Demoted
<1> QED BY <1>1, <1>2, <1>3, <1>4, <1>5

\* The titles a person title was fused from are bronze where there are two of them.
LEMMA OthersBronze ==
  ASSUME TitlesOK, NEW leaf, NEW P, NEW others, LeafOf(leaf, P, others)
  PROVE  \A k \in others : Tier[k] = "bronze"
<1>1. \A p \in Person : Active(p) => Shaped(sources[p])
  BY DEF TitlesOK, Fusions
<1> QED BY <1>1 DEF LeafOf, Shaped

LEMMA KeptTitles ==
  ASSUME TitlesOK, EarnedOK, Columns, NEW c \in Course,
         NEW o, NEW leaf, NEW P, NEW others, NEW C, NEW n, Keeps(c, o, leaf, P, others, C, n)
  PROVE  AfterDeletion(c, o)
<1> DEFINE N == Cardinality(C)
           S == Candidates(c, C)
<1>1. EarnedBy(rated, evidence) /\ OneOfTier(title)
  BY EarnedIs DEF Columns
<1>2. /\ LeafOf(leaf, P, others) /\ C = Chain(leaf, Held) /\ Uses(c, leaf)
      /\ n \in 0..N /\ (n > 0 => Eligible(SlotsUpTo(C, n), S))
      /\ o.evidence = Rewritten(evidence, C, n, S)
      /\ \/ /\ P # {} /\ n = N /\ o.title = title
         \/ /\ P = {} \/ n # N
            /\ o.title = Lowered(C, n, P, others)
  BY DEF Keeps
<1>3. leaf \in Held /\ Held \in SUBSET Key /\ Held \cap Professional \subseteq Held
  BY <1>2, LeafFacts DEF Held
<1>4. /\ leaf \in C /\ C \subseteq Held /\ ChainOK(C) /\ Distinct(C)
      /\ \A x \in C \ {leaf} : /\ title[x].status = "superseded" /\ x \in Professional
                               /\ \E y \in C : Prerequisite(y) = x
  BY <1>2, <1>3, ChainFacts DEF ChainOK
<1>5. leaf \in Professional /\ \A x \in C : x \in Professional
  BY <1>2, <1>4 DEF LeafOf
<1>6. /\ N \in Nat /\ N > 0 /\ Place(C, leaf) = N
      /\ \A x \in C : Place(C, x) \in 1..N
      /\ \A x \in C : Place(C, x) = N => x = leaf
  BY <1>2, <1>3, ChainPlaces
<1>7. S \in SUBSET Course /\ S \subseteq rated /\ c \notin S
  BY DEF Candidates, Columns
<1>8. \A k \in Key \ C : evidence[k] \cap S = {}
  BY DEF Candidates, Outside
<1> HIDE DEF N, S
<1>9. /\ DOMAIN o.evidence = Key
      /\ \A k \in Key \ C : o.evidence[k] = evidence[k]
      /\ \A k \in C : /\ o.evidence[k] \subseteq S
                      /\ Place(C, k) > n => o.evidence[k] = {}
                      /\ ~(Place(C, k) > n) => Fills(Asks[title[k].rule], o.evidence[k])
      /\ \A j, k \in C : j # k => o.evidence[j] \cap o.evidence[k] = {}
  <2>1. n \in 0..Cardinality(C) /\ (n > 0 => Eligible(SlotsUpTo(C, n), S))
    BY <1>2 DEF N
  <2> QED BY <1>2, <1>4, <1>7, <2>1, RewrittenFills
<1>10. o.evidence \in [Key -> SUBSET Course]
  <2>1. o.evidence = [k \in Key |-> o.evidence[k]]
    BY <1>2, <1>9 DEF Rewritten
  <2>2. \A k \in Key : o.evidence[k] \in SUBSET Course
    BY <1>1, <1>7, <1>9 DEF EarnedBy
  <2> QED BY <2>1, <2>2
<1>11. \A k \in Key : c \notin o.evidence[k]
  <2>1. PICK i \in C : c \in evidence[i]
    BY <1>2 DEF Uses
  <2>2. \A k \in Key \ C : c \notin evidence[k]
    BY <1>1, <1>3, <1>4, <2>1 DEF EarnedBy
  <2> QED BY <1>7, <1>9, <2>2
<1>12. /\ \A j \in P : j \in Person /\ j \in Key /\ j \notin Professional /\ Active(j)
       /\ \A j \in others : /\ j \in Professional /\ j \in Key /\ title[j].status = "superseded"
                            /\ \A i \in Held : Prerequisite(i) # j
                            /\ j # leaf
       /\ \A i \in Held : Prerequisite(i) # leaf
       /\ \A p \in P : sources[p] = {leaf} \cup others
  BY <1>2, LeafFacts
<1>13. /\ \A j \in P : j \notin C
       /\ \A j \in others : j \notin C /\ j \notin P
  BY <1>4, <1>5, <1>12
<1>14. \A k \in Key :
         /\ o.title[k].rule = title[k].rule
         /\ k \in C => (o.title[k].status \in {"active", "superseded"} <=> ~(Place(C, k) > n))
         /\ k \notin C /\ k \in Professional =>
              (o.title[k].status \in {"active", "superseded"} <=> k \in Held)
  <2>1. CASE P # {} /\ n = N /\ o.title = title
    <3>1. \A k \in C : ~(Place(C, k) > n) /\ title[k].status \in {"active", "superseded"}
      BY <1>4, <1>6, <2>1 DEF Held
    <3> QED BY <2>1, <3>1 DEF Held
  <2>2. CASE o.title = Lowered(C, n, P, others)
    <3> SUFFICES ASSUME NEW k \in Key
                 PROVE  /\ o.title[k].rule = title[k].rule
                        /\ k \in C => (o.title[k].status \in {"active", "superseded"} <=> ~(Place(C, k) > n))
                        /\ k \notin C /\ k \in Professional =>
                             (o.title[k].status \in {"active", "superseded"} <=> k \in Held)
      OBVIOUS
    <3>1. /\ o.title[k].rule = title[k].rule
          /\ o.title[k].status = IF k \in P THEN "revoked"
                             ELSE IF k \in others THEN "active"
                             ELSE IF k \notin C THEN title[k].status
                             ELSE IF Place(C, k) = n THEN "active"
                             ELSE IF Place(C, k) < n THEN "superseded" ELSE "revoked"
      BY <2>2, LoweredRows
    <3>2. CASE k \in C
      <4>1. k \notin P /\ k \notin others /\ Place(C, k) \in 1..N /\ n \in 0..N
        BY <1>2, <1>6, <1>13, <3>2
      <4> QED BY <1>6, <3>1, <3>2, <4>1
    <3>3. CASE k \notin C
      <4>1. k \in Professional => k \notin P
        BY <1>12
      <4>2. k \in others => k \in Held
        BY <1>12 DEF Held
      <4> QED BY <3>1, <3>3, <4>1, <4>2 DEF Held
    <3> QED BY <3>1, <3>2, <3>3
  <2> QED BY <1>2, <2>1, <2>2
<1>15. \A k \in Professional :
         IF o.title[k].status \in {"active", "superseded"}
         THEN o.evidence[k] \subseteq rated /\ Fills(Asks[o.title[k].rule], o.evidence[k])
         ELSE o.evidence[k] = {}
  <2> SUFFICES ASSUME NEW k \in Professional
               PROVE  IF o.title[k].status \in {"active", "superseded"}
                      THEN o.evidence[k] \subseteq rated /\ Fills(Asks[o.title[k].rule], o.evidence[k])
                      ELSE o.evidence[k] = {}
    OBVIOUS
  <2>1. k \in Key
    BY DEF Professional
  <2>2. CASE k \in C
    BY <1>7, <1>9, <1>14, <2>1, <2>2
  <2>3. CASE k \notin C
    BY <1>1, <1>9, <1>14, <2>1, <2>3 DEF EarnedBy
  <2> QED BY <2>2, <2>3
<1>16. \A k \in Person : o.evidence[k] = {}
  BY <1>1, <1>5, <1>9, CatalogAssumption DEF EarnedBy, Professional
<1>17. \A j, k \in Key : j # k => o.evidence[j] \cap o.evidence[k] = {}
  BY <1>1, <1>8, <1>9 DEF EarnedBy
<1>18. OneOfTier(o.title)
  <2>1. CASE P # {} /\ n = N /\ o.title = title
    BY <1>1, <2>1
  <2>2. CASE (P = {} \/ n # N) /\ o.title = Lowered(C, n, P, others)
    <3>1. \A k \in Key :
            o.title[k].status = "active" =>
              \/ k \in C /\ n > 0 /\ Place(C, k) = n /\ k = Ordered(C)[n]
              \/ k \in others
              \/ k \notin C /\ k \notin P /\ k # leaf /\ Active(k)
      <4> SUFFICES ASSUME NEW k \in Key, o.title[k].status = "active"
                   PROVE  \/ k \in C /\ n > 0 /\ Place(C, k) = n /\ k = Ordered(C)[n]
                          \/ k \in others
                          \/ k \notin C /\ k \notin P /\ k # leaf /\ Active(k)
        OBVIOUS
      <4>1. o.title[k].status = IF k \in P THEN "revoked"
                             ELSE IF k \in others THEN "active"
                             ELSE IF k \notin C THEN title[k].status
                             ELSE IF Place(C, k) = n THEN "active"
                             ELSE IF Place(C, k) < n THEN "superseded" ELSE "revoked"
        BY <2>2, LoweredRows
      <4>2. CASE k \in C
        <5>1. k \in others \/ Place(C, k) = n
          BY <4>1, <4>2
        <5>2. C \in SUBSET Key
          BY <1>3, <1>4
        <5>3. Ordered(C)[Place(C, k)] = k
          BY <1>4, <4>2, <5>2, OrderedIs
        <5>4. Place(C, k) > 0
          BY <1>6, <4>2
        <5> QED BY <4>2, <5>1, <5>3, <5>4
      <4>3. CASE k \notin C
        BY <1>4, <4>1, <4>3 DEF Active
      <4> QED BY <4>2, <4>3
    <3>2. \A k \in others : Tier[k] = "bronze"
      BY <1>2, OthersBronze
    <3>3. \A k \in Key :
            n > 0 /\ k \notin C /\ k \notin P /\ k # leaf /\ Active(k) /\ Tier[k] = Tier[Ordered(C)[n]]
            => Tier[k] = "bronze"
      <4>1. CASE n # N
        BY <4>1 DEF Keeps, N
      <4>2. CASE n = N
        <5>1. P = {}
          BY <2>2, <4>2
        <5>2. Active(leaf) /\ leaf \in Key
          BY <1>2, <1>3, <5>1 DEF LeafOf
        <5>3. Ordered(C)[n] = leaf
          BY <1>2, <1>3, <4>2, ChainPlaces DEF N
        <5> QED BY <1>1, <5>2, <5>3 DEF OneOfTier, Active
      <4> QED BY <4>1, <4>2
    <3>4. \A j, k \in Key :
            j # k /\ Active(j) /\ Active(k) /\ Tier[j] = Tier[k] => Tier[j] = "bronze"
      BY <1>1 DEF OneOfTier, Active
    <3> SUFFICES ASSUME NEW j \in Key, NEW k \in Key, j # k,
                        o.title[j].status = "active", o.title[k].status = "active",
                        Tier[j] = Tier[k]
                 PROVE  Tier[j] = "bronze"
      BY DEF OneOfTier
    <3>5. CASE j \in others \/ k \in others
      BY <3>2, <3>5
    <3>6. CASE j \notin others /\ k \notin others
      <4>1. CASE j \in C
        <5>1. k \notin C
          BY <3>1, <3>6, <4>1
        <5> QED BY <3>1, <3>3, <3>6, <4>1, <5>1
      <4>2. CASE j \notin C /\ k \in C
        BY <3>1, <3>3, <3>6, <4>2
      <4>3. CASE j \notin C /\ k \notin C
        BY <3>1, <3>4, <3>6, <4>3
      <4> QED BY <4>1, <4>2, <4>3
    <3> QED BY <3>5, <3>6
  <2> QED BY <1>2, <2>1, <2>2
<1> QED BY <1>10, <1>11, <1>15, <1>16, <1>17, <1>18 DEF AfterDeletion

LEMMA OutcomeEarned ==
  ASSUME TitlesOK, EarnedOK, Columns, NEW c \in Course,
         \/ \A k \in Left : c \notin evidence[k]
         \/ \A k \in Key : c \notin Outcome(c).evidence[k]
  PROVE  AfterDeletion(c, Outcome(c))
<1>1. \/ \E leaf, P, others, C, n : Keeps(c, Outcome(c), leaf, P, others, C, n)
      \/ /\ Outcome(c) = Untouched
         /\ \A p \in Person, leaf \in Held : Active(p) /\ leaf \in sources[p] => ~Uses(c, leaf)
         /\ \A leaf \in Key : Active(leaf) => ~Uses(c, leaf)
  BY OutcomeIs DEF Columns
<1>2. ASSUME Outcome(c) = Untouched,
             \A p \in Person, leaf \in Held : Active(p) /\ leaf \in sources[p] => ~Uses(c, leaf),
             \A leaf \in Key : Active(leaf) => ~Uses(c, leaf)
      PROVE  AfterDeletion(c, Outcome(c))
  <2>1. EarnedBy(rated, evidence) /\ OneOfTier(title)
    BY EarnedIs DEF Columns
  <2>2. \A k \in Key : c \notin evidence[k]
    <3> SUFFICES ASSUME NEW k \in Key, c \in evidence[k], \A j \in Left : c \notin evidence[j]
                 PROVE  FALSE
      BY <1>2 DEF Untouched
    <3>1. k \in Held
      BY <2>1 DEF EarnedBy, Professional
    <3>2. Shown(k)
      BY <3>1, HeldShown
    <3> QED BY <1>2, <3>2 DEF Shown, Uses, Left
  <2>3. /\ Outcome(c).title = title /\ Outcome(c).evidence = evidence
    BY <1>2 DEF Untouched
  <2> QED BY <2>1, <2>2, <2>3 DEF AfterDeletion, EarnedBy, Held, Professional
<1>3. ASSUME NEW leaf, NEW P, NEW others, NEW C, NEW n, Keeps(c, Outcome(c), leaf, P, others, C, n)
      PROVE  AfterDeletion(c, Outcome(c))
  BY <1>3, KeptTitles
<1> QED BY <1>1, <1>2, <1>3

-----------------------------------------------------------------------------
(* The inductive invariant *)

\* What a call in progress remembers belongs together.
CallsOK ==
  \A p \in Call :
    /\ call[p].step \in {"submit", "confirm", "recompute", "clearReviews", "clearRating"}
         => call[p].course \in Course
    /\ call[p].step = "submit" =>
         IF call[p].seen = {} THEN call[p].found = NoReview ELSE call[p].found \in call[p].seen

IInv == TypeOK /\ TitlesOK /\ EarnedOK /\ CallsOK

LEMMA TypeColumns ==
  ASSUME TypeOK
  PROVE  Columns
BY DEF TypeOK, Columns

\* The deletion goes through: nothing refers to the rating any more.
Deleted(c, o) ==
  /\ \A k \in Key : c \notin o.evidence[k]
  /\ rated' = rated \ {c} /\ reviews' = [reviews EXCEPT ![c] = {}]
  /\ title' = o.title /\ evidence' = o.evidence /\ sources' = o.sources /\ primary' = o.primary
  /\ stranded' = stranded

LEMMA DeletedTitles ==
  ASSUME TitlesOK, EarnedOK, Columns, NEW c \in Course, Deleted(c, Outcome(c))
  PROVE  TitlesOK'
<1> DEFINE o == Outcome(c)
<1>1. \/ \E leaf, P, others, C, n : Keeps(c, o, leaf, P, others, C, n)
      \/ o = Untouched
  BY OutcomeIs DEF Columns
<1>2. title' = o.title /\ sources' = o.sources /\ stranded' = stranded
  BY DEF Deleted
<1> HIDE DEF o
<1>3. ASSUME title' = title, sources' = sources, stranded' = stranded
      PROVE  TitlesOK'
  <2>1. Held' = Held /\ (\A k \in Key : Prerequisite(k)' = Prerequisite(k))
    BY <1>3 DEF Held, Prerequisite
  <2> QED BY <1>3, <2>1 DEF TitlesOK, RowsOK, Forest, Fusions, LeftBehind, Active, Held,
                              Prerequisite
<1>4. ASSUME o = Untouched
      PROVE  TitlesOK'
  BY <1>2, <1>3, <1>4 DEF Untouched
<1>5. ASSUME NEW leaf, NEW P, NEW others, NEW C, NEW n, Keeps(c, o, leaf, P, others, C, n)
      PROVE  TitlesOK'
  <2>1. /\ LeafOf(leaf, P, others) /\ C = Chain(leaf, Held) /\ n \in 0..Cardinality(C)
        /\ \/ o.title = title /\ o.sources = sources
           \/ /\ o.title = Lowered(C, n, P, others)
              /\ \A q \in Person : o.sources[q] = IF q \in P THEN {} ELSE sources[q]
    BY <1>5 DEF Keeps
  <2>2. CASE o.title = title /\ o.sources = sources
    BY <1>2, <1>3, <2>2
  <2>3. CASE /\ o.title = Lowered(C, n, P, others)
             /\ \A q \in Person : o.sources[q] = IF q \in P THEN {} ELSE sources[q]
    <3>1. /\ title' = [k \in Key |->
                     IF k \in P THEN [title[k] EXCEPT !.status = "revoked"]
                     ELSE IF k \in others THEN [title[k] EXCEPT !.status = "active"]
                     ELSE Demoted(C, n)[k]]
      BY <1>2, <2>3 DEF Lowered
    <3>2. \A q \in Person : sources'[q] = IF q \in P THEN {} ELSE sources[q]
      BY <1>2, <2>3
    <3> QED BY <1>2, <2>1, <3>1, <3>2, DemoteTitles
  <2> QED BY <2>1, <2>2, <2>3
<1> QED BY <1>1, <1>4, <1>5

LEMMA DeletedEarned ==
  ASSUME TitlesOK, EarnedOK, Columns, NEW c \in Course, Deleted(c, Outcome(c))
  PROVE  EarnedOK'
<1> DEFINE o == Outcome(c)
<1>1. AfterDeletion(c, o)
  BY OutcomeEarned DEF Deleted
<1>2. title' = o.title /\ evidence' = o.evidence /\ rated' = rated \ {c}
  BY DEF Deleted
<1> HIDE DEF o
<1>3. \A k \in Professional : k \in Key /\ (k \in Held' <=> title'[k].status \in {"active", "superseded"})
  BY DEF Held, Professional
<1>4. \A k \in Professional :
           IF k \in Held' THEN evidence'[k] \subseteq rated' /\ Fills(Asks[title'[k].rule], evidence'[k])
           ELSE evidence'[k] = {}
  BY <1>1, <1>2, <1>3 DEF AfterDeletion
<1>5. /\ evidence' \in [Key -> SUBSET Course]
      /\ \A k \in Person : evidence'[k] = {}
      /\ \A j, k \in Key : j # k => evidence'[j] \cap evidence'[k] = {}
      /\ OneOfTier(title')
  BY <1>1, <1>2 DEF AfterDeletion
<1> QED BY <1>4, <1>5, EarnedNext

LEMMA DeleteRatedIs ==
  ASSUME NEW p \in Call, DeleteRated(p)
  PROVE  \/ Deleted(call[p].course, Outcome(call[p].course))
         \/ UNCHANGED <<rated, reviews, titleVars>>
BY DEF DeleteRated, Deleted, Commits

\* The types of what a deletion leaves.
LEMMA DeletedType ==
  ASSUME TypeOK, TitlesOK, EarnedOK, NEW c \in Course, Deleted(c, Outcome(c))
  PROVE  /\ evidence' \in [Key -> SUBSET Course]
         /\ sources' \in [Person -> SUBSET Key]
         /\ primary' \in Key \cup {NoTitle}
<1> DEFINE o == Outcome(c)
<1>0. Columns
  BY TypeColumns
<1>1. AfterDeletion(c, o)
  BY <1>0, OutcomeEarned DEF Deleted
<1>2. \/ \E leaf, P, others, C, n : Keeps(c, o, leaf, P, others, C, n)
      \/ o = Untouched
  BY <1>0, OutcomeIs DEF Columns
<1>3. evidence' = o.evidence /\ sources' = o.sources /\ primary' = o.primary
  BY DEF Deleted
<1> HIDE DEF o
<1>4. ASSUME o = Untouched
      PROVE  sources' \in [Person -> SUBSET Key] /\ primary' \in Key \cup {NoTitle}
  BY <1>3, <1>4 DEF Untouched, TypeOK
<1>5. ASSUME NEW leaf, NEW P, NEW others, NEW C, NEW n, Keeps(c, o, leaf, P, others, C, n)
      PROVE  sources' \in [Person -> SUBSET Key] /\ primary' \in Key \cup {NoTitle}
  <2>1. /\ LeafOf(leaf, P, others) /\ C = Chain(leaf, Held) /\ n \in 0..Cardinality(C)
        /\ \/ o.sources = sources
           \/ o.sources \in [Person -> SUBSET Key]
        /\ \/ o.primary = primary \/ o.primary = NoTitle
           \/ n > 0 /\ o.primary = Ordered(C)[n]
           \/ o.primary \in others
    BY <1>5 DEF Keeps
  <2>2. leaf \in Held /\ Held \in SUBSET Key /\ (\A j \in others : j \in Key)
    BY <2>1, LeafFacts DEF Held
  <2>3. C \in SUBSET Key /\ Ordered(C) \in [1..Cardinality(C) -> C] /\ Cardinality(C) \in Nat
    BY <2>1, <2>2, ChainPlaces
  <2>4. n > 0 => n \in 1..Cardinality(C)
    BY <2>1, <2>3
  <2>5. n > 0 => Ordered(C)[n] \in Key
    BY <2>3, <2>4
  <2> QED BY <1>3, <2>1, <2>2, <2>5 DEF TypeOK
<1> QED BY <1>1, <1>2, <1>3, <1>4, <1>5 DEF AfterDeletion

-----------------------------------------------------------------------------
(* The columns keep their types *)

LEMMA IdleType ==
  IdleCall \in CallRecord
BY DEF IdleCall, CallRecord, Impact

LEMMA RowsAfterType ==
  ASSUME NEW rows \in SUBSET ReviewRow, NEW found \in Review \cup {NoReview},
         NEW t \in Text \cup {NoText}, found = NoReview /\ t # NoText => FreshReviews # {}
  PROVE  RowsAfter(rows, found, t) \in SUBSET ReviewRow
<1>1. CASE found = NoReview /\ t = NoText
  BY <1>1 DEF RowsAfter
<1>2. CASE found = NoReview /\ t # NoText
  <2> DEFINE r == CHOOSE r \in FreshReviews : TRUE
  <2>1. r \in Review
    BY <1>2 DEF FreshReviews
  <2>2. RowsAfter(rows, found, t) = rows \cup {[id |-> r, text |-> t]}
    BY <1>2 DEF RowsAfter
  <2> HIDE DEF r
  <2> QED BY <1>2, <2>1, <2>2 DEF ReviewRow
<1>3. CASE found # NoReview
  BY <1>3 DEF RowsAfter, ReviewRow
<1> QED BY <1>1, <1>2, <1>3

LEMMA OutcomeKind ==
  ASSUME NEW c
  PROVE  Outcome(c).kind \in Impact
<1>1. \A p, leaf : FusedOutcome(c, p, leaf).kind \in Impact
  BY DEF FusedOutcome, Impact
<1>2. \A leaf : ChainOutcome(c, leaf).kind \in Impact
  BY DEF ChainOutcome, Impact
<1>3. Untouched.kind \in Impact
  BY DEF Untouched, Impact
<1> QED BY <1>1, <1>2, <1>3, OutcomeCases

LEMMA QuietTitles ==
  ASSUME TitlesOK, title' = title, sources' = sources, stranded' = stranded
  PROVE  TitlesOK'
<1>1. Held' = Held /\ (\A k \in Key : Prerequisite(k)' = Prerequisite(k))
  BY DEF Held, Prerequisite
<1> QED BY <1>1 DEF TitlesOK, RowsOK, Forest, Fusions, LeftBehind, Active, Held, Prerequisite

LEMMA QuietEarned ==
  ASSUME EarnedOK, title' = title, evidence' = evidence, rated' = rated
  PROVE  EarnedOK'
<1>1. Held' = Held
  BY DEF Held
<1> QED BY <1>1 DEF EarnedOK, TitlesAreEarned, UniqueRows

\* The calls that touch no title.
Quiet == UNCHANGED <<title, evidence, sources, rated, stranded>>

LEMMA TitlesNext ==
  ASSUME IInv, [Next]_vars
  PROVE  TitlesOK' /\ EarnedOK'
<1>1. /\ TitlesOK /\ EarnedOK /\ Columns
      /\ enabled \in Catalog /\ sources \in [Person -> SUBSET Key]
  BY TypeColumns DEF IInv, TypeOK
<1>2. ASSUME Quiet
      PROVE  TitlesOK' /\ EarnedOK'
  BY <1>1, <1>2, QuietTitles, QuietEarned DEF Quiet
<1>3. CASE UNCHANGED vars
  BY <1>2, <1>3 DEF vars, titleVars, Quiet
<1>4. CASE \E r \in Rule : Redeem(r)
  BY <1>1, <1>4, RedeemTitles, RedeemEarned
<1>5. CASE \E k \in Key : Revoke(k)
  BY <1>1, <1>5, RevokeTitles, RevokeEarned
<1>6. CASE \E f \in Recipe, b \in BOOLEAN : Fuse(f, b)
  BY <1>1, <1>6, FuseTitles, FuseEarned
<1>7. CASE \E k \in Person : Dismantle(k)
  BY <1>1, <1>7, DismantleTitles, DismantleEarned
<1>8. CASE \E K \in Catalog : EnableCatalog(K)
  BY <1>2, <1>8 DEF EnableCatalog, titleVars, Quiet
<1>9. CASE \E p \in Call, c \in Course, t \in Text \cup {NoText} : BeginSubmit(p, c, t)
  BY <1>2, <1>9 DEF BeginSubmit, titleVars, Quiet
<1>10. CASE \E p \in Call, c \in Course : PreviewDeletion(p, c)
  BY <1>2, <1>10 DEF PreviewDeletion, titleVars, Quiet
<1>11. CASE \E p \in Call, k \in Key : CheckPrimary(p, k)
  BY <1>2, <1>11 DEF CheckPrimary, titleVars, Quiet
<1>12. ASSUME NEW p \in Call, Submit(p)
       PROVE  TitlesOK' /\ EarnedOK'
  <2>1. call[p].course \in Course
    BY <1>12 DEF Submit, At, IInv, CallsOK
  <2>2. title' = title /\ sources' = sources /\ stranded' = stranded
    BY <1>12 DEF Submit
  <2> QED BY <1>1, <1>12, <2>1, <2>2, QuietTitles, SubmitEarned
<1>13. CASE \E p \in Call : BeginDelete(p)
  BY <1>2, <1>13 DEF BeginDelete, titleVars, Quiet
<1>14. ASSUME NEW p \in Call, DeleteRated(p)
       PROVE  TitlesOK' /\ EarnedOK'
  <2>1. call[p].course \in Course
    BY <1>14 DEF DeleteRated, At, IInv, CallsOK
  <2>2. CASE Deleted(call[p].course, Outcome(call[p].course))
    BY <1>1, <2>1, <2>2, DeletedTitles, DeletedEarned
  <2>3. CASE UNCHANGED <<rated, reviews, titleVars>>
    BY <1>2, <1>14, <2>3 DEF DeleteRated, titleVars, Quiet
  <2> QED BY <1>14, <2>2, <2>3, DeleteRatedIs
<1>15. CASE \E p \in Call : ClearReviews(p)
  BY <1>2, <1>15 DEF ClearReviews, titleVars, Quiet
<1>16. ASSUME NEW p \in Call, ClearRating(p)
       PROVE  TitlesOK' /\ EarnedOK'
  <2>1. title' = title /\ sources' = sources /\ stranded' = stranded
    BY <1>16 DEF ClearRating, titleVars
  <2> QED BY <1>1, <1>16, <2>1, QuietTitles, ClearRatingEarned
<1>17. CASE \E p \in Call : WritePrimary(p)
  BY <1>2, <1>17 DEF WritePrimary, Quiet
<1>18. CASE \E p \in Call : Stop(p)
  BY <1>2, <1>18 DEF Stop, titleVars, Quiet
<1>19. CASE ClearPrimary
  BY <1>2, <1>19 DEF ClearPrimary, Quiet
<1> QED BY <1>3, <1>4, <1>5, <1>6, <1>7, <1>8, <1>9, <1>10, <1>11, <1>12, <1>13, <1>14,
           <1>15, <1>16, <1>17, <1>18, <1>19 DEF Next

LEMMA EndType ==
  ASSUME call \in [Call -> CallRecord], NEW p \in Call, End(p)
  PROVE  call' \in [Call -> CallRecord]
BY IdleType DEF End

LEMMA TypeNext ==
  ASSUME IInv, [Next]_vars
  PROVE  TypeOK'
<1>0. /\ rated \subseteq Course /\ reviews \in [Course -> SUBSET ReviewRow]
      /\ title \in [Key -> Row] /\ evidence \in [Key -> SUBSET Course]
      /\ sources \in [Person -> SUBSET Key] /\ primary \in Key \cup {NoTitle}
      /\ enabled \in Catalog /\ call \in [Call -> CallRecord]
      /\ TitlesOK /\ EarnedOK
  BY DEF IInv, TypeOK
<1>1. title' \in [Key -> Row] /\ stranded' \subseteq Key
  BY TitlesNext DEF TitlesOK, RowsOK, LeftBehind
<1>2. CASE UNCHANGED vars
  BY <1>0, <1>1, <1>2 DEF vars, titleVars, TypeOK
<1>3. ASSUME NEW r \in Rule, Redeem(r)
      PROVE  TypeOK'
  <2>1. KeyOf[r] \in Key
    BY CatalogAssumption
  <2>2. Selected(Asks[r], rated \ Outside(evidence, {})) \subseteq Course
    BY <1>0 DEF Selected
  <2>3. evidence' \in [Key -> SUBSET Course]
    BY <1>0, <1>3, <2>1, <2>2 DEF Redeem
  <2>4. primary' \in Key \cup {NoTitle}
    BY <1>0, <1>3, <2>1 DEF Redeem
  <2> QED BY <1>0, <1>1, <1>3, <2>3, <2>4 DEF Redeem, TypeOK
<1>4. ASSUME NEW k \in Key, Revoke(k)
      PROVE  TypeOK'
  <2>1. evidence' \in [Key -> SUBSET Course] /\ primary' \in Key \cup {NoTitle}
    BY <1>0, <1>4 DEF Revoke
  <2> QED BY <1>0, <1>1, <1>4, <2>1 DEF Revoke, TypeOK
<1>5. ASSUME NEW f \in Recipe, NEW b \in BOOLEAN, Fuse(f, b)
      PROVE  TypeOK'
  <2>1. f.target \in Person /\ f.target \in Key /\ f.sources \in SUBSET Key
    BY TierAssumption, CatalogAssumption DEF Professional
  <2>2. sources' \in [Person -> SUBSET Key] /\ primary' \in Key \cup {NoTitle}
    BY <1>0, <1>5, <2>1 DEF Fuse
  <2> QED BY <1>0, <1>1, <1>5, <2>2 DEF Fuse, TypeOK
<1>6. ASSUME NEW k \in Person, Dismantle(k)
      PROVE  TypeOK'
  <2>1. sources' \in [Person -> SUBSET Key] /\ primary' \in Key \cup {NoTitle}
    BY <1>0, <1>6 DEF Dismantle
  <2> QED BY <1>0, <1>1, <1>6, <2>1 DEF Dismantle, TypeOK
<1>7. ASSUME NEW K \in Catalog, EnableCatalog(K)
      PROVE  TypeOK'
  BY <1>0, <1>1, <1>7 DEF EnableCatalog, titleVars, TypeOK
<1>8. ASSUME UNCHANGED <<rated, reviews, titleVars, enabled>>, call' \in [Call -> CallRecord]
      PROVE  TypeOK'
  BY <1>0, <1>1, <1>8 DEF titleVars, TypeOK
<1>9. ASSUME NEW p \in Call, NEW c \in Course, NEW t \in Text \cup {NoText}, BeginSubmit(p, c, t)
      PROVE  TypeOK'
  <2>1. PICK r \in IF reviews[c] = {} THEN {NoReview} ELSE IdsOf(reviews[c]) :
          call' = [call EXCEPT ![p] = [IdleCall EXCEPT
                     !.step = "submit", !.course = c, !.text = t,
                     !.seen = IdsOf(reviews[c]), !.found = r]]
    BY <1>9 DEF BeginSubmit
  <2>2. IdsOf(reviews[c]) \in SUBSET Review
    BY <1>0 DEF IdsOf, ReviewRow
  <2>3. r \in Review \cup {NoReview}
    BY <2>2
  <2>4. [IdleCall EXCEPT !.step = "submit", !.course = c, !.text = t,
                     !.seen = IdsOf(reviews[c]), !.found = r] \in CallRecord
    BY <2>2, <2>3 DEF IdleCall, CallRecord, Impact
  <2>5. call' \in [Call -> CallRecord]
    BY <1>0, <2>1, <2>4
  <2> QED BY <1>8, <1>9, <2>5 DEF BeginSubmit
<1>10. ASSUME NEW p \in Call, NEW c \in Course, PreviewDeletion(p, c)
       PROVE  TypeOK'
  <2> DEFINE e == IF c \in rated THEN Outcome(c).kind ELSE "unchanged"
  <2>1. e \in Impact
    BY OutcomeKind DEF Impact
  <2>2. call' = [call EXCEPT ![p] = [IdleCall EXCEPT
                !.step = "confirm", !.course = c, !.expected = e]]
    BY <1>10 DEF PreviewDeletion
  <2> HIDE DEF e
  <2>3. [IdleCall EXCEPT !.step = "confirm", !.course = c, !.expected = e] \in CallRecord
    BY <2>1 DEF IdleCall, CallRecord
  <2>4. call' \in [Call -> CallRecord]
    BY <1>0, <2>2, <2>3
  <2> QED BY <1>8, <1>10, <2>4 DEF PreviewDeletion
<1>11. ASSUME NEW p \in Call, NEW k \in Key, CheckPrimary(p, k)
       PROVE  TypeOK'
  <2>1. [IdleCall EXCEPT !.step = "setPrimary", !.title = k] \in CallRecord
    BY DEF IdleCall, CallRecord, Impact
  <2>2. call' \in [Call -> CallRecord]
    BY <1>0, <1>11, <2>1 DEF CheckPrimary
  <2> QED BY <1>8, <1>11, <2>2 DEF CheckPrimary
<1>12. ASSUME NEW p \in Call, Submit(p)
       PROVE  TypeOK'
  <2>1. call[p].course \in Course /\ call[p].text \in Text \cup {NoText}
        /\ call[p].found \in Review \cup {NoReview}
    BY <1>0, <1>12 DEF Submit, At, IInv, CallsOK, CallRecord
  <2>2. rated' \subseteq Course /\ call' \in [Call -> CallRecord]
    BY <1>0, <1>12, <2>1, EndType DEF Submit
  <2>3. RowsAfter(reviews[call[p].course], call[p].found, call[p].text) \in SUBSET ReviewRow
    BY <1>0, <1>12, <2>1, RowsAfterType DEF Submit
  <2>4. reviews' \in [Course -> SUBSET ReviewRow]
    BY <1>0, <1>12, <2>1, <2>3 DEF Submit
  <2>5. evidence' \in [Key -> SUBSET Course]
    <3>1. Columns
      BY TypeColumns DEF IInv
    <3> DEFINE ratings == rated \cup {call[p].course}
    <3>2. PICK order \in Orders(Leaves) : evidence' = ReboundAll(ratings, order)
      BY <1>12 DEF Submit
    <3>3. ratings \in SUBSET Course /\ rated \subseteq ratings
      BY <1>0, <2>1
    <3> HIDE DEF ratings
    <3>4. EarnedBy(rated, evidence)
      BY <1>0, <3>1, EarnedIs
    <3>5. EarnedBy(ratings, evidence)
      BY <3>3, <3>4 DEF EarnedBy
    <3>6. EarnedBy(ratings, evidence')
      BY <1>0, <3>2, <3>3, <3>5, ReboundAllEarned
    <3> QED BY <3>6 DEF EarnedBy
  <2> QED BY <1>0, <1>1, <1>12, <2>2, <2>4, <2>5 DEF Submit, TypeOK
<1>13. ASSUME NEW p \in Call, BeginDelete(p)
       PROVE  TypeOK'
  <2>1. [call[p] EXCEPT !.step = IF call[p].course \in rated THEN "recompute" ELSE "clearReviews"]
          \in CallRecord
    BY <1>0 DEF CallRecord
  <2>2. call' \in [Call -> CallRecord]
    BY <1>0, <1>13, <2>1 DEF BeginDelete
  <2> QED BY <1>8, <1>13, <2>2 DEF BeginDelete
<1>14. ASSUME NEW p \in Call, DeleteRated(p)
       PROVE  TypeOK'
  <2>1. call[p].course \in Course
    BY <1>14 DEF DeleteRated, At, IInv, CallsOK
  <2>2. call' \in [Call -> CallRecord] /\ enabled' = enabled
    BY <1>0, <1>14, EndType DEF DeleteRated
  <2>3. CASE Deleted(call[p].course, Outcome(call[p].course))
    <3>1. /\ evidence' \in [Key -> SUBSET Course] /\ sources' \in [Person -> SUBSET Key]
          /\ primary' \in Key \cup {NoTitle}
      BY <1>0, <2>1, <2>3, DeletedType DEF IInv
    <3>2. rated' \subseteq Course /\ reviews' \in [Course -> SUBSET ReviewRow]
      BY <1>0, <2>1, <2>3 DEF Deleted
    <3> QED BY <1>0, <1>1, <2>2, <3>1, <3>2 DEF TypeOK
  <2>4. CASE UNCHANGED <<rated, reviews, titleVars>>
    BY <1>0, <1>1, <2>2, <2>4 DEF titleVars, TypeOK
  <2> QED BY <1>14, <2>3, <2>4, DeleteRatedIs
<1>15. ASSUME NEW p \in Call, ClearReviews(p)
       PROVE  TypeOK'
  <2>1. call[p].course \in Course
    BY <1>15 DEF ClearReviews, At, IInv, CallsOK
  <2>2. IdsOf(reviews[call[p].course]) \in SUBSET Review
    BY <1>0, <2>1 DEF IdsOf, ReviewRow
  <2>3. [call[p] EXCEPT !.step = "clearRating", !.seen = IdsOf(reviews[call[p].course])]
          \in CallRecord
    BY <1>0, <2>2 DEF CallRecord
  <2>4. call' \in [Call -> CallRecord]
    BY <1>0, <1>15, <2>3 DEF ClearReviews
  <2> QED BY <1>8, <1>15, <2>4 DEF ClearReviews
<1>16. ASSUME NEW p \in Call, ClearRating(p)
       PROVE  TypeOK'
  <2>1. call[p].course \in Course
    BY <1>16 DEF ClearRating, At, IInv, CallsOK
  <2>2. call' \in [Call -> CallRecord]
    BY <1>0, <1>16, EndType DEF ClearRating
  <2>3. rated' \subseteq Course /\ reviews' \in [Course -> SUBSET ReviewRow]
    BY <1>0, <1>16, <2>1 DEF ClearRating
  <2> QED BY <1>0, <1>1, <1>16, <2>2, <2>3 DEF ClearRating, titleVars, TypeOK
<1>17. ASSUME NEW p \in Call, WritePrimary(p)
       PROVE  TypeOK'
  <2>1. call[p].title \in Key \cup {NoTitle}
    BY <1>0 DEF CallRecord
  <2>2. call' \in [Call -> CallRecord]
    BY <1>0, <1>17, EndType DEF WritePrimary
  <2> QED BY <1>0, <1>1, <1>17, <2>1, <2>2 DEF WritePrimary, TypeOK
<1>18. ASSUME NEW p \in Call, Stop(p)
       PROVE  TypeOK'
  BY <1>0, <1>8, <1>18, EndType DEF Stop
<1>19. CASE ClearPrimary
  BY <1>0, <1>1, <1>19 DEF ClearPrimary, TypeOK
<1> QED BY <1>2, <1>3, <1>4, <1>5, <1>6, <1>7, <1>9, <1>10, <1>11, <1>12, <1>13, <1>14,
           <1>15, <1>16, <1>17, <1>18, <1>19 DEF Next

\* A call that ends, or none that moves, leaves the calls consistent.
LEMMA CallsNext ==
  ASSUME IInv, [Next]_vars
  PROVE  CallsOK'
<1>0. call \in [Call -> CallRecord] /\ CallsOK
  BY DEF IInv, TypeOK
<1> DEFINE ReadOK(r) ==
             /\ r.step \in {"submit", "confirm", "recompute", "clearReviews", "clearRating"}
                => r.course \in Course
             /\ r.step = "submit" =>
                  IF r.seen = {} THEN r.found = NoReview ELSE r.found \in r.seen
<1>1. ASSUME NEW p \in Call, NEW r, ReadOK(r), call' = [call EXCEPT ![p] = r]
      PROVE  CallsOK'
  <2>1. \A q \in Call : call'[q] = IF q = p THEN r ELSE call[q]
    BY <1>0, <1>1
  <2>2. \A q \in Call : ReadOK(call[q])
    BY <1>0 DEF CallsOK
  <2> HIDE DEF ReadOK
  <2>3. \A q \in Call : ReadOK(call'[q])
    BY <1>1, <2>1, <2>2
  <2> QED BY <2>3 DEF CallsOK, ReadOK
<1>2. ReadOK(IdleCall)
  BY DEF IdleCall
<1>3. ASSUME call' = call PROVE CallsOK'
  BY <1>0, <1>3 DEF CallsOK
<1>4. ASSUME NEW p \in Call, End(p) PROVE CallsOK'
  BY <1>1, <1>2, <1>4 DEF End
<1>5. ASSUME NEW p \in Call, NEW c \in Course, NEW t \in Text \cup {NoText}, BeginSubmit(p, c, t)
      PROVE  CallsOK'
  <2>1. PICK r \in IF reviews[c] = {} THEN {NoReview} ELSE IdsOf(reviews[c]) :
          call' = [call EXCEPT ![p] = [IdleCall EXCEPT
                     !.step = "submit", !.course = c, !.text = t,
                     !.seen = IdsOf(reviews[c]), !.found = r]]
    BY <1>5 DEF BeginSubmit
  <2>2. IF IdsOf(reviews[c]) = {} THEN r = NoReview ELSE r \in IdsOf(reviews[c])
    BY <2>1 DEF IdsOf
  <2>3. ReadOK([IdleCall EXCEPT !.step = "submit", !.course = c, !.text = t,
                     !.seen = IdsOf(reviews[c]), !.found = r])
    BY <2>2 DEF IdleCall
  <2> HIDE DEF ReadOK
  <2> QED BY <1>1, <2>1, <2>3
<1>6. ASSUME NEW p \in Call, NEW c \in Course, PreviewDeletion(p, c)
      PROVE  CallsOK'
  <2> DEFINE e == IF c \in rated THEN Outcome(c).kind ELSE "unchanged"
  <2>1. call' = [call EXCEPT ![p] = [IdleCall EXCEPT
                !.step = "confirm", !.course = c, !.expected = e]]
    BY <1>6 DEF PreviewDeletion
  <2> HIDE DEF e
  <2>2. ReadOK([IdleCall EXCEPT !.step = "confirm", !.course = c, !.expected = e])
    BY DEF IdleCall
  <2> HIDE DEF ReadOK
  <2> QED BY <1>1, <2>1, <2>2
<1>7. ASSUME NEW p \in Call, NEW k \in Key, CheckPrimary(p, k)
      PROVE  CallsOK'
  <2>1. ReadOK([IdleCall EXCEPT !.step = "setPrimary", !.title = k])
    BY DEF IdleCall
  <2> HIDE DEF ReadOK
  <2> QED BY <1>1, <1>7, <2>1 DEF CheckPrimary
<1>8. ASSUME NEW p \in Call, BeginDelete(p)
      PROVE  CallsOK'
  <2> DEFINE s == IF call[p].course \in rated THEN "recompute" ELSE "clearReviews"
  <2>1. call' = [call EXCEPT ![p] = [call[p] EXCEPT !.step = s]]
    BY <1>8 DEF BeginDelete
  <2>2. call[p].course \in Course /\ call[p] \in CallRecord
    BY <1>0, <1>8 DEF BeginDelete, At, CallsOK
  <2>3. s \in {"recompute", "clearReviews"}
    OBVIOUS
  <2> HIDE DEF s
  <2>4. ReadOK([call[p] EXCEPT !.step = s])
    BY <2>2, <2>3 DEF CallRecord
  <2> HIDE DEF ReadOK
  <2> QED BY <1>1, <2>1, <2>4
<1>9. ASSUME NEW p \in Call, ClearReviews(p)
      PROVE  CallsOK'
  <2> DEFINE S == IdsOf(reviews[call[p].course])
  <2>1. call' = [call EXCEPT ![p] = [call[p] EXCEPT !.step = "clearRating", !.seen = S]]
    BY <1>9 DEF ClearReviews
  <2>2. call[p].course \in Course /\ call[p] \in CallRecord
    BY <1>0, <1>9 DEF ClearReviews, At, CallsOK
  <2> HIDE DEF S
  <2>3. ReadOK([call[p] EXCEPT !.step = "clearRating", !.seen = S])
    BY <2>2 DEF CallRecord
  <2> HIDE DEF ReadOK
  <2> QED BY <1>1, <2>1, <2>3
<1> HIDE DEF ReadOK
<1>10. CASE UNCHANGED vars
  BY <1>3, <1>10 DEF vars
<1>11. CASE \/ \E r \in Rule : Redeem(r)
            \/ \E k \in Key : Revoke(k)
            \/ \E f \in Recipe, b \in BOOLEAN : Fuse(f, b)
            \/ \E k \in Person : Dismantle(k)
            \/ \E K \in Catalog : EnableCatalog(K)
            \/ ClearPrimary
  BY <1>3, <1>11 DEF Redeem, Revoke, Fuse, Dismantle, EnableCatalog, ClearPrimary
<1>12. CASE \E p \in Call : Submit(p) \/ DeleteRated(p) \/ ClearRating(p) \/ WritePrimary(p) \/ Stop(p)
  BY <1>4, <1>12 DEF Submit, DeleteRated, ClearRating, WritePrimary, Stop
<1> QED BY <1>5, <1>6, <1>7, <1>8, <1>9, <1>10, <1>11, <1>12 DEF Next

LEMMA InitIInv ==
  Init => IInv
<1> SUFFICES ASSUME Init PROVE IInv
  OBVIOUS
<1>1. /\ rated = {} /\ reviews = [c \in Course |-> {}]
      /\ title = [k \in Key |-> [status |-> "absent", rule |-> NoRule]]
      /\ evidence = [k \in Key |-> {}] /\ sources = [k \in Person |-> {}]
      /\ primary = NoTitle /\ enabled \in Catalog /\ call = [p \in Call |-> IdleCall]
      /\ stranded = {}
  BY DEF Init
<1>2. [status |-> "absent", rule |-> NoRule] \in Row
  BY DEF Row, Status
<1>3. TypeOK
  BY <1>1, <1>2, IdleType DEF TypeOK
<1>4. /\ \A k \in Key : title[k].status = "absent" /\ title[k].rule = NoRule
      /\ Held = {}
  BY <1>1 DEF Held
<1>5. \A p \in Person : p \in Key /\ ~Active(p) /\ sources[p] = {}
  BY <1>1, <1>4, CatalogAssumption DEF Active
<1>6. TitlesOK
  BY <1>1, <1>2, <1>4, <1>5 DEF TitlesOK, RowsOK, Forest, Fusions, LeftBehind
<1>7. EarnedOK
  BY <1>1, <1>4, CatalogAssumption DEF EarnedOK, TitlesAreEarned, UniqueRows, Professional
<1>8. CallsOK
  BY <1>1 DEF CallsOK, IdleCall
<1> QED BY <1>3, <1>6, <1>7, <1>8 DEF IInv

LEMMA NextIInv ==
  IInv /\ [Next]_vars => IInv'
BY TitlesNext, TypeNext, CallsNext DEF IInv

LEMMA Invariant ==
  Spec => []IInv
BY InitIInv, NextIInv, PTL DEF Spec

-----------------------------------------------------------------------------
(* What follows from the invariant *)

\* Every variable keeps the type of its columns.
THEOREM TypesOK ==
  Spec => []TypeOK
BY Invariant, PTL DEF IInv

\* Every title the student holds stays earned by ratings that exist and fill the
\* slots of the rule it was redeemed by, and no rating earns two: redeeming, revoking,
\* fusing, rebinding and deleting all rewrite the evidence (achievement-actions.ts,
\* achievement-recompute-db.ts).
THEOREM Earned ==
  Spec => []TitlesAreEarned
<1>1. IInv => TitlesAreEarned
  BY DEF IInv, EarnedOK
<1> QED BY <1>1, Invariant, PTL

\* A superseded title belongs to a chain or a fusion that ends in an active title:
\* no order of redeeming, revoking, fusing and dismantling loses one, except that the
\* revocation of a person title leaves its sources behind.
THEOREM NoOrphans ==
  Spec => []NothingOrphaned
<1>1. IInv => NothingOrphaned
  BY Orphans DEF IInv
<1> QED BY <1>1, Invariant, PTL

LEMMA DismantledUnique ==
  ASSUME TitlesOK, EarnedOK, Columns, NEW p \in Person, Active(p)
  PROVE  sources[p] # {} /\ UniqueRows(Dismantled(p), evidence)
<1>1. Shaped(sources[p]) /\ \A k \in sources[p] : title[k].status = "superseded"
  BY DEF TitlesOK, Fusions
<1>2. OneOfTier(title) /\ EarnedBy(rated, evidence)
  BY EarnedIs DEF Columns
<1>3. p \in Key /\ Tier[p] = "gold"
  BY CatalogAssumption, TierAssumption
<1> DEFINE d == Dismantled(p)
<1>4. \A k \in Key : d[k].status = IF k = p THEN "revoked" ELSE IF k \in sources[p] THEN "active"
                                   ELSE title[k].status
  <2> SUFFICES ASSUME NEW k \in Key
               PROVE  d[k].status = IF k = p THEN "revoked" ELSE IF k \in sources[p] THEN "active"
                                    ELSE title[k].status
    OBVIOUS
  <2>1. title[k] \in [status : Status, rule : Rule \cup {NoRule}]
    BY DEF TitlesOK, RowsOK, Row
  <2>2. d[k] = IF k = p THEN [title[k] EXCEPT !.status = "revoked"]
               ELSE IF k \in sources[p] THEN [title[k] EXCEPT !.status = "active"]
               ELSE title[k]
    BY DEF Dismantled
  <2> HIDE DEF d
  <2>3. k = p => d[k] = [title[k] EXCEPT !.status = "revoked"]
    BY <2>2
  <2>4. k # p /\ k \in sources[p] => d[k] = [title[k] EXCEPT !.status = "active"]
    BY <2>2
  <2>5. k # p /\ k \notin sources[p] => d[k] = title[k]
    BY <2>2
  <2> QED BY <2>1, <2>3, <2>4, <2>5
<1> HIDE DEF d
<1>5. ASSUME NEW j \in Key, NEW k \in Key, j # k, d[j].status = "active", d[k].status = "active",
             Tier[j] = Tier[k]
      PROVE  Tier[j] = "bronze"
  <2>1. /\ j # p /\ (j \in sources[p] \/ Active(j))
        /\ k # p /\ (k \in sources[p] \/ Active(k))
    BY <1>4, <1>5 DEF Active
  <2>2. \A i \in Key : i # p /\ Active(i) => Tier[i] # "gold"
    BY <1>2, <1>3 DEF OneOfTier, Active
  <2>3. CASE j \in sources[p] \/ k \in sources[p]
    <3>1. \/ \A i \in sources[p] : Tier[i] = "bronze"
          \/ \E i \in Professional : sources[p] = {i} /\ Tier[i] = "gold"
      BY <1>1 DEF Shaped
    <3> QED BY <1>5, <2>1, <2>2, <2>3, <3>1
  <2>4. CASE j \notin sources[p] /\ k \notin sources[p]
    BY <1>2, <1>5, <2>1, <2>4 DEF OneOfTier, Active
  <2> QED BY <2>3, <2>4
<1>6. \A j, k \in Key : j # k => evidence[j] \cap evidence[k] = {}
  BY <1>2 DEF EarnedBy
<1>7. sources[p] # {}
  BY <1>1 DEF Shaped
<1> QED BY <1>5, <1>6, <1>7 DEF UniqueRows, d

\* What a deletion or a dismantling does to titles never breaks an index of the
\* database, so that it cannot fail for good (planAchievementAfterRatingDeletion,
\* dismantlePersonTitle); only what was left behind holds its ratings for ever.
THEOREM DeletionsGoThrough ==
  Spec => []DeletionNeverBlocked
<1>1. IInv => DeletionNeverBlocked
  <2> SUFFICES ASSUME IInv PROVE DeletionNeverBlocked
    OBVIOUS
  <2>1. TitlesOK /\ EarnedOK /\ Columns /\ rated \subseteq Course
    BY TypeColumns DEF IInv, TypeOK
  <2>2. ASSUME NEW c \in rated, \A k \in Left : c \notin evidence[k]
        PROVE  Commits(c, Outcome(c))
    <3>1. AfterDeletion(c, Outcome(c))
      BY <2>1, <2>2, OutcomeEarned
    <3> QED BY <3>1 DEF AfterDeletion, Commits, UniqueRows, OneOfTier
  <2>3. ASSUME NEW p \in Person, Active(p)
        PROVE  sources[p] # {} /\ UniqueRows(Dismantled(p), evidence)
    BY <2>1, <2>3, DismantledUnique
  <2> QED BY <2>2, <2>3 DEF DeletionNeverBlocked
<1> QED BY <1>1, Invariant, PTL

-----------------------------------------------------------------------------
(* Deletions *)

\* An outcome that is no loss leaves every status as it was.
LEMMA NoLoss ==
  ASSUME TitlesOK, EarnedOK, Columns, NEW c, Outcome(c).kind \notin Loss
  PROVE  \A k \in Key : Outcome(c).title[k].status = title[k].status
<1> DEFINE o == Outcome(c)
<1>1. \/ \E leaf, P, others, C, n : Keeps(c, o, leaf, P, others, C, n)
      \/ o = Untouched
  BY OutcomeIs DEF Columns
<1>2. o.kind \notin Loss
  OBVIOUS
<1> HIDE DEF o
<1>3. ASSUME NEW leaf, NEW P, NEW others, NEW C, NEW n, Keeps(c, o, leaf, P, others, C, n)
      PROVE  \A k \in Key : o.title[k].status = title[k].status
  <2>1. /\ LeafOf(leaf, P, others) /\ C = Chain(leaf, Held) /\ n = Cardinality(C)
        /\ \/ o.title = title
           \/ P = {} /\ o.title = Lowered(C, n, P, others)
    BY <1>2, <1>3 DEF Keeps
  <2>2. CASE o.title = title
    BY <2>2
  <2>3. CASE P = {} /\ o.title = Lowered(C, n, P, others)
    <3>1. Active(leaf) /\ others = {}
      BY <2>1, <2>3 DEF LeafOf
    <3>2. leaf \in Held /\ Held \in SUBSET Key /\ Held \cap Professional \subseteq Held
      BY <2>1, LeafFacts DEF Held
    <3>3. \A x \in C \ {leaf} : title[x].status = "superseded"
      BY <2>1, <3>2, ChainFacts
    <3>4. /\ n \in Nat /\ Place(C, leaf) = n
          /\ \A x \in C : Place(C, x) \in 1..n
          /\ \A x \in C : Place(C, x) = n => x = leaf
      BY <2>1, <3>2, ChainPlaces
    <3>5. \A x \in C : x # leaf => Place(C, x) # n /\ Place(C, x) < n
      <4> SUFFICES ASSUME NEW x \in C, x # leaf PROVE Place(C, x) # n /\ Place(C, x) < n
        OBVIOUS
      <4>1. Place(C, x) # n /\ Place(C, x) \in 1..n
        BY <3>4
      <4> QED BY <3>4, <4>1
    <3> SUFFICES ASSUME NEW k \in Key PROVE o.title[k].status = title[k].status
      OBVIOUS
    <3>6. o.title[k].status = IF k \in P THEN "revoked"
                             ELSE IF k \in others THEN "active"
                             ELSE IF k \notin C THEN title[k].status
                             ELSE IF Place(C, k) = n THEN "active"
                             ELSE IF Place(C, k) < n THEN "superseded" ELSE "revoked"
      BY <2>3, LoweredRows
    <3> QED BY <2>3, <3>1, <3>3, <3>4, <3>5, <3>6 DEF Active
  <2> QED BY <2>1, <2>2, <2>3
<1> QED BY <1>1, <1>3 DEF Untouched, o

\* Whose call a step moves.
LEMMA CallMoves ==
  ASSUME IInv, [Next]_vars, NEW p \in Call,
         call[p].step \in {"submit", "recompute", "clearRating", "setPrimary"}, call'[p].step = "idle"
  PROVE  Submit(p) \/ DeleteRated(p) \/ ClearRating(p) \/ WritePrimary(p) \/ Stop(p)
<1>0. call \in [Call -> CallRecord] /\ call[p].step # "idle" /\ call'[p] # call[p]
  BY DEF IInv, TypeOK
<1>1. ASSUME NEW q \in Call, NEW r, call' = [call EXCEPT ![q] = r] PROVE q = p /\ r.step = "idle"
  BY <1>0, <1>1
<1>2. CASE call' = call
  BY <1>0, <1>2
<1>3. CASE \/ UNCHANGED vars
           \/ \E r \in Rule : Redeem(r)
           \/ \E k \in Key : Revoke(k)
           \/ \E f \in Recipe, b \in BOOLEAN : Fuse(f, b)
           \/ \E k \in Person : Dismantle(k)
           \/ \E K \in Catalog : EnableCatalog(K)
           \/ ClearPrimary
  BY <1>2, <1>3 DEF vars, Redeem, Revoke, Fuse, Dismantle, EnableCatalog, ClearPrimary
<1>4. CASE \E q \in Call, c \in Course, t \in Text \cup {NoText} : BeginSubmit(q, c, t)
  <2>1. PICK q \in Call : At(q, "idle") /\ \E r : call' = [call EXCEPT ![q] = r]
    BY <1>4 DEF BeginSubmit
  <2> QED BY <1>0, <1>1, <2>1 DEF At
<1>5. CASE \E q \in Call, c \in Course : PreviewDeletion(q, c)
  <2>1. PICK q \in Call : At(q, "idle") /\ \E r : call' = [call EXCEPT ![q] = r]
    BY <1>5 DEF PreviewDeletion
  <2> QED BY <1>0, <1>1, <2>1 DEF At
<1>6. CASE \E q \in Call, k \in Key : CheckPrimary(q, k)
  <2>1. PICK q \in Call : At(q, "idle") /\ \E r : call' = [call EXCEPT ![q] = r]
    BY <1>6 DEF CheckPrimary
  <2> QED BY <1>0, <1>1, <2>1 DEF At
<1>7. CASE \E q \in Call : BeginDelete(q)
  <2>1. PICK q \in Call : At(q, "confirm") /\ \E r : call' = [call EXCEPT ![q] = r]
    BY <1>7 DEF BeginDelete
  <2> QED BY <1>1, <2>1 DEF At
<1>8. CASE \E q \in Call : ClearReviews(q)
  <2>1. PICK q \in Call : ClearReviews(q)
    BY <1>8
  <2>2. /\ At(q, "clearReviews")
        /\ call' = [call EXCEPT ![q] = [call[q] EXCEPT !.step = "clearRating",
                                                      !.seen = IdsOf(reviews[call[q].course])]]
    BY <2>1 DEF ClearReviews
  <2> QED BY <1>1, <2>2 DEF At
<1>9. CASE \E q \in Call : Submit(q) \/ DeleteRated(q) \/ ClearRating(q) \/ WritePrimary(q) \/ Stop(q)
  <2>1. PICK q \in Call : Submit(q) \/ DeleteRated(q) \/ ClearRating(q) \/ WritePrimary(q) \/ Stop(q)
    BY <1>9
  <2>2. End(q)
    BY <2>1 DEF Submit, DeleteRated, ClearRating, WritePrimary, Stop
  <2>3. q = p
    BY <1>1, <2>2 DEF End
  <2> QED BY <2>1, <2>3
<1> QED BY <1>3, <1>4, <1>5, <1>6, <1>7, <1>8, <1>9 DEF Next

\* A deletion whose author was told it costs nothing costs no title, whatever happened
\* since (deleteCourseReviewSubmission compares the impact it finds with the confirmed one).
THEOREM Confirmed ==
  Spec => ConfirmedDeletion
<1>1. ASSUME IInv, [Next]_vars, NEW p \in Call,
             call[p].step \in {"recompute", "clearRating"},
             call[p].expected \in {"unchanged", "preserved"},
             call'[p].step = "idle"
      PROVE  \A k \in Key : title'[k].status = title[k].status
  <2>1. Submit(p) \/ DeleteRated(p) \/ ClearRating(p) \/ WritePrimary(p) \/ Stop(p)
    BY <1>1, CallMoves
  <2>2. ~Submit(p) /\ ~WritePrimary(p)
    BY <1>1 DEF Submit, WritePrimary, At
  <2>3. CASE ClearRating(p) \/ Stop(p)
    BY <2>3 DEF ClearRating, Stop, titleVars
  <2>4. CASE DeleteRated(p)
    <3> DEFINE c == call[p].course
               o == Outcome(c)
    <3>1. \/ (o.kind \in Loss => o.kind = call[p].expected) /\ title' = o.title
          \/ title' = title
      BY <2>4 DEF DeleteRated, titleVars
    <3>2. call[p].expected \notin Loss
      BY <1>1 DEF Loss
    <3>3. CASE title' = title
      BY <3>3
    <3>4. CASE o.kind \notin Loss /\ title' = o.title
      <4>1. TitlesOK /\ EarnedOK /\ Columns
        BY <1>1, TypeColumns DEF IInv
      <4> QED BY <3>4, <4>1, NoLoss
    <3> QED BY <3>1, <3>2, <3>3, <3>4
  <2> QED BY <2>1, <2>2, <2>3, <2>4
<1>2. IInv /\ [Next]_vars =>
        [\A p \in Call :
           /\ call[p].step \in {"recompute", "clearRating"}
           /\ call[p].expected \in {"unchanged", "preserved"}
           /\ call'[p].step = "idle"
           => \A k \in Key : title'[k].status = title[k].status]_vars
  BY <1>1
<1> QED BY <1>2, Invariant, PTL DEF Spec, ConfirmedDeletion

\* A submission that no other call of the student on the course overtook leaves exactly
\* the text it was sent with (submitCourseReview).
THEOREM LoneSubmissions ==
  Spec => LoneSubmissionKeepsItsText
<1>1. ASSUME IInv, [Next]_vars, NEW p \in Call,
             At(p, "submit"), call'[p].step = "idle",
             rated' # rated \/ reviews' # reviews,
             call[p].seen = IdsOf(reviews[call[p].course])
      PROVE  /\ {r.text : r \in reviews'[call[p].course]} = {call[p].text} \ {NoText}
             /\ Cardinality(reviews'[call[p].course]) <= 1
  <2> DEFINE c == call[p].course
             t == call[p].text
             found == call[p].found
             fresh == CHOOSE r \in FreshReviews : TRUE
  <2>1. Submit(p) \/ DeleteRated(p) \/ ClearRating(p) \/ WritePrimary(p) \/ Stop(p)
    BY <1>1, CallMoves DEF At
  <2>2. Submit(p)
    BY <1>1, <2>1 DEF DeleteRated, ClearRating, WritePrimary, Stop, At
  <2>3. c \in Course /\ IF call[p].seen = {} THEN found = NoReview ELSE found \in call[p].seen
    BY <1>1 DEF IInv, CallsOK, At
  <2>4. reviews \in [Course -> SUBSET ReviewRow] /\ call[p].seen \in SUBSET Review /\ NoReview \notin Review
    BY <1>1, ReviewAssumption DEF IInv, TypeOK, CallRecord
  <2>5. reviews'[c] = RowsAfter(reviews[c], found, t)
    BY <2>2, <2>3, <2>4 DEF Submit
  <2>6. \/ reviews'[c] = {} /\ t = NoText
        \/ \E r : reviews'[c] = {[id |-> r, text |-> t]} /\ t # NoText
    <3>1. CASE call[p].seen = {}
      <4>1. reviews[c] = {} /\ found = NoReview
        BY <1>1, <2>3, <3>1 DEF IdsOf
      <4> QED BY <2>5, <4>1 DEF RowsAfter
    <3>2. CASE call[p].seen # {}
      <4>1. found # NoReview /\ found \in IdsOf(reviews[c])
        BY <1>1, <2>3, <2>4, <3>2
      <4> QED BY <2>5, <4>1 DEF RowsAfter
    <3> QED BY <3>1, <3>2
  <2> HIDE DEF c, t
  <2>7. CASE reviews'[c] = {} /\ t = NoText
    BY <2>7, FS_EmptySet DEF c, t
  <2>8. CASE \E r : reviews'[c] = {[id |-> r, text |-> t]} /\ t # NoText
    <3>1. PICK r : reviews'[c] = {[id |-> r, text |-> t]} /\ t # NoText
      BY <2>8
    <3>2. Cardinality(reviews'[c]) = 1
      BY <3>1, FS_Singleton
    <3>3. {x.text : x \in reviews'[c]} = {t} \ {NoText}
      BY <3>1
    <3> QED BY <3>2, <3>3 DEF c, t
  <2> QED BY <2>6, <2>7, <2>8
<1>2. IInv /\ [Next]_vars =>
        [\A p \in Call :
           LET c == call[p].course IN
           /\ At(p, "submit") /\ c \in rated' /\ call'[p].step = "idle"
           /\ rated' # rated \/ reviews' # reviews
           /\ call[p].seen = IdsOf(reviews[c])
           => {r.text : r \in reviews'[c]} = {call[p].text} \ {NoText}
              /\ Cardinality(reviews'[c]) <= 1]_vars
  BY <1>1
<1> QED BY <1>2, Invariant, PTL DEF Spec, LoneSubmissionKeepsItsText

-----------------------------------------------------------------------------
(* The name shows a title that is held *)

\* The name shows nothing, or a title that is active.
NameOK == primary # NoTitle => Active(primary)

LEMMA DeletedPrimary ==
  ASSUME TitlesOK, EarnedOK, Columns, primary \in Key \cup {NoTitle}, NameOK,
         NEW c \in Course, Deleted(c, Outcome(c))
  PROVE  primary' = NoTitle \/ title'[primary'].status = "active"
<1> DEFINE o == Outcome(c)
<1>1. \/ \E leaf, P, others, C, n : Keeps(c, o, leaf, P, others, C, n)
      \/ o = Untouched
  BY OutcomeIs DEF Columns
<1>2. title' = o.title /\ primary' = o.primary
  BY DEF Deleted
<1> HIDE DEF o
<1>3. ASSUME o = Untouched
      PROVE  primary' = NoTitle \/ title'[primary'].status = "active"
  BY <1>2, <1>3 DEF Untouched, NameOK, Active
<1>4. ASSUME NEW leaf, NEW P, NEW others, NEW C, NEW n, Keeps(c, o, leaf, P, others, C, n)
      PROVE  primary' = NoTitle \/ title'[primary'].status = "active"
  <2>1. /\ LeafOf(leaf, P, others) /\ C = Chain(leaf, Held) /\ n \in 0..Cardinality(C)
        /\ \/ o.title = title /\ o.primary = primary
           \/ /\ o.title = Lowered(C, n, P, others)
              /\ \/ o.primary = primary /\ primary \notin P /\ (P = {} => primary # leaf)
                 \/ o.primary = NoTitle
                 \/ n > 0 /\ o.primary = Ordered(C)[n]
                 \/ o.primary \in others
    BY <1>4 DEF Keeps
  <2>2. CASE o.title = title /\ o.primary = primary
    BY <1>2, <2>2 DEF NameOK, Active
  <2>3. CASE o.title = Lowered(C, n, P, others)
    <3>1. leaf \in Held /\ Held \in SUBSET Key /\ Held \cap Professional \subseteq Held
      BY <2>1, LeafFacts DEF Held
    <3>2. /\ leaf \in C /\ C \subseteq Held
          /\ \A x \in C \ {leaf} : title[x].status = "superseded" /\ x \in Professional
      BY <2>1, <3>1, ChainFacts
    <3>3. /\ Cardinality(C) \in Nat
          /\ Ordered(C) \in [1..Cardinality(C) -> C]
          /\ \A i \in 1..Cardinality(C) : Place(C, Ordered(C)[i]) = i
      BY <2>1, <3>1, ChainPlaces
    <3>4. /\ \A j \in P : j \notin Professional
          /\ \A j \in others : j \in Professional /\ j \in Key
      BY <2>1, LeafFacts
    <3>5. \A k \in Key :
            o.title[k].status = IF k \in P THEN "revoked"
                             ELSE IF k \in others THEN "active"
                             ELSE IF k \notin C THEN title[k].status
                             ELSE IF Place(C, k) = n THEN "active"
                             ELSE IF Place(C, k) < n THEN "superseded" ELSE "revoked"
      BY <2>3, LoweredRows
    <3>6. CASE o.primary = primary /\ primary \notin P /\ (P = {} => primary # leaf)
      <4>1. CASE primary = NoTitle
        BY <1>2, <3>6, <4>1
      <4>2. CASE primary # NoTitle
        <5>1. primary \in Key /\ title[primary].status = "active"
          BY <4>2 DEF NameOK, Active
        <5>2. primary # leaf
          <6>1. CASE P = {}
            BY <3>6, <6>1
          <6>2. CASE P # {}
            <7>1. \E p \in Person : Active(p) /\ leaf \in sources[p]
              BY <2>1, <6>2 DEF LeafOf
            <7>2. title[leaf].status = "superseded"
              BY <7>1 DEF TitlesOK, Fusions
            <7> QED BY <5>1, <7>2
          <6> QED BY <6>1, <6>2
        <5>3. primary \notin C
          BY <3>2, <5>1, <5>2
        <5> QED BY <1>2, <3>5, <3>6, <5>1, <5>3
      <4> QED BY <4>1, <4>2
    <3>7. CASE o.primary = NoTitle
      BY <1>2, <3>7
    <3>8. CASE n > 0 /\ o.primary = Ordered(C)[n]
      <4>1. n \in 1..Cardinality(C)
        BY <2>1, <3>3, <3>8
      <4>2. o.primary \in C /\ Place(C, o.primary) = n
        BY <3>3, <3>8, <4>1
      <4>3. o.primary \in Key /\ o.primary \notin P
        <5>1. leaf \in Professional
          BY <2>1 DEF LeafOf
        <5> QED BY <3>1, <3>2, <3>4, <4>2, <5>1
      <4> QED BY <1>2, <3>5, <4>2, <4>3
    <3>9. CASE o.primary \in others
      BY <1>2, <3>4, <3>5, <3>9
    <3> QED BY <2>1, <2>2, <3>6, <3>7, <3>8, <3>9
  <2> QED BY <2>1, <2>2, <2>3
<1> QED BY <1>1, <1>3, <1>4

\* Every step that takes a title away moves the name to a title that is still active or
\* to none; only a choice that was checked before the title was lost can show a lost
\* one (setPrimaryAchievement).
THEOREM NameFollows ==
  Spec => PrimaryFollowsTitles
<1> DEFINE Goal == primary' = NoTitle \/ title'[primary'].status = "active"
<1>1. ASSUME IInv, [Next]_vars, NameOK,
             \A p \in Call : At(p, "setPrimary") => call'[p] = call[p]
      PROVE  Goal
  <2>0. /\ TitlesOK /\ EarnedOK /\ Columns /\ primary \in Key \cup {NoTitle}
        /\ enabled \in Catalog /\ call \in [Call -> CallRecord] /\ CallsOK
        /\ \A k \in Key : title[k] \in [status : Status, rule : Rule \cup {NoRule}]
        /\ NoTitle \notin Key
    BY <1>1, TypeColumns, CatalogAssumption DEF IInv, TypeOK, TitlesOK, RowsOK, Row
  <2>1. ASSUME title' = title, primary' = primary \/ primary' = NoTitle
        PROVE  Goal
    BY <1>1, <2>1 DEF NameOK, Active
  <2>2. ASSUME NEW r \in Rule, Redeem(r) PROVE Goal
    <3> DEFINE k == KeyOf[r]
               needed == Requires[r]
    <3>1. k \in Key
      BY CatalogAssumption
    <3>2. /\ title' = [j \in Key |->
                 IF j = k THEN [status |-> "active", rule |-> r]
                 ELSE IF j = needed THEN [title[j] EXCEPT !.status = "superseded"]
                 ELSE title[j]]
          /\ primary' = IF needed # NoTitle /\ primary = needed THEN k ELSE primary
      BY <2>2 DEF Redeem
    <3> HIDE DEF k, needed
    <3>3. title'[k].status = "active"
      BY <3>1, <3>2
    <3>4. \A j \in Key : j # needed /\ j # k => title'[j] = title[j]
      BY <3>2
    <3> QED BY <1>1, <2>0, <3>2, <3>3, <3>4 DEF NameOK, Active
  <2>3. ASSUME NEW k \in Key, Revoke(k) PROVE Goal
    <3> DEFINE C == Chain(k, Exists)
    <3>1. /\ Active(k) /\ primary' = IF primary = k THEN NoTitle ELSE primary
          /\ \A j \in Key \ C : title'[j] = title[j]
      BY <2>3 DEF Revoke
    <3>2. k \in Held /\ Exists \in SUBSET Key /\ k \in Exists /\ Held \cap Professional \subseteq Exists
      BY <3>1 DEF Held, Exists, Active
    <3>3. \A x \in C \ {k} : title[x].status = "superseded"
      BY <2>0, <3>2, ChainFacts
    <3> HIDE DEF C
    <3> QED BY <1>1, <2>0, <3>1, <3>3 DEF NameOK, Active
  <2>4. ASSUME NEW f \in Recipe, NEW b \in BOOLEAN, Fuse(f, b) PROVE Goal
    <3>1. f.target \in Key
      BY TierAssumption, CatalogAssumption
    <3>2. /\ primary' = IF b THEN f.target ELSE IF primary \in f.sources THEN NoTitle ELSE primary
          /\ title'[f.target].status = "active"
          /\ \A k \in Key : k # f.target /\ k \notin f.sources => title'[k] = title[k]
      BY <2>4, <3>1 DEF Fuse
    <3> QED BY <1>1, <2>0, <3>2 DEF NameOK, Active
  <2>5. ASSUME NEW p \in Person, Dismantle(p) PROVE Goal
    <3>1. sources[p] \in SUBSET Key
      BY <2>0 DEF Columns
    <3>2. /\ \E k \in sources[p] : primary' = IF primary = p THEN k ELSE primary
          /\ title' = [k \in Key |-> IF k = p THEN [title[k] EXCEPT !.status = "revoked"]
                                     ELSE IF k \in sources[p] THEN [title[k] EXCEPT !.status = "active"]
                                     ELSE title[k]]
          /\ Active(p)
      BY <2>5 DEF Dismantle, Dismantled
    <3>3. p \notin sources[p]
      <4>1. Shaped(sources[p])
        BY <2>0, <3>2 DEF TitlesOK, Fusions
      <4> QED BY <4>1, ShapedKeys DEF Professional
    <3>4. \A k \in sources[p] : title'[k].status = "active"
      <4> SUFFICES ASSUME NEW k \in sources[p] PROVE title'[k].status = "active"
        OBVIOUS
      <4>1. title'[k] = [title[k] EXCEPT !.status = "active"] /\ k \in Key
        BY <3>1, <3>2, <3>3
      <4> QED BY <2>0, <4>1
    <3>5. \A k \in Key : k # p /\ k \notin sources[p] => title'[k] = title[k]
      BY <3>2
    <3> QED BY <1>1, <2>0, <3>2, <3>4, <3>5 DEF NameOK, Active
  <2>6. ASSUME NEW p \in Call, DeleteRated(p) PROVE Goal
    <3>1. call[p].course \in Course
      BY <2>0, <2>6 DEF DeleteRated, At, CallsOK
    <3>2. CASE Deleted(call[p].course, Outcome(call[p].course))
      BY <1>1, <2>0, <3>1, <3>2, DeletedPrimary
    <3>3. CASE UNCHANGED <<rated, reviews, titleVars>>
      BY <2>1, <3>3 DEF titleVars
    <3> QED BY <2>6, <3>2, <3>3, DeleteRatedIs
  <2>7. ASSUME NEW p \in Call, WritePrimary(p) PROVE Goal
    <3>1. call[p].step = "setPrimary" /\ call'[p] = IdleCall
      BY <2>0, <2>7 DEF WritePrimary, At, End
    <3>2. call'[p] = call[p]
      BY <1>1, <3>1 DEF At
    <3> QED BY <3>1, <3>2 DEF IdleCall
  <2>8. CASE UNCHANGED vars
    BY <2>1, <2>8 DEF vars, titleVars
  <2>9. CASE \E K \in Catalog : EnableCatalog(K)
    BY <2>1, <2>9 DEF EnableCatalog, titleVars
  <2>10. CASE \/ \E p \in Call, c \in Course, t \in Text \cup {NoText} : BeginSubmit(p, c, t)
              \/ \E p \in Call, c \in Course : PreviewDeletion(p, c)
              \/ \E p \in Call, k \in Key : CheckPrimary(p, k)
    BY <2>1, <2>10 DEF BeginSubmit, PreviewDeletion, CheckPrimary, titleVars
  <2>11. CASE \E p \in Call : Submit(p)
    BY <2>1, <2>11 DEF Submit
  <2>12. CASE \E p \in Call : BeginDelete(p) \/ ClearReviews(p) \/ ClearRating(p) \/ Stop(p)
    BY <2>1, <2>12 DEF BeginDelete, ClearReviews, ClearRating, Stop, titleVars
  <2>13. CASE ClearPrimary
    BY <2>13 DEF ClearPrimary
  <2> HIDE DEF Goal
  <2> QED BY <1>1, <2>2, <2>3, <2>4, <2>5, <2>6, <2>7, <2>8, <2>9, <2>10, <2>11, <2>12, <2>13
          DEF Next
<1>2. IInv /\ [Next]_vars =>
        [/\ primary # NoTitle => Active(primary)
         /\ \A p \in Call : At(p, "setPrimary") => call'[p] = call[p]
         => primary' = NoTitle \/ title'[primary'].status = "active"]_vars
  BY <1>1 DEF NameOK, Goal
<1> QED BY <1>2, Invariant, PTL DEF Spec, PrimaryFollowsTitles

-----------------------------------------------------------------------------
(* Titles are lost only when necessary *)

\* The end of a chain: no title that is held requires it.
EndOfChain(k) == k \in Held /\ \A j \in Held : Prerequisite(j) # k

LEMMA LeavesEnd ==
  ASSUME TitlesOK, NEW k \in Leaves
  PROVE  EndOfChain(k) /\ k \in Professional /\ k \in Key
<1>1. k \in Held /\ k \in Professional /\ k \in Key /\ NoTitle \notin Key
  BY CatalogAssumption DEF Leaves, Held
<1>2. \A j \in Held : j \in Key
  BY DEF Held
<1>3. \A j \in Held : j \notin Professional => Prerequisite(j) = NoTitle
  BY <1>2, ActiveFacts DEF Professional
<1> QED BY <1>1, <1>3 DEF Leaves, EndOfChain

\* What is between two titles of a chain.
LEMMA ChainUpwards ==
  ASSUME TitlesOK, NEW a, EndOfChain(a)
  PROVE  /\ Chain(a, Held) \subseteq Held
         /\ \A y \in Chain(a, Held) :
              Prerequisite(y) # NoTitle => Grade(Prerequisite(y)) < Grade(y)
         /\ \A y \in Chain(a, Held) \ {a} : \E z \in Chain(a, Held) : Prerequisite(z) = y
         /\ \A y \in Chain(a, Held) \ {a} :
              \A z \in Held : Prerequisite(z) = y => z \in Chain(a, Held)
<1>1. Held \in SUBSET Key /\ a \in Held /\ Held \cap Professional \subseteq Held
  BY DEF EndOfChain, Held
<1> QED BY <1>1, ChainFacts

LEMMA ChainsMeet ==
  ASSUME TitlesOK, NEW a, EndOfChain(a), NEW b, EndOfChain(b),
         NEW x, x \in Chain(a, Held), x \in Chain(b, Held)
  PROVE  a = b
<1> DEFINE A == Chain(a, Held)
           B == Chain(b, Held)
<1>1. Held \in SUBSET Key /\ a \in Held /\ b \in Held /\ Held \cap Professional \subseteq Held
  BY DEF EndOfChain, Held
<1>2. /\ A \subseteq Held /\ B \subseteq Held
      /\ \A y \in A : Prerequisite(y) # NoTitle => Grade(Prerequisite(y)) < Grade(y)
      /\ \A y \in A \ {a} : /\ \E z \in A : Prerequisite(z) = y
      /\ \A y \in B \ {b} : \A z \in Held : Prerequisite(z) = y => z \in B
      /\ \A y \in B \ {b} : /\ \E z \in B : Prerequisite(z) = y
  BY ChainUpwards
<1> SUFFICES ASSUME a # b PROVE FALSE
  OBVIOUS
<1> HIDE DEF A, B
<1>3. \A y \in A : y \in Key /\ y # NoTitle /\ Grade(y) \in 0..2
  BY <1>1, <1>2, GradeType, CatalogAssumption
<1>4. ASSUME NEW y \in A, y \in B
      PROVE  \E z \in A : z \in B /\ Grade(y) < Grade(z)
  <2>1. y # a
    BY <1>2, <1>4 DEF EndOfChain
  <2>2. y # b
    BY <1>2, <1>4, <2>1 DEF EndOfChain
  <2>3. PICK z \in A : Prerequisite(z) = y
    BY <1>2, <2>1
  <2> QED BY <1>2, <1>3, <1>4, <2>2, <2>3
<1>5. \A y \in A : y \in B => Grade(y) # 2
  BY <1>3, <1>4
<1>6. \A y \in A : y \in B => Grade(y) # 1
  BY <1>3, <1>4, <1>5
<1>7. \A y \in A : y \in B => Grade(y) # 0
  BY <1>3, <1>4, <1>5, <1>6
<1> QED BY <1>3, <1>5, <1>6, <1>7 DEF A, B

LEMMA LossNecessary ==
  ASSUME TitlesOK, EarnedOK, Columns, NEW c \in Course, NEW k \in Leaves,
         \E j \in Chain(k, Held) : c \in evidence[j],
         Outcome(c).title[k].status = "revoked"
  PROVE  LET chain == Chain(k, Held)
         IN  ~CanFill(SlotsUpTo(chain, Cardinality(chain)), Candidates(c, chain))
<1> DEFINE o == Outcome(c)
<1>1. \/ \E leaf, P, others, C, n : Keeps(c, o, leaf, P, others, C, n)
      \/ o = Untouched
  BY OutcomeIs DEF Columns
<1>2. EndOfChain(k) /\ k \in Key /\ k \in Held
  BY LeavesEnd DEF EndOfChain
<1>3. o.kind \in Loss
  <2>1. title[k].status # "revoked"
    BY <1>2 DEF Held
  <2> QED BY <1>2, <2>1, NoLoss
<1>4. o.title[k].status = "revoked"
  OBVIOUS
<1> HIDE DEF o
<1>5. o # Untouched
  BY <1>3 DEF Untouched, Loss
<1>6. PICK leaf, P, others, C, n : Keeps(c, o, leaf, P, others, C, n)
  BY <1>1, <1>5
<1>7. /\ LeafOf(leaf, P, others) /\ C = Chain(leaf, Held) /\ Uses(c, leaf)
      /\ n # Cardinality(C) /\ ~Eligible(SlotsUpTo(C, Cardinality(C)), Candidates(c, C))
  BY <1>3, <1>6 DEF Keeps, Loss
<1>8. leaf \in Held /\ EndOfChain(leaf)
  BY <1>7, LeafFacts DEF EndOfChain
<1>9. k = leaf
  <2>1. PICK i \in Chain(leaf, Held) : c \in evidence[i]
    BY <1>7 DEF Uses
  <2>2. PICK j \in Chain(k, Held) : c \in evidence[j]
    OBVIOUS
  <2>3. i \in Key /\ j \in Key
    BY <1>2, <1>8, ChainBasics DEF Held
  <2>4. i = j
    BY <2>1, <2>2, <2>3, EarnedIs DEF Columns, EarnedBy
  <2> QED BY <1>2, <1>8, <2>4, ChainsMeet
<1>10. C \in SUBSET Key /\ ChainOK(C) /\ Cardinality(C) \in Nat
  <2>1. Held \in SUBSET Key /\ Held \cap Professional \subseteq Held
    BY DEF Held
  <2>2. ChainOK(C)
    BY <1>7, <1>8, <2>1, ChainFacts
  <2> QED BY <2>2, AskedType
<1>11. SlotsUpTo(C, Cardinality(C)) \in Slots
  BY <1>10, SlotsUpToStep
<1>12. Candidates(c, C) \in SUBSET Course
  BY DEF Candidates, Columns
<1>13. ~CanFill(SlotsUpTo(C, Cardinality(C)), Candidates(c, C))
  BY <1>7, <1>11, <1>12, MatchingComplete
<1> QED BY <1>7, <1>9, <1>13

\* Which steps take a rating away.
LEMMA RatingGoes ==
  ASSUME IInv, [Next]_vars, NEW c \in rated, c \notin rated'
  PROVE  \/ c \in Course /\ Deleted(c, Outcome(c))
         \/ \A k \in Key : c \notin evidence[k]
<1>1. rated' # rated
  OBVIOUS
<1>2. CASE \/ UNCHANGED vars
           \/ \E r \in Rule : Redeem(r)
           \/ \E k \in Key : Revoke(k)
           \/ \E f \in Recipe, b \in BOOLEAN : Fuse(f, b)
           \/ \E k \in Person : Dismantle(k)
           \/ \E K \in Catalog : EnableCatalog(K)
           \/ ClearPrimary
  BY <1>1, <1>2 DEF vars, Redeem, Revoke, Fuse, Dismantle, EnableCatalog, ClearPrimary
<1>3. CASE \/ \E p \in Call, d \in Course, t \in Text \cup {NoText} : BeginSubmit(p, d, t)
           \/ \E p \in Call, d \in Course : PreviewDeletion(p, d)
           \/ \E p \in Call, k \in Key : CheckPrimary(p, k)
           \/ \E p \in Call : BeginDelete(p) \/ ClearReviews(p) \/ WritePrimary(p) \/ Stop(p)
  BY <1>1, <1>3 DEF BeginSubmit, PreviewDeletion, CheckPrimary, BeginDelete, ClearReviews,
                    WritePrimary, Stop
<1>4. CASE \E p \in Call : Submit(p)
  BY <1>4 DEF Submit
<1>5. ASSUME NEW p \in Call, DeleteRated(p)
      PROVE  c \in Course /\ Deleted(c, Outcome(c))
  <2>1. Deleted(call[p].course, Outcome(call[p].course))
    BY <1>1, <1>5, DeleteRatedIs
  <2>2. c = call[p].course
    BY <2>1 DEF Deleted
  <2> QED BY <2>1, <2>2 DEF IInv, TypeOK
<1>6. ASSUME NEW p \in Call, ClearRating(p)
      PROVE  \A k \in Key : c \notin evidence[k]
  BY <1>1, <1>6 DEF ClearRating
<1> QED BY <1>2, <1>3, <1>4, <1>5, <1>6 DEF Next

\* The deletion of a rating takes a title only when the ratings that are free cannot
\* fill the slots of its chain, whichever way they are put there
\* (recomputeAchievementsBeforeRatingDeletion).
THEOREM LossesAreNecessary ==
  Spec => TitlesLostOnlyWhenNecessary
<1>1. ASSUME IInv, [Next]_vars, NEW c \in rated \ rated', NEW k \in Leaves,
             \E j \in Chain(k, Held) : c \in evidence[j], title'[k].status = "revoked"
      PROVE  LET chain == Chain(k, Held)
             IN  ~CanFill(SlotsUpTo(chain, Cardinality(chain)), Candidates(c, chain))
  <2>1. TitlesOK /\ EarnedOK /\ Columns
    BY <1>1, TypeColumns DEF IInv
  <2>2. \E j \in Key : c \in evidence[j]
    <3>1. k \in Held
      BY DEF Leaves
    <3> QED BY <1>1, <3>1, ChainBasics DEF Held
  <2>3. c \in Course /\ Deleted(c, Outcome(c))
    BY <1>1, <2>2, RatingGoes
  <2>4. Outcome(c).title[k].status = "revoked"
    BY <1>1, <2>3 DEF Deleted
  <2> QED BY <1>1, <2>1, <2>3, <2>4, LossNecessary
<1>2. IInv /\ [Next]_vars =>
        [\A c \in rated \ rated', k \in Key :
           /\ k \in Professional /\ k \in Leaves
           /\ \E j \in Chain(k, Held) : c \in evidence[j]
           /\ title'[k].status = "revoked"
           => LET chain == Chain(k, Held)
              IN  ~CanFill(SlotsUpTo(chain, Cardinality(chain)),
                           (rated \ {c}) \ UNION {evidence[j] : j \in Key \ chain})]_vars
  BY <1>1 DEF Candidates, Outside
<1> QED BY <1>2, Invariant, PTL DEF Spec, TitlesLostOnlyWhenNecessary

-----------------------------------------------------------------------------
(* Regular ratings first: one chain *)

Whole(C) == SlotsUpTo(C, Cardinality(C))
Evidence(ev, C) == UNION {ev[k] : k \in C}
Spent(ev, C) == {c \in Evidence(ev, C) : IsFallback(c)}
Regular(S) == {c \in S : ~IsFallback(c)}

LEMMA FillMore ==
  ASSUME NEW a, NEW S, NEW T, S \subseteq T, CanFill(a, S)
  PROVE  CanFill(a, T)
<1>1. PICK f \in [DOMAIN a -> S] :
        /\ \A k \in DOMAIN a : Subject[f[k]] \in a[k]
        /\ \A k, l \in DOMAIN a : k # l => f[k] # f[l]
  BY DEF CanFill
<1>2. f \in [DOMAIN a -> T]
  OBVIOUS
<1> QED BY <1>1, <1>2 DEF CanFill

LEMMA FillBoth ==
  ASSUME NEW a \in Slots, NEW b \in Slots, NEW S, NEW T, S \cap T = {},
         CanFill(a, S), CanFill(b, T)
  PROVE  CanFill(a \o b, S \cup T)
<1>1. PICK f \in [DOMAIN a -> S] :
        /\ \A k \in DOMAIN a : Subject[f[k]] \in a[k]
        /\ \A k, l \in DOMAIN a : k # l => f[k] # f[l]
  BY DEF CanFill
<1>2. PICK g \in [DOMAIN b -> T] :
        /\ \A k \in DOMAIN b : Subject[g[k]] \in b[k]
        /\ \A k, l \in DOMAIN b : k # l => g[k] # g[l]
  BY DEF CanFill
<1> DEFINE m == Len(a)
           n == Len(b)
           h == [i \in 1..(m + n) |-> IF i <= m THEN f[i] ELSE g[i - m]]
<1>3. /\ m \in Nat /\ n \in Nat /\ DOMAIN a = 1..m /\ DOMAIN b = 1..n
      /\ DOMAIN (a \o b) = 1..(m + n)
      /\ \A i \in 1..(m + n) : (a \o b)[i] = IF i <= m THEN a[i] ELSE b[i - m]
  BY DEF Slots
<1> HIDE DEF m, n
<1>4. \A i \in 1..(m + n) : /\ i <= m => i \in 1..m
                            /\ ~(i <= m) => i - m \in 1..n
  BY <1>3
<1>5. \A i \in 1..(m + n) : /\ i <= m => h[i] = f[i] /\ h[i] \in S
                            /\ ~(i <= m) => h[i] = g[i - m] /\ h[i] \in T
  BY <1>3, <1>4
<1>6. h \in [DOMAIN (a \o b) -> S \cup T]
  <2>1. \A i \in 1..(m + n) : h[i] \in S \cup T
    BY <1>5
  <2>2. h = [i \in 1..(m + n) |-> h[i]]
    OBVIOUS
  <2> HIDE DEF h
  <2> QED BY <1>3, <2>1, <2>2
<1> HIDE DEF h
<1>7. \A i \in 1..(m + n) : Subject[h[i]] \in (a \o b)[i]
  BY <1>1, <1>2, <1>3, <1>4, <1>5
<1>8. ASSUME NEW i \in 1..(m + n), NEW j \in 1..(m + n), i # j, h[i] = h[j]
      PROVE  FALSE
  <2>1. (i <= m) <=> (j <= m)
    BY <1>5, <1>8
  <2>2. CASE i <= m
    <3>1. i \in DOMAIN a /\ j \in DOMAIN a /\ f[i] = f[j]
      BY <1>3, <1>4, <1>5, <1>8, <2>1, <2>2
    <3> QED BY <1>1, <1>8, <3>1
  <2>3. CASE ~(i <= m)
    <3>1. i - m \in DOMAIN b /\ j - m \in DOMAIN b /\ g[i - m] = g[j - m]
      BY <1>3, <1>4, <1>5, <1>8, <2>1, <2>3
    <3>2. i - m # j - m
      BY <1>3, <1>8
    <3> QED BY <1>2, <3>1, <3>2
  <2> QED BY <2>2, <2>3
<1> QED BY <1>3, <1>6, <1>7, <1>8 DEF CanFill

\* What fills the tiers of a chain one by one fills them together.
LEMMA ChainFilled ==
  ASSUME NEW C, ChainOK(C), NEW ev,
         \A k \in C : CanFill(Asks[title[k].rule], ev[k]),
         \A j, k \in C : j # k => ev[j] \cap ev[k] = {}
  PROVE  CanFill(Whole(C), Evidence(ev, C))
<1> DEFINE n == Cardinality(C)
           upTo(p) == UNION {ev[k] : k \in {j \in C : \E i \in 1..p : Ordered(C)[i] = j}}
           T == {p \in 0..n : ~CanFill(SlotsUpTo(C, p), upTo(p))}
<1>1. C \in SUBSET Key /\ n \in Nat /\ Distinct(C)
      /\ \A i \in 1..n : Ordered(C)[i] \in C /\ AskedAt(C, i) \in Slots
  BY AskedType DEF ChainOK
<1>2. \A i \in 1..n : Place(C, Ordered(C)[i]) = i
  BY <1>1, OrderedIs
<1>3. /\ SlotsUpTo(C, 0) = <<>>
      /\ \A p \in 0..n : SlotsUpTo(C, p) \in Slots
      /\ \A p \in 1..n : SlotsUpTo(C, p) = SlotsUpTo(C, p - 1) \o AskedAt(C, p)
  BY SlotsUpToStep
<1> HIDE DEF n
<1>4. ASSUME NEW p \in 1..n, CanFill(SlotsUpTo(C, p - 1), upTo(p - 1))
      PROVE  CanFill(SlotsUpTo(C, p), upTo(p))
  <2> DEFINE k == Ordered(C)[p]
  <2>1. p - 1 \in 0..n /\ k \in C /\ AskedAt(C, p) \in Slots /\ \A i \in 1..(p - 1) : i # p /\ i \in 1..n
                                                                            /\ i \in 1..p
    BY <1>1
  <2>2. \A i \in 1..(p - 1) : Ordered(C)[i] # k
    BY <1>2, <2>1
  <2>3. upTo(p - 1) \cap ev[k] = {}
    BY <2>1, <2>2
  <2>4. CanFill(AskedAt(C, p), ev[k])
    BY <2>1 DEF AskedAt
  <2>5. SlotsUpTo(C, p - 1) \in Slots
    BY <1>3, <2>1
  <2>6. upTo(p - 1) \cup ev[k] \subseteq upTo(p)
    <3>1. p \in 1..p
      BY <1>1
    <3> QED BY <2>1, <3>1
  <2> HIDE DEF k, upTo
  <2>7. CanFill(SlotsUpTo(C, p - 1) \o AskedAt(C, p), upTo(p - 1) \cup ev[k])
    BY <1>4, <2>1, <2>3, <2>4, <2>5, FillBoth
  <2>8. CanFill(SlotsUpTo(C, p - 1) \o AskedAt(C, p), upTo(p))
    BY <2>6, <2>7, FillMore
  <2> QED BY <1>3, <2>8
<1>5. CanFill(SlotsUpTo(C, 0), upTo(0))
  <2>1. DOMAIN SlotsUpTo(C, 0) = {}
    BY <1>3
  <2> HIDE DEF upTo
  <2> DEFINE e == [x \in {} |-> x]
  <2>2. e \in [{} -> upTo(0)]
    OBVIOUS
  <2> QED BY <2>1, <2>2 DEF CanFill
<1>6. T = {}
  <2>1. SUFFICES ASSUME T # {} PROVE FALSE
    OBVIOUS
  <2>2. T \in SUBSET Nat
    BY <1>1
  <2>3. PICK p \in T : \A l \in T : p <= l
    <3> HIDE DEF T
    <3> QED BY <2>1, <2>2, Smallest
  <2>4. p \in 0..n /\ ~CanFill(SlotsUpTo(C, p), upTo(p))
    OBVIOUS
  <2>5. p # 0
    <3> HIDE DEF upTo
    <3> QED BY <1>5, <2>4
  <2>6. p \in 1..n /\ p - 1 \in 0..n /\ ~(p <= p - 1)
    BY <1>1, <2>4, <2>5
  <2>7. CanFill(SlotsUpTo(C, p - 1), upTo(p - 1))
    BY <2>3, <2>6
  <2> HIDE DEF upTo, T
  <2> QED BY <1>4, <2>4, <2>6, <2>7
<1>7. CanFill(SlotsUpTo(C, n), upTo(n))
  <2>1. n \in 0..n
    BY <1>1
  <2> QED BY <1>6, <2>1
<1>8. upTo(n) \subseteq Evidence(ev, C)
  BY DEF Evidence
<1> HIDE DEF upTo
<1> QED BY <1>7, <1>8, FillMore DEF n, Whole

\* The evaluation selects as few fallback ratings as any way to fill the slots.
LEMMA FewestFallbacks ==
  ASSUME NEW slots \in Slots, NEW S \in SUBSET Course, NEW E \in SUBSET S, CanFill(slots, E)
  PROVE  Cardinality({c \in Selected(slots, S) : IsFallback(c)})
           <= Cardinality({c \in E : IsFallback(c)})
<1> DEFINE N == DOMAIN slots
           R == Regular(S)
           held == Assignment(slots, S)
           T == {k \in N : Assignment(slots, S)[k] \in R}
           X == {c \in Selected(slots, S) : IsFallback(c)}
           Y == {c \in E : IsFallback(c)}
<1>1. PICK f \in [N -> E] :
        /\ \A k \in N : Subject[f[k]] \in slots[k]
        /\ \A k, l \in N : k # l => f[k] # f[l]
  BY DEF CanFill
<1> DEFINE D == {k \in N : ~IsFallback(f[k])}
<1>2. Preferred(R, S)
  BY DEF Preferred, Regular
<1>3. \E g : g \in Injection(D, T)
  <2> DEFINE h == [k \in D |-> f[k]]
  <2>1. h \in [D -> R]
    BY DEF Regular
  <2>2. PartFill(slots, D, R, h)
    BY <1>1, <2>1 DEF PartFill
  <2>3. D \in SUBSET DOMAIN slots
    OBVIOUS
  <2> HIDE DEF D, h, R
  <2> QED BY <1>2, <2>2, <2>3, AsManySeated
<1>4. \E g : g \in Injection(X, N \ T)
  <2> DEFINE g == [c \in X |-> CHOOSE i \in N : held[i] = c]
  <2>1. \A c \in X : g[c] \in N /\ held[g[c]] = c
    BY DEF Selected
  <2>2. \A c \in X : g[c] \notin T
    BY <2>1 DEF Regular
  <2>3. g \in [X -> N \ T]
    BY <2>1, <2>2
  <2>4. \A c, d \in X : g[c] = g[d] => c = d
    BY <2>1
  <2> HIDE DEF g, X, T, N
  <2> QED BY <2>3, <2>4 DEF Injection, IsInjective
<1>5. \E g : g \in Injection(N \ D, Y)
  <2> DEFINE g == [k \in N \ D |-> f[k]]
  <2>1. g \in [N \ D -> Y]
    OBVIOUS
  <2>2. \A k, l \in N \ D : g[k] = g[l] => k = l
    BY <1>1
  <2> HIDE DEF g, D, N, Y
  <2> QED BY <2>1, <2>2 DEF Injection, IsInjective
<1>6. IsFiniteSet(N) /\ T \in SUBSET N /\ D \in SUBSET N
  BY SlotsFinite
<1>7. IsFiniteSet(Y)
  <2>1. Y \in SUBSET Course
    OBVIOUS
  <2> HIDE DEF Y
  <2> QED BY <2>1, CourseAssumption, FS_Subset
<1> HIDE DEF N, T, D, X, Y
<1>8. IsFiniteSet(T) /\ IsFiniteSet(D) /\ Cardinality(T) \in Nat /\ Cardinality(D) \in Nat
  BY <1>6, FS_Subset, FS_CardinalityType
<1>9. /\ IsFiniteSet(N \ T) /\ Cardinality(N \ T) = Cardinality(N) - Cardinality(T)
      /\ IsFiniteSet(N \ D) /\ Cardinality(N \ D) = Cardinality(N) - Cardinality(D)
      /\ Cardinality(N) \in Nat
  <2>1. N \cap T = T /\ N \cap D = D
    BY <1>6
  <2>2. /\ IsFiniteSet(N \ T)
        /\ Cardinality(N \ T) = Cardinality(N) - Cardinality(N \cap T)
    BY <1>6, FS_Difference
  <2>3. /\ IsFiniteSet(N \ D)
        /\ Cardinality(N \ D) = Cardinality(N) - Cardinality(N \cap D)
    BY <1>6, FS_Difference
  <2>4. Cardinality(N) \in Nat
    BY <1>6, FS_CardinalityType
  <2> QED BY <2>1, <2>2, <2>3, <2>4
<1>10. Cardinality(D) <= Cardinality(T)
  BY <1>3, <1>8, FS_Injection
<1>11. IsFiniteSet(X) /\ Cardinality(X) <= Cardinality(N \ T)
  BY <1>4, <1>9, FS_Injection
<1>12. Cardinality(N \ D) <= Cardinality(Y)
  BY <1>5, <1>7, FS_Injection
<1>13. Cardinality(X) \in Nat /\ Cardinality(Y) \in Nat
  BY <1>7, <1>11, FS_CardinalityType
<1>14. Cardinality(X) <= Cardinality(Y)
  BY <1>8, <1>9, <1>10, <1>11, <1>12, <1>13
<1> QED BY <1>14 DEF X, Y

\* A leaf's chain is the same among all titles held as among professional ones.
LEMMA LeafChain ==
  ASSUME TitlesOK, NEW leaf \in Leaves
  PROVE  Chain(leaf, Held \cap Professional) = Chain(leaf, Held)
<1> DEFINE rows == Held \cap Professional
           A == Chain(leaf, rows)
           B == Chain(leaf, Held)
<1>1. /\ Held \in SUBSET Key /\ rows \in SUBSET Key /\ rows \subseteq Held
      /\ leaf \in Held /\ leaf \in rows /\ Held \cap Professional \subseteq rows
      /\ Held \cap Professional \subseteq Held
  BY DEF Leaves, Held
<1>2. /\ leaf \in A /\ A \subseteq rows
      /\ \A x \in A : Prerequisite(x) # NoTitle => Prerequisite(x) \in A
  BY <1>1, ChainFacts
<1>3. /\ leaf \in B /\ B \subseteq Held
      /\ \A x \in B : Prerequisite(x) # NoTitle => Prerequisite(x) \in B
      /\ \A x \in B \ {leaf} : x \in Professional
  BY <1>1, ChainFacts
<1>4. NoTitle \notin Held
  BY <1>1, CatalogAssumption
<1> HIDE DEF A, B, rows
<1>5. A \in SUBSET Held /\ Closed(A, Held)
  BY <1>1, <1>2, <1>4 DEF Closed
<1>6. B \in SUBSET rows /\ Closed(B, rows)
  BY <1>1, <1>3, <1>4 DEF Closed, rows
<1>7. B \subseteq A
  BY <1>1, <1>2, <1>5, ChainBasics DEF B
<1>8. A \subseteq B
  BY <1>1, <1>3, <1>6, ChainBasics DEF A
<1> QED BY <1>7, <1>8 DEF A, B, rows

\* Rebinding one chain changes no other, spends no more fallback ratings, and none
\* where regular ones could do.
ReboundWell(ratings, ev, ev2, leaf) ==
  LET C == Chain(leaf, Held) IN
  /\ \A k \in Key \ C : ev2[k] = ev[k]
  /\ Cardinality(Spent(ev2, C)) <= Cardinality(Spent(ev, C))
  /\ CanFill(Whole(C), Regular(ratings \ Outside(ev, C))) => Spent(ev2, C) = {}

LEMMA ReboundOne ==
  ASSUME TitlesOK, NEW ratings \in SUBSET Course, NEW ev, EarnedBy(ratings, ev),
         NEW leaf \in Leaves
  PROVE  ReboundWell(ratings, ev, Rebound(ratings, ev, leaf), leaf)
<1> DEFINE C == Chain(leaf, Held)
           n == Cardinality(C)
           S == ratings \ Outside(ev, C)
           e2 == Rewritten(ev, C, n, S)
           slots == Whole(C)
           fallback == \E k \in C : \E c \in ev[k] : IsFallback(c)
<1>1. /\ Held \in SUBSET Key /\ leaf \in Held /\ Held \cap Professional \subseteq Held
      /\ Chain(leaf, Held \cap Professional) = C
  BY LeafChain DEF Leaves, Held
<1>2. Rebound(ratings, ev, leaf) = IF fallback /\ Eligible(slots, S) THEN e2 ELSE ev
  BY <1>1 DEF Rebound, Whole
<1>3. C \subseteq Held /\ ChainOK(C) /\ \A x \in C \ {leaf} : x \in Professional
  BY <1>1, ChainFacts
<1>4. /\ C \in SUBSET Key /\ n \in Nat /\ n > 0 /\ \A x \in C : Place(C, x) \in 1..n
  BY <1>1, ChainPlaces
<1>5. C \subseteq Professional
  BY <1>3 DEF Leaves
<1>6. slots \in Slots /\ S \in SUBSET Course /\ S \subseteq ratings
  BY <1>3, <1>4, SlotsUpToStep DEF Whole
<1>7. Evidence(ev, C) \in SUBSET S
  <2> SUFFICES ASSUME NEW k \in C, NEW c \in ev[k] PROVE c \in S
    BY DEF Evidence
  <2>1. c \in ratings
    BY <1>3, <1>5 DEF EarnedBy
  <2>2. \A j \in Key \ C : c \notin ev[j]
    BY <1>4 DEF EarnedBy
  <2> QED BY <2>1, <2>2 DEF Outside
<1>8. CanFill(slots, Evidence(ev, C))
  <2>1. \A k \in C : CanFill(Asks[title[k].rule], ev[k])
    BY <1>3, <1>5 DEF EarnedBy, Fills
  <2>2. \A j, k \in C : j # k => ev[j] \cap ev[k] = {}
    BY <1>4 DEF EarnedBy
  <2> HIDE DEF C
  <2> QED BY <1>3, <2>1, <2>2, ChainFilled
<1> HIDE DEF C, n, S, slots, e2
<1>9. ~fallback <=> Spent(ev, C) = {}
  BY DEF Spent, Evidence
<1>10. Eligible(slots, S)
  <2>1. CanFill(slots, S)
    BY <1>7, <1>8, FillMore
  <2> QED BY <1>6, <2>1, MatchingComplete
<1>11. \A k \in Key \ C : e2[k] = ev[k]
  BY DEF e2, Rewritten
<1>12. Spent(e2, C) \subseteq {c \in Selected(slots, S) : IsFallback(c)}
  <2> SUFFICES ASSUME NEW k \in C, NEW c \in e2[k] PROVE c \in Selected(slots, S)
    BY DEF Spent, Evidence
  <2>1. k \in Key /\ ~(Place(C, k) > n) /\ Place(C, k) \in 1..n
    BY <1>4
  <2>2. c \in S /\ \E i \in SlotsOf(C, Place(C, k)) : Assignment(slots, S)[i] = c
    BY <2>1 DEF e2, Rewritten, slots, Whole, n
  <2>3. SlotsOf(C, Place(C, k)) \subseteq DOMAIN slots
    <3> DEFINE p == Place(C, k)
               b == Len(SlotsUpTo(C, p - 1))
               w == Len(AskedAt(C, p))
    <3>1. n \in 0..Cardinality(C) /\ p \in 1..n
      BY <1>4, <2>1 DEF n
    <3>2. /\ b \in Nat /\ w \in Nat /\ SlotsOf(C, p) = (b + 1)..(b + w)
          /\ b + w <= Len(SlotsUpTo(C, n)) /\ Len(SlotsUpTo(C, n)) \in Nat
      BY <1>3, <3>1, SlotsOfTier
    <3>3. DOMAIN slots = 1..Len(SlotsUpTo(C, n))
      BY <1>6 DEF Slots, slots, Whole, n
    <3> HIDE DEF b, w, p
    <3> QED BY <3>2, <3>3 DEF p
  <2> QED BY <2>2, <2>3 DEF Selected
<1>13. /\ IsFiniteSet(Spent(e2, C)) /\ IsFiniteSet(Spent(ev, C))
       /\ Cardinality(Spent(e2, C)) <= Cardinality({c \in Selected(slots, S) : IsFallback(c)})
       /\ Cardinality({c \in Selected(slots, S) : IsFallback(c)}) \in Nat
       /\ Cardinality(Spent(e2, C)) \in Nat /\ Cardinality(Spent(ev, C)) \in Nat
  <2> DEFINE X == {c \in Selected(slots, S) : IsFallback(c)}
  <2>1. X \in SUBSET Course /\ Spent(ev, C) \in SUBSET Course
    BY <1>6, <1>7 DEF Selected, Spent
  <2> HIDE DEF X
  <2>2. IsFiniteSet(X) /\ IsFiniteSet(Spent(ev, C))
    BY <2>1, CourseAssumption, FS_Subset
  <2>3. Spent(e2, C) \in SUBSET X
    BY <1>12 DEF X
  <2>4. IsFiniteSet(Spent(e2, C)) /\ Cardinality(Spent(e2, C)) <= Cardinality(X)
    BY <2>2, <2>3, FS_Subset
  <2> QED BY <2>2, <2>4, FS_CardinalityType DEF X
<1>14. Cardinality({c \in Selected(slots, S) : IsFallback(c)}) <= Cardinality(Spent(ev, C))
  BY <1>6, <1>7, <1>8, FewestFallbacks DEF Spent
<1>15. Cardinality(Spent(e2, C)) <= Cardinality(Spent(ev, C))
  BY <1>13, <1>14
<1>16. ASSUME CanFill(slots, Regular(S)) PROVE Spent(e2, C) = {}
  <2>1. Preferred(Regular(S), S)
    BY DEF Preferred, Regular
  <2>2. \A i \in DOMAIN slots : Assignment(slots, S)[i] \in Regular(S)
    BY <1>6, <1>16, <2>1, AllSeated
  <2>3. \A c \in Selected(slots, S) : c \in Regular(S)
    BY <2>2 DEF Selected
  <2> QED BY <1>12, <2>3 DEF Regular
<1>17. CASE fallback
  <2>1. Rebound(ratings, ev, leaf) = e2
    BY <1>2, <1>10, <1>17
  <2> QED BY <1>11, <1>15, <1>16, <2>1 DEF ReboundWell, C, S, slots
<1>18. CASE ~fallback
  <2>1. Rebound(ratings, ev, leaf) = ev /\ Spent(ev, C) = {}
    BY <1>2, <1>9, <1>18
  <2>2. Cardinality(Spent(ev, C)) <= Cardinality(Spent(ev, C))
    BY <1>13
  <2> QED BY <2>1, <2>2 DEF ReboundWell, C
<1> QED BY <1>17, <1>18

-----------------------------------------------------------------------------
(* Regular ratings first: all chains, one after the other *)

\* Each leaf comes once.
LEMMA OrderIs ==
  ASSUME NEW order \in Orders(Leaves)
  PROVE  LET n == Len(order)
         IN  /\ n \in Nat /\ order \in [1..n -> Leaves]
             /\ \A k \in Leaves : \E i \in 1..n : order[i] = k
             /\ \A i, j \in 1..n : order[i] = order[j] => i = j
<1> DEFINE n == Cardinality(Leaves)
<1>1. IsFiniteSet(Leaves) /\ n \in Nat
  <2>1. Leaves \in SUBSET Key
    BY DEF Leaves, Held
  <2> QED BY <2>1, CatalogAssumption, FS_Subset, FS_CardinalityType
<1>2. /\ order \in [1..n -> Leaves]
      /\ \A k \in Leaves : \E i \in 1..n : order[i] = k
  BY DEF Orders
<1> HIDE DEF n
<1>3. Len(order) = n
  <2>1. order \in Seq(Leaves)
    BY <1>1, <1>2
  <2> QED BY <1>1, <1>2, <2>1
<1>4. order \in Surjection(1..n, Leaves)
  BY <1>2 DEF Surjection
<1>5. IsFiniteSet(1..n) /\ Cardinality(1..n) = n
  <2>1. IsFiniteSet(1..n) /\ Cardinality(1..n) = IF 1 > n THEN 0 ELSE n - 1 + 1
    BY <1>1, FS_Interval
  <2> QED BY <1>1, <2>1
<1>6. order \in Injection(1..n, Leaves)
  BY <1>4, <1>5, FS_Surjection DEF n
<1>7. \A i, j \in 1..n : order[i] = order[j] => i = j
  BY <1>6 DEF Injection, IsInjective
<1> QED BY <1>1, <1>2, <1>3, <1>7

\* The chains are rebound in order: f stands for the evidence after each of them.
InTurn(ratings, order, f) ==
  /\ \A i \in 1..Len(order) : ReboundWell(ratings, f[i - 1], f[i], order[i])
  /\ \A i \in 0..Len(order) : EarnedBy(ratings, f[i])
  /\ f[0] = evidence

LEMMA ReboundInTurn ==
  ASSUME TitlesOK, NEW ratings \in SUBSET Course, EarnedBy(ratings, evidence),
         NEW order \in Orders(Leaves)
  PROVE  \E f : InTurn(ratings, order, f) /\ ReboundAll(ratings, order) = f[Len(order)]
<1> DEFINE n == Len(order)
<1>1. n \in Nat /\ \A i \in 1..n : order[i] \in Leaves
  BY OrderIs
<1> HIDE DEF n
<1>2. PICK f : IsAfter(ratings, order, n, f) /\ ReboundAll(ratings, order) = f[n]
  BY <1>1, ReboundAllIs DEF n
<1>3. \A i \in 0..n : f[i] = IF i = 0 THEN evidence ELSE Rebound(ratings, f[i - 1], order[i])
  BY <1>2 DEF IsAfter
<1>4. \A i \in 1..n : i - 1 \in 0..n /\ i \in 0..n /\ i # 0 /\ ~(i <= i - 1)
  BY <1>1
<1>5. \A i \in 1..n : f[i] = Rebound(ratings, f[i - 1], order[i])
  BY <1>3, <1>4
<1>6. f[0] = evidence /\ 0 \in 0..n
  BY <1>1, <1>3
<1> DEFINE T == {i \in 0..n : ~EarnedBy(ratings, f[i])}
<1>7. T = {}
  <2>1. SUFFICES ASSUME T # {} PROVE FALSE
    OBVIOUS
  <2>2. T \in SUBSET Nat
    BY <1>1
  <2>3. PICK i \in T : \A l \in T : i <= l
    <3> HIDE DEF T
    <3> QED BY <2>1, <2>2, Smallest
  <2>4. i \in 0..n /\ ~EarnedBy(ratings, f[i])
    OBVIOUS
  <2>5. i \in 1..n
    BY <1>1, <1>6, <2>4
  <2>6. EarnedBy(ratings, f[i - 1])
    BY <1>4, <2>3, <2>5
  <2>7. EarnedBy(ratings, Rebound(ratings, f[i - 1], order[i]))
    BY <1>1, <2>5, <2>6, ReboundEarned
  <2> QED BY <1>5, <2>4, <2>5, <2>7
<1>8. \A i \in 0..n : EarnedBy(ratings, f[i])
  BY <1>7
<1>9. \A i \in 1..n : ReboundWell(ratings, f[i - 1], f[i], order[i])
  BY <1>1, <1>4, <1>5, <1>8, ReboundOne
<1> QED BY <1>2, <1>6, <1>8, <1>9 DEF InTurn, n

\* A title keeps its evidence while other chains are rebound.
LEMMA Steady ==
  ASSUME NEW ratings, NEW order \in Orders(Leaves), NEW f, InTurn(ratings, order, f),
         NEW k \in Key, NEW a \in 0..Len(order), NEW b \in a..Len(order),
         \A i \in (a + 1)..b : k \notin Chain(order[i], Held)
  PROVE  f[b][k] = f[a][k]
<1> DEFINE T == {i \in a..b : f[i][k] # f[a][k]}
<1>1. Len(order) \in Nat
  BY OrderIs
<1>2. a \in Nat /\ b \in Nat /\ b \in a..b
  BY <1>1
<1>3. SUFFICES ASSUME T # {} PROVE FALSE
  BY <1>2
<1>4. T \in SUBSET Nat
  BY <1>2
<1>5. PICK i \in T : \A l \in T : i <= l
  <2> HIDE DEF T
  <2> QED BY <1>3, <1>4, Smallest
<1>6. i \in a..b /\ f[i][k] # f[a][k]
  OBVIOUS
<1>7. i \in (a + 1)..b
  BY <1>2, <1>6
<1>8. i - 1 \in a..b /\ ~(i <= i - 1) /\ i \in 1..Len(order)
  BY <1>1, <1>2, <1>7
<1>9. f[i - 1][k] = f[a][k]
  BY <1>5, <1>8
<1>10. k \in Key \ Chain(order[i], Held)
  BY <1>7
<1>11. f[i][k] = f[i - 1][k]
  BY <1>8, <1>10 DEF InTurn, ReboundWell
<1> QED BY <1>6, <1>9, <1>11

\* The chains of two leaves have no title in common.
LEMMA ApartFromOthers ==
  ASSUME TitlesOK, NEW order \in Orders(Leaves),
         NEW i \in 1..Len(order), NEW k \in Chain(order[i], Held)
  PROVE  \A j \in 1..Len(order) : j # i => k \notin Chain(order[j], Held)
<1>1. \A j \in 1..Len(order) : order[j] \in Leaves
  BY OrderIs
<1>2. \A j \in 1..Len(order) : j # i => order[j] # order[i]
  BY OrderIs
<1>3. \A j \in 1..Len(order) : EndOfChain(order[j])
  BY <1>1, LeavesEnd
<1> QED BY <1>2, <1>3, ChainsMeet

\* The evidence of a title changes once at most.
LEMMA BeforeOrAfter ==
  ASSUME TitlesOK, NEW ratings, NEW order \in Orders(Leaves), NEW f, InTurn(ratings, order, f),
         NEW k \in Key, NEW m \in 0..Len(order)
  PROVE  f[m][k] \in {evidence[k], f[Len(order)][k]}
<1> DEFINE n == Len(order)
<1>1. /\ n \in Nat /\ m \in Nat /\ 0 \in 0..n /\ m \in 0..m /\ n \in m..n /\ 0 \in 0..m
      /\ m \in 0..n /\ \A i \in 1..m : i \in 1..n
      /\ \A i \in (m + 1)..n : i \in 1..n /\ i > m
  BY OrderIs
<1>2. CASE \E i \in 1..m : k \in Chain(order[i], Held)
  <2>1. PICK i \in 1..m : k \in Chain(order[i], Held)
    BY <1>2
  <2>2. i \in 1..n /\ \A j \in (m + 1)..n : j # i
    BY <1>1, <2>1
  <2>3. \A j \in (m + 1)..n : k \notin Chain(order[j], Held)
    BY <1>1, <2>1, <2>2, ApartFromOthers
  <2>4. f[n][k] = f[m][k]
    <3>1. m \in 0..Len(order) /\ n \in m..Len(order)
      BY <1>1
    <3>2. \A b \in m..Len(order) :
            (\A j \in (m + 1)..b : k \notin Chain(order[j], Held)) => f[b][k] = f[m][k]
      BY Steady
    <3> QED BY <2>3, <3>1, <3>2
  <2> QED BY <2>4
<1>3. CASE \A i \in 1..m : k \notin Chain(order[i], Held)
  <2>1. \A i \in (0 + 1)..m : k \notin Chain(order[i], Held)
    BY <1>3
  <2>2. f[m][k] = f[0][k]
    <3>1. 0 \in 0..Len(order) /\ m \in 0..Len(order)
      BY <1>1
    <3> QED BY <2>1, <3>1, Steady
  <2> QED BY <2>2 DEF InTurn
<1> QED BY <1>2, <1>3

LEMMA ReboundAllWell ==
  ASSUME TitlesOK, NEW ratings \in SUBSET Course, EarnedBy(ratings, evidence),
         NEW order \in Orders(Leaves), NEW ev2, ev2 = ReboundAll(ratings, order),
         NEW leaf \in Leaves
  PROVE  LET C == Chain(leaf, Held)
             free == ratings \ (Outside(evidence, C) \cup Outside(ev2, C))
         IN  /\ Cardinality(Spent(ev2, C)) <= Cardinality(Spent(evidence, C))
             /\ CanFill(Whole(C), Regular(free)) => Spent(ev2, C) = {}
<1> DEFINE n == Len(order)
           C == Chain(leaf, Held)
           free == ratings \ (Outside(evidence, C) \cup Outside(ev2, C))
<1>0. PICK f : InTurn(ratings, order, f) /\ ReboundAll(ratings, order) = f[n]
  BY ReboundInTurn
<1>1. InTurn(ratings, order, f) /\ ev2 = f[n]
  BY <1>0
<1>2. PICK i \in 1..n : order[i] = leaf
  BY OrderIs
<1>3. /\ n \in Nat /\ 0 \in 0..n /\ i - 1 \in 0..n /\ i \in 0..n /\ n \in i..n /\ i - 1 \in 0..n
      /\ \A j \in 1..(i - 1) : j \in 1..n /\ j # i
      /\ \A j \in (i + 1)..n : j \in 1..n /\ j # i
  BY <1>2, OrderIs
<1>4. C \in SUBSET Key
  <2>1. leaf \in Held
    BY DEF Leaves
  <2> QED BY <2>1, ChainBasics DEF Held
<1>5. \A k \in C : f[i - 1][k] = evidence[k] /\ f[i][k] = ev2[k]
  <2> SUFFICES ASSUME NEW k \in C
               PROVE  f[i - 1][k] = evidence[k] /\ f[i][k] = ev2[k]
    OBVIOUS
  <2>1. k \in Key /\ k \in Chain(order[i], Held)
    BY <1>2, <1>4
  <2> HIDE DEF C, n
  <2>2. \A j \in 1..n : j # i => k \notin Chain(order[j], Held)
    BY <1>2, <2>1, ApartFromOthers DEF n
  <2>3. \A j \in (0 + 1)..(i - 1) : k \notin Chain(order[j], Held)
    BY <1>3, <2>2
  <2>4. f[i - 1][k] = f[0][k]
    <3> DEFINE b == i - 1
    <3>1. 0 \in 0..Len(order) /\ b \in 0..Len(order)
      BY <1>3 DEF n
    <3>2. \A j \in (0 + 1)..b : k \notin Chain(order[j], Held)
      BY <2>3
    <3>3. InTurn(ratings, order, f) /\ k \in Key
      BY <1>1, <2>1
    <3> HIDE DEF b
    <3>4. f[b][k] = f[0][k]
      BY <3>1, <3>2, <3>3, Steady
    <3> QED BY <3>4 DEF b
  <2>5. \A j \in (i + 1)..n : k \notin Chain(order[j], Held)
    BY <1>3, <2>2
  <2>6. f[n][k] = f[i][k]
    <3>1. i \in 0..Len(order) /\ n \in i..Len(order)
      BY <1>3 DEF n
    <3>2. InTurn(ratings, order, f) /\ k \in Key
      BY <1>1, <2>1
    <3> QED BY <2>5, <3>1, <3>2, Steady
  <2> QED BY <1>1, <2>4, <2>6 DEF InTurn
<1>6. free \subseteq ratings \ Outside(f[i - 1], C)
  <2> DEFINE b == i - 1
  <2>0. InTurn(ratings, order, f) /\ b \in 0..Len(order)
    BY <1>1, <1>3
  <2> HIDE DEF b
  <2>1. \A k \in Key : f[b][k] \in {evidence[k], ev2[k]}
    BY <1>1, <2>0, BeforeOrAfter
  <2> QED BY <2>1 DEF Outside, b
<1>7. ReboundWell(ratings, f[i - 1], f[i], leaf)
  BY <1>1, <1>2 DEF InTurn
<1> HIDE DEF C, free
<1>8. Spent(f[i - 1], C) = Spent(evidence, C) /\ Spent(f[i], C) = Spent(ev2, C)
  BY <1>5 DEF Spent, Evidence
<1>9. Cardinality(Spent(ev2, C)) <= Cardinality(Spent(evidence, C))
  BY <1>7, <1>8 DEF ReboundWell, C
<1>10. ASSUME CanFill(Whole(C), Regular(free)) PROVE Spent(ev2, C) = {}
  <2>1. Regular(free) \subseteq Regular(ratings \ Outside(f[i - 1], C))
    BY <1>6 DEF Regular
  <2>2. CanFill(Whole(C), Regular(ratings \ Outside(f[i - 1], C)))
    BY <1>10, <2>1, FillMore
  <2> QED BY <1>7, <1>8, <2>2 DEF ReboundWell, C
<1> QED BY <1>9, <1>10 DEF C, free

\* Only a submission adds a rating.
LEMMA RatingComes ==
  ASSUME IInv, [Next]_vars, rated' # rated, rated \subseteq rated'
  PROVE  \E p \in Call : Submit(p)
<1>1. CASE \/ UNCHANGED vars
           \/ \E r \in Rule : Redeem(r)
           \/ \E k \in Key : Revoke(k)
           \/ \E f \in Recipe, b \in BOOLEAN : Fuse(f, b)
           \/ \E k \in Person : Dismantle(k)
           \/ \E K \in Catalog : EnableCatalog(K)
           \/ ClearPrimary
  BY <1>1 DEF vars, Redeem, Revoke, Fuse, Dismantle, EnableCatalog, ClearPrimary
<1>2. CASE \/ \E p \in Call, d \in Course, t \in Text \cup {NoText} : BeginSubmit(p, d, t)
           \/ \E p \in Call, d \in Course : PreviewDeletion(p, d)
           \/ \E p \in Call, k \in Key : CheckPrimary(p, k)
           \/ \E p \in Call : BeginDelete(p) \/ ClearReviews(p) \/ WritePrimary(p) \/ Stop(p)
  BY <1>2 DEF BeginSubmit, PreviewDeletion, CheckPrimary, BeginDelete, ClearReviews,
              WritePrimary, Stop
<1>3. ASSUME NEW p \in Call, DeleteRated(p) PROVE FALSE
  BY <1>3, DeleteRatedIs DEF Deleted
<1>4. ASSUME NEW p \in Call, ClearRating(p) PROVE FALSE
  BY <1>4 DEF ClearRating
<1> QED BY <1>1, <1>2, <1>3, <1>4 DEF Next

\* Whoever rates one more course never pays with more fallback ratings, and a chain
\* that could do without any, with regular ratings no other title uses before or
\* afterwards, does so: whatever the order the database returns the chains in
\* (rebindFallbackAchievementEvidenceAfterRatingChange).
THEOREM FallbacksLast ==
  Spec => RegularRatingsFirst
<1>1. ASSUME IInv, [Next]_vars, rated' # rated, rated \subseteq rated', NEW leaf \in Leaves
      PROVE  LET C == Chain(leaf, Held)
                 free == rated' \ (Outside(evidence, C) \cup Outside(evidence', C))
             IN  /\ Cardinality(Spent(evidence', C)) <= Cardinality(Spent(evidence, C))
                 /\ CanFill(Whole(C), Regular(free)) => Spent(evidence', C) = {}
  <2>1. TitlesOK /\ EarnedOK /\ Columns
    BY <1>1, TypeColumns DEF IInv
  <2>2. PICK p \in Call : Submit(p)
    BY <1>1, RatingComes
  <2>3. PICK order \in Orders(Leaves) : evidence' = ReboundAll(rated', order)
    BY <2>2 DEF Submit
  <2>4. rated' \in SUBSET Course
    <3>1. call[p].course \in Course
      BY <1>1, <2>2 DEF IInv, CallsOK, Submit, At
    <3> QED BY <2>1, <2>2, <3>1 DEF Submit, Columns
  <2>5. EarnedBy(rated', evidence)
    <3>1. EarnedBy(rated, evidence)
      BY <2>1, EarnedIs DEF Columns
    <3> QED BY <1>1, <3>1 DEF EarnedBy
  <2> QED BY <2>1, <2>3, <2>4, <2>5, ReboundAllWell
<1>2. IInv /\ [Next]_vars =>
        [rated' # rated /\ rated \subseteq rated' =>
           \A k \in Leaves :
             LET chain == Chain(k, Held)
                 spent(ev) == {c \in UNION {ev[j] : j \in chain} : IsFallback(c)}
                 free == rated' \ (Outside(evidence, chain) \cup Outside(evidence', chain))
                 regular == {c \in free : ~IsFallback(c)}
             IN  /\ Cardinality(spent(evidence')) <= Cardinality(spent(evidence))
                 /\ CanFill(SlotsUpTo(chain, Cardinality(chain)), regular)
                    => spent(evidence') = {}]_vars
  BY <1>1 DEF Spent, Evidence, Whole, Regular
<1> QED BY <1>2, Invariant, PTL DEF Spec, RegularRatingsFirst
=============================================================================
