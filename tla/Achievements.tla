---------------------------- MODULE Achievements ----------------------------
(***************************************************************************)
(* Course submissions and the titles they earn, for one student             *)
(* (src/lib/course-review-actions.ts, achievement-actions.ts,               *)
(* achievement-fusion-actions.ts, achievement-recompute-db.ts).             *)
(*                                                                         *)
(* A submission is a rating and perhaps a text.  Ratings redeem titles; a   *)
(* rating is evidence for at most one title and cannot be deleted while it  *)
(* is.  The titles of a programme form a chain: a higher tier supersedes    *)
(* the one it requires.  A person title is fused from professional ones.    *)
(*                                                                         *)
(* Everything that changes titles runs under the student's advisory lock,   *)
(* so it is one step here.  The calls that read before they take it, and    *)
(* the deletion, whose own lock is another one, are several steps.          *)
(***************************************************************************)
EXTENDS SubjectMatching

CONSTANTS
  Key,           \* rule keys; a student has at most one title of each
  Person,        \* the keys of person titles
  Tier,          \* [Key -> tier]
  Rule,          \* versions of rules
  KeyOf,         \* [Rule -> Key]
  Requires,      \* [Rule -> Key or NoTitle], prerequisiteRuleKey
  Asks,          \* [Rule -> Slots]
  Catalog,       \* the sets of rules an administrator enables together
  Recipe,        \* published recipes: [target : Person, sources : SUBSET Key]
  Text,          \* what a student may write
  Review,        \* ids of rows of course_reviews (a bound)
  Call,          \* calls of the student's browser windows
  Bound,         \* while a catalog is enabled: the courses and the texts of the
                 \* student's calls, how many overlap, the catalogs that follow
  NoTitle, NoRule, NoText, NoReview

TierName == {"bronze", "silver", "gold"}
Rank == [bronze |-> 0, silver |-> 1, gold |-> 2]
Professional == Key \ Person

ASSUME CatalogAssumption ==
  /\ Person \subseteq Key
  /\ IsFiniteSet(Key)
  /\ Tier \in [Key -> TierName]
  /\ KeyOf \in [Rule -> Key]
  /\ Requires \in [Rule -> Professional \cup {NoTitle}]
  /\ Asks \in [Rule -> Slots]
  /\ Catalog \subseteq SUBSET Rule
  /\ \A K \in Catalog : \A r, s \in K : KeyOf[r] = KeyOf[s] => r = s
  /\ \A K \in Catalog : \A r \in K : KeyOf[r] \in Professional
  /\ NoTitle \notin Key /\ NoRule \notin Rule

\* validateAchievementCatalog and createPersonTitleRecipe accept nothing else.
ASSUME TierAssumption ==
  /\ \A r \in Rule : Requires[r] # NoTitle =>
       Rank[Tier[Requires[r]]] < Rank[Tier[KeyOf[r]]]
  /\ \A k \in Person : Tier[k] = "gold"
  /\ \A f \in Recipe :
       /\ f.target \in Person
       /\ \/ \E j, k \in Professional :
               /\ j # k /\ f.sources = {j, k}
               /\ Tier[j] = "bronze" /\ Tier[k] = "bronze"
          \/ \E k \in Professional : f.sources = {k} /\ Tier[k] = "gold"

\* The rule row that stands behind each person title; it has no prerequisite.
ASSUME PersonRuleAssumption ==
  /\ \A f \in Recipe : \E r \in Rule : KeyOf[r] = f.target
  /\ \A r \in Rule : KeyOf[r] \in Person => Requires[r] = NoTitle

ASSUME ReviewAssumption ==
  /\ Bound \in [Catalog -> [courses : SUBSET Course, texts : SUBSET Text,
                            calls : Nat, next : SUBSET Catalog]]
  /\ NoText \notin Text /\ NoReview \notin Review

VARIABLES
  rated,     \* courses the student has rated (course_ratings)
  reviews,   \* [Course -> set of rows of course_reviews]
  title,     \* [Key -> row of user_achievements]
  evidence,  \* [Key -> ratings its title is earned with]
  sources,   \* [Person -> titles an active person title is fused from]
  primary,   \* the title shown next to the student's name
  enabled,   \* enabled versions of professional rules
  call,      \* [Call -> what a call in progress has read]
  stranded   \* history: sources of person titles that were revoked, not dismantled

titleVars == <<title, evidence, sources, primary>>
vars == <<rated, reviews, titleVars, enabled, call, stranded>>

-----------------------------------------------------------------------------
Status == {"absent", "active", "superseded", "revoked"}
Impact == {"unchanged", "preserved", "downgraded", "revoked", "dismantled"}
\* Mutant: taking a person title apart needs no confirmation.
LossOfTier == {"downgraded", "revoked"}

Loss == {"downgraded", "revoked", "dismantled"}

IdleCall ==
  [step |-> "idle", course |-> Free, text |-> NoText, seen |-> {}, found |-> NoReview,
   title |-> NoTitle, expected |-> "unchanged"]

Init ==
  /\ rated = {}
  /\ reviews = [c \in Course |-> {}]
  /\ title = [k \in Key |-> [status |-> "absent", rule |-> NoRule]]
  /\ evidence = [k \in Key |-> {}]
  /\ sources = [k \in Person |-> {}]
  /\ primary = NoTitle
  /\ enabled \in Catalog
  /\ call = [p \in Call |-> IdleCall]
  /\ stranded = {}

-----------------------------------------------------------------------------
(* Titles and their chains *)

Active(k) == title[k].status = "active"
Held == {k \in Key : title[k].status \in {"active", "superseded"}}
Exists == {k \in Key : title[k].status # "absent"}
Prerequisite(k) == IF title[k].rule = NoRule THEN NoTitle ELSE Requires[title[k].rule]

\* The titles reached from k by following prerequisites through rows.
Chain(k, rows) ==
  {t \in rows : \A S \in SUBSET rows :
     (k \in S /\ \A s \in S : Prerequisite(s) \in rows => Prerequisite(s) \in S) => t \in S}

\* A chain, the first tier first; its slots up to the n-th tier, and those of
\* the n-th tier alone.
Ordered(chain) ==
  CHOOSE s \in [1..Cardinality(chain) -> chain] :
    \A i, j \in 1..Cardinality(chain) : i < j => Rank[Tier[s[i]]] < Rank[Tier[s[j]]]

Place(chain, k) == Cardinality({j \in chain : Rank[Tier[j]] <= Rank[Tier[k]]})

SlotsUpTo(chain, n) ==
  LET order == Ordered(chain)
      upTo[i \in 0..n] ==
        IF i = 0 THEN <<>> ELSE upTo[i - 1] \o Asks[title[order[i]].rule]
  IN  upTo[n]

SlotsOf(chain, n) == (Len(SlotsUpTo(chain, n - 1)) + 1)..Len(SlotsUpTo(chain, n))

Outside(ev, chain) == UNION {ev[k] : k \in Key \ chain}

\* The evidence of a chain rewritten so that its first n tiers hold what the
\* evaluation of all their slots together selects.
Rewritten(ev, chain, n, candidates) ==
  LET slots == SlotsUpTo(chain, n)
      held == Assignment(slots, candidates)
  IN  [k \in Key |->
         IF k \notin chain THEN ev[k]
         ELSE IF Place(chain, k) > n THEN {}
         ELSE {c \in candidates : \E i \in SlotsOf(chain, Place(chain, k)) : held[i] = c}]

\* user_achievements_active_silver_uq, user_achievements_active_gold_uq and
\* achievement_evidence_rating_uq: a transaction that breaks one rolls back.
UniqueRows(rows, ev) ==
  /\ \A j, k \in Key :
       /\ j # k /\ rows[j].status = "active" /\ rows[k].status = "active"
       /\ Tier[j] = Tier[k]
       => Tier[j] = "bronze"
  /\ \A j, k \in Key : j # k => ev[j] \cap ev[k] = {}

-----------------------------------------------------------------------------
(* Redeeming, revoking, fusing, dismantling *)

Redeem(r) ==
  LET k == KeyOf[r]
      needed == Requires[r]
      free == rated \ Outside(evidence, {})
      rows == [j \in Key |->
                 IF j = k THEN [status |-> "active", rule |-> r]
                 ELSE IF j = needed THEN [title[j] EXCEPT !.status = "superseded"]
                 ELSE title[j]]
      ev == [evidence EXCEPT ![k] = @ \cup Selected(Asks[r], free)]
  IN
  /\ r \in enabled
  /\ k \notin Held
  /\ needed # NoTitle => Active(needed)
  /\ Tier[k] # "bronze" => \A j \in Professional : Active(j) => Tier[j] # Tier[k]
  /\ Eligible(Asks[r], free)
  /\ UniqueRows(rows, ev)
  /\ title' = rows
  /\ evidence' = ev
  /\ primary' = IF needed # NoTitle /\ primary = needed THEN k ELSE primary
  /\ UNCHANGED <<rated, reviews, sources, enabled, call, stranded>>

\* Mutant: only the title itself is revoked.
RevokeOne(k) ==
  /\ Active(k)
  /\ title' = [title EXCEPT ![k].status = "revoked"]
  /\ evidence' = [evidence EXCEPT ![k] = {}]
  /\ primary' = IF primary = k THEN NoTitle ELSE primary
  /\ stranded' = stranded \cup (IF k \in Person THEN sources[k] ELSE {})
  /\ UNCHANGED <<rated, reviews, sources, enabled, call>>

\* revokeProfessionalAchievement: the whole chain goes.  It takes any title; a
\* person title leaves its sources behind, superseded.
Revoke(k) ==
  LET chain == Chain(k, Exists) IN
  /\ Active(k)
  /\ title' = [j \in Key |-> IF j \in chain THEN [title[j] EXCEPT !.status = "revoked"]
                             ELSE title[j]]
  /\ evidence' = [j \in Key |-> IF j \in chain THEN {} ELSE evidence[j]]
  /\ primary' = IF primary = k THEN NoTitle ELSE primary
  /\ stranded' = stranded \cup (IF k \in Person THEN sources[k] ELSE {})
  /\ UNCHANGED <<rated, reviews, sources, enabled, call>>

\* Mutant: the name goes on showing a title that was fused.
FuseKeepsPrimary(f, makePrimary) ==
  /\ \A k \in f.sources : Active(k)
  /\ \A k \in Key \ f.sources : Active(k) => Tier[k] # "gold"
  /\ ~Active(f.target)
  /\ \E r \in Rule :
       /\ KeyOf[r] = f.target
       /\ title' = [k \in Key |->
                      IF k = f.target THEN [status |-> "active", rule |-> r]
                      ELSE IF k \in f.sources THEN [title[k] EXCEPT !.status = "superseded"]
                      ELSE title[k]]
  /\ sources' = [sources EXCEPT ![f.target] = f.sources]
  /\ primary' = IF makePrimary THEN f.target ELSE primary
  /\ UNCHANGED <<rated, reviews, evidence, enabled, call, stranded>>

\* fusePersonTitle
Fuse(f, makePrimary) ==
  /\ \A k \in f.sources : Active(k)
  /\ \A k \in Key \ f.sources : Active(k) => Tier[k] # "gold"
  /\ ~Active(f.target)
  /\ \E r \in Rule :
       /\ KeyOf[r] = f.target
       /\ title' = [k \in Key |->
                      IF k = f.target THEN [status |-> "active", rule |-> r]
                      ELSE IF k \in f.sources THEN [title[k] EXCEPT !.status = "superseded"]
                      ELSE title[k]]
  /\ sources' = [sources EXCEPT ![f.target] = f.sources]
  /\ primary' = IF makePrimary THEN f.target
                ELSE IF primary \in f.sources THEN NoTitle ELSE primary
  /\ UNCHANGED <<rated, reviews, evidence, enabled, call, stranded>>

Dismantled(p) ==
  [k \in Key |-> IF k = p THEN [title[k] EXCEPT !.status = "revoked"]
                 ELSE IF k \in sources[p] THEN [title[k] EXCEPT !.status = "active"]
                 ELSE title[k]]

\* dismantlePersonTitle; which source comes first is the database's choice.
Dismantle(p) ==
  /\ Active(p) /\ sources[p] # {}
  /\ UniqueRows(Dismantled(p), evidence)
  /\ title' = Dismantled(p)
  /\ sources' = [sources EXCEPT ![p] = {}]
  /\ \E k \in sources[p] : primary' = IF primary = p THEN k ELSE primary
  /\ UNCHANGED <<rated, reviews, evidence, enabled, call, stranded>>

\* Mutant: the rules of the catalog before stay enabled.
EnableMore(rules) ==
  /\ rules \in Bound[enabled].next
  /\ enabled' = enabled \cup rules
  /\ UNCHANGED <<rated, reviews, titleVars, call, stranded>>

\* publishAchievementCatalog, setAchievementCatalogStatus
EnableCatalog(rules) ==
  /\ rules \in Bound[enabled].next
  /\ enabled' = rules
  /\ UNCHANGED <<rated, reviews, titleVars, call, stranded>>

-----------------------------------------------------------------------------
(* What the deletion of a rating does to titles *)

\* Mutant: ratings that are not evidence yet are forgotten.
OwnEvidence(c, chain) == UNION {evidence[k] : k \in chain} \ {c}

\* The ratings that may take the place of c in a chain.
Candidates(c, chain) == (rated \ {c}) \ Outside(evidence, chain)

\* Mutant: the other active titles are forgotten.
NoTiers(except) == {}

ActiveTiers(except) ==
  {Tier[k] : k \in {j \in Key \ {except} : Active(j)}} \ {"bronze"}

\* How many tiers of the chain remain: planAchievementAfterRatingDeletion.
Remaining(c, chain, leaf, blocked) ==
  LET able == {n \in 1..Cardinality(chain) :
                 LET k == Ordered(chain)[n] IN
                 /\ k = leaf \/ Tier[k] \notin blocked
                 /\ Eligible(SlotsUpTo(chain, n), Candidates(c, chain))}
  IN  IF able = {} THEN 0 ELSE CHOOSE n \in able : \A m \in able : m <= n

\* The chain's rows when n of its tiers remain.
Demoted(chain, n) ==
  [k \in Key |->
     IF k \notin chain THEN title[k]
     ELSE [title[k] EXCEPT !.status = IF Place(chain, k) = n THEN "active"
                                      ELSE IF Place(chain, k) < n THEN "superseded"
                                      ELSE "revoked"]]

\* The chain ends in a source of an active person title p.
FusedOutcome(c, p, leaf) ==
  LET chain == Chain(leaf, Held)
      n == Remaining(c, chain, leaf, ActiveTiers(p))
      others == sources[p] \ {leaf}
      next == IF n > 0 THEN Ordered(chain)[n]
              ELSE IF others # {} THEN CHOOSE k \in others : TRUE ELSE NoTitle
      ev == Rewritten(evidence, chain, n, Candidates(c, chain))
  IN
  IF n = Cardinality(chain)
  THEN [kind |-> "preserved", title |-> title, evidence |-> ev,
        sources |-> sources, primary |-> primary]
  ELSE [kind |-> "dismantled",
        title |-> [k \in Key |->
                     IF k = p THEN [title[k] EXCEPT !.status = "revoked"]
                     ELSE IF k \in others THEN [title[k] EXCEPT !.status = "active"]
                     ELSE Demoted(chain, n)[k]],
        evidence |-> ev,
        sources |-> [sources EXCEPT ![p] = {}],
        primary |-> IF primary = p THEN next ELSE primary]

\* The chain ends in an active title.
ChainOutcome(c, leaf) ==
  LET chain == Chain(leaf, Held)
      n == Remaining(c, chain, leaf, ActiveTiers(leaf))
      next == IF n > 0 THEN Ordered(chain)[n] ELSE NoTitle
  IN
  [kind |-> IF n = Cardinality(chain) THEN "preserved"
            ELSE IF n > 0 THEN "downgraded" ELSE "revoked",
   title |-> Demoted(chain, n),
   evidence |-> Rewritten(evidence, chain, n, Candidates(c, chain)),
   sources |-> sources,
   primary |-> IF primary = leaf THEN next ELSE primary]

\* recomputeAchievementsBeforeRatingDeletion: fused chains are looked at first.
\* A rating is evidence for one title, so at most one chain is concerned.
Outcome(c) ==
  LET uses(k) == \E j \in Chain(k, Held) : c \in evidence[j]
      fused == {x \in Person \X Held : Active(x[1]) /\ x[2] \in sources[x[1]] /\ uses(x[2])}
      leaves == {k \in Key : Active(k) /\ uses(k)}
  IN
  IF fused # {} THEN LET x == CHOOSE x \in fused : TRUE IN FusedOutcome(c, x[1], x[2])
  ELSE IF leaves # {} THEN ChainOutcome(c, CHOOSE k \in leaves : TRUE)
  ELSE [kind |-> "unchanged", title |-> title, evidence |-> evidence,
        sources |-> sources, primary |-> primary]

\* The rating can go: nothing refers to it any more and no index is broken.
Commits(c, o) ==
  /\ \A k \in Key : c \notin o.evidence[k]
  /\ UniqueRows(o.title, o.evidence)

-----------------------------------------------------------------------------
(* Regular ratings replace fallback ones: rebindFallback... *)

Leaves ==
  {k \in Held \cap Professional :
     \A j \in Held \cap Professional : Prerequisite(j) # k}

\* Mutant: the evidence of other titles is used again.
ReboundGreedily(ratings, ev, leaf) ==
  LET chain == Chain(leaf, Held \cap Professional)
      n == Cardinality(chain)
  IN
  IF /\ \E k \in chain : \E c \in ev[k] : IsFallback(c)
     /\ Eligible(SlotsUpTo(chain, n), ratings)
  THEN Rewritten(ev, chain, n, ratings)
  ELSE ev

Rebound(ratings, ev, leaf) ==
  LET chain == Chain(leaf, Held \cap Professional)
      n == Cardinality(chain)
      candidates == ratings \ Outside(ev, chain)
  IN
  IF /\ \E k \in chain : \E c \in ev[k] : IsFallback(c)
     /\ Eligible(SlotsUpTo(chain, n), candidates)
  THEN Rewritten(ev, chain, n, candidates)
  ELSE ev

\* All leaves, one after the other, in the order the database returns them.
ReboundAll(ratings, order) ==
  LET after[i \in 0..Len(order)] ==
        IF i = 0 THEN evidence ELSE Rebound(ratings, after[i - 1], order[i])
  IN  after[Len(order)]

Orders(S) ==
  {s \in [1..Cardinality(S) -> S] : \A k \in S : \E i \in 1..Cardinality(S) : s[i] = k}

-----------------------------------------------------------------------------
(* Submitting and deleting *)

At(p, step) == call[p].step = step
End(p) == call' = [call EXCEPT ![p] = IdleCall]
InBounds(c) ==
  /\ c \in Bound[enabled].courses
  /\ Cardinality({p \in Call : ~At(p, "idle")}) < Bound[enabled].calls
IdsOf(rows) == {r.id : r \in rows}

\* Reads the student's texts about the course, before the transaction.
BeginSubmit(p, c, t) ==
  /\ At(p, "idle") /\ InBounds(c)
  /\ t \in Bound[enabled].texts \cup {NoText}
  /\ \E r \in IF reviews[c] = {} THEN {NoReview} ELSE IdsOf(reviews[c]) :
       call' = [call EXCEPT ![p] = [IdleCall EXCEPT
                  !.step = "submit", !.course = c, !.text = t,
                  !.seen = IdsOf(reviews[c]), !.found = r]]
  /\ UNCHANGED <<rated, reviews, titleVars, enabled, stranded>>

\* Ids that no row has and no call remembers.
FreshReviews == Review \ UNION ({IdsOf(reviews[c]) : c \in Course}
                                \cup {call[p].seen : p \in Call})

\* The rows a deletion in progress has locked.
LockedBy(q, c) == IF At(q, "clearRating") /\ call[q].course = c THEN call[q].seen ELSE {}

\* Mutant: the text that was found is replaced, any other one stays.
ReplaceOne(rows, found, t) ==
  IF found = NoReview
  THEN IF t = NoText THEN rows
       ELSE rows \cup {[id |-> CHOOSE r \in FreshReviews : TRUE, text |-> t]}
  ELSE {r \in rows : r.id # found}
       \cup (IF t # NoText /\ found \in IdsOf(rows) THEN {[id |-> found, text |-> t]} ELSE {})

\* The student's texts about the course once t is submitted: the row that was
\* found is updated, if it is still there, and all others deleted; a row is
\* inserted only where none was found.
RowsAfter(rows, found, t) ==
  IF found = NoReview
  THEN IF t = NoText THEN rows
       ELSE rows \cup {[id |-> CHOOSE r \in FreshReviews : TRUE, text |-> t]}
  ELSE IF t # NoText /\ found \in IdsOf(rows) THEN {[id |-> found, text |-> t]} ELSE {}

Submit(p) ==
  LET c == call[p].course
      t == call[p].text
      found == call[p].found
      ratings == rated \cup {c}
  IN
  /\ At(p, "submit")
  /\ found # NoReview =>
       \A q \in Call : LockedBy(q, c) \cap IdsOf(reviews[c]) = {}
  /\ rated' = ratings
  /\ found = NoReview /\ t # NoText => FreshReviews # {}
  /\ reviews' = [reviews EXCEPT ![c] = RowsAfter(@, found, t)]
  /\ \E order \in Orders(Leaves) : evidence' = ReboundAll(ratings, order)
  /\ End(p)
  /\ UNCHANGED <<title, sources, primary, enabled, stranded>>

\* The author is shown what a deletion will cost and confirms it.
PreviewDeletion(p, c) ==
  /\ At(p, "idle") /\ InBounds(c)
  /\ call' = [call EXCEPT ![p] = [IdleCall EXCEPT
                !.step = "confirm", !.course = c,
                !.expected = IF c \in rated THEN Outcome(c).kind ELSE "unchanged"]]
  /\ UNCHANGED <<rated, reviews, titleVars, enabled, stranded>>

\* The deletion's own lock, one for each student and course.
BeginDelete(p) ==
  LET c == call[p].course IN
  /\ At(p, "confirm")
  /\ \A q \in Call : call[q].step \in {"recompute", "clearReviews", "clearRating"}
                     => call[q].course # c
  /\ call' = [call EXCEPT ![p].step = IF c \in rated THEN "recompute" ELSE "clearReviews"]
  /\ UNCHANGED <<rated, reviews, titleVars, enabled, stranded>>

\* With a rating: under the student's lock to the end of the transaction.
DeleteRated(p) ==
  LET c == call[p].course
      o == Outcome(c)
  IN
  /\ At(p, "recompute")
  /\ End(p)
  /\ IF (o.kind \in Loss => o.kind = call[p].expected) /\ Commits(c, o)
     THEN /\ rated' = rated \ {c}
          /\ reviews' = [reviews EXCEPT ![c] = {}]
          /\ title' = o.title
          /\ evidence' = o.evidence
          /\ sources' = o.sources
          /\ primary' = o.primary
     ELSE UNCHANGED <<rated, reviews, titleVars>>
  /\ UNCHANGED <<enabled, stranded>>

\* Without one: two statements, and no lock of the student's.
ClearReviews(p) ==
  /\ At(p, "clearReviews")
  /\ call' = [call EXCEPT ![p].step = "clearRating",
                          ![p].seen = IdsOf(reviews[call[p].course])]
  /\ UNCHANGED <<rated, reviews, titleVars, enabled, stranded>>

\* A rating that came in between goes too, unless it already is evidence: then
\* the transaction fails and nothing goes.
ClearRating(p) ==
  LET c == call[p].course IN
  /\ At(p, "clearRating")
  /\ End(p)
  /\ IF \A k \in Key : c \notin evidence[k]
     THEN /\ rated' = rated \ {c}
          /\ reviews' = [reviews EXCEPT ![c] = {r \in @ : r.id \notin call[p].seen}]
     ELSE UNCHANGED <<rated, reviews>>
  /\ UNCHANGED <<titleVars, enabled, stranded>>

\* The author cancels, or the call's process or connection is lost.
Stop(p) ==
  /\ ~At(p, "idle")
  /\ End(p)
  /\ UNCHANGED <<rated, reviews, titleVars, enabled, stranded>>

-----------------------------------------------------------------------------
(* The title shown next to the name: setPrimaryAchievement *)

CheckPrimary(p, k) ==
  /\ At(p, "idle")
  /\ \E c \in Course : InBounds(c)
  /\ Active(k)
  /\ call' = [call EXCEPT ![p] = [IdleCall EXCEPT !.step = "setPrimary", !.title = k]]
  /\ UNCHANGED <<rated, reviews, titleVars, enabled, stranded>>

WritePrimary(p) ==
  /\ At(p, "setPrimary")
  /\ primary' = call[p].title
  /\ End(p)
  /\ UNCHANGED <<rated, reviews, title, evidence, sources, enabled, stranded>>

ClearPrimary ==
  /\ primary' = NoTitle
  /\ UNCHANGED <<rated, reviews, title, evidence, sources, enabled, call, stranded>>

-----------------------------------------------------------------------------
Next ==
  \/ \E r \in Rule : Redeem(r)
  \/ \E k \in Key : Revoke(k)
  \/ \E f \in Recipe, b \in BOOLEAN : Fuse(f, b)
  \/ \E k \in Person : Dismantle(k)
  \/ \E K \in Catalog : EnableCatalog(K)
  \/ \E p \in Call, c \in Course, t \in Text \cup {NoText} : BeginSubmit(p, c, t)
  \/ \E p \in Call, c \in Course : PreviewDeletion(p, c)
  \/ \E p \in Call, k \in Key : CheckPrimary(p, k)
  \/ \E p \in Call :
       \/ Submit(p) \/ BeginDelete(p) \/ DeleteRated(p) \/ ClearReviews(p)
       \/ ClearRating(p) \/ WritePrimary(p) \/ Stop(p)
  \/ ClearPrimary

Spec == Init /\ [][Next]_vars

-----------------------------------------------------------------------------
(* Properties *)

ReviewRow == [id : Review, text : Text]
Row == [status : Status, rule : Rule \cup {NoRule}]
CallRecord ==
  [step : {"idle", "submit", "confirm", "recompute", "clearReviews", "clearRating",
           "setPrimary"},
   course : Course \cup {Free}, text : Text \cup {NoText}, seen : SUBSET Review,
   found : Review \cup {NoReview}, title : Key \cup {NoTitle}, expected : Impact]

\* Every variable keeps the type of its columns.
TypeOK ==
  /\ rated \subseteq Course
  /\ reviews \in [Course -> SUBSET ReviewRow]
  /\ title \in [Key -> Row]
  /\ evidence \in [Key -> SUBSET Course]
  /\ sources \in [Person -> SUBSET Key]
  /\ primary \in Key \cup {NoTitle}
  /\ enabled \in Catalog
  /\ call \in [Call -> CallRecord]
  /\ stranded \subseteq Key

\* Every professional title the student holds, also one that a higher tier or
\* a person title has superseded, is still earned: its own ratings exist and
\* fill exactly the slots of the version of the rule it was redeemed by.  No
\* rating earns two titles.
TitlesAreEarned ==
  /\ \A k \in Professional :
       IF k \in Held
       THEN /\ evidence[k] \subseteq rated
            /\ Cardinality(evidence[k]) = Len(Asks[title[k].rule])
            /\ CanFill(Asks[title[k].rule], evidence[k])
       ELSE evidence[k] = {}
  /\ \A j, k \in Key : j # k => evidence[j] \cap evidence[k] = {}

\* What was left behind by the revocation of a person title, with its chains.
Left == UNION {Chain(k, Held) : k \in stranded}

\* A superseded title belongs to something the student shows: following the
\* chains and the fusions upwards from it ends in an active title, unless it
\* was left behind when a person title was revoked instead of dismantled.
NothingOrphaned ==
  \A k \in Key : title[k].status = "superseded" =>
    \/ \E j \in Key : Active(j) /\ k \in Chain(j, Held)
    \/ \E p \in Person : Active(p) /\ \E j \in sources[p] : k \in Chain(j, Held)
    \/ k \in Left

\* The author can always delete a submission and take a person title apart:
\* what the deletion or the dismantling does to titles leaves no reference to
\* the rating, and no two active silver or gold titles.  Ratings that earn a
\* title left behind are the exception; nothing lets go of them.
DeletionNeverBlocked ==
  /\ \A c \in rated : (\A k \in Left : c \notin evidence[k]) => Commits(c, Outcome(c))
  /\ \A p \in Person : Active(p) => sources[p] # {} /\ UniqueRows(Dismantled(p), evidence)

\* A deletion whose author was told it costs nothing costs no title, whatever
\* happened to ratings and titles since the author was told.
ConfirmedDeletion ==
  [][\A p \in Call :
       /\ call[p].step \in {"recompute", "clearRating"}
       /\ call[p].expected \in {"unchanged", "preserved"}
       /\ call'[p].step = "idle"
       => \A k \in Key : title'[k].status = title[k].status]_vars

\* The deletion of a rating lowers or takes a title only when the other ratings
\* that are free cannot keep it, whichever way they are put into its slots.
TitlesLostOnlyWhenNecessary ==
  [][\A c \in rated \ rated', k \in Key :
       /\ k \in Professional /\ k \in Leaves
       /\ \E j \in Chain(k, Held) : c \in evidence[j]
       /\ title'[k].status = "revoked"
       => LET chain == Chain(k, Held)
          IN  ~CanFill(SlotsUpTo(chain, Cardinality(chain)),
                       (rated \ {c}) \ UNION {evidence[j] : j \in Key \ chain})]_vars

\* A name never shows a title its owner does not hold, except after a choice
\* of primary title that was checked before the title was lost.
PrimaryFollowsTitles ==
  [][/\ primary # NoTitle => Active(primary)
     /\ \A p \in Call : At(p, "setPrimary") => call'[p] = call[p]
     => primary' = NoTitle \/ title'[primary'].status = "active"]_vars

\* A submission that no other call of the student on the course overtook leaves
\* exactly the text it was sent with, and no other.
LoneSubmissionKeepsItsText ==
  [][\A p \in Call :
       LET c == call[p].course IN
       /\ At(p, "submit") /\ c \in rated' /\ call'[p].step = "idle"
       /\ rated' # rated \/ reviews' # reviews
       /\ call[p].seen = IdsOf(reviews[c])
       => {r.text : r \in reviews'[c]} = {call[p].text} \ {NoText}
          /\ Cardinality(reviews'[c]) <= 1]_vars

\* Whoever rates one more course never pays with more fallback ratings, and a
\* chain that could do without any, with regular ratings that no other title
\* uses before or afterwards, does so.
RegularRatingsFirst ==
  [][rated' # rated /\ rated \subseteq rated' =>
       \A k \in Leaves :
         LET chain == Chain(k, Held)
             spent(ev) == {c \in UNION {ev[j] : j \in chain} : IsFallback(c)}
             free == rated' \ (Outside(evidence, chain) \cup Outside(evidence', chain))
             regular == {c \in free : ~IsFallback(c)}
         IN  /\ Cardinality(spent(evidence')) <= Cardinality(spent(evidence))
             /\ CanFill(SlotsUpTo(chain, Cardinality(chain)), regular)
                => spent(evidence') = {}]_vars
=============================================================================
