-------------------------- MODULE SubjectMatching --------------------------
(***************************************************************************)
(* Which ratings earn a title (src/lib/achievement-evaluator.ts).           *)
(*                                                                         *)
(* A rule asks for a number of courses from each of several groups of       *)
(* subjects: it is a sequence of slots, each the set of subjects it accepts *)
(* (a group that asks for n courses is n equal slots).  Ratings are put     *)
(* into slots by augmenting paths, regular subjects before fallback ones.   *)
(***************************************************************************)
EXTENDS Naturals, Sequences, FiniteSets

CONSTANTS
  Course,      \* courses, numbered in the order of their codes
  SubjectName, \* the subjects of the catalogue
  Subject,     \* [Course -> SubjectName]
  Fallback     \* subjects used only when no regular one is left (ESTR)

ASSUME CourseAssumption ==
  /\ Course \subseteq Nat \ {0}
  /\ IsFiniteSet(Course)
  /\ Subject \in [Course -> SubjectName]
  /\ Fallback \subseteq SubjectName

Free == 0                      \* what an empty slot holds
IsFallback(c) == Subject[c] \in Fallback
Slots == Seq(SUBSET SubjectName)

\* Mutant: candidates are tried in the order of their codes.
ByCode(c, d) == c < d

\* The order in which candidates are tried.
Before(c, d) ==
  \/ ~IsFallback(c) /\ IsFallback(d)
  \/ (IsFallback(c) <=> IsFallback(d)) /\ c < d

First(S) == CHOOSE c \in S : \A d \in S \ {c} : Before(c, d)


\* Try to give a rating a slot: a slot that is taken is freed by moving its
\* rating to another one.  A slot looked at once is not looked at again in the
\* same attempt, also where looking at it led nowhere.
Augment(slots, course, held) ==
  LET N == DOMAIN slots
      assign[x \in Course \X Nat \X (SUBSET N) \X [N -> Course \cup {Free}]] ==
        LET c == x[1]  k == x[2]  visited == x[3]  holds == x[4] IN
        IF k \notin N
        THEN [ok |-> FALSE, visited |-> visited, holds |-> holds]
        ELSE IF k \in visited \/ Subject[c] \notin slots[k]
        THEN assign[<<c, k + 1, visited, holds>>]
        ELSE LET moved == IF holds[k] = Free
                          THEN [ok |-> TRUE, visited |-> visited, holds |-> holds]
                          ELSE assign[<<holds[k], 1, visited \cup {k}, holds>>]
             IN  IF moved.ok
                 THEN [moved EXCEPT !.holds[k] = c]
                 ELSE assign[<<c, k + 1, moved.visited, holds>>]
  IN  assign[<<course, 1, {}, held>>].holds

\* evaluateSubjectCountRule: what each slot holds once every candidate was tried.
Assignment(slots, candidates) ==
  LET N == DOMAIN slots
      try[x \in (SUBSET Course) \X [N -> Course \cup {Free}]] ==
        IF x[1] = {} THEN x[2]
        ELSE LET c == First(x[1])
             IN  try[<<x[1] \ {c}, Augment(slots, c, x[2])>>]
  IN  try[<<candidates, [k \in N |-> Free]>>]

Eligible(slots, candidates) ==
  LET held == Assignment(slots, candidates)
  IN  \A k \in DOMAIN slots : held[k] # Free

\* The ratings selected.
Selected(slots, candidates) ==
  LET held == Assignment(slots, candidates)
  IN  {c \in candidates : \E k \in DOMAIN slots : held[k] = c}

-----------------------------------------------------------------------------
(* What the evaluation is for: the reference the code is compared with. *)

\* S can fill every slot, one course for each.
CanFill(slots, S) ==
  \E f \in [DOMAIN slots -> S] :
    /\ \A k \in DOMAIN slots : Subject[f[k]] \in slots[k]
    /\ \A k, l \in DOMAIN slots : k # l => f[k] # f[l]
=============================================================================
