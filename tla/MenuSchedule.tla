---------------------------- MODULE MenuSchedule ----------------------------
(***************************************************************************)
(* The pure part of the recurring canteen-menu scheduler                   *)
(* (src/lib/canteen-menu-sync-window.ts, canteen-menu-sync-scheduler.ts):  *)
(* the scheduling window a database time falls in, the next time a source  *)
(* is worth observing again, and the classification of a source as         *)
(* claimable, to be retried later, or stopped for review.                  *)
(*                                                                         *)
(* Times are natural numbers of an arbitrary unit.  The three windows of   *)
(* the day have one length here; the code's have 11, 6 and 7 hours.        *)
(***************************************************************************)
EXTENDS Integers, FiniteSets

CONSTANTS
  WindowLength,       \* length of a meal window
  ClaimsDelay,        \* from a window's start to the first scheduled claim
  MaxWindowFailures,  \* failures after which a source is stopped for review
  FirstRetryDelay,    \* pause after the first counted failure
  LaterRetryDelay,    \* pause after the later ones
  EmptyMin, EmptyMax, \* age a first empty observation must have to be confirmed
  MinRepeat,          \* smallest distance of two scoped observations
  RefreshAfter        \* a scoped observation is refreshed at the latest then

ASSUME WindowAssumption ==
  /\ WindowLength \in Nat \ {0}
  /\ ClaimsDelay \in 0 .. (WindowLength - 1)

ASSUME DelayAssumption ==
  /\ MaxWindowFailures \in Nat \ {0}
  /\ FirstRetryDelay \in Nat
  /\ LaterRetryDelay \in Nat
  /\ LaterRetryDelay >= FirstRetryDelay
  /\ EmptyMin \in Nat
  /\ EmptyMax \in Nat
  /\ MinRepeat \in Nat
  /\ RefreshAfter \in Nat

Never == -1  \* SQL null, for a time

-----------------------------------------------------------------------------
(* Windows.  A window is named by any time inside it. *)

WindowStart(t) == (t \div WindowLength) * WindowLength
ClaimsStart(t) == WindowStart(t) + ClaimsDelay
WindowEnd(t) == WindowStart(t) + WindowLength

\* breakfast, lunch, dinner, breakfast, ...
MealPeriod(t) == (t \div WindowLength) % 3

\* Window of `t` accepts activity observed at `at`.
WindowAccepts(t, at) == at >= ClaimsStart(t) /\ at < WindowEnd(t)

-----------------------------------------------------------------------------
(* A provider's refresh evidence: minutes after the observation at which   *)
(* the next publication boundary comes, and after which nothing new is     *)
(* published; Never when the evidence has none.                            *)

EarliestOf(times) == {m \in times : \A n \in times : m <= n}

(* The next useful observation, as a set: {} is the code's null.           *)
NextObservationAt(t, observedAt, scoped, refresh) ==
  LET pastHorizon ==
        /\ refresh.horizon # Never
        /\ \/ refresh.horizon = 0
           \/ t >= observedAt + refresh.horizon
      atBoundary ==
        IF refresh.boundary = Never THEN {}
        ELSE {IF refresh.boundary < MinRepeat
                THEN observedAt + MinRepeat
                ELSE observedAt + refresh.boundary}
      candidates == {observedAt + RefreshAfter} \union atBoundary
  IN  IF ~scoped \/ pastHorizon THEN {}
      ELSE EarliestOf({c \in candidates : WindowAccepts(t, c)})

-----------------------------------------------------------------------------
(* Classification of what the database says of one source at time `t`.     *)

\* Mutant: every counted failure is retried as soon as the first.
RetryDelayAlwaysFirst(facts) ==
  IF facts.latestCode = "empty-pending" THEN EmptyMin ELSE FirstRetryDelay

RetryDelay(facts) ==
  IF facts.latestCode = "empty-pending" THEN EmptyMin
  ELSE IF facts.failureCount = 1 THEN FirstRetryDelay
  ELSE LaterRetryDelay

Classify(facts, t) ==
  IF facts.activeClaim THEN "retry-later"
  ELSE IF facts.failureCount >= MaxWindowFailures THEN "stop-for-review"
  ELSE IF facts.latestCode = "review" THEN "stop-for-review"
  ELSE IF /\ facts.latestFailedAt # Never
          /\ facts.latestFailedAt + RetryDelay(facts) > t
         THEN "retry-later"
  ELSE "claimable"

CandidateRank(state) ==
  CASE state = "claimable" -> 0
    [] state = "retry-later" -> 1
    [] state = "stop-for-review" -> 2
=============================================================================
