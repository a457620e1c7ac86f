---------------------------- MODULE MenuPublisher ----------------------------
(***************************************************************************)
(* What the menu synchronisation promises to a reader of the menus: claims *)
(* are granted one after the other, a source has at most one claim that    *)
(* may still publish, and only that one does; so a menu is never replaced  *)
(* by what an earlier claim observed, however late its worker comes.       *)
(***************************************************************************)
EXTENDS Integers

CONSTANTS
  Source,  \* the sources of menus
  Run      \* the claims, positive numbers in the order they are granted

NoClaim == 0

VARIABLES
  granted,    \* the claims granted so far
  holder,     \* [Source -> the claim that may publish]
  published   \* [Source -> the claim whose observation is the menu]

pvars == <<granted, holder, published>>

Init ==
  /\ granted = {}
  /\ holder = [s \in Source |-> NoClaim]
  /\ published = [s \in Source |-> NoClaim]

\* A new claim replaces one that was given up.
Grant(s, r) ==
  /\ r \in Run
  /\ \A g \in granted : g < r
  /\ granted' = granted \union {r}
  /\ holder' = [holder EXCEPT ![s] = r]
  /\ UNCHANGED published

Publish(s) ==
  /\ holder[s] # NoClaim
  /\ published' = [published EXCEPT ![s] = holder[s]]
  /\ holder' = [holder EXCEPT ![s] = NoClaim]
  /\ UNCHANGED granted

Release(s) ==
  /\ holder[s] # NoClaim
  /\ holder' = [holder EXCEPT ![s] = NoClaim]
  /\ UNCHANGED <<granted, published>>

Next ==
  \E s \in Source : (\E r \in Run : Grant(s, r)) \/ Publish(s) \/ Release(s)

Spec == Init /\ [][Next]_pvars

(* A menu is never replaced by what an earlier claim observed.             *)
Forward == \A s \in Source : published'[s] >= published[s]
=============================================================================
