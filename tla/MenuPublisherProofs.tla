------------------------ MODULE MenuPublisherProofs ------------------------
(* Proof that the menus of MenuPublisher only move forward. *)
EXTENDS MenuPublisher, TLAPS

\* A claim that may publish is newer than the one that published last.
Inv ==
  /\ granted \subseteq Run
  /\ holder \in [Source -> granted \union {NoClaim}]
  /\ published \in [Source -> granted \union {NoClaim}]
  /\ \A s \in Source : holder[s] # NoClaim => published[s] < holder[s]

LEMMA GrantStep ==
  ASSUME Run \subseteq Nat \ {0}, Inv, NEW s \in Source, NEW r \in Run, Grant(s, r)
  PROVE  Inv'
<1>1. /\ granted' \subseteq Run
      /\ holder' \in [Source -> granted' \union {NoClaim}]
      /\ published' \in [Source -> granted' \union {NoClaim}]
  BY DEF Inv, Grant
<1>2. published[s] < r
  <2>1. published[s] \in granted \union {NoClaim}
    BY DEF Inv
  <2>2. r \in Nat \ {0}
    OBVIOUS
  <2>. QED BY <2>1, <2>2 DEF Grant, NoClaim
<1>3. \A z \in Source : holder'[z] # NoClaim => published'[z] < holder'[z]
  BY <1>2 DEF Inv, Grant
<1>. QED BY <1>1, <1>3 DEF Inv

LEMMA InvStep ==
  ASSUME Run \subseteq Nat \ {0}, Inv, [Next]_pvars
  PROVE  Inv'
<1>1. ASSUME NEW s \in Source, Publish(s) \/ Release(s) PROVE Inv'
  BY <1>1 DEF Inv, Publish, Release
<1>2. CASE UNCHANGED pvars
  BY <1>2 DEF Inv, pvars
<1>. QED BY <1>1, <1>2, GrantStep DEF Next

(* No menu is replaced by an earlier claim's, for any sources and claims.  *)
THEOREM MenusMoveForward ==
  ASSUME Run \subseteq Nat \ {0}
  PROVE  Spec => [][Forward]_pvars
<1>1. Init => Inv
  BY DEF Init, Inv
<1>2. Inv /\ [Next]_pvars => Inv'
  BY InvStep
<1>3. Inv /\ Inv' /\ [Next]_pvars => [Forward]_pvars
  <2> SUFFICES ASSUME Inv, [Next]_pvars, ~UNCHANGED pvars, NEW z \in Source
               PROVE  published'[z] >= published[z]
    BY DEF Forward
  <2>0. published[z] \in Nat /\ holder[z] \in Nat
    <3>1. granted \union {NoClaim} \subseteq Nat
      BY DEF Inv, NoClaim
    <3>2. published[z] \in granted \union {NoClaim} /\ holder[z] \in granted \union {NoClaim}
      BY DEF Inv
    <3>. QED BY <3>1, <3>2
  <2>1. ASSUME NEW s \in Source, NEW r \in Run, Grant(s, r)
        PROVE  published'[z] >= published[z]
    BY <2>0, <2>1 DEF Grant
  <2>2. ASSUME NEW s \in Source, Publish(s)
        PROVE  published'[z] >= published[z]
    <3>1. published'[z] = IF z = s THEN holder[z] ELSE published[z]
      BY <2>2 DEF Publish, Inv
    <3>. QED BY <2>0, <2>2, <3>1 DEF Publish, Inv
  <2>3. ASSUME NEW s \in Source, Release(s)
        PROVE  published'[z] >= published[z]
    BY <2>0, <2>3 DEF Release
  <2>. QED BY <2>1, <2>2, <2>3 DEF Next
<1>. QED BY <1>1, <1>2, <1>3, PTL DEF Spec
=============================================================================
