--------------------------- MODULE MCAchievements ---------------------------
(* An instance of Achievements for TLC.  Three situations are explored side   *)
(* by side: a programme whose silver rule gets a second version, next to a    *)
(* bronze of another programme and the person title fused from both bronzes;  *)
(* a programme from silver to gold with a person title made of the gold, next *)
(* to another silver; and two overlapping calls of a student with one bronze. *)
EXTENDS Achievements, TLC

MCSubject == 1 :> "estr" @@ 2 :> "math" @@ 3 :> "math" @@ 4 :> "eng"
MCTier == [A |-> "bronze", S |-> "silver", G |-> "gold", B |-> "bronze",
           T |-> "silver", P |-> "gold", Q |-> "gold"]
MCKeyOf == [a |-> "A", s1 |-> "S", s2 |-> "S", g |-> "G", b |-> "B", t |-> "T",
            p |-> "P", q |-> "Q"]
MCRequires == [a |-> NoTitle, s1 |-> "A", s2 |-> NoTitle, g |-> "S", b |-> NoTitle,
               t |-> NoTitle, p |-> NoTitle, q |-> NoTitle]
MCAsks == [a |-> <<{"math", "eng"}>>, s1 |-> <<{"math", "estr"}>>,
           s2 |-> <<{"math", "eng", "estr"}>>, g |-> <<{"math", "eng", "estr"}>>,
           b |-> <<{"math", "eng"}>>, t |-> <<{"math", "eng"}>>, p |-> <<{}>>, q |-> <<{}>>]

First1 == {"a", "s1", "b"}
Then1 == {"a", "s2", "b"}
Gold == {"s2", "g", "t"}
Busy == {"b"}
MCCatalog == {First1, Then1, Gold, Busy}
MCBound ==
  First1 :> [courses |-> {1, 2, 4}, texts |-> {}, calls |-> 1, next |-> {Then1}] @@
  Then1 :> [courses |-> {1, 2, 4}, texts |-> {}, calls |-> 1, next |-> {First1}] @@
  Gold :> [courses |-> Course, texts |-> {}, calls |-> 1, next |-> {}] @@
  Busy :> [courses |-> {2, 3}, texts |-> Text, calls |-> 2, next |-> {}]
MCRecipe == {[target |-> "P", sources |-> {"A", "B"}], [target |-> "Q", sources |-> {"G"}]}

CallSymmetry == Permutations(Call)
=============================================================================
