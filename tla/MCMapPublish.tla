---------------------------- MODULE MCMapPublish ----------------------------
(* An instance of MapPublish for TLC. *)
EXTENDS MapPublish, TLC

\* Tabs and attempts are interchangeable.
PublishSymmetry == Permutations(Tab) \cup Permutations(Key)
=============================================================================
