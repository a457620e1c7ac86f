--------------------------- MODULE MCWikiEditing ---------------------------
(* Instances of WikiEditing for TLC. *)
EXTENDS WikiEditing, TLC

EditingSymmetry == Permutations(Editor) \cup Permutations(Text) \cup Permutations(Block)

=============================================================================
