------------------------ MODULE MCFrozenProjection ------------------------
(***************************************************************************)
(* Small instances of FrozenProjection: two handlers on the conversations  *)
(* of one lane, and one handler alternating between two models.            *)
(***************************************************************************)
EXTENDS FrozenProjection, TLC

Symmetry ==
    Permutations(Requests) \cup Permutations(Conversations)
        \cup Permutations(Texts)
===========================================================================
