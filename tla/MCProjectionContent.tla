------------------------ MODULE MCProjectionContent ------------------------
(* Two conversations' worth of sections: all of them, or no templates. *)
EXTENDS ProjectionContent

Sizes == [templates |-> 1, tail |-> 2, digests |-> 1]
AllOrTwo == {{"templates", "tail", "digests"}, {"tail", "digests"}}
=============================================================================
