--------------------------- MODULE MCWireMarkers ---------------------------
(* The marker layouts a harness sends: five-minute and one-hour breakpoints *)
(* on tools and system, and the pairs on its last two user messages.       *)
EXTENDS WireMarkers

Leading ==
    {[tools |-> <<>>, system |-> <<1>>], [tools |-> <<>>, system |-> <<12, 12>>],
     [tools |-> <<12>>, system |-> <<1>>], [tools |-> <<12>>, system |-> <<12, 12>>],
     [tools |-> <<1>>, system |-> <<1, 1>>]}
Trailing == {<<0, 1>>, <<1, 1>>, <<0, 12>>, <<12, 1>>, <<12, 12>>}
=============================================================================
