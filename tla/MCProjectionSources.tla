------------------------ MODULE MCProjectionSources ------------------------
(* Two kernels' sockets are tried; the seat under scrutiny has two turns,  *)
(* its peer has one.                                                       *)
EXTENDS ProjectionSources

TwoSockets == <<"near", "far">>
TwoAndOne == [s |-> 2, p |-> 1]
=============================================================================
