---------------------------- MODULE LaneRegister ----------------------------
(***************************************************************************)
(* What the lane store promises, whatever order overlapping requests end   *)
(* in: per lane it remembers the request time of the newest request that   *)
(* succeeded, it never goes back to an older one, and it forgets a lane    *)
(* only after a day of idleness or, with all that has succeeded so far,    *)
(* when the process restarts.                                              *)
(***************************************************************************)
EXTENDS Integers

CONSTANTS Lanes, NoTs, IdleEvict

VARIABLES
    newest,  \* newest[k]: request time of the newest success, or NoTs
    ended,   \* <<lane, request time>> of the successes of this process
    time     \* the wall clock

vars == <<newest, ended, time>>

Init ==
    /\ newest = [k \in Lanes |-> NoTs]
    /\ ended = {}
    /\ time = 0

Newer(a, b) == IF a # NoTs /\ a > b THEN a ELSE b

(* A request made at t succeeds: this and nothing else moves its lane on. *)
Land(k, t) ==
    /\ ended' = ended \cup {<<k, t>>}
    /\ newest' = [newest EXCEPT ![k] = Newer(newest[k], t)]
    /\ UNCHANGED time

ForgetIdle(K) ==
    /\ \A k \in K : newest[k] # NoTs /\ time - newest[k] > IdleEvict
    /\ newest' = [k \in Lanes |-> IF k \in K THEN NoTs ELSE newest[k]]
    /\ UNCHANGED <<ended, time>>

StartAnew ==
    /\ newest' = [k \in Lanes |-> NoTs]
    /\ ended' = {}
    /\ UNCHANGED time

Advance ==
    /\ time' = time + 1
    /\ UNCHANGED <<newest, ended>>

Next ==
    \/ \E k \in Lanes, t \in 0 .. time : Land(k, t)
    \/ \E K \in SUBSET Lanes : ForgetIdle(K)
    \/ StartAnew
    \/ Advance

Spec == Init /\ [][Next]_vars
=============================================================================
