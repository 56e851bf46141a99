-------------------------- MODULE FrozenProjection --------------------------
(***************************************************************************)
(* The WARM freeze: handle_anthropic_message replaces the history before   *)
(* the newest real user turn by one synthetic block, and while the lane is *)
(* WARM and that turn is still the newest it re-serves the block it served *)
(* before.  The block is persisted when it is rendered, before the         *)
(* upstream has answered; the lane is committed only after the response    *)
(* has streamed to its end.                                                *)
(*                                                                         *)
(* External: the harness.  It appends to a conversation, has one request   *)
(* of a conversation in flight at a time, and shows a rewritten history    *)
(* (its own compaction) under another fingerprint, as another conversation.*)
(***************************************************************************)
EXTENDS WritePolicy

CONSTANTS
    Models,         \* lanes of one session are keyed by model
    Conversations,  \* fingerprints of a first message
    Requests,       \* handler tasks
    Messages,       \* contents of a user turn, up to their fingerprint
    Texts,          \* what a fresh composition can come out as
    PromptSize,     \* the estimated prompt, the same for every request
    SweepMinLen,    \* LANE_SWEEP_MIN_LEN
    IdleEvict,      \* LANE_IDLE_EVICT_SECS
    HandlingTime,   \* bound on the time from the decision to the rebuild
    MaxClock,       \* bound on the clock
    MaxTurns        \* bound on the user turns of a conversation

ASSUME FreezeAssumption ==
    /\ PromptSize \in Nat \ {0}
    /\ MinPrefix > 0 /\ ColdCap > 0
    /\ SweepMinLen \in Nat
    /\ HandlingTime \in Nat
    /\ IdleEvict \in Nat /\ OneHour + HandlingTime <= IdleEvict
    /\ MaxClock \in Nat
    /\ MaxTurns \in Nat

VARIABLES
    clock,
    turns,   \* turns[c]: the user turns of conversation c, oldest first
    lane,    \* AppState.lane_store, one lane per model
    store,   \* AppState.projection_store, NoProjection where absent
    req,     \* the local state of each handler
    written  \* written[m]: what the request that last committed m's lane sent

vars == <<clock, turns, lane, store, req, written>>

NoBlock == [upTo |-> 0]
NoProjection == [text |-> NoBlock]
Idle == [phase |-> "idle"]

(* boundary_idx and boundary_fp: the newest real user turn. *)
Boundary(c) == [idx |-> Len(turns[c]), fp |-> turns[c][Len(turns[c])]]

(* A block remembers the turn it was rendered up to. *)
Render(c, t) == [render |-> t, upTo |-> Len(turns[c])]

Init ==
    /\ clock = 0
    /\ turns \in [Conversations -> {<<m>> : m \in Messages}]
    /\ lane = [m \in Models |-> DefaultLane]
    /\ store = [c \in Conversations |-> NoProjection]
    /\ req = [r \in Requests |-> Idle]
    /\ written = [m \in Models |-> NoProjection]

InFlight(c) == \E r \in Requests : req[r] # Idle /\ req[r].conv = c

Tick ==
    /\ clock < MaxClock
    /\ \A r \in Requests :
           req[r].phase = "decided" => clock - req[r].lane.lastTs < HandlingTime
    /\ clock' = clock + 1
    /\ UNCHANGED <<turns, lane, store, req, written>>

(* The harness appends a user turn: the boundary advances. *)
UserTurn(c, m) ==
    /\ ~InFlight(c)
    /\ Len(turns[c]) < MaxTurns
    /\ turns' = [turns EXCEPT ![c] = Append(@, m)]
    /\ UNCHANGED <<clock, lane, store, req, written>>

Swept(ln, t) ==
    IF Cardinality({m \in Models : ln[m].lastTs # NoTs}) > SweepMinLen
    THEN [m \in Models |->
             IF ln[m].lastTs # NoTs /\ SaturatingSub(t, ln[m].lastTs) > IdleEvict
             THEN DefaultLane ELSE ln[m]]
    ELSE ln

(* The policy decides on a clone of the lane, and idle lanes are swept. *)
Arrive(r, m, c) ==
    /\ req[r] = Idle
    /\ ~InFlight(c)
    /\ LET d == Decide(lane[m], clock, PromptSize) IN
       req' = [req EXCEPT ![r] =
                  [phase |-> "decided", model |-> m, conv |-> c, lane |-> d.lane,
                   class |-> d.class, prior |-> written[m]]]
    /\ lane' = Swept(lane, clock)
    /\ UNCHANGED <<clock, turns, store, written>>

(* Mutant: the boundary is told by its content alone. *)
FrozenMatchByContent(c) ==
    store[c] # NoProjection /\ store[c].boundary.fp = Boundary(c).fp

(* frozen_match: the stored block was rendered against this very boundary. *)
FrozenMatch(c) == store[c] # NoProjection /\ store[c].boundary = Boundary(c)

(* Mutant: a block already stored for the conversation is never replaced. *)
PersistedIfAbsent(c, text) ==
    IF store[c] # NoProjection THEN store[c]
    ELSE [text |-> text, boundary |-> Boundary(c), lastTs |-> clock]

(* The entry after a rebuild, whether the block is fresh or re-served. *)
Persisted(c, text) ==
    [text |-> text, boundary |-> Boundary(c), lastTs |-> clock]

SweptStore(st) ==
    IF Cardinality({c \in Conversations : st[c] # NoProjection}) > SweepMinLen
    THEN [c \in Conversations |->
             IF st[c] # NoProjection /\ SaturatingSub(clock, st[c].lastTs) > IdleEvict
             THEN NoProjection ELSE st[c]]
    ELSE st

(* The lifetime to be recorded: the tier of the policy, raised to one hour  *)
(* where the harness's own messages hold a one-hour marker.                *)
Floored(ln) == {ln, [ln EXCEPT !.ttl = OneHour]}

Emit(r, text) ==
    \E ln \in Floored(req[r].lane) :
        req' = [req EXCEPT ![r] =
                   [phase |-> "sent", model |-> @.model, conv |-> @.conv,
                    lane |-> ln, class |-> @.class, prior |-> @.prior,
                    boundary |-> Boundary(@.conv), text |-> text]]

(* apply_rebuild: re-serve the frozen block if the lane is WARM and the    *)
(* boundary has not moved, compose afresh otherwise; persist what is sent. *)
Rebuild(r, t) ==
    /\ req[r].phase = "decided"
    /\ LET c == req[r].conv
           text == IF req[r].class = "warm" /\ FrozenMatch(c)
                   THEN store[c].text ELSE Render(c, t)
       IN  /\ Len(turns[c]) > 1
           /\ Emit(r, text)
           /\ store' = SweptStore([store EXCEPT ![c] = Persisted(c, text)])
    /\ UNCHANGED <<clock, turns, lane, written>>

(* "no prior history": the first turn is forwarded as it is. *)
RebuildSkipped(r) ==
    /\ req[r].phase = "decided"
    /\ Len(turns[req[r].conv]) = 1
    /\ Emit(r, NoBlock)
    /\ UNCHANGED <<clock, turns, lane, store, written>>

(* Answered locally, refused upstream, or broken off before its end. *)
Fail(r) ==
    /\ req[r].phase \in {"decided", "sent"}
    /\ req' = [req EXCEPT ![r] = Idle]
    /\ UNCHANGED <<clock, turns, lane, store, written>>

CommitPolicyLane(current, candidate) ==
    IF current.lastTs # NoTs /\ current.lastTs > candidate.lastTs
    THEN current
    ELSE candidate

Finish(r) ==
    /\ req[r].phase = "sent"
    /\ LET q == req[r]
           kept == CommitPolicyLane(lane[q.model], q.lane)
       IN  /\ lane' = [lane EXCEPT ![q.model] = kept]
           /\ written' =
                  IF kept # q.lane THEN written
                  ELSE [written EXCEPT ![q.model] =
                           [conv |-> q.conv, boundary |-> q.boundary, text |-> q.text]]
    /\ req' = [req EXCEPT ![r] = Idle]
    /\ UNCHANGED <<clock, turns, store>>

(* Both stores are lost; so is every request in flight. *)
Restart ==
    /\ lane' = [m \in Models |-> DefaultLane]
    /\ store' = [c \in Conversations |-> NoProjection]
    /\ req' = [r \in Requests |-> Idle]
    /\ written' = [m \in Models |-> NoProjection]
    /\ UNCHANGED <<clock, turns>>

Next ==
    \/ Tick
    \/ Restart
    \/ \E c \in Conversations, m \in Messages : UserTurn(c, m)
    \/ \E r \in Requests :
           \/ \E m \in Models, c \in Conversations : Arrive(r, m, c)
           \/ \E t \in Texts : Rebuild(r, t)
           \/ RebuildSkipped(r)
           \/ Fail(r)
           \/ Finish(r)

Spec == Init /\ [][Next]_vars
-----------------------------------------------------------------------------
Rebuilt(r) == req[r].phase = "sent" /\ req[r].text # NoBlock

SameCycle(q) ==
    /\ q.prior.text # NoBlock
    /\ q.prior.conv = q.conv
    /\ q.prior.boundary = q.boundary

(* "The projection must not change shape under a live prefix": when a lane  *)
(* is WARM by grace of a request of this conversation at this boundary, the *)
(* block sent now is the block that request sent.  Nothing between the two  *)
(* (a failed attempt that already persisted its block, another conversation *)
(* on the lane, a sweep of either store) may have replaced it.              *)
ProjectionIsStable ==
    \A r \in Requests :
        Rebuilt(r) /\ req[r].class = "warm" /\ SameCycle(req[r])
            => req[r].text = req[r].prior.text

(* Every block sent covers the conversation up to the boundary it precedes: *)
(* no finished cycle is left out because a frozen block was re-served past  *)
(* its own turn, also when two user turns read the same (review N1).        *)
HistoryIsComplete ==
    \A r \in Requests :
        Rebuilt(r) => req[r].text.upTo = req[r].boundary.idx

=============================================================================
