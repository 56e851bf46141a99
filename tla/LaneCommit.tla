----------------------------- MODULE LaneCommit -----------------------------
(***************************************************************************)
(* The write-policy path of handle_anthropic_message (src/src/main.rs):    *)
(* concurrent handlers each read the wall clock, clone the lane of their   *)
(* (session, model), decide on the clone, sweep idle lanes, forward        *)
(* upstream, and write the clone back only after the response streamed to  *)
(* its end.  Every step below is one access to the shared lane store; any  *)
(* number of other handlers may run between two of them.                   *)
(*                                                                         *)
(* External: the harness (which requests arrive, with which markers) and   *)
(* the upstream, whose prompt cache is `aliveUntil`.                       *)
(***************************************************************************)
EXTENDS WritePolicy

CONSTANTS
    Lanes,          \* keys (session, model) of the lane store
    Requests,       \* handler tasks
    PromptSizes,    \* estimates of a prompt's tokens
    HarnessMarkers, \* subset of {"none", "long", "full"}, see EmittedTtl
    SweepMinLen,    \* LANE_SWEEP_MIN_LEN
    IdleEvict,      \* LANE_IDLE_EVICT_SECS
    MaxClock        \* bound on the wall clock

ASSUME LaneAssumption ==
    /\ PromptSizes \subseteq Nat
    /\ HarnessMarkers \subseteq {"none", "long", "full"}
    /\ SweepMinLen \in Nat
    /\ IdleEvict \in Nat
    /\ OneHour <= IdleEvict
    /\ MaxClock \in Nat

VARIABLES
    clock,      \* SystemTime::now, in seconds
    lane,       \* AppState.lane_store; an absent key reads as DefaultLane
    req,        \* the local state of each handler task
    aliveUntil, \* the upstream keeps a prefix of the lane cached until then
    ended       \* history: <<key, request time>> of each request whose response
                \* streamed to its end in this process

vars == <<clock, lane, req, aliveUntil, ended>>

Idle == [phase |-> "idle"]

(* A handler that has read the clock, one that has decided, and one that *)
(* carries a PendingPolicyCommit.                                        *)
Timed(k, p, t) == [phase |-> "timed", key |-> k, p |-> p, ts |-> t]

Decided(q, d) ==
    [phase |-> "decided", key |-> q.key, ts |-> q.ts, class |-> d.class,
     read |-> d.read, write |-> d.write, lane |-> d.lane]

Pending(ph, q, ln, ttl) ==
    [phase |-> ph, key |-> q.key, ts |-> q.ts, lane |-> ln, emitted |-> ttl]

Present == {k \in Lanes : lane[k].lastTs # NoTs}

Init ==
    /\ clock = 0
    /\ lane = [k \in Lanes |-> DefaultLane]
    /\ req = [r \in Requests |-> Idle]
    /\ aliveUntil = [k \in Lanes |-> 0]
    /\ ended = {}

Tick ==
    /\ clock < MaxClock
    /\ clock' = clock + 1
    /\ UNCHANGED <<lane, req, aliveUntil, ended>>

(* now_secs is read before the lane is looked up. *)
Arrive(r, k, p) ==
    /\ req[r].phase = "idle"
    /\ req' = [req EXCEPT ![r] = Timed(k, p, clock)]
    /\ UNCHANGED <<clock, lane, aliveUntil, ended>>

(* lane_store.get, clone and decide on the clone: the store is untouched. *)
Snapshot(r) ==
    /\ req[r].phase = "timed"
    /\ LET q == req[r] IN
       req' = [req EXCEPT ![r] = Decided(q, Decide(lane[q.key], q.ts, q.p))]
    /\ UNCHANGED <<clock, lane, aliveUntil, ended>>

(* Mutant: retain keeps what it should drop, so lanes in use are lost. *)
IdleLanesInverted(t) ==
    IF Cardinality(Present) > SweepMinLen
    THEN {k \in Present : SaturatingSub(t, lane[k].lastTs) <= IdleEvict}
    ELSE {}

(* retain: drop the lanes idle past the window, judged at the handler's own *)
(* reading of the clock.                                                    *)
IdleLanes(t) ==
    IF Cardinality(Present) > SweepMinLen
    THEN {k \in Present : SaturatingSub(t, lane[k].lastTs) > IdleEvict}
    ELSE {}

Sweep(r) ==
    /\ req[r].phase = "decided"
    /\ LET gone == IdleLanes(req[r].ts) IN
       lane' = [k \in Lanes |-> IF k \in gone THEN DefaultLane ELSE lane[k]]
    /\ req' = [req EXCEPT ![r] = Pending("swept", @, @.lane, 0)]
    /\ UNCHANGED <<clock, aliveUntil, ended>>

(* Overflow translation, soft cap or parse failure: answered locally. *)
Reject(r) ==
    /\ req[r].phase = "swept"
    /\ req' = [req EXCEPT ![r] = Idle]
    /\ UNCHANGED <<clock, lane, aliveUntil, ended>>

(* The lifetime of the breakpoints on the wire.  "long": the harness pinned *)
(* a 1h marker in messages.  "none": the proxy's own breakpoint carries the *)
(* tier.  "full": the harness used up the four markers with 5m ones (or the *)
(* mode emits no breakpoint), so no marker of the proxy reaches the wire.   *)
EmittedTtl(tier, mark) ==
    CASE mark = "long" -> OneHour
      [] mark = "none" -> tier
      [] mark = "full" -> FiveMin

(* clamp_ttl_to_harness_floor, mirrored into the pending commit. *)
ClampedTtl(tier, mark) == IF mark = "long" THEN OneHour ELSE tier

Forward(r, mark) ==
    /\ req[r].phase = "swept"
    /\ LET q == req[r]
           kept == [q.lane EXCEPT !.ttl = ClampedTtl(@, mark)] IN
       req' = [req EXCEPT ![r] =
                  Pending("sent", q, kept, EmittedTtl(q.lane.ttl, mark))]
    /\ UNCHANGED <<clock, lane, aliveUntil, ended>>

(* The upstream takes the request: from here on it caches the prefix. *)
UpstreamAccept(r) ==
    /\ req[r].phase = "sent"
    /\ LET q == req[r] IN
       aliveUntil' = [aliveUntil EXCEPT ![q.key] = Greater(@, clock + q.emitted)]
    /\ req' = [req EXCEPT ![r] = Pending("streaming", @, @.lane, 0)]
    /\ UNCHANGED <<clock, lane, ended>>

(* Mutant: a refused request commits its lane all the same. *)
UpstreamRefuseCommits(r) ==
    /\ req[r].phase = "sent"
    /\ lane' = [lane EXCEPT ![req[r].key] = req[r].lane]
    /\ req' = [req EXCEPT ![r] = Idle]
    /\ UNCHANGED <<clock, aliveUntil, ended>>

(* 502, a non-success status, or the client hung up and the task is dropped. *)
UpstreamRefuse(r) ==
    /\ req[r].phase = "sent"
    /\ req' = [req EXCEPT ![r] = Idle]
    /\ UNCHANGED <<clock, lane, aliveUntil, ended>>

(* The stream broke off (stream_ok = false) or its reader went away. *)
StreamBreak(r) ==
    /\ req[r].phase = "streaming"
    /\ req' = [req EXCEPT ![r] = Idle]
    /\ UNCHANGED <<clock, lane, aliveUntil, ended>>

(* commit_policy_lane: a candidate older than what is stored is dropped, a *)
(* tie overwrites.                                                         *)
CommitPolicyLane(current, candidate) ==
    IF current.lastTs # NoTs /\ current.lastTs > candidate.lastTs
    THEN current
    ELSE candidate

StreamEnd(r) ==
    /\ req[r].phase = "streaming"
    /\ LET q == req[r] IN
       /\ lane' = [lane EXCEPT ![q.key] = CommitPolicyLane(@, q.lane)]
       /\ ended' = ended \cup {<<q.key, q.ts>>}
    /\ req' = [req EXCEPT ![r] = Idle]
    /\ UNCHANGED <<clock, aliveUntil>>

(* The stores live in memory only. *)
Restart ==
    /\ lane' = [k \in Lanes |-> DefaultLane]
    /\ req' = [r \in Requests |-> Idle]
    /\ ended' = {}
    /\ UNCHANGED <<clock, aliveUntil>>

Handler(r) ==
    \/ \E k \in Lanes, p \in PromptSizes : Arrive(r, k, p)
    \/ Snapshot(r)
    \/ Sweep(r)
    \/ Reject(r)
    \/ \E mark \in HarnessMarkers : Forward(r, mark)
    \/ UpstreamAccept(r)
    \/ UpstreamRefuse(r)
    \/ StreamBreak(r)
    \/ StreamEnd(r)

Next == Tick \/ Restart \/ \E r \in Requests : Handler(r)

Spec == Init /\ [][Next]_vars
-----------------------------------------------------------------------------
TimedRequest ==
    [phase : {"timed"}, key : Lanes, p : Nat, ts : Nat]

DecidedRequest ==
    [phase : {"decided"}, key : Lanes, ts : Nat, class : {"warm", "dead"},
     read : Nat, write : Int, lane : LaneState]

PendingRequest ==
    [phase : {"swept", "sent", "streaming"}, key : Lanes, ts : Nat,
     lane : LaneState, emitted : Nat]

TypeOK ==
    /\ clock \in Nat
    /\ lane \in [Lanes -> LaneState]
    /\ \A k \in Lanes : Len(lane[k].gaps) <= GapRingCap
    /\ req \in [Requests -> {Idle} \cup TimedRequest \cup DecidedRequest
                             \cup PendingRequest]
    /\ aliveUntil \in [Lanes -> Nat]
    /\ ended \subseteq Lanes \X Nat

HasDecided(r) == req[r].phase = "decided"

(* A request the policy calls WARM (LaneClass::Warm: "Cached prefix is      *)
(* alive") finds a prefix of its lane alive upstream at its own time: no    *)
(* rejection, upstream failure, broken stream, overtaking commit, sweep or  *)
(* restart may leave a lane that promises more than the upstream holds.     *)
WarmIsAlive ==
    \A r \in Requests :
        HasDecided(r) /\ req[r].class = "warm"
            => req[r].ts < aliveUntil[req[r].key]

(* AC-4 and the accounting of a decision: what a request expects to read    *)
(* and write adds up to the prefix it leaves, the unsigned subtraction of   *)
(* the WARM branch cannot wrap, and no cold write exceeds cold_cap, however *)
(* the prompt grew and shrank while the lane was WARM.                      *)
DecisionAddsUp ==
    \A r \in Requests :
        HasDecided(r) =>
            /\ req[r].write >= 0
            /\ req[r].read + req[r].write = req[r].lane.s
            /\ req[r].class = "dead" => req[r].write <= ColdCap

(* The store implements LaneRegister: whatever the order in which requests  *)
(* end, a lane is at the newest of those that succeeded, none of them is    *)
(* dropped for an older one, a rejected, refused or broken request leaves   *)
(* no trace, and a running process forgets none but an idle lane.           *)
Register == INSTANCE LaneRegister
    WITH newest <- [k \in Lanes |-> lane[k].lastTs], time <- clock

NewestSuccessWins == Register!Spec
=============================================================================
