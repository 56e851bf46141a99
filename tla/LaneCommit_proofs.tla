-------------------------- MODULE LaneCommit_proofs --------------------------
(***************************************************************************)
(* TLAPS proofs of the properties of LaneCommit, for every set of lanes,   *)
(* handlers and prompt sizes and every value of the policy parameters.     *)
(***************************************************************************)
EXTENDS LaneCommit, TLAPS

(* The truncated quotient of two naturals is a natural: what the f64       *)
(* products of write_policy.rs come to once truncated to u64.              *)
LEMMA QuotientIsNatural ==
    ASSUME NEW a \in Nat, NEW b \in Nat, b > 0
    PROVE  a \div b \in Nat
BY SMT

(* Dropping the oldest gap when the ring is full keeps it within its cap. *)
LEMMA RingStaysBounded ==
    ASSUME NEW ln \in LaneState, NEW now \in Nat, Len(ln.gaps) <= GapRingCap
    PROVE  /\ GapRing(ln, now) \in Seq(Nat)
           /\ Len(GapRing(ln, now)) <= GapRingCap
<1>1. ln.gaps \in Seq(Nat) /\ Len(ln.gaps) \in Nat
  BY DEF LaneState
<1>2. GapRingCap \in Nat /\ GapRingCap >= 1
  BY PolicyAssumption
<1>3. CASE ln.lastTs = NoTs
  BY <1>1, <1>3 DEF GapRing
<1>4. CASE ln.lastTs # NoTs
  <2>1. Gap(ln, now) \in Nat
    BY <1>4 DEF LaneState, Gap, SaturatingSub
  <2>2. CASE Len(ln.gaps) >= GapRingCap
    <3>1. ln.gaps # <<>>
      BY <1>1, <1>2, <2>2
    <3>2. Tail(ln.gaps) \in Seq(Nat) /\ Len(Tail(ln.gaps)) = Len(ln.gaps) - 1
      BY <1>1, <3>1
    <3>3. GapRing(ln, now) = Append(Tail(ln.gaps), Gap(ln, now))
      BY <1>4, <2>2 DEF GapRing
    <3> QED
      BY <2>1, <3>2, <3>3, <1>1, <1>2
  <2>3. CASE Len(ln.gaps) < GapRingCap
    <3>1. GapRing(ln, now) = Append(ln.gaps, Gap(ln, now))
      BY <1>1, <1>2, <1>4, <2>3 DEF GapRing
    <3> QED
      BY <2>1, <2>3, <3>1, <1>1, <1>2
  <2> QED
    BY <2>2, <2>3, <1>1, <1>2
<1> QED
  BY <1>3, <1>4

(* The sizes a decision works with are natural numbers. *)
LEMMA SizesAreNatural ==
    ASSUME NEW ln \in LaneState, NEW p \in Nat
    PROVE  /\ Shrunk(ln, p) \in Nat
           /\ PrefixSize(ln, p) \in Nat
           /\ CommittedSize(ln, p) \in Nat
           /\ ColdTarget(PrefixSize(ln, p)) \in Nat
           /\ ColdTarget(PrefixSize(ln, p)) <= ColdCap
<1>1. ln.s \in Nat /\ ln.c \in Nat /\ ln.pObs \in Nat
  BY DEF LaneState
<1>2. Greater(ln.pObs, 1) \in Nat /\ Greater(ln.pObs, 1) > 0
  BY <1>1 DEF Greater
<1>3. ln.s * p \in Nat
  BY <1>1
<1>4. (ln.s * p) \div Greater(ln.pObs, 1) \in Nat
  BY <1>2, <1>3, QuotientIsNatural
<1>5. Shrunk(ln, p) \in Nat
  BY <1>1, <1>4 DEF Shrunk, Lesser
<1>6. PrefixSize(ln, p) \in Nat
  BY <1>1, <1>5 DEF PrefixSize
<1>7. CommittedSize(ln, p) \in Nat
  BY <1>1, <1>5 DEF CommittedSize, Lesser
<1>8. ASSUME NEW s \in Nat
      PROVE  ColdTarget(s) \in Nat /\ ColdTarget(s) <= ColdCap
  <2>1. s * CompactNum \in Nat /\ CompactDen \in Nat /\ CompactDen > 0
    BY PolicyAssumption
  <2>2. (s * CompactNum) \div CompactDen \in Nat
    BY <2>1, QuotientIsNatural
  <2> QED
    BY <2>2, PolicyAssumption DEF ColdTarget, Lesser, Greater
<1> QED
  BY <1>5, <1>6, <1>7, <1>8

LEMMA ForecastIsATier ==
    ASSUME NEW g
    PROVE  ForecastTier(g) \in Tiers
BY DEF ForecastTier, Tiers

(* What a decision returns, and the lane it leaves: written at `now`, with *)
(* the whole prefix committed.                                             *)
LEMMA DecideType ==
    ASSUME NEW ln \in LaneState, NEW now \in Nat, NEW p \in Nat,
           Len(ln.gaps) <= GapRingCap
    PROVE  LET d == Decide(ln, now, p)
           IN  /\ d.class \in {"warm", "dead"}
               /\ d.read \in Nat
               /\ d.write \in Int
               /\ d.lane \in LaneState
               /\ Len(d.lane.gaps) <= GapRingCap
               /\ d.lane.lastTs = now
               /\ d.lane.ttl \in Tiers
               /\ d.lane.c = d.lane.s
               /\ d.read + d.write = d.lane.s
               /\ d.class = "dead" => d.write <= ColdCap
<1> DEFINE warm == IsWarm(ln, now, p)
           size == PrefixSize(ln, p)
           ring == GapRing(ln, now)
           kept == IF warm THEN size ELSE ColdTarget(size)
           comm == CommittedSize(ln, p)
           d == Decide(ln, now, p)
<1>1. size \in Nat /\ comm \in Nat /\ ColdTarget(size) \in Nat /\ ColdTarget(size) <= ColdCap
  BY SizesAreNatural
<1>2. ring \in Seq(Nat) /\ Len(ring) <= GapRingCap
  BY RingStaysBounded
<1>3. ForecastTier(ring) \in Tiers
  BY ForecastIsATier
<1>4. d = [class |-> IF warm THEN "warm" ELSE "dead",
           read |-> IF warm THEN comm ELSE 0,
           write |-> IF warm THEN size - comm ELSE kept,
           lane |-> [s |-> kept, c |-> kept, pObs |-> p,
                     ttl |-> ForecastTier(ring), lastTs |-> now, gaps |-> ring]]
  BY DEF Decide
<1> HIDE DEF warm, size, ring, comm, d
<1>5. kept \in Nat
  BY <1>1
<1>6. d.lane \in LaneState
  BY <1>2, <1>3, <1>4, <1>5 DEF LaneState
<1>7. d.read \in Nat /\ d.write \in Int /\ d.read + d.write = kept
  BY <1>1, <1>4
<1>8. d.class = "dead" => d.write <= ColdCap
  BY <1>1, <1>4
<1>9. d.lane.s = kept /\ d.lane.c = kept /\ d.lane.lastTs = now
      /\ d.lane.ttl \in Tiers /\ Len(d.lane.gaps) <= GapRingCap
      /\ d.class \in {"warm", "dead"}
  BY <1>2, <1>3, <1>4
<1>10. d = Decide(ln, now, p)
  BY DEF d
<1> QED
  BY <1>6, <1>7, <1>8, <1>9, <1>10
-----------------------------------------------------------------------------
(***************************************************************************)
(* The inductive invariant, in two parts.  Core says that every lane in    *)
(* the store or still carried by a handler is whole: sized, timed no later *)
(* than now, tiered, all of its prefix committed.  Promises adds that no   *)
(* lane promises more than the upstream holds, at each phase of a request; *)
(* it needs Core, and needs the markers to leave room for the proxy's.     *)
(***************************************************************************)
RequestType == {Idle} \cup TimedRequest \cup DecidedRequest \cup PendingRequest

Whole(ln) ==
    /\ Len(ln.gaps) <= GapRingCap
    /\ ln.lastTs # NoTs
    /\ ln.lastTs <= clock
    /\ ln.ttl \in Tiers
    /\ ln.c = ln.s

CoreRequest(q) ==
    /\ q.phase = "timed" => q.ts <= clock
    /\ q.phase = "decided" =>
          /\ Whole(q.lane)
          /\ q.lane.lastTs = q.ts
          /\ q.read + q.write = q.lane.s
          /\ q.write >= 0
          /\ q.class = "dead" => q.write <= ColdCap
    /\ q.phase \in {"swept", "sent", "streaming"} => Whole(q.lane) /\ q.lane.lastTs = q.ts

Core ==
    /\ TypeOK
    /\ \A k \in Lanes : lane[k] = DefaultLane \/ Whole(lane[k])
    /\ \A r \in Requests : CoreRequest(req[r])

Promise(ln, k, alive) == ln.lastTs + ln.ttl <= alive[k]

PromiseOf(q, alive) ==
    /\ q.phase = "decided" /\ q.class = "warm" => q.ts < alive[q.key]
    /\ q.phase = "sent" => q.lane.ttl <= q.emitted
    /\ q.phase = "streaming" => Promise(q.lane, q.key, alive)

Promises ==
    /\ \A k \in Lanes : lane[k] = DefaultLane \/ Promise(lane[k], k, aliveUntil)
    /\ \A r \in Requests : PromiseOf(req[r], aliveUntil)

(* The harness never uses up all four markers with 5m ones, so whatever    *)
(* tier a lane records, a breakpoint of that lifetime is on the wire.      *)
MarkersLeaveRoom == "full" \notin HarnessMarkers

(* A handler's phase says which record it carries. *)
LEMMA PhaseSaysRecord ==
    ASSUME NEW q \in RequestType
    PROVE  /\ q.phase = "timed" => q \in TimedRequest
           /\ q.phase = "decided" => q \in DecidedRequest
           /\ q.phase \in {"swept", "sent", "streaming"} => q \in PendingRequest
BY DEF RequestType, Idle, TimedRequest, DecidedRequest, PendingRequest

LEMMA DefaultLaneType == DefaultLane \in LaneState /\ Len(DefaultLane.gaps) <= GapRingCap
BY PolicyAssumption DEF DefaultLane, LaneState

(* A lane somebody committed carries a time and one of the two lifetimes. *)
LEMMA WholeLaneFields ==
    ASSUME NEW ln \in LaneState, Whole(ln)
    PROVE  ln.ttl \in Tiers /\ ln.lastTs \in Nat
<1>1. ln.lastTs \in Nat \cup {NoTs}
  BY DEF LaneState
<1> QED
  BY <1>1 DEF Whole

(* A handler's record decides nothing about the others': changing one      *)
(* handler to a record of the right kind, with the clock and the store as  *)
(* they were, keeps Core.                                                  *)
LEMMA CoreOfOneHandler ==
    ASSUME Core, NEW r \in Requests, NEW q \in RequestType, CoreRequest(q),
           req' = [req EXCEPT ![r] = q], UNCHANGED clock,
           lane' \in [Lanes -> LaneState], aliveUntil' \in [Lanes -> Nat],
           ended' \subseteq Lanes \X Nat,
           \A k \in Lanes : lane'[k] = DefaultLane \/ Whole(lane'[k])
    PROVE  Core'
<1>1. req' \in [Requests -> RequestType]
  BY DEF Core, TypeOK, RequestType
<1>2. \A x \in Requests : req'[x] = q \/ req'[x] = req[x]
  BY DEF Core, TypeOK
<1>3. \A x \in Requests : CoreRequest(req'[x])
  BY <1>2 DEF Core
<1>4. \A x \in Requests : CoreRequest(req[x])'
  BY <1>3 DEF CoreRequest, Whole
<1>5. \A k \in Lanes : (lane[k] = DefaultLane \/ Whole(lane[k]))'
  BY DEF Whole
<1>6. \A k \in Lanes : Len(lane'[k].gaps) <= GapRingCap
  BY DefaultLaneType DEF Whole
<1>7. TypeOK'
  BY <1>1, <1>6 DEF Core, TypeOK, RequestType
<1> QED
  BY <1>4, <1>5, <1>7 DEF Core

LEMMA CoreInit == Init => Core
<1> SUFFICES ASSUME Init PROVE Core
  OBVIOUS
<1>1. TypeOK
  BY DefaultLaneType DEF Init, TypeOK
<1>2. \A r \in Requests : CoreRequest(req[r])
  BY DEF Init, Idle, CoreRequest
<1> QED
  BY <1>1, <1>2 DEF Init, Core

(* Deciding on a clone of whatever the store holds: the record a handler *)
(* carries out of Snapshot is whole, and its accounts add up.            *)
LEMMA SnapshotIsWhole ==
    ASSUME Core, NEW r \in Requests, req[r].phase = "timed"
    PROVE  LET q == req[r]
               d == Decided(q, Decide(lane[q.key], q.ts, q.p))
           IN  d \in DecidedRequest /\ CoreRequest(d)
<1> DEFINE q == req[r]
           ln == lane[q.key]
           d == Decide(ln, q.ts, q.p)
           c == CommittedSize(ln, q.p)
           z == PrefixSize(ln, q.p)
<1>1. q \in TimedRequest /\ q.ts <= clock /\ clock \in Nat
  BY PhaseSaysRecord DEF Core, TypeOK, RequestType, CoreRequest
<1>2. q.key \in Lanes /\ q.ts \in Nat /\ q.p \in Nat
  BY <1>1 DEF TimedRequest
<1>3. ln \in LaneState /\ Len(ln.gaps) <= GapRingCap
  BY <1>2 DEF Core, TypeOK
<1>4. ln.c = ln.s /\ ln.s \in Nat /\ ln.pObs \in Nat
  BY <1>2, <1>3 DEF Core, Whole, DefaultLane, LaneState
<1>5. /\ d.class \in {"warm", "dead"}
      /\ d.read \in Nat
      /\ d.write \in Int
      /\ d.lane \in LaneState
      /\ Len(d.lane.gaps) <= GapRingCap
      /\ d.lane.lastTs = q.ts
      /\ d.lane.ttl \in Tiers
      /\ d.lane.c = d.lane.s
      /\ d.read + d.write = d.lane.s
      /\ d.class = "dead" => d.write <= ColdCap
  <2> HIDE DEF ln, q
  <2> QED
    BY <1>2, <1>3, DecideType, Zenon
<1>6. d.write >= 0
  <2>1. c \in Nat /\ z \in Nat /\ ColdTarget(z) \in Nat /\ Shrunk(ln, q.p) \in Nat
    BY <1>2, <1>3, SizesAreNatural
  <2>2. c <= z
    <3>1. CASE ln.lastTs # NoTs /\ q.p < ln.pObs
      BY <1>2, <1>4, <2>1, <3>1 DEF CommittedSize, PrefixSize, Lesser
    <3>2. CASE ln.lastTs # NoTs /\ q.p >= ln.pObs
      BY <1>2, <1>4, <2>1, <3>2 DEF CommittedSize, PrefixSize
    <3>3. CASE ln.lastTs = NoTs
      BY <1>2, <1>4, <2>1, <3>3 DEF CommittedSize, PrefixSize
    <3> QED
      BY <1>2, <1>4, <3>1, <3>2, <3>3
  <2>3. d.write = IF IsWarm(ln, q.ts, q.p) THEN z - c ELSE ColdTarget(z)
    BY DEF Decide
  <2> QED
    BY <2>1, <2>2, <2>3
<1>7. q.ts # NoTs
  BY <1>2, PolicyAssumption
<1> DEFINE e == Decided(q, d)
<1>8. e = [phase |-> "decided", key |-> q.key, ts |-> q.ts, class |-> d.class,
           read |-> d.read, write |-> d.write, lane |-> d.lane]
  BY DEF Decided
<1> HIDE DEF d, e
<1>9. e \in DecidedRequest
  BY <1>2, <1>5, <1>8 DEF DecidedRequest
<1>10. CoreRequest(e)
  BY <1>1, <1>5, <1>6, <1>7, <1>8 DEF CoreRequest, Whole
<1> QED
  BY <1>9, <1>10 DEF d, e

LEMMA CoreStep == Core /\ [Next]_vars => Core'
<1> SUFFICES ASSUME Core, [Next]_vars PROVE Core'
  OBVIOUS
<1>1. /\ clock \in Nat /\ lane \in [Lanes -> LaneState]
      /\ aliveUntil \in [Lanes -> Nat] /\ ended \subseteq Lanes \X Nat
      /\ req \in [Requests -> RequestType]
      /\ \A k \in Lanes : lane[k] = DefaultLane \/ Whole(lane[k])
      /\ \A r \in Requests : CoreRequest(req[r])
  BY DEF Core, TypeOK, RequestType
<1>2. Idle \in RequestType /\ CoreRequest(Idle)
  BY DEF RequestType, Idle, CoreRequest
<1>3. CASE Tick
  <2>1. clock' \in Nat /\ clock' >= clock
    BY <1>1, <1>3 DEF Tick
  <2>2. \A ln \in LaneState : Whole(ln) => Whole(ln)'
    BY <1>1, <2>1, PolicyAssumption DEF Whole, LaneState
  <2>3. \A k \in Lanes : (lane[k] = DefaultLane \/ Whole(lane[k]))'
    BY <1>1, <1>3, <2>2 DEF Tick
  <2>4. \A q \in RequestType : CoreRequest(q) => CoreRequest(q)'
    <3> SUFFICES ASSUME NEW q \in RequestType, CoreRequest(q)
                 PROVE  CoreRequest(q)'
      OBVIOUS
    <3>1. q.phase \in {"decided", "swept", "sent", "streaming"} => q.lane \in LaneState
      BY PhaseSaysRecord DEF DecidedRequest, PendingRequest
    <3>2. q.phase = "timed" => q.ts \in Nat
      BY PhaseSaysRecord DEF TimedRequest
    <3> QED
      BY <1>1, <2>1, <2>2, <3>1, <3>2 DEF CoreRequest
  <2>5. \A r \in Requests : CoreRequest(req[r])'
    BY <1>1, <1>3, <2>4 DEF Tick
  <2>6. TypeOK'
    BY <2>1, <1>3 DEF Core, TypeOK, Tick
  <2> QED
    BY <2>3, <2>5, <2>6 DEF Core
<1>4. CASE Restart
  <2>1. TypeOK'
    BY <1>1, <1>4, DefaultLaneType DEF Restart, TypeOK
  <2>2. \A r \in Requests : CoreRequest(req[r])'
    BY <1>4 DEF Restart, CoreRequest, Idle
  <2> QED
    BY <1>4, <2>1, <2>2 DEF Restart, Core
<1>5. ASSUME NEW r \in Requests, Handler(r)
      PROVE  Core'
  <2> DEFINE q == req[r]
  <2>1. q \in RequestType /\ CoreRequest(q)
    BY <1>1
  <2>2. ASSUME NEW k \in Lanes, NEW p \in PromptSizes, Arrive(r, k, p)
        PROVE  Core'
    <3>1. p \in Nat
      BY LaneAssumption
    <3>2. Timed(k, p, clock) \in RequestType /\ CoreRequest(Timed(k, p, clock))
      BY <1>1, <3>1 DEF Timed, RequestType, TimedRequest, CoreRequest
    <3> QED
      BY <1>1, <2>2, <3>2, CoreOfOneHandler DEF Arrive
  <2>3. CASE Snapshot(r)
    <3> DEFINE d == Decided(q, Decide(lane[q.key], q.ts, q.p))
    <3>1. d \in RequestType /\ CoreRequest(d)
      BY <2>3, SnapshotIsWhole DEF Snapshot, RequestType
    <3>2. req' = [req EXCEPT ![r] = d] /\ UNCHANGED <<clock, lane, aliveUntil, ended>>
      BY <2>3 DEF Snapshot
    <3> HIDE DEF d
    <3> QED
      BY <1>1, <3>1, <3>2, CoreOfOneHandler
  <2>4. CASE Sweep(r)
    <3> DEFINE d == Pending("swept", q, q.lane, 0)
    <3>1. q \in DecidedRequest /\ Whole(q.lane) /\ q.lane.lastTs = q.ts
      BY <2>1, <2>4, PhaseSaysRecord DEF Sweep, CoreRequest
    <3>2. d \in RequestType /\ CoreRequest(d)
      BY <3>1 DEF Pending, RequestType, DecidedRequest, PendingRequest, CoreRequest
    <3>3. req' = [req EXCEPT ![r] = d] /\ UNCHANGED <<clock, aliveUntil, ended>>
      BY <2>4 DEF Sweep
    <3>4. \A k \in Lanes : lane'[k] = DefaultLane \/ lane'[k] = lane[k]
      BY <2>4 DEF Sweep
    <3>5. lane' \in [Lanes -> LaneState]
      BY <1>1, <2>4, DefaultLaneType DEF Sweep
    <3> HIDE DEF d
    <3> QED
      BY <1>1, <3>2, <3>3, <3>4, <3>5, CoreOfOneHandler
  <2>5. CASE Reject(r) \/ UpstreamRefuse(r) \/ StreamBreak(r)
    BY <1>1, <1>2, <2>5, CoreOfOneHandler
       DEF Reject, UpstreamRefuse, StreamBreak
  <2>6. ASSUME NEW mark \in HarnessMarkers, Forward(r, mark)
        PROVE  Core'
    <3> DEFINE kept == [q.lane EXCEPT !.ttl = ClampedTtl(@, mark)]
               e == EmittedTtl(q.lane.ttl, mark)
               d == Pending("sent", q, kept, e)
    <3>1. q \in PendingRequest /\ Whole(q.lane) /\ q.lane.lastTs = q.ts
      BY <2>1, <2>6, PhaseSaysRecord DEF Forward, CoreRequest
    <3>2. q.lane \in LaneState /\ q.key \in Lanes /\ q.ts \in Nat
      BY <3>1 DEF PendingRequest
    <3>3. q.lane.ttl \in Tiers
      BY <3>1 DEF Whole
    <3>4. ClampedTtl(q.lane.ttl, mark) \in Tiers
      BY <3>3 DEF ClampedTtl, Tiers
    <3>5. kept \in LaneState /\ Whole(kept) /\ kept.lastTs = q.ts
      BY <3>1, <3>2, <3>4 DEF Whole, LaneState
    <3>6. mark \in {"none", "long", "full"}
      BY LaneAssumption
    <3>7. e \in Nat
      BY <3>3, <3>6, PolicyAssumption DEF EmittedTtl, Tiers
    <3>8. req' = [req EXCEPT ![r] = d] /\ UNCHANGED <<clock, lane, aliveUntil, ended>>
      BY <2>6 DEF Forward
    <3> HIDE DEF kept, e
    <3>9. d \in RequestType /\ CoreRequest(d)
      BY <3>2, <3>5, <3>7 DEF Pending, RequestType, PendingRequest, CoreRequest
    <3> HIDE DEF d
    <3> QED
      BY <1>1, <3>8, <3>9, CoreOfOneHandler
  <2>7. CASE UpstreamAccept(r)
    <3> DEFINE d == Pending("streaming", q, q.lane, 0)
    <3>1. q \in PendingRequest /\ Whole(q.lane) /\ q.lane.lastTs = q.ts
      BY <2>1, <2>7, PhaseSaysRecord DEF UpstreamAccept, CoreRequest
    <3>2. d \in RequestType /\ CoreRequest(d)
      BY <3>1 DEF Pending, RequestType, PendingRequest, CoreRequest
    <3>3. req' = [req EXCEPT ![r] = d] /\ UNCHANGED <<clock, lane, ended>>
      BY <2>7 DEF UpstreamAccept
    <3>4. aliveUntil' = [aliveUntil EXCEPT ![q.key] =
                            Greater(aliveUntil[q.key], clock + q.emitted)]
      BY <2>7 DEF UpstreamAccept
    <3>5. aliveUntil' \in [Lanes -> Nat]
      BY <1>1, <3>1, <3>4 DEF Greater, PendingRequest
    <3> HIDE DEF d
    <3> QED
      BY <1>1, <3>2, <3>3, <3>5, CoreOfOneHandler
  <2>8. CASE StreamEnd(r)
    <3>1. q \in PendingRequest /\ Whole(q.lane) /\ q.lane.lastTs = q.ts
      BY <2>1, <2>8, PhaseSaysRecord DEF StreamEnd, CoreRequest
    <3>2. lane' = [lane EXCEPT ![q.key] = CommitPolicyLane(lane[q.key], q.lane)]
      BY <2>8 DEF StreamEnd
    <3>3. \A k \in Lanes : lane'[k] = lane[k] \/ lane'[k] = q.lane
      BY <1>1, <3>2 DEF CommitPolicyLane
    <3>4. lane' \in [Lanes -> LaneState]
      BY <1>1, <3>1, <3>2 DEF CommitPolicyLane, PendingRequest
    <3>5. ended' = ended \cup {<<q.key, q.ts>>} /\ q.key \in Lanes /\ q.ts \in Nat
      BY <2>8, <3>1 DEF StreamEnd, PendingRequest
    <3>6. ended' \subseteq Lanes \X Nat
      BY <1>1, <3>5
    <3>7. req' = [req EXCEPT ![r] = Idle] /\ UNCHANGED <<clock, aliveUntil>>
      BY <2>8 DEF StreamEnd
    <3> QED
      BY <1>1, <1>2, <3>1, <3>3, <3>4, <3>6, <3>7, CoreOfOneHandler
  <2> QED
    BY <1>5, <2>2, <2>3, <2>4, <2>5, <2>6, <2>7, <2>8 DEF Handler
<1>6. CASE UNCHANGED vars
  <2>1. \A r \in Requests : CoreRequest(req[r])'
    BY <1>1, <1>6 DEF vars, CoreRequest, Whole
  <2> QED
    BY <1>6, <2>1 DEF vars, Core, TypeOK, Whole
<1> QED
  BY <1>3, <1>4, <1>5, <1>6 DEF Next

LEMMA CoreInvariant == Spec => []Core
BY CoreInit, CoreStep, PTL DEF Spec

(* The lane store and every handler's record keep their shape, and no gap  *)
(* ring outgrows its cap (GAP_RING_CAP), for any number of handlers.       *)
THEOREM TypeCorrect == Spec => []TypeOK
<1>1. Core => TypeOK
  BY DEF Core
<1> QED
  BY <1>1, CoreInvariant, PTL

(* AC-4: what decide expects to read and to write adds up to the prefix it *)
(* leaves, its subtraction never wraps, and a cold write is capped,        *)
(* whatever the parameters and however requests interleave.                *)
THEOREM DecisionsAddUp == Spec => []DecisionAddsUp
<1>1. Core => DecisionAddsUp
  BY DEF Core, CoreRequest, DecisionAddsUp, HasDecided
<1> QED
  BY <1>1, CoreInvariant, PTL
-----------------------------------------------------------------------------
LEMMA PromisesInit == Init => Promises
BY DEF Init, Promises, PromiseOf, Idle

(* The upstream forgets nothing early: where it keeps every prefix at least *)
(* as long as before, and one handler moves to a record that keeps its      *)
(* promise, all promises are kept.                                          *)
LEMMA PromisesOfOneHandler ==
    ASSUME Core, Promises, NEW r \in Requests, NEW q \in RequestType,
           req' = [req EXCEPT ![r] = q], PromiseOf(q, aliveUntil'),
           aliveUntil' \in [Lanes -> Nat],
           \A k \in Lanes : aliveUntil[k] <= aliveUntil'[k],
           lane' \in [Lanes -> LaneState],
           \A k \in Lanes : \/ lane'[k] = DefaultLane
                            \/ lane'[k] = lane[k]
                            \/ /\ lane'[k].lastTs # NoTs
                               /\ Promise(lane'[k], k, aliveUntil)
    PROVE  Promises'
<1>1. /\ req \in [Requests -> RequestType]
      /\ lane \in [Lanes -> LaneState]
      /\ aliveUntil \in [Lanes -> Nat]
      /\ \A k \in Lanes : lane[k] = DefaultLane \/ Whole(lane[k])
      /\ \A x \in Requests : CoreRequest(req[x])
  BY DEF Core, TypeOK, RequestType
<1>2. ASSUME NEW k \in Lanes
      PROVE  (lane[k] = DefaultLane \/ Promise(lane[k], k, aliveUntil))'
  <2>1. CASE lane'[k] = DefaultLane
    BY <2>1
  <2>2. CASE lane'[k] # DefaultLane
    <3>1. Promise(lane'[k], k, aliveUntil)
      BY <2>2 DEF Promises
    <3>2. lane'[k] \in LaneState /\ lane'[k].lastTs # NoTs
      BY <1>1, <2>2, <3>1 DEF Promise, Promises, Whole
    <3>3. lane'[k].lastTs \in Nat /\ lane'[k].ttl \in Nat
      BY <3>2, PolicyAssumption DEF LaneState, Tiers
    <3> QED
      BY <1>1, <3>1, <3>3 DEF Promise
  <2> QED
    BY <2>1, <2>2
<1>3. ASSUME NEW x \in Requests
      PROVE  PromiseOf(req[x], aliveUntil)'
  <2> DEFINE y == req[x]
  <2>1. CASE req'[x] = q
    BY <2>1
  <2>2. CASE req'[x] # q
    <3>1. req'[x] = y /\ y \in RequestType /\ PromiseOf(y, aliveUntil) /\ CoreRequest(y)
      BY <1>1, <2>2 DEF Promises
    <3>2. ASSUME y.phase = "decided"
          PROVE  y.ts \in Nat /\ y.key \in Lanes
      BY <3>1, <3>2, PhaseSaysRecord DEF DecidedRequest
    <3>3. ASSUME y.phase = "streaming"
          PROVE  /\ y.lane.lastTs \in Nat
                 /\ y.lane.ttl \in Nat
                 /\ y.key \in Lanes
      <4>1. y \in PendingRequest /\ Whole(y.lane)
        BY <3>1, <3>3, PhaseSaysRecord DEF CoreRequest
      <4> QED
        BY <4>1, PolicyAssumption DEF PendingRequest, Whole, LaneState, Tiers
    <3> HIDE DEF y
    <3>4. PromiseOf(y, aliveUntil')
      BY <1>1, <3>1, <3>2, <3>3 DEF PromiseOf, Promise
    <3> QED
      BY <3>1, <3>4 DEF PromiseOf, y
  <2> QED
    BY <2>1, <2>2
<1> QED
  BY <1>2, <1>3 DEF Promises

LEMMA PromisesStep ==
    ASSUME MarkersLeaveRoom
    PROVE  Core /\ Promises /\ [Next]_vars => Promises'
<1> SUFFICES ASSUME Core, Promises, [Next]_vars PROVE Promises'
  OBVIOUS
<1>1. /\ clock \in Nat
      /\ lane \in [Lanes -> LaneState]
      /\ aliveUntil \in [Lanes -> Nat]
      /\ req \in [Requests -> RequestType]
      /\ \A k \in Lanes : lane[k] = DefaultLane \/ Whole(lane[k])
      /\ \A r \in Requests : CoreRequest(req[r])
  BY DEF Core, TypeOK, RequestType
<1>2. Idle \in RequestType /\ PromiseOf(Idle, aliveUntil')
  BY DEF RequestType, Idle, PromiseOf
<1>0. ASSUME UNCHANGED aliveUntil
      PROVE  /\ aliveUntil' \in [Lanes -> Nat]
             /\ \A k \in Lanes : aliveUntil[k] <= aliveUntil'[k]
  BY <1>0, <1>1
<1>3. CASE Tick
  BY <1>3 DEF Tick, Promises, PromiseOf, Promise
<1>4. CASE Restart
  BY <1>4 DEF Restart, Promises, PromiseOf, Idle
<1>5. ASSUME NEW r \in Requests, Handler(r)
      PROVE  Promises'
  <2> DEFINE q == req[r]
  <2>1. q \in RequestType /\ CoreRequest(q) /\ PromiseOf(q, aliveUntil)
    BY <1>1 DEF Promises
  <2>2. ASSUME NEW k \in Lanes, NEW p \in PromptSizes, Arrive(r, k, p)
        PROVE  Promises'
    <3>1. Timed(k, p, clock) \in RequestType /\ PromiseOf(Timed(k, p, clock), aliveUntil')
      BY <1>1, LaneAssumption
         DEF Timed, RequestType, TimedRequest, PromiseOf
    <3> QED
      BY <1>0, <1>1, <2>2, <3>1, PromisesOfOneHandler DEF Arrive
  <2>3. CASE Snapshot(r)
    <3> DEFINE ln == lane[q.key]
               d == Decided(q, Decide(ln, q.ts, q.p))
    <3>1. d \in RequestType
      BY <2>3, SnapshotIsWhole DEF Snapshot, RequestType
    <3>2. /\ d.phase = "decided"
          /\ d.ts = q.ts
          /\ d.key = q.key
          /\ d.class = "warm" => IsWarm(ln, q.ts, q.p)
      BY DEF Decided, Decide
    <3>3. q \in TimedRequest
      BY <2>1, <2>3, PhaseSaysRecord DEF Snapshot
    <3>4. q.key \in Lanes /\ q.ts \in Nat
      BY <3>3 DEF TimedRequest
    <3>5. ASSUME IsWarm(ln, q.ts, q.p)
          PROVE  q.ts < aliveUntil[q.key]
      <4>1. ln # DefaultLane
        BY <3>5 DEF IsWarm, DefaultLane
      <4>2. Whole(ln) /\ Promise(ln, q.key, aliveUntil) /\ ln \in LaneState
        BY <1>1, <3>4, <4>1 DEF Promises
      <4>a. ln.ttl \in Tiers /\ ln.lastTs \in Nat
        BY <4>2, WholeLaneFields
      <4>3. ln.lastTs \in Nat /\ ln.ttl \in Nat /\ ln.ttl > 0
        BY <4>a, PolicyAssumption DEF Tiers
      <4>4. Gap(ln, q.ts) < ln.ttl
        BY <3>5, <4>3 DEF IsWarm, TtlInEffect
      <4>5. aliveUntil[q.key] \in Nat
        BY <1>1, <3>4
      <4> QED
        BY <3>4, <4>2, <4>3, <4>4, <4>5 DEF Gap, SaturatingSub, Promise
    <3>6. req' = [req EXCEPT ![r] = d] /\ UNCHANGED <<clock, lane, aliveUntil>>
      BY <2>3 DEF Snapshot
    <3> HIDE DEF d, ln
    <3>7. PromiseOf(d, aliveUntil')
      BY <3>2, <3>5, <3>6 DEF PromiseOf
    <3> QED
      BY <1>0, <1>1, <3>1, <3>6, <3>7, PromisesOfOneHandler
  <2>4. CASE Sweep(r)
    <3> DEFINE d == Pending("swept", q, q.lane, 0)
    <3>1. q \in DecidedRequest
      BY <2>1, <2>4, PhaseSaysRecord DEF Sweep
    <3>2. d \in RequestType /\ PromiseOf(d, aliveUntil')
      BY <3>1 DEF Pending, RequestType, DecidedRequest, PendingRequest, PromiseOf
    <3>3. req' = [req EXCEPT ![r] = d] /\ UNCHANGED <<clock, aliveUntil>>
      BY <2>4 DEF Sweep
    <3>4. \A k \in Lanes : lane'[k] = DefaultLane \/ lane'[k] = lane[k]
      BY <2>4 DEF Sweep
    <3>5. lane' \in [Lanes -> LaneState]
      BY <1>1, <2>4, DefaultLaneType DEF Sweep
    <3> HIDE DEF d
    <3> QED
      BY <1>0, <1>1, <3>2, <3>3, <3>4, <3>5, PromisesOfOneHandler
  <2>5. CASE Reject(r) \/ UpstreamRefuse(r) \/ StreamBreak(r)
    BY <1>0, <1>1, <1>2, <2>5, PromisesOfOneHandler
       DEF Reject, UpstreamRefuse, StreamBreak
  <2>6. ASSUME NEW mark \in HarnessMarkers, Forward(r, mark)
        PROVE  Promises'
    <3> DEFINE kept == [q.lane EXCEPT !.ttl = ClampedTtl(@, mark)]
               e == EmittedTtl(q.lane.ttl, mark)
               d == Pending("sent", q, kept, e)
    <3>1. q \in PendingRequest /\ Whole(q.lane)
      BY <2>1, <2>6, PhaseSaysRecord DEF Forward, CoreRequest
    <3>2. q.lane \in LaneState /\ q.key \in Lanes /\ q.ts \in Nat /\ q.lane.ttl \in Tiers
      BY <3>1 DEF PendingRequest, Whole
    <3>3. mark \in {"none", "long"}
      BY LaneAssumption DEF MarkersLeaveRoom
    <3>4. e = ClampedTtl(q.lane.ttl, mark) /\ e \in Tiers
      BY <3>2, <3>3 DEF EmittedTtl, ClampedTtl, Tiers
    <3>5. kept \in LaneState /\ kept.ttl = e /\ e \in Nat
      BY <3>2, <3>4, PolicyAssumption DEF LaneState, Tiers
    <3>6. req' = [req EXCEPT ![r] = d] /\ UNCHANGED <<clock, lane, aliveUntil>>
      BY <2>6 DEF Forward
    <3> HIDE DEF kept, e
    <3>7. d \in RequestType /\ PromiseOf(d, aliveUntil')
      BY <3>2, <3>5 DEF Pending, RequestType, PendingRequest, PromiseOf
    <3> HIDE DEF d
    <3> QED
      BY <1>0, <1>1, <3>6, <3>7, PromisesOfOneHandler
  <2>7. CASE UpstreamAccept(r)
    <3> DEFINE d == Pending("streaming", q, q.lane, 0)
               alive == Greater(aliveUntil[q.key], clock + q.emitted)
    <3>1. q \in PendingRequest /\ Whole(q.lane) /\ q.lane.ttl <= q.emitted
      BY <2>1, <2>7, PhaseSaysRecord DEF UpstreamAccept, CoreRequest, PromiseOf
    <3>2. /\ q.key \in Lanes
          /\ q.emitted \in Nat
          /\ q.lane.lastTs \in Nat
          /\ q.lane.ttl \in Nat
          /\ q.lane.lastTs <= clock
      BY <3>1, PolicyAssumption DEF PendingRequest, Whole, LaneState, Tiers
    <3>3. req' = [req EXCEPT ![r] = d] /\ UNCHANGED <<clock, lane>>
      BY <2>7 DEF UpstreamAccept
    <3>4. aliveUntil' = [aliveUntil EXCEPT ![q.key] = alive]
      BY <2>7 DEF UpstreamAccept
    <3>5. /\ alive \in Nat
          /\ aliveUntil[q.key] <= alive
          /\ q.lane.lastTs + q.lane.ttl <= alive
      BY <1>1, <3>1, <3>2 DEF Greater
    <3> HIDE DEF alive
    <3>6. /\ aliveUntil' \in [Lanes -> Nat]
          /\ \A k \in Lanes : aliveUntil[k] <= aliveUntil'[k]
          /\ aliveUntil'[q.key] = alive
      BY <1>1, <3>2, <3>4, <3>5
    <3>7. d \in RequestType
      BY <3>1 DEF Pending, RequestType, PendingRequest
    <3>8. PromiseOf(d, aliveUntil')
      BY <3>5, <3>6 DEF Pending, PromiseOf, Promise
    <3> HIDE DEF d
    <3> QED
      BY <1>1, <3>3, <3>6, <3>7, <3>8, PromisesOfOneHandler
  <2>8. CASE StreamEnd(r)
    <3>1. /\ q \in PendingRequest
          /\ Whole(q.lane)
          /\ Promise(q.lane, q.key, aliveUntil)
          /\ q.key \in Lanes
      BY <2>1, <2>8, PhaseSaysRecord
         DEF StreamEnd, CoreRequest, PromiseOf, PendingRequest
    <3>2. lane' = [lane EXCEPT ![q.key] = CommitPolicyLane(lane[q.key], q.lane)]
      BY <2>8 DEF StreamEnd
    <3>3. \A k \in Lanes : \/ lane'[k] = lane[k]
                           \/ k = q.key /\ lane'[k] = q.lane
      BY <1>1, <3>2 DEF CommitPolicyLane
    <3>4. lane' \in [Lanes -> LaneState]
      BY <1>1, <3>1, <3>2 DEF CommitPolicyLane, PendingRequest
    <3>5. \A k \in Lanes : \/ lane'[k] = DefaultLane
                           \/ lane'[k] = lane[k]
                           \/ /\ lane'[k].lastTs # NoTs
                              /\ Promise(lane'[k], k, aliveUntil)
      BY <3>1, <3>3 DEF Whole
    <3>6. req' = [req EXCEPT ![r] = Idle] /\ UNCHANGED <<clock, aliveUntil>>
      BY <2>8 DEF StreamEnd
    <3> QED
      BY <1>0, <1>1, <1>2, <3>4, <3>5, <3>6, PromisesOfOneHandler
  <2> QED
    BY <1>5, <2>2, <2>3, <2>4, <2>5, <2>6, <2>7, <2>8 DEF Handler
<1>6. CASE UNCHANGED vars
  BY <1>6 DEF vars, Promises, PromiseOf, Promise
<1> QED
  BY <1>3, <1>4, <1>5, <1>6 DEF Next

(* A request classified WARM finds its lane's prefix alive upstream, for   *)
(* any number of overlapping handlers, lost streams and restarts, provided *)
(* the harness leaves room for the proxy's own breakpoint.                 *)
THEOREM WarmRequestsAreAlive ==
    ASSUME MarkersLeaveRoom
    PROVE  Spec => []WarmIsAlive
<1>1. Init => Promises
  BY PromisesInit
<1>2. Core /\ Promises /\ [Next]_vars => Promises'
  BY PromisesStep
<1>3. Promises => WarmIsAlive
  BY DEF Promises, PromiseOf, WarmIsAlive, HasDecided
<1> QED
  BY <1>1, <1>2, <1>3, CoreInvariant, PTL DEF Spec
-----------------------------------------------------------------------------
(***************************************************************************)
(* The refinement: StreamEnd lands a request's time in the register, Sweep *)
(* forgets idle lanes, Restart starts anew, Tick advances, and every other *)
(* step leaves the register alone.                                         *)
(***************************************************************************)
NewestOf == [k \in Lanes |-> lane[k].lastTs]

LEMMA RegisterStep == Core /\ [Next]_vars => [Register!Next]_(Register!vars)
<1> SUFFICES ASSUME Core, [Next]_vars
             PROVE  Register!Next \/ UNCHANGED <<NewestOf, ended, clock>>
  BY DEF Register!vars, NewestOf
<1>1. /\ clock \in Nat
      /\ lane \in [Lanes -> LaneState]
      /\ req \in [Requests -> RequestType]
      /\ \A k \in Lanes : lane[k] = DefaultLane \/ Whole(lane[k])
      /\ \A r \in Requests : CoreRequest(req[r])
  BY DEF Core, TypeOK, RequestType
<1>2. CASE Tick
  <2>1. Register!Advance
    BY <1>2 DEF Tick, Register!Advance
  <2> QED
    BY <2>1 DEF Register!Next
<1>3. CASE Restart
  <2>1. Register!StartAnew
    BY <1>3 DEF Restart, Register!StartAnew, DefaultLane
  <2> QED
    BY <2>1 DEF Register!Next
<1>4. ASSUME NEW r \in Requests, Sweep(r)
      PROVE  Register!Next
  <2> DEFINE gone == IdleLanes(req[r].ts)
  <2>1. req[r] \in DecidedRequest /\ Whole(req[r].lane)
        /\ req[r].lane.lastTs = req[r].ts
    BY <1>1, <1>4, PhaseSaysRecord DEF Sweep, CoreRequest
  <2>2. req[r].ts \in Nat /\ req[r].ts <= clock
    BY <2>1 DEF DecidedRequest, Whole
  <2>3. gone \in SUBSET Lanes
    BY DEF IdleLanes, Present
  <2>4. ASSUME NEW k \in gone
        PROVE  lane[k].lastTs # NoTs /\ clock - lane[k].lastTs > IdleEvict
    <3>1. k \in Lanes /\ lane[k].lastTs # NoTs
          /\ SaturatingSub(req[r].ts, lane[k].lastTs) > IdleEvict
      BY <2>4 DEF IdleLanes, Present
    <3>2. lane[k].lastTs \in Nat
      BY <1>1, <3>1 DEF LaneState
    <3>3. IdleEvict \in Nat
      BY LaneAssumption
    <3> QED
      BY <1>1, <2>2, <3>1, <3>2, <3>3 DEF SaturatingSub
  <2>5. \A k \in gone : NewestOf[k] # NoTs /\ clock - NewestOf[k] > IdleEvict
    BY <2>3, <2>4 DEF NewestOf
  <2>6. clock' = clock /\ ended' = ended
        /\ lane' = [k \in Lanes |-> IF k \in gone THEN DefaultLane ELSE lane[k]]
    BY <1>4 DEF Sweep
  <2> HIDE DEF gone
  <2>7. NewestOf' = [k \in Lanes |-> IF k \in gone THEN NoTs ELSE NewestOf[k]]
    BY <2>6 DEF NewestOf, DefaultLane
  <2>8. Register!ForgetIdle(gone)
    BY <2>5, <2>6, <2>7 DEF Register!ForgetIdle, NewestOf
  <2> QED
    BY <2>3, <2>8 DEF Register!Next, Register!ForgetIdle
<1>5. ASSUME NEW r \in Requests, StreamEnd(r)
      PROVE  Register!Next
  <2> DEFINE q == req[r]
             t == q.ts
  <2>1. q \in PendingRequest /\ Whole(q.lane) /\ q.lane.lastTs = t
    BY <1>1, <1>5, PhaseSaysRecord DEF StreamEnd, CoreRequest
  <2>2. q.key \in Lanes /\ t \in Nat /\ t <= clock
    BY <2>1 DEF PendingRequest, Whole
  <2>3. t \in 0 .. clock
    BY <1>1, <2>2
  <2>4. lane' = [lane EXCEPT ![q.key] = CommitPolicyLane(lane[q.key], q.lane)]
        /\ clock' = clock /\ ended' = ended \cup {<<q.key, t>>}
    BY <1>5 DEF StreamEnd
  <2>5. CommitPolicyLane(lane[q.key], q.lane).lastTs
            = Register!Newer(lane[q.key].lastTs, t)
    <3>1. lane[q.key].lastTs # NoTs => lane[q.key].lastTs \in Nat
      BY <1>1, <2>2 DEF LaneState
    <3> QED
      BY <2>1, <2>2, <3>1 DEF CommitPolicyLane, Register!Newer
  <2>6. NewestOf' = [NewestOf EXCEPT ![q.key] = Register!Newer(NewestOf[q.key], t)]
    BY <1>1, <2>2, <2>4, <2>5 DEF NewestOf
  <2>7. Register!Land(q.key, t)
    BY <2>4, <2>6 DEF Register!Land, NewestOf
  <2> HIDE DEF q, t
  <2> QED
    BY <2>2, <2>3, <2>7 DEF Register!Next, Register!Land
<1>6. ASSUME NEW r \in Requests, Handler(r), ~Sweep(r), ~StreamEnd(r)
      PROVE  UNCHANGED <<NewestOf, ended, clock>>
  <2>1. UNCHANGED <<lane, ended, clock>>
    BY <1>6 DEF Handler, Arrive, Snapshot, Reject, Forward, UpstreamAccept,
                UpstreamRefuse, StreamBreak
  <2> QED
    BY <2>1 DEF NewestOf
<1>7. CASE UNCHANGED vars
  BY <1>7 DEF vars, NewestOf
<1> QED
  BY <1>2, <1>3, <1>4, <1>5, <1>6, <1>7 DEF Next

(* The lane store implements LaneRegister: per lane the newest successful  *)
(* request wins whatever the order in which overlapping responses end,     *)
(* nothing but a success moves the lane, and a running process forgets a   *)
(* lane only after IdleEvict of idleness.                                  *)
THEOREM StoreIsARegister == Spec => NewestSuccessWins
<1>1. Init => Register!Init
  BY DEF Init, Register!Init, DefaultLane
<1>2. Core /\ [Next]_vars => [Register!Next]_(Register!vars)
  BY RegisterStep
<1> QED
  BY <1>1, <1>2, CoreInvariant, PTL DEF Spec, NewestSuccessWins, Register!Spec
=============================================================================
