---------------------------- MODULE WritePolicy ----------------------------
(***************************************************************************)
(* The WARM/DEAD write policy of src/src/write_policy.rs as pure operators *)
(* on a lane record: what `decide` answers for one request and how it      *)
(* advances the lane.  Token counts and seconds are natural numbers; the   *)
(* u64 saturation of additions and the rounding of f64 products beyond     *)
(* 2^53 are abstracted away, truncation towards zero is kept.              *)
(***************************************************************************)
EXTENDS Integers, Sequences, FiniteSets

CONSTANTS
    FiveMin,         \* FIVE_MIN_S, the short cache lifetime
    OneHour,         \* ONE_HOUR_S, the long cache lifetime
    CompactNum,      \* WritePolicyParams.compact = CompactNum / CompactDen
    CompactDen,
    MinPrefix,       \* WritePolicyParams.min_prefix
    ColdCap,         \* WritePolicyParams.cold_cap
    GapRingCap,      \* GAP_RING_CAP
    ForecastWindow,  \* FORECAST_WINDOW
    NoTs             \* Option::None of a timestamp

ASSUME PolicyAssumption ==
    /\ FiveMin \in Nat \ {0}
    /\ OneHour \in Nat
    /\ FiveMin < OneHour
    /\ CompactNum \in Nat
    /\ CompactDen \in Nat \ {0}
    /\ MinPrefix \in Nat
    /\ ColdCap \in Nat
    /\ GapRingCap \in Nat \ {0}
    /\ ForecastWindow \in Nat \ {0}
    /\ NoTs \notin Nat

Tiers == {FiveMin, OneHour}

(* A ttl of 0 is the derived default of a lane nobody has written yet. *)
LaneState ==
    [s : Nat, c : Nat, pObs : Nat, ttl : Tiers \cup {0},
     lastTs : Nat \cup {NoTs}, gaps : Seq(Nat)]

DefaultLane ==
    [s |-> 0, c |-> 0, pObs |-> 0, ttl |-> 0, lastTs |-> NoTs, gaps |-> <<>>]

Lesser(a, b) == IF a <= b THEN a ELSE b
Greater(a, b) == IF a >= b THEN a ELSE b
SaturatingSub(a, b) == IF a >= b THEN a - b ELSE 0

TtlInEffect(ln) == IF ln.ttl = 0 THEN FiveMin ELSE ln.ttl

(* The prefix follows the observed prompt: it grows by the delta, and when *)
(* the harness compacted its history it shrinks in proportion.             *)
Shrunk(ln, p) == Lesser(ln.s, (ln.s * p) \div Greater(ln.pObs, 1))

PrefixSize(ln, p) ==
    IF ln.lastTs = NoTs THEN ln.s + p
    ELSE IF p >= ln.pObs THEN ln.s + (p - ln.pObs)
    ELSE Shrunk(ln, p)

(* Mutant: the committed size survives a compaction of the history. *)
CommittedSizeUnshrunk(ln, p) == ln.c

CommittedSize(ln, p) ==
    IF ln.lastTs # NoTs /\ p < ln.pObs
    THEN Lesser(ln.c, Shrunk(ln, p))
    ELSE ln.c

Gap(ln, now) == SaturatingSub(now, ln.lastTs)

(* Mutant: the oldest gap is never evicted. *)
GapRingUnbounded(ln, now) ==
    IF ln.lastTs = NoTs THEN ln.gaps ELSE Append(ln.gaps, Gap(ln, now))

GapRing(ln, now) ==
    IF ln.lastTs = NoTs THEN ln.gaps
    ELSE IF Len(ln.gaps) >= GapRingCap THEN Append(Tail(ln.gaps), Gap(ln, now))
    ELSE Append(ln.gaps, Gap(ln, now))

IsWarm(ln, now, p) ==
    /\ CommittedSize(ln, p) > 0
    /\ ln.lastTs # NoTs
    /\ Gap(ln, now) < TtlInEffect(ln)

(* compact_target: the size a DEAD lane is re-projected to. *)
ColdTarget(s) ==
    IF s > 0
    THEN Lesser(Greater((s * CompactNum) \div CompactDen, MinPrefix), ColdCap)
    ELSE 0

(* The element at position Len \div 2 (from 0) of the sorted trailing window. *)
Window(gaps) ==
    Greater(1, Len(gaps) - ForecastWindow + 1) .. Len(gaps)

Median(gaps) ==
    LET mid == Cardinality(Window(gaps)) \div 2
    IN  CHOOSE m \in {gaps[i] : i \in Window(gaps)} :
            /\ Cardinality({i \in Window(gaps) : gaps[i] < m}) <= mid
            /\ Cardinality({i \in Window(gaps) : gaps[i] <= m}) > mid

ForecastTier(gaps) ==
    IF gaps # <<>> /\ FiveMin <= Median(gaps) /\ Median(gaps) <= OneHour
    THEN OneHour
    ELSE FiveMin

(* One decision: the class, what it expects to read and write, and the lane *)
(* the request will leave behind if it succeeds.                            *)
Decide(ln, now, p) ==
    LET warm == IsWarm(ln, now, p)
        size == PrefixSize(ln, p)
        kept == IF warm THEN size ELSE ColdTarget(size)
        ring == GapRing(ln, now)
    IN  [class |-> IF warm THEN "warm" ELSE "dead",
         read  |-> IF warm THEN CommittedSize(ln, p) ELSE 0,
         write |-> IF warm THEN size - CommittedSize(ln, p) ELSE kept,
         lane  |-> [s |-> kept, c |-> kept, pObs |-> p,
                    ttl |-> ForecastTier(ring), lastTs |-> now, gaps |-> ring]]
=============================================================================
