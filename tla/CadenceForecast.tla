-------------------------- MODULE CadenceForecast --------------------------
(***************************************************************************)
(* forecast_ttl: would a five-minute cache have done for this session?     *)
(* Each request reads the session's cadence, adds its own gap to a short   *)
(* ring and inserts the cadence back, without holding the map's entry in   *)
(* between; with too few gaps the answer comes from the identity files of  *)
(* the kernel's seats, which are scanned at most once per HintLife.        *)
(*                                                                         *)
(* External: the kernel, which writes and removes the identity files, and  *)
(* the clients, whose requests of one session may overlap.                 *)
(***************************************************************************)
EXTENDS SequencesExt, Integers

CONSTANTS
    Sessions,
    Requests,        \* handler tasks
    RingCap,         \* CADENCE_RING_CAP
    MinObservations, \* MIN_OBSERVATIONS
    Hour,            \* SIXTY_MIN_S, in ticks of the clock
    HintLife,        \* the minute a scan of the identity files is good for
    MaxClock,        \* bound on the clock
    MaxChanges       \* bound on the rewrites of identity files

ASSUME CadenceAssumption ==
    /\ RingCap \in Nat /\ MinObservations \in 1 .. RingCap
    /\ Hour \in Nat \ {0} /\ HintLife \in Nat
    /\ MaxClock \in Nat /\ MaxChanges \in Nat

Hints == {"keep1h", "demote5m"}
NoHint == "none"
Never == -1

VARIABLES
    clock,
    files,    \* files[s]: the hint of the identity file that names session s
    cadence,  \* AppState.cadence_store
    cache,    \* IdentityHintCache: the last scan and when it was made
    req,      \* the local state of each handler
    result,   \* result[s]: the last forecast made for s at this tick
    arrivals, \* arrivals[s]: when its newest requests read the clock
    changes,  \* how often an identity file was rewritten
    current,  \* current[s][h]: when the file of s last said h
    overlap   \* the sessions of which two requests were ever handled at once

vars == <<clock, files, cadence, cache, req, result, arrivals, changes, current, overlap>>

Idle == [phase |-> "idle"]
NoForecast == [forecast |-> "keep1h", source |-> "none"]

Init ==
    /\ clock = 0
    /\ files = [s \in Sessions |-> NoHint]
    /\ cadence = [s \in Sessions |-> [last |-> Never, ring |-> <<>>]]
    /\ cache = [at |-> Never, entries |-> files]
    /\ req = [r \in Requests |-> Idle]
    /\ result = [s \in Sessions |-> NoForecast]
    /\ arrivals = [s \in Sessions |-> <<>>]
    /\ current = [s \in Sessions |-> [h \in Hints \cup {NoHint} |->
                      IF h = NoHint THEN 0 ELSE Never]]
    /\ overlap = {}
    /\ changes = 0

Tick ==
    /\ clock < MaxClock
    /\ clock' = clock + 1
    /\ current' = [s \in Sessions |-> [current[s] EXCEPT ![files[s]] = clock + 1]]
    /\ result' = [s \in Sessions |-> NoForecast]
    /\ UNCHANGED <<files, cadence, cache, req, arrivals, changes, overlap>>

(* The kernel writes or removes the identity file of a session. *)
Declare(s, h) ==
    /\ files[s] # h /\ changes < MaxChanges
    /\ changes' = changes + 1
    /\ files' = [files EXCEPT ![s] = h]
    /\ current' = [current EXCEPT ![s][h] = clock]
    /\ UNCHANGED <<clock, cadence, cache, req, result, arrivals, overlap>>

(* As far back as the ring reaches. *)
Newest(a) == IF Len(a) > RingCap + 1 THEN Tail(a) ELSE a

(* The handler reads the clock and takes its copy of the cadence. *)
Read(r, s) ==
    /\ req[r] = Idle
    /\ req' = [req EXCEPT ![r] =
           [phase |-> "reading", session |-> s, now |-> clock, copy |-> cadence[s]]]
    /\ arrivals' = [arrivals EXCEPT ![s] = Newest(Append(@, clock))]
    /\ overlap' = IF \E o \in Requests : req[o] # Idle /\ req[o].session = s
                  THEN overlap \cup {s} ELSE overlap
    /\ UNCHANGED <<clock, files, cadence, cache, result, changes, current>>

(* Mutant: a full ring takes no new gap. *)
WithGapWhileRoom(ring, gap) == IF Len(ring) >= RingCap THEN ring ELSE Append(ring, gap)

(* The ring keeps the newest gaps. *)
WithGap(ring, gap) ==
    IF Len(ring) >= RingCap THEN Append(Tail(ring), gap) ELSE Append(ring, gap)

(* saturating_sub: a request that read the clock earlier may end later. *)
Gap(now, last) == IF now > last THEN now - last ELSE 0

Advance(c, now) ==
    [last |-> now, ring |-> IF c.last = Never THEN c.ring ELSE WithGap(c.ring, Gap(now, c.last))]

(* What a sorted copy of the ring has at place k. *)
Sorted(ring, k) ==
    CHOOSE g \in ToSet(ring) :
        /\ Cardinality({i \in DOMAIN ring : ring[i] < g}) < k
        /\ Cardinality({i \in DOMAIN ring : ring[i] <= g}) >= k

(* The upper median, and the tail veto: one gap within the hour keeps. *)
Classify(ring) ==
    IF Sorted(ring, (Len(ring) \div 2) + 1) > Hour /\ Sorted(ring, 1) > Hour
    THEN "demote5m" ELSE "keep1h"

(* Mutant: looking a hint up makes the scan young again. *)
LookupTouching(now) ==
    IF cache.at = Never \/ now - cache.at > HintLife
    THEN [at |-> now, entries |-> files] ELSE [cache EXCEPT !.at = now]

(* IdentityHintCache::lookup: a scan is used until it is older than its    *)
(* life, for the sessions it did not find as well.                         *)
Lookup(now) ==
    IF cache.at = Never \/ now - cache.at > HintLife
    THEN [at |-> now, entries |-> files] ELSE cache

Forecast(s, ring, scan) ==
    CASE Len(ring) >= MinObservations ->
             [forecast |-> Classify(ring), source |-> "observed"]
      [] Len(ring) < MinObservations /\ scan.entries[s] # NoHint ->
             [forecast |-> scan.entries[s], source |-> "identity_hint"]
      [] OTHER -> [forecast |-> "keep1h", source |-> "default"]

(* forecast_ttl on the copy, which then replaces whatever the map holds. *)
Insert(r) ==
    LET q == req[r]
        s == q.session
        next == Advance(q.copy, q.now)
    IN  /\ q # Idle
        /\ cadence' = [cadence EXCEPT ![s] = next]
        /\ cache' = IF Len(next.ring) >= MinObservations THEN cache ELSE Lookup(clock)
        /\ result' = [result EXCEPT ![s] = Forecast(s, next.ring, cache')]
        /\ req' = [req EXCEPT ![r] = Idle]
        /\ UNCHANGED <<clock, files, arrivals, changes, current, overlap>>

Next ==
    \/ Tick
    \/ \E s \in Sessions, h \in Hints \cup {NoHint} : Declare(s, h)
    \/ \E r \in Requests : Insert(r) \/ \E s \in Sessions : Read(r, s)

Spec == Init /\ [][Next]_vars

(***************************************************************************)
(* Properties.                                                             *)
(***************************************************************************)

(* A demotion rests on what the session did: its last requests were all    *)
(* more than an hour apart, as far back as the ring reaches.  Only a       *)
(* session whose requests overlap can have had a short gap that the ring   *)
(* has lost.                                                               *)
ShortGap(a) == \E i \in 1 .. Len(a) - 1 : a[i + 1] - a[i] <= Hour
Demoted(s) == result[s].forecast = "demote5m" /\ result[s].source = "observed"

DemotionHasEvidence ==
    \A s \in Sessions :
        Demoted(s) /\ s \notin overlap /\ (\A r \in Requests : req[r] = Idle)
            => ~ShortGap(arrivals[s])

(* A forecast made from a hint, or for want of one, is true to what the    *)
(* kernel had declared at some moment of the last HintLife.                *)
HintIsRecent ==
    \A s \in Sessions :
        LET f == result[s]
            said == IF f.source = "default" THEN NoHint ELSE f.forecast
        IN  f.source \in {"identity_hint", "default"} =>
                current[s][said] # Never /\ clock - current[s][said] <= HintLife

(* What the module documentation says of a short gap: that it re-bases the *)
(* decision, whatever else happens.                                        *)
RebaseIsStructural ==
    \A s \in Sessions :
        Demoted(s) /\ (\A r \in Requests : req[r] = Idle) => ~ShortGap(arrivals[s])
=============================================================================
