----------------------- MODULE StreamAndCadence_proofs -----------------------
(***************************************************************************)
(* TLAPS proofs about two components that touch nowhere.  CadenceForecast, *)
(* for any number of sessions and handlers, any ring, thresholds and life  *)
(* of a scan: the identity hints, and the evidence of a demotion.          *)
(* SseStream, for responses of any length and any cut into chunks: what    *)
(* the harness receives and what the ledger holds.                         *)
(***************************************************************************)
EXTENDS CadenceForecast, SseStream, FiniteSetTheorems, SequenceTheorems,
        WellFoundedInduction, TLAPS

Said == Hints \cup {NoHint}

(* The shape of what the handlers share; of the rings only that they are   *)
(* sequences matters.                                                      *)
Shape ==
    /\ clock \in Nat
    /\ files \in [Sessions -> Said]
    /\ cadence \in [Sessions -> [last : Int, ring : Seq(Nat)]]
    /\ cache.at \in Nat \cup {Never} /\ cache.entries \in [Sessions -> Said]
    /\ DOMAIN req = Requests
    /\ \A r \in Requests :
           \/ req[r] = Idle
           \/ /\ req[r].session \in Sessions /\ req[r].now \in Nat
              /\ req[r].copy \in [last : Int, ring : Seq(Nat)]
    /\ DOMAIN result = Sessions
    /\ current \in [Sessions -> [Said -> Nat \cup {Never}]]

(* What a file says now it was last seen to say now, and what the scan     *)
(* holds a file has said since the scan was made.                          *)
HintInv ==
    /\ Shape
    /\ \A s \in Sessions : current[s][files[s]] = clock
    /\ cache.at <= clock
    /\ cache.at # Never =>
           \A s \in Sessions :
               /\ current[s][cache.entries[s]] # Never
               /\ current[s][cache.entries[s]] >= cache.at
    /\ HintIsRecent

LEMMA HintInit == Init => HintInv
BY CadenceAssumption
   DEF Init, HintInv, Shape, HintIsRecent, NoForecast, Said, Hints, NoHint, Never

(* One more gap leaves a ring a sequence. *)
LEMMA AdvanceType ==
    ASSUME NEW c \in [last : Int, ring : Seq(Nat)], NEW now \in Nat
    PROVE  Advance(c, now) \in [last : Int, ring : Seq(Nat)]
<1>1. Gap(now, c.last) \in Nat
  BY DEF Gap
<1>2. WithGap(c.ring, Gap(now, c.last)) \in Seq(Nat)
  <2>1. CASE Len(c.ring) >= RingCap
    <3>1. c.ring # <<>>
      BY <2>1, CadenceAssumption
    <3> QED
      BY <1>1, <2>1, <3>1 DEF WithGap
  <2>2. CASE ~(Len(c.ring) >= RingCap)
    BY <1>1, <2>2 DEF WithGap
  <2> QED
    BY <2>1, <2>2
<1> QED
  BY <1>2 DEF Advance

LEMMA HintStep == HintInv /\ [Next]_vars => HintInv'
<1> SUFFICES ASSUME HintInv, [Next]_vars PROVE HintInv'
  OBVIOUS
<1> USE CadenceAssumption
<1>1. CASE Tick
  BY <1>1 DEF Tick, HintInv, Shape, HintIsRecent, NoForecast, Said, Hints, NoHint, Never
<1>2. ASSUME NEW s \in Sessions, NEW h \in Said, Declare(s, h)
      PROVE  HintInv'
  <2>1. Shape'
    BY <1>2 DEF Declare, HintInv, Shape
  <2>2. \A t \in Sessions, g \in Said :
            current'[t][g] = IF t = s /\ g = h THEN clock ELSE current[t][g]
    BY <1>2 DEF Declare, HintInv, Shape
  <2>3. \A t \in Sessions : current'[t][files'[t]] = clock'
    BY <1>2, <2>2 DEF Declare, HintInv, Shape
  <2>4. cache'.at <= clock'
    BY <1>2 DEF Declare, HintInv
  <2>5. cache'.at # Never =>
           \A t \in Sessions :
               /\ current'[t][cache'.entries[t]] # Never
               /\ current'[t][cache'.entries[t]] >= cache'.at
    BY <1>2, <2>2 DEF Declare, HintInv, Shape, Never
  <2>6. HintIsRecent'
    BY <1>2, <2>2 DEF Declare, HintInv, HintIsRecent, Shape, Never, Said
  <2> QED
    BY <2>1, <2>3, <2>4, <2>5, <2>6 DEF HintInv
<1>3. ASSUME NEW r \in Requests, NEW s \in Sessions, Read(r, s)
      PROVE  HintInv'
  BY <1>3 DEF Read, HintInv, Shape, HintIsRecent
<1>4. ASSUME NEW r \in Requests, Insert(r)
      PROVE  HintInv'
  <2> DEFINE s == req[r].session
             next == Advance(req[r].copy, req[r].now)
             scan == Lookup(clock)
             young(c) ==
                 /\ c.at \in Nat \cup {Never} /\ c.entries \in [Sessions -> Said]
                 /\ c.at <= clock
                 /\ c.at # Never =>
                        \A t \in Sessions :
                            /\ current[t][c.entries[t]] # Never
                            /\ current[t][c.entries[t]] >= c.at
  <2>1. s \in Sessions /\ next \in [last : Int, ring : Seq(Nat)]
    BY <1>4, AdvanceType DEF Insert, HintInv, Shape
  <2>2. young(scan) /\ scan.at # Never /\ clock - scan.at <= HintLife
    BY DEF Lookup, HintInv, Shape, Never
  <2>3. young(cache)
    BY DEF HintInv, Shape
  <2>4. /\ cache' = (IF Len(next.ring) >= MinObservations THEN cache ELSE scan)
        /\ cadence' = [cadence EXCEPT ![s] = next]
        /\ result' = [result EXCEPT ![s] = Forecast(s, next.ring, cache')]
        /\ req' = [req EXCEPT ![r] = Idle]
        /\ UNCHANGED <<clock, files, current>>
    BY <1>4 DEF Insert
  <2>5. Len(next.ring) \in Nat
    BY <2>1
  <2>6. CASE Len(next.ring) >= MinObservations
    <3>1. result'[s].source = "observed"
      BY <2>1, <2>4, <2>6 DEF Forecast, HintInv, Shape
    <3> HIDE DEF s, next, scan
    <3> QED
      BY <2>1, <2>4, <2>6, <3>1 DEF HintInv, Shape, HintIsRecent
  <2>7. CASE ~(Len(next.ring) >= MinObservations)
    <3> DEFINE f == result'[s]
    <3>1. f = Forecast(s, next.ring, scan)
      BY <2>1, <2>4, <2>7 DEF HintInv, Shape
    <3>2. Len(next.ring) < MinObservations
      BY <2>5, <2>7
    <3>3. \/ f.source = "identity_hint" /\ f.forecast = scan.entries[s]
          \/ f.source = "default" /\ scan.entries[s] = NoHint
      BY <3>1, <3>2, <2>7 DEF Forecast
    <3>4. scan.entries[s] \in Said
      BY <2>1, <2>2
    <3>5. current[s][scan.entries[s]] \in Int
      BY <2>1, <3>4 DEF HintInv, Shape, Never
    <3>6. clock - current[s][scan.entries[s]] <= HintLife
      BY <2>1, <2>2, <3>5 DEF HintInv, Shape
    <3>7. HintIsRecent'
      <4> HIDE DEF scan, next, f, s
      <4>1. \A t \in Sessions : t # s => result'[t] = result[t]
        BY <2>1, <2>4 DEF HintInv, Shape
      <4>2. current'[s][IF f.source = "default" THEN NoHint ELSE f.forecast]
                = current[s][scan.entries[s]]
        BY <2>4, <3>3
      <4>3. LET said == IF f.source = "default" THEN NoHint ELSE f.forecast
            IN  current'[s][said] # Never /\ clock' - current'[s][said] <= HintLife
        BY <2>1, <2>2, <2>4, <3>6, <4>2
      <4> QED
        BY <2>4, <4>1, <4>3 DEF HintInv, HintIsRecent, f
    <3> HIDE DEF scan, next, f, s
    <3> QED
      BY <2>1, <2>2, <2>4, <2>7, <3>7 DEF HintInv, Shape
  <2> QED
    BY <2>6, <2>7
<1>5. CASE UNCHANGED vars
  BY <1>5 DEF vars, HintInv, Shape, HintIsRecent
<1> QED
  BY <1>1, <1>2, <1>3, <1>4, <1>5 DEF Next, Said

(* A forecast from a hint, or for want of one, is true to what the kernel  *)
(* had declared within the life of a scan (IdentityHintCache::lookup).     *)
THEOREM HintRecent == Spec => []HintIsRecent
<1>1. HintInv => HintIsRecent
  BY DEF HintInv
<1> QED
  BY HintInit, HintStep, <1>1, PTL DEF Spec
-----------------------------------------------------------------------------
(***************************************************************************)
(* The evidence of a demotion.  While no two requests of a session overlap *)
(* its ring holds the gaps of its newest requests, oldest first, and while *)
(* one is being handled the copy it took will, once advanced.              *)
(***************************************************************************)
Cadences == [last : Int, ring : Seq(Nat)]

Handles(r, s) == req[r] # Idle /\ req[r].session = s
Quiet(s) == \A r \in Requests : ~Handles(r, s)

Matches(c, a) ==
    \/ c.last = Never /\ c.ring = <<>> /\ a = <<>>
    \/ /\ a # <<>> /\ c.last = a[Len(a)] /\ Len(a) = Len(c.ring) + 1
       /\ \A i \in 1 .. Len(c.ring) : c.ring[i] = a[i + 1] - a[i]

ArrivalsOK ==
    /\ arrivals \in [Sessions -> Seq(Nat)]
    /\ \A s \in Sessions :
           /\ \A i \in 1 .. Len(arrivals[s]) : arrivals[s][i] <= clock
           /\ Len(arrivals[s]) <= RingCap + 1

GapsKnown(s) ==
    /\ \A r, o \in Requests : Handles(r, s) /\ Handles(o, s) => r = o
    /\ \A r \in Requests :
           Handles(r, s) => Matches(Advance(req[r].copy, req[r].now), arrivals[s])
    /\ Quiet(s) => /\ Matches(cadence[s], arrivals[s])
                   /\ Demoted(s) => ~ShortGap(arrivals[s])

EvidenceInv == ArrivalsOK /\ \A s \in Sessions \ overlap : GapsKnown(s)

LEMMA LeastOf ==
    ASSUME NEW S \in SUBSET Nat, S # {}
    PROVE  \E m \in S : \A x \in S : m <= x
<1>1. PICK m \in S : \A x \in S : ~(<<x, m>> \in OpToRel(<, Nat))
  BY WFMin, NatLessThanWellFounded
<1>2. ASSUME NEW x \in S PROVE m <= x
  <2>1. x < m => <<x, m>> \in OpToRel(<, Nat)
    BY DEF OpToRel
  <2>2. ~(<<x, m>> \in OpToRel(<, Nat))
    BY <1>1, Zenon
  <2>3. ~(x < m)
    BY <2>1, <2>2, Zenon
  <2>4. x \in Nat /\ m \in Nat
    OBVIOUS
  <2> QED
    BY <2>3, <2>4
<1> QED
  BY <1>2

(* The head of the sorted ring is its least gap. *)
LEMMA SortedFirst ==
    ASSUME NEW ring \in Seq(Nat), ring # <<>>
    PROVE  /\ Sorted(ring, 1) \in Nat
           /\ \A i \in 1 .. Len(ring) : Sorted(ring, 1) <= ring[i]
<1> DEFINE P(g) == /\ Cardinality({i \in DOMAIN ring : ring[i] < g}) < 1
                   /\ Cardinality({i \in DOMAIN ring : ring[i] <= g}) >= 1
<1>1. /\ DOMAIN ring = 1 .. Len(ring) /\ Len(ring) \in Nat /\ 1 \in DOMAIN ring
      /\ \A i \in DOMAIN ring : ring[i] \in Nat
  OBVIOUS
<1>2. ToSet(ring) \in SUBSET Nat /\ ToSet(ring) # {}
  BY <1>1 DEF ToSet
<1>3. PICK m \in ToSet(ring) : \A x \in ToSet(ring) : m <= x
  BY <1>2, LeastOf
<1>4. IsFiniteSet(DOMAIN ring)
  BY <1>1, FS_Interval
<1>5. P(m)
  <2>1. ASSUME NEW i \in DOMAIN ring PROVE ~(ring[i] < m)
    <3>1. ring[i] \in ToSet(ring)
      BY DEF ToSet
    <3>2. m <= ring[i] /\ m \in Nat /\ ring[i] \in Nat
      BY <1>2, <1>3, <3>1
    <3> QED
      BY <3>2
  <2>2. {i \in DOMAIN ring : ring[i] < m} = {}
    BY <2>1
  <2>3. PICK j \in DOMAIN ring : ring[j] = m
    BY DEF ToSet
  <2>4. {i \in DOMAIN ring : ring[i] <= m} # {}
    BY <1>1, <2>3
  <2> DEFINE U == {i \in DOMAIN ring : ring[i] <= m}
  <2>5. IsFiniteSet(U)
    BY <1>4, FS_Subset
  <2>6. Cardinality(U) \in Nat /\ Cardinality(U) # 0
    BY <2>4, <2>5, FS_EmptySet, FS_CardinalityType
  <2>7. Cardinality({}) = 0
    BY FS_EmptySet
  <2> HIDE DEF U
  <2>8. Cardinality(U) >= 1
    BY <2>6
  <2>9. Cardinality({i \in DOMAIN ring : ring[i] < m}) = 0
    BY <2>2, <2>7
  <2>10. Cardinality({i \in DOMAIN ring : ring[i] < m}) < 1
    BY <2>9
  <2> QED
    BY <2>8, <2>10 DEF U
<1> DEFINE g == Sorted(ring, 1)
<1>6. g = CHOOSE x \in ToSet(ring) : P(x)
  BY DEF Sorted
<1>7. g \in ToSet(ring) /\ P(g)
  <2> HIDE DEF g, P
  <2> QED
    BY <1>3, <1>5, <1>6
<1> HIDE DEF g
<1>8. \A i \in DOMAIN ring : ~(ring[i] < g)
  <2> DEFINE V == {i \in DOMAIN ring : ring[i] < g}
  <2>1. IsFiniteSet(V) /\ Cardinality(V) < 1
    BY <1>4, <1>7, FS_Subset
  <2>2. Cardinality(V) = 0
    BY <2>1, FS_CardinalityType
  <2>3. V = {}
    BY <2>1, <2>2, FS_EmptySet
  <2> QED
    BY <2>3
<1>9. g \in Nat
  BY <1>2, <1>7
<1> QED
  BY <1>1, <1>8, <1>9 DEF g

LEMMA OneMore ==
    ASSUME NEW a \in Seq(Nat), NEW x \in Nat
    PROVE  /\ Append(a, x) \in Seq(Nat) /\ Append(a, x) # <<>>
           /\ Len(Append(a, x)) = Len(a) + 1
           /\ \A i \in 1 .. Len(a) : Append(a, x)[i] = a[i]
           /\ Append(a, x)[Len(a) + 1] = x
BY AppendProperties

(* The newest arrivals are kept as far back as the ring reaches.           *)
LEMMA ArrivalsGrow ==
    ASSUME NEW a \in Seq(Nat), Len(a) <= RingCap + 1,
           NEW now \in Nat, \A i \in 1 .. Len(a) : a[i] <= now
    PROVE  /\ Newest(Append(a, now)) \in Seq(Nat)
           /\ Len(Newest(Append(a, now))) <= RingCap + 1
           /\ \A i \in 1 .. Len(Newest(Append(a, now))) : Newest(Append(a, now))[i] <= now
<1> DEFINE a2 == Newest(Append(a, now))
<1> DEFINE b == Append(a, now)
           k == Len(a)
<1>0. k \in Nat
  OBVIOUS
<1>1. /\ b \in Seq(Nat) /\ b # <<>> /\ Len(b) = k + 1
      /\ \A i \in 1 .. k : b[i] = a[i]
      /\ b[k + 1] = now
  BY OneMore
<1>2. \A i \in 1 .. k + 1 : b[i] <= now
  <2>1. \A i \in 1 .. k + 1 : i \in 1 .. k \/ i = k + 1
    BY <1>0
  <2>2. \A i \in 1 .. k : a[i] <= now /\ now <= now
    OBVIOUS
  <2> QED
    BY <1>1, <2>1, <2>2
<1>3. RingCap \in Nat /\ k <= RingCap + 1
  BY CadenceAssumption
<1> HIDE DEF b, k
<1>4. CASE Len(b) > RingCap + 1
  <2>1. a2 = Tail(b)
    BY <1>4 DEF Newest, b
  <2>2. /\ Tail(b) \in Seq(Nat) /\ Len(Tail(b)) = Len(b) - 1
        /\ \A i \in 1 .. Len(Tail(b)) : Tail(b)[i] = b[i + 1]
    BY <1>1, HeadTailProperties
  <2> HIDE DEF a2
  <2>3. Len(a2) = k /\ \A i \in 1 .. k : a2[i] = b[i + 1] /\ i + 1 \in 1 .. k + 1
    BY <1>0, <1>1, <2>1, <2>2
  <2> QED
    BY <1>2, <1>3, <2>1, <2>2, <2>3 DEF a2
<1>5. CASE ~(Len(b) > RingCap + 1)
  <2>1. a2 = b
    BY <1>5 DEF Newest, b
  <2> HIDE DEF a2
  <2> QED
    BY <1>0, <1>1, <1>2, <1>3, <1>5, <2>1 DEF a2
<1> QED
  BY <1>4, <1>5

(* One more request leaves ring and arrivals in step, as far back as they  *)
(* both reach.                                                             *)
LEMMA MatchesGrows ==
    ASSUME NEW c \in Cadences, NEW a \in Seq(Nat), Matches(c, a), Len(a) <= RingCap + 1,
           NEW now \in Nat, \A i \in 1 .. Len(a) : a[i] <= now
    PROVE  Matches(Advance(c, now), Newest(Append(a, now)))
<1> DEFINE k == Len(a)
           b == Append(a, now)
<1>0. /\ RingCap \in Nat /\ RingCap >= 1 /\ k \in Nat /\ c.ring \in Seq(Nat) /\ k <= RingCap + 1
      /\ Len(c.ring) \in Nat
  BY CadenceAssumption DEF Cadences
<1>1. /\ b \in Seq(Nat) /\ b # <<>> /\ Len(b) = k + 1
      /\ \A i \in 1 .. k : b[i] = a[i]
      /\ b[k + 1] = now
  BY AppendProperties
<1>2. \A i \in 1 .. k : a[i] \in Nat /\ a[i] <= now
  OBVIOUS
<1> HIDE DEF b
<1>4. CASE a = <<>>
  <2>1. k = 0 /\ c.last = Never /\ c.ring = <<>>
    BY <1>4 DEF Matches
  <2>2. Newest(b) = b
    BY <1>0, <1>1, <2>1 DEF Newest
  <2>3. Advance(c, now).last = now /\ Advance(c, now).ring = <<>>
    BY <2>1 DEF Advance
  <2>4. Matches(Advance(c, now), b)
    BY <1>1, <2>1, <2>3 DEF Matches
  <2> QED
    BY <2>2, <2>4 DEF b
<1>5. CASE a # <<>>
  <2> DEFINE n == Len(c.ring)
             g == now - a[k]
  <2>1. /\ c.last = a[k] /\ k = n + 1 /\ n \in Nat /\ k \in 1 .. k
        /\ \A i \in 1 .. n : c.ring[i] = a[i + 1] - a[i]
    BY <1>0, <1>5 DEF Matches
  <2>2. a[k] \in Nat /\ a[k] <= now /\ g \in Nat
    BY <1>2, <2>1
  <2>3. Gap(now, c.last) = g /\ c.last # Never
    BY <2>1, <2>2 DEF Gap, Never
  <2>4. Advance(c, now).last = now /\ Advance(c, now).ring = WithGap(c.ring, g)
    BY <2>3 DEF Advance
  <2> HIDE DEF n, g, k
  <2>5. CASE n >= RingCap
    <3>1. n = RingCap /\ k = RingCap + 1
      BY <1>0, <2>1, <2>5
    <3> DEFINE t == Tail(b)
               r == Tail(c.ring)
               w == Append(r, g)
    <3>2. Newest(b) = t
      BY <1>0, <1>1, <3>1 DEF Newest
    <3>3. /\ t \in Seq(Nat) /\ Len(t) = k /\ \A i \in 1 .. k : t[i] = b[i + 1]
      <4>1. /\ t \in Seq(Nat) /\ Len(t) = Len(b) - 1 /\ \A i \in 1 .. Len(t) : t[i] = b[i + 1]
        BY <1>1, HeadTailProperties
      <4> HIDE DEF t
      <4>2. Len(t) = k
        BY <1>0, <1>1, <4>1
      <4> QED
        BY <4>1, <4>2
    <3>4. c.ring # <<>>
      BY <1>0, <3>1 DEF n
    <3>5. r \in Seq(Nat) /\ Len(r) = n - 1 /\ \A i \in 1 .. n - 1 : r[i] = c.ring[i + 1]
      BY <1>0, <3>4, HeadTailProperties DEF n
    <3> HIDE DEF t, r
    <3>6. /\ Len(w) = n /\ \A i \in 1 .. n - 1 : w[i] = r[i]
          /\ w[n] = g
      <4>1. /\ Len(w) = Len(r) + 1 /\ \A i \in 1 .. Len(r) : w[i] = r[i]
            /\ w[Len(r) + 1] = g
        BY <2>2, <3>5, AppendProperties
      <4> HIDE DEF w
      <4>2. Len(r) + 1 = n /\ Len(r) = n - 1
        BY <2>1, <3>5
      <4> QED
        BY <4>1, <4>2
    <3>7. WithGap(c.ring, g) = w
      BY <2>5 DEF WithGap, r, n
    <3> HIDE DEF w
    <3>8. ASSUME NEW i \in 1 .. n PROVE w[i] = t[i + 1] - t[i]
      <4>1. i + 1 \in 1 .. k /\ i \in 1 .. k /\ t[i + 1] = b[i + 2] /\ t[i] = b[i + 1] /\ b[i + 1] = a[i + 1]
        <5>1. i + 1 \in 1 .. k /\ i \in 1 .. k /\ (i + 1) + 1 = i + 2
          BY <2>1
        <5> QED
          BY <1>1, <3>3, <5>1
      <4>2. CASE i = n
        <5>1. i + 1 = k /\ i + 2 = k + 1
          BY <2>1, <4>2
        <5> QED
          BY <1>1, <3>6, <4>1, <4>2, <5>1 DEF g
      <4>3. CASE i \in 1 .. n - 1
        <5>1. i + 1 \in 1 .. n /\ i + 2 \in 1 .. k /\ (i + 1) + 1 = i + 2
          BY <2>1, <4>3
        <5>2. c.ring[i + 1] = a[i + 2] - a[i + 1]
          BY <2>1, <5>1
        <5> QED
          BY <1>1, <3>5, <3>6, <4>1, <4>3, <5>1, <5>2
      <4>4. i = n \/ i \in 1 .. n - 1
        BY <2>1
      <4> QED
        BY <4>2, <4>3, <4>4
    <3>9. t[k] = now /\ k \in 1 .. k
      BY <1>1, <2>1, <3>3
    <3>11. t # <<>>
      <4>1. Len(t) # 0
        BY <2>1, <3>3
      <4> QED
        BY <4>1
    <3>12. Matches(Advance(c, now), t)
      BY <2>1, <2>4, <3>3, <3>6, <3>7, <3>8, <3>9, <3>11 DEF Matches
    <3> QED
      BY <3>2, <3>12 DEF b
  <2>6. CASE n < RingCap
    <3> DEFINE w == Append(c.ring, g)
    <3>1. Newest(b) = b
      BY <1>0, <1>1, <2>1, <2>6 DEF Newest
    <3>2. WithGap(c.ring, g) = w
      BY <1>0, <2>1, <2>6 DEF WithGap, n
    <3>3. /\ Len(w) = n + 1 /\ \A i \in 1 .. n : w[i] = c.ring[i]
          /\ w[n + 1] = g
      BY <1>0, <2>2, AppendProperties DEF n
    <3> HIDE DEF w
    <3>4. ASSUME NEW i \in 1 .. n + 1 PROVE w[i] = b[i + 1] - b[i]
      <4>1. i \in 1 .. k /\ b[i] = a[i]
        BY <1>1, <2>1
      <4>2. CASE i = n + 1
        BY <1>1, <2>1, <3>3, <4>1, <4>2 DEF g
      <4>3. CASE i \in 1 .. n
        <5>1. i + 1 \in 1 .. k
          BY <2>1, <4>3
        <5> QED
          BY <1>1, <2>1, <3>3, <4>1, <4>3, <5>1
      <4>4. i = n + 1 \/ i \in 1 .. n
        BY <2>1
      <4> QED
        BY <4>2, <4>3, <4>4
    <3>5. Matches(Advance(c, now), b)
      BY <1>1, <2>1, <2>4, <3>2, <3>3, <3>4 DEF Matches
    <3> QED
      BY <3>1, <3>5 DEF b
  <2> QED
    BY <1>0, <2>1, <2>5, <2>6
<1> QED
  BY <1>4, <1>5

(* With ring and arrivals in step a demotion by observation is one for     *)
(* which every gap speaks.                                                 *)
LEMMA DemotionNeedsLongGaps ==
    ASSUME NEW c \in Cadences, NEW a \in Seq(Nat), Matches(c, a),
           Len(c.ring) >= MinObservations, Classify(c.ring) = "demote5m"
    PROVE  ~ShortGap(a)
<1>1. c.ring \in Seq(Nat) /\ c.ring # <<>> /\ Len(c.ring) \in Nat
  BY CadenceAssumption DEF Cadences
<1>2. Sorted(c.ring, 1) > Hour /\ Hour \in Nat
  BY CadenceAssumption DEF Classify
<1>3. \A i \in 1 .. Len(c.ring) : c.ring[i] \in Nat /\ c.ring[i] > Hour
  <2>1. Sorted(c.ring, 1) \in Nat /\ \A i \in 1 .. Len(c.ring) : Sorted(c.ring, 1) <= c.ring[i]
    BY <1>1, SortedFirst
  <2>2. \A i \in 1 .. Len(c.ring) : c.ring[i] \in Nat
    BY <1>1
  <2> QED
    BY <1>2, <2>1, <2>2
<1>4. /\ Len(a) = Len(c.ring) + 1
      /\ \A i \in 1 .. Len(c.ring) : c.ring[i] = a[i + 1] - a[i]
  BY <1>1 DEF Matches
<1>5. Len(a) - 1 = Len(c.ring)
  BY <1>1, <1>4
<1>6. ASSUME NEW i \in 1 .. Len(a) - 1 PROVE ~(a[i + 1] - a[i] <= Hour)
  <2>1. i \in 1 .. Len(c.ring)
    BY <1>5
  <2>2. c.ring[i] = a[i + 1] - a[i] /\ c.ring[i] \in Nat /\ c.ring[i] > Hour
    BY <1>3, <1>4, <2>1
  <2> QED
    BY <1>2, <2>2
<1> QED
  BY <1>6 DEF ShortGap

LEMMA EvidenceInit == Init => EvidenceInv
<1> SUFFICES ASSUME Init PROVE EvidenceInv
  OBVIOUS
<1>1. ArrivalsOK
  BY CadenceAssumption DEF Init, ArrivalsOK
<1>2. \A s \in Sessions : GapsKnown(s)
  BY DEF Init, GapsKnown, Handles, Matches, Demoted, NoForecast
<1> QED
  BY <1>1, <1>2 DEF EvidenceInv

LEMMA EvidenceStep == HintInv /\ EvidenceInv /\ [Next]_vars => EvidenceInv'
<1> SUFFICES ASSUME HintInv, EvidenceInv, [Next]_vars PROVE EvidenceInv'
  OBVIOUS
<1>1. /\ clock \in Nat /\ cadence \in [Sessions -> Cadences] /\ DOMAIN req = Requests
      /\ DOMAIN result = Sessions /\ ArrivalsOK
      /\ \A r \in Requests : req[r] # Idle =>
             req[r].session \in Sessions /\ req[r].now \in Nat /\ req[r].copy \in Cadences
      /\ \A s \in Sessions \ overlap : GapsKnown(s)
  BY DEF HintInv, Shape, EvidenceInv, Cadences
<1>2. ASSUME clock' \in {clock, clock + 1}, UNCHANGED <<cadence, req, arrivals, overlap>>,
             \A s \in Sessions : result'[s] = result[s] \/ result'[s] = NoForecast
      PROVE  EvidenceInv'
  <2>1. ArrivalsOK'
    <3> SUFFICES ASSUME NEW s \in Sessions, NEW i \in 1 .. Len(arrivals[s])
                 PROVE  arrivals[s][i] <= clock'
      BY <1>1, <1>2 DEF ArrivalsOK
    <3>1. arrivals[s][i] \in Nat /\ arrivals[s][i] <= clock
      BY <1>1 DEF ArrivalsOK
    <3> QED
      BY <1>1, <1>2, <3>1
  <2>2. \A s \in Sessions : Demoted(s)' => Demoted(s)
    BY <1>2 DEF Demoted, NoForecast
  <2>3. ASSUME NEW s \in Sessions \ overlap' PROVE GapsKnown(s)'
    <3>1. GapsKnown(s) /\ (Demoted(s)' => Demoted(s))
      BY <1>1, <1>2, <2>2, <2>3
    <3> QED
      BY <1>2, <3>1 DEF GapsKnown, Handles, Quiet
  <2> QED
    BY <2>1, <2>3 DEF EvidenceInv
<1>3. CASE Tick
  <2>1. \A s \in Sessions : result'[s] = NoForecast
    BY <1>3 DEF Tick
  <2> QED
    BY <1>2, <1>3, <2>1 DEF Tick
<1>4. ASSUME NEW s \in Sessions, NEW h \in Hints \cup {NoHint}, Declare(s, h) PROVE EvidenceInv'
  BY <1>2, <1>4 DEF Declare
<1>5. ASSUME NEW r \in Requests, NEW s \in Sessions, Read(r, s) PROVE EvidenceInv'
  <2> DEFINE q == [phase |-> "reading", session |-> s, now |-> clock, copy |-> cadence[s]]
             a2 == Newest(Append(arrivals[s], clock))
  <2>1. /\ req[r] = Idle /\ req' = [req EXCEPT ![r] = q]
        /\ arrivals' = [arrivals EXCEPT ![s] = a2]
        /\ UNCHANGED <<clock, cadence, result>> /\ overlap \subseteq overlap'
        /\ s \notin overlap' => s \notin overlap /\ Quiet(s)
    BY <1>5 DEF Read, Quiet, Handles
  <2>2. /\ arrivals[s] \in Seq(Nat) /\ Len(arrivals[s]) <= RingCap + 1
        /\ \A i \in 1 .. Len(arrivals[s]) : arrivals[s][i] <= clock
    BY <1>1 DEF ArrivalsOK
  <2>3. q # Idle /\ q.session = s /\ q.now = clock /\ q.copy = cadence[s]
    BY DEF Idle
  <2> HIDE DEF q
  <2>4. ArrivalsOK'
    <3>1. a2 \in Seq(Nat) /\ Len(a2) <= RingCap + 1 /\ \A i \in 1 .. Len(a2) : a2[i] <= clock
      BY <1>1, <2>2, ArrivalsGrow
    <3> HIDE DEF a2
    <3> QED
      BY <1>1, <2>1, <3>1 DEF ArrivalsOK
  <2>5. ASSUME NEW t \in Sessions \ overlap', t # s PROVE GapsKnown(t)'
    <3>1. GapsKnown(t)
      BY <1>1, <2>1, <2>5
    <3>2. \A o \in Requests : Handles(o, t)' <=> Handles(o, t)
      BY <1>1, <2>1, <2>3, <2>5 DEF Handles
    <3>3. \A o \in Requests : Handles(o, t) => req'[o] = req[o]
      BY <1>1, <2>1 DEF Handles
    <3>4. arrivals'[t] = arrivals[t] /\ cadence'[t] = cadence[t] /\ result'[t] = result[t]
      BY <1>1, <2>1, <2>5 DEF ArrivalsOK
    <3> QED
      BY <3>1, <3>2, <3>3, <3>4 DEF GapsKnown, Quiet, Demoted
  <2>6. ASSUME s \notin overlap' PROVE GapsKnown(s)'
    <3>1. Quiet(s) /\ Matches(cadence[s], arrivals[s])
      BY <1>1, <2>1, <2>6 DEF GapsKnown
    <3>2. Matches(Advance(cadence[s], clock), a2)
      BY <1>1, <2>2, <3>1, MatchesGrows
    <3> HIDE DEF a2
    <3>3. \A o \in Requests : Handles(o, s)' <=> o = r
      BY <1>1, <2>1, <2>3, <3>1 DEF Handles, Quiet
    <3>4. /\ req'[r] = q /\ arrivals'[s] = a2
      BY <1>1, <2>1 DEF ArrivalsOK
    <3> QED
      BY <2>3, <3>2, <3>3, <3>4 DEF GapsKnown, Quiet
  <2> QED
    BY <2>4, <2>5, <2>6 DEF EvidenceInv
<1>6. ASSUME NEW r \in Requests, Insert(r) PROVE EvidenceInv'
  <2> PICK s \in Sessions : s = req[r].session
    BY <1>1, <1>6 DEF Insert
  <2> PICK next : next = Advance(req[r].copy, req[r].now)
    OBVIOUS
  <2>1. /\ req[r] # Idle /\ req[r].session = s /\ next \in Cadences
    BY <1>1, <1>6, AdvanceType DEF Insert, Cadences
  <2>2. /\ cadence' = [cadence EXCEPT ![s] = next] /\ req' = [req EXCEPT ![r] = Idle]
        /\ result' = [result EXCEPT ![s] = Forecast(s, next.ring, cache')]
        /\ UNCHANGED <<clock, arrivals, overlap>>
    BY <1>6 DEF Insert
  <2>3. ArrivalsOK'
    BY <1>1, <2>2 DEF ArrivalsOK
  <2>4. Handles(r, s) /\ \A t \in Sessions : Handles(r, t) => t = s
    BY <2>1 DEF Handles
  <2>5. Len(next.ring) \in Nat /\ MinObservations \in Nat
    BY <2>1, CadenceAssumption DEF Cadences
  <2>6. Demoted(s)' => Len(next.ring) >= MinObservations /\ Classify(next.ring) = "demote5m"
    <3>1. result'[s] = Forecast(s, next.ring, cache')
      BY <1>1, <2>2
    <3>2. ~(Len(next.ring) >= MinObservations) =>
              Forecast(s, next.ring, cache').source # "observed"
      BY <2>5 DEF Forecast
    <3>3. Len(next.ring) >= MinObservations =>
              Forecast(s, next.ring, cache').forecast = Classify(next.ring)
      BY <2>5 DEF Forecast
    <3> QED
      BY <3>1, <3>2, <3>3 DEF Demoted
  <2>7. \A t \in Sessions, o \in Requests : Handles(o, t)' <=> Handles(o, t) /\ o # r
    BY <1>1, <2>2 DEF Handles
  <2>8. \A o \in Requests : o # r => req'[o] = req[o]
    BY <1>1, <2>2
  <2>9. ASSUME NEW t \in Sessions \ overlap', t # s PROVE GapsKnown(t)'
    <3>1. GapsKnown(t) /\ ~Handles(r, t)
      BY <1>1, <2>2, <2>4, <2>9
    <3>2. cadence'[t] = cadence[t] /\ result'[t] = result[t] /\ arrivals'[t] = arrivals[t]
      BY <1>1, <2>2, <2>9
    <3> QED
      BY <2>7, <2>8, <3>1, <3>2 DEF GapsKnown, Quiet, Demoted
  <2>10. ASSUME s \notin overlap' PROVE GapsKnown(s)'
    <3>1. GapsKnown(s)
      BY <1>1, <2>1, <2>2, <2>10
    <3>2. Matches(next, arrivals[s]) /\ \A o \in Requests : ~Handles(o, s)'
      BY <2>1, <2>4, <2>7, <3>1 DEF GapsKnown
    <3>3. cadence'[s] = next /\ arrivals'[s] = arrivals[s] /\ arrivals[s] \in Seq(Nat)
      BY <1>1, <2>1, <2>2 DEF ArrivalsOK
    <3>4. Demoted(s)' => ~ShortGap(arrivals[s])
      BY <2>1, <2>6, <3>2, <3>3, DemotionNeedsLongGaps
    <3> QED
      BY <3>2, <3>3, <3>4 DEF GapsKnown, Quiet
  <2> QED
    BY <2>3, <2>9, <2>10 DEF EvidenceInv
<1>7. CASE UNCHANGED vars
  BY <1>2, <1>7 DEF vars
<1> QED
  BY <1>3, <1>4, <1>5, <1>6, <1>7 DEF Next

(* A demotion by observation of a session whose requests never overlapped  *)
(* means that its newest requests, as far back as the ring reaches, were   *)
(* all more than an hour apart (forecast_ttl, ttl_forecast.rs 295-352).    *)
THEOREM DemotionFounded == Spec => []DemotionHasEvidence
<1>1. EvidenceInv => DemotionHasEvidence
  BY DEF EvidenceInv, GapsKnown, Quiet, Handles, DemotionHasEvidence
<1> QED
  BY HintInit, HintStep, EvidenceInit, EvidenceStep, <1>1, PTL DEF Spec

-----------------------------------------------------------------------------
(***************************************************************************)
(* Streams.  A response is a row of events of six or nine tokens; a blank  *)
(* line ends each of them and nothing else, so that wherever the rewriter  *)
(* starts to look behind an event it finds the ends the whole stream has.  *)
(***************************************************************************)
Token ==
    [t : {"name", "nl", "cr", "head", "tail", "none"},
     kind : {"", "start", "delta", "output", "text"}, in : Nat, cached : Nat]

Silent(x) == ~HasInputSide(x) => x.in = 0 /\ x.cached = 0

WellFormed(R) ==
    /\ R \in Seq(Token)
    /\ \A i \in DOMAIN R : R[i].t = "tail" <=> i > 1 /\ R[i - 1].t = "head"
    /\ \A i \in DOMAIN R : Silent(R[i])
    /\ \A d, e \in EventEnds(R) : d < e => d + 3 < e

LEMMA PayloadFacts ==
    ASSUME NEW x \in Payloads
    PROVE  x \in Token /\ x.t = "tail" /\ Silent(x)
<1>1. ASSUME NEW k \in {"start", "delta"}, x \in Reports(k)
      PROVE  x \in Token /\ x.t = "tail" /\ HasInputSide(x)
  BY <1>1, StreamAssumption DEF Reports, Token, HasInputSide
<1>2. ASSUME NEW k \in {"output", "text"}, x \in Plain(k)
      PROVE  x \in Token /\ x.t = "tail" /\ x.in = 0 /\ x.cached = 0
  <2>1. x.t = "tail" /\ x.kind = k /\ x.in = 0 /\ x.cached = 0
        /\ x = [t |-> x.t, kind |-> x.kind, in |-> x.in, cached |-> x.cached]
    BY <1>2 DEF Plain
  <2>2. x.t \in {"name", "nl", "cr", "head", "tail", "none"}
    BY <2>1
  <2>3. x.kind \in {"", "start", "delta", "output", "text"}
    BY <2>1
  <2>4. x.in \in Nat /\ x.cached \in Nat
    BY <2>1
  <2> QED
    BY <2>1, <2>2, <2>3, <2>4 DEF Token
<1> QED
  BY <1>1, <1>2 DEF Payloads, Silent

LEMMA TokenFacts ==
    ASSUME NEW t \in {"name", "nl", "cr", "head", "tail", "none"}
    PROVE  Tok(t) \in Token /\ Tok(t).t = t /\ Silent(Tok(t))
BY DEF Tok, Token, Silent

(* The tokens of an event, by their place.                                 *)
Place(i, size) == (i - 1) % size

LfSort(m) ==
    CASE m = 0 -> "name" [] m = 1 -> "nl" [] m = 2 -> "head" [] m = 3 -> "tail"
      [] m = 4 -> "nl" [] m = 5 -> "nl"

CrlfSort(m) ==
    CASE m = 0 -> "name" [] m = 1 -> "cr" [] m = 2 -> "nl" [] m = 3 -> "head"
      [] m = 4 -> "tail" [] m = 5 -> "cr" [] m = 6 -> "nl" [] m = 7 -> "cr" [] m = 8 -> "nl"

IsOf(x, sort) == x \in Token /\ x.t = sort /\ Silent(x)

LEMMA EventLf ==
    ASSUME NEW x, IsOf(x, "tail"), NEW m \in 0 .. 5
    PROVE  IsOf(EventTokens(x, "lf")[m + 1], LfSort(m))
<1>1. EventTokens(x, "lf") = <<Tok("name"), Tok("nl"), Tok("head"), x, Tok("nl"), Tok("nl")>>
  BY DEF EventTokens
<1>2. IsOf(Tok("name"), "name") /\ IsOf(Tok("nl"), "nl") /\ IsOf(Tok("head"), "head")
  BY TokenFacts DEF IsOf
<1> DEFINE a == Tok("name") b == Tok("nl") c == Tok("head")
<1> HIDE DEF a, b, c
<1>3. EventTokens(x, "lf") = <<a, b, c, x, b, b>>
  BY <1>1 DEF a, b, c
<1>4. IsOf(a, "name") /\ IsOf(b, "nl") /\ IsOf(c, "head")
  BY <1>2 DEF a, b, c
<1>5. CASE m = 0
  BY <1>3, <1>4, <1>5 DEF LfSort
<1>6. CASE m = 1
  BY <1>3, <1>4, <1>6 DEF LfSort
<1>7. CASE m = 2
  BY <1>3, <1>4, <1>7 DEF LfSort
<1>8. CASE m = 3
  BY <1>3, <1>4, <1>8 DEF LfSort
<1>9. CASE m = 4
  BY <1>3, <1>4, <1>9 DEF LfSort
<1>10. CASE m = 5
  BY <1>3, <1>4, <1>10 DEF LfSort
<1> QED
  BY <1>5, <1>6, <1>7, <1>8, <1>9, <1>10

LEMMA EventCrlf ==
    ASSUME NEW x, IsOf(x, "tail"), NEW m \in 0 .. 8
    PROVE  IsOf(EventTokens(x, "crlf")[m + 1], CrlfSort(m))
<1>1. EventTokens(x, "crlf") =
          <<Tok("name"), Tok("cr"), Tok("nl"), Tok("head"), x, Tok("cr"), Tok("nl"),
            Tok("cr"), Tok("nl")>>
  BY DEF EventTokens
<1>2. /\ IsOf(Tok("name"), "name") /\ IsOf(Tok("nl"), "nl")
      /\ IsOf(Tok("head"), "head") /\ IsOf(Tok("cr"), "cr")
  BY TokenFacts DEF IsOf
<1> DEFINE a == Tok("name") b == Tok("nl") c == Tok("head") r == Tok("cr")
<1> HIDE DEF a, b, c, r
<1>3. EventTokens(x, "crlf") = <<a, r, b, c, x, r, b, r, b>>
  BY <1>1 DEF a, b, c, r
<1>4. IsOf(a, "name") /\ IsOf(b, "nl") /\ IsOf(c, "head") /\ IsOf(r, "cr")
  BY <1>2 DEF a, b, c, r
<1>5. CASE m = 0
  BY <1>3, <1>4, <1>5 DEF CrlfSort
<1>6. CASE m \in {1, 5, 7}
  BY <1>3, <1>4, <1>6 DEF CrlfSort
<1>7. CASE m \in {2, 6, 8}
  BY <1>3, <1>4, <1>7 DEF CrlfSort
<1>8. CASE m = 3
  BY <1>3, <1>4, <1>8 DEF CrlfSort
<1>9. CASE m = 4
  BY <1>3, <1>4, <1>9 DEF CrlfSort
<1> QED
  BY <1>5, <1>6, <1>7, <1>8, <1>9

(* Stepping from one place to the next.                                    *)
LEMMA PlaceSteps ==
    ASSUME NEW i \in Nat, i > 1, NEW s \in {6, 9}
    PROVE  Place(i, s) = (IF Place(i - 1, s) = s - 1 THEN 0 ELSE Place(i - 1, s) + 1)
<1>1. CASE s = 6
  BY <1>1 DEF Place
<1>2. CASE s = 9
  BY <1>2 DEF Place
<1> QED
  BY <1>1, <1>2

LEMMA LfTokens ==
    ASSUME NEW n \in Nat, NEW p \in [1 .. n -> Payloads], NEW i \in 1 .. n * 6
    PROVE  /\ Place(i, 6) \in 0 .. 5
           /\ IsOf(Response(n, p, "lf")[i], LfSort(Place(i, 6)))
<1> DEFINE m == Place(i, 6)
           k == ((i - 1) \div 6) + 1
           x == p[k]
<1>1. m \in 0 .. 5 /\ k \in 1 .. n
  BY DEF Place
<1>2. x \in Payloads
  BY <1>1
<1>3. Response(n, p, "lf")[i] = EventTokens(x, "lf")[m + 1]
  BY DEF Response, EventSize, Place
<1> HIDE DEF m, x
<1>4. IsOf(x, "tail")
  BY <1>2, PayloadFacts DEF IsOf
<1> QED
  BY <1>1, <1>3, <1>4, EventLf DEF m

LEMMA CrlfTokens ==
    ASSUME NEW n \in Nat, NEW p \in [1 .. n -> Payloads], NEW i \in 1 .. n * 9
    PROVE  /\ Place(i, 9) \in 0 .. 8
           /\ IsOf(Response(n, p, "crlf")[i], CrlfSort(Place(i, 9)))
<1> DEFINE m == Place(i, 9)
           k == ((i - 1) \div 9) + 1
           x == p[k]
<1>1. m \in 0 .. 8 /\ k \in 1 .. n
  BY DEF Place
<1>2. x \in Payloads
  BY <1>1
<1>3. Response(n, p, "crlf")[i] = EventTokens(x, "crlf")[m + 1]
  BY DEF Response, EventSize, Place
<1> HIDE DEF m, x
<1>4. IsOf(x, "tail")
  BY <1>2, PayloadFacts DEF IsOf
<1> QED
  BY <1>1, <1>3, <1>4, EventCrlf DEF m

(* What the places say of neighbours.                                      *)
LEMMA LfNeighbours ==
    ASSUME NEW N \in Nat, NEW R \in [1 .. N -> Token],
           \A i \in 1 .. N : Place(i, 6) \in 0 .. 5 /\ IsOf(R[i], LfSort(Place(i, 6)))
    PROVE  WellFormed(R)
<1>1. R \in Seq(Token) /\ Len(R) = N /\ DOMAIN R = 1 .. N
  OBVIOUS
<1>2. \A i \in 1 .. N : /\ Place(i, 6) \in 0 .. 5 /\ Silent(R[i])
                        /\ R[i].t = "tail" <=> Place(i, 6) = 3
                        /\ R[i].t = "head" <=> Place(i, 6) = 2
                        /\ R[i].t = "nl" <=> Place(i, 6) \in {1, 4, 5}
                        /\ R[i].t # "cr"
  BY DEF IsOf, LfSort
<1>3. \A i \in 1 .. N : i > 1 =>
          /\ i - 1 \in 1 .. N
          /\ Place(i, 6) = (IF Place(i - 1, 6) = 5 THEN 0 ELSE Place(i - 1, 6) + 1)
  BY PlaceSteps
<1>4. ASSUME NEW i \in 1 .. N PROVE R[i].t = "tail" <=> i > 1 /\ R[i - 1].t = "head"
  <2>1. CASE i = 1
    <3>1. Place(1, 6) = 0
      BY DEF Place
    <3> QED
      BY <1>2, <2>1, <3>1
  <2>2. CASE i > 1
    BY <1>2, <1>3, <2>2
  <2> QED
    BY <2>1, <2>2
<1>5. ASSUME NEW e \in EventEnds(R) PROVE e \in Nat /\ Place(e, 6) = 5
  <2>1. e \in 2 .. N /\ R[e].t = "nl" /\ (R[e - 1].t = "nl" \/ R[e - 1].t = "cr")
    BY <1>1, <1>5 DEF EventEnds
  <2>2. e \in 1 .. N /\ e \in Nat /\ e > 1
    BY <2>1
  <2>3. Place(e, 6) \in {1, 4, 5} /\ e - 1 \in 1 .. N
        /\ Place(e, 6) = (IF Place(e - 1, 6) = 5 THEN 0 ELSE Place(e - 1, 6) + 1)
    BY <1>2, <1>3, <2>1, <2>2
  <2>4. Place(e - 1, 6) \in {1, 4, 5}
    BY <1>2, <2>1, <2>3
  <2> QED
    BY <2>2, <2>3, <2>4
<1>6. ASSUME NEW d \in EventEnds(R), NEW e \in EventEnds(R), d < e PROVE d + 3 < e
  <2>1. d \in Nat /\ e \in Nat /\ (d - 1) % 6 = 5 /\ (e - 1) % 6 = 5
    BY <1>5 DEF Place
  <2> QED
    BY <1>6, <2>1
<1> QED
  BY <1>1, <1>2, <1>4, <1>6 DEF WellFormed

LEMMA CrlfNeighbours ==
    ASSUME NEW N \in Nat, NEW R \in [1 .. N -> Token],
           \A i \in 1 .. N : Place(i, 9) \in 0 .. 8 /\ IsOf(R[i], CrlfSort(Place(i, 9)))
    PROVE  WellFormed(R)
<1>1. R \in Seq(Token) /\ Len(R) = N /\ DOMAIN R = 1 .. N
  OBVIOUS
<1>2. \A i \in 1 .. N : /\ Place(i, 9) \in 0 .. 8 /\ Silent(R[i])
                        /\ R[i].t = "tail" <=> Place(i, 9) = 4
                        /\ R[i].t = "head" <=> Place(i, 9) = 3
                        /\ R[i].t = "nl" <=> Place(i, 9) \in {2, 6, 8}
                        /\ R[i].t = "cr" <=> Place(i, 9) \in {1, 5, 7}
  BY DEF IsOf, CrlfSort
<1>3. \A i \in 1 .. N : i > 1 =>
          /\ i - 1 \in 1 .. N
          /\ Place(i, 9) = (IF Place(i - 1, 9) = 8 THEN 0 ELSE Place(i - 1, 9) + 1)
  BY PlaceSteps
<1>4. ASSUME NEW i \in 1 .. N PROVE R[i].t = "tail" <=> i > 1 /\ R[i - 1].t = "head"
  <2>1. CASE i = 1
    <3>1. Place(1, 9) = 0
      BY DEF Place
    <3> QED
      BY <1>2, <2>1, <3>1
  <2>2. CASE i > 1
    <3>1. i - 1 \in 1 .. N
          /\ Place(i, 9) = (IF Place(i - 1, 9) = 8 THEN 0 ELSE Place(i - 1, 9) + 1)
      BY <1>3, <2>2
    <3>2. /\ Place(i, 9) \in 0 .. 8 /\ (R[i].t = "tail" <=> Place(i, 9) = 4)
          /\ Place(i - 1, 9) \in 0 .. 8 /\ (R[i - 1].t = "head" <=> Place(i - 1, 9) = 3)
      BY <1>2, <3>1
    <3> QED
      BY <2>2, <3>1, <3>2
  <2> QED
    BY <2>1, <2>2
<1>5. ASSUME NEW e \in EventEnds(R) PROVE e \in Nat /\ Place(e, 9) = 8
  <2>1. /\ e \in 2 .. N /\ R[e].t = "nl"
        /\ R[e - 1].t = "nl" \/ (e > 3 /\ R[e - 1].t = "cr" /\ R[e - 2].t = "nl")
    BY <1>1, <1>5 DEF EventEnds
  <2>2. e \in 1 .. N /\ e \in Nat /\ e > 1
    BY <2>1
  <2>3. e - 1 \in 1 .. N
        /\ Place(e, 9) = (IF Place(e - 1, 9) = 8 THEN 0 ELSE Place(e - 1, 9) + 1)
    BY <1>3, <2>2
  <2>4. /\ Place(e, 9) \in {2, 6, 8} /\ Place(e - 1, 9) \in 0 .. 8
        /\ R[e - 1].t = "nl" <=> Place(e - 1, 9) \in {2, 6, 8}
        /\ R[e - 1].t = "cr" <=> Place(e - 1, 9) \in {1, 5, 7}
    BY <1>2, <2>1, <2>2, <2>3
  <2>5. R[e - 1].t # "nl"
    BY <2>3, <2>4
  <2>6. e > 3 /\ R[e - 1].t = "cr" /\ R[e - 2].t = "nl"
    BY <2>1, <2>5
  <2>7. e - 1 \in 1 .. N /\ e - 1 > 1 /\ (e - 1) - 1 = e - 2 /\ e - 2 \in 1 .. N
    BY <2>1, <2>6
  <2>8. Place(e - 1, 9) = (IF Place(e - 2, 9) = 8 THEN 0 ELSE Place(e - 2, 9) + 1)
    BY <1>3, <2>7
  <2>9. Place(e - 2, 9) \in {2, 6, 8}
    BY <1>2, <2>6, <2>7
  <2>10. Place(e - 1, 9) = 7
    BY <2>4, <2>6, <2>8, <2>9
  <2> QED
    BY <2>2, <2>3, <2>10
<1>6. ASSUME NEW d \in EventEnds(R), NEW e \in EventEnds(R), d < e PROVE d + 3 < e
  <2>1. d \in Nat /\ e \in Nat /\ (d - 1) % 9 = 8 /\ (e - 1) % 9 = 8
    BY <1>5 DEF Place
  <2> QED
    BY <1>6, <2>1
<1> QED
  BY <1>1, <1>2, <1>4, <1>6 DEF WellFormed

LEMMA ResponsesAreWellFormed == ASSUME NEW R \in Responses PROVE WellFormed(R)
<1>1. PICK r \in UNION {{n} \X [1 .. n -> Payloads] \X {"lf", "crlf"} : n \in 0 .. MaxEvents} :
          R = Response(r[1], r[2], r[3])
  BY DEF Responses
<1>2. PICK n \in 0 .. MaxEvents : r \in {n} \X [1 .. n -> Payloads] \X {"lf", "crlf"}
  BY <1>1
<1>3. n \in Nat /\ r[1] = n /\ r[2] \in [1 .. n -> Payloads] /\ r[3] \in {"lf", "crlf"}
  BY <1>2, StreamAssumption
<1> DEFINE p == r[2]
<1>4. CASE r[3] = "lf"
  <2>1. R = Response(n, p, "lf")
    BY <1>1, <1>3, <1>4
  <2>2. n * 6 \in Nat /\ p \in [1 .. n -> Payloads]
    BY <1>3
  <2>3. \A i \in 1 .. n * 6 :
            Place(i, 6) \in 0 .. 5 /\ IsOf(R[i], LfSort(Place(i, 6)))
    BY <1>3, <2>1, <2>2, LfTokens
  <2>4. R = [i \in 1 .. n * 6 |-> R[i]]
    BY <2>1 DEF Response, EventSize
  <2>5. \A i \in 1 .. n * 6 : R[i] \in Token
    BY <2>3 DEF IsOf
  <2>6. R \in [1 .. n * 6 -> Token]
    BY <2>4, <2>5
  <2> QED
    BY <2>2, <2>3, <2>6, LfNeighbours
<1>5. CASE r[3] = "crlf"
  <2>1. R = Response(n, p, "crlf")
    BY <1>1, <1>3, <1>5
  <2>2. n * 9 \in Nat /\ p \in [1 .. n -> Payloads]
    BY <1>3
  <2>3. \A i \in 1 .. n * 9 :
            Place(i, 9) \in 0 .. 8 /\ IsOf(R[i], CrlfSort(Place(i, 9)))
    BY <1>3, <2>1, <2>2, CrlfTokens
  <2>4. R = [i \in 1 .. n * 9 |-> R[i]]
    BY <2>1 DEF Response, EventSize
  <2>5. \A i \in 1 .. n * 9 : R[i] \in Token
    BY <2>3 DEF IsOf
  <2>6. R \in [1 .. n * 9 -> Token]
    BY <2>4, <2>5
  <2> QED
    BY <2>2, <2>3, <2>6, CrlfNeighbours
<1> QED
  BY <1>3, <1>4, <1>5

(* Where the events of a stream end.                                       *)
Start(R, d) == d = 0 \/ d \in EventEnds(R)

(* The rest of a stream behind an event.                                   *)
LEMMA PieceFacts ==
    ASSUME NEW R \in Seq(Token), NEW d \in Nat, NEW m \in Nat, d <= m, m <= Len(R)
    PROVE  LET buf == SubSeq(R, d + 1, m)
           IN  /\ buf \in Seq(Token) /\ Len(buf) = m - d
               /\ \A i \in 1 .. m - d : buf[i] = R[d + i] /\ d + i \in DOMAIN R
OBVIOUS

(* Whoever looks behind an event finds the ends the whole stream has.      *)
LEMMA EndsBehind ==
    ASSUME NEW R, WellFormed(R), NEW d \in Nat, NEW m \in Nat, d <= m, m <= Len(R), Start(R, d)
    PROVE  \A p : p \in EventEnds(SubSeq(R, d + 1, m)) <=>
                      p \in Nat /\ p > 0 /\ d + p \in EventEnds(R) /\ d + p <= m
<1> SUFFICES ASSUME NEW p
             PROVE  p \in EventEnds(SubSeq(R, d + 1, m)) <=>
                        p \in Nat /\ p > 0 /\ d + p \in EventEnds(R) /\ d + p <= m
  OBVIOUS
<1> DEFINE buf == SubSeq(R, d + 1, m)
<1>1. /\ R \in Seq(Token) /\ Len(buf) = m - d
      /\ \A i \in 1 .. m - d : buf[i] = R[d + i]
  BY PieceFacts DEF WellFormed
<1> HIDE DEF buf
<1>2. ASSUME p \in EventEnds(buf)
      PROVE  p \in Nat /\ p > 0 /\ d + p \in EventEnds(R) /\ d + p <= m
  <2>1. /\ p \in 2 .. m - d /\ buf[p].t = "nl"
        /\ \/ buf[p - 1].t = "nl"
           \/ p > 3 /\ buf[p - 1].t = "cr" /\ buf[p - 2].t = "nl" /\ buf[p - 3].t = "cr"
    BY <1>1, <1>2 DEF EventEnds
  <2>2. /\ buf[p] = R[d + p] /\ buf[p - 1] = R[(d + p) - 1]
        /\ p > 3 => buf[p - 2] = R[(d + p) - 2] /\ buf[p - 3] = R[(d + p) - 3]
    <3>1. p \in 1 .. m - d /\ p - 1 \in 1 .. m - d
      BY <2>1
    <3>2. p > 3 => p - 2 \in 1 .. m - d /\ p - 3 \in 1 .. m - d
      BY <2>1
    <3>3. /\ d + (p - 1) = (d + p) - 1 /\ d + (p - 2) = (d + p) - 2
          /\ d + (p - 3) = (d + p) - 3
      BY <2>1
    <3> QED
      BY <1>1, <3>1, <3>2, <3>3
  <2>3. d + p \in 2 .. Len(R) /\ (p > 3 => d + p > 3)
    BY <1>1, <2>1
  <2> QED
    BY <2>1, <2>2, <2>3 DEF EventEnds
<1>3. ASSUME p \in Nat, p > 0, d + p \in EventEnds(R), d + p <= m
      PROVE  p \in EventEnds(buf)
  <2> DEFINE e == d + p
  <2>1. /\ e \in 2 .. Len(R) /\ R[e].t = "nl"
        /\ \/ R[e - 1].t = "nl"
           \/ e > 3 /\ R[e - 1].t = "cr" /\ R[e - 2].t = "nl" /\ R[e - 3].t = "cr"
    BY <1>3 DEF EventEnds
  <2>2. d # 0 => p > 3
    <3>1. d # 0 => d \in EventEnds(R) /\ d < e
      BY <1>3 DEF Start
    <3>2. d # 0 => d + 3 < e
      BY <1>3, <3>1 DEF WellFormed
    <3> QED
      BY <1>3, <3>2
  <2>3. p \in 2 .. m - d /\ (e > 3 => p > 3)
    BY <1>3, <2>1, <2>2
  <2>4. /\ buf[p] = R[e] /\ buf[p - 1] = R[e - 1]
        /\ p > 3 => buf[p - 2] = R[e - 2] /\ buf[p - 3] = R[e - 3]
    <3>1. p \in 1 .. m - d /\ p - 1 \in 1 .. m - d
      BY <2>3
    <3>2. p > 3 => p - 2 \in 1 .. m - d /\ p - 3 \in 1 .. m - d
      BY <2>3
    <3>3. d + (p - 1) = e - 1 /\ d + (p - 2) = e - 2 /\ d + (p - 3) = e - 3
      BY <2>3
    <3> QED
      BY <1>1, <3>1, <3>2, <3>3
  <2> QED
    BY <1>1, <2>1, <2>3, <2>4 DEF EventEnds
<1> QED
  BY <1>2, <1>3 DEF buf

(* So no blank line it finds overlaps the one before, and all are cuts.    *)
LEMMA CutsAreEnds ==
    ASSUME NEW buf,
           \A p, q \in EventEnds(buf) :
               q < p => p - q \in EventEnds(SubSeq(buf, q + 1, Len(buf)))
    PROVE  Cuts(buf) = EventEnds(buf)
<1> DEFINE Ok(C) ==
        \A p \in EventEnds(buf) :
            p \in C <=> \A q \in C : q < p => p - q \in EventEnds(SubSeq(buf, q + 1, Len(buf)))
<1>1. Ok(EventEnds(buf))
  OBVIOUS
<1>2. \A C \in SUBSET EventEnds(buf) : Ok(C) => C = EventEnds(buf)
  OBVIOUS
<1> HIDE DEF Ok
<1>3. Cuts(buf) = CHOOSE C \in SUBSET EventEnds(buf) : Ok(C)
  BY DEF Cuts, Ok
<1>4. EventEnds(buf) \in SUBSET EventEnds(buf)
  OBVIOUS
<1>5. Cuts(buf) \in SUBSET EventEnds(buf) /\ Ok(Cuts(buf))
  BY <1>1, <1>3, <1>4
<1> QED
  BY <1>2, <1>5

LEMMA PieceOfPiece ==
    ASSUME NEW R \in Seq(Token), NEW d \in Nat, NEW m \in Nat, NEW q \in Nat,
           d + q <= m, m <= Len(R)
    PROVE  LET buf == SubSeq(R, d + 1, m)
           IN  SubSeq(buf, q + 1, Len(buf)) = SubSeq(R, (d + q) + 1, m)
<1> DEFINE buf == SubSeq(R, d + 1, m)
           a == SubSeq(buf, q + 1, Len(buf))
           b == SubSeq(R, (d + q) + 1, m)
<1>1. buf \in Seq(Token) /\ Len(buf) = m - d /\ \A i \in 1 .. m - d : buf[i] = R[d + i]
  BY PieceFacts
<1>2. b \in Seq(Token) /\ Len(b) = m - (d + q) /\ \A i \in 1 .. m - (d + q) : b[i] = R[(d + q) + i]
  BY PieceFacts
<1> HIDE DEF buf
<1>3. a \in Seq(Token) /\ Len(a) = m - (d + q) /\ \A i \in 1 .. m - (d + q) : a[i] = buf[q + i]
  BY <1>1
<1> HIDE DEF a, b
<1>4. \A i \in 1 .. m - (d + q) : a[i] = b[i]
  <2> TAKE i \in 1 .. m - (d + q)
  <2>1. q + i \in 1 .. m - d /\ d + (q + i) = (d + q) + i
    OBVIOUS
  <2> QED
    BY <1>1, <1>2, <1>3, <2>1
<1>5. a = b
  BY <1>2, <1>3, <1>4, SeqEqual
<1> QED
  BY <1>5 DEF a, b, buf

LEMMA CutsBehind ==
    ASSUME NEW R, WellFormed(R), NEW d \in Nat, NEW m \in Nat, d <= m, m <= Len(R), Start(R, d)
    PROVE  \A p : p \in Cuts(SubSeq(R, d + 1, m)) <=>
                      p \in Nat /\ p > 0 /\ d + p \in EventEnds(R) /\ d + p <= m
<1> DEFINE buf == SubSeq(R, d + 1, m)
<1>1. R \in Seq(Token)
  BY DEF WellFormed
<1>2. \A p : p \in EventEnds(buf) <=>
                 p \in Nat /\ p > 0 /\ d + p \in EventEnds(R) /\ d + p <= m
  BY EndsBehind
<1>3. ASSUME NEW p \in EventEnds(buf), NEW q \in EventEnds(buf), q < p
      PROVE  p - q \in EventEnds(SubSeq(buf, q + 1, Len(buf)))
  <2>1. /\ p \in Nat /\ d + p \in EventEnds(R) /\ d + p <= m
        /\ q \in Nat /\ d + q \in EventEnds(R) /\ d + q <= m
    BY <1>2
  <2>2. SubSeq(buf, q + 1, Len(buf)) = SubSeq(R, (d + q) + 1, m)
    BY <1>1, <2>1, PieceOfPiece
  <2>3. d + q \in Nat /\ Start(R, d + q) /\ p - q \in Nat /\ p - q > 0 /\ (d + q) + (p - q) = d + p
    BY <1>3, <2>1 DEF Start
  <2> HIDE DEF buf
  <2> QED
    BY <2>1, <2>2, <2>3, EndsBehind
<1>4. Cuts(buf) = EventEnds(buf)
  <2> HIDE DEF buf
  <2> QED
    BY <1>3, CutsAreEnds
<1> QED
  BY <1>2, <1>4
(* The last event that has ended by m ends at e.                           *)
LastEnd(R, m, e) ==
    e \in 0 .. m /\ Start(R, e) /\ \A q \in EventEnds(R) : q <= m => q <= e

(* What the harness is owed of the token at i, once its event has ended.   *)
Lifted(R, i) == R[i].t = "tail" /\ HasInputSide(R[i]) /\ est > Total(R[i])

Due(R, i) ==
    IF Lifted(R, i) THEN [R[i] EXCEPT !.in = est - R[i].cached]
    ELSE IF i > 1 /\ Lifted(R, i - 1) /\ R[i].t = "cr" THEN NoBytes
    ELSE R[i]

LEMMA BumpFacts ==
    ASSUME NEW x \in Token, est \in Nat
    PROVE  /\ HasInputSide(x) /\ est > Total(x) =>
                  Bumped(x) = [x EXCEPT !.in = est - x.cached] /\ Bumped(x) # x
           /\ ~(HasInputSide(x) /\ est > Total(x)) => Bumped(x) = x
<1>1. x.in \in Nat /\ x.cached \in Nat
  BY DEF Token
<1>2. ASSUME HasInputSide(x), est > Total(x)
      PROVE  Bumped(x) = [x EXCEPT !.in = est - x.cached] /\ Bumped(x) # x
  <2>1. x.in + (est - (x.in + x.cached)) = est - x.cached /\ est - x.cached # x.in
    BY <1>1, <1>2 DEF Total
  <2>2. Bumped(x) = [x EXCEPT !.in = x.in + (est - (x.in + x.cached))]
    BY <1>2 DEF Bumped, Total
  <2>3. Bumped(x) = [x EXCEPT !.in = est - x.cached]
    BY <2>1, <2>2
  <2>4. [x EXCEPT !.in = est - x.cached].in = est - x.cached
    BY DEF Token
  <2> QED
    BY <2>1, <2>3, <2>4
<1>3. ASSUME ~(HasInputSide(x) /\ est > Total(x)) PROVE Bumped(x) = x
  BY <1>3 DEF Bumped
<1> QED
  BY <1>2, <1>3

(* A data line of the buffer is one of the stream: no event ends before    *)
(* its second half.                                                        *)
LEMMA DataLines ==
    ASSUME NEW R, WellFormed(R), NEW d \in Nat, NEW m \in Nat, d <= m, m <= Len(R), Start(R, d),
           NEW i \in 1 .. m - d
    PROVE  LET buf == SubSeq(R, d + 1, m)
           IN  DataLine(buf, Cuts(buf), i) <=> R[d + i].t = "tail"
<1> DEFINE buf == SubSeq(R, d + 1, m)
<1>1. /\ R \in Seq(Token) /\ Len(buf) = m - d
      /\ \A j \in 1 .. m - d : buf[j] = R[d + j] /\ d + j \in DOMAIN R
  BY PieceFacts DEF WellFormed
<1>2. \A p : p \in Cuts(buf) => p \in Nat /\ d + p \in EventEnds(R)
  BY CutsBehind
<1> HIDE DEF buf
<1>3. R[d + i].t = "tail" <=> d + i > 1 /\ R[(d + i) - 1].t = "head"
  BY <1>1 DEF WellFormed
<1>4. \A e \in EventEnds(R) : R[e].t = "nl"
  BY DEF EventEnds
<1>5. CASE i = 1
  <2>1. (d + i) - 1 = d
    BY <1>5
  <2>2. d > 0 => R[d].t = "nl"
    BY <1>4 DEF Start
  <2>3. R[d + i].t # "tail"
    BY <1>3, <1>5, <2>1, <2>2
  <2> QED
    BY <1>5, <2>3 DEF DataLine, buf
<1>6. CASE i > 1
  <2>1. i - 1 \in 1 .. m - d /\ d + (i - 1) = (d + i) - 1 /\ d + i > 1
    BY <1>6
  <2>2. buf[i - 1] = R[(d + i) - 1]
    BY <1>1, <2>1
  <2>3. i - 1 \in Cuts(buf) => R[(d + i) - 1].t = "nl"
    BY <1>2, <1>4, <2>1
  <2> QED
    BY <1>3, <1>6, <2>1, <2>2, <2>3 DEF DataLine, buf
<1> QED
  BY <1>5, <1>6

LEMMA RewrittenTokens ==
    ASSUME NEW R, WellFormed(R), NEW d \in Nat, NEW m \in Nat, d <= m, m <= Len(R), Start(R, d),
           est \in Nat, NEW i \in 1 .. m - d
    PROVE  LET buf == SubSeq(R, d + 1, m)
           IN  RewriteEvent(buf, Cuts(buf), i) = Due(R, d + i)
<1> DEFINE buf == SubSeq(R, d + 1, m)
           x == R[d + i]
           y == R[(d + i) - 1]
<1>1. /\ R \in Seq(Token) /\ Len(buf) = m - d
      /\ \A j \in 1 .. m - d : buf[j] = R[d + j] /\ d + j \in DOMAIN R
  BY PieceFacts DEF WellFormed
<1>2. DataLine(buf, Cuts(buf), i) <=> x.t = "tail"
  BY DataLines
<1>3. i > 1 => (DataLine(buf, Cuts(buf), i - 1) <=> y.t = "tail")
  <2>1. i > 1 => i - 1 \in 1 .. m - d /\ d + (i - 1) = (d + i) - 1
    OBVIOUS
  <2> HIDE DEF buf
  <2> QED
    BY <2>1, DataLines DEF buf
<1> HIDE DEF buf
<1>4. buf[i] = x /\ x \in Token
  BY <1>1
<1>5. i > 1 => buf[i - 1] = y /\ y \in Token
  <2>1. i > 1 => i - 1 \in 1 .. m - d /\ d + (i - 1) = (d + i) - 1
    OBVIOUS
  <2> QED
    BY <1>1, <2>1
<1>6. Lifted(R, d + i) <=> x.t = "tail" /\ HasInputSide(x) /\ est > Total(x)
  BY DEF Lifted
<1>7. Lifted(R, (d + i) - 1) <=> y.t = "tail" /\ HasInputSide(y) /\ est > Total(y)
  BY DEF Lifted
<1>8. i = 1 => ~(d + i > 1 /\ Lifted(R, (d + i) - 1))
  <2>1. i = 1 => (d + i) - 1 = d
    OBVIOUS
  <2>2. d > 0 => R[d].t = "nl"
    BY DEF Start, EventEnds
  <2> QED
    BY <1>7, <2>1, <2>2
<1>9. Due(R, d + i) = (IF Lifted(R, d + i) THEN [x EXCEPT !.in = est - x.cached]
                       ELSE IF d + i > 1 /\ Lifted(R, (d + i) - 1) /\ x.t = "cr" THEN NoBytes
                       ELSE x)
  BY DEF Due
<1>10. /\ HasInputSide(x) /\ est > Total(x) => Bumped(x) = [x EXCEPT !.in = est - x.cached]
       /\ ~(HasInputSide(x) /\ est > Total(x)) => Bumped(x) = x
  BY <1>4, BumpFacts
<1>11. i > 1 => (Bumped(y) # y <=> HasInputSide(y) /\ est > Total(y))
  BY <1>5, BumpFacts
<1>12. RewriteEvent(buf, Cuts(buf), i) =
           (IF DataLine(buf, Cuts(buf), i) THEN Bumped(buf[i])
            ELSE IF i > 1 /\ DataLine(buf, Cuts(buf), i - 1) /\ Bumped(buf[i - 1]) # buf[i - 1]
                    /\ buf[i].t = "cr"
                 THEN NoBytes
            ELSE buf[i])
  BY DEF RewriteEvent
<1> HIDE DEF x, y
<1>13. CASE x.t = "tail"
  <2>1. RewriteEvent(buf, Cuts(buf), i) = Bumped(x)
    BY <1>2, <1>4, <1>12, <1>13
  <2>2. x.t # "cr"
    BY <1>13
  <2> QED
    BY <1>6, <1>9, <1>10, <1>13, <2>1, <2>2 DEF buf
<1>14. CASE x.t # "tail" /\ i > 1
  <2>1. RewriteEvent(buf, Cuts(buf), i) =
            (IF y.t = "tail" /\ Bumped(y) # y /\ x.t = "cr" THEN NoBytes ELSE x)
    BY <1>2, <1>3, <1>4, <1>5, <1>12, <1>14
  <2>2. Due(R, d + i) = (IF Lifted(R, (d + i) - 1) /\ x.t = "cr" THEN NoBytes ELSE x)
    BY <1>6, <1>9, <1>14
  <2> QED
    BY <1>7, <1>11, <1>14, <2>1, <2>2 DEF buf
<1>15. CASE x.t # "tail" /\ i = 1
  <2>1. RewriteEvent(buf, Cuts(buf), i) = x
    BY <1>2, <1>4, <1>12, <1>15
  <2>2. Due(R, d + i) = x
    BY <1>6, <1>8, <1>9, <1>15
  <2> QED
    BY <2>1, <2>2 DEF buf
<1> QED
  BY <1>13, <1>14, <1>15

LEMMA Least ==
    ASSUME NEW S \in SUBSET Nat, S # {}
    PROVE  \E m \in S : \A x \in S : m <= x
<1>1. PICK m \in S : \A x \in S : ~(<<x, m>> \in OpToRel(<, Nat))
  BY WFMin, NatLessThanWellFounded
<1>2. ASSUME NEW x \in S PROVE m <= x
  <2>1. x < m => <<x, m>> \in OpToRel(<, Nat)
    BY DEF OpToRel
  <2>2. ~(<<x, m>> \in OpToRel(<, Nat))
    BY <1>1, Zenon
  <2>3. ~(x < m)
    BY <2>1, <2>2, Zenon
  <2>4. x \in Nat /\ m \in Nat
    OBVIOUS
  <2> QED
    BY <2>3, <2>4
<1> QED
  BY <1>2

(* The greatest of a bounded set.                                          *)
LEMMA Highest ==
    ASSUME NEW n \in Nat, NEW S \in SUBSET (0 .. n), S # {}
    PROVE  Max(S) \in S /\ \A x \in S : x <= Max(S)
<1> DEFINE T == {n - j : j \in S}
<1>1. T \in SUBSET Nat /\ T # {}
  <2>1. PICK j \in S : TRUE
    OBVIOUS
  <2>2. n - j \in T
    BY <2>1
  <2>3. \A x \in S : n - x \in Nat
    OBVIOUS
  <2> QED
    BY <2>2, <2>3
<1> HIDE DEF T
<1>2. PICK m \in T : \A x \in T : m <= x
  BY <1>1, Least
<1>3. PICK k \in S : m = n - k
  BY DEF T
<1>4. ASSUME NEW j \in S PROVE j <= k
  <2>1. n - j \in T
    BY DEF T
  <2>2. n - k <= n - j
    BY <1>2, <1>3, <2>1
  <2> QED
    BY <2>2
<1>5. \E x \in S : \A y \in S : x >= y
  BY <1>4
<1>6. Max(S) \in S /\ \A y \in S : Max(S) >= y
  BY <1>5 DEF Max
<1> QED
  BY <1>6

(* What one call of transform passes on and what it keeps.                 *)
LEMMA TransformFacts ==
    ASSUME NEW R, WellFormed(R), NEW d \in Nat, NEW m \in Nat, d <= m, m <= Len(R), Start(R, d),
           est \in Nat
    PROVE  LET t == Transform(SubSeq(R, d + 1, m))
           IN  \E e \in d .. m :
                   /\ LastEnd(R, m, e)
                   /\ t.out = [i \in 1 .. e - d |-> Due(R, d + i)]
                   /\ t.carry = SubSeq(R, e + 1, m)
<1> DEFINE buf == SubSeq(R, d + 1, m)
           C == Cuts(buf)
           done == Max(C \cup {0})
<1>1. R \in Seq(Token) /\ Len(buf) = m - d
  BY PieceFacts DEF WellFormed
<1>2. \A p : p \in C <=> p \in Nat /\ p > 0 /\ d + p \in EventEnds(R) /\ d + p <= m
  BY CutsBehind
<1>3. \A i \in 1 .. m - d : RewriteEvent(buf, C, i) = Due(R, d + i)
  BY RewrittenTokens
<1>4. /\ Transform(buf).out = [i \in 1 .. done |-> RewriteEvent(buf, C, i)]
      /\ Transform(buf).carry = SubSeq(buf, done + 1, Len(buf))
  BY DEF Transform, Emit
<1> HIDE DEF C
<1>5. m - d \in Nat /\ C \cup {0} \in SUBSET (0 .. m - d) /\ C \cup {0} # {}
  BY <1>2
<1>6. done \in C \cup {0} /\ \A x \in C \cup {0} : x <= done
  BY <1>5, Highest
<1>7. done \in 0 .. m - d
  BY <1>5, <1>6
<1> HIDE DEF done
<1> DEFINE e == d + done
<1>8. e \in d .. m /\ e - d = done /\ e \in Nat
  BY <1>7
<1>9. Start(R, e)
  <2>1. CASE done = 0
    BY <2>1 DEF Start
  <2>2. CASE done \in C
    BY <1>2, <2>2 DEF Start
  <2> QED
    BY <1>6, <2>1, <2>2
<1>10. ASSUME NEW q \in EventEnds(R), q <= m PROVE q <= e
  <2>1. q \in Nat
    BY DEF EventEnds
  <2>2. CASE q <= d
    BY <1>8, <2>1, <2>2
  <2>3. CASE q > d
    <3>1. q - d \in C
      <4>1. q - d \in Nat /\ q - d > 0 /\ d + (q - d) = q
        BY <2>1, <2>3
      <4> QED
        BY <1>2, <1>10, <4>1
    <3>2. q - d <= done
      BY <1>6, <3>1
    <3> QED
      BY <1>7, <2>1, <3>2
  <2> QED
    BY <2>1, <2>2, <2>3
<1>11. LastEnd(R, m, e)
  BY <1>8, <1>9, <1>10 DEF LastEnd
<1>12. Transform(buf).out = [i \in 1 .. e - d |-> Due(R, d + i)]
  BY <1>3, <1>4, <1>7, <1>8
<1>13. Transform(buf).carry = SubSeq(R, e + 1, m)
  <2>1. done \in Nat /\ d + done <= m
    BY <1>7
  <2>2. SubSeq(buf, done + 1, Len(buf)) = SubSeq(R, (d + done) + 1, m)
    BY <1>1, <2>1, PieceOfPiece
  <2> QED
    BY <1>4, <2>2
<1> QED
  BY <1>8, <1>11, <1>12, <1>13

(* A piece and the one behind it are one piece.                            *)
LEMMA PiecesMeet ==
    ASSUME NEW R \in Seq(Token), NEW d \in Nat, NEW k \in Nat, NEW m \in Nat,
           d <= k, k <= m, m <= Len(R)
    PROVE  SubSeq(R, d + 1, k) \o SubSeq(R, k + 1, m) = SubSeq(R, d + 1, m)
<1>1. /\ d + 1 \in 1 .. Len(R) + 1 /\ k \in (d + 1) - 1 .. Len(R)
      /\ m \in k .. Len(R)
  OBVIOUS
<1> QED
  BY <1>1, ConcatAdjacentSubSeq

LEMMA Joined ==
    ASSUME NEW a \in Seq(Token), NEW b \in Seq(Token), NEW c \in Seq(Token),
           Len(c) = Len(a) + Len(b), \A i \in 1 .. Len(a) : c[i] = a[i],
           \A i \in 1 .. Len(b) : c[Len(a) + i] = b[i]
    PROVE  a \o b = c
<1>1. /\ a \o b \in Seq(Token) /\ Len(a \o b) = Len(a) + Len(b)
      /\ \A i \in 1 .. Len(a) + Len(b) :
            (a \o b)[i] = IF i <= Len(a) THEN a[i] ELSE b[i - Len(a)]
  BY ConcatProperties
<1>2. ASSUME NEW i \in 1 .. Len(a) + Len(b) PROVE (a \o b)[i] = c[i]
  <2>1. CASE i <= Len(a)
    BY <1>1, <2>1
  <2>2. CASE i > Len(a)
    <3>1. i - Len(a) \in 1 .. Len(b) /\ Len(a) + (i - Len(a)) = i
      BY <2>2
    <3>2. (a \o b)[i] = b[i - Len(a)]
      BY <1>1, <2>2
    <3> QED
      BY <3>1, <3>2
  <2> QED
    BY <2>1, <2>2
<1> QED
  BY <1>1, <1>2, SeqEqual

(* The tokens the harness has when the events up to d have ended.          *)
Delivered(R, d) == [i \in 1 .. d |-> Due(R, i)]

LEMMA DueIsToken ==
    ASSUME NEW R, WellFormed(R), est \in Nat, NEW i \in DOMAIN R
    PROVE  Due(R, i) \in Token
<1>1. R[i] \in Token /\ NoBytes \in Token
  BY TokenFacts DEF WellFormed, NoBytes
<1>2. ASSUME Lifted(R, i) PROVE Due(R, i) \in Token
  <2>1. R[i].in \in Nat /\ R[i].cached \in Nat
    BY <1>1 DEF Token
  <2>2. est - R[i].cached \in Nat
    BY <1>2, <2>1 DEF Lifted, Total
  <2>3. [R[i] EXCEPT !.in = est - R[i].cached] \in Token
    BY <1>1, <2>2 DEF Token
  <2> QED
    BY <1>2, <2>3 DEF Due
<1>3. ASSUME ~Lifted(R, i) PROVE Due(R, i) \in Token
  BY <1>1, <1>3 DEF Due
<1> QED
  BY <1>2, <1>3

LEMMA DeliveredGrows ==
    ASSUME NEW R, WellFormed(R), est \in Nat, NEW d \in Nat, NEW e \in Nat, d <= e, e <= Len(R)
    PROVE  Delivered(R, d) \o [i \in 1 .. e - d |-> Due(R, d + i)] = Delivered(R, e)
<1> DEFINE a == Delivered(R, d)
           b == [i \in 1 .. e - d |-> Due(R, d + i)]
           c == Delivered(R, e)
<1>1. DOMAIN R = 1 .. Len(R) /\ Len(R) \in Nat
  BY DEF WellFormed
<1>2. \A i \in 1 .. e : Due(R, i) \in Token
  BY <1>1, DueIsToken
<1>3. /\ a \in Seq(Token) /\ Len(a) = d /\ \A i \in 1 .. d : a[i] = Due(R, i)
  BY <1>2 DEF Delivered
<1>4. /\ b \in Seq(Token) /\ Len(b) = e - d /\ \A i \in 1 .. e - d : b[i] = Due(R, d + i)
  <2>1. \A i \in 1 .. e - d : d + i \in 1 .. e
    OBVIOUS
  <2>2. b \in [1 .. e - d -> Token] /\ e - d \in Nat
    BY <1>2, <2>1
  <2> QED
    BY <2>2
<1>5. c \in Seq(Token) /\ Len(c) = e /\ \A i \in 1 .. e : c[i] = Due(R, i)
  BY <1>2 DEF Delivered
<1> HIDE DEF a, b, c
<1>6. Len(c) = Len(a) + Len(b) /\ \A i \in 1 .. Len(a) : c[i] = a[i]
  BY <1>3, <1>4, <1>5
<1>7. ASSUME NEW i \in 1 .. Len(b) PROVE c[Len(a) + i] = b[i]
  <2>1. i \in 1 .. e - d /\ Len(a) + i = d + i /\ d + i \in 1 .. e
    BY <1>3, <1>4
  <2> QED
    BY <1>4, <1>5, <2>1
<1>8. a \o b = c
  BY <1>3, <1>4, <1>5, <1>6, <1>7, Joined
<1> QED
  BY <1>8 DEF a, b, c

(* What the harness is owed of a stream of which m tokens have arrived.    *)
LEMMA OwedFacts ==
    ASSUME NEW R, WellFormed(R), NEW m \in Nat, m <= Len(R), NEW d, LastEnd(R, m, d)
    PROVE  /\ DOMAIN SubSeq(R, 1, m) = 1 .. m /\ DOMAIN Owed(SubSeq(R, 1, m)) = 1 .. m
           /\ \A i \in 1 .. m :
                 Owed(SubSeq(R, 1, m))[i] =
                     IF Rewriting /\ i <= d THEN Due(R, i) ELSE SubSeq(R, 1, m)[i]
           /\ \A i \in 1 .. m : SubSeq(R, 1, m)[i] = R[i]
<1> DEFINE bytes == SubSeq(R, 1, m)
<1>1. 0 \in Nat /\ 0 <= m /\ Start(R, 0) /\ 0 + 1 = 1 /\ m - 0 = m
  BY DEF Start
<1>2. R \in Seq(Token) /\ DOMAIN R = 1 .. Len(R) /\ Len(R) \in Nat
  BY DEF WellFormed
<1>3. /\ bytes \in Seq(Token) /\ Len(bytes) = m
      /\ \A i \in 1 .. m : bytes[i] = R[i]
  BY <1>2
<1>4. \A p : p \in EventEnds(bytes) <=> p \in Nat /\ p > 0 /\ p \in EventEnds(R) /\ p <= m
  <2>1. \A p : p \in EventEnds(SubSeq(R, 0 + 1, m)) <=>
                   p \in Nat /\ p > 0 /\ 0 + p \in EventEnds(R) /\ 0 + p <= m
    BY <1>1, EndsBehind
  <2>2. \A p : p \in Nat => 0 + p = p
    OBVIOUS
  <2> QED
    BY <1>1, <2>1, <2>2
<1> HIDE DEF bytes
<1>5. DOMAIN bytes = 1 .. m
  BY <1>3
<1>6. /\ d \in 0 .. m /\ (d = 0 \/ d \in EventEnds(R))
      /\ \A q \in EventEnds(R) : q <= m => q <= d
  BY DEF LastEnd, Start
<1>7. \A q \in EventEnds(R) : q \in Nat /\ q > 0 /\ R[q].t = "nl"
  BY DEF EventEnds
<1>8. ASSUME NEW i \in 1 .. m PROVE Complete(bytes, i) <=> i < d
  <2>1. ASSUME NEW p \in EventEnds(bytes), p > i PROVE i < d
    <3>1. p \in EventEnds(R) /\ p <= m /\ p \in Nat
      BY <1>4
    <3>2. p <= d
      BY <1>6, <3>1
    <3> QED
      BY <1>6, <2>1, <3>1, <3>2
  <2>2. ASSUME i < d PROVE d \in EventEnds(bytes) /\ d > i
    <3>1. d # 0 /\ d \in Nat /\ d <= m
      BY <1>6, <2>2
    <3> QED
      BY <1>4, <1>6, <1>7, <2>2, <3>1
  <2> QED
    BY <2>1, <2>2 DEF Complete
<1>9. ASSUME NEW i \in 1 .. m PROVE Raised(bytes, i) <=> Rewriting /\ i < d /\ Lifted(R, i)
  BY <1>3, <1>8 DEF Raised, Lifted
<1>10. ~Lifted(R, d) \/ d = 0
  BY <1>6, <1>7 DEF Lifted
<1>11. Owed(bytes) = [i \in 1 .. m |->
           IF Raised(bytes, i) THEN [bytes[i] EXCEPT !.in = est - bytes[i].cached]
           ELSE IF i > 1 /\ Raised(bytes, i - 1) /\ bytes[i].t = "cr" THEN NoBytes
           ELSE bytes[i]]
  BY <1>5 DEF Owed
<1>12. ASSUME NEW i \in 1 .. m
       PROVE  Owed(bytes)[i] = IF Rewriting /\ i <= d THEN Due(R, i) ELSE bytes[i]
  <2>1. Owed(bytes)[i] =
            IF Raised(bytes, i) THEN [R[i] EXCEPT !.in = est - R[i].cached]
            ELSE IF i > 1 /\ Raised(bytes, i - 1) /\ R[i].t = "cr" THEN NoBytes
            ELSE R[i]
    BY <1>3, <1>11
  <2>2. i > 1 => (Raised(bytes, i - 1) <=> Rewriting /\ i - 1 < d /\ Lifted(R, i - 1))
    <3>1. i > 1 => i - 1 \in 1 .. m
      OBVIOUS
    <3> QED
      BY <1>9, <3>1
  <2>3. Raised(bytes, i) <=> Rewriting /\ i < d /\ Lifted(R, i)
    BY <1>9
  <2>4. bytes[i] = R[i]
    BY <1>3
  <2>5. CASE Rewriting /\ i <= d
    <3>1. Raised(bytes, i) <=> Lifted(R, i)
      <4>1. CASE i = d
        BY <1>10, <2>3, <2>5, <4>1
      <4>2. CASE i < d
        BY <2>3, <2>5, <4>2
      <4> QED
        BY <1>6, <2>5, <4>1, <4>2
    <3>2. i > 1 => (Raised(bytes, i - 1) <=> Lifted(R, i - 1))
      <4>1. i - 1 < d
        BY <1>6, <2>5
      <4> QED
        BY <2>2, <2>5, <4>1
    <3> QED
      BY <2>1, <2>5, <3>1, <3>2 DEF Due
  <2>6. CASE ~(Rewriting /\ i <= d)
    <3>1. ~Raised(bytes, i)
      BY <1>6, <2>3, <2>6
    <3>2. i > 1 => ~Raised(bytes, i - 1)
      <4>1. Rewriting => ~(i - 1 < d)
        BY <1>6, <2>6
      <4> QED
        BY <2>2, <4>1
    <3> QED
      BY <2>1, <2>4, <2>6, <3>1, <3>2
  <2> QED
    BY <2>5, <2>6
<1>13. DOMAIN Owed(bytes) = 1 .. m
  BY <1>11
<1> QED
  BY <1>3, <1>5, <1>12, <1>13 DEF bytes

(***************************************************************************)
(* The invariant of a stream.                                              *)
(***************************************************************************)
InFlight ==
    IF Rewriting
    THEN \E d \in 0 .. pos : /\ LastEnd(response, pos, d)
                             /\ carry = SubSeq(response, d + 1, pos)
                             /\ out = Delivered(response, d)
    ELSE carry = <<>> /\ out = accumulated

StreamInv ==
    /\ response \in Responses /\ pos \in 0 .. Len(response) /\ est \in Nat
    /\ stream \in {"streaming", "ended", "broken", "gone"}
    /\ stream \in {"streaming", "gone"} => InFlight /\ recorded = NoUsage
    /\ stream \in {"ended", "broken"} =>
           out = Owed(accumulated) /\ recorded \in {NoUsage, ParseUsage(accumulated)}

(* Every prefix of a stream has a last event that has ended.               *)
LEMMA LastEndExists ==
    ASSUME NEW R, WellFormed(R), NEW m \in Nat, m <= Len(R), est \in Nat
    PROVE  \E d \in 0 .. m : LastEnd(R, m, d)
<1>1. 0 \in Nat /\ 0 <= m /\ Start(R, 0)
  BY DEF Start
<1> QED
  BY <1>1, TransformFacts

LEMMA AccumulatedFacts ==
    ASSUME StreamInv
    PROVE  /\ WellFormed(response) /\ pos \in Nat /\ pos <= Len(response) /\ Len(response) \in Nat
           /\ accumulated \in Seq(Token) /\ Len(accumulated) = pos
           /\ \A i \in 1 .. pos : accumulated[i] = response[i]
<1>1. WellFormed(response)
  BY ResponsesAreWellFormed DEF StreamInv
<1>2. response \in Seq(Token) /\ pos \in Nat /\ pos <= Len(response)
  BY <1>1 DEF WellFormed, StreamInv
<1> QED
  BY <1>1, <1>2 DEF accumulated

LEMMA StreamStarts == ASSUME StreamInit PROVE StreamInv
<1>1. response \in Responses /\ est \in Nat /\ stream = "streaming" /\ recorded = NoUsage
  BY StreamAssumption DEF StreamInit
<1>2. WellFormed(response)
  BY <1>1, ResponsesAreWellFormed
<1>3. response \in Seq(Token) /\ Len(response) \in Nat /\ pos = 0 /\ carry = <<>> /\ out = <<>>
  BY <1>2 DEF WellFormed, StreamInit
<1>4. accumulated = <<>> /\ SubSeq(response, 0 + 1, pos) = <<>>
  BY <1>3 DEF accumulated
<1>5. LastEnd(response, pos, 0) /\ Delivered(response, 0) = <<>>
  <2>1. \A q \in EventEnds(response) : q > 0 /\ q \in Nat
    BY DEF EventEnds
  <2> QED
    BY <1>3, <2>1 DEF LastEnd, Start, Delivered
<1>6. InFlight
  BY <1>3, <1>4, <1>5 DEF InFlight
<1> QED
  BY <1>1, <1>3, <1>6 DEF StreamInv

LEMMA ChunkKeeps ==
    ASSUME StreamInv, NEW n \in 1 .. Len(response), Chunk(n)
    PROVE  StreamInv'
<1>1. /\ stream = "streaming" /\ pos + n <= Len(response) /\ pos' = pos + n
      /\ UNCHANGED <<dialect, gate, est, response, stream, recorded>>
  BY DEF Chunk
<1>2. /\ WellFormed(response) /\ pos \in Nat /\ pos <= Len(response)
      /\ response \in Seq(Token) /\ Len(response) \in Nat
  BY AccumulatedFacts DEF WellFormed
<1>3. /\ response' \in Responses /\ pos' \in 0 .. Len(response') /\ est' \in Nat
      /\ InFlight /\ recorded' = NoUsage /\ est \in Nat
  BY <1>1, <1>2 DEF StreamInv
<1> DEFINE chunk == SubSeq(response, pos + 1, pos + n)
           t == Transform(carry \o chunk)
<1>4. IF Rewriting THEN out' = out \o t.out /\ carry' = t.carry
      ELSE out' = out \o chunk /\ carry' = carry
  BY DEF Chunk
<1>5. Rewriting' <=> Rewriting
  BY <1>1 DEF Rewriting
<1>6. CASE Rewriting
  <2>1. PICK d \in 0 .. pos : /\ LastEnd(response, pos, d)
                              /\ carry = SubSeq(response, d + 1, pos)
                              /\ out = Delivered(response, d)
    BY <1>3, <1>6 DEF InFlight
  <2>2. PICK m \in Nat : m = pos + n
    BY <1>2
  <2>3. d \in Nat /\ d <= pos /\ pos <= m /\ m <= Len(response) /\ d <= m /\ Start(response, d)
    BY <1>1, <1>2, <2>1, <2>2 DEF LastEnd
  <2>4. carry \o chunk = SubSeq(response, d + 1, m)
    BY <1>2, <2>1, <2>2, <2>3, PiecesMeet
  <2>5. PICK e \in d .. m :
            /\ LastEnd(response, m, e)
            /\ t.out = [i \in 1 .. e - d |-> Due(response, d + i)]
            /\ t.carry = SubSeq(response, e + 1, m)
    <3>1. t = Transform(SubSeq(response, d + 1, m))
      BY <2>4
    <3> HIDE DEF t
    <3>2. \E e \in d .. m :
            /\ LastEnd(response, m, e)
            /\ Transform(SubSeq(response, d + 1, m)).out = [i \in 1 .. e - d |-> Due(response, d + i)]
            /\ Transform(SubSeq(response, d + 1, m)).carry = SubSeq(response, e + 1, m)
      BY <1>2, <1>3, <2>3, TransformFacts
    <3> QED
      BY <3>1, <3>2, Zenon
  <2> HIDE DEF t, chunk
  <2>6. e \in Nat /\ d <= e /\ e <= Len(response) /\ e \in 0 .. m
    BY <2>3, <2>5
  <2>7. out' = Delivered(response, e)
    <3>1. Delivered(response, d) \o [i \in 1 .. e - d |-> Due(response, d + i)]
              = Delivered(response, e)
      BY <1>2, <1>3, <2>3, <2>6, DeliveredGrows
    <3>2. out' = out \o t.out
      BY <1>4, <1>6
    <3> QED
      BY <2>1, <2>5, <3>1, <3>2
  <2>8. carry' = SubSeq(response, e + 1, m)
    BY <1>4, <1>6, <2>5
  <2>9. Delivered(response, e)' = Delivered(response, e)
    BY <1>1 DEF Delivered, Due, Lifted, HasInputSide, Total
  <2>10. LastEnd(response, m, e)' <=> LastEnd(response, m, e)
    BY <1>1 DEF LastEnd, Start, EventEnds
  <2>11. InFlight'
    <3>1. pos' = m /\ response' = response
      BY <1>1, <2>2
    <3>2. LastEnd(response', pos', e) /\ carry' = SubSeq(response', e + 1, pos')
      BY <2>5, <2>8, <3>1
    <3>3. out' = Delivered(response, e)'
      BY <2>7, <2>9
    <3> QED
      BY <1>5, <1>6, <2>6, <3>1, <3>2, <3>3 DEF InFlight
  <2> QED
    BY <1>1, <1>3, <2>11 DEF StreamInv
<1>7. CASE ~Rewriting
  <2>1. carry = <<>> /\ out = SubSeq(response, 1, pos)
    BY <1>3, <1>7 DEF InFlight, accumulated
  <2>2. 0 \in Nat /\ 0 + 1 = 1 /\ 0 <= pos /\ pos <= pos + n /\ pos + n \in Nat
    BY <1>2
  <2>3. SubSeq(response, 0 + 1, pos) \o SubSeq(response, pos + 1, pos + n)
            = SubSeq(response, 0 + 1, pos + n)
    BY <1>1, <1>2, <2>2, PiecesMeet
  <2>4. out' = SubSeq(response, 1, pos + n) /\ carry' = <<>>
    BY <1>4, <1>7, <2>1, <2>2, <2>3
  <2>5. InFlight'
    BY <1>1, <1>5, <1>7, <2>4 DEF InFlight, accumulated
  <2> QED
    BY <1>1, <1>3, <2>5 DEF StreamInv
<1> QED
  BY <1>6, <1>7

(* What is owed and parsed depends on what has arrived alone.              *)
LEMMA UsageStays ==
    ASSUME UNCHANGED <<dialect, response, pos>>
    PROVE  ParseUsage(accumulated)' = ParseUsage(accumulated)
<1>1. accumulated' = accumulated
  BY DEF accumulated
<1>2. IsUtf8(accumulated)' <=> IsUtf8(accumulated)
  BY DEF IsUtf8, accumulated
<1>3. AnthropicUsage(accumulated)' = AnthropicUsage(accumulated)
  BY DEF AnthropicUsage, UsageLines, SumOf, Units, accumulated
<1>4. OpenAiUsage(accumulated)' = OpenAiUsage(accumulated)
  BY DEF OpenAiUsage, OpenAiReport, InputReports, UsageLines, HasInputSide, accumulated
<1> QED
  BY <1>2, <1>3, <1>4 DEF ParseUsage

LEMMA LeaveKeeps ==
    ASSUME StreamInv, NEW how \in {"ended", "broken"}, Leave(how)
    PROVE  StreamInv'
<1>1. /\ stream = "streaming" /\ stream' = how
      /\ out' = out \o carry /\ carry' = <<>> /\ recorded' = ParseUsage(accumulated)
      /\ UNCHANGED <<dialect, gate, est, response, pos>>
  BY DEF Leave
<1>2. /\ WellFormed(response) /\ pos \in Nat /\ pos <= Len(response) /\ Len(response) \in Nat
      /\ accumulated \in Seq(Token) /\ Len(accumulated) = pos
      /\ \A i \in 1 .. pos : accumulated[i] = response[i]
  BY AccumulatedFacts
<1>3. InFlight /\ est \in Nat
  BY <1>1 DEF StreamInv
<1>4. out \o carry = Owed(accumulated)
  <2>1. CASE Rewriting
    <3>1. PICK d \in 0 .. pos : /\ LastEnd(response, pos, d)
                                /\ carry = SubSeq(response, d + 1, pos)
                                /\ out = Delivered(response, d)
      BY <1>3, <2>1 DEF InFlight
    <3>2. d \in Nat /\ d <= pos
      BY <1>2, <3>1
    <3>3. /\ DOMAIN Owed(accumulated) = 1 .. pos
          /\ \A i \in 1 .. pos :
                Owed(accumulated)[i] = IF i <= d THEN Due(response, i) ELSE response[i]
      BY <1>2, <2>1, <3>1, OwedFacts DEF accumulated
    <3>4. /\ carry \in Seq(Token) /\ Len(carry) = pos - d
          /\ \A i \in 1 .. pos - d : carry[i] = response[d + i] /\ d + i \in DOMAIN response
      BY <1>2, <3>1, <3>2, PieceFacts DEF WellFormed
    <3>5. \A i \in 1 .. pos : i \in DOMAIN response /\ response[i] \in Token
      BY <1>2 DEF WellFormed
    <3>6. \A i \in 1 .. pos : Due(response, i) \in Token
      BY <1>2, <1>3, <3>5, DueIsToken
    <3>7. /\ out \in Seq(Token) /\ Len(out) = d
          /\ \A i \in 1 .. d : out[i] = Due(response, i)
      <4>1. \A i \in 1 .. d : i \in 1 .. pos
        BY <1>2, <3>2
      <4> QED
        BY <3>1, <3>2, <3>6, <4>1 DEF Delivered
    <3> DEFINE owed == Owed(accumulated)
    <3>8. owed = [i \in 1 .. pos |-> owed[i]]
      <4>1. owed = [i \in DOMAIN owed |-> owed[i]]
        BY DEF Owed
      <4> QED
        BY <3>3, <4>1
    <3>9. \A i \in 1 .. pos : owed[i] \in Token
      BY <3>3, <3>5, <3>6
    <3> HIDE DEF owed
    <3>10. owed \in Seq(Token) /\ Len(owed) = pos
      BY <1>2, <3>8, <3>9
    <3>11. /\ Len(owed) = Len(out) + Len(carry)
           /\ \A i \in 1 .. Len(out) : owed[i] = out[i]
      <4>1. Len(owed) = Len(out) + Len(carry) /\ Len(out) = d
        BY <1>2, <3>2, <3>4, <3>7, <3>10
      <4>2. ASSUME NEW i \in 1 .. d PROVE owed[i] = out[i]
        <5>1. i \in 1 .. pos /\ i <= d
          BY <1>2, <3>2
        <5> QED
          BY <3>3, <3>7, <5>1 DEF owed
      <4> QED
        BY <4>1, <4>2
    <3>12. ASSUME NEW i \in 1 .. Len(carry) PROVE owed[Len(out) + i] = carry[i]
      <4>1. d + i \in 1 .. pos /\ ~(d + i <= d) /\ i \in 1 .. pos - d
        BY <1>2, <3>2, <3>4
      <4> QED
        BY <3>3, <3>4, <3>7, <4>1 DEF owed
    <3>13. out \o carry = owed
      BY <3>4, <3>7, <3>10, <3>11, <3>12, Joined
    <3> QED
      BY <3>13 DEF owed
  <2>2. CASE ~Rewriting
    <3>1. out = accumulated /\ carry = <<>>
      BY <1>3, <2>2 DEF InFlight
    <3>2. PICK d \in 0 .. pos : LastEnd(response, pos, d)
      BY <1>2, <1>3, LastEndExists
    <3>3. /\ DOMAIN accumulated = 1 .. pos /\ DOMAIN Owed(accumulated) = 1 .. pos
          /\ \A i \in 1 .. pos : Owed(accumulated)[i] = accumulated[i]
      BY <1>2, <2>2, <3>2, OwedFacts DEF accumulated
    <3>4. Owed(accumulated) = [i \in 1 .. pos |-> Owed(accumulated)[i]]
      BY <3>3 DEF Owed
    <3>5. accumulated = [i \in 1 .. pos |-> accumulated[i]]
      BY <1>2
    <3>6. Owed(accumulated) = accumulated
      BY <3>3, <3>4, <3>5
    <3>7. out \o carry = accumulated
      BY <1>2, <3>1, ConcatEmptySeq
    <3> QED
      BY <3>6, <3>7
  <2> QED
    BY <2>1, <2>2
<1>5. Owed(accumulated)' = Owed(accumulated)
  BY <1>1 DEF Owed, Raised, Complete, Rewriting, HasInputSide, Total, EventEnds, accumulated
<1>6. ParseUsage(accumulated)' = ParseUsage(accumulated)
  BY <1>1, UsageStays
<1> QED
  BY <1>1, <1>4, <1>5, <1>6 DEF StreamInv

LEMMA StreamSteps == ASSUME StreamInv, [StreamNext]_streamVars PROVE StreamInv'
<1>1. ASSUME NEW n \in 1 .. Len(response), Chunk(n) PROVE StreamInv'
  BY <1>1, ChunkKeeps
<1>2. ASSUME StreamEnds PROVE StreamInv'
  BY <1>2, LeaveKeeps DEF StreamEnds
<1>3. ASSUME StreamBreaks PROVE StreamInv'
  BY <1>3, LeaveKeeps DEF StreamBreaks
<1>4. ASSUME UNCHANGED <<dialect, gate, est, response, pos, carry, out, recorded>>,
             \/ stream = "streaming" /\ stream' = "gone"
             \/ stream' = stream
      PROVE  StreamInv'
  <2>1. Owed(accumulated)' = Owed(accumulated)
    BY <1>4 DEF Owed, Raised, Complete, Rewriting, HasInputSide, Total, EventEnds, accumulated
  <2>2. ParseUsage(accumulated)' = ParseUsage(accumulated)
    BY <1>4, UsageStays
  <2>3. InFlight' <=> InFlight
    BY <1>4 DEF InFlight, Rewriting, LastEnd, Start, EventEnds, Delivered, Due, Lifted,
                HasInputSide, Total, accumulated
  <2> QED
    BY <1>4, <2>1, <2>2, <2>3 DEF StreamInv
<1>5. ASSUME ClientGone PROVE StreamInv'
  BY <1>4, <1>5 DEF ClientGone
<1>6. ASSUME UNCHANGED streamVars PROVE StreamInv'
  BY <1>4, <1>6 DEF streamVars
<1> QED
  BY <1>1, <1>2, <1>3, <1>5, <1>6 DEF StreamNext

(* The invariant of a stream (usage_truth.rs 105-242): the harness has the *)
(* tokens up to the last event that has ended, as it is owed them, and the *)
(* carry is the rest of what arrived.                                      *)
THEOREM StreamInvariant == StreamSpec => []StreamInv
<1>1. StreamInit => StreamInv
  BY StreamStarts
<1>2. StreamInv /\ [StreamNext]_streamVars => StreamInv'
  BY StreamSteps
<1> QED
  BY <1>1, <1>2, PTL DEF StreamSpec

LEMMA OwedIsDelivered == ASSUME StreamInv PROVE ChunkingInvisible
<1>1. /\ WellFormed(response) /\ pos \in Nat /\ pos <= Len(response) /\ est \in Nat
      /\ accumulated \in Seq(Token) /\ Len(accumulated) = pos
  BY AccumulatedFacts DEF StreamInv
<1> DEFINE owed == Owed(accumulated)
<1>2. PICK d \in 0 .. pos : LastEnd(response, pos, d)
  BY <1>1, LastEndExists
<1>3. /\ DOMAIN owed = 1 .. pos
      /\ \A e : LastEnd(response, pos, e) =>
            \A i \in 1 .. pos :
               owed[i] = IF Rewriting /\ i <= e THEN Due(response, i) ELSE accumulated[i]
  BY <1>1, <1>2, OwedFacts DEF accumulated
<1>4. owed = [i \in 1 .. pos |-> owed[i]]
  <2>1. owed = [i \in DOMAIN owed |-> owed[i]]
    BY DEF Owed
  <2> QED
    BY <1>3, <2>1
<1>5. \A i \in 1 .. pos : i \in DOMAIN response /\ accumulated[i] \in Token
  BY <1>1 DEF WellFormed
<1>6. \A i \in 1 .. pos : Due(response, i) \in Token
  BY <1>1, <1>5, DueIsToken
<1>7. owed \in Seq(Token) /\ Len(owed) = pos
  <2>1. \A i \in 1 .. pos : owed[i] \in Token
    BY <1>2, <1>3, <1>5, <1>6
  <2> HIDE DEF owed
  <2> QED
    BY <1>1, <1>4, <2>1
<1>8. stream \in {"ended", "broken"} => out = owed
  BY DEF StreamInv
<1> HIDE DEF owed
<1>9. SubSeq(owed, 1, pos) = owed
  BY <1>1, <1>7
<1>10. \E k \in 0 .. pos : out = SubSeq(owed, 1, k)
  <2>1. CASE stream \in {"ended", "broken"}
    BY <1>1, <1>8, <1>9, <2>1
  <2>2. CASE stream \in {"streaming", "gone"} /\ Rewriting
    <3>1. PICK k \in 0 .. pos : LastEnd(response, pos, k) /\ out = Delivered(response, k)
      BY <2>2 DEF StreamInv, InFlight
    <3>2. k \in Nat /\ \A i \in 1 .. k : owed[i] = Due(response, i)
      BY <1>1, <1>3, <2>2, <3>1
    <3>3. SubSeq(owed, 1, k) = [i \in 1 .. k |-> owed[i]]
      BY <1>1, <1>7, <3>1
    <3>4. out = SubSeq(owed, 1, k)
      BY <3>1, <3>2, <3>3 DEF Delivered
    <3> QED
      BY <3>4
  <2>3. CASE stream \in {"streaming", "gone"} /\ ~Rewriting
    <3>1. out = accumulated
      BY <2>3 DEF StreamInv, InFlight
    <3>2. \A i \in 1 .. pos : owed[i] = accumulated[i]
      BY <1>2, <1>3, <2>3
    <3>3. accumulated = owed
      BY <1>1, <1>7, <3>2, SeqEqual
    <3> QED
      BY <1>1, <1>9, <3>1, <3>3
  <2> QED
    BY <2>1, <2>2, <2>3 DEF StreamInv
<1> QED
  BY <1>8, <1>10 DEF ChunkingInvisible, owed

(* However the upstream cuts its stream and wherever it breaks, the harness *)
(* gets what it is owed of the whole stream, in order (usage_truth.rs      *)
(* 132-242).                                                               *)
THEOREM ChunksDoNotShow == StreamSpec => []ChunkingInvisible
<1>1. StreamInv => ChunkingInvisible
  BY OwedIsDelivered
<1> QED
  BY <1>1, StreamInvariant, PTL

(***************************************************************************)
(* The ledger's side.  A sum over one report is the report.                *)
(***************************************************************************)
LEMMA UnitsOfOne ==
    ASSUME NEW k, NEW n \in Nat
    PROVE  Cardinality({k} \X (1 .. n)) = n
<1>1. IsFiniteSet(1 .. n) /\ Cardinality(1 .. n) = n
  BY FS_Interval
<1>2. IsFiniteSet({k}) /\ Cardinality({k}) = 1
  BY FS_Singleton
<1>3. Cardinality({k} \X (1 .. n)) = Cardinality({k}) * Cardinality(1 .. n)
  BY <1>1, <1>2, FS_Product
<1> QED
  BY <1>1, <1>2, <1>3

LEMMA OneReport ==
    ASSUME NEW bytes \in Seq(Token), \A i \in DOMAIN bytes : Silent(bytes[i]),
           Cardinality(InputReports(bytes)) <= 1
    PROVE  LET none == [in |-> 0, cached |-> 0]
               last == bytes[Max(InputReports(bytes))]
           IN  AnthropicUsage(bytes) \in
                  {NoUsage, IF InputReports(bytes) = {} THEN none
                            ELSE [in |-> last.in, cached |-> last.cached]}
<1> DEFINE n == Len(bytes)
           lines == UsageLines(bytes)
           S == InputReports(bytes)
           r == Max(S)
           sumIn == UNION {{i} \X (1 .. bytes[i].in) : i \in lines}
           sumCached == UNION {{i} \X (1 .. bytes[i].cached) : i \in lines}
<1>1. n \in Nat /\ DOMAIN bytes = 1 .. n /\ lines \subseteq 1 .. n /\ S \subseteq lines
  BY DEF UsageLines, InputReports
<1>2. \A i \in lines : /\ bytes[i].in \in Nat /\ bytes[i].cached \in Nat
                       /\ i \notin S => bytes[i].in = 0 /\ bytes[i].cached = 0
  <2>1. ASSUME NEW i \in lines
        PROVE  /\ bytes[i].in \in Nat /\ bytes[i].cached \in Nat
               /\ i \notin S => bytes[i].in = 0 /\ bytes[i].cached = 0
    <3>1. bytes[i] \in Token /\ Silent(bytes[i])
      BY <1>1
    <3>2. i \notin S => ~HasInputSide(bytes[i])
      BY DEF InputReports
    <3> QED
      BY <3>1, <3>2 DEF Token, Silent
  <2> QED
    BY <2>1
<1>3. lines # {} => AnthropicUsage(bytes) = [in |-> Cardinality(sumIn), cached |-> Cardinality(sumCached)]
  <2>1. /\ Units([i \in lines |-> bytes[i].in]) = sumIn
        /\ Units([i \in lines |-> bytes[i].cached]) = sumCached
    BY DEF Units
  <2> QED
    BY <2>1 DEF AnthropicUsage, SumOf
<1>4. lines = {} => AnthropicUsage(bytes) = NoUsage
  BY DEF AnthropicUsage
<1>5. IsFiniteSet(S)
  <2>1. IsFiniteSet(1 .. n)
    BY <1>1, FS_Interval
  <2> HIDE DEF S, lines
  <2> QED
    BY <1>1, <2>1, FS_Subset
<1> HIDE DEF n, lines, S
<1>6. CASE S = {}
  <2>1. sumIn = {} /\ sumCached = {}
    <3>1. \A i \in lines : 1 .. bytes[i].in = {} /\ 1 .. bytes[i].cached = {}
      BY <1>2, <1>6
    <3> QED
      BY <3>1
  <2>2. Cardinality(sumIn) = 0 /\ Cardinality(sumCached) = 0
    BY <2>1, FS_EmptySet
  <2> HIDE DEF sumIn, sumCached
  <2>3. AnthropicUsage(bytes) \in {NoUsage, [in |-> 0, cached |-> 0]}
    BY <1>3, <1>4, <2>2
  <2> QED
    BY <1>6, <2>3 DEF S
<1>7. CASE S # {}
  <2>1. r \in S
    <3>1. S \in SUBSET (0 .. n)
      BY <1>1
    <3> QED
      BY <1>1, <1>7, <3>1, Highest
  <2> HIDE DEF r
  <2>2. ASSUME NEW i \in S PROVE i = r
    <3>1. SUFFICES ASSUME i # r PROVE FALSE
      OBVIOUS
    <3>2. IsFiniteSet({i, r}) /\ Cardinality({i, r}) = 2
      <4>1. IsFiniteSet({r}) /\ Cardinality({r}) = 1 /\ i \notin {r}
        BY <3>1, FS_Singleton
      <4>2. IsFiniteSet({r} \cup {i}) /\ Cardinality({r} \cup {i}) = 1 + 1
        BY <4>1, FS_AddElement
      <4>3. {r} \cup {i} = {i, r}
        OBVIOUS
      <4>4. 1 + 1 = 2
        OBVIOUS
      <4> QED
        BY <4>2, <4>3, <4>4, Zenon
    <3>3. {i, r} \subseteq S
      BY <2>1
    <3>4. Cardinality({i, r}) <= Cardinality(S) /\ Cardinality(S) \in Nat
      BY <1>5, <3>3, FS_Subset, FS_CardinalityType
    <3> QED
      BY <3>2, <3>4 DEF S
  <2>3. r \in lines /\ bytes[r].in \in Nat /\ bytes[r].cached \in Nat
    BY <1>1, <1>2, <2>1
  <2>4. \A i \in lines : i # r => bytes[i].in = 0 /\ bytes[i].cached = 0
    BY <1>2, <2>2
  <2>5. sumIn = {r} \X (1 .. bytes[r].in)
    <3>1. \A i \in lines : i # r => {i} \X (1 .. bytes[i].in) = {}
      BY <2>4
    <3> QED
      BY <2>3, <3>1
  <2>6. sumCached = {r} \X (1 .. bytes[r].cached)
    <3>1. \A i \in lines : i # r => {i} \X (1 .. bytes[i].cached) = {}
      BY <2>4
    <3> QED
      BY <2>3, <3>1
  <2>7. Cardinality(sumIn) = bytes[r].in /\ Cardinality(sumCached) = bytes[r].cached
    <3>1. Cardinality({r} \X (1 .. bytes[r].in)) = bytes[r].in
      BY <2>3, UnitsOfOne
    <3>2. Cardinality({r} \X (1 .. bytes[r].cached)) = bytes[r].cached
      BY <2>3, UnitsOfOne
    <3> QED
      BY <2>5, <2>6, <3>1, <3>2
  <2> HIDE DEF sumIn, sumCached
  <2>8. lines # {}
    BY <2>3
  <2>9. AnthropicUsage(bytes) = [in |-> bytes[r].in, cached |-> bytes[r].cached]
    BY <1>3, <2>7, <2>8
  <2> QED
    BY <1>7, <2>9 DEF S, r
<1> QED
  BY <1>6, <1>7

LEMMA UsageIsReported == ASSUME StreamInv PROVE LedgerHonest
<1> SUFFICES ASSUME recorded # NoUsage,
                    dialect = "anthropic" => Cardinality(InputReports(accumulated)) <= 1
             PROVE  recorded = Reported(accumulated)
  BY DEF LedgerHonest
<1>1. recorded = ParseUsage(accumulated)
  BY DEF StreamInv
<1>2. /\ accumulated \in Seq(Token) /\ Len(accumulated) = pos /\ WellFormed(response)
      /\ \A i \in 1 .. pos : accumulated[i] = response[i]
      /\ pos \in Nat /\ pos <= Len(response)
  BY AccumulatedFacts
<1>3. \A i \in DOMAIN accumulated : Silent(accumulated[i])
  BY <1>2 DEF WellFormed
<1>4. CASE dialect = "anthropic"
  <2>1. recorded = AnthropicUsage(accumulated)
    BY <1>1, <1>4 DEF ParseUsage
  <2>2. AnthropicUsage(accumulated) \in
            {NoUsage, IF InputReports(accumulated) = {} THEN [in |-> 0, cached |-> 0]
                      ELSE [in |-> accumulated[Max(InputReports(accumulated))].in,
                            cached |-> accumulated[Max(InputReports(accumulated))].cached]}
    BY <1>2, <1>3, <1>4, OneReport
  <2> QED
    BY <1>4, <2>1, <2>2 DEF Reported
<1>5. CASE dialect # "anthropic"
  <2>1. recorded = OpenAiUsage(accumulated)
    BY <1>1, <1>5 DEF ParseUsage
  <2> QED
    BY <1>5, <2>1 DEF Reported, OpenAiUsage
<1> QED
  BY <1>4, <1>5

(* The ledger holds what the upstream reported and never a raised count    *)
(* (main.rs 1435-1436), if an Anthropic stream reports its input once.     *)
THEOREM LedgerIsHonest == StreamSpec => []LedgerHonest
<1>1. StreamInv => LedgerHonest
  BY UsageIsReported
<1> QED
  BY <1>1, StreamInvariant, PTL
=============================================================================
