--------------------------- MODULE Projection_proofs ---------------------------
(***************************************************************************)
(* TLAPS proofs about the projection: what it is composed of               *)
(* (ProjectionContent), for any locks, caps, budgets, sections and lengths *)
(* of the history, and where its sections come from (ProjectionSources),   *)
(* for any number of seats, sockets, turns and cut rows, with and without  *)
(* a pinned socket.                                                        *)
(***************************************************************************)
EXTENDS ProjectionContent, ProjectionSources, FiniteSetTheorems, SequenceTheorems,
        WellFoundedInduction, TLAPS

-----------------------------------------------------------------------------
(* The conversation and the projection read off it.                        *)

Calls == [id : Nat \ {0}, kind : CallKinds, lock : Locks \cup {NoLock}]
Answers == [id : Nat \ {0}, ok : BOOLEAN]
Turns ==
    [role : {"user", "assistant"}, text : BOOLEAN, calls : SUBSET Calls,
     results : SUBSET Answers, envelope : Nat]

SectionNames == DOMAIN SectionSize
Statuses == {"pending", "ok", "error"}
Syntheses ==
    [envelope : Nat, native : SUBSET [call : Calls, status : Statuses],
     frontier : [inFlight : SUBSET Calls, monitors : SUBSET Calls, locks : SUBSET Locks],
     thread : SUBSET Nat, sections : SUBSET SectionNames, elided : Seq(SectionNames), size : Int]

ContentType ==
    /\ history \in Seq(Turns) /\ history # <<>>
    /\ synthetic \in Syntheses
    /\ phase \in {"harness", "composing", "composed"}
    /\ budget \in Int /\ shown \in Nat
    /\ held \subseteq Locks

(* Ids number the calls in their order; a result answers a call of the     *)
(* message before; an envelope is named after its message.                 *)
ConversationOK ==
    /\ IsRealUserMessage(history[1])
    /\ \A i \in 1 .. Len(history) :
           /\ history[i].role = "user" => history[i].calls = {}
           /\ history[i].role = "assistant" => history[i].results = {} /\ ~history[i].text
           /\ history[i].envelope <= i
           /\ \A c \in history[i].calls : c.id <= MaxCalls
           /\ \A c, d \in history[i].calls : c.id = d.id => c = d
           /\ \A r \in history[i].results :
                  i > 1 /\ \E c \in history[i - 1].calls : c.id = r.id
    /\ \A i, j \in 1 .. Len(history) : i < j =>
           \A c \in history[i].calls, d \in history[j].calls : c.id < d.id

(* The calls the harness has had its chance to answer, by what it said.    *)
PastCalls(h) == UNION {h[i].calls : i \in {j \in DOMAIN h : j < Len(h)}}
DoneCalls(h) == {c \in PastCalls(h) : \E r \in AllResults(h) : r.id = c.id /\ r.ok}
OpenCalls(h) == {c \in PastCalls(h) : ~\E r \in AllResults(h) : r.id = c.id}

(* The kernel gives and takes locks as the history tells, up to what the   *)
(* calls without an answer may have done.                                  *)
Told(locks, done, pending) ==
    /\ locks \subseteq Taken(done) \cup LocksOf(pending, "create")
    /\ Taken(done) \subseteq locks \cup LocksOf(pending, "release")

LocksTold == Told(held, DoneCalls(history), OpenCalls(history))

(* What a projection is made of, and what has been elided from it.         *)
ProjectionOK ==
    phase # "harness" =>
        /\ CycleBoundary > 1
        /\ synthetic.frontier = Unresolved(Dropped(history))
        /\ synthetic.envelope = LatestEnvelope(Dropped(history))

ElisionOK ==
    phase # "harness" =>
        /\ synthetic.elided # <<>> =>
               synthetic.size + SectionSize[Last(synthetic.elided)] > budget
        /\ \A i \in DOMAIN synthetic.elided, s \in synthetic.sections :
               ElisionOrder[synthetic.elided[i]] < ElisionOrder[s]
        /\ \A i, j \in DOMAIN synthetic.elided : i < j =>
               ElisionOrder[synthetic.elided[i]] < ElisionOrder[synthetic.elided[j]]
        /\ phase = "composed" => ~OverBudget \/ synthetic.sections = {}

(* The envelope shown last is in the part of the history that is dropped.  *)
ShownIsDropped ==
    shown # NoEnvelope =>
        \E i \in 1 .. CycleBoundary - 1 : history[i].envelope = shown

ContentInv ==
    /\ ContentType
    /\ ConversationOK
    /\ LocksTold
    /\ ProjectionOK
    /\ ElisionOK
    /\ ShownIsDropped

(* The newest calls are settled: some take effect (E), some of them and    *)
(* some that do not are answered (A).                                      *)
LEMMA LocksStep ==
    ASSUME NEW L \in SUBSET Calls, NEW D \in SUBSET Calls, NEW P \in SUBSET Calls,
           NEW E \in SUBSET L, NEW A \in SUBSET L, NEW h \in SUBSET Locks,
           Told(h, D, P), \A c \in D, d \in L : c.id < d.id
    PROVE  Told(Taken(E) \cup (h \ LocksOf(E, "release")), D \cup (E \cap A), P \cup (L \ A))
<1> DEFINE h2 == Taken(E) \cup (h \ LocksOf(E, "release"))
           D2 == D \cup (E \cap A)
           P2 == P \cup (L \ A)
<1>0. \A c \in Calls : c.id \in Int
  BY DEF Calls
<1>1. /\ h2 \in SUBSET Locks
      /\ h \subseteq Taken(D) \cup LocksOf(P, "create")
      /\ Taken(D) \subseteq h \cup LocksOf(P, "release")
  BY DEF Taken, Told
<1>2. ASSUME NEW l \in h2 PROVE l \in Taken(D2) \cup LocksOf(P2, "create")
  <2>1. CASE l \in Taken(E)
    <3>1. PICK c \in E : /\ c.kind = "create" /\ c.lock = l
                         /\ \A d \in E : d.kind = "release" /\ d.lock = l => d.id < c.id
      BY <2>1 DEF Taken
    <3>2. CASE c \in A
      <4>1. \A d \in D2 : d.kind = "release" /\ d.lock = l => d.id < c.id
        BY <3>1
      <4> QED
        BY <1>1, <3>1, <3>2, <4>1 DEF Taken
    <3>3. CASE c \notin A
      BY <3>1, <3>3 DEF LocksOf
    <3> QED
      BY <3>2, <3>3
  <2>2. CASE l \in h \ LocksOf(E, "release")
    <3>1. CASE l \in Taken(D)
      <4>1. PICK c \in D : /\ c.kind = "create" /\ c.lock = l
                           /\ \A d \in D : d.kind = "release" /\ d.lock = l => d.id < c.id
        BY <3>1 DEF Taken
      <4>2. \A d \in D2 : d.kind = "release" /\ d.lock = l => d.id < c.id
        BY <2>2, <4>1 DEF LocksOf
      <4> QED
        BY <1>1, <4>1, <4>2 DEF Taken
    <3>2. CASE l \in LocksOf(P, "create")
      BY <3>2 DEF LocksOf
    <3> QED
      BY <1>1, <2>2, <3>1, <3>2
  <2> QED
    BY <2>1, <2>2
<1>3. ASSUME NEW l \in Taken(D2) PROVE l \in h2 \cup LocksOf(P2, "release")
  <2>1. PICK c \in D2 : /\ c.kind = "create" /\ c.lock = l
                        /\ \A d \in D2 : d.kind = "release" /\ d.lock = l => d.id < c.id
    BY DEF Taken
  <2>2. l \in Locks
    BY DEF Taken
  <2>3. CASE \E d \in E : d.kind = "release" /\ d.lock = l /\ d \notin A
    BY <2>3 DEF LocksOf
  <2>4. CASE \A d \in E : d.kind = "release" /\ d.lock = l => d \in A
    <3>1. CASE c \in E
      BY <2>1, <2>2, <2>4, <3>1 DEF Taken
    <3>2. CASE c \in D
      <4>1. \A d \in E : ~(d.kind = "release" /\ d.lock = l)
        <5> SUFFICES ASSUME NEW d \in E, d.kind = "release", d.lock = l PROVE FALSE
          OBVIOUS
        <5>1. d.id < c.id
          BY <2>1, <2>4
        <5>2. c.id < d.id
          BY <3>2
        <5>3. c.id \in Int /\ d.id \in Int
          BY <1>0, <3>2
        <5> QED
          BY <5>1, <5>2, <5>3
      <4>2. l \in Taken(D)
        BY <2>1, <2>2, <3>2 DEF Taken
      <4>3. l \in LocksOf(P, "release") => l \in LocksOf(P2, "release")
        BY DEF LocksOf
      <4>4. l \notin LocksOf(E, "release")
        BY <4>1 DEF LocksOf
      <4> QED
        BY <1>1, <4>2, <4>3, <4>4
    <3> QED
      BY <3>1, <3>2
  <2> QED
    BY <2>3, <2>4
<1> QED
  BY <1>2, <1>3 DEF Told

LEMMA LeastNat ==
    ASSUME NEW S \in SUBSET Nat, S # {}
    PROVE  \E m \in S : \A x \in S : m <= x
<1>1. PICK m \in S : \A x \in S : ~(<<x, m>> \in OpToRel(<, Nat))
  BY WFMin, NatLessThanWellFounded
<1>2. ASSUME NEW x \in S PROVE m <= x
  <2>1. x < m => <<x, m>> \in OpToRel(<, Nat)
    BY DEF OpToRel
  <2>2. ~(<<x, m>> \in OpToRel(<, Nat))
    BY <1>1, Zenon
  <2>3. ~(x < m)
    BY <2>1, <2>2, Zenon
  <2>4. x \in Nat /\ m \in Nat
    OBVIOUS
  <2> QED
    BY <2>3, <2>4
<1> QED
  BY <1>2

LEMMA MaxFacts ==
    ASSUME NEW n \in Nat, NEW S \in SUBSET (0 .. n), S # {}
    PROVE  Max(S) \in S /\ \A j \in S : j <= Max(S)
<1> DEFINE T == {n - j : j \in S}
<1>1. T \in SUBSET Nat /\ T # {}
  <2>1. PICK j \in S : TRUE
    OBVIOUS
  <2>2. n - j \in T
    BY <2>1
  <2>3. \A x \in S : n - x \in Nat
    OBVIOUS
  <2> QED
    BY <2>2, <2>3
<1> HIDE DEF T
<1>2. PICK m \in T : \A x \in T : m <= x
  BY <1>1, LeastNat
<1>3. PICK k \in S : m = n - k
  BY DEF T
<1>4. ASSUME NEW j \in S PROVE j <= k
  <2>1. n - j \in T
    BY DEF T
  <2>2. n - k <= n - j
    BY <1>2, <1>3, <2>1
  <2> QED
    BY <2>2
<1>5. \E x \in S : \A y \in S : x >= y
  BY <1>4
<1> QED
  BY <1>5 DEF Max

LEMMA BoundaryFacts ==
    ASSUME ContentType, ConversationOK
    PROVE  /\ Boundaries(history) \in SUBSET (1 .. Len(history)) /\ Len(history) \in Nat
           /\ CycleBoundary \in Boundaries(history)
           /\ \A i \in Boundaries(history) : i <= CycleBoundary
<1>1. /\ DOMAIN history = 1 .. Len(history) /\ Len(history) \in Nat /\ 1 \in 1 .. Len(history)
  BY DEF ContentType
<1>2. Boundaries(history) \in SUBSET (1 .. Len(history)) /\ 1 \in Boundaries(history)
  BY <1>1 DEF Boundaries, ConversationOK
<1>3. Boundaries(history) \in SUBSET (0 .. Len(history)) /\ Boundaries(history) # {}
  BY <1>1, <1>2
<1> QED
  BY <1>1, <1>2, <1>3, MaxFacts DEF CycleBoundary

LEMMA CallsFacts ==
    ASSUME ContentType, ConversationOK
    PROVE  /\ AllCalls(history) \in SUBSET Calls
           /\ \A c \in AllCalls(history) : c.id <= MaxCalls
           /\ \A c, d \in AllCalls(history) : c.id = d.id => c = d
           /\ NewestId(history) \in 0 .. MaxCalls
           /\ \A c \in AllCalls(history) : c.id <= NewestId(history)
<1>1. DOMAIN history = 1 .. Len(history) /\ \A i \in 1 .. Len(history) : history[i] \in Turns
  BY DEF ContentType
<1>2. AllCalls(history) \in SUBSET Calls /\ \A c \in AllCalls(history) : c.id <= MaxCalls
  BY <1>1 DEF AllCalls, ConversationOK, Turns
<1>3. ASSUME NEW c \in AllCalls(history), NEW d \in AllCalls(history), c.id = d.id PROVE c = d
  <2>1. PICK i \in 1 .. Len(history) : c \in history[i].calls
    BY <1>1 DEF AllCalls
  <2>2. PICK j \in 1 .. Len(history) : d \in history[j].calls
    BY <1>1 DEF AllCalls
  <2>3. c.id \in Int /\ d.id \in Int
    BY <1>2 DEF Calls
  <2>4. ~(i < j) /\ ~(j < i)
    BY <1>3, <2>1, <2>2, <2>3 DEF ConversationOK
  <2>5. i = j
    BY <2>4
  <2> QED
    BY <1>3, <2>1, <2>2, <2>5 DEF ConversationOK
<1> DEFINE S == {0} \cup {c.id : c \in AllCalls(history)}
<1>4. S \in SUBSET (0 .. MaxCalls) /\ S # {} /\ MaxCalls \in Nat
  BY <1>2, ContentAssumption DEF Calls
<1> HIDE DEF S
<1>5. Max(S) \in S /\ \A j \in S : j <= Max(S)
  BY <1>4, MaxFacts
<1>6. NewestId(history) \in 0 .. MaxCalls /\ \A c \in AllCalls(history) : c.id <= NewestId(history)
  BY <1>4, <1>5 DEF NewestId, S
<1> QED
  BY <1>2, <1>3, <1>6

(* What a message may add to the conversation.                             *)
MayFollow(m) ==
    /\ m \in Turns
    /\ m.role = "user" => m.calls = {}
    /\ m.role = "assistant" => m.results = {} /\ ~m.text
    /\ m.envelope <= Len(history) + 1
    /\ \A c \in m.calls : c.id <= MaxCalls
    /\ \A c, d \in m.calls : c.id = d.id => c = d
    /\ \A r \in m.results : \E c \in history[Len(history)].calls : c.id = r.id
    /\ \A c \in AllCalls(history), d \in m.calls : c.id < d.id

LEMMA WithinBoth ==
    ASSUME NEW n \in Nat, NEW a \in 1 .. n, NEW b \in Int, a <= b, NEW i \in 1 .. a - 1
    PROVE  i \in 1 .. b - 1 /\ i \in 1 .. n
OBVIOUS

LEMMA HistoryGrows ==
    ASSUME ContentInv, phase = "harness", NEW m, MayFollow(m),
           history' = Append(history, m), held' \subseteq Locks,
           UNCHANGED <<phase, synthetic, budget, shown>>
    PROVE  /\ ContentType' /\ ConversationOK' /\ ProjectionOK' /\ ElisionOK' /\ ShownIsDropped'
           /\ PastCalls(history') = PastCalls(history) \cup history[Len(history)].calls
           /\ AllResults(history') = AllResults(history) \cup m.results
<1> DEFINE n == Len(history)
<1>1. /\ history \in Seq(Turns) /\ n \in Nat /\ n >= 1 /\ DOMAIN history = 1 .. n
      /\ ContentType /\ ConversationOK /\ ShownIsDropped /\ m \in Turns
  BY DEF ContentInv, ContentType, MayFollow
<1>2. /\ history' \in Seq(Turns) /\ Len(history') = n + 1 /\ DOMAIN history' = 1 .. n + 1
      /\ \A i \in 1 .. n : history'[i] = history[i]
      /\ history'[n + 1] = m
  BY <1>1, AppendProperties
<1> HIDE DEF n
<1>3. \A i \in 1 .. n + 1 : i \in 1 .. n \/ i = n + 1
  BY <1>1
<1>4. ContentType'
  BY <1>1, <1>2 DEF ContentType
<1>5. ConversationOK'
  <2>1. IsRealUserMessage(history'[1])
    BY <1>1, <1>2 DEF ConversationOK
  <2>2. ASSUME NEW i \in 1 .. n
        PROVE  /\ history'[i].role = "user" => history'[i].calls = {}
               /\ history'[i].role = "assistant" => history'[i].results = {} /\ ~history'[i].text
               /\ history'[i].envelope <= i
               /\ \A c \in history'[i].calls : c.id <= MaxCalls
               /\ \A c, d \in history'[i].calls : c.id = d.id => c = d
               /\ \A r \in history'[i].results :
                      i > 1 /\ \E c \in history'[i - 1].calls : c.id = r.id
    <3>1. i > 1 => history'[i - 1] = history[i - 1]
      BY <1>1, <1>2
    <3> QED
      BY <1>1, <1>2, <3>1 DEF ConversationOK, n
  <2>3. /\ m.role = "user" => m.calls = {}
        /\ m.role = "assistant" => m.results = {} /\ ~m.text
        /\ m.envelope <= n + 1
        /\ \A c \in m.calls : c.id <= MaxCalls
        /\ \A c, d \in m.calls : c.id = d.id => c = d
        /\ \A r \in m.results :
               n + 1 > 1 /\ \E c \in history'[(n + 1) - 1].calls : c.id = r.id
    <3>1. n \in 1 .. n /\ (n + 1) - 1 = n /\ n + 1 > 1
      BY <1>1
    <3> QED
      BY <1>2, <3>1 DEF MayFollow, n
  <2>4. ASSUME NEW i \in 1 .. n + 1, NEW j \in 1 .. n + 1, i < j,
               NEW c \in history'[i].calls, NEW d \in history'[j].calls
        PROVE  c.id < d.id
    <3>1. i \in 1 .. n /\ c \in history[i].calls
      BY <1>1, <1>2, <2>4
    <3>2. CASE j = n + 1
      <4>1. c \in AllCalls(history)
        BY <1>1, <3>1 DEF AllCalls
      <4> QED
        BY <1>2, <3>2, <4>1 DEF MayFollow
    <3>3. CASE j \in 1 .. n
      BY <1>1, <1>2, <2>4, <3>1, <3>3 DEF ConversationOK, n
    <3> QED
      BY <1>3, <3>2, <3>3
  <2>5. ASSUME NEW i \in 1 .. n + 1
        PROVE  /\ history'[i].role = "user" => history'[i].calls = {}
               /\ history'[i].role = "assistant" => history'[i].results = {} /\ ~history'[i].text
               /\ history'[i].envelope <= i
               /\ \A c \in history'[i].calls : c.id <= MaxCalls
               /\ \A c, d \in history'[i].calls : c.id = d.id => c = d
               /\ \A r \in history'[i].results :
                      i > 1 /\ \E c \in history'[i - 1].calls : c.id = r.id
    <3>1. CASE i \in 1 .. n
      BY <2>2, <3>1
    <3>2. CASE i = n + 1
      BY <1>2, <2>3, <3>2
    <3> QED
      BY <1>3, <3>1, <3>2
  <2> QED
    BY <1>2, <2>1, <2>4, <2>5 DEF ConversationOK
<1>6. ProjectionOK' /\ ElisionOK'
  BY DEF ProjectionOK, ElisionOK
<1>7. ShownIsDropped'
  <2>1. CycleBoundary <= CycleBoundary' /\ CycleBoundary \in 1 .. n /\ CycleBoundary' \in Int
    <3>1. /\ CycleBoundary \in Boundaries(history) /\ Boundaries(history) \in SUBSET (1 .. n)
      BY <1>1, BoundaryFacts DEF n
    <3>2. /\ CycleBoundary' \in Boundaries(history') /\ Boundaries(history') \in SUBSET (1 .. n + 1)
          /\ \A i \in Boundaries(history') : i <= CycleBoundary'
      <4>1. /\ Boundaries(history') \in SUBSET (1 .. n + 1) /\ 1 \in Boundaries(history')
        BY <1>1, <1>2, <1>5 DEF Boundaries, ConversationOK
      <4>2. Boundaries(history') \in SUBSET (0 .. n + 1) /\ n + 1 \in Nat
        BY <1>1, <4>1
      <4>3. /\ Max(Boundaries(history')) \in Boundaries(history')
            /\ \A i \in Boundaries(history') : i <= Max(Boundaries(history'))
        BY <4>1, <4>2, MaxFacts
      <4> QED
        BY <4>1, <4>3 DEF CycleBoundary
    <3>3. CycleBoundary \in Boundaries(history')
      BY <1>1, <1>2, <3>1 DEF Boundaries
    <3> QED
      BY <3>1, <3>2, <3>3
  <2>2. ASSUME shown' # NoEnvelope
        PROVE  \E i \in 1 .. CycleBoundary' - 1 : history'[i].envelope = shown'
    <3>1. PICK i \in 1 .. CycleBoundary - 1 : history[i].envelope = shown
      BY <1>1, <2>2 DEF ShownIsDropped
    <3>2. i \in 1 .. CycleBoundary' - 1 /\ i \in 1 .. n
      BY <1>1, <2>1, WithinBoth
    <3> QED
      BY <1>2, <3>1, <3>2
  <2> QED
    BY <2>2 DEF ShownIsDropped
<1>8. PastCalls(history') = PastCalls(history) \cup history[n].calls
  <2>1. {j \in DOMAIN history' : j < Len(history')} = 1 .. n
    BY <1>1, <1>2
  <2>2. {j \in DOMAIN history : j < Len(history)} = 1 .. n - 1
    BY <1>1 DEF n
  <2>3. PastCalls(history') = UNION {history[i].calls : i \in 1 .. n}
    BY <1>2, <2>1 DEF PastCalls
  <2>4. PastCalls(history) = UNION {history[i].calls : i \in 1 .. n - 1}
    BY <2>2 DEF PastCalls
  <2>5. \A i \in 1 .. n : i \in 1 .. n - 1 \/ i = n
    BY <1>1
  <2>6. n \in 1 .. n /\ \A i \in 1 .. n - 1 : i \in 1 .. n
    BY <1>1
  <2> QED
    BY <2>3, <2>4, <2>5, <2>6
<1>9. AllResults(history') = AllResults(history) \cup m.results
  <2>1. n + 1 \in 1 .. n + 1 /\ \A i \in 1 .. n : i \in 1 .. n + 1
    BY <1>1
  <2> QED
    BY <1>1, <1>2, <1>3, <2>1 DEF AllResults
<1> QED
  BY <1>4, <1>5, <1>6, <1>7, <1>8, <1>9 DEF n

LEMMA ModelCallsKeeps ==
    ASSUME ContentInv, NEW acts, NEW k \in Nat, acts \in [1 .. k -> Actions], ModelCalls(acts)
    PROVE  ContentInv'
<1> DEFINE n == NewestId(history)
           calls == {[id |-> n + i, kind |-> acts[i].kind, lock |-> acts[i].lock] : i \in 1 .. k}
           m == Assistant(calls)
<1>1. /\ ContentType /\ ConversationOK /\ phase = "harness" /\ history \in Seq(Turns)
      /\ Len(history) \in 1 .. Len(history) /\ Len(history) \in Nat
      /\ history[Len(history)].role = "user"
      /\ n + k <= MaxCalls /\ history' = Append(history, m)
      /\ UNCHANGED <<held, phase, synthetic, budget, shown>>
  <2>1. Len(acts) = k /\ DOMAIN acts = 1 .. k
    BY Z3
  <2> QED
    BY <2>1 DEF ModelCalls, ContentInv, ContentType, Last
<1>2. n \in Nat /\ MaxCalls \in Nat
  BY <1>1, CallsFacts, ContentAssumption
<1> HIDE DEF n
<1>3. /\ calls \in SUBSET Calls
      /\ \A c \in calls : c.id <= MaxCalls /\ n < c.id
      /\ \A c, d \in calls : c.id = d.id => c = d
  <2>1. ASSUME NEW i \in 1 .. k
        PROVE  /\ acts[i].kind \in CallKinds /\ acts[i].lock \in Locks \cup {NoLock}
               /\ n + i \in Nat \ {0} /\ n + i <= MaxCalls /\ n < n + i
    <3>1. acts[i] \in Actions
      OBVIOUS
    <3>2. acts[i].kind \in CallKinds /\ acts[i].lock \in Locks \cup {NoLock}
      BY <3>1 DEF Actions
    <3> QED
      BY <1>1, <1>2, <3>2
  <2>2. ASSUME NEW i \in 1 .. k, NEW j \in 1 .. k, n + i = n + j PROVE i = j
    BY <1>2, <2>2
  <2> QED
    BY <2>1, <2>2 DEF Calls
<1> HIDE DEF calls
<1>4. m \in Turns /\ m.role = "assistant" /\ m.calls = calls /\ m.results = {} /\ ~m.text
      /\ m.envelope = 0
  BY <1>3 DEF Assistant, Turns, NoEnvelope
<1> HIDE DEF m
<1>5. MayFollow(m)
  <2>1. \A c \in AllCalls(history), d \in m.calls : c.id < d.id
    <3> SUFFICES ASSUME NEW c \in AllCalls(history), NEW d \in calls PROVE c.id < d.id
      BY <1>4
    <3>1. c.id <= n /\ c.id \in Nat /\ d.id \in Nat /\ n < d.id
      BY <1>1, <1>3, CallsFacts DEF n, Calls
    <3> QED
      BY <1>2, <3>1
  <2>2. m.envelope <= Len(history) + 1
    BY <1>1, <1>4
  <2> QED
    BY <1>3, <1>4, <2>1, <2>2 DEF MayFollow
<1>6. held' \subseteq Locks
  BY <1>1 DEF ContentType
<1>7. /\ ContentType' /\ ConversationOK' /\ ProjectionOK' /\ ElisionOK' /\ ShownIsDropped'
      /\ PastCalls(history') = PastCalls(history) \cup history[Len(history)].calls
      /\ AllResults(history') = AllResults(history) \cup m.results
  BY <1>1, <1>5, <1>6, HistoryGrows
<1>8. history[Len(history)].calls = {}
  BY <1>1 DEF ConversationOK
<1>9. PastCalls(history') = PastCalls(history) /\ AllResults(history') = AllResults(history)
  BY <1>4, <1>7, <1>8
<1>10. LocksTold'
  BY <1>1, <1>9 DEF ContentInv, LocksTold, DoneCalls, OpenCalls
<1> QED
  BY <1>7, <1>10 DEF ContentInv

LEMMA AnswerKeeps ==
    ASSUME ContentInv, NEW done, NEW answered, NEW text \in BOOLEAN,
           NEW env \in {NoEnvelope, Len(history) + 1},
           Answer(done, answered, text, env)
    PROVE  ContentInv'
<1> DEFINE n == Len(history)
           L == history[n].calls
           E == {c \in L : c.id \in done}
           A == {c \in L : c.id \in answered}
           R == {[id |-> i, ok |-> i \in done] : i \in answered}
           m == User(text, R, env)
           D == DoneCalls(history)
           P == OpenCalls(history)
<1>1. /\ ContentType /\ ConversationOK /\ LocksTold /\ phase = "harness" /\ history \in Seq(Turns)
      /\ n \in 1 .. n /\ n \in Nat /\ DOMAIN history = 1 .. n
      /\ answered \subseteq {c.id : c \in L}
      /\ history' = Append(history, m) /\ held' = HeldAfter(E)
      /\ UNCHANGED <<phase, synthetic, budget, shown>>
  BY DEF Answer, ContentInv, ContentType, Last
<1>2. L \in SUBSET Calls /\ held \in SUBSET Locks
  <2>1. history[n] \in Turns
    BY <1>1
  <2> QED
    BY <1>1, <2>1 DEF ContentType, Turns
<1> HIDE DEF L
<1>3. R \in SUBSET Answers
  <2> SUFFICES ASSUME NEW i \in answered PROVE [id |-> i, ok |-> i \in done] \in Answers
    OBVIOUS
  <2>1. i \in Nat \ {0}
    BY <1>1, <1>2 DEF Calls
  <2>2. (i \in done) \in BOOLEAN
    OBVIOUS
  <2> QED
    BY <2>1, <2>2 DEF Answers
<1> HIDE DEF R
<1>4. m \in Turns /\ m.role = "user" /\ m.calls = {} /\ m.results = R /\ m.envelope = env
  BY <1>1, <1>3 DEF User, Turns, NoEnvelope
<1> HIDE DEF m
<1>5. MayFollow(m)
  <2>1. m.envelope <= n + 1
    BY <1>1, <1>4 DEF NoEnvelope
  <2>2. \A r \in m.results : \E c \in L : c.id = r.id
    BY <1>1, <1>4 DEF R
  <2> QED
    BY <1>4, <2>1, <2>2 DEF MayFollow, L
<1>6. PastCalls(history) \in SUBSET Calls
      /\ \A c \in PastCalls(history), d \in L : c.id < d.id
  <2> SUFFICES ASSUME NEW c \in PastCalls(history)
               PROVE  c \in Calls /\ \A d \in L : c.id < d.id
    OBVIOUS
  <2>1. PICK i \in 1 .. n : i < n /\ c \in history[i].calls
    BY <1>1 DEF PastCalls
  <2>2. history[i] \in Turns
    BY <1>1
  <2>3. c \in Calls
    BY <2>1, <2>2 DEF Turns
  <2>4. \A d \in L : c.id < d.id
    BY <1>1, <2>1 DEF ConversationOK, L
  <2> QED
    BY <2>3, <2>4
<1>7. \A r \in AllResults(history) : \A d \in L : r.id # d.id
  <2> SUFFICES ASSUME NEW i \in 1 .. n, NEW r \in history[i].results, NEW d \in L PROVE r.id # d.id
    BY <1>1 DEF AllResults
  <2>1. i > 1 /\ \E c \in history[i - 1].calls : c.id = r.id
    BY <1>1 DEF ConversationOK
  <2>2. PICK c \in history[i - 1].calls : c.id = r.id
    BY <2>1, Zenon
  <2>3. i - 1 \in 1 .. n /\ i - 1 < n
    BY <1>1, <2>1
  <2>4. c.id < d.id
    BY <1>1, <2>3 DEF ConversationOK, L
  <2>5. d.id \in Int
    BY <1>2 DEF Calls
  <2> QED
    BY <2>2, <2>4, <2>5
<1>8. /\ D \in SUBSET Calls /\ P \in SUBSET Calls
      /\ \A c \in D, d \in L : c.id < d.id
      /\ Told(held, D, P)
  BY <1>1, <1>6 DEF DoneCalls, OpenCalls, LocksTold
<1> HIDE DEF n
<1>9. held' \in SUBSET Locks /\ Told(held', D \cup (E \cap A), P \cup (L \ A))
  <2>1. held' = Taken(E) \cup (held \ LocksOf(E, "release")) /\ E \in SUBSET L /\ A \in SUBSET L
    BY <1>1 DEF HeldAfter
  <2>2. held' \in SUBSET Locks
    BY <1>2, <2>1 DEF Taken
  <2> HIDE DEF D, P, E, A
  <2> QED
    BY <1>2, <1>8, <2>1, <2>2, LocksStep
<1>10. /\ ContentType' /\ ConversationOK' /\ ProjectionOK' /\ ElisionOK' /\ ShownIsDropped'
       /\ PastCalls(history') = PastCalls(history) \cup L
       /\ AllResults(history') = AllResults(history) \cup R
  BY <1>1, <1>4, <1>5, <1>9, HistoryGrows DEF L, n
<1>11. \A c \in PastCalls(history), r \in R : r.id # c.id
  <2> SUFFICES ASSUME NEW c \in PastCalls(history), NEW r \in R PROVE r.id # c.id
    OBVIOUS
  <2>1. PICK d \in L : r.id = d.id
    BY <1>1 DEF R
  <2>2. c.id < d.id /\ d.id \in Int
    BY <1>2, <1>6 DEF Calls
  <2> QED
    BY <2>1, <2>2
<1>12. \A c \in L : /\ (\E r \in R : r.id = c.id /\ r.ok) <=> c \in E \cap A
                    /\ (\E r \in R : r.id = c.id) <=> c \in A
  <2> SUFFICES ASSUME NEW c \in L
               PROVE  /\ (\E r \in R : r.id = c.id /\ r.ok) <=> c.id \in done /\ c.id \in answered
                      /\ (\E r \in R : r.id = c.id) <=> c.id \in answered
    OBVIOUS
  <2>1. ASSUME NEW r \in R PROVE r.id \in answered /\ (r.ok <=> r.id \in done)
    <3>1. PICK i \in answered : r = [id |-> i, ok |-> i \in done]
      BY DEF R
    <3>2. r.id = i /\ r.ok = (i \in done)
      BY <3>1, Zenon
    <3> QED
      BY <3>2, Zenon
  <2>2. c.id \in answered => [id |-> c.id, ok |-> c.id \in done] \in R
    BY DEF R
  <2> QED
    BY <2>1, <2>2
<1> HIDE DEF R, E, A
<1>13. DoneCalls(history') = D \cup (E \cap A)
  <2>1. E \subseteq L
    BY DEF E
  <2> QED
    BY <1>7, <1>10, <1>11, <1>12, <2>1 DEF DoneCalls
<1>14. OpenCalls(history') = P \cup (L \ A)
  BY <1>7, <1>10, <1>11, <1>12 DEF OpenCalls
<1>15. LocksTold'
  BY <1>9, <1>13, <1>14 DEF LocksTold
<1> QED
  BY <1>10, <1>15 DEF ContentInv

LEMMA DroppedFacts ==
    ASSUME ContentType, ConversationOK
    PROVE  /\ CycleBoundary \in 1 .. Len(history) /\ Len(history) \in Nat
           /\ DOMAIN Dropped(history) = 1 .. CycleBoundary - 1
           /\ \A i \in 1 .. CycleBoundary - 1 :
                  i \in DOMAIN history /\ Dropped(history)[i] = history[i]
           /\ AllCalls(Dropped(history)) \in SUBSET AllCalls(history)
           /\ AllResults(Dropped(history)) \in SUBSET AllResults(history)
<1> DEFINE b == CycleBoundary
           n == Len(history)
<1>1. b \in 1 .. n /\ n \in Nat /\ DOMAIN history = 1 .. n /\ \A i \in 1 .. n : history[i] \in Turns
  BY BoundaryFacts DEF ContentType
<1> HIDE DEF n, b
<1>2. \A i \in 1 .. b - 1 : i \in 1 .. n /\ 1 + i - 1 = i
  BY <1>1
<1>3. /\ SubSeq(history, 1, b - 1) \in Seq(Turns)
      /\ Len(SubSeq(history, 1, b - 1)) = IF 1 <= b - 1 THEN (b - 1) - 1 + 1 ELSE 0
      /\ \A i \in 1 .. (b - 1) - 1 + 1 : SubSeq(history, 1, b - 1)[i] = history[1 + i - 1]
  BY <1>1, <1>2, SubSeqProperties
<1>4. Dropped(history) = SubSeq(history, 1, b - 1)
  BY DEF Dropped, CycleBoundary, b
<1>5. (b - 1) - 1 + 1 = b - 1 /\ (IF 1 <= b - 1 THEN (b - 1) - 1 + 1 ELSE 0) = b - 1
  BY <1>1
<1>6. DOMAIN Dropped(history) = 1 .. b - 1
  BY <1>3, <1>4, <1>5
<1>7. \A i \in 1 .. b - 1 : i \in DOMAIN history /\ Dropped(history)[i] = history[i]
  BY <1>1, <1>2, <1>3, <1>4, <1>5
<1>8. /\ AllCalls(Dropped(history)) \in SUBSET AllCalls(history)
      /\ AllResults(Dropped(history)) \in SUBSET AllResults(history)
  BY <1>6, <1>7 DEF AllCalls, AllResults
<1> QED
  BY <1>1, <1>6, <1>7, <1>8 DEF b, n

LEMMA LatestFacts ==
    ASSUME ContentType, ConversationOK
    PROVE  /\ LatestEnvelope(Dropped(history)) \in Nat
           /\ \A i \in 1 .. CycleBoundary - 1 :
                  history[i].envelope <= LatestEnvelope(Dropped(history))
           /\ LatestEnvelope(Dropped(history)) # NoEnvelope =>
                  \E i \in 1 .. CycleBoundary - 1 :
                      history[i].envelope = LatestEnvelope(Dropped(history))
<1> DEFINE ms == Dropped(history)
           S == {NoEnvelope} \cup {ms[i].envelope : i \in DOMAIN ms}
           n == Len(history)
<1>1. /\ CycleBoundary \in 1 .. n /\ n \in Nat /\ DOMAIN ms = 1 .. CycleBoundary - 1
      /\ \A i \in 1 .. CycleBoundary - 1 : i \in 1 .. n /\ ms[i] = history[i]
  BY DroppedFacts DEF ContentType
<1>2. \A i \in 1 .. n : history[i].envelope \in Nat /\ history[i].envelope <= i
  <2>1. \A i \in 1 .. n : history[i] \in Turns
    BY DEF ContentType
  <2> QED
    BY <2>1 DEF ConversationOK, Turns
<1>3. S \in SUBSET (0 .. n) /\ S # {}
  <2>1. ASSUME NEW i \in 1 .. CycleBoundary - 1 PROVE ms[i].envelope \in 0 .. n
    BY <1>1, <1>2
  <2> QED
    BY <1>1, <2>1 DEF NoEnvelope
<1>4. LatestEnvelope(ms) = Max(S)
  BY DEF LatestEnvelope
<1>5. \A i \in 1 .. CycleBoundary - 1 : history[i].envelope \in S
  BY <1>1
<1>6. \A x \in S : x # NoEnvelope => \E i \in 1 .. CycleBoundary - 1 : history[i].envelope = x
  BY <1>1
<1> HIDE DEF S, ms
<1>7. Max(S) \in S /\ \A j \in S : j <= Max(S)
  BY <1>1, <1>3, MaxFacts
<1>8. \A x \in S : x \in Nat
  BY <1>1, <1>3
<1> QED
  <2> HIDE DEF n
  <2>1. LatestEnvelope(ms) \in S /\ LatestEnvelope(ms) \in Nat /\ \A j \in S : j <= LatestEnvelope(ms)
    BY <1>4, <1>7, <1>8
  <2> QED
    BY <1>5, <1>6, <2>1 DEF ms

(* The calls of a conversation are finitely many.                          *)
LEMMA CallsFinite ==
    ASSUME NEW S \in SUBSET Calls, \A c \in S : c.id <= MaxCalls,
           \A c, d \in S : c.id = d.id => c = d
    PROVE  IsFiniteSet(S)
<1> DEFINE f == [c \in S |-> c.id]
<1>1. IsFiniteSet(0 .. MaxCalls)
  BY ContentAssumption, FS_Interval
<1>2. \A c \in S : c.id \in 0 .. MaxCalls
  BY ContentAssumption DEF Calls
<1>3. f \in Injection(S, 0 .. MaxCalls)
  BY <1>2 DEF Injection, IsInjective
<1> QED
  BY <1>1, <1>3, FS_Injection

(* Of any messages of the conversation, what they told is finite.          *)
LEMMA SummaryFacts ==
    ASSUME NEW ms, AllCalls(ms) \in SUBSET Calls, IsFiniteSet(AllCalls(ms)),
           \A c, d \in AllCalls(ms) : c.id = d.id => c = d
    PROVE  /\ Summary(ms) \in SUBSET [call : Calls, status : Statuses]
           /\ IsFiniteSet(Summary(ms))
           /\ \A st \in Statuses : WithStatus(Summary(ms), st) \in SUBSET AllCalls(ms)
<1>1. \A c \in AllCalls(ms) : Status(c, AllResults(ms)) \in Statuses
  BY DEF Status, Statuses
<1>2. Summary(ms) \in SUBSET [call : Calls, status : Statuses]
  BY <1>1 DEF Summary
<1> DEFINE f == [x \in Summary(ms) |-> x.call]
<1>3. f \in Injection(Summary(ms), AllCalls(ms))
  BY DEF Injection, IsInjective, Summary
<1>4. IsFiniteSet(Summary(ms))
  BY <1>3, FS_Injection
<1>5. \A st \in Statuses : WithStatus(Summary(ms), st) \in SUBSET AllCalls(ms)
  BY DEF WithStatus, Summary
<1> QED
  BY <1>2, <1>4, <1>5

LEMMA StatusSplits ==
    ASSUME NEW ms, NEW st
    PROVE  WithStatus(Summary(ms), st) =
               {c \in AllCalls(ms) : Status(c, AllResults(ms)) = st}
<1>1. ASSUME NEW c \in WithStatus(Summary(ms), st)
      PROVE  c \in AllCalls(ms) /\ Status(c, AllResults(ms)) = st
  BY DEF WithStatus, Summary
<1>2. ASSUME NEW c \in AllCalls(ms), Status(c, AllResults(ms)) = st
      PROVE  c \in WithStatus(Summary(ms), st)
  <2>1. [call |-> c, status |-> st] \in Summary(ms)
    BY <1>2 DEF Summary
  <2> QED
    BY <2>1 DEF WithStatus
<1> QED
  BY <1>1, <1>2

LEMMA TakenFinite ==
    ASSUME NEW S, IsFiniteSet(S)
    PROVE  Taken(S) \in SUBSET Locks /\ IsFiniteSet(Taken(S))
<1> DEFINE T == {c \in S : c.lock \in Taken(S)}
           f == [c \in T |-> c.lock]
<1>1. IsFiniteSet(T)
  BY FS_Subset
<1>2. \A l \in Taken(S) : \E c \in T : c.lock = l
  BY DEF Taken
<1>3. f \in Surjection(T, Taken(S))
  BY <1>2 DEF Surjection
<1> QED
  BY <1>1, <1>3, FS_Surjection DEF Taken

LEMMA ComposeKeeps ==
    ASSUME ContentInv, NEW sections \in SectionSets, NEW b \in Budgets \cup {NoBudget},
           Compose(sections, b)
    PROVE  ContentInv'
<1> DEFINE ms == Dropped(history)
           native == NativeTools(ms, NativeCap)
           frontier == Unresolved(ms)
           thread == UserThread(ms)
<1>1. /\ ContentType /\ ConversationOK /\ LocksTold /\ ShownIsDropped
      /\ CycleBoundary > 1 /\ phase' = "composing" /\ budget' = b
      /\ synthetic' = Composed(LatestEnvelope(ms), native, frontier, thread, sections)
      /\ UNCHANGED <<history, held, shown>>
  BY DEF ContentInv, Compose
<1>2. /\ AllCalls(ms) \in SUBSET Calls /\ IsFiniteSet(AllCalls(ms))
      /\ \A c, d \in AllCalls(ms) : c.id = d.id => c = d
  <2>1. /\ AllCalls(ms) \in SUBSET Calls /\ \A c \in AllCalls(ms) : c.id <= MaxCalls
        /\ \A c, d \in AllCalls(ms) : c.id = d.id => c = d
    BY <1>1, CallsFacts, DroppedFacts
  <2> HIDE DEF ms
  <2> QED
    BY <2>1, CallsFinite
<1>3. DOMAIN ms \in SUBSET Nat /\ IsFiniteSet(DOMAIN ms)
  <2>1. /\ CycleBoundary \in 1 .. Len(history) /\ Len(history) \in Nat
        /\ DOMAIN ms = 1 .. CycleBoundary - 1
    BY <1>1, DroppedFacts
  <2>2. CycleBoundary - 1 \in Int
    BY <2>1
  <2> HIDE DEF ms
  <2>3. IsFiniteSet(1 .. CycleBoundary - 1)
    BY <2>2, FS_Interval
  <2> QED
    BY <2>1, <2>2, <2>3
<1> HIDE DEF ms
<1>4. /\ Summary(ms) \in SUBSET [call : Calls, status : Statuses]
      /\ IsFiniteSet(Summary(ms))
      /\ WithStatus(Summary(ms), "ok") \in SUBSET AllCalls(ms)
      /\ WithStatus(Summary(ms), "pending") \in SUBSET AllCalls(ms)
  BY <1>2, SummaryFacts DEF Statuses
<1>5. native \in SUBSET [call : Calls, status : Statuses] /\ Cardinality(native) \in Nat
  <2>1. native \in SUBSET Summary(ms)
    BY DEF NativeTools
  <2> QED
    BY <1>4, <2>1, FS_Subset, FS_CardinalityType
<1>6. /\ frontier \in [inFlight : SUBSET Calls, monitors : SUBSET Calls, locks : SUBSET Locks]
      /\ Count(frontier) \in Nat
  <2> DEFINE ok == WithStatus(Summary(ms), "ok")
             pending == WithStatus(Summary(ms), "pending")
  <2>1. IsFiniteSet(ok) /\ IsFiniteSet(pending) /\ ok \in SUBSET Calls /\ pending \in SUBSET Calls
    BY <1>2, <1>4, FS_Subset
  <2> HIDE DEF ok, pending
  <2>2. /\ frontier.inFlight = pending /\ frontier.monitors = {c \in ok : c.kind = "monitor"}
        /\ frontier.locks = Taken(ok)
        /\ frontier = [inFlight |-> frontier.inFlight, monitors |-> frontier.monitors,
                        locks |-> frontier.locks]
    BY DEF Unresolved, InFlight, ArmedMonitors, HeldLocks, ok, pending
  <2>3. frontier.monitors \in SUBSET ok
    BY <2>2
  <2> HIDE DEF frontier
  <2>4. frontier.locks \in SUBSET Locks /\ IsFiniteSet(frontier.locks)
    BY <2>1, <2>2, TakenFinite
  <2>5. IsFiniteSet(frontier.monitors)
    BY <2>1, <2>3, FS_Subset
  <2>6. /\ Cardinality(frontier.inFlight) \in Nat /\ Cardinality(frontier.monitors) \in Nat
        /\ Cardinality(frontier.locks) \in Nat
    BY <2>1, <2>2, <2>4, <2>5, FS_CardinalityType
  <2>7. Count(frontier) \in Nat
    BY <2>6 DEF Count
  <2>8. /\ frontier.inFlight \in SUBSET Calls /\ frontier.monitors \in SUBSET Calls
    BY <2>1, <2>2, <2>3
  <2> QED
    BY <2>2, <2>4, <2>7, <2>8
<1>7. thread \in SUBSET Nat /\ Cardinality(thread) \in Nat
  <2>1. thread \in SUBSET DOMAIN ms
    BY DEF UserThread, NewestOf
  <2> QED
    BY <1>3, <2>1, FS_Subset, FS_CardinalityType
<1>8. sections \in SUBSET SectionNames /\ SectionBytes(sections) \in Nat
  BY ContentAssumption DEF SectionBytes, SectionNames
<1>9. LatestEnvelope(ms) \in Nat
  BY <1>1, LatestFacts DEF ms
<1> HIDE DEF native, frontier, thread
<1>10. /\ synthetic' \in Syntheses /\ synthetic'.elided = <<>>
       /\ synthetic'.envelope = LatestEnvelope(ms) /\ synthetic'.frontier = frontier
  <2>1. Cardinality(native) + Count(frontier) + Cardinality(thread) + SectionBytes(sections) \in Int
    BY <1>5, <1>6, <1>7, <1>8
  <2>2. <<>> \in Seq(SectionNames)
    OBVIOUS
  <2> QED
    BY <1>1, <1>5, <1>6, <1>7, <1>8, <1>9, <2>1, <2>2 DEF Composed, Syntheses
<1>11. ContentType'
  BY <1>1, <1>10, ContentAssumption DEF ContentType, NoBudget
<1>12. ConversationOK' /\ LocksTold' /\ ShownIsDropped'
  BY <1>1 DEF ConversationOK, LocksTold, ShownIsDropped, CycleBoundary
<1>13. ProjectionOK'
  BY <1>1, <1>10 DEF ProjectionOK, CycleBoundary, ms, frontier
<1>14. ElisionOK'
  BY <1>1, <1>10 DEF ElisionOK
<1> QED
  BY <1>11, <1>12, <1>13, <1>14 DEF ContentInv

LEMMA ElideKeeps == ContentInv /\ Elide => ContentInv'
<1> SUFFICES ASSUME ContentInv, Elide PROVE ContentInv'
  OBVIOUS
<1> DEFINE z == NextElided
           k == Len(synthetic.elided)
           e2 == Append(synthetic.elided, z)
<1>1. /\ ContentType /\ phase = "composing" /\ OverBudget /\ synthetic \in Syntheses
      /\ synthetic' = [synthetic EXCEPT !.sections = @ \ {z}, !.elided = Append(@, z),
                                        !.size = @ - SectionSize[z]]
      /\ UNCHANGED <<history, held, phase, budget, shown>>
  BY DEF ContentInv, ContentType, Elide
<1>2. /\ synthetic.sections \in SUBSET SectionNames /\ synthetic.sections # {}
      /\ synthetic.elided \in Seq(SectionNames) /\ synthetic.size \in Int
      /\ SectionNames = {"templates", "tail", "digests"}
      /\ \A s \in SectionNames : SectionSize[s] \in Nat
  BY <1>1, ContentAssumption DEF Elide, Syntheses, SectionNames
<1>3. /\ z \in synthetic.sections
      /\ \A t \in synthetic.sections : ElisionOrder[z] <= ElisionOrder[t]
  <2>1. \E s \in synthetic.sections :
            \A t \in synthetic.sections : ElisionOrder[s] <= ElisionOrder[t]
    <3>1. CASE "templates" \in synthetic.sections
      BY <1>2, <3>1 DEF ElisionOrder
    <3>2. CASE "templates" \notin synthetic.sections /\ "tail" \in synthetic.sections
      BY <1>2, <3>2 DEF ElisionOrder
    <3>3. CASE "templates" \notin synthetic.sections /\ "tail" \notin synthetic.sections
      BY <1>2, <3>3 DEF ElisionOrder
    <3> QED
      BY <3>1, <3>2, <3>3
  <2> QED
    BY <2>1 DEF NextElided
<1> HIDE DEF z
<1>4. \A s, t \in SectionNames : s # t => ElisionOrder[s] # ElisionOrder[t]
  BY <1>2 DEF ElisionOrder
<1>5. \A s \in SectionNames : ElisionOrder[s] \in Nat
  BY <1>2 DEF ElisionOrder
<1>6. \A t \in synthetic.sections \ {z} : ElisionOrder[z] < ElisionOrder[t]
  <2> SUFFICES ASSUME NEW t \in synthetic.sections \ {z} PROVE ElisionOrder[z] < ElisionOrder[t]
    OBVIOUS
  <2>1. /\ ElisionOrder[z] <= ElisionOrder[t] /\ ElisionOrder[z] # ElisionOrder[t]
        /\ ElisionOrder[z] \in Nat /\ ElisionOrder[t] \in Nat
    BY <1>2, <1>3, <1>4, <1>5
  <2> QED
    BY <2>1
<1>7. /\ e2 \in Seq(SectionNames) /\ Len(e2) = k + 1 /\ k \in Nat /\ DOMAIN e2 = 1 .. k + 1
      /\ DOMAIN synthetic.elided = 1 .. k
      /\ \A i \in 1 .. k : e2[i] = synthetic.elided[i]
      /\ e2[k + 1] = z
  BY <1>2, <1>3, AppendProperties
<1>8. /\ synthetic'.sections = synthetic.sections \ {z} /\ synthetic'.elided = e2
      /\ synthetic'.size = synthetic.size - SectionSize[z]
      /\ synthetic'.envelope = synthetic.envelope /\ synthetic'.frontier = synthetic.frontier
  BY <1>1 DEF Syntheses
<1>9. synthetic' \in Syntheses
  <2>1. synthetic.size - SectionSize[z] \in Int
    BY <1>2, <1>3
  <2>2. /\ synthetic.sections \ {z} \in SUBSET SectionNames /\ e2 \in Seq(SectionNames)
    BY <1>2, <1>7
  <2> HIDE DEF e2
  <2>3. synthetic' = [synthetic EXCEPT !.sections = synthetic.sections \ {z}, !.elided = e2,
                                       !.size = synthetic.size - SectionSize[z]]
    BY <1>1 DEF e2
  <2> QED
    BY <1>1, <2>1, <2>2, <2>3 DEF Syntheses
<1> HIDE DEF e2, k
<1>10. ContentType' /\ ConversationOK' /\ LocksTold' /\ ShownIsDropped'
  BY <1>1, <1>9
     DEF ContentInv, ContentType, ConversationOK, LocksTold, ShownIsDropped, CycleBoundary
<1>11. ProjectionOK'
  BY <1>1, <1>8 DEF ContentInv, ProjectionOK, CycleBoundary
<1>12. ElisionOK'
  <2>1. synthetic'.size + SectionSize[Last(e2)] > budget'
    <3>1. Last(e2) = z
      BY <1>7 DEF Last
    <3>2. synthetic.size > budget /\ SectionSize[z] \in Nat
      BY <1>1, <1>2, <1>3 DEF OverBudget
    <3> QED
      BY <1>1, <1>2, <1>8, <3>1, <3>2
  <2>2. \A i \in 1 .. k + 1 : i \in 1 .. k \/ i = k + 1
    BY <1>7
  <2>3. \A i \in 1 .. k, s \in synthetic.sections : ElisionOrder[e2[i]] < ElisionOrder[s]
    BY <1>1, <1>7 DEF ContentInv, ElisionOK
  <2>4. \A i, j \in 1 .. k : i < j => ElisionOrder[e2[i]] < ElisionOrder[e2[j]]
    BY <1>1, <1>7 DEF ContentInv, ElisionOK
  <2>5. \A i \in 1 .. k + 1, s \in synthetic.sections \ {z} : ElisionOrder[e2[i]] < ElisionOrder[s]
    BY <1>6, <1>7, <2>2, <2>3
  <2>6. ASSUME NEW i \in 1 .. k + 1, NEW j \in 1 .. k + 1, i < j
        PROVE  ElisionOrder[e2[i]] < ElisionOrder[e2[j]]
    <3>1. i \in 1 .. k
      BY <1>7, <2>6
    <3>2. CASE j = k + 1
      BY <1>3, <1>7, <2>3, <3>1, <3>2
    <3>3. CASE j \in 1 .. k
      BY <2>4, <2>6, <3>1, <3>3
    <3> QED
      BY <2>2, <3>2, <3>3
  <2> QED
    BY <1>1, <1>7, <1>8, <2>1, <2>5, <2>6 DEF ElisionOK
<1> QED
  BY <1>10, <1>11, <1>12 DEF ContentInv

LEMMA ContentStart == ContentInit => ContentInv
<1> SUFFICES ASSUME ContentInit PROVE ContentInv
  OBVIOUS
<1>1. /\ history = <<User(TRUE, {}, NoEnvelope)>> /\ held = {} /\ phase = "harness"
      /\ synthetic = Empty /\ budget = NoBudget /\ shown = NoEnvelope
  BY DEF ContentInit
<1>2. /\ Len(history) = 1 /\ DOMAIN history = 1 .. 1 /\ history \in Seq(Turns) /\ history # <<>>
      /\ history[1] = User(TRUE, {}, NoEnvelope)
  <2>1. User(TRUE, {}, NoEnvelope) \in Turns
    BY DEF User, Turns, NoEnvelope
  <2>2. PICK t : t = User(TRUE, {}, NoEnvelope)
    OBVIOUS
  <2>3. history = <<t>> /\ t \in Turns
    BY <1>1, <2>1, <2>2
  <2>4. Len(<<t>>) = 1 /\ <<t>>[1] = t
    OBVIOUS
  <2>5. <<t>> \in Seq(Turns)
    BY <2>3
  <2>6. DOMAIN <<t>> = 1 .. 1 /\ <<t>> # <<>>
    OBVIOUS
  <2> QED
    BY <2>2, <2>3, <2>4, <2>5, <2>6
<1>3. Empty \in Syntheses
  <2>1. Cardinality({}) = 0
    BY FS_EmptySet
  <2>2. SectionBytes({}) = 0
    BY DEF SectionBytes
  <2>3. Count([inFlight |-> {}, monitors |-> {}, locks |-> {}]) = 0
    BY <2>1 DEF Count
  <2>4. <<>> \in Seq(SectionNames)
    OBVIOUS
  <2> QED
    BY <2>1, <2>2, <2>3, <2>4 DEF Empty, Composed, Syntheses, NoEnvelope
<1>4. ContentType
  <2>1. budget \in Int /\ shown \in Nat /\ held \subseteq Locks
    BY <1>1 DEF NoBudget, NoEnvelope
  <2> QED
    BY <1>1, <1>2, <1>3, <2>1 DEF ContentType
<1>5. ConversationOK
  BY <1>2 DEF ConversationOK, IsRealUserMessage, User, NoEnvelope
<1>6. LocksTold
  <2>1. PastCalls(history) = {}
    BY <1>2 DEF PastCalls
  <2> QED
    BY <1>1, <2>1 DEF LocksTold, Told, Taken, DoneCalls
<1> QED
  BY <1>1, <1>4, <1>5, <1>6 DEF ContentInv, ProjectionOK, ElisionOK, ShownIsDropped

LEMMA ContentStep == ContentInv /\ [ContentNext]_contentVars => ContentInv'
<1> SUFFICES ASSUME ContentInv, [ContentNext]_contentVars PROVE ContentInv'
  OBVIOUS
<1>1. ASSUME NEW k \in 0 .. MaxCalls, NEW acts \in [1 .. k -> Actions], ModelCalls(acts)
      PROVE  ContentInv'
  <2>1. k \in Nat
    OBVIOUS
  <2> QED
    BY <1>1, <2>1, ModelCallsKeeps
<1>2. ASSUME NEW done \in SUBSET (1 .. MaxCalls), NEW answered \in SUBSET (1 .. MaxCalls),
             NEW text \in BOOLEAN, NEW env \in {NoEnvelope, Len(history) + 1},
             Answer(done, answered, text, env)
      PROVE  ContentInv'
  BY <1>2, AnswerKeeps
<1>3. ASSUME NEW sections \in SectionSets, NEW b \in Budgets \cup {NoBudget}, Compose(sections, b)
      PROVE  ContentInv'
  BY <1>3, ComposeKeeps
<1>4. ASSUME Emit PROVE ContentInv'
  <2>1. /\ ContentType /\ ConversationOK /\ LocksTold /\ ProjectionOK /\ ElisionOK
        /\ phase = "composing" /\ phase' = "composed" /\ shown' = synthetic.envelope
        /\ ~OverBudget \/ synthetic.sections = {}
        /\ UNCHANGED <<history, held, synthetic, budget>>
    BY <1>4 DEF ContentInv, Emit
  <2>2. ContentType' /\ ConversationOK' /\ LocksTold' /\ ProjectionOK'
    BY <2>1 DEF ContentType, Syntheses, ConversationOK, LocksTold, ProjectionOK, CycleBoundary
  <2>3. ElisionOK'
    BY <2>1 DEF ElisionOK, OverBudget
  <2>4. ShownIsDropped'
    BY <2>1, LatestFacts DEF ShownIsDropped, ProjectionOK, CycleBoundary
  <2> QED
    BY <2>2, <2>3, <2>4 DEF ContentInv
<1>5. ASSUME Resume PROVE ContentInv'
  <2>1. Empty \in Syntheses
    <3>1. Cardinality({}) = 0 /\ SectionBytes({}) = 0
      BY FS_EmptySet DEF SectionBytes
    <3>2. Count([inFlight |-> {}, monitors |-> {}, locks |-> {}]) = 0
      BY <3>1 DEF Count
    <3>3. <<>> \in Seq(SectionNames)
      OBVIOUS
    <3> QED
      BY <3>1, <3>2, <3>3 DEF Empty, Composed, Syntheses, NoEnvelope
  <2>2. ContentType'
    BY <1>5, <2>1 DEF Resume, ContentInv, ContentType, NoBudget
  <2> QED
    BY <1>5, <2>2 DEF Resume, ContentInv, ConversationOK, LocksTold, ProjectionOK, ElisionOK,
                      ShownIsDropped, CycleBoundary
<1>6. ASSUME UNCHANGED contentVars PROVE ContentInv'
  BY <1>6 DEF contentVars, ContentInv, ContentType, ConversationOK, LocksTold, ProjectionOK,
              ElisionOK, OverBudget, ShownIsDropped, CycleBoundary
<1> QED
  BY <1>1, <1>2, <1>3, <1>4, <1>5, <1>6, ElideKeeps DEF ContentNext

(* Conversation, locks, projection and elision stay as described above,    *)
(* however the harness, the kernel and the requests interleave.            *)
THEOREM ContentInvariant == ContentSpec => []ContentInv
BY ContentStart, ContentStep, PTL DEF ContentSpec

(* What a request tells of the locks is what the kernel holds, up to the   *)
(* calls it tells to be in flight: none given is lost to the paging of the *)
(* summary and none taken back is told as held (rebuild.rs 1262-1347).     *)
THEOREM LocksAreTold == ContentSpec => []FrontierTellsLocks
<1>1. ContentInv => FrontierTellsLocks
  <2> SUFFICES ASSUME ContentInv, phase = "composed", history[CycleBoundary].results = {},
                      CycleBoundary = Len(history)
               PROVE  LET f == synthetic.frontier
                      IN /\ held \subseteq f.locks \cup LocksOf(f.inFlight, "create")
                         /\ f.locks \subseteq held \cup LocksOf(f.inFlight, "release")
    BY DEF FrontierTellsLocks
  <2> DEFINE ms == Dropped(history)
             n == Len(history)
  <2>1. /\ ContentType /\ ConversationOK /\ LocksTold /\ synthetic.frontier = Unresolved(ms)
        /\ n \in 1 .. n /\ n \in Nat /\ DOMAIN history = 1 .. n /\ history[n].results = {}
        /\ DOMAIN ms = 1 .. n - 1 /\ \A i \in 1 .. n - 1 : ms[i] = history[i]
    BY DroppedFacts DEF ContentInv, ProjectionOK, ContentType
  <2> HIDE DEF ms, n
  <2>2. AllCalls(ms) = PastCalls(history)
    <3>1. {j \in DOMAIN history : j < Len(history)} = 1 .. n - 1
      BY <2>1 DEF n
    <3> QED
      BY <2>1, <3>1 DEF AllCalls, PastCalls
  <2>3. AllResults(ms) = AllResults(history)
    <3>1. \A i \in 1 .. n : i \in 1 .. n - 1 \/ i = n
      BY <2>1
    <3>2. \A i \in 1 .. n - 1 : i \in 1 .. n
      BY <2>1
    <3> QED
      BY <2>1, <3>1, <3>2 DEF AllResults
  <2>4. \A st : WithStatus(Summary(ms), st) =
                   {c \in PastCalls(history) : Status(c, AllResults(history)) = st}
    BY <2>2, <2>3, StatusSplits
  <2>5. WithStatus(Summary(ms), "ok") = DoneCalls(history)
    <3>1. \A c : Status(c, AllResults(history)) = "ok" <=>
                     \E r \in AllResults(history) : r.id = c.id /\ r.ok
      BY DEF Status
    <3> QED
      BY <2>4, <3>1 DEF DoneCalls
  <2>7. WithStatus(Summary(ms), "pending") = OpenCalls(history)
    <3>1. \A c : Status(c, AllResults(history)) = "pending" <=>
                     ~\E r \in AllResults(history) : r.id = c.id
      BY DEF Status
    <3> QED
      BY <2>4, <3>1 DEF OpenCalls
  <2>6. /\ synthetic.frontier.locks = Taken(DoneCalls(history))
        /\ synthetic.frontier.inFlight = OpenCalls(history)
    BY <2>1, <2>5, <2>7 DEF Unresolved, HeldLocks, InFlight
  <2> QED
    BY <2>1, <2>6 DEF LocksTold, Told
<1> QED
  BY <1>1, ContentInvariant, PTL

(* A dropped call is answered in the history or told as in flight, however *)
(* small max_native_tool_summary is (rebuild.rs 1140-1260).                *)
THEOREM PendingIsTold == ContentSpec => []NothingPendingForgotten
<1>1. ContentInv => NothingPendingForgotten
  <2> SUFFICES ASSUME ContentInv, phase = "composed", NEW c \in AllCalls(Dropped(history)),
                      ~\E r \in AllResults(history) : r.id = c.id
               PROVE  c \in synthetic.frontier.inFlight
    BY DEF NothingPendingForgotten
  <2>1. synthetic.frontier = Unresolved(Dropped(history))
    BY DEF ContentInv, ProjectionOK
  <2>2. Status(c, AllResults(Dropped(history))) = "pending"
    BY DroppedFacts DEF ContentInv, Status
  <2>3. [call |-> c, status |-> "pending"] \in Summary(Dropped(history))
    BY <2>2 DEF Summary
  <2> QED
    BY <2>1, <2>3 DEF Unresolved, InFlight, WithStatus
<1> QED
  BY <1>1, ContentInvariant, PTL

(* The elision loop stops as soon as the budget is met, never drops the    *)
(* core and goes by the fixed order (rebuild.rs 1525-1615).                *)
THEOREM ElidesTheLeast == ContentSpec => []ElisionIsMinimal
<1>1. ContentInv => ElisionIsMinimal
  <2> SUFFICES ASSUME ContentInv, phase = "composed", budget # NoBudget
               PROVE  ElisionIsMinimal
    BY DEF ElisionIsMinimal
  <2>1. synthetic.size \in Int /\ budget \in Int
    BY DEF ContentInv, ContentType, Syntheses
  <2> QED
    BY <2>1 DEF ContentInv, ElisionOK, ElisionIsMinimal, OverBudget
<1> QED
  BY <1>1, ContentInvariant, PTL

(* No request shows an older envelope than the request before it did       *)
(* (extract_latest_envelope, rebuild.rs 1028-1108).                        *)
THEOREM EnvelopeOnlyAdvances == ContentSpec => EnvelopeNeverGoesBack
<1>1. ContentInv /\ [ContentNext]_contentVars => [shown' >= shown]_contentVars
  <2> SUFFICES ASSUME ContentInv, ContentNext PROVE shown' >= shown
    OBVIOUS
  <2>1. shown \in Nat
    BY DEF ContentInv, ContentType
  <2>2. ASSUME Emit PROVE shown' >= shown
    <3>1. /\ shown' = LatestEnvelope(Dropped(history)) /\ shown' \in Nat
          /\ \A i \in 1 .. CycleBoundary - 1 : history[i].envelope <= shown'
      BY <2>2, LatestFacts DEF Emit, ContentInv, ProjectionOK
    <3>2. shown # NoEnvelope => \E i \in 1 .. CycleBoundary - 1 : history[i].envelope = shown
      BY DEF ContentInv, ShownIsDropped
    <3> QED
      BY <2>1, <3>1, <3>2 DEF NoEnvelope
  <2>3. ASSUME shown' = shown PROVE shown' >= shown
    BY <2>1, <2>3
  <2> QED
    BY <2>2, <2>3 DEF ContentNext, ModelCalls, Answer, Compose, Elide, Resume
<1> QED
  BY <1>1, ContentInvariant, PTL DEF ContentSpec, EnvelopeNeverGoesBack

-----------------------------------------------------------------------------
(* Where the sections come from.                                           *)

Fields == DOMAIN Idle

(* A request is a record of Idle's fields; while a daemon is asked its     *)
(* candidate exists, and nothing has been taken from a daemon yet; nor     *)
(* from a transcript before it is read.                                    *)
RequestOK(r) ==
    /\ DOMAIN r = Fields
    /\ r.pc = "fetch" =>
           /\ r.mode = "rebuild_kernel" /\ r.envelope = NoSocket /\ r.templates = NoSocket
           /\ r.cand \in DOMAIN FetchCandidates
    /\ r.pc = "templates" =>
           /\ r.mode = "rebuild_kernel" /\ r.envelope # NoSocket
           /\ r.cand \in DOMAIN TemplateCandidates
    /\ r.pc \in {"digests", "transcript", "thread", "sent"} =>
           /\ (r.mode = "rebuild_kernel") <=> (r.envelope # NoSocket)
           /\ r.templates # NoSocket => r.envelope # NoSocket
    /\ r.pc \notin {"thread", "sent"} => r.tail = <<>> /\ r.prior = <<>>
    /\ r.pc \in {"idle", "fetch", "templates", "digests", "transcript", "thread", "sent"}

SourcesInv ==
    /\ DOMAIN req = Seats
    /\ \A s \in Seats : RequestOK(req[s])

LEMMA CandidatesAreSockets ==
    /\ FetchCandidates \in Seq(Sockets) /\ TemplateCandidates \in Seq(Sockets)
    /\ \A i \in DOMAIN FetchCandidates : FetchCandidates[i] # NoSocket
BY SourcesAssumption DEF FetchCandidates, TemplateCandidates

LEMMA SourcesInit == Init => SourcesInv
BY DEF Init, SourcesInv, RequestOK, Idle, Fields

LEMMA SourcesStep == SourcesInv /\ [Next]_vars => SourcesInv'
<1> SUFFICES ASSUME SourcesInv, [Next]_vars PROVE SourcesInv'
  OBVIOUS
<1>1. ASSUME NEW s \in Seats, Flush(s) PROVE SourcesInv'
  BY <1>1 DEF Flush, SourcesInv
<1>2. ASSUME NEW s \in Seats, Arrive(s) PROVE SourcesInv'
  <2>1. RequestOK(req'[s]) /\ DOMAIN req' = Seats
    BY <1>2, CandidatesAreSockets DEF Arrive, SourcesInv, RequestOK, Idle, Fields
  <2> QED
    BY <1>2, <2>1 DEF Arrive, SourcesInv
<1>3. ASSUME NEW s \in Seats, NEW o \in Outcomes, Fetch(s, o) PROVE SourcesInv'
  <2>1. RequestOK(req'[s]) /\ DOMAIN req' = Seats
    BY <1>3, CandidatesAreSockets DEF Fetch, FetchFailed, SourcesInv, RequestOK, Idle, Fields
  <2> QED
    BY <1>3, <2>1 DEF Fetch, SourcesInv
<1>4. ASSUME NEW s \in Seats, NEW o \in Outcomes, FetchTemplates(s, o) PROVE SourcesInv'
  <2>1. RequestOK(req'[s]) /\ DOMAIN req' = Seats
    BY <1>4, CandidatesAreSockets DEF FetchTemplates, SourcesInv, RequestOK, Idle, Fields
  <2> QED
    BY <1>4, <2>1 DEF FetchTemplates, SourcesInv
<1>5. ASSUME NEW s \in Seats, ReadDigests(s) PROVE SourcesInv'
  <2>1. RequestOK(req'[s]) /\ DOMAIN req' = Seats
    BY <1>5 DEF ReadDigests, SourcesInv, RequestOK, Idle, Fields
  <2> QED
    BY <1>5, <2>1 DEF ReadDigests, SourcesInv
<1>6. ASSUME NEW s \in Seats, ReadTail(s) PROVE SourcesInv'
  <2>0. req[s].pc = "transcript" /\ RequestOK(req[s]) /\ DOMAIN req = Seats
    BY <1>6 DEF ReadTail, SourcesInv
  <2>1. RequestOK(req'[s]) /\ DOMAIN req' = Seats
    <3>1. CASE req' = [req EXCEPT ![s].pc = "sent"]
      BY <2>0, <3>1 DEF RequestOK, Idle, Fields
    <3>2. ASSUME NEW f, NEW x, req' = [req EXCEPT ![s].from = f, ![s].tail = x, ![s].pc = "thread"]
          PROVE  RequestOK(req'[s]) /\ DOMAIN req' = Seats
      BY <2>0, <3>2 DEF RequestOK, Idle, Fields
    <3> QED
      BY <1>6, <3>1, <3>2 DEF ReadTail
  <2> QED
    BY <1>6, <2>1 DEF ReadTail, SourcesInv
<1>6a. ASSUME NEW s \in Seats, ReadThread(s) PROVE SourcesInv'
  <2>1. RequestOK(req'[s]) /\ DOMAIN req' = Seats
    BY <1>6a DEF ReadThread, SourcesInv, RequestOK, Idle, Fields
  <2> QED
    BY <1>6a, <2>1 DEF ReadThread, SourcesInv
<1>7. ASSUME NEW s \in Seats, req' = [req EXCEPT ![s] = Idle] PROVE SourcesInv'
  BY <1>7 DEF SourcesInv, RequestOK, Idle, Fields
<1>8. CASE Restart
  BY <1>8 DEF Restart, SourcesInv, RequestOK, Idle, Fields
<1>9. CASE UNCHANGED vars
  BY <1>9 DEF vars, SourcesInv
<1> QED
  BY <1>1, <1>2, <1>3, <1>4, <1>5, <1>6, <1>6a, <1>7, <1>8, <1>9
     DEF Next, Prelude, Harvest, NoDigest, TornHarvest

(* The mode a request is logged under says whether a daemon answered it,   *)
(* and no section is a daemon's when none gave an envelope.                *)
THEOREM ModeTruthful == Spec => []ModeIsTruthful
<1>1. SourcesInv => ModeIsTruthful
  BY DEF SourcesInv, RequestOK, ModeIsTruthful
<1> QED
  BY SourcesInit, SourcesStep, <1>1, PTL DEF Spec
-----------------------------------------------------------------------------
(***************************************************************************)
(* A transcript never holds more than the turns that were made and only    *)
(* grows, and the turns of a seat stand still while its request is under   *)
(* way: that is what makes dropping the last one enough, and what lets the *)
(* second read of a transcript complete the first.                         *)
(***************************************************************************)
(* Between the reads: all the section tells but its last turn is in the    *)
(* part of the file that the thread will keep.                             *)
TailOK(r) ==
    r.pc = "thread" =>
        /\ r.from \in Seats
        /\ \A i \in DOMAIN r.tail :
               /\ r.tail[i][1] = r.from
               /\ i < Len(r.tail) =>
                      \E k \in 1 .. (flushed[r.from] - 1) : r.tail[i] = <<r.from, k>>

ToldOK(r, s) ==
    r.pc = "sent" =>
        /\ <<s, turns[s]>> \notin ToSet(r.prior)
        /\ \A i \in DOMAIN r.tail : \A t \in ToSet(r.prior) : t[1] = r.tail[i][1]
        /\ \A i \in DOMAIN r.tail : i < Len(r.tail) => r.tail[i] \in ToSet(r.prior)

TurnsInv ==
    /\ turns \in [Seats -> Nat] /\ flushed \in [Seats -> Nat]
    /\ \A s \in Seats : flushed[s] <= turns[s]
    /\ \A s \in Seats : TailOK(req[s]) /\ ToldOK(req[s], s)

(* The thread of a transcript is all of it but its last turn, and so is    *)
(* older than its seat's newest.                                           *)
LEMMA PriorIsOlder ==
    ASSUME TurnsInv, NEW s \in Seats, NEW f \in Seats
    PROVE  /\ <<s, turns[s]>> \notin ToSet(PriorTurns(f))
           /\ \A t \in ToSet(PriorTurns(f)) : t[1] = f
           /\ \A k \in 1 .. (flushed[f] - 1) : <<f, k>> \in ToSet(PriorTurns(f))
<1> DEFINE n == flushed[f]
           m == Max({0, n - 1})
<1>1. n \in Nat /\ n <= turns[f] /\ turns[f] \in Nat
  BY DEF TurnsInv
<1>2. \E x \in {0, n - 1} : \A y \in {0, n - 1} : x >= y
  BY <1>1
<1>3. m \in {0, n - 1} /\ \A y \in {0, n - 1} : m >= y
  BY <1>2 DEF Max
<1>4. m \in Int /\ m <= n /\ (m = 0 \/ m < n) /\ n - 1 <= m
  BY <1>1, <1>3
<1>5. ToSet(PriorTurns(f)) = {<<f, i>> : i \in 1 .. m}
  BY DEF PriorTurns, ToSet
<1>6. (\A i \in 1 .. m : i # turns[f]) /\ \A k \in 1 .. (n - 1) : k \in 1 .. m
  BY <1>1, <1>4
<1> HIDE DEF m
<1> QED
  BY <1>5, <1>6

LEMMA TurnsInit == Init => TurnsInv
BY DEF Init, TurnsInv, TailOK, ToldOK, Idle

(* A step that leaves the harness alone and one request in order.          *)
LEMMA TurnsOfOneSeat ==
    ASSUME SourcesInv, TurnsInv, UNCHANGED harness, NEW s \in Seats, NEW r,
           req' = [req EXCEPT ![s] = r], TailOK(r), ToldOK(r, s)
    PROVE  TurnsInv'
<1>1. \A t \in Seats : (t = s /\ req'[t] = r) \/ req'[t] = req[t]
  BY DEF SourcesInv
<1>2. \A t \in Seats : TailOK(req'[t]) /\ ToldOK(req'[t], t)
  BY <1>1 DEF TurnsInv
<1>3. \A t \in Seats : TailOK(req[t])' /\ ToldOK(req[t], t)'
  BY <1>2 DEF TailOK, ToldOK, harness
<1> QED
  BY <1>3 DEF TurnsInv, harness

LEMMA TurnsStep == SourcesInv /\ TurnsInv /\ [Next]_vars => TurnsInv'
<1> SUFFICES ASSUME SourcesInv, TurnsInv, [Next]_vars PROVE TurnsInv'
  OBVIOUS
<1>0. DOMAIN req = Seats /\ \A s \in Seats : DOMAIN req[s] = Fields
  BY DEF SourcesInv, RequestOK
<1>1. ASSUME NEW s \in Seats, Flush(s) PROVE TurnsInv'
  <2>1. /\ flushed' \in [Seats -> Nat] /\ UNCHANGED <<turns, req>>
        /\ \A t \in Seats : flushed[t] <= flushed'[t] /\ flushed'[t] <= turns[t]
    BY <1>1 DEF Flush, TurnsInv
  <2>2. ASSUME NEW t \in Seats PROVE TailOK(req[t])'
    <3> DEFINE r == req[t]
    <3>1. SUFFICES ASSUME r.pc = "thread", NEW i \in DOMAIN r.tail, i < Len(r.tail)
                   PROVE  \E k \in 1 .. (flushed'[r.from] - 1) : r.tail[i] = <<r.from, k>>
      BY <2>1 DEF TurnsInv, TailOK
    <3>2. PICK k \in 1 .. (flushed[r.from] - 1) : r.tail[i] = <<r.from, k>>
      BY <3>1 DEF TurnsInv, TailOK
    <3>3. flushed[r.from] \in Nat /\ flushed'[r.from] \in Nat /\ flushed[r.from] <= flushed'[r.from]
      BY <2>1, <3>1 DEF TurnsInv, TailOK
    <3>4. k \in 1 .. (flushed'[r.from] - 1)
      BY <3>2, <3>3
    <3> QED
      BY <3>2, <3>4
  <2>3. \A t \in Seats : ToldOK(req[t], t)'
    BY <2>1 DEF TurnsInv, ToldOK
  <2> QED
    BY <2>1, <2>2, <2>3 DEF TurnsInv
<1>2. ASSUME NEW s \in Seats, Arrive(s) PROVE TurnsInv'
  <2>1. /\ turns' \in [Seats -> Nat] /\ flushed' = flushed
        /\ \A t \in Seats : turns[t] <= turns'[t] /\ (t # s => turns'[t] = turns[t])
    BY <1>2 DEF Arrive, TurnsInv
  <2>2. \A t \in Seats : req'[t].pc \in {"sent", "thread"} => t # s /\ req'[t] = req[t]
    BY <1>0, <1>2 DEF Arrive, Idle
  <2>3. ASSUME NEW t \in Seats PROVE TailOK(req[t])' /\ ToldOK(req[t], t)'
    <3>1. CASE req'[t].pc \in {"sent", "thread"}
      <4>1. req'[t] = req[t] /\ turns'[t] = turns[t] /\ TailOK(req[t]) /\ ToldOK(req[t], t)
        BY <2>1, <2>2, <3>1 DEF TurnsInv
      <4>2. PICK r : r = req[t]
        OBVIOUS
      <4>3. TailOK(r)' /\ ToldOK(r, t)'
        BY <2>1, <4>1, <4>2 DEF TailOK, ToldOK
      <4> QED
        BY <4>1, <4>2, <4>3 DEF TailOK, ToldOK
    <3>2. CASE req'[t].pc \notin {"sent", "thread"}
      BY <3>2 DEF TailOK, ToldOK
    <3> QED
      BY <3>1, <3>2
  <2> QED
    BY <2>1, <2>3 DEF TurnsInv
<1>3. ASSUME NEW s \in Seats, UNCHANGED harness, NEW r, req' = [req EXCEPT ![s] = r],
             r.pc \notin {"thread", "sent"}
      PROVE  TurnsInv'
  BY <1>3, TurnsOfOneSeat DEF TailOK, ToldOK
<1>4. ASSUME NEW s \in Seats,
             \/ \E o \in Outcomes : Fetch(s, o)
             \/ \E o \in Outcomes : FetchTemplates(s, o)
             \/ ReadDigests(s)
      PROVE  TurnsInv'
  <2>1. PICK r : r = req'[s]
    OBVIOUS
  <2>2. UNCHANGED harness /\ req' = [req EXCEPT ![s] = r]
    BY <1>0, <1>4, <2>1 DEF Fetch, FetchTemplates, ReadDigests
  <2>3. r.pc \notin {"thread", "sent"}
    <3>1. CASE \E o \in Outcomes : Fetch(s, o)
      BY <1>0, <2>1, <3>1 DEF Fetch, FetchFailed, Fields, Idle
    <3>2. CASE \E o \in Outcomes : FetchTemplates(s, o)
      BY <1>0, <2>1, <3>2 DEF FetchTemplates, Fields, Idle
    <3>3. CASE ReadDigests(s)
      BY <1>0, <2>1, <3>3 DEF ReadDigests, Fields, Idle
    <3> QED
      BY <1>4, <3>1, <3>2, <3>3
  <2> QED
    BY <1>3, <2>2, <2>3
<1>6. ASSUME NEW s \in Seats, ReadTail(s) PROVE TurnsInv'
  <2>1. CASE recent = <<>>
    <3>1. PICK r : r = [req[s] EXCEPT !.pc = "sent"]
      OBVIOUS
    <3>2. UNCHANGED harness /\ req' = [req EXCEPT ![s] = r]
      BY <1>6, <2>1, <3>1 DEF ReadTail
    <3>3. TailOK(r) /\ ToldOK(r, s)
      <4>1. r.pc = "sent" /\ r.tail = <<>> /\ r.prior = <<>>
        BY <1>0, <1>6, <3>1 DEF ReadTail, SourcesInv, RequestOK, Fields, Idle
      <4>2. DOMAIN r.tail = {} /\ ToSet(r.prior) = {}
        BY <4>1 DEF ToSet
      <4> QED
        BY <4>1, <4>2 DEF TailOK, ToldOK
    <3> QED
      BY <3>2, <3>3, TurnsOfOneSeat
  <2>2. CASE recent # <<>>
    <3>1. PICK f \in Seats : \E n \in 0 .. flushed[f] :
              req' = [req EXCEPT ![s].from = f, ![s].tail = TailTurns(f, n),
                                 ![s].pc = "thread"]
      BY <1>6, <2>2 DEF ReadTail
    <3>2. PICK n \in 0 .. flushed[f] :
              req' = [req EXCEPT ![s].from = f, ![s].tail = TailTurns(f, n),
                                 ![s].pc = "thread"]
      BY <3>1
    <3>3. PICK r : r = [req[s] EXCEPT !.from = f, !.tail = TailTurns(f, n), !.pc = "thread"]
      OBVIOUS
    <3>4. UNCHANGED harness /\ req' = [req EXCEPT ![s] = r]
      BY <1>0, <1>6, <3>2, <3>3 DEF ReadTail
    <3>5. r.pc = "thread" /\ r.from = f /\ r.tail = TailTurns(f, n)
      BY <1>0, <3>3 DEF Fields, Idle
    <3>6. flushed[f] \in Nat /\ n \in Nat /\ n <= flushed[f]
      BY DEF TurnsInv
    <3>7. /\ DOMAIN r.tail = 1 .. n /\ Len(r.tail) = n
          /\ \A i \in 1 .. n : r.tail[i] = <<f, flushed[f] - n + i>>
      BY <3>5, <3>6 DEF TailTurns
    <3>8. \A i \in 1 .. n : i < n => flushed[f] - n + i \in 1 .. (flushed[f] - 1)
      BY <3>6
    <3>9. TailOK(r) /\ ToldOK(r, s)
      BY <3>5, <3>7, <3>8 DEF TailOK, ToldOK
    <3> QED
      BY <3>4, <3>9, TurnsOfOneSeat
  <2> QED
    BY <2>1, <2>2
<1>6a. ASSUME NEW s \in Seats, ReadThread(s) PROVE TurnsInv'
  <2>1. PICK f : f = req[s].from
    OBVIOUS
  <2>2. PICK r : r = [req[s] EXCEPT !.prior = PriorTurns(f), !.pc = "sent"]
    OBVIOUS
  <2>3. UNCHANGED harness /\ req' = [req EXCEPT ![s] = r]
    BY <1>0, <1>6a, <2>1, <2>2 DEF ReadThread
  <2>4. r.pc = "sent" /\ r.prior = PriorTurns(f) /\ r.tail = req[s].tail
    BY <1>0, <2>2 DEF Fields, Idle
  <2>5. /\ f \in Seats
        /\ \A i \in DOMAIN r.tail :
               /\ r.tail[i][1] = f
               /\ i < Len(r.tail) => \E k \in 1 .. (flushed[f] - 1) : r.tail[i] = <<f, k>>
    BY <1>6a, <2>1, <2>4 DEF ReadThread, TurnsInv, TailOK
  <2>6. TailOK(r) /\ ToldOK(r, s)
    BY <2>4, <2>5, PriorIsOlder DEF TailOK, ToldOK
  <2> QED
    BY <2>3, <2>6, TurnsOfOneSeat
<1>7. ASSUME NEW s \in Seats, req' = [req EXCEPT ![s] = Idle], UNCHANGED harness
      PROVE  TurnsInv'
  <2>1. Idle.pc \notin {"thread", "sent"}
    BY DEF Idle
  <2> QED
    BY <1>3, <1>7, <2>1
<1>8. CASE Restart
  BY <1>8 DEF Restart, harness, Idle, TurnsInv, TailOK, ToldOK
<1>9. CASE UNCHANGED vars
  BY <1>9 DEF vars, TurnsInv, TailOK, ToldOK
<1> QED
  BY <1>1, <1>2, <1>4, <1>6, <1>6a, <1>7, <1>8, <1>9
     DEF Next, Prelude, Harvest, NoDigest, TornHarvest

(* However the harness writes between the two reads of a transcript, the   *)
(* thread never tells the turn in flight, is of the transcript the section *)
(* is of, and lacks at most the section's last turn (main.rs,              *)
(* transcript_tail.rs).                                                    *)
THEOREM ThreadCompletes == Spec => []ThreadCompletesTail
<1>1. TurnsInv => ThreadCompletesTail
  BY DEF TurnsInv, ToldOK, ThreadCompletesTail
<1> QED
  BY SourcesInit, SourcesStep, TurnsInit, TurnsStep, <1>1, PTL DEF Spec

-----------------------------------------------------------------------------
(***************************************************************************)
(* The digest file.  A seat appends a row only as its request ends, so no  *)
(* two rows of a seat are of the same turn; as long as none was cut short, *)
(* the file is what was harvested.                                         *)
(***************************************************************************)
DigestRows == [seat : Seats, turn : Nat, whole : BOOLEAN, utf8 : BOOLEAN]

RowsOK ==
    /\ tears \in Nat
    /\ file \in Seq(DigestRows) /\ (open => file # <<>>)
    /\ \A i \in DOMAIN file :
           LET s == file[i].seat
           IN file[i].turn <= turns[s] /\ (req[s].pc # "idle" => file[i].turn < turns[s])
    /\ \A i, j \in DOMAIN file :
           i < j /\ file[i].seat = file[j].seat => file[i].turn < file[j].turn

FileIsHarvest ==
    tears = 0 => /\ file = harvested /\ ~open
                 /\ \A i \in DOMAIN file : file[i].whole /\ file[i].utf8

FileInv == RowsOK /\ FileIsHarvest /\ DigestsAreOwn

LEMMA FileInit == Init => FileInv
BY DEF Init, FileInv, RowsOK, FileIsHarvest, DigestsAreOwn, Idle, DigestRows

LEMMA FileRows ==
    ASSUME RowsOK
    PROVE  /\ DOMAIN file = 1 .. Len(file) /\ Len(file) \in Nat
           /\ \A i \in DOMAIN file : /\ file[i] \in DigestRows
                                     /\ file[i].seat \in Seats /\ file[i].turn \in Nat
<1>1. DOMAIN file = 1 .. Len(file) /\ Len(file) \in Nat /\ \A i \in DOMAIN file : file[i] \in DigestRows
  BY DEF RowsOK
<1> QED
  BY <1>1 DEF DigestRows

(* What the request of seat s owes to the digest file.                     *)
OwnOK(r, s) ==
    /\ IsInjective(r.own)
    /\ \A i \in DOMAIN r.own : r.own[i].seat = s
    /\ \A i \in DOMAIN r.peers : r.peers[i].seat # s
    /\ tears = 0 => r.own = [i \in LastLines(HarvestedBy(s), OwnCap) |-> harvested[i]]

(* Steps that leave the file alone, and the turns of a seat in a request.  *)
LEMMA FileUntouched ==
    ASSUME SourcesInv, TurnsInv, FileInv, UNCHANGED digests, NEW s \in Seats, NEW r,
           req' = [req EXCEPT ![s] = r],
           turns' \in [Seats -> Nat], turns'[s] >= turns[s],
           \A t \in Seats \ {s} : turns'[t] = turns[t],
           r.pc # "idle" => req[s].pc # "idle" \/ turns'[s] > turns[s],
           r.pc \in {"transcript", "thread", "sent"} => OwnOK(r, s)
    PROVE  FileInv'
<1>1. DOMAIN req = Seats /\ turns \in [Seats -> Nat] /\ RowsOK /\ FileIsHarvest /\ DigestsAreOwn
  BY DEF SourcesInv, TurnsInv, FileInv
<1>2. /\ file' = file /\ open' = open /\ tears' = tears /\ harvested' = harvested
      /\ req'[s] = r /\ \A t \in Seats \ {s} : req'[t] = req[t]
  BY <1>1 DEF digests
<1>3. RowsOK'
  <2>1. \A i \in DOMAIN file : file[i].seat \in Seats /\ file[i].turn \in Nat
    BY <1>1, FileRows
  <2>2. ASSUME NEW i \in DOMAIN file
        PROVE  /\ file[i].turn <= turns'[file[i].seat]
               /\ req'[file[i].seat].pc # "idle" => file[i].turn < turns'[file[i].seat]
    <3>1. CASE file[i].seat = s
      <4>1. /\ file[i].turn \in Nat /\ turns[s] \in Nat /\ turns'[s] \in Nat
            /\ file[i].turn <= turns[s] /\ (req[s].pc # "idle" => file[i].turn < turns[s])
        BY <1>1, <2>1, <3>1 DEF RowsOK
      <4> QED
        BY <1>2, <3>1, <4>1
    <3>2. CASE file[i].seat # s
      BY <1>1, <1>2, <2>1, <3>2 DEF RowsOK
    <3> QED
      BY <3>1, <3>2
  <2> QED
    BY <1>1, <1>2, <2>2 DEF RowsOK
<1>4. FileIsHarvest'
  BY <1>1, <1>2 DEF FileIsHarvest
<1>5. DigestsAreOwn'
  <2>1. HarvestedBy(s)' = HarvestedBy(s) /\ \A t \in Seats : HarvestedBy(t)' = HarvestedBy(t)
    BY <1>2 DEF HarvestedBy
  <2>2. ASSUME NEW t \in Seats, NEW z, z = req'[t], z.pc \in {"transcript", "thread", "sent"} PROVE OwnOK(z, t)'
    <3>1. OwnOK(z, t)
      <4>1. CASE t = s
        BY <1>2, <2>2, <4>1
      <4>2. CASE t # s
        BY <1>1, <1>2, <2>2, <4>2 DEF DigestsAreOwn, OwnOK
      <4> QED
        BY <4>1, <4>2
    <3> QED
      BY <1>2, <2>1, <3>1 DEF OwnOK
  <2> QED
    BY <2>2 DEF DigestsAreOwn, OwnOK
<1> QED
  BY <1>3, <1>4, <1>5 DEF FileInv

(* What a seat reads off the file.                                         *)
LEMMA ReadIsOwn ==
    ASSUME FileInv, NEW s \in Seats
    PROVE  /\ IsInjective(OwnDigests(s))
           /\ \A i \in DOMAIN OwnDigests(s) : OwnDigests(s)[i].seat = s
           /\ \A i \in DOMAIN PeerDigests(s) : PeerDigests(s)[i].seat # s
           /\ tears = 0 =>
                  OwnDigests(s) = [i \in LastLines(HarvestedBy(s), OwnCap) |-> harvested[i]]
<1> DEFINE own == {i \in ReadableLines : file[i].seat = s}
           peers == {i \in ReadableLines : file[i].seat # s}
<1>1. RowsOK /\ FileIsHarvest /\ DOMAIN file = 1 .. Len(file) /\ Len(file) \in Nat
  BY DEF FileInv, RowsOK
<1>2. LastLines(own, OwnCap) \subseteq own /\ LastLines(peers, PeerCap) \subseteq peers
  BY DEF LastLines
<1>3. /\ DOMAIN OwnDigests(s) = LastLines(own, OwnCap)
      /\ \A i \in LastLines(own, OwnCap) : OwnDigests(s)[i] = file[i]
      /\ DOMAIN PeerDigests(s) = LastLines(peers, PeerCap)
      /\ \A i \in LastLines(peers, PeerCap) : PeerDigests(s)[i] = file[i]
  BY DEF OwnDigests, PeerDigests, Rows
<1>4. /\ \A i \in own : i \in 1 .. Len(file) /\ file[i].seat = s
      /\ \A i \in peers : file[i].seat # s
  BY <1>1 DEF ReadableLines
<1> HIDE DEF own, peers
<1>5. IsInjective(OwnDigests(s))
  <2> SUFFICES ASSUME NEW i \in LastLines(own, OwnCap), NEW j \in LastLines(own, OwnCap), i # j
               PROVE  file[i] # file[j]
    BY <1>3 DEF IsInjective
  <2>1. /\ i \in 1 .. Len(file) /\ file[i].seat = s /\ j \in 1 .. Len(file) /\ file[j].seat = s
    BY <1>2, <1>4
  <2>2. file[i].turn \in Nat /\ file[j].turn \in Nat
    BY <1>1, <2>1, FileRows
  <2>3. i < j \/ j < i
    BY <2>1
  <2>4. file[i].turn < file[j].turn \/ file[j].turn < file[i].turn
    BY <1>1, <2>1, <2>3 DEF RowsOK
  <2> QED
    BY <2>2, <2>4
<1>6. ASSUME tears = 0
      PROVE  OwnDigests(s) = [i \in LastLines(HarvestedBy(s), OwnCap) |-> harvested[i]]
  <2>1. file = harvested /\ \A i \in DOMAIN file : file[i].whole /\ file[i].utf8
    BY <1>1, <1>6 DEF FileIsHarvest
  <2>2. ReadableLines = DOMAIN file
    <3>1. \A i \in 1 .. Len(file) : \A j \in 1 .. i : j \in 1 .. Len(file)
      BY <1>1
    <3> QED
      BY <1>1, <2>1, <3>1 DEF ReadableLines
  <2>3. own = HarvestedBy(s)
    BY <2>1, <2>2 DEF own, HarvestedBy
  <2> QED
    BY <2>1, <2>3 DEF OwnDigests, Rows, own
<1> QED
  BY <1>2, <1>3, <1>4, <1>5, <1>6

(* The request of seat s ends and leaves a row, a piece of one or nothing: *)
(* the file is as before up to the pieces that make its last line         *)
(* unreadable, or has one line more of the seat's turn.                    *)
LEMMA RowAppended ==
    ASSUME SourcesInv, TurnsInv, FileInv, NEW s \in Seats, req[s].pc = "sent",
           req' = [req EXCEPT ![s] = Idle], turns' = turns, tears' \in Nat,
           NEW row \in DigestRows, row.seat = s, row.turn = turns[s],
           ~open, file' = Append(file, row)
    PROVE  RowsOK'
<1> DEFINE n == Len(file)
<1>1. /\ DOMAIN req = Seats /\ turns \in [Seats -> Nat] /\ RowsOK /\ file \in Seq(DigestRows)
      /\ n \in Nat /\ DOMAIN file = 1 .. n
  BY DEF SourcesInv, TurnsInv, FileInv, RowsOK
<1>2. /\ file' \in Seq(DigestRows) /\ DOMAIN file' = 1 .. n + 1 /\ file' # <<>>
      /\ \A i \in 1 .. n : file'[i] = file[i]
      /\ file'[n + 1] = row
  BY <1>1, AppendProperties
<1> HIDE DEF n
<1>3. \A i \in 1 .. n + 1 : i \in 1 .. n \/ i = n + 1
  BY <1>1
<1>4. req'[s].pc = "idle" /\ \A t \in Seats : req'[t].pc # "idle" => req[t].pc # "idle"
  BY <1>1 DEF Idle
<1>5. \A i \in 1 .. n : file[i].seat \in Seats /\ file[i].turn \in Nat
  BY <1>1, FileRows
<1>6. ASSUME NEW i \in 1 .. n + 1
      PROVE  /\ file'[i].turn <= turns'[file'[i].seat]
             /\ req'[file'[i].seat].pc # "idle" => file'[i].turn < turns'[file'[i].seat]
  <2>1. CASE i \in 1 .. n
    BY <1>1, <1>2, <1>4, <1>5, <2>1 DEF RowsOK
  <2>2. CASE i = n + 1
    <3>1. turns[s] \in Nat /\ turns[s] <= turns[s]
      BY <1>1
    <3> QED
      BY <1>2, <1>4, <2>2, <3>1
  <2> QED
    BY <1>3, <2>1, <2>2
<1>7. ASSUME NEW i \in 1 .. n + 1, NEW j \in 1 .. n + 1, i < j, file'[i].seat = file'[j].seat
      PROVE  file'[i].turn < file'[j].turn
  <2>1. i \in 1 .. n
    BY <1>1, <1>7
  <2>2. CASE j \in 1 .. n
    BY <1>1, <1>2, <1>7, <2>1, <2>2 DEF RowsOK
  <2>3. CASE j = n + 1
    <3>1. file[i].seat = s
      BY <1>2, <1>7, <2>1, <2>3
    <3>2. file[i].turn < turns[s]
      BY <1>1, <2>1, <3>1 DEF RowsOK
    <3> QED
      BY <1>2, <2>1, <2>3, <3>2
  <2> QED
    BY <1>3, <2>2, <2>3
<1> QED
  BY <1>2, <1>6, <1>7 DEF RowsOK

(* A piece that joins the last line spoils it and no other.                *)
LEMMA LineSpoiled ==
    ASSUME SourcesInv, TurnsInv, FileInv, NEW s \in Seats,
           req' = [req EXCEPT ![s] = Idle], turns' = turns, tears' \in Nat, open,
           NEW row \in DigestRows, row.seat = file[Len(file)].seat, row.turn = file[Len(file)].turn,
           file' = [file EXCEPT ![Len(file)] = row]
    PROVE  RowsOK'
<1>1. /\ DOMAIN req = Seats /\ turns \in [Seats -> Nat] /\ RowsOK /\ file \in Seq(DigestRows)
      /\ file # <<>> /\ Len(file) \in DOMAIN file
  BY DEF SourcesInv, TurnsInv, FileInv, RowsOK
<1>2. /\ file' \in Seq(DigestRows) /\ DOMAIN file' = DOMAIN file /\ file' # <<>>
      /\ \A i \in DOMAIN file : file'[i].seat = file[i].seat /\ file'[i].turn = file[i].turn
  BY <1>1
<1>3. \A t \in Seats : req'[t].pc # "idle" => req[t].pc # "idle"
  BY <1>1 DEF Idle
<1>4. \A i \in DOMAIN file : file[i].seat \in Seats
  BY <1>1, FileRows
<1> QED
  BY <1>1, <1>2, <1>3, <1>4 DEF RowsOK

LEMMA FileStep == SourcesInv /\ TurnsInv /\ FileInv /\ [Next]_vars => FileInv'
<1> SUFFICES ASSUME SourcesInv, TurnsInv, FileInv, [Next]_vars PROVE FileInv'
  OBVIOUS
<1>1. /\ DOMAIN req = Seats /\ turns \in [Seats -> Nat] /\ RowsOK /\ FileIsHarvest /\ DigestsAreOwn
      /\ \A t \in Seats : DOMAIN req[t] = Fields /\ turns[t] \in Nat
  BY DEF SourcesInv, RequestOK, TurnsInv, FileInv
<1>2. ASSUME UNCHANGED <<turns, req, digests>> PROVE FileInv'
  <2>1. /\ turns' = turns /\ req' = req /\ file' = file /\ open' = open /\ tears' = tears
        /\ harvested' = harvested
    BY <1>2 DEF digests
  <2>2. RowsOK' /\ FileIsHarvest'
    BY <1>1, <2>1 DEF RowsOK, FileIsHarvest
  <2>3. DigestsAreOwn'
    BY <1>1, <2>1 DEF DigestsAreOwn, HarvestedBy
  <2> QED
    BY <2>2, <2>3 DEF FileInv
<1>3. ASSUME NEW s \in Seats, Arrive(s) PROVE FileInv'
  <2> DEFINE r == IF FetchCandidates = <<>>
                  THEN [Idle EXCEPT !.pc = "digests", !.mode = "rebuild_local"]
                  ELSE [Idle EXCEPT !.pc = "fetch", !.cand = 1]
  <2>1. r.pc \in {"digests", "fetch"}
    BY DEF Idle
  <2>2. req' = [req EXCEPT ![s] = r] /\ UNCHANGED digests /\ turns' = [turns EXCEPT ![s] = @ + 1]
    BY <1>3 DEF Arrive
  <2> HIDE DEF r
  <2>3. /\ turns' \in [Seats -> Nat] /\ turns'[s] > turns[s] /\ turns'[s] >= turns[s]
        /\ \A t \in Seats \ {s} : turns'[t] = turns[t]
    BY <1>1, <2>2
  <2> QED
    BY <2>1, <2>2, <2>3, FileUntouched
<1>4. ASSUME NEW s \in Seats, NEW r, req' = [req EXCEPT ![s] = r], UNCHANGED digests, turns' = turns,
             req[s].pc # "idle" \/ r.pc = "idle",
             r.pc \in {"transcript", "thread", "sent"} => OwnOK(r, s)
      PROVE  FileInv'
  <2>1. turns' \in [Seats -> Nat] /\ turns'[s] >= turns[s] /\ \A t \in Seats \ {s} : turns'[t] = turns[t]
    BY <1>1, <1>4
  <2> QED
    BY <1>4, <2>1, FileUntouched
<1>5. ASSUME NEW s \in Seats, NEW o \in Outcomes, Fetch(s, o) PROVE FileInv'
  <2>1. PICK r : r = req'[s]
    OBVIOUS
  <2>2. /\ req' = [req EXCEPT ![s] = r] /\ UNCHANGED digests /\ turns' = turns
        /\ req[s].pc # "idle"
    BY <1>1, <1>5, <2>1 DEF Fetch, harness
  <2>3. r.pc \notin {"transcript", "thread", "sent"}
    BY <1>1, <1>5, <2>1 DEF Fetch, FetchFailed, Fields, Idle
  <2> QED
    BY <1>4, <2>2, <2>3
<1>6. ASSUME NEW s \in Seats, NEW o \in Outcomes, FetchTemplates(s, o) PROVE FileInv'
  <2>1. PICK r : r = req'[s]
    OBVIOUS
  <2>2. /\ req' = [req EXCEPT ![s] = r] /\ UNCHANGED digests /\ turns' = turns
        /\ req[s].pc # "idle"
    BY <1>1, <1>6, <2>1 DEF FetchTemplates, harness
  <2>3. r.pc \notin {"transcript", "thread", "sent"}
    BY <1>1, <1>6, <2>1 DEF FetchTemplates, Fields, Idle
  <2> QED
    BY <1>4, <2>2, <2>3
<1>7. ASSUME NEW s \in Seats, ReadDigests(s) PROVE FileInv'
  <2>1. PICK r : r = [req[s] EXCEPT !.own = OwnDigests(s), !.peers = PeerDigests(s),
                                    !.pc = "transcript"]
    OBVIOUS
  <2>2. r.own = OwnDigests(s) /\ r.peers = PeerDigests(s)
    BY <1>1, <2>1 DEF Fields, Idle
  <2>3. OwnOK(r, s)
    BY <2>2, ReadIsOwn DEF OwnOK
  <2>4. /\ req' = [req EXCEPT ![s] = r] /\ UNCHANGED digests /\ turns' = turns
        /\ req[s].pc # "idle"
    BY <1>1, <1>7, <2>1 DEF ReadDigests, harness
  <2> QED
    BY <1>4, <2>3, <2>4
<1>8. ASSUME NEW s \in Seats, ReadTail(s) \/ ReadThread(s) PROVE FileInv'
  <2>1. PICK r : r = req'[s]
    OBVIOUS
  <2>2. /\ req' = [req EXCEPT ![s] = r] /\ UNCHANGED digests /\ turns' = turns
        /\ req[s].pc \in {"transcript", "thread"}
    BY <1>1, <1>8, <2>1 DEF ReadTail, ReadThread, harness
  <2>3. r.own = req[s].own /\ r.peers = req[s].peers
    <3>1. CASE ReadThread(s)
      BY <1>1, <2>1, <3>1 DEF ReadThread, Fields, Idle
    <3>2. CASE req' = [req EXCEPT ![s].pc = "sent"]
      BY <1>1, <2>1, <3>2 DEF Fields, Idle
    <3>3. ASSUME NEW f, NEW x, req' = [req EXCEPT ![s].from = f, ![s].tail = x, ![s].pc = "thread"]
          PROVE  r.own = req[s].own /\ r.peers = req[s].peers
      BY <1>1, <2>1, <3>3 DEF Fields, Idle
    <3> QED
      BY <1>8, <3>1, <3>2, <3>3 DEF ReadTail
  <2>4. OwnOK(r, s)
    BY <1>1, <2>2, <2>3 DEF OwnOK, DigestsAreOwn
  <2> QED
    BY <1>4, <2>2, <2>4
<1>9. ASSUME NEW s \in Seats, NoDigest(s) PROVE FileInv'
  <2>1. Idle.pc = "idle"
    BY DEF Idle
  <2>2. req' = [req EXCEPT ![s] = Idle] /\ UNCHANGED digests /\ turns' = turns
    BY <1>9 DEF NoDigest, harness
  <2> QED
    BY <1>4, <2>1, <2>2
<1>10. ASSUME NEW s \in Seats, Harvest(s) \/ \E whole, utf8 \in BOOLEAN : TornHarvest(s, whole, utf8)
       PROVE  RowsOK' /\ turns' = turns /\ req[s].pc = "sent" /\ req' = [req EXCEPT ![s] = Idle]
  <2>1. /\ turns' = turns /\ req[s].pc = "sent" /\ req' = [req EXCEPT ![s] = Idle]
        /\ tears \in Nat /\ tears' \in {tears, tears + 1}
    BY <1>1, <1>10 DEF Harvest, TornHarvest, harness, RowsOK
  <2>2. CASE ~open
    <3>1. \A whole, utf8 \in BOOLEAN : [Row(s) EXCEPT !.whole = whole, !.utf8 = utf8] \in DigestRows
                 /\ [Row(s) EXCEPT !.whole = whole, !.utf8 = utf8].seat = s
                 /\ [Row(s) EXCEPT !.whole = whole, !.utf8 = utf8].turn = turns[s]
      BY <1>1 DEF Row, DigestRows
    <3>2. Row(s) \in DigestRows /\ Row(s).seat = s /\ Row(s).turn = turns[s]
      BY <1>1 DEF Row, DigestRows
    <3>3. \E row \in DigestRows : row.seat = s /\ row.turn = turns[s] /\ file' = Append(file, row)
      BY <1>10, <2>2, <3>1, <3>2 DEF Harvest, TornHarvest, Appended
    <3>4. RowsOK'
      <4>1. PICK row \in DigestRows : row.seat = s /\ row.turn = turns[s] /\ file' = Append(file, row)
        BY <3>3
      <4>2. tears' \in Nat
        BY <2>1
      <4> QED
        BY <2>1, <2>2, <4>1, <4>2, RowAppended
    <3> QED
      BY <2>1, <3>4
  <2>3. CASE open
    <3> DEFINE old == file[Len(file)]
    <3>1. old \in DigestRows /\ Len(file) \in DOMAIN file
      BY <1>1, <2>3 DEF RowsOK
    <3>2. \E row \in DigestRows : row.seat = old.seat /\ row.turn = old.turn
                                   /\ file' = [file EXCEPT ![Len(file)] = row]
      <4>1. CASE Harvest(s)
        <5>1. [old EXCEPT !.whole = FALSE] \in DigestRows
              /\ [old EXCEPT !.whole = FALSE].seat = old.seat
              /\ [old EXCEPT !.whole = FALSE].turn = old.turn
          BY <3>1 DEF DigestRows
        <5>2. file' = [file EXCEPT ![Len(file)] = [old EXCEPT !.whole = FALSE]]
          BY <2>3, <4>1 DEF Harvest, Appended
        <5> QED
          BY <5>1, <5>2
      <4>2. ASSUME NEW whole \in BOOLEAN, NEW utf8 \in BOOLEAN, TornHarvest(s, whole, utf8)
            PROVE  \E row \in DigestRows : row.seat = old.seat /\ row.turn = old.turn
                                   /\ file' = [file EXCEPT ![Len(file)] = row]
        <5> DEFINE new == [old EXCEPT !.whole = FALSE, !.utf8 = old.utf8 /\ utf8]
        <5>1. new \in DigestRows /\ new.seat = old.seat /\ new.turn = old.turn
          BY <3>1 DEF DigestRows
        <5>2. file' = [file EXCEPT ![Len(file)] = new]
          BY <2>3, <3>1, <4>2 DEF TornHarvest, RowsOK, DigestRows
        <5> QED
          BY <5>1, <5>2
      <4> QED
        BY <1>10, <4>1, <4>2
    <3>3. RowsOK'
      <4>1. PICK row \in DigestRows : /\ row.seat = old.seat /\ row.turn = old.turn
                                      /\ file' = [file EXCEPT ![Len(file)] = row]
        BY <3>2
      <4>2. tears' \in Nat
        BY <2>1
      <4> QED
        BY <2>1, <2>3, <4>1, <4>2, LineSpoiled
    <3> QED
      BY <2>1, <3>3
  <2> QED
    BY <2>2, <2>3
<1>11. ASSUME NEW s \in Seats, Harvest(s) PROVE FileInv'
  <2>1. /\ RowsOK' /\ req[s].pc = "sent" /\ req' = [req EXCEPT ![s] = Idle]
        /\ tears' = tears /\ ~open' /\ harvested' = Append(harvested, Row(s))
        /\ file' = Appended(Row(s))
    BY <1>10, <1>11 DEF Harvest
  <2>2. FileIsHarvest'
    <3> SUFFICES ASSUME tears = 0
                 PROVE  file' = harvested' /\ \A i \in DOMAIN file' : file'[i].whole /\ file'[i].utf8
      BY <2>1 DEF FileIsHarvest
    <3>1. file = harvested /\ ~open /\ file' = Append(file, Row(s))
      BY <1>1, <2>1 DEF FileIsHarvest, Appended
    <3>2. Row(s) \in DigestRows /\ Row(s).whole /\ Row(s).utf8 /\ file \in Seq(DigestRows)
      BY <1>1 DEF Row, DigestRows, RowsOK
    <3>3. \A i \in DOMAIN file' : (i \in DOMAIN file /\ file'[i] = file[i]) \/ file'[i] = Row(s)
      BY <3>1, <3>2, AppendProperties
    <3> QED
      BY <1>1, <2>1, <3>1, <3>2, <3>3 DEF FileIsHarvest
  <2>3. DigestsAreOwn'
    <3> SUFFICES ASSUME NEW t \in Seats, NEW z, z = req'[t], z.pc \in {"transcript", "thread", "sent"}
                 PROVE  OwnOK(z, t)'
      BY DEF DigestsAreOwn, OwnOK
    <3>1. t # s /\ z = req[t]
      BY <1>1, <2>1 DEF Idle
    <3>2. OwnOK(z, t)
      BY <1>1, <3>1 DEF DigestsAreOwn, OwnOK
    <3>3. ASSUME tears = 0
          PROVE  [i \in LastLines(HarvestedBy(t), OwnCap) |-> harvested[i]] =
                 [i \in LastLines(HarvestedBy(t)', OwnCap) |-> harvested'[i]]
      <4>1. harvested \in Seq(DigestRows) /\ Row(s) \in DigestRows /\ Row(s).seat = s
        BY <1>1, <3>3 DEF FileIsHarvest, Row, DigestRows, RowsOK
      <4>2. /\ \A i \in DOMAIN harvested : i \in DOMAIN harvested' /\ harvested'[i] = harvested[i]
            /\ \A i \in DOMAIN harvested' : i \in DOMAIN harvested \/ harvested'[i] = Row(s)
        BY <2>1, <4>1, AppendProperties
      <4>3. HarvestedBy(t)' = HarvestedBy(t)
        BY <3>1, <4>1, <4>2 DEF HarvestedBy
      <4>4. LastLines(HarvestedBy(t), OwnCap) \subseteq DOMAIN harvested
        BY DEF LastLines, HarvestedBy
      <4> HIDE DEF HarvestedBy
      <4> QED
        BY <4>2, <4>3, <4>4
    <3>4. tears' = 0 => z.own = [i \in LastLines(HarvestedBy(t)', OwnCap) |-> harvested'[i]]
      BY <2>1, <3>2, <3>3 DEF OwnOK
    <3> QED
      BY <3>2, <3>4 DEF OwnOK
  <2> QED
    BY <2>1, <2>2, <2>3 DEF FileInv
<1>12. ASSUME NEW s \in Seats, NEW whole \in BOOLEAN, NEW utf8 \in BOOLEAN, TornHarvest(s, whole, utf8)
       PROVE  FileInv'
  <2>1. /\ RowsOK' /\ req' = [req EXCEPT ![s] = Idle]
        /\ tears' = tears + 1 /\ tears \in Nat
    BY <1>1, <1>10, <1>12 DEF TornHarvest, RowsOK
  <2>2. tears' # 0
    BY <2>1
  <2>3. FileIsHarvest'
    BY <2>2 DEF FileIsHarvest
  <2>4. DigestsAreOwn'
    <3> SUFFICES ASSUME NEW t \in Seats, NEW z, z = req'[t], z.pc \in {"transcript", "thread", "sent"}
                 PROVE  OwnOK(z, t)'
      BY DEF DigestsAreOwn, OwnOK
    <3>1. t # s /\ z = req[t]
      BY <1>1, <2>1 DEF Idle
    <3>2. OwnOK(z, t)
      BY <1>1, <3>1 DEF DigestsAreOwn, OwnOK
    <3> QED
      BY <2>2, <3>2 DEF OwnOK
  <2> QED
    BY <2>1, <2>3, <2>4 DEF FileInv
<1>13. CASE Restart
  <2>1. /\ \A t \in Seats : req'[t] = Idle /\ req'[t].pc = "idle"
        /\ UNCHANGED <<turns, file, open, tears, harvested>>
    BY <1>13 DEF Restart, Idle, harness, digests
  <2>2. \A i \in DOMAIN file : file[i].seat \in Seats
    BY <1>1, FileRows
  <2>3. RowsOK'
    BY <1>1, <2>1, <2>2 DEF RowsOK
  <2> QED
    BY <1>1, <2>1, <2>3 DEF FileInv, FileIsHarvest, DigestsAreOwn
<1>14. ASSUME NEW s \in Seats, Flush(s) PROVE FileInv'
  BY <1>2, <1>14 DEF Flush, digests
<1>15. CASE UNCHANGED vars
  BY <1>2, <1>15 DEF vars, digests
<1> QED
  BY <1>3, <1>5, <1>6, <1>7, <1>8, <1>9, <1>11, <1>12, <1>13, <1>14, <1>15
     DEF Next, Prelude

(* First-person digests are the seat's own and never doubled, a peer's are *)
(* never told in the first person, and while no row was cut short a seat   *)
(* sees its last ones (main.rs 642-668, cycle_digest.rs 168-190).          *)
THEOREM DigestsKeptApart == Spec => []DigestsAreOwn
<1>1. FileInv => DigestsAreOwn
  BY DEF FileInv
<1> QED
  BY SourcesInit, SourcesStep, TurnsInit, TurnsStep, FileInit, FileStep, <1>1, PTL DEF Spec
=============================================================================
