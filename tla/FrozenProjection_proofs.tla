----------------------- MODULE FrozenProjection_proofs -----------------------
(***************************************************************************)
(* TLAPS proofs about the frozen projections, for any number of            *)
(* conversations, handlers and turns, and for any thresholds: no block is  *)
(* sent which misses a cycle, and where all requests go to one lane a WARM *)
(* prefix is never rewritten within a turn.                                *)
(***************************************************************************)
EXTENDS FrozenProjection, TLAPS

(* A stored block covers the conversation up to the boundary it is stored  *)
(* with: what makes a match of the boundaries a proof of completeness.     *)
StoredIsComplete ==
    \A c \in Conversations :
        store[c] # NoProjection => store[c].text.upTo = store[c].boundary.idx

(* A request is where the handlers' steps put it, and what it has sent     *)
(* covers the conversation up to its boundary.                             *)
SentIsComplete(q) ==
    \/ q = Idle
    \/ q.phase = "decided" /\ q.conv \in Conversations
    \/ q.phase = "sent" /\ (q.text # NoBlock => q.text.upTo = q.boundary.idx)

CompleteInv ==
    /\ DOMAIN store = Conversations
    /\ DOMAIN req = Requests
    /\ StoredIsComplete
    /\ \A r \in Requests : SentIsComplete(req[r])

LEMMA CompleteInit == Init => CompleteInv
BY DEF Init, CompleteInv, StoredIsComplete, SentIsComplete

(* Whatever is sent becomes of the request as Emit says.                   *)
LEMMA EmitComplete ==
    ASSUME CompleteInv, NEW r \in Requests, NEW text, Emit(r, text),
           text = NoBlock \/ text.upTo = Boundary(req[r].conv).idx
    PROVE  DOMAIN req' = Requests /\ \A o \in Requests : SentIsComplete(req'[o])
BY DEF CompleteInv, Emit, SentIsComplete

(* Persisting a block that is complete, and sweeping the store after it,   *)
(* leaves complete blocks.                                                 *)
LEMMA PersistComplete ==
    ASSUME CompleteInv, NEW c \in Conversations, NEW text,
           text.upTo = Boundary(c).idx,
           store' = SweptStore([store EXCEPT ![c] = Persisted(c, text)])
    PROVE  DOMAIN store' = Conversations /\ StoredIsComplete'
<1> DEFINE st == [store EXCEPT ![c] = Persisted(c, text)]
<1>1. /\ DOMAIN st = Conversations
      /\ \A d \in Conversations :
             st[d] # NoProjection => st[d].text.upTo = st[d].boundary.idx
  BY DEF CompleteInv, StoredIsComplete, Persisted
<1>2. /\ DOMAIN store' = Conversations
      /\ \A d \in Conversations : store'[d] = st[d] \/ store'[d] = NoProjection
  <2> HIDE DEF st
  <2>1. store' = SweptStore(st)
    BY DEF st
  <2> QED
    BY <1>1, <2>1 DEF SweptStore
<1> HIDE DEF st
<1> QED
  BY <1>1, <1>2 DEF StoredIsComplete

LEMMA CompleteStep == CompleteInv /\ [Next]_vars => CompleteInv'
<1> SUFFICES ASSUME CompleteInv, [Next]_vars PROVE CompleteInv'
  OBVIOUS
<1>1. CASE Tick
  BY <1>1 DEF Tick, CompleteInv, StoredIsComplete
<1>2. CASE Restart
  BY <1>2 DEF Restart, CompleteInv, StoredIsComplete, SentIsComplete
<1>3. ASSUME NEW c \in Conversations, NEW m \in Messages, UserTurn(c, m)
      PROVE  CompleteInv'
  BY <1>3 DEF UserTurn, CompleteInv, StoredIsComplete
<1>4. ASSUME NEW r \in Requests, NEW m \in Models, NEW c \in Conversations, Arrive(r, m, c)
      PROVE  CompleteInv'
  BY <1>4 DEF Arrive, CompleteInv, StoredIsComplete, SentIsComplete
<1>5. ASSUME NEW r \in Requests, NEW t \in Texts, Rebuild(r, t)
      PROVE  CompleteInv'
  <2> DEFINE c == req[r].conv
             text == IF req[r].class = "warm" /\ FrozenMatch(c)
                     THEN store[c].text ELSE Render(c, t)
  <2>1. c \in Conversations
    BY <1>5 DEF Rebuild, CompleteInv, SentIsComplete, Idle
  <2>2. text.upTo = Boundary(c).idx
    BY <2>1 DEF CompleteInv, StoredIsComplete, FrozenMatch, Boundary, Render
  <2>3. Emit(r, text) /\ store' = SweptStore([store EXCEPT ![c] = Persisted(c, text)])
    BY <1>5 DEF Rebuild
  <2> HIDE DEF text
  <2> QED
    BY <2>1, <2>2, <2>3, EmitComplete, PersistComplete DEF CompleteInv
<1>6. ASSUME NEW r \in Requests, RebuildSkipped(r)
      PROVE  CompleteInv'
  BY <1>6, EmitComplete DEF RebuildSkipped, CompleteInv, StoredIsComplete
<1>7. ASSUME NEW r \in Requests, Fail(r)
      PROVE  CompleteInv'
  BY <1>7 DEF Fail, CompleteInv, StoredIsComplete, SentIsComplete
<1>8. ASSUME NEW r \in Requests, Finish(r)
      PROVE  CompleteInv'
  BY <1>8 DEF Finish, CompleteInv, StoredIsComplete, SentIsComplete
<1>9. CASE UNCHANGED vars
  BY <1>9 DEF vars, CompleteInv, StoredIsComplete
<1> QED
  BY <1>1, <1>2, <1>3, <1>4, <1>5, <1>6, <1>7, <1>8, <1>9 DEF Next

(* Every block that is sent covers the conversation up to the boundary it  *)
(* precedes, also when a frozen block is re-served (apply_rebuild).        *)
THEOREM HistoryComplete == Spec => []HistoryIsComplete
<1>1. CompleteInv => HistoryIsComplete
  BY DEF CompleteInv, SentIsComplete, HistoryIsComplete, Rebuilt, Idle
<1> QED
  BY CompleteInit, CompleteStep, <1>1, PTL DEF Spec
-----------------------------------------------------------------------------
(***************************************************************************)
(* Stability, where every request goes to one lane: what makes the block   *)
(* of a WARM request the one of the request that warmed the lane.  While   *)
(* the lane is alive the store holds that block, because whoever could     *)
(* render another one finds the lane alive too; it is not swept, because   *)
(* entries outlive lanes; and it stays in place under a handler that was   *)
(* told WARM, because handling is short.                                   *)
(***************************************************************************)
OneLane == \A m, n \in Models : m = n

Alive(ln) == ln.lastTs # NoTs /\ Gap(ln, clock) < TtlInEffect(ln)

LaneOK(ln) ==
    /\ DOMAIN ln = DOMAIN DefaultLane
    /\ ln.s \in Nat /\ ln.c \in Nat /\ ln.pObs \in Nat
    /\ ln.ttl \in Tiers \cup {0}
    /\ ln.lastTs \in Nat \cup {NoTs}
    /\ ln.lastTs # NoTs =>
           ln.s > 0 /\ ln.c > 0 /\ ln.pObs = PromptSize /\ ln.lastTs <= clock

(* The store holds this block of c, and has touched it since. *)
Holds(c, boundary, text, since) ==
    /\ store[c] # NoProjection
    /\ store[c].boundary = boundary /\ store[c].text = text
    /\ store[c].lastTs >= since

RequestOK(q) ==
    \/ q = Idle
    \/ /\ q.phase \in {"decided", "sent"}
       /\ q.model \in Models /\ q.conv \in Conversations
       /\ LaneOK(q.lane) /\ q.lane.lastTs \in Nat
       /\ q.phase = "decided" => clock - q.lane.lastTs <= HandlingTime
       /\ q.phase = "sent" => q.boundary = Boundary(q.conv)

Shape ==
    /\ clock \in Nat
    /\ turns \in [Conversations -> Seq(Messages)]
    /\ DOMAIN lane = Models /\ \A m \in Models : LaneOK(lane[m])
    /\ DOMAIN store = Conversations
    /\ \A c \in Conversations : store[c] # NoProjection => store[c].lastTs \in Nat
    /\ DOMAIN req = Requests /\ \A r \in Requests : RequestOK(req[r])
    /\ DOMAIN written = Models
    /\ \A m \in Models : written[m].text # NoBlock =>
           /\ written[m].conv \in Conversations
           /\ written[m].boundary.idx \in Nat
           /\ written[m].boundary.idx <= Len(turns[written[m].conv])

OnePerConversation ==
    \A r, o \in Requests :
        req[r] # Idle /\ req[o] # Idle /\ req[r].conv = req[o].conv => r = o

(* The block that warmed a lane is in the store as long as the lane lives  *)
(* and its conversation has not gone on.                                   *)
WarmBlock(m) ==
    LET w == written[m]
    IN  Alive(lane[m]) /\ w.text # NoBlock /\ w.boundary = Boundary(w.conv)
            => Holds(w.conv, w.boundary, w.text, lane[m].lastTs)

(* A handler that was told WARM still finds it there. *)
ToldWarm(q) ==
    /\ q.phase = "decided" /\ q.class = "warm"
    /\ q.prior.text # NoBlock /\ q.prior.conv = q.conv
    /\ q.prior.boundary = Boundary(q.conv)

FoundWarm(q) ==
    ToldWarm(q) => Holds(q.conv, q.prior.boundary, q.prior.text, q.lane.lastTs - OneHour)

(* A handler of the lane's own conversation was told of a lane that lives. *)
Informed(q, m) ==
    q.phase = "decided" /\ Alive(lane[m]) /\ written[m].text # NoBlock /\ written[m].conv = q.conv
        => q.class = "warm" /\ q.prior = written[m]

(* What was sent is in the store if it can still warm a lane. *)
SentBlock(q) ==
    q.phase = "sent" /\ q.text # NoBlock /\ Alive(q.lane)
        => Holds(q.conv, q.boundary, q.text, q.lane.lastTs)

StableInv ==
    /\ Shape
    /\ OnePerConversation
    /\ \A m \in Models : WarmBlock(m)
    /\ \A r \in Requests : FoundWarm(req[r]) /\ SentBlock(req[r])
    /\ \A r \in Requests, m \in Models : Informed(req[r], m)
    /\ ProjectionIsStable

LEMMA StableInit == Init => StableInv
<1> SUFFICES ASSUME Init PROVE StableInv
  OBVIOUS
<1>1. Shape
  <2>1. LaneOK(DefaultLane)
    BY DEF LaneOK, DefaultLane
  <2>2. \A m \in Messages : <<m>> \in Seq(Messages)
    OBVIOUS
  <2> QED
    BY <2>1, <2>2 DEF Init, Shape, RequestOK, NoProjection
<1>2. \A m \in Models : ~Alive(lane[m])
  BY DEF Init, Alive, DefaultLane
<1>3. \A r \in Requests : req[r] = Idle
  BY DEF Init
<1> QED
  BY <1>1, <1>2, <1>3
     DEF StableInv, OnePerConversation, WarmBlock, FoundWarm, ToldWarm, SentBlock, Informed,
         ProjectionIsStable, Rebuilt, Idle

(***************************************************************************)
(* Lanes.                                                                  *)
(***************************************************************************)
LEMMA AliveIsRecent ==
    ASSUME NEW ln, LaneOK(ln), clock \in Nat, Alive(ln)
    PROVE  /\ ln.lastTs \in Nat /\ ln.lastTs <= clock
           /\ ln.lastTs >= clock - OneHour /\ ln.lastTs >= clock - IdleEvict
BY PolicyAssumption, FreezeAssumption
   DEF LaneOK, Alive, Gap, SaturatingSub, TtlInEffect, Tiers

(* A lane that lives makes a request WARM, and only such a lane does.      *)
LEMMA AliveIsWarm ==
    ASSUME NEW ln, LaneOK(ln), clock \in Nat
    PROVE  (Decide(ln, clock, PromptSize).class = "warm") <=> Alive(ln)
<1>1. IsWarm(ln, clock, PromptSize) <=> Alive(ln)
  BY FreezeAssumption DEF LaneOK, Alive, IsWarm, CommittedSize
<1> QED
  BY <1>1 DEF Decide

(* What a decision leaves behind. *)
LEMMA DecidedLane ==
    ASSUME NEW ln, LaneOK(ln), clock \in Nat
    PROVE  LET d == Decide(ln, clock, PromptSize).lane
           IN  LaneOK(d) /\ d.lastTs = clock
<1> USE PolicyAssumption, FreezeAssumption
<1> DEFINE size == PrefixSize(ln, PromptSize)
           warm == IsWarm(ln, clock, PromptSize)
           kept == IF warm THEN size ELSE ColdTarget(size)
           tier == ForecastTier(GapRing(ln, clock))
<1>1. size \in Nat /\ size > 0
  BY DEF PrefixSize, LaneOK
<1>2. ColdTarget(size) \in Nat /\ ColdTarget(size) > 0
  <2> HIDE DEF size
  <2>1. size * CompactNum \in Int
    BY <1>1
  <2>2. (size * CompactNum) \div CompactDen \in Int
    BY <2>1
  <2> DEFINE x == (size * CompactNum) \div CompactDen
  <2> HIDE DEF x
  <2>3. ColdTarget(size) = Lesser(Greater(x, MinPrefix), ColdCap)
    BY <1>1 DEF ColdTarget, x
  <2> QED
    BY <2>2, <2>3 DEF Lesser, Greater, x
<1>3. kept \in Nat /\ kept > 0
  BY <1>1, <1>2
<1>4. tier \in Tiers
  BY DEF ForecastTier, Tiers
<1>5. LET d == Decide(ln, clock, PromptSize).lane
      IN  /\ d.s = kept /\ d.c = kept /\ d.pObs = PromptSize /\ d.ttl = tier
          /\ d.lastTs = clock
  BY DEF Decide
<1>6. DOMAIN Decide(ln, clock, PromptSize).lane = DOMAIN DefaultLane
  BY DEF Decide, DefaultLane
<1> HIDE DEF size, warm, kept, tier
<1> QED
  BY <1>3, <1>4, <1>5, <1>6 DEF LaneOK

(* Sweeping the lanes leaves each as it was or as nobody has written it.   *)
LEMMA SweptLanes ==
    ASSUME DOMAIN lane = Models, NEW t
    PROVE  /\ DOMAIN Swept(lane, t) = Models
           /\ \A m \in Models : Swept(lane, t)[m] \in {lane[m], DefaultLane}
BY DEF Swept

(***************************************************************************)
(* The store.                                                              *)
(***************************************************************************)
(* A rebuild puts its block in, and what was touched recently stays.       *)
LEMMA StoreAfterRebuild ==
    ASSUME Shape, NEW c \in Conversations, NEW text,
           store' = SweptStore([store EXCEPT ![c] = Persisted(c, text)])
    PROVE  /\ DOMAIN store' = Conversations
           /\ store'[c] = Persisted(c, text)
           /\ \A d \in Conversations \ {c} :
                  /\ store'[d] \in {store[d], NoProjection}
                  /\ store[d] # NoProjection /\ store[d].lastTs >= clock - IdleEvict
                         => store'[d] = store[d]
<1> DEFINE st == [store EXCEPT ![c] = Persisted(c, text)]
<1>1. /\ DOMAIN st = Conversations /\ st[c] = Persisted(c, text)
      /\ \A d \in Conversations \ {c} : st[d] = store[d]
  BY DEF Shape
<1>2. ~(SaturatingSub(clock, st[c].lastTs) > IdleEvict)
  <2>1. st[c].lastTs = clock
    BY <1>1 DEF Persisted
  <2> HIDE DEF st
  <2> QED
    BY <2>1, FreezeAssumption DEF Shape, SaturatingSub
<1>3. \A d \in Conversations \ {c} :
          store[d] # NoProjection /\ store[d].lastTs >= clock - IdleEvict
              => ~(SaturatingSub(clock, store[d].lastTs) > IdleEvict)
  BY FreezeAssumption DEF Shape, SaturatingSub
<1> HIDE DEF st
<1>4. store' = SweptStore(st)
  BY DEF st
<1>5. CASE Cardinality({d \in Conversations : st[d] # NoProjection}) > SweepMinLen
  <2>1. store' = [d \in Conversations |->
             IF st[d] # NoProjection /\ SaturatingSub(clock, st[d].lastTs) > IdleEvict
             THEN NoProjection ELSE st[d]]
    BY <1>4, <1>5 DEF SweptStore
  <2> QED
    BY <1>1, <1>2, <1>3, <2>1
<1>6. CASE ~(Cardinality({d \in Conversations : st[d] # NoProjection}) > SweepMinLen)
  BY <1>1, <1>4, <1>6 DEF SweptStore
<1> QED
  BY <1>5, <1>6

(***************************************************************************)
(* One lemma per step that does something of interest.                     *)
(***************************************************************************)
LEMMA TickStable == StableInv /\ Tick => StableInv'
<1> SUFFICES ASSUME StableInv, Tick PROVE StableInv'
  OBVIOUS
<1>1. /\ clock' = clock + 1 /\ clock \in Nat
      /\ turns' = turns /\ lane' = lane /\ store' = store /\ req' = req /\ written' = written
  BY DEF Tick, StableInv, Shape
<1>2. ASSUME NEW ln, LaneOK(ln)
      PROVE  /\ ln.lastTs # NoTs => ln.lastTs <= clock + 1
             /\ ln.lastTs # NoTs /\ Gap(ln, clock + 1) < TtlInEffect(ln) => Alive(ln)
  BY <1>1, <1>2, PolicyAssumption DEF LaneOK, Alive, Gap, SaturatingSub, TtlInEffect, Tiers
<1>3. \A m \in Models : LaneOK(lane[m])
  BY DEF StableInv, Shape
<1>4. \A r \in Requests : RequestOK(req[r])
  BY DEF StableInv, Shape
<1>5. \A m \in Models : (LaneOK(lane[m]))' /\ ((Alive(lane[m]))' => Alive(lane[m]))
  BY <1>1, <1>2, <1>3 DEF LaneOK, Alive
<1>6. \A r \in Requests :
          req[r] # Idle => (LaneOK(req[r].lane))' /\ ((Alive(req[r].lane))' => Alive(req[r].lane))
  BY <1>1, <1>2, <1>4 DEF RequestOK, LaneOK, Alive
<1>7. \A r \in Requests : (RequestOK(req[r]))'
  <2> SUFFICES ASSUME NEW r \in Requests, req[r] # Idle PROVE (RequestOK(req[r]))'
    BY <1>1 DEF RequestOK
  <2>1. req[r].phase = "decided" => clock + 1 - req[r].lane.lastTs <= HandlingTime
    BY <1>1, <1>4, FreezeAssumption DEF Tick, RequestOK
  <2> QED
    BY <1>1, <1>4, <1>6, <2>1 DEF RequestOK, Boundary
<1>8. Shape'
  BY <1>1, <1>5, <1>7 DEF StableInv, Shape
<1>9. \A m \in Models : WarmBlock(m)'
  BY <1>1, <1>5 DEF StableInv, WarmBlock, Holds, Boundary
<1>10. \A r \in Requests : (FoundWarm(req[r]))' /\ (SentBlock(req[r]))'
  BY <1>1, <1>6 DEF StableInv, FoundWarm, ToldWarm, SentBlock, Holds, Boundary, Idle
<1>11. \A r \in Requests, m \in Models : (Informed(req[r], m))'
  BY <1>1, <1>5 DEF StableInv, Informed
<1> QED
  BY <1>1, <1>8, <1>9, <1>10, <1>11
     DEF StableInv, OnePerConversation, ProjectionIsStable, Rebuilt, SameCycle

LEMMA RestartStable == StableInv /\ Restart => StableInv'
<1> SUFFICES ASSUME StableInv, Restart PROVE StableInv'
  OBVIOUS
<1>1. Shape'
  <2>1. (LaneOK(DefaultLane))'
    BY DEF LaneOK, DefaultLane
  <2> QED
    BY <2>1 DEF StableInv, Restart, Shape, RequestOK, LaneOK, NoProjection
<1>2. \A m \in Models : ~(Alive(lane[m]))'
  BY DEF Restart, Alive, DefaultLane
<1>3. \A r \in Requests : req'[r] = Idle
  BY DEF Restart
<1> QED
  BY <1>1, <1>2, <1>3
     DEF StableInv, OnePerConversation, WarmBlock, FoundWarm, ToldWarm, SentBlock, Informed,
         ProjectionIsStable, Rebuilt, Idle

(* A user turn moves the boundary of its conversation past every block.    *)
LEMMA UserTurnStable ==
    ASSUME StableInv, NEW c \in Conversations, NEW x \in Messages, UserTurn(c, x)
    PROVE  StableInv'
<1>1. /\ clock' = clock /\ lane' = lane /\ store' = store /\ req' = req /\ written' = written
      /\ turns' = [turns EXCEPT ![c] = Append(@, x)]
  BY DEF UserTurn
<1>2. turns \in [Conversations -> Seq(Messages)]
  BY DEF StableInv, Shape
<1>3. /\ turns' \in [Conversations -> Seq(Messages)]
      /\ Len(turns'[c]) = Len(turns[c]) + 1 /\ Len(turns[c]) \in Nat
      /\ \A d \in Conversations \ {c} : turns'[d] = turns[d]
  BY <1>1, <1>2
<1>4. \A r \in Requests : req[r] # Idle => req[r].conv \in Conversations \ {c}
  BY DEF UserTurn, InFlight, StableInv, Shape, RequestOK
<1>5. \A d \in Conversations \ {c} : Boundary(d)' = Boundary(d)
  BY <1>3 DEF Boundary
<1>6. Boundary(c)'.idx = Len(turns[c]) + 1
  BY <1>3 DEF Boundary
<1>7. \A r \in Requests : (RequestOK(req[r]))'
  BY <1>1, <1>4, <1>5 DEF StableInv, Shape, RequestOK, LaneOK
<1>8. ASSUME NEW m \in Models, written[m].text # NoBlock
      PROVE  /\ written[m].conv \in Conversations
             /\ written[m].boundary.idx \in Nat
             /\ written[m].boundary.idx <= Len(turns[written[m].conv])
             /\ written[m].boundary.idx <= Len(turns'[written[m].conv])
  <2>1. /\ written[m].conv \in Conversations
        /\ written[m].boundary.idx \in Nat
        /\ written[m].boundary.idx <= Len(turns[written[m].conv])
    BY <1>8 DEF StableInv, Shape
  <2> DEFINE i == written[m].boundary.idx
             d == written[m].conv
  <2> HIDE DEF i, d
  <2>2. i <= Len(turns'[d])
    <3>1. d \in Conversations /\ i \in Nat /\ i <= Len(turns[d])
      BY <2>1 DEF i, d
    <3> QED
      BY <1>3, <3>1
  <2> QED
    BY <2>1, <2>2 DEF i, d
<1>9. Shape'
  BY <1>1, <1>3, <1>7, <1>8 DEF StableInv, Shape, LaneOK
<1>10. \A m \in Models : WarmBlock(m)'
  <2> SUFFICES ASSUME NEW m \in Models, WarmBlock(m), written[m].text # NoBlock,
                      written[m].boundary = Boundary(written[m].conv)'
               PROVE  WarmBlock(m)'
    BY <1>1 DEF StableInv, WarmBlock
  <2>1. /\ written[m].conv \in Conversations /\ written[m].boundary.idx \in Nat
        /\ written[m].boundary.idx <= Len(turns[written[m].conv])
    BY <1>8
  <2>2. written[m].conv = c => written[m].boundary.idx = Len(turns[c]) + 1
    BY <1>1, <1>6 DEF Boundary
  <2>3. written[m].conv # c
    BY <1>3, <2>1, <2>2
  <2> QED
    BY <1>1, <1>5, <2>1, <2>3 DEF WarmBlock, Holds, Alive
<1>11. \A r \in Requests : (FoundWarm(req[r]))' /\ (SentBlock(req[r]))'
  BY <1>1, <1>4, <1>5 DEF StableInv, FoundWarm, ToldWarm, SentBlock, Holds, Alive, Idle
<1>12. \A r \in Requests, m \in Models : (Informed(req[r], m))'
  BY <1>1 DEF StableInv, Informed, Alive
<1> QED
  BY <1>1, <1>9, <1>10, <1>11, <1>12
     DEF StableInv, OnePerConversation, ProjectionIsStable, Rebuilt, SameCycle

(* Whoever arrives is told WARM of a lane that lives, and of no other.     *)
LEMMA ArriveStable ==
    ASSUME OneLane, StableInv, NEW r \in Requests, NEW m \in Models, NEW c \in Conversations,
           Arrive(r, m, c)
    PROVE  StableInv'
<1> DEFINE d == Decide(lane[m], clock, PromptSize)
<1>1. /\ clock' = clock /\ turns' = turns /\ store' = store /\ written' = written
      /\ lane' = Swept(lane, clock)
  BY DEF Arrive
<1>2. /\ DOMAIN req' = Requests /\ req'[r] # Idle
      /\ req'[r].phase = "decided" /\ req'[r].model = m /\ req'[r].conv = c
      /\ req'[r].lane = d.lane /\ req'[r].class = d.class /\ req'[r].prior = written[m]
      /\ \A o \in Requests \ {r} : req'[o] = req[o]
  BY DEF Arrive, StableInv, Shape, Idle
<1>3. /\ LaneOK(d.lane) /\ d.lane.lastTs = clock /\ clock \in Nat
      /\ d.class = "warm" <=> Alive(lane[m])
  BY DecidedLane, AliveIsWarm DEF StableInv, Shape
<1> HIDE DEF d
<1>4. LaneOK(req'[r].lane) /\ req'[r].lane.lastTs = clock
  BY <1>2, <1>3
<1>5. DOMAIN lane' = Models /\ \A k \in Models : lane'[k] \in {lane[k], DefaultLane}
  BY <1>1, SweptLanes DEF StableInv, Shape
<1>6. \A k \in Models : (LaneOK(lane[k]))' /\ ((Alive(lane[k]))' => lane'[k] = lane[k] /\ Alive(lane[k]))
  <2>1. LaneOK(DefaultLane) /\ ~Alive(DefaultLane)
    BY DEF LaneOK, Alive, DefaultLane
  <2> QED
    BY <1>1, <1>5, <2>1 DEF StableInv, Shape, LaneOK, Alive
<1>7. (RequestOK(req[r]))'
  <2>1. clock - req'[r].lane.lastTs <= HandlingTime /\ req'[r].lane.lastTs \in Nat
    BY <1>3, <1>4, FreezeAssumption
  <2>2. (LaneOK(req[r].lane))'
    BY <1>1, <1>4 DEF LaneOK
  <2> QED
    BY <1>1, <1>2, <2>1, <2>2 DEF RequestOK
<1>8. \A o \in Requests : (RequestOK(req[o]))'
  <2>1. ASSUME NEW o \in Requests \ {r} PROVE (RequestOK(req[o]))'
    <3>1. RequestOK(req[o]) /\ req'[o] = req[o] /\ clock' = clock /\ turns' = turns
      BY <1>1, <1>2 DEF StableInv, Shape
    <3> QED
      BY <3>1 DEF RequestOK, LaneOK, Boundary
  <2> QED
    BY <1>7, <2>1
<1>9. Shape'
  BY <1>1, <1>2, <1>5, <1>6, <1>8 DEF StableInv, Shape
<1>10. OnePerConversation'
  BY <1>2 DEF Arrive, InFlight, StableInv, OnePerConversation
<1>11. \A k \in Models : WarmBlock(k)'
  BY <1>1, <1>6 DEF StableInv, WarmBlock, Holds, Boundary
<1>12. (FoundWarm(req[r]))'
  <2> DEFINE w == written[m]
  <2>1. SUFFICES ASSUME (ToldWarm(req[r]))'
                 PROVE  Holds(c, w.boundary, w.text, clock - OneHour)
    BY <1>1, <1>2, <1>4 DEF FoundWarm, Holds
  <2>2. Alive(lane[m]) /\ w.text # NoBlock /\ w.conv = c /\ w.boundary = Boundary(c)
    BY <1>1, <1>2, <1>3, <2>1 DEF ToldWarm, Boundary
  <2>3. Holds(c, w.boundary, w.text, lane[m].lastTs)
    BY <2>2 DEF StableInv, WarmBlock
  <2>4. lane[m].lastTs \in Nat /\ lane[m].lastTs >= clock - OneHour
    BY <1>3, <2>2, AliveIsRecent DEF StableInv, Shape
  <2>5. store[c].lastTs \in Nat
    BY <2>3 DEF StableInv, Shape, Holds
  <2> QED
    BY <1>3, <2>3, <2>4, <2>5, PolicyAssumption DEF Holds
<1>13. \A o \in Requests : (FoundWarm(req[o]))' /\ (SentBlock(req[o]))'
  <2>1. (SentBlock(req[r]))'
    BY <1>2 DEF SentBlock
  <2>2. ASSUME NEW o \in Requests \ {r} PROVE (FoundWarm(req[o]))' /\ (SentBlock(req[o]))'
    BY <1>1, <1>2 DEF StableInv, FoundWarm, ToldWarm, SentBlock, Holds, Alive, Boundary
  <2> QED
    BY <1>12, <2>1, <2>2
<1>14. \A o \in Requests, k \in Models : (Informed(req[o], k))'
  <2>1. ASSUME NEW k \in Models PROVE (Informed(req[r], k))'
    <3>1. k = m
      BY DEF OneLane
    <3> QED
      BY <1>1, <1>2, <1>3, <1>6, <3>1 DEF Informed
  <2>2. ASSUME NEW o \in Requests \ {r}, NEW k \in Models PROVE (Informed(req[o], k))'
    BY <1>1, <1>2, <1>6 DEF StableInv, Informed
  <2> QED
    BY <2>1, <2>2
<1>15. ProjectionIsStable'
  BY <1>2 DEF StableInv, ProjectionIsStable, Rebuilt, SameCycle
<1> QED
  BY <1>9, <1>10, <1>11, <1>13, <1>14, <1>15 DEF StableInv

LEMMA EmitRequests ==
    ASSUME Shape, NEW r \in Requests, NEW text, Emit(r, text), req[r].phase = "decided"
    PROVE  /\ DOMAIN req' = Requests /\ req'[r] # Idle
           /\ req'[r].phase = "sent" /\ req'[r].model = req[r].model
           /\ req'[r].conv = req[r].conv
           /\ LaneOK(req'[r].lane) /\ req'[r].lane.lastTs = req[r].lane.lastTs
           /\ req'[r].class = req[r].class /\ req'[r].prior = req[r].prior
           /\ req'[r].boundary = Boundary(req[r].conv) /\ req'[r].text = text
           /\ \A o \in Requests \ {r} : req'[o] = req[o]
<1>1. LaneOK(req[r].lane)
  BY DEF Shape, RequestOK, Idle
<1>2. \A ln \in Floored(req[r].lane) : LaneOK(ln) /\ ln.lastTs = req[r].lane.lastTs
  BY <1>1 DEF Floored, LaneOK, DefaultLane, Tiers
<1> QED
  BY <1>2 DEF Shape, Emit, Idle

(* A handler that was told WARM sends the block of the request that warmed *)
(* its lane, and whoever sends anything else does so on a dead lane.       *)
LEMMA RebuildStable ==
    ASSUME StableInv, NEW r \in Requests, NEW t \in Texts, Rebuild(r, t)
    PROVE  StableInv'
<1> DEFINE c == req[r].conv
           text == IF req[r].class = "warm" /\ FrozenMatch(c)
                   THEN store[c].text ELSE Render(c, t)
<1>1. /\ clock' = clock /\ turns' = turns /\ lane' = lane /\ written' = written
      /\ Emit(r, text) /\ store' = SweptStore([store EXCEPT ![c] = Persisted(c, text)])
      /\ req[r].phase = "decided" /\ req[r] # Idle
  BY DEF Rebuild, Idle
<1>2. /\ c \in Conversations /\ LaneOK(req[r].lane) /\ clock \in Nat
      /\ req[r].lane.lastTs \in Nat /\ req[r].lane.lastTs <= clock
  BY <1>1, PolicyAssumption DEF StableInv, Shape, RequestOK, LaneOK
(* The frozen block is found by whoever the lane's block matters to.       *)
<1>3. store[c] # NoProjection /\ store[c].boundary = Boundary(c) /\ req[r].class = "warm"
          => text = store[c].text
  BY DEF FrozenMatch
<1> HIDE DEF text
<1>4. /\ DOMAIN req' = Requests /\ req'[r] # Idle
      /\ req'[r].phase = "sent" /\ req'[r].model = req[r].model
      /\ req'[r].conv = c
      /\ LaneOK(req'[r].lane) /\ req'[r].lane.lastTs = req[r].lane.lastTs
      /\ req'[r].class = req[r].class /\ req'[r].prior = req[r].prior
      /\ req'[r].boundary = Boundary(c) /\ req'[r].text = text
      /\ \A o \in Requests \ {r} : req'[o] = req[o]
  BY <1>1, EmitRequests DEF StableInv
<1>5. /\ DOMAIN store' = Conversations
      /\ store'[c] # NoProjection /\ store'[c].boundary = Boundary(c)
      /\ store'[c].text = text /\ store'[c].lastTs = clock
  <2>1. DOMAIN store' = Conversations /\ store'[c] = Persisted(c, text)
    BY <1>1, <1>2, StoreAfterRebuild DEF StableInv
  <2>2. DOMAIN Persisted(c, text) # DOMAIN NoProjection
    BY DEF Persisted, NoProjection
  <2>3. Persisted(c, text) # NoProjection
    BY <2>2
  <2> QED
    BY <2>1, <2>3 DEF Persisted
<1>6. \A e \in Conversations \ {c} :
          /\ store'[e] \in {store[e], NoProjection}
          /\ store[e] # NoProjection /\ store[e].lastTs >= clock - IdleEvict
                 => store'[e] = store[e]
  BY <1>1, <1>2, StoreAfterRebuild DEF StableInv
<1>7. \A o \in Requests \ {r} :
          req[o] # Idle => req[o].conv \in Conversations \ {c} /\ LaneOK(req[o].lane)
  BY <1>1 DEF StableInv, OnePerConversation, Shape, RequestOK
(* What was touched while a lane of now was alive is still there.          *)
<1>8. ASSUME NEW e \in Conversations \ {c}, NEW b, NEW x, NEW since \in Int,
             since >= clock - IdleEvict, Holds(e, b, x, since)
      PROVE  Holds(e, b, x, since)'
  <2>1. store[e].lastTs \in Nat
    BY <1>8 DEF Holds, StableInv, Shape
  <2>2. store'[e] = store[e]
    BY <1>2, <1>6, <1>8, <2>1, FreezeAssumption DEF Holds
  <2> QED
    BY <1>8, <2>2 DEF Holds
<1>9. Shape'
  <2>1. (RequestOK(req[r]))'
    BY <1>1, <1>4 DEF StableInv, Shape, RequestOK, LaneOK, Boundary
  <2>2. ASSUME NEW o \in Requests \ {r} PROVE (RequestOK(req[o]))'
    <3>1. RequestOK(req[o]) /\ req'[o] = req[o] /\ clock' = clock /\ turns' = turns
      BY <1>1, <1>4 DEF StableInv, Shape
    <3> QED
      BY <3>1 DEF RequestOK, LaneOK, Boundary
  <2>3. \A o \in Requests : (RequestOK(req[o]))'
    BY <2>1, <2>2
  <2>4. \A e \in Conversations : store'[e] # NoProjection => store'[e].lastTs \in Nat
    BY <1>2, <1>5, <1>6 DEF StableInv, Shape
  <2> QED
    BY <1>1, <1>4, <1>5, <2>3, <2>4 DEF StableInv, Shape, LaneOK
<1>10. OnePerConversation'
  BY <1>1, <1>4 DEF StableInv, OnePerConversation
<1>11. ASSUME NEW k \in Models PROVE WarmBlock(k)'
  <2> DEFINE w == written[k]
  <2>1. SUFFICES ASSUME Alive(lane[k]), w.text # NoBlock, w.boundary = Boundary(w.conv)
                 PROVE  Holds(w.conv, w.boundary, w.text, lane[k].lastTs)'
    BY <1>1 DEF WarmBlock, Alive, Boundary
  <2>2. Holds(w.conv, w.boundary, w.text, lane[k].lastTs)
    BY <2>1 DEF StableInv, WarmBlock
  <2>3. /\ lane[k].lastTs \in Nat /\ lane[k].lastTs <= clock
        /\ lane[k].lastTs >= clock - IdleEvict
    BY <1>2, <2>1, AliveIsRecent DEF StableInv, Shape
  <2>4. w.conv \in Conversations
    BY <2>1 DEF StableInv, Shape
  <2>5. CASE w.conv = c
    <3>1. req[r].class = "warm"
      BY <1>1, <2>1, <2>5 DEF StableInv, Informed
    <3>2. text = w.text
      BY <1>3, <2>1, <2>2, <2>5, <3>1 DEF Holds
    <3> QED
      BY <1>1, <1>2, <1>5, <2>1, <2>3, <2>5, <3>2 DEF Holds
  <2>6. CASE w.conv # c
    <3> DEFINE e == w.conv
               since == lane[k].lastTs
    <3>1. /\ e \in Conversations \ {c} /\ since \in Int /\ since >= clock - IdleEvict
          /\ Holds(e, w.boundary, w.text, since)
      BY <2>2, <2>3, <2>4, <2>6
    <3>2. /\ store'[e] # NoProjection
          /\ store'[e].boundary = w.boundary /\ store'[e].text = w.text
          /\ store'[e].lastTs >= since
      <4> HIDE DEF e, w, since
      <4> QED
        BY <1>8, <3>1 DEF Holds
    <3> QED
      BY <1>1, <3>2 DEF Holds
  <2> QED
    BY <2>5, <2>6
<1>12. ASSUME NEW o \in Requests PROVE (FoundWarm(req[o]))'
  <2>1. CASE o = r
    BY <1>4, <2>1 DEF FoundWarm, ToldWarm
  <2>2. CASE o # r
    <3> DEFINE q == req[o]
    <3>1. SUFFICES ASSUME ToldWarm(q)
                   PROVE  Holds(q.conv, q.prior.boundary, q.prior.text, q.lane.lastTs - OneHour)'
      BY <1>1, <1>4, <2>2 DEF FoundWarm, ToldWarm, Boundary
    <3>2. Holds(q.conv, q.prior.boundary, q.prior.text, q.lane.lastTs - OneHour)
      BY <3>1 DEF StableInv, FoundWarm
    <3>3. q # Idle /\ q.phase = "decided"
      BY <3>1 DEF ToldWarm, Idle
    <3>4. /\ q.conv \in Conversations \ {c}
          /\ q.lane.lastTs \in Nat /\ clock - q.lane.lastTs <= HandlingTime
      BY <1>7, <2>2, <3>3 DEF StableInv, Shape, RequestOK
    <3>5. q.lane.lastTs - OneHour \in Int /\ q.lane.lastTs - OneHour >= clock - IdleEvict
      BY <1>2, <3>4, PolicyAssumption, FreezeAssumption
    <3> QED
      BY <1>4, <1>8, <2>2, <3>2, <3>4, <3>5 DEF Holds
  <2> QED
    BY <2>1, <2>2
<1>13. ASSUME NEW o \in Requests PROVE (SentBlock(req[o]))'
  <2>1. CASE o = r
    BY <1>1, <1>2, <1>4, <1>5, <2>1 DEF SentBlock, Holds
  <2>2. CASE o # r
    <3> DEFINE q == req[o]
    <3>1. SUFFICES ASSUME q.phase = "sent", q.text # NoBlock, Alive(q.lane)
                   PROVE  Holds(q.conv, q.boundary, q.text, q.lane.lastTs)'
      BY <1>1, <1>4, <2>2 DEF SentBlock, Alive
    <3>2. Holds(q.conv, q.boundary, q.text, q.lane.lastTs)
      BY <3>1 DEF StableInv, SentBlock
    <3>3. q # Idle
      BY <3>1 DEF Idle
    <3>4. q.conv \in Conversations \ {c} /\ LaneOK(q.lane)
      BY <1>7, <2>2, <3>3
    <3>5. q.lane.lastTs \in Nat /\ q.lane.lastTs >= clock - IdleEvict
      BY <1>2, <3>1, <3>4, AliveIsRecent
    <3> QED
      BY <1>4, <1>8, <2>2, <3>2, <3>4, <3>5 DEF Holds
  <2> QED
    BY <2>1, <2>2
<1>14. \A o \in Requests, k \in Models : (Informed(req[o], k))'
  BY <1>1, <1>4 DEF StableInv, Informed, Alive
<1>15. ProjectionIsStable'
  <2>1. SUFFICES ASSUME req[r].class = "warm", req[r].prior.text # NoBlock,
                        req[r].prior.conv = c, req[r].prior.boundary = Boundary(c)
                 PROVE  text = req[r].prior.text
    BY <1>4 DEF StableInv, ProjectionIsStable, Rebuilt, SameCycle
  <2>2. ToldWarm(req[r])
    BY <1>1, <2>1 DEF ToldWarm
  <2>3. Holds(c, req[r].prior.boundary, req[r].prior.text, req[r].lane.lastTs - OneHour)
    BY <2>2 DEF StableInv, FoundWarm
  <2> QED
    BY <1>3, <2>1, <2>3 DEF Holds
<1> QED
  BY <1>9, <1>10, <1>11, <1>12, <1>13, <1>14, <1>15 DEF StableInv

LEMMA SkippedStable ==
    ASSUME StableInv, NEW r \in Requests, RebuildSkipped(r)
    PROVE  StableInv'
<1>1. /\ clock' = clock /\ turns' = turns /\ lane' = lane /\ store' = store /\ written' = written
      /\ Emit(r, NoBlock) /\ req[r].phase = "decided" /\ req[r] # Idle
  BY DEF RebuildSkipped, Idle
<1>2. /\ DOMAIN req' = Requests /\ req'[r] # Idle
      /\ req'[r].phase = "sent" /\ req'[r].model = req[r].model
      /\ req'[r].conv = req[r].conv
      /\ LaneOK(req'[r].lane) /\ req'[r].lane.lastTs = req[r].lane.lastTs
      /\ req'[r].boundary = Boundary(req[r].conv) /\ req'[r].text = NoBlock
      /\ \A o \in Requests \ {r} : req'[o] = req[o]
  BY <1>1, EmitRequests DEF StableInv
<1>3. \A o \in Requests : (RequestOK(req[o]))'
  <2>1. (RequestOK(req[r]))'
    BY <1>1, <1>2 DEF StableInv, Shape, RequestOK, LaneOK, Boundary
  <2>2. ASSUME NEW o \in Requests \ {r} PROVE (RequestOK(req[o]))'
    <3>1. RequestOK(req[o]) /\ req'[o] = req[o] /\ clock' = clock /\ turns' = turns
      BY <1>1, <1>2 DEF StableInv, Shape
    <3> QED
      BY <3>1 DEF RequestOK, LaneOK, Boundary
  <2> QED
    BY <2>1, <2>2
<1>4. Shape'
  BY <1>1, <1>2, <1>3 DEF StableInv, Shape, LaneOK
<1>5. OnePerConversation'
  BY <1>1, <1>2 DEF StableInv, OnePerConversation
<1>6. \A m \in Models : WarmBlock(m)'
  BY <1>1 DEF StableInv, WarmBlock, Holds, Alive, Boundary
<1>7. \A o \in Requests : (FoundWarm(req[o]))' /\ (SentBlock(req[o]))'
  <2>1. (FoundWarm(req[r]))' /\ (SentBlock(req[r]))'
    BY <1>2 DEF FoundWarm, ToldWarm, SentBlock
  <2>2. ASSUME NEW o \in Requests \ {r} PROVE (FoundWarm(req[o]))' /\ (SentBlock(req[o]))'
    BY <1>1, <1>2 DEF StableInv, FoundWarm, ToldWarm, SentBlock, Holds, Alive, Boundary
  <2> QED
    BY <2>1, <2>2
<1>8. \A o \in Requests, m \in Models : (Informed(req[o], m))'
  BY <1>1, <1>2 DEF StableInv, Informed, Alive
<1>9. ProjectionIsStable'
  BY <1>2 DEF StableInv, ProjectionIsStable, Rebuilt, SameCycle
<1> QED
  BY <1>4, <1>5, <1>6, <1>7, <1>8, <1>9 DEF StableInv

LEMMA FailStable ==
    ASSUME StableInv, NEW r \in Requests, Fail(r)
    PROVE  StableInv'
<1>1. /\ clock' = clock /\ turns' = turns /\ lane' = lane /\ store' = store /\ written' = written
      /\ DOMAIN req' = Requests /\ req'[r] = Idle
      /\ \A o \in Requests \ {r} : req'[o] = req[o]
  BY DEF Fail, StableInv, Shape
<1>2. ASSUME NEW o \in Requests PROVE (RequestOK(req[o]))'
  <2>1. RequestOK(req[o]) /\ req'[o] \in {req[o], Idle}
    BY <1>1 DEF StableInv, Shape
  <2> QED
    BY <1>1, <2>1 DEF RequestOK, LaneOK, Boundary
<1>3. Shape'
  BY <1>1, <1>2 DEF StableInv, Shape, LaneOK
<1>4. OnePerConversation'
  BY <1>1 DEF StableInv, OnePerConversation
<1>5. \A m \in Models : WarmBlock(m)'
  BY <1>1 DEF StableInv, WarmBlock, Holds, Alive, Boundary
<1>6. \A o \in Requests : (FoundWarm(req[o]))' /\ (SentBlock(req[o]))'
  BY <1>1 DEF StableInv, FoundWarm, ToldWarm, SentBlock, Holds, Alive, Boundary, Idle
<1>7. \A o \in Requests, m \in Models : (Informed(req[o], m))'
  BY <1>1 DEF StableInv, Informed, Alive, Idle
<1>8. ProjectionIsStable'
  BY <1>1 DEF StableInv, ProjectionIsStable, Rebuilt, SameCycle, Idle
<1> QED
  BY <1>3, <1>4, <1>5, <1>6, <1>7, <1>8 DEF StableInv

(* A commit either leaves the lane alone or makes it the sender's, whose   *)
(* block is in the store.                                                  *)
LEMMA FinishStable ==
    ASSUME StableInv, NEW r \in Requests, Finish(r)
    PROVE  StableInv'
<1> DEFINE q == req[r]
           m == q.model
           kept == CommitPolicyLane(lane[m], q.lane)
           w == [conv |-> q.conv, boundary |-> q.boundary, text |-> q.text]
<1>1. /\ clock' = clock /\ turns' = turns /\ store' = store
      /\ lane' = [lane EXCEPT ![m] = kept]
      /\ written' = IF kept # q.lane THEN written ELSE [written EXCEPT ![m] = w]
      /\ q.phase = "sent" /\ q # Idle
  BY DEF Finish, Idle
<1>2. /\ DOMAIN req' = Requests /\ req'[r] = Idle
      /\ \A o \in Requests \ {r} : req'[o] = req[o]
  BY DEF Finish, StableInv, Shape
<1>3. /\ m \in Models /\ q.conv \in Conversations /\ LaneOK(q.lane)
      /\ q.boundary = Boundary(q.conv)
  BY <1>1 DEF StableInv, Shape, RequestOK
(* The two outcomes. *)
<1>4. /\ DOMAIN lane' = Models /\ DOMAIN written' = Models
      /\ \A k \in Models \ {m} : lane'[k] = lane[k] /\ written'[k] = written[k]
      /\ \/ lane'[m] = lane[m] /\ written'[m] = written[m]
         \/ /\ lane'[m] = q.lane /\ written'[m].conv = q.conv
            /\ written'[m].boundary = q.boundary /\ written'[m].text = q.text
  <2>1. CASE kept = q.lane
    BY <1>1, <1>3, <2>1 DEF StableInv, Shape
  <2>2. CASE kept # q.lane
    <3>1. kept = lane[m]
      BY <2>2 DEF CommitPolicyLane
    <3> QED
      BY <1>1, <1>3, <2>2, <3>1 DEF StableInv, Shape
  <2> QED
    BY <2>1, <2>2
<1>5. ASSUME NEW o \in Requests PROVE (RequestOK(req[o]))'
  <2>1. RequestOK(req[o]) /\ req'[o] \in {req[o], Idle} /\ clock' = clock /\ turns' = turns
    BY <1>1, <1>2 DEF StableInv, Shape
  <2> QED
    BY <2>1 DEF RequestOK, LaneOK, Boundary
<1>6. ASSUME NEW k \in Models
      PROVE  /\ (LaneOK(lane[k]))'
             /\ WarmBlock(k)'
             /\ written'[k].text # NoBlock =>
                    /\ written'[k].conv \in Conversations
                    /\ written'[k].boundary.idx \in Nat
                    /\ written'[k].boundary.idx <= Len(turns[written'[k].conv])
  <2>1. CASE lane'[k] = lane[k] /\ written'[k] = written[k]
    <3>1. clock' = clock /\ turns' = turns /\ store' = store
      BY <1>1
    <3>2. LaneOK(lane[k]) /\ WarmBlock(k)
      BY DEF StableInv, Shape
    <3>3. (LaneOK(lane[k]))'
      BY <2>1, <3>1, <3>2 DEF LaneOK
    <3>4. WarmBlock(k)'
      BY <2>1, <3>1, <3>2 DEF WarmBlock, Holds, Alive, Boundary
    <3> QED
      BY <2>1, <3>3, <3>4 DEF StableInv, Shape
  <2>2. CASE /\ lane'[k] = q.lane /\ written'[k].conv = q.conv
             /\ written'[k].boundary = q.boundary /\ written'[k].text = q.text
    <3>1. (LaneOK(lane[k]))'
      BY <1>1, <1>3, <2>2 DEF LaneOK
    <3>2. WarmBlock(k)'
      <4>1. SentBlock(q) /\ q.phase = "sent" /\ clock' = clock /\ store' = store
        BY <1>1 DEF StableInv
      <4> HIDE DEF q
      <4> QED
        BY <2>2, <4>1 DEF SentBlock, WarmBlock, Holds, Alive
    <3>3. q.boundary.idx = Len(turns[q.conv]) /\ Len(turns[q.conv]) \in Nat
      BY <1>3 DEF Boundary, StableInv, Shape
    <3> QED
      BY <1>3, <2>2, <3>1, <3>2, <3>3
  <2> QED
    BY <1>4, <2>1, <2>2
<1>7. Shape'
  BY <1>1, <1>2, <1>4, <1>5, <1>6 DEF StableInv, Shape
<1>8. OnePerConversation'
  BY <1>2 DEF StableInv, OnePerConversation
<1>9. \A o \in Requests : (FoundWarm(req[o]))' /\ (SentBlock(req[o]))'
  BY <1>1, <1>2 DEF StableInv, FoundWarm, ToldWarm, SentBlock, Holds, Alive, Boundary, Idle
<1>10. ASSUME NEW o \in Requests, NEW k \in Models PROVE (Informed(req[o], k))'
  <2>1. CASE o = r
    BY <1>2, <2>1 DEF Informed, Idle
  <2>2. CASE o # r /\ req[o].phase # "decided"
    BY <1>2, <2>2 DEF Informed
  <2>3. CASE o # r /\ req[o].phase = "decided"
    <3>1. req[o].conv # q.conv
      BY <1>1, <2>3 DEF StableInv, OnePerConversation, Idle
    <3>2. CASE lane'[k] = lane[k] /\ written'[k] = written[k]
      BY <1>1, <1>2, <2>3, <3>2 DEF StableInv, Informed, Alive
    <3>3. CASE written'[k].conv = q.conv
      BY <1>2, <2>3, <3>1, <3>3 DEF Informed
    <3> QED
      BY <1>4, <3>2, <3>3
  <2> QED
    BY <2>1, <2>2, <2>3
<1>11. ProjectionIsStable'
  BY <1>2 DEF StableInv, ProjectionIsStable, Rebuilt, SameCycle, Idle
<1> QED
  BY <1>6, <1>7, <1>8, <1>9, <1>10, <1>11 DEF StableInv

LEMMA StableStep == ASSUME OneLane PROVE StableInv /\ [Next]_vars => StableInv'
<1> SUFFICES ASSUME StableInv, [Next]_vars PROVE StableInv'
  OBVIOUS
<1>1. CASE UNCHANGED vars
  <2>1. /\ clock' = clock /\ turns' = turns /\ lane' = lane
        /\ store' = store /\ req' = req /\ written' = written
    BY <1>1 DEF vars
  <2>2. \A r \in Requests : (RequestOK(req[r]))'
    BY <2>1 DEF StableInv, Shape, RequestOK, LaneOK, Boundary
  <2>3. Shape'
    BY <2>1, <2>2 DEF StableInv, Shape, LaneOK
  <2>4. \A m \in Models : WarmBlock(m)'
    BY <2>1 DEF StableInv, WarmBlock, Holds, Alive, Boundary
  <2>5. \A r \in Requests : (FoundWarm(req[r]))' /\ (SentBlock(req[r]))'
    BY <2>1 DEF StableInv, FoundWarm, ToldWarm, SentBlock, Holds, Alive, Boundary
  <2>6. \A r \in Requests, m \in Models : (Informed(req[r], m))'
    BY <2>1 DEF StableInv, Informed, Alive
  <2> QED
    BY <2>1, <2>3, <2>4, <2>5, <2>6
       DEF StableInv, OnePerConversation, ProjectionIsStable, Rebuilt, SameCycle
<1> QED
  BY <1>1, TickStable, RestartStable, UserTurnStable, ArriveStable, RebuildStable, SkippedStable,
     FailStable, FinishStable DEF Next

(* Where every request goes to one lane, what a WARM lane is sent is what  *)
(* the request that warmed it sent, as long as the conversation has not    *)
(* gone on (frozen_match in apply_rebuild).                                *)
THEOREM StableProjection == ASSUME OneLane PROVE Spec => []ProjectionIsStable
<1>1. StableInv => ProjectionIsStable
  BY DEF StableInv
<1> QED
  BY StableInit, StableStep, <1>1, PTL DEF Spec
=============================================================================
