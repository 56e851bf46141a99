----------------------- MODULE RequestPipeline_proofs -----------------------
(***************************************************************************)
(* TLAPS proofs about RequestPipeline, for any number of clients, sessions *)
(* and starts, any configurations and bodies, and any depth a request is   *)
(* allowed to come back to.                                                *)
(***************************************************************************)
EXTENDS RequestPipeline, FiniteSetTheorems, TLAPS

(***************************************************************************)
(* Shapes.                                                                 *)
(***************************************************************************)
Counted == [turns : Int, total : Int]

Held == {"ready", "waiting", "streaming", "broken"}
Settled == {"accounting", "writing"}

LiveRecord ==
    [phase : {"arrived"} \cup Held \cup Settled, route : Routes, session : Sessions,
     body : Bodies, hop : BOOLEAN, parent : Requests, capture : {"none", "open", "closed"},
     recorded : Int, sent : BOOLEAN, status : Int, prior : Counted, usage : Usages,
     rows : Seq({"turn", "reduce"})]

(* A handler between a row and its newline still has that row on its list. *)
Live == {q \in LiveRecord : q.phase = "writing" => q.rows # <<>>}

Done ==
    [phase : {"answered", "gone"}, hop : BOOLEAN, parent : Requests,
     capture : {"none", "open", "closed"}, recorded : Int, sent : BOOLEAN, status : Int]

Entry ==
    [by : Requests \cup {NoTask}, kind : {"turn", "reduce", "newline"},
     session : Sessions \cup {"none"}, ratio : Int]

PipelineType ==
    /\ req \in [Requests -> Live \cup Done \cup {Blank}]
    /\ amp \in [Sessions -> Counted]
    /\ ledger \in Seq(Entry)

LEMMA RatioIsNat == ASSUME NEW u \in Usages PROVE AmpRatio(u) \in Nat
<1>1. u.input \in Nat /\ u.read \in Nat
  BY PipelineAssumption
<1>2. CASE u.input = 0
  BY <1>2 DEF AmpRatio
<1>3. CASE u.input # 0
  BY <1>1, <1>3 DEF AmpRatio
<1> QED
  BY <1>2, <1>3

LEMMA OverIsDone ==
    ASSUME NEW q \in Live, NEW phase \in {"answered", "gone"}, NEW status \in Int
    PROVE  Over(q, phase, status) \in Done
BY DEF Over, Live, LiveRecord, Done

LEMMA NewIsLive ==
    ASSUME NEW route \in Routes, NEW s \in Sessions, NEW body \in Bodies,
           NEW hop \in BOOLEAN, NEW parent \in Requests
    PROVE  NewRequest(route, s, body, hop, parent) \in Live
BY PipelineAssumption DEF NewRequest, Live, LiveRecord, Counted, Fresh

LEMMA ClosedIsLive ==
    ASSUME NEW q \in Live, NEW status \in Int
    PROVE  /\ Closed(q, status) \in Live
           /\ Closed(q, status).status = q.status /\ Closed(q, status).phase = q.phase
           /\ Closed(q, status).hop = q.hop /\ Closed(q, status).parent = q.parent
           /\ Closed(q, status).sent = q.sent
           /\ q.capture = "open" =>
                  Closed(q, status).capture = "closed" /\ Closed(q, status).recorded = status
BY DEF Closed, Live, LiveRecord

LEMMA SentIsDone ==
    ASSUME NEW q \in Done, NEW sent \in BOOLEAN
    PROVE  [q EXCEPT !.sent = sent] \in Done
BY DEF Done

LEMMA PhaseIsLive ==
    ASSUME NEW q \in Live, NEW phase \in {"arrived"} \cup Held \cup Settled,
           phase = "writing" => q.rows # <<>>
    PROVE  [q EXCEPT !.phase = phase] \in Live
BY DEF Live, LiveRecord

LEMMA SentIsLive ==
    ASSUME NEW q \in Live, NEW sent \in BOOLEAN
    PROVE  [q EXCEPT !.sent = sent] \in Live
BY DEF Live, LiveRecord

LEMMA StatusIsLive ==
    ASSUME NEW q \in Live, NEW status \in Int
    PROVE  [q EXCEPT !.status = status] \in Live
BY DEF Live, LiveRecord

LEMMA PipelineTypeInit == Init => PipelineType
BY DEF Init, PipelineType, Fresh, Counted

LEMMA LiveRequest ==
    ASSUME PipelineType, NEW r \in Requests,
           req[r].phase \in {"arrived"} \cup Held \cup Settled
    PROVE  req[r] \in Live
BY DEF PipelineType, Done, Blank, Held, Settled

LEMMA PipelineTypeStep == PipelineType /\ [Next]_vars => PipelineType'
<1> SUFFICES ASSUME PipelineType, [Next]_vars PROVE PipelineType'
  OBVIOUS
<1>1. ASSUME NEW setup \in Setups, Boot(setup) PROVE PipelineType'
  BY <1>1 DEF Boot, PipelineType, Fresh, Counted
<1>2. CASE Crash
  <2>1. \A r \in Requests : InFlight(r) => Over(req[r], "gone", 0) \in Done
    <3> TAKE r \in Requests
    <3> HAVE InFlight(r)
    <3>1. req[r] \in Live
      BY DEF InFlight, PipelineType, Done, Blank
    <3> QED
      BY <3>1, OverIsDone
  <2> QED
    BY <1>2, <2>1 DEF Crash, PipelineType
<1>3. ASSUME NEW r \in Requests, NEW route \in Routes, NEW s \in Sessions, NEW body \in Bodies,
             Arrive(r, route, s, body)
      PROVE  PipelineType'
  BY <1>3, NewIsLive DEF Arrive, PipelineType
<1>4. ASSUME NEW r \in Requests, TurnAway(r) PROVE PipelineType'
  <2>1. req[r] \in Live
    BY <1>4, LiveRequest DEF TurnAway
  <2> QED
    BY <1>4, <2>1, OverIsDone DEF TurnAway, Answered, PipelineType
<1>5. ASSUME NEW r \in Requests, Prepare(r) PROVE PipelineType'
  <2> DEFINE q == [req[r] EXCEPT !.capture = "open", !.prior = amp[req[r].session]]
  <2>1. req[r] \in Live
    BY <1>5, LiveRequest DEF Prepare
  <2>2. q \in Live /\ [q EXCEPT !.phase = "ready"] \in Live
    BY <2>1 DEF Live, LiveRecord, PipelineType, Held
  <2>3. Refusal(q) \in Int
    BY DEF Refusal
  <2>4. Refuse(q, Refusal(q)) \in Done
    BY <2>2, <2>3, ClosedIsLive, OverIsDone DEF Refuse, Answered
  <2>5. /\ UNCHANGED <<amp, ledger>>
        /\ req' = [req EXCEPT ![r] =
               IF Refusal(q) # 0 THEN Refuse(q, Refusal(q)) ELSE [q EXCEPT !.phase = "ready"]]
    BY <1>5 DEF Prepare
  <2> HIDE DEF q
  <2> QED
    BY <2>2, <2>4, <2>5 DEF PipelineType
<1>6. ASSUME NEW r \in Requests, Unreachable(r) PROVE PipelineType'
  <2>1. req[r] \in Live
    BY <1>6, LiveRequest DEF Unreachable, Held
  <2> DEFINE done == Refuse(req[r], 502)
  <2>2. done \in Done
    BY <2>1, ClosedIsLive, OverIsDone DEF Refuse, Answered
  <2>3. /\ req' = [req EXCEPT ![r] = [done EXCEPT !.sent = TRUE]]
        /\ UNCHANGED <<amp, ledger>>
    BY <1>6 DEF Unreachable
  <2> HIDE DEF done
  <2>4. [done EXCEPT !.sent = TRUE] \in Done
    BY <2>2, SentIsDone
  <2> QED
    BY <2>3, <2>4 DEF PipelineType
<1>7. ASSUME NEW r \in Requests, NEW st \in Statuses, Respond(r, st) PROVE PipelineType'
  <2>1. req[r] \in Live
    BY <1>7, LiveRequest DEF Respond, Held
  <2>2. [req[r] EXCEPT !.phase = "streaming", !.sent = TRUE, !.status = st] \in Live
    <3> DEFINE q1 == [req[r] EXCEPT !.phase = "streaming"]
               q2 == [q1 EXCEPT !.sent = TRUE]
               q3 == [q2 EXCEPT !.status = st]
    <3>1. q1 \in Live
      BY <2>1, PhaseIsLive DEF Held
    <3>2. q2 \in Live
      BY <3>1, SentIsLive
    <3>3. q3 \in Live
      <4>1. st \in Int
        BY DEF Statuses
      <4> HIDE DEF q2
      <4> QED
        BY <3>2, <4>1, StatusIsLive
    <3> QED
      BY <3>3
  <2> QED
    BY <1>7, <2>2 DEF Respond, PipelineType
<1>8. ASSUME NEW r \in Requests, LoopBack(r) PROVE PipelineType'
  <2> DEFINE n == <<r[1], r[2] + 1>>
  <2>1. req[r] \in Live
    BY <1>8, LiveRequest DEF LoopBack, Held
  <2>2. [req[r] EXCEPT !.phase = "waiting", !.sent = TRUE] \in Live
    BY <2>1 DEF Live, LiveRecord, Held
  <2>3. NewRequest(req[r].route, req[r].session, req[r].body, TRUE, r) \in Live
    BY <2>1, NewIsLive DEF Live, LiveRecord
  <2> QED
    BY <1>8, <2>2, <2>3 DEF LoopBack, PipelineType
<1>9. ASSUME NEW r \in Requests, LoopAnswers(r) PROVE PipelineType'
  <2> DEFINE n == <<r[1], r[2] + 1>>
  <2>1. req[r] \in Live
    BY <1>9, LiveRequest DEF LoopAnswers, Held
  <2>2. n \in Requests
    BY <1>9 DEF LoopAnswers
  <2>3. req[n].status \in Int
    BY <1>9, <2>2 DEF LoopAnswers, PipelineType, Live, LiveRecord, Done, Blank
  <2>4. [req[r] EXCEPT !.phase = "streaming", !.status = req[n].status] \in Live
    <3> DEFINE q1 == [req[r] EXCEPT !.phase = "streaming"]
    <3>1. q1 \in Live
      BY <2>1, PhaseIsLive DEF Held
    <3>2. [q1 EXCEPT !.status = req[n].status] \in Live
      BY <2>3, <3>1, StatusIsLive
    <3> QED
      BY <3>2
  <2> QED
    BY <1>9, <2>2, <2>4 DEF LoopAnswers, PipelineType
<1>10. ASSUME NEW r \in Requests, Break(r) PROVE PipelineType'
  <2>1. req[r] \in Live
    BY <1>10, LiveRequest DEF Break, Held
  <2>2. [req[r] EXCEPT !.phase = "broken"] \in Live
    BY <2>1 DEF Live, LiveRecord, Held
  <2> QED
    BY <1>10, <2>2 DEF Break, PipelineType
<1>11. ASSUME NEW r \in Requests, NEW u \in Usages, Finish(r, u) PROVE PipelineType'
  <2> DEFINE q == Closed(req[r], req[r].status)
  <2>1. req[r] \in Live
    BY <1>11, LiveRequest DEF Finish, StreamOver, Held
  <2>2. q \in Live /\ q.status \in Int
    BY <2>1, ClosedIsLive DEF Live, LiveRecord
  <2>3. RowsOf(q, u) \in Seq({"turn", "reduce"})
    <3>1. RowsOf(q, u) \in {<<>>, <<"turn">>, <<"turn", "reduce">>}
      BY DEF RowsOf
    <3>2. /\ <<>> \in Seq({"turn", "reduce"}) /\ <<"turn">> \in Seq({"turn", "reduce"})
          /\ <<"turn", "reduce">> \in Seq({"turn", "reduce"})
      OBVIOUS
    <3> HIDE DEF q
    <3> QED
      BY <3>1, <3>2, Zenon
  <2>4. [q EXCEPT !.phase = "accounting", !.usage = u, !.rows = RowsOf(q, u)] \in Live
    BY <2>2, <2>3 DEF Live, LiveRecord, Settled
  <2>5. Answered(q, q.status) \in Done
    BY <2>2, OverIsDone DEF Answered
  <2>6. /\ UNCHANGED <<amp, ledger>>
        /\ req' = [req EXCEPT ![r] =
                  IF RowsOf(q, u) = <<>> THEN Answered(q, q.status)
                  ELSE [q EXCEPT !.phase = "accounting", !.usage = u, !.rows = RowsOf(q, u)]]
    BY <1>11 DEF Finish
  <2> HIDE DEF q
  <2> QED
    BY <2>4, <2>5, <2>6 DEF PipelineType
<1>12. ASSUME NEW r \in Requests, WriteRow(r) PROVE PipelineType'
  <2> DEFINE q == req[r]
             e == [by |-> r, kind |-> Head(q.rows), session |-> q.session,
                   ratio |-> AmpRatio(q.usage)]
  <2>1. q \in Live
    BY <1>12, LiveRequest DEF WriteRow, Settled
  <2>2. q.usage \in Usages /\ q.session \in Sessions
    BY <2>1 DEF Live, LiveRecord
  <2>3. Head(q.rows) \in {"turn", "reduce"}
    BY <1>12, <2>1 DEF WriteRow, Live, LiveRecord
  <2>4. e \in Entry
    BY <2>2, <2>3, RatioIsNat DEF Entry
  <2>5. [q EXCEPT !.phase = "writing"] \in Live
    BY <1>12, <2>1, PhaseIsLive DEF WriteRow, Settled
  <2>6. ledger' = Append(ledger, e) /\ req' = [req EXCEPT ![r].phase = "writing"] /\ UNCHANGED amp
    BY <1>12 DEF WriteRow
  <2> HIDE DEF e
  <2> QED
    BY <2>4, <2>5, <2>6 DEF PipelineType
<1>13. ASSUME NEW r \in Requests, EndRow(r) PROVE PipelineType'
  <2>1. req[r] \in Live
    BY <1>13, LiveRequest DEF EndRow, Settled
  <2>2. EndOfRow \in Entry
    BY DEF EndOfRow, Entry
  <2>3. [req[r] EXCEPT !.phase = "accounting", !.rows = Tail(@)] \in Live
    <3> DEFINE q1 == [req[r] EXCEPT !.phase = "accounting"]
               rest == Tail(req[r].rows)
    <3>1. q1 \in Live /\ q1.phase = "accounting"
      BY <2>1, PhaseIsLive DEF Settled, Live, LiveRecord
    <3>2. rest \in Seq({"turn", "reduce"})
      BY <1>13, <2>1 DEF EndRow, Live, LiveRecord
    <3> HIDE DEF q1, rest
    <3>3. [q1 EXCEPT !.rows = rest] \in Live
      BY <3>1, <3>2 DEF Live, LiveRecord
    <3> QED
      BY <3>3 DEF q1, rest
  <2> QED
    BY <1>13, <2>2, <2>3 DEF EndRow, PipelineType
<1>14. ASSUME NEW r \in Requests, Account(r) PROVE PipelineType'
  <2>1. req[r] \in Live
    BY <1>14, LiveRequest DEF Account, Settled
  <2>2. /\ req[r].session \in Sessions /\ req[r].usage \in Usages
        /\ req[r].status \in Int
    BY <2>1 DEF Live, LiveRecord
  <2>3. Fold(req[r], amp[req[r].session]) \in Counted
    BY <2>2, RatioIsNat DEF Fold, PipelineType, Counted
  <2>4. Answered(req[r], req[r].status) \in Done
    BY <2>1, <2>2, OverIsDone DEF Answered
  <2> QED
    BY <1>14, <2>2, <2>3, <2>4 DEF Account, PipelineType
<1>15. ASSUME NEW r \in Requests, HangUp(r) PROVE PipelineType'
  <2>1. req[r] \in Live
    BY <1>15, LiveRequest DEF HangUp, Held
  <2> QED
    BY <1>15, <2>1, OverIsDone DEF HangUp, PipelineType
<1>16. CASE UNCHANGED vars
  BY <1>16 DEF vars, PipelineType
<1> QED
  BY <1>1, <1>2, <1>3, <1>4, <1>5, <1>6, <1>7, <1>8, <1>9, <1>10, <1>11, <1>12,
     <1>13, <1>14, <1>15, <1>16 DEF Next, HandlerStep, ProviderStep
-----------------------------------------------------------------------------
(***************************************************************************)
(* Loops.  A request of a client may come back once.  What came back is    *)
(* never anywhere but at the door or over, and the request it came from    *)
(* waits for it, has been told its status, or is gone.                     *)
(***************************************************************************)
Told == {"streaming", "broken", "accounting", "writing", "answered"}

Return(r) ==
    LET q == req[r]
        parent == req[<<r[1], 0>>]
    IN  /\ q.hop /\ q.parent = <<r[1], 0>>
        /\ q.phase \in {"arrived", "answered", "gone"}
        /\ ~q.sent /\ q.capture = "none"
        /\ q.phase = "answered" => q.status \in {413, 508}
        /\ parent.phase \in {"waiting", "gone"} \cup Told
        /\ parent.phase \in Told => q.phase = "answered" /\ parent.status = q.status

LoopInv ==
    \A r \in Requests :
        /\ r[2] = 0 /\ req[r] # Blank => ~req[r].hop /\ req[r].parent = r
        /\ r[2] = 1 /\ req[r] # Blank => Return(r)
        /\ r[2] > 1 => req[r] = Blank

LEMMA RequestPair ==
    ASSUME NEW r \in Requests
    PROVE  /\ r = <<r[1], r[2]>> /\ r[1] \in Clients /\ r[2] \in Nat
           /\ <<r[1], 0>> \in Requests /\ <<r[1], 1>> \in Requests
BY PipelineAssumption DEF Requests

LEMMA ClientPair ==
    ASSUME NEW r \in Requests, r[2] = 0
    PROVE  r = <<r[1], 0>> /\ <<r[1], 1>> \in Requests /\ <<r[1], 1>> # r
<1>1. r = <<r[1], r[2]>> /\ <<r[1], 1>> \in Requests
  BY RequestPair
<1> QED
  BY <1>1

(* A step of one handler: a request that came back is turned away or lost; *)
(* one that has come back is told its status and keeps it.                 *)
Moves(r, new) ==
    /\ r[2] = 1 =>
           /\ req[r].phase = "arrived" /\ new.phase \in {"answered", "gone"}
           /\ ~new.sent /\ new.capture = "none"
           /\ new.phase = "answered" => new.status \in {413, 508}
    /\ r[2] = 0 =>
           \/ req[r].phase \in {"arrived", "ready"}
           \/ new.phase = "gone"
           \/ req[r].phase \in Told /\ new.phase \in Told /\ new.status = req[r].status
           \/ /\ req[r].phase = "waiting" /\ new.phase = "streaming"
              /\ req[<<r[1], 1>>].phase = "answered"
              /\ new.status = req[<<r[1], 1>>].status

LEMMA LoopFrame ==
    ASSUME PipelineType, LoopInv, NEW r \in Requests, NEW new,
           req' = [req EXCEPT ![r] = new], req[r] # Blank, new # Blank,
           new.hop = req[r].hop, new.parent = req[r].parent,
           Moves(r, new)
    PROVE  LoopInv'
<1> SUFFICES ASSUME NEW o \in Requests
             PROVE  /\ o[2] = 0 /\ req'[o] # Blank => ~req'[o].hop /\ req'[o].parent = o
                    /\ o[2] = 1 /\ req'[o] # Blank => Return(o)'
                    /\ o[2] > 1 => req'[o] = Blank
  BY DEF LoopInv
<1>1. r[2] \in {0, 1}
  <2>1. r[2] \in Nat
    BY RequestPair
  <2>2. ~(r[2] > 1)
    BY DEF LoopInv
  <2> QED
    BY <2>1, <2>2
<1>2. req'[r] = new /\ \A x \in Requests : x # r => req'[x] = req[x]
  BY DEF PipelineType
<1>3. o[2] = 0 /\ req'[o] # Blank => ~req'[o].hop /\ req'[o].parent = o
  BY <1>2 DEF LoopInv
<1>4. o[2] > 1 => req'[o] = Blank
  BY <1>1, <1>2 DEF LoopInv
<1>5. ASSUME o[2] = 1, req'[o] # Blank PROVE Return(o)'
  <2> DEFINE p == <<o[1], 0>>
  <2>1. p \in Requests /\ p # o /\ o = <<o[1], 1>> /\ p[2] = 0 /\ p[1] = o[1]
    <3>1. p \in Requests /\ o = <<o[1], 1>>
      <4>1. o = <<o[1], o[2]>> /\ <<o[1], 0>> \in Requests
        BY RequestPair
      <4> QED
        BY <1>5, <4>1
    <3>2. p[1] = o[1] /\ p[2] = 0
      OBVIOUS
    <3> QED
      BY <1>5, <3>1, <3>2
  <2>2. Return(o)
    BY <1>2, <1>5 DEF LoopInv
  <2>3. CASE r = o
    <3>1. req[p].phase \in {"waiting", "gone"} /\ req'[p] = req[p]
      BY <1>2, <1>5, <2>1, <2>2, <2>3 DEF Return, Moves
    <3> QED
      BY <1>2, <1>5, <2>2, <2>3, <3>1 DEF Return, Told, Moves
  <2>4. CASE r = p
    <3>1. req'[o] = req[o] /\ req'[p] = new
      BY <1>2, <2>1, <2>4
    <3> QED
      BY <2>1, <2>2, <2>4, <3>1 DEF Return, Told, Moves
  <2>5. CASE r # o /\ r # p
    BY <1>2, <2>1, <2>2, <2>5 DEF Return
  <2> QED
    BY <2>3, <2>4, <2>5
<1> QED
  BY <1>3, <1>4, <1>5

LEMMA LoopInit == Init => LoopInv
BY DEF Init, LoopInv

(* What is over keeps where it came from. *)
LEMMA OverFields ==
    ASSUME NEW q, NEW phase, NEW status
    PROVE  LET d == Over(q, phase, status)
           IN  /\ d.hop = q.hop /\ d.parent = q.parent /\ d.capture = q.capture
               /\ d.sent = q.sent /\ d.status = status /\ d.phase = phase
               /\ d.recorded = q.recorded
               /\ phase \in {"answered", "gone"} => d # Blank
<1>1. DOMAIN Over(q, phase, status) # DOMAIN Blank
  BY DEF Over, Blank
<1> QED
  BY <1>1 DEF Over

(* A handler that is past the door works for a client's own request. *)
LEMMA PastTheDoor ==
    ASSUME LoopInv, NEW r \in Requests,
           req[r].phase \in Held \cup Settled
    PROVE  r[2] = 0 /\ req[r] # Blank
<1>1. req[r] # Blank /\ req[r].phase \notin {"arrived", "answered", "gone"}
  BY DEF Blank, Held, Settled
<1>2. r[2] \in Nat /\ ~(r[2] > 1)
  BY <1>1, RequestPair DEF LoopInv
<1>3. r[2] # 1
  BY <1>1 DEF LoopInv, Return
<1> QED
  BY <1>1, <1>2, <1>3

LEMMA LoopUnchanged == LoopInv /\ UNCHANGED req => LoopInv'
<1> SUFFICES ASSUME LoopInv, UNCHANGED req PROVE LoopInv'
  OBVIOUS
<1>1. ASSUME NEW r \in Requests, Return(r) PROVE Return(r)'
  BY <1>1 DEF Return
<1> QED
  BY <1>1 DEF LoopInv

LEMMA LoopStep == PipelineType /\ LoopInv /\ [Next]_vars => LoopInv'
<1> SUFFICES ASSUME PipelineType, LoopInv, [Next]_vars PROVE LoopInv'
  OBVIOUS
<1>1. ASSUME NEW setup \in Setups, Boot(setup) PROVE LoopInv'
  <2>1. req' = req
    BY <1>1 DEF Boot
  <2> QED
    BY <2>1, LoopUnchanged
<1>2. CASE Crash
  <2>1. \A r \in Requests :
            \/ req'[r] = req[r]
            \/ /\ req[r].phase \notin {"idle", "answered", "gone"} /\ req'[r].phase = "gone"
               /\ req'[r].hop = req[r].hop /\ req'[r].parent = req[r].parent
               /\ req'[r].sent = req[r].sent /\ req'[r].capture = req[r].capture
    BY <1>2, OverFields DEF Crash, InFlight
  <2>2. \A r \in Requests :
            (req[r] = Blank => req'[r] = Blank)
            /\ (req'[r] # Blank /\ req'[r].phase # "gone" => req'[r] = req[r])
    BY <2>1 DEF Blank
  <2>3. ASSUME NEW r \in Requests PROVE
            /\ r[2] = 0 /\ req'[r] # Blank => ~req'[r].hop /\ req'[r].parent = r
            /\ r[2] > 1 => req'[r] = Blank
    BY <2>1, <2>2 DEF LoopInv
  <2>4. ASSUME NEW r \in Requests, r[2] = 1, req'[r] # Blank PROVE Return(r)'
    <3> DEFINE p == <<r[1], 0>>
    <3>1. Return(r)
      BY <2>2, <2>4 DEF LoopInv
    <3>2. p \in Requests
      BY RequestPair
    <3>4. \/ req'[p].phase = "gone"
          \/ req'[p] = req[p] /\ req[p].phase = "answered"
      <4>1. InFlight(p) => req'[p].phase = "gone"
        BY <1>2, <3>2, OverFields DEF Crash, PipelineType
      <4>2. ~InFlight(p) => req'[p] = req[p]
        BY <1>2, <3>2 DEF Crash, PipelineType
      <4> QED
        BY <3>1, <4>1, <4>2 DEF InFlight, Return, Told
    <3>5. req[p].phase = "answered" => req[r].phase = "answered" /\ req'[r] = req[r]
      BY <2>1, <3>1 DEF Return, Told
    <3> QED
      BY <2>1, <3>1, <3>4, <3>5 DEF Return, Told
  <2> QED
    BY <2>3, <2>4 DEF LoopInv
<1>3. ASSUME NEW r \in Requests, NEW route \in Routes, NEW s \in Sessions, NEW body \in Bodies,
             Arrive(r, route, s, body)
      PROVE  LoopInv'
  <2> DEFINE q == NewRequest(route, s, body, FALSE, r)
  <2>1. r[2] = 0 /\ req[r] = Blank /\ req' = [req EXCEPT ![r] = q]
    BY <1>3 DEF Arrive
  <2>2. ~q.hop /\ q.parent = r /\ q.phase = "arrived"
    BY DEF NewRequest
  <2>3. req'[r] = q /\ \A o \in Requests : o # r => req'[o] = req[o]
    BY <2>1 DEF PipelineType
  <2>4. ASSUME NEW o \in Requests, o[2] = 1, req'[o] # Blank PROVE Return(o)'
    <3> DEFINE p == <<o[1], 0>>
    <3>1. o # r /\ Return(o) /\ p \in Requests
      <4>1. o # r
        BY <2>1, <2>4
      <4>2. p \in Requests
        BY RequestPair
      <4> QED
        BY <2>3, <2>4, <4>1, <4>2 DEF LoopInv
    <3>2. p # r
      BY <2>1, <3>1 DEF Return, Blank, Told
    <3> QED
      BY <2>3, <3>1, <3>2 DEF Return
  <2> HIDE DEF q
  <2> QED
    BY <2>1, <2>2, <2>3, <2>4 DEF LoopInv
<1>4. ASSUME NEW r \in Requests, TurnAway(r) PROVE LoopInv'
  <2>1. PICK st \in {413, 508} : req' = [req EXCEPT ![r] = Answered(req[r], st)]
    BY <1>4, SMTT(30) DEF TurnAway
  <2>2. req[r].phase = "arrived" /\ req[r] # Blank
    BY <1>4 DEF TurnAway, Blank
  <2>3. r[2] = 1 => ~req[r].sent /\ req[r].capture = "none"
    <3>1. r[2] = 1 => Return(r)
      BY <2>2 DEF LoopInv
    <3> QED
      BY <3>1 DEF Return
  <2> QED
    <3> DEFINE new == Answered(req[r], st)
    <3>1. /\ new.phase = "answered" /\ new.status = st /\ new # Blank
          /\ new.hop = req[r].hop /\ new.parent = req[r].parent
          /\ new.capture = req[r].capture /\ new.sent = req[r].sent
      BY OverFields DEF Answered
    <3> HIDE DEF new
    <3>2. req' = [req EXCEPT ![r] = new]
      BY <2>1 DEF new
    <3>3. Moves(r, new)
      BY <2>2, <2>3, <3>1 DEF Moves
    <3> QED
      BY <2>2, <3>1, <3>2, <3>3, LoopFrame
<1>5. ASSUME NEW r \in Requests, Prepare(r) PROVE LoopInv'
  <2> DEFINE q == [req[r] EXCEPT !.capture = "open", !.prior = amp[req[r].session]]
             new == IF Refusal(q) # 0 THEN Refuse(q, Refusal(q)) ELSE [q EXCEPT !.phase = "ready"]
  <2>1. req[r] \in Live /\ req[r].phase = "arrived" /\ req[r] # Blank
    BY <1>5, LiveRequest DEF Prepare, Blank
  <2>2. r[2] # 1
    BY <1>5, <2>1 DEF Prepare, IsLoop, LoopInv, Return, Live, LiveRecord
  <2>3. q \in Live /\ q.hop = req[r].hop /\ q.parent = req[r].parent
    BY <2>1 DEF Live, LiveRecord, PipelineType
  <2>4. new # Blank /\ new.hop = req[r].hop /\ new.parent = req[r].parent
    <3> HIDE DEF q
    <3>1. CASE Refusal(q) # 0
      <4>1. Refusal(q) \in Int
        BY DEF Refusal
      <4> QED
        BY <2>3, <3>1, <4>1, ClosedIsLive, OverFields DEF Refuse, Answered
    <3>2. CASE Refusal(q) = 0
      BY <2>3, <3>2 DEF Live, LiveRecord, Blank
    <3> QED
      BY <3>1, <3>2
  <2>5. req' = [req EXCEPT ![r] = new]
    BY <1>5 DEF Prepare
  <2> HIDE DEF new
  <2>6. Moves(r, new)
    BY <2>1, <2>2 DEF Moves
  <2> QED
    BY <2>1, <2>4, <2>5, <2>6, LoopFrame
<1>6. ASSUME NEW r \in Requests, NEW new, req' = [req EXCEPT ![r] = new],
             r[2] = 0, req[r] # Blank, new # Blank,
             new.hop = req[r].hop, new.parent = req[r].parent,
             \/ req[r].phase \in {"arrived", "ready"}
             \/ new.phase = "gone"
             \/ req[r].phase \in Told /\ new.phase \in Told /\ new.status = req[r].status
      PROVE  LoopInv'
  <2>1. Moves(r, new)
    BY <1>6 DEF Moves
  <2> QED
    BY <1>6, <2>1, LoopFrame
<1>7. ASSUME NEW r \in Requests, Unreachable(r) PROVE LoopInv'
  <2> DEFINE new == [Refuse(req[r], 502) EXCEPT !.sent = TRUE]
  <2>1. req[r] \in Live /\ req[r].phase = "ready" /\ r[2] = 0 /\ req[r] # Blank
    BY <1>7, LiveRequest, PastTheDoor DEF Unreachable, Held
  <2>2. /\ Refuse(req[r], 502) \in Done
        /\ Refuse(req[r], 502).hop = req[r].hop /\ Refuse(req[r], 502).parent = req[r].parent
    <3> DEFINE c == Closed(req[r], 502)
    <3>1. c \in Live /\ c.hop = req[r].hop /\ c.parent = req[r].parent
      BY <2>1, ClosedIsLive, SMTT(20)
    <3>2. Refuse(req[r], 502) = Over(c, "answered", 502)
      BY DEF Refuse, Answered
    <3> HIDE DEF c
    <3> QED
      BY <3>1, <3>2, OverIsDone, OverFields
  <2>3. new.hop = req[r].hop /\ new.parent = req[r].parent /\ new # Blank
    BY <2>2 DEF Done, Blank
  <2>4. req' = [req EXCEPT ![r] = new]
    BY <1>7 DEF Unreachable
  <2> HIDE DEF new
  <2> QED
    BY <1>6, <2>1, <2>3, <2>4
<1>8. ASSUME NEW r \in Requests, NEW st \in Statuses, Respond(r, st) PROVE LoopInv'
  <2> DEFINE new == [req[r] EXCEPT !.phase = "streaming", !.sent = TRUE, !.status = st]
  <2>1. req[r] \in Live /\ req[r].phase = "ready" /\ r[2] = 0 /\ req[r] # Blank
    BY <1>8, LiveRequest, PastTheDoor DEF Respond, Held
  <2>2. new.hop = req[r].hop /\ new.parent = req[r].parent /\ new # Blank
    BY <2>1 DEF Live, LiveRecord, Blank
  <2>3. req' = [req EXCEPT ![r] = new]
    BY <1>8 DEF Respond
  <2> HIDE DEF new
  <2> QED
    BY <1>6, <2>1, <2>2, <2>3
<1>9. ASSUME NEW r \in Requests, LoopBack(r) PROVE LoopInv'
  <2> DEFINE n == <<r[1], r[2] + 1>>
             q == [req[r] EXCEPT !.phase = "waiting", !.sent = TRUE]
             new == NewRequest(req[r].route, req[r].session, req[r].body, TRUE, r)
  <2>1. req[r] \in Live /\ r[2] = 0 /\ req[r] # Blank
    BY <1>9, LiveRequest, PastTheDoor DEF LoopBack, Held
  <2>2. r = <<r[1], 0>> /\ n = <<r[1], 1>> /\ n \in Requests /\ n # r
    BY <2>1, ClientPair
  <2>3. q.phase = "waiting" /\ q.hop = req[r].hop /\ q.parent = req[r].parent
    BY <2>1 DEF Live, LiveRecord
  <2>4. /\ new.phase = "arrived" /\ new.hop /\ new.parent = r
        /\ ~new.sent /\ new.capture = "none"
    BY DEF NewRequest
  <2>5. req' = [req EXCEPT ![r] = q, ![n] = new]
    <3>1. req' = [req EXCEPT ![r].phase = "waiting", ![r].sent = TRUE, ![n] = new]
      BY <1>9 DEF LoopBack
    <3> QED
      BY <3>1, <2>2 DEF PipelineType
  <2> HIDE DEF q, new
  <2>6. /\ req'[r] = q /\ req'[n] = new
        /\ \A o \in Requests : o # r /\ o # n => req'[o] = req[o]
    BY <2>2, <2>5 DEF PipelineType
  <2>7. ASSUME NEW o \in Requests PROVE
            /\ o[2] = 0 /\ req'[o] # Blank => ~req'[o].hop /\ req'[o].parent = o
            /\ o[2] > 1 => req'[o] = Blank
    BY <2>1, <2>2, <2>3, <2>6 DEF LoopInv
  <2>8. ASSUME NEW o \in Requests, o[2] = 1, req'[o] # Blank PROVE Return(o)'
    <3>1. o = <<o[1], 1>>
      BY <2>8, RequestPair
    <3>2. CASE o = n
      BY <2>2, <2>3, <2>4, <2>6, <3>2 DEF Return, Told
    <3>3. CASE o # n
      <4> DEFINE p == <<o[1], 0>>
      <4>1. p # r /\ p # n /\ o # r /\ p \in Requests
        BY <2>1, <2>2, <2>8, <3>1, <3>3, RequestPair
      <4> QED
        BY <2>6, <2>8, <3>3, <4>1 DEF LoopInv, Return
    <3> QED
      BY <3>2, <3>3
  <2> QED
    BY <2>7, <2>8 DEF LoopInv
<1>10. ASSUME NEW r \in Requests, LoopAnswers(r) PROVE LoopInv'
  <2> DEFINE n == <<r[1], r[2] + 1>>
             new == [req[r] EXCEPT !.phase = "streaming", !.status = req[n].status]
  <2>1. req[r] \in Live /\ r[2] = 0 /\ req[r] # Blank /\ req[r].phase = "waiting"
    BY <1>10, LiveRequest, PastTheDoor DEF LoopAnswers, Held
  <2>2. n = <<r[1], 1>> /\ req[n].phase = "answered"
    BY <1>10, <2>1 DEF LoopAnswers
  <2>3. /\ new.phase = "streaming" /\ new.status = req[n].status /\ new # Blank
        /\ new.hop = req[r].hop /\ new.parent = req[r].parent
    BY <2>1 DEF Live, LiveRecord, Blank
  <2>4. req' = [req EXCEPT ![r] = new]
    BY <1>10 DEF LoopAnswers
  <2> HIDE DEF new
  <2>5. Moves(r, new)
    BY <2>1, <2>2, <2>3 DEF Moves
  <2> QED
    BY <2>1, <2>3, <2>4, <2>5, LoopFrame
<1>11. ASSUME NEW r \in Requests, Break(r) PROVE LoopInv'
  <2> DEFINE new == [req[r] EXCEPT !.phase = "broken"]
  <2>1. req[r] \in Live /\ req[r].phase = "streaming" /\ r[2] = 0 /\ req[r] # Blank
    BY <1>11, LiveRequest, PastTheDoor DEF Break, Held
  <2>2. /\ new.phase = "broken" /\ new.status = req[r].status /\ new # Blank
        /\ new.hop = req[r].hop /\ new.parent = req[r].parent
    BY <2>1 DEF Live, LiveRecord, Blank
  <2>3. req' = [req EXCEPT ![r] = new]
    BY <1>11 DEF Break
  <2> HIDE DEF new
  <2> QED
    BY <1>6, <2>1, <2>2, <2>3 DEF Told
<1>12. ASSUME NEW r \in Requests, NEW u \in Usages, Finish(r, u) PROVE LoopInv'
  <2> DEFINE q == Closed(req[r], req[r].status)
             new == IF RowsOf(q, u) = <<>> THEN Answered(q, q.status)
                    ELSE [q EXCEPT !.phase = "accounting", !.usage = u, !.rows = RowsOf(q, u)]
  <2>1. req[r] \in Live /\ req[r].phase \in {"streaming", "broken"} /\ r[2] = 0 /\ req[r] # Blank
    BY <1>12, LiveRequest, PastTheDoor DEF Finish, StreamOver, Held
  <2>2. /\ q \in Live /\ q.status = req[r].status
        /\ q.hop = req[r].hop /\ q.parent = req[r].parent
    <3>1. req[r].status \in Int
      BY <2>1 DEF Live, LiveRecord
    <3> QED
      BY <2>1, <3>1, ClosedIsLive
  <2>3. /\ new.phase \in {"answered", "accounting"} /\ new.status = req[r].status /\ new # Blank
        /\ new.hop = req[r].hop /\ new.parent = req[r].parent
    <3> HIDE DEF q
    <3>1. CASE RowsOf(q, u) = <<>>
      BY <2>2, <3>1, OverFields DEF Answered
    <3>2. CASE RowsOf(q, u) # <<>>
      BY <2>2, <3>2 DEF Live, LiveRecord, Blank
    <3> QED
      BY <3>1, <3>2
  <2>4. req' = [req EXCEPT ![r] = new]
    BY <1>12 DEF Finish
  <2> HIDE DEF new
  <2> QED
    BY <1>6, <2>1, <2>3, <2>4 DEF Told
<1>13. ASSUME NEW r \in Requests, WriteRow(r) PROVE LoopInv'
  <2> DEFINE new == [req[r] EXCEPT !.phase = "writing"]
  <2>1. req[r] \in Live /\ req[r].phase = "accounting" /\ r[2] = 0 /\ req[r] # Blank
    BY <1>13, LiveRequest, PastTheDoor DEF WriteRow, Settled
  <2>2. /\ new.phase = "writing" /\ new.status = req[r].status /\ new # Blank
        /\ new.hop = req[r].hop /\ new.parent = req[r].parent
    BY <2>1 DEF Live, LiveRecord, Blank
  <2>3. req' = [req EXCEPT ![r] = new]
    BY <1>13 DEF WriteRow
  <2> HIDE DEF new
  <2> QED
    BY <1>6, <2>1, <2>2, <2>3 DEF Told
<1>14. ASSUME NEW r \in Requests, EndRow(r) PROVE LoopInv'
  <2> DEFINE new == [req[r] EXCEPT !.phase = "accounting", !.rows = Tail(@)]
  <2>1. req[r] \in Live /\ req[r].phase = "writing" /\ r[2] = 0 /\ req[r] # Blank
    BY <1>14, LiveRequest, PastTheDoor DEF EndRow, Settled
  <2>2. /\ new.phase = "accounting" /\ new.status = req[r].status /\ new # Blank
        /\ new.hop = req[r].hop /\ new.parent = req[r].parent
    BY <2>1 DEF Live, LiveRecord, Blank
  <2>3. req' = [req EXCEPT ![r] = new]
    BY <1>14 DEF EndRow
  <2> HIDE DEF new
  <2> QED
    BY <1>6, <2>1, <2>2, <2>3 DEF Told
<1>15. ASSUME NEW r \in Requests, Account(r) PROVE LoopInv'
  <2> DEFINE new == Answered(req[r], req[r].status)
  <2>1. req[r].phase = "accounting" /\ r[2] = 0 /\ req[r] # Blank
    BY <1>15, PastTheDoor DEF Account, Settled
  <2>2. /\ new.phase = "answered" /\ new.status = req[r].status /\ new # Blank
        /\ new.hop = req[r].hop /\ new.parent = req[r].parent
    BY OverFields DEF Answered
  <2>3. req' = [req EXCEPT ![r] = new]
    BY <1>15 DEF Account
  <2> HIDE DEF new
  <2> QED
    BY <1>6, <2>1, <2>2, <2>3 DEF Told
<1>16. ASSUME NEW r \in Requests, HangUp(r) PROVE LoopInv'
  <2> DEFINE new == Over(req[r], "gone", 0)
  <2>1. r[2] = 0 /\ req[r] # Blank
    BY <1>16, PastTheDoor DEF HangUp, Held
  <2>2. /\ new.phase = "gone" /\ new # Blank
        /\ new.hop = req[r].hop /\ new.parent = req[r].parent
    BY OverFields
  <2>3. req' = [req EXCEPT ![r] = new]
    BY <1>16 DEF HangUp
  <2> HIDE DEF new
  <2> QED
    BY <1>6, <2>1, <2>2, <2>3
<1>17. CASE UNCHANGED vars
  <2>1. req' = req
    BY <1>17 DEF vars
  <2> QED
    BY <2>1, LoopUnchanged
<1> QED
  BY <1>1, <1>2, <1>3, <1>4, <1>5, <1>7, <1>8, <1>9, <1>10, <1>11, <1>12,
     <1>13, <1>14, <1>15, <1>16, <1>17 DEF Next, HandlerStep, ProviderStep

(* A request that came back is neither forwarded nor captured, and the     *)
(* client is told what became of it (the hop guard of the three handlers). *)
THEOREM LoopsAreBroken == Spec => []LoopIsBroken
<1>1. LoopInv => LoopIsBroken
  <2> SUFFICES ASSUME LoopInv, NEW n \in Requests, req[n] # Blank, req[n].hop
               PROVE  /\ ~req[n].sent /\ req[n].capture = "none"
                      /\ req[req[n].parent].phase = "answered" =>
                             /\ req[req[n].parent].status = req[n].status
                             /\ req[n].status \in {413, 508}
    BY DEF LoopIsBroken
  <2>1. n[2] = 1
    <3>1. n[2] \in Nat /\ n[2] # 0 /\ ~(n[2] > 1)
      BY RequestPair DEF LoopInv
    <3> QED
      BY <3>1
  <2>2. Return(n)
    BY <2>1 DEF LoopInv
  <2> QED
    BY <2>2 DEF Return, Told
<1> QED
  BY PipelineTypeInit, PipelineTypeStep, LoopInit, LoopStep, <1>1, PTL DEF Spec
-----------------------------------------------------------------------------
(***************************************************************************)
(* Records.  AnswersAreRecorded speaks of the end of a request; what makes *)
(* it true is where the capture and the logs stand at every point before.  *)
(***************************************************************************)
NoError(r) == \A st \in Int : <<r, st>> \notin errors
NoRow(r) == \A i \in DOMAIN ledger : ledger[i].by # r

RecordedSoFar(r) ==
    LET q == req[r]
    IN  /\ q.phase \in {"idle", "arrived"} => NoError(r) /\ NoRow(r)
        /\ q.phase = "arrived" => q.capture = "none" /\ ~q.sent
        /\ q.phase \in Held =>
               /\ q.capture = "open" /\ NoError(r) /\ NoRow(r)
               /\ q.phase # "ready" => q.sent
               /\ q.phase = "ready" => ~q.sent
        /\ q.phase \in Settled \cup {"answered"} =>
               /\ q.capture # "none" => q.capture = "closed" /\ q.recorded = q.status
               /\ (<<r, q.status>> \in errors) <=> (q.sent /\ q.status >= 400)
               /\ ~q.sent => NoRow(r)
        /\ q.phase \in Settled => q.sent

RecordInv == \A r \in Requests : RecordedSoFar(r)

LEMMA RecordInit == Init => RecordInv
BY DEF Init, RecordInv, RecordedSoFar, NoError, NoRow, Blank, Held, Settled

(* A step of one handler touches the records of its own request only. *)
LEMMA RecordFrame ==
    ASSUME PipelineType, RecordInv, NEW r \in Requests, NEW new,
           req' = [req EXCEPT ![r] = new],
           \A o \in Requests : o # r =>
               /\ \A st \in Int : <<o, st>> \in errors' <=> <<o, st>> \in errors
               /\ NoRow(o) => NoRow(o)',
           RecordedSoFar(r)'
    PROVE  RecordInv'
<1> SUFFICES ASSUME NEW o \in Requests, o # r PROVE RecordedSoFar(o)'
  BY DEF RecordInv
<1>1. req'[o] = req[o]
  BY DEF PipelineType
<1>2. RecordedSoFar(o) /\ (NoRow(o) => NoRow(o)') /\ (NoError(o) => NoError(o)')
  BY DEF RecordInv, NoError
<1>3. req[o].phase \in Settled \cup {"answered"} => req[o].status \in Int
  BY DEF PipelineType, Live, LiveRecord, Done, Blank, Settled
<1> QED
  BY <1>1, <1>2, <1>3 DEF RecordedSoFar

(* Steps that write to neither log. *)
Quiet(r, new) ==
    \/ new.phase = "gone"
    \/ /\ new.phase \in Held /\ new.capture = "open"
       /\ req[r].phase \in {"arrived"} \cup Held
       /\ new.phase = "ready" => ~new.sent
       /\ new.phase # "ready" => new.sent
    \/ /\ new.phase = "answered" /\ req[r].phase = "arrived" /\ ~new.sent
       /\ new.capture # "none" => new.capture = "closed" /\ new.recorded = new.status
       /\ new.status \in Int
    \/ /\ new.phase \in Settled \cup {"answered"} /\ req[r].phase \in Settled /\ new.sent
       /\ new.capture = req[r].capture /\ new.recorded = req[r].recorded
       /\ new.status = req[r].status

LEMMA RecordQuiet ==
    ASSUME PipelineType, RecordInv, NEW r \in Requests, NEW new,
           req' = [req EXCEPT ![r] = new], UNCHANGED <<errors, ledger>>, Quiet(r, new)
    PROVE  RecordInv'
<1>1. req'[r] = new /\ NoRow(r)' = NoRow(r) /\ NoError(r)' = NoError(r) /\ errors' = errors
  BY DEF PipelineType, NoRow, NoError
<1>2. RecordedSoFar(r)
  BY DEF RecordInv
<1>3. RecordedSoFar(r)'
  BY <1>1, <1>2 DEF RecordedSoFar, NoError, Held, Settled, Quiet
<1> QED
  BY <1>3, RecordFrame DEF NoRow

(* Appending a row of one request leaves the others without one. *)
LEMMA RowOfOne ==
    ASSUME PipelineType, NEW e \in Entry, ledger' = Append(ledger, e)
    PROVE  \A o \in Requests : o # e.by => (NoRow(o) => NoRow(o)')
BY DEF PipelineType, NoRow

(* Where the steps leave the fields the records are about. *)
LEMMA ClosedFields ==
    ASSUME NEW q \in Live, NEW status \in Int, q.capture = "open"
    PROVE  LET c == Closed(q, status)
           IN  /\ c \in Live /\ c.capture = "closed" /\ c.recorded = status
               /\ c.sent = q.sent /\ c.status = q.status
BY ClosedIsLive

LEMMA RecordStep == PipelineType /\ LoopInv /\ RecordInv /\ [Next]_vars => RecordInv'
<1> SUFFICES ASSUME PipelineType, LoopInv, RecordInv, [Next]_vars PROVE RecordInv'
  OBVIOUS
<1>1. ASSUME NEW setup \in Setups, Boot(setup) PROVE RecordInv'
  BY <1>1 DEF Boot, RecordInv, RecordedSoFar, NoError, NoRow
<1>2. CASE Crash
  <2>1. \A r \in Requests : req'[r] = req[r] \/ req'[r].phase = "gone"
    BY <1>2, OverFields DEF Crash, PipelineType
  <2>2. UNCHANGED <<errors, ledger>>
    BY <1>2 DEF Crash
  <2> QED
    BY <2>1, <2>2 DEF RecordInv, RecordedSoFar, NoError, NoRow, Held, Settled
<1>3. ASSUME NEW r \in Requests, NEW route \in Routes, NEW s \in Sessions, NEW body \in Bodies,
             Arrive(r, route, s, body)
      PROVE  RecordInv'
  <2> DEFINE new == NewRequest(route, s, body, FALSE, r)
  <2>1. new.phase = "arrived" /\ new.capture = "none" /\ ~new.sent
    BY DEF NewRequest
  <2>2. /\ req' = [req EXCEPT ![r] = new] /\ UNCHANGED <<errors, ledger>>
        /\ req[r].phase = "idle"
    BY <1>3 DEF Arrive, Blank
  <2> HIDE DEF new
  <2>3. req'[r] = new /\ NoError(r) /\ NoRow(r)
    BY <2>2 DEF PipelineType, RecordInv, RecordedSoFar
  <2>4. RecordedSoFar(r)'
    BY <2>1, <2>2, <2>3 DEF RecordedSoFar, NoError, NoRow, Held, Settled
  <2> QED
    BY <2>2, <2>4, RecordFrame DEF NoRow
<1>4. ASSUME NEW r \in Requests, TurnAway(r) PROVE RecordInv'
  <2>1. PICK st \in {413, 508} : req' = [req EXCEPT ![r] = Answered(req[r], st)]
    BY <1>4, SMTT(30) DEF TurnAway
  <2> DEFINE new == Answered(req[r], st)
  <2>2. req[r].phase = "arrived" /\ UNCHANGED <<errors, ledger>>
    BY <1>4 DEF TurnAway
  <2>3. ~req[r].sent /\ req[r].capture = "none"
    <3>1. RecordedSoFar(r)
      BY DEF RecordInv
    <3> QED
      BY <2>2, <3>1 DEF RecordedSoFar
  <2>4. /\ new.phase = "answered" /\ new.status = st /\ new.sent = req[r].sent
        /\ new.capture = req[r].capture
    BY OverFields DEF Answered
  <2> HIDE DEF new
  <2>5. Quiet(r, new)
    BY <2>2, <2>3, <2>4 DEF Quiet
  <2>6. req' = [req EXCEPT ![r] = new]
    BY <2>1 DEF new
  <2> QED
    BY <2>2, <2>5, <2>6, RecordQuiet
<1>5. ASSUME NEW r \in Requests, Prepare(r) PROVE RecordInv'
  <2> DEFINE q == [req[r] EXCEPT !.capture = "open", !.prior = amp[req[r].session]]
             new == IF Refusal(q) # 0 THEN Refuse(q, Refusal(q)) ELSE [q EXCEPT !.phase = "ready"]
  <2>1. /\ req[r] \in Live /\ req[r].phase = "arrived" /\ UNCHANGED <<errors, ledger>>
        /\ req' = [req EXCEPT ![r] = new]
    BY <1>5, LiveRequest DEF Prepare
  <2>2. ~req[r].sent
    BY <2>1 DEF RecordInv, RecordedSoFar
  <2>3. q \in Live /\ q.capture = "open" /\ ~q.sent
    BY <2>1, <2>2 DEF Live, LiveRecord, PipelineType
  <2>4. Quiet(r, new)
    <3> HIDE DEF q
    <3>1. CASE Refusal(q) # 0
      <4> DEFINE st == Refusal(q)
                 c == Closed(q, st)
      <4>1. st \in Int
        BY DEF Refusal
      <4>2. c.capture = "closed" /\ c.recorded = st /\ ~c.sent
        BY <2>3, <4>1, ClosedFields
      <4> HIDE DEF c
      <4>3. new = Over(c, "answered", st)
        BY <3>1 DEF Refuse, Answered, c
      <4> HIDE DEF new, st
      <4>4. /\ new.phase = "answered" /\ ~new.sent /\ new.capture = "closed"
            /\ new.recorded = new.status /\ new.status = st
        BY <4>2, <4>3, OverFields
      <4> QED
        BY <2>1, <4>1, <4>4 DEF Quiet
    <3>2. CASE Refusal(q) = 0
      <4>1. new.phase = "ready" /\ new.capture = "open" /\ ~new.sent
        BY <2>3, <3>2 DEF Live, LiveRecord
      <4> HIDE DEF new
      <4> QED
        BY <2>1, <4>1 DEF Quiet, Held
    <3> QED
      BY <3>1, <3>2
  <2> HIDE DEF new
  <2> QED
    BY <2>1, <2>4, RecordQuiet
<1>6. ASSUME NEW r \in Requests, Unreachable(r) PROVE RecordInv'
  <2> DEFINE c == Closed(req[r], 502)
             new == [Refuse(req[r], 502) EXCEPT !.sent = TRUE]
  <2>1. /\ req[r] \in Live /\ req[r].phase = "ready"
        /\ req' = [req EXCEPT ![r] = new]
        /\ errors' = errors \cup {<<r, 502>>} /\ UNCHANGED ledger
    BY <1>6, LiveRequest DEF Unreachable, Held
  <2>2. req[r].capture = "open"
    BY <2>1 DEF RecordInv, RecordedSoFar, Held
  <2>3. c \in Live /\ c.capture = "closed" /\ c.recorded = 502
    BY <2>1, <2>2, ClosedFields
  <2>4. new = [Over(c, "answered", 502) EXCEPT !.sent = TRUE]
    BY DEF Refuse, Answered
  <2> HIDE DEF c
  <2>5. /\ new.phase = "answered" /\ new.capture = "closed" /\ new.recorded = 502
        /\ new.status = 502 /\ new.sent
    BY <2>3, <2>4 DEF Over
  <2> HIDE DEF new
  <2>6. req'[r] = new
    BY <2>1 DEF PipelineType
  <2>7. RecordedSoFar(r)'
    BY <2>1, <2>5, <2>6 DEF RecordedSoFar, Held, Settled
  <2>8. \A o \in Requests : o # r =>
            /\ \A st \in Int : <<o, st>> \in errors' <=> <<o, st>> \in errors
            /\ NoRow(o) => NoRow(o)'
    BY <2>1 DEF NoRow
  <2> QED
    BY <2>1, <2>7, <2>8, RecordFrame
<1>7. ASSUME NEW r \in Requests, NEW st \in Statuses, Respond(r, st) PROVE RecordInv'
  <2> DEFINE new == [req[r] EXCEPT !.phase = "streaming", !.sent = TRUE, !.status = st]
  <2>1. /\ req[r] \in Live /\ req[r].phase = "ready" /\ req' = [req EXCEPT ![r] = new]
        /\ UNCHANGED <<errors, ledger>>
    BY <1>7, LiveRequest DEF Respond, Held
  <2>2. new.phase = "streaming" /\ new.sent /\ new.capture = "open"
    BY <2>1 DEF Live, LiveRecord, RecordInv, RecordedSoFar, Held
  <2> HIDE DEF new
  <2> QED
    BY <2>1, <2>2, RecordQuiet DEF Quiet, Held
<1>8. ASSUME NEW r \in Requests, LoopBack(r) PROVE RecordInv'
  <2> DEFINE n == <<r[1], r[2] + 1>>
             q == [req[r] EXCEPT !.phase = "waiting", !.sent = TRUE]
             new == NewRequest(req[r].route, req[r].session, req[r].body, TRUE, r)
  <2>1. req[r] \in Live /\ r[2] = 0 /\ req[r].phase = "ready" /\ UNCHANGED <<errors, ledger>>
    BY <1>8, LiveRequest, PastTheDoor DEF LoopBack, Held
  <2>2. r = <<r[1], 0>> /\ n = <<r[1], 1>> /\ n \in Requests /\ n # r
    BY <2>1, ClientPair
  <2>3. q.phase = "waiting" /\ q.sent /\ q.capture = "open"
    BY <2>1 DEF Live, LiveRecord, RecordInv, RecordedSoFar, Held
  <2>4. new.phase = "arrived" /\ ~new.sent /\ new.capture = "none"
    BY DEF NewRequest
  <2>5. req' = [req EXCEPT ![r] = q, ![n] = new]
    <3>1. req' = [req EXCEPT ![r].phase = "waiting", ![r].sent = TRUE, ![n] = new]
      BY <1>8 DEF LoopBack
    <3> QED
      BY <3>1, <2>2 DEF PipelineType
  <2> HIDE DEF q, new
  <2>6. /\ req'[r] = q /\ req'[n] = new
        /\ \A o \in Requests : o # r /\ o # n => req'[o] = req[o]
    BY <2>2, <2>5 DEF PipelineType
  <2>7. req[n].phase = "idle"
    <3>1. n[2] = 1 /\ <<n[1], 0>> = r
      BY <2>2
    <3>2. req[n] # Blank => Return(n)
      BY <2>2, <3>1 DEF LoopInv
    <3> QED
      BY <2>1, <3>1, <3>2 DEF Return, Told, Blank
  <2>8. NoError(r) /\ NoRow(r) /\ NoError(n) /\ NoRow(n)
    BY <2>1, <2>2, <2>7 DEF RecordInv, RecordedSoFar, Held
  <2>9. RecordedSoFar(r)' /\ RecordedSoFar(n)'
    BY <2>1, <2>3, <2>4, <2>6, <2>8 DEF RecordedSoFar, NoError, NoRow, Held, Settled
  <2>10. \A o \in Requests : o # r /\ o # n => RecordedSoFar(o)'
    BY <2>1, <2>6 DEF RecordInv, RecordedSoFar, NoError, NoRow
  <2> QED
    BY <2>9, <2>10 DEF RecordInv
<1>9. ASSUME NEW r \in Requests, LoopAnswers(r) PROVE RecordInv'
  <2> DEFINE n == <<r[1], r[2] + 1>>
             new == [req[r] EXCEPT !.phase = "streaming", !.status = req[n].status]
  <2>1. /\ req[r] \in Live /\ req[r].phase = "waiting" /\ req' = [req EXCEPT ![r] = new]
        /\ UNCHANGED <<errors, ledger>>
    BY <1>9, LiveRequest DEF LoopAnswers, Held
  <2>2. new.phase = "streaming" /\ new.sent /\ new.capture = "open"
    BY <2>1 DEF Live, LiveRecord, RecordInv, RecordedSoFar, Held
  <2> HIDE DEF new
  <2> QED
    BY <2>1, <2>2, RecordQuiet DEF Quiet, Held
<1>10. ASSUME NEW r \in Requests, Break(r) PROVE RecordInv'
  <2> DEFINE new == [req[r] EXCEPT !.phase = "broken"]
  <2>1. /\ req[r] \in Live /\ req[r].phase = "streaming" /\ req' = [req EXCEPT ![r] = new]
        /\ UNCHANGED <<errors, ledger>>
    BY <1>10, LiveRequest DEF Break, Held
  <2>2. new.phase = "broken" /\ new.sent /\ new.capture = "open"
    BY <2>1 DEF Live, LiveRecord, RecordInv, RecordedSoFar, Held
  <2> HIDE DEF new
  <2> QED
    BY <2>1, <2>2, RecordQuiet DEF Quiet, Held
<1>11. ASSUME NEW r \in Requests, NEW u \in Usages, Finish(r, u) PROVE RecordInv'
  <2> DEFINE q == Closed(req[r], req[r].status)
             new == IF RowsOf(q, u) = <<>> THEN Answered(q, q.status)
                    ELSE [q EXCEPT !.phase = "accounting", !.usage = u, !.rows = RowsOf(q, u)]
  <2>1. /\ req[r] \in Live /\ req[r].phase \in {"streaming", "broken"}
        /\ req[r].status \in Int
    BY <1>11, LiveRequest DEF Finish, StreamOver, Held, Live, LiveRecord
  <2>2. req[r].capture = "open" /\ req[r].sent /\ NoError(r)
    BY <2>1 DEF RecordInv, RecordedSoFar, Held
  <2>3. /\ q \in Live /\ q.capture = "closed" /\ q.recorded = req[r].status
        /\ q.status = req[r].status /\ q.sent
    BY <2>1, <2>2, ClosedFields
  <2>4. /\ new.phase \in {"answered", "accounting"} /\ new.status = req[r].status
        /\ new.capture = "closed" /\ new.recorded = req[r].status /\ new.sent
    <3> HIDE DEF q
    <3>1. CASE RowsOf(q, u) = <<>>
      BY <2>3, <3>1, OverFields DEF Answered
    <3>2. CASE RowsOf(q, u) # <<>>
      BY <2>3, <3>2 DEF Live, LiveRecord
    <3> QED
      BY <3>1, <3>2
  <2>5. /\ req' = [req EXCEPT ![r] = new] /\ UNCHANGED ledger
        /\ errors' = IF q.status >= 400 THEN errors \cup {<<r, q.status>>} ELSE errors
    BY <1>11 DEF Finish
  <2> HIDE DEF new, q
  <2>6. req'[r] = new
    BY <2>5 DEF PipelineType
  <2>7. (<<r, new.status>> \in errors') <=> new.status >= 400
    BY <2>1, <2>2, <2>3, <2>4, <2>5 DEF NoError
  <2>8. RecordedSoFar(r)'
    BY <2>4, <2>6, <2>7 DEF RecordedSoFar, Held, Settled
  <2>9. \A o \in Requests : o # r =>
            /\ \A st \in Int : <<o, st>> \in errors' <=> <<o, st>> \in errors
            /\ NoRow(o) => NoRow(o)'
    BY <2>5 DEF NoRow
  <2> QED
    BY <2>5, <2>8, <2>9, RecordFrame
<1>12. ASSUME NEW r \in Requests, WriteRow(r) PROVE RecordInv'
  <2> DEFINE e == [by |-> r, kind |-> Head(req[r].rows), session |-> req[r].session,
                   ratio |-> AmpRatio(req[r].usage)]
             new == [req[r] EXCEPT !.phase = "writing"]
  <2>1. /\ req[r] \in Live /\ req[r].phase = "accounting" /\ req' = [req EXCEPT ![r] = new]
        /\ UNCHANGED errors /\ ledger' = Append(ledger, e)
    BY <1>12, LiveRequest DEF WriteRow, Settled
  <2>2. e \in Entry /\ e.by = r
    <3>1. Head(req[r].rows) \in {"turn", "reduce"}
      BY <1>12, <2>1 DEF WriteRow, Live, LiveRecord
    <3>2. req[r].session \in Sessions /\ AmpRatio(req[r].usage) \in Int
      BY <2>1, RatioIsNat DEF Live, LiveRecord
    <3> QED
      BY <3>1, <3>2 DEF Entry
  <2>3. /\ new.phase = "writing" /\ new.sent = req[r].sent /\ new.capture = req[r].capture
        /\ new.recorded = req[r].recorded /\ new.status = req[r].status
    BY <2>1 DEF Live, LiveRecord
  <2> HIDE DEF new, e
  <2>4. RecordedSoFar(r) /\ req'[r] = new
    BY <2>1 DEF RecordInv, PipelineType
  <2>5. RecordedSoFar(r)'
    BY <2>1, <2>3, <2>4 DEF RecordedSoFar, Held, Settled
  <2>6. \A o \in Requests : o # r =>
            /\ \A st \in Int : <<o, st>> \in errors' <=> <<o, st>> \in errors
            /\ NoRow(o) => NoRow(o)'
    BY <2>1, <2>2, RowOfOne
  <2> QED
    BY <2>1, <2>5, <2>6, RecordFrame
<1>13. ASSUME NEW r \in Requests, EndRow(r) PROVE RecordInv'
  <2> DEFINE new == [req[r] EXCEPT !.phase = "accounting", !.rows = Tail(@)]
  <2>1. /\ req[r] \in Live /\ req[r].phase = "writing" /\ req' = [req EXCEPT ![r] = new]
        /\ UNCHANGED errors /\ ledger' = Append(ledger, EndOfRow)
    BY <1>13, LiveRequest DEF EndRow, Settled
  <2>2. EndOfRow \in Entry /\ EndOfRow.by = NoTask
    BY DEF EndOfRow, Entry
  <2>3. /\ new.phase = "accounting" /\ new.sent = req[r].sent /\ new.capture = req[r].capture
        /\ new.recorded = req[r].recorded /\ new.status = req[r].status
    BY <2>1 DEF Live, LiveRecord
  <2> HIDE DEF new
  <2>4. RecordedSoFar(r) /\ req'[r] = new
    BY <2>1 DEF RecordInv, PipelineType
  <2>5. RecordedSoFar(r)'
    BY <2>1, <2>3, <2>4 DEF RecordedSoFar, Held, Settled
  <2>6. \A o \in Requests : o # NoTask
    BY PipelineAssumption
  <2>7. \A o \in Requests : o # r =>
            /\ \A st \in Int : <<o, st>> \in errors' <=> <<o, st>> \in errors
            /\ NoRow(o) => NoRow(o)'
    BY <2>1, <2>2, <2>6, RowOfOne
  <2> QED
    BY <2>1, <2>5, <2>7, RecordFrame
<1>14. ASSUME NEW r \in Requests, Account(r) PROVE RecordInv'
  <2> DEFINE new == Answered(req[r], req[r].status)
  <2>1. /\ req[r].phase = "accounting" /\ req' = [req EXCEPT ![r] = new]
        /\ UNCHANGED <<errors, ledger>>
    BY <1>14 DEF Account
  <2>2. req[r].sent
    BY <2>1 DEF RecordInv, RecordedSoFar, Settled
  <2>3. /\ new.phase = "answered" /\ new.sent = req[r].sent /\ new.capture = req[r].capture
        /\ new.recorded = req[r].recorded /\ new.status = req[r].status
    BY OverFields DEF Answered
  <2> HIDE DEF new
  <2> QED
    BY <2>1, <2>2, <2>3, RecordQuiet DEF Quiet, Settled
<1>15. ASSUME NEW r \in Requests, HangUp(r) PROVE RecordInv'
  <2> DEFINE new == Over(req[r], "gone", 0)
  <2>1. new.phase = "gone"
    BY OverFields
  <2>2. req' = [req EXCEPT ![r] = new] /\ UNCHANGED <<errors, ledger>>
    BY <1>15 DEF HangUp
  <2> HIDE DEF new
  <2> QED
    BY <2>1, <2>2, RecordQuiet DEF Quiet
<1>16. CASE UNCHANGED vars
  BY <1>16 DEF vars, RecordInv, RecordedSoFar, NoError, NoRow
<1> QED
  BY <1>1, <1>2, <1>3, <1>4, <1>5, <1>6, <1>7, <1>8, <1>9, <1>10, <1>11, <1>12,
     <1>13, <1>14, <1>15, <1>16 DEF Next, HandlerStep, ProviderStep

(* An answer that reaches its end has a capture closed with its status, an *)
(* error row exactly when the trouble was upstream, and neither that nor a *)
(* turn when it was refused locally (the handlers of main.rs).             *)
THEOREM AnswersRecorded == Spec => []AnswersAreRecorded
<1>1. RecordInv => AnswersAreRecorded
  BY DEF RecordInv, RecordedSoFar, AnswersAreRecorded, NoRow
<1> QED
  BY PipelineTypeInit, PipelineTypeStep, LoopInit, LoopStep, RecordInit, RecordStep, <1>1,
     PTL DEF Spec
-----------------------------------------------------------------------------
(***************************************************************************)
(* The mean.  A row and its newline are two writes, so until two rows have *)
(* collided the ledger is a sequence of whole lines, the last one open as  *)
(* long as its writer has not come back.  A request owes its turn, or its  *)
(* one turn is in the ledger of this life of the process; what the mean    *)
(* of a session counts are the turns of the answered ones.                 *)
(***************************************************************************)
Writing(r) == req[r].phase = "writing"

LinesWhole ==
    /\ \A i \in DOMAIN ledger :
        /\ ledger[i].kind = "newline" => ledger[i] = EndOfRow
        /\ ledger[i].kind # "newline" =>
               /\ i > 1 => ledger[i - 1] = EndOfRow
               /\ i < Len(ledger) => ledger[i + 1] = EndOfRow
    /\ \A r \in Requests : Writing(r) => ledger # <<>> /\ ledger[Len(ledger)].by = r
    /\ (\A r \in Requests : ~Writing(r)) => ledger = <<>> \/ ledger[Len(ledger)] = EndOfRow

RowsOwned == \A i \in DOMAIN ledger : ledger[i].kind # "newline" => ledger[i].by \in Requests

OneTurn ==
    \A i, j \in DOMAIN ledger :
        ledger[i].kind = "turn" /\ ledger[j].kind = "turn" /\ ledger[i].by = ledger[j].by => i = j

TurnOf(r) ==
    [by |-> r, kind |-> "turn", session |-> req[r].session, ratio |-> AmpRatio(req[r].usage)]

Owes(r) == req[r].phase = "accounting" /\ req[r].rows \in {<<"turn">>, <<"turn", "reduce">>}

Paid(r) ==
    \/ Writing(r) /\ req[r].rows \in {<<"turn">>, <<"turn", "reduce">>, <<"reduce">>}
    \/ req[r].phase = "accounting" /\ req[r].rows \in {<<"reduce">>, <<>>}

TurnsOwn ==
    \A r \in Requests :
        /\ req[r].phase \in Settled => Owes(r) \/ Paid(r)
        /\ Owes(r) => NoRow(r)
        /\ Paid(r) => \E i \in DOMAIN ledger : i > boot /\ ledger[i] = TurnOf(r)

Shown(s) == TurnsShown(s) \ Pending(s)

MeansTrue ==
    \A s \in Sessions :
        /\ IsFiniteSet(Units(Shown(s)))
        /\ amp[s].turns = Cardinality(Shown(s))
        /\ amp[s].total = Cardinality(Units(Shown(s)))

LedgerInv ==
    /\ boot \in 0 .. Len(ledger)
    /\ ~Running => \A r \in Requests : ~InFlight(r)
    /\ RowsOwned /\ OneTurn
    /\ TurnsOwn
    /\ ~collided => LinesWhole
    /\ Running /\ ~collided => MeansTrue

LEMMA LedgerInit == Init => LedgerInv
<1> SUFFICES ASSUME Init PROVE LedgerInv
  OBVIOUS
<1>1. \A r \in Requests : req[r].phase = "idle"
  BY DEF Init, Blank
<1>2. ledger = <<>> /\ boot = 0 /\ ~Running
  BY DEF Init, Running
<1> QED
  BY <1>1, <1>2 DEF LedgerInv, InFlight, OneTurn, RowsOwned, TurnsOwn, LinesWhole, Owes, Paid,
     Writing, Settled

(* What a session is shown, by its own definition. *)
LEMMA ShownIs ==
    ASSUME NEW s, NEW i
    PROVE  i \in Shown(s) <=>
               /\ i \in Readable /\ i > boot /\ ledger[i].kind = "turn" /\ ledger[i].session = s
               /\ req[ledger[i].by].phase = "answered"
BY DEF Shown, TurnsShown, Pending

(* The same turns with the same ratios make the same mean. *)
LEMMA MeansFrame ==
    ASSUME MeansTrue, UNCHANGED amp,
           \A s \in Sessions : /\ Shown(s)' = Shown(s)
                               /\ \A i \in Shown(s) : ledger'[i] = ledger[i]
    PROVE  MeansTrue'
<1> SUFFICES ASSUME NEW s \in Sessions
             PROVE  /\ Shown(s)' = Shown(s)
                    /\ Units(Shown(s))' = Units(Shown(s))
  BY DEF MeansTrue
<1>1. Shown(s)' = Shown(s) /\ \A i \in Shown(s) : ledger'[i] = ledger[i]
  OBVIOUS
<1>2. Units(Shown(s))' = UNION {{i} \X (1 .. ledger'[i].ratio) : i \in Shown(s)'}
  BY DEF Units
<1>3. UNION {{i} \X (1 .. ledger'[i].ratio) : i \in Shown(s)'} = Units(Shown(s))
  BY <1>1 DEF Units
<1> QED
  BY <1>1, <1>2, <1>3

(* A step that writes no row and ends no turn leaves the ledger's facts.   *)
(* The requests it moves have no row yet: they come from the door or from  *)
(* the upstream, and what they go to owes a turn at most.                  *)
LEMMA NothingWritten ==
    ASSUME PipelineType, LedgerInv, Running, Running', UNCHANGED <<amp, ledger, boot, collided>>,
           \A r \in Requests :
               \/ req'[r] = req[r]
               \/ NoRow(r) /\ ~Writing(r) /\ (req'[r].phase \notin Settled \/ Owes(r)')
    PROVE  LedgerInv'
<1>1. \A r \in Requests : Writing(r)' <=> Writing(r)
  BY DEF Writing, Settled, Owes
<1>2. LinesWhole => LinesWhole'
  BY <1>1 DEF LinesWhole
<1>3. TurnsOwn'
  <2> SUFFICES ASSUME NEW r \in Requests
               PROVE  /\ req'[r].phase \in Settled => Owes(r)' \/ Paid(r)'
                      /\ Owes(r)' => NoRow(r)'
                      /\ Paid(r)' => \E i \in DOMAIN ledger' : i > boot' /\ ledger'[i] = TurnOf(r)'
    BY DEF TurnsOwn
  <2>1. CASE req'[r] = req[r]
    BY <2>1 DEF LedgerInv, TurnsOwn, Owes, Paid, Writing, NoRow, TurnOf
  <2>2. CASE NoRow(r) /\ req'[r].phase \notin Settled
    BY <2>2 DEF Owes, Paid, Writing, Settled
  <2>3. CASE NoRow(r) /\ Owes(r)'
    BY <2>3 DEF Owes, Paid, Writing, Settled, NoRow
  <2> QED
    BY <2>1, <2>2, <2>3
<1>4. \A s \in Sessions : Shown(s)' = Shown(s)
  <2> SUFFICES ASSUME NEW s \in Sessions, NEW i PROVE i \in Shown(s)' <=> i \in Shown(s)
    OBVIOUS
  <2>1. Readable' = Readable
    BY DEF Readable
  <2>2. ASSUME i \in Readable, ledger[i].kind = "turn"
        PROVE  req'[ledger[i].by] = req[ledger[i].by]
    <3>1. i \in DOMAIN ledger /\ ledger[i].by \in Requests
      BY <2>2 DEF LedgerInv, RowsOwned, Readable
    <3>2. ~NoRow(ledger[i].by)
      BY <3>1 DEF NoRow
    <3> QED
      BY <3>1, <3>2
  <2> QED
    BY <2>1, <2>2 DEF Shown, TurnsShown, Pending
<1>5. Running /\ ~collided => MeansTrue'
  BY <1>4, MeansFrame DEF LedgerInv
<1> QED
  BY <1>2, <1>3, <1>5 DEF LedgerInv, RowsOwned, OneTurn

LEMMA UpTo == ASSUME NEW m \in Nat PROVE IsFiniteSet(1 .. m) /\ Cardinality(1 .. m) = m
BY FS_Interval

(* One more turn counts once and for its own units. *)
LEMMA OneTurnMore ==
    ASSUME NEW S, NEW i, i \notin S, NEW f, f[i] \in Nat, IsFiniteSet(S),
           IsFiniteSet(UNION {{j} \X (1 .. f[j]) : j \in S})
    PROVE  LET U(T) == UNION {{j} \X (1 .. f[j]) : j \in T}
           IN  /\ IsFiniteSet(U(S \cup {i}))
               /\ Cardinality(S \cup {i}) = Cardinality(S) + 1
               /\ Cardinality(U(S \cup {i})) = Cardinality(U(S)) + f[i]
<1> DEFINE old == UNION {{j} \X (1 .. f[j]) : j \in S}
           new == {i} \X (1 .. f[i])
<1>1. UNION {{j} \X (1 .. f[j]) : j \in S \cup {i}} = old \cup new
  OBVIOUS
<1>2. IsFiniteSet(old) /\ old \cap new = {}
  OBVIOUS
<1>3. IsFiniteSet(new) /\ Cardinality(new) = f[i]
  <2>1. IsFiniteSet(1 .. f[i]) /\ Cardinality(1 .. f[i]) = f[i]
    BY UpTo
  <2>2. IsFiniteSet({i}) /\ Cardinality({i}) = 1
    BY FS_Singleton
  <2>3. IsFiniteSet(new) /\ Cardinality(new) = Cardinality({i}) * Cardinality(1 .. f[i])
    BY <2>1, <2>2, FS_Product
  <2> QED
    BY <2>1, <2>2, <2>3
<1>4. Cardinality(S \cup {i}) = Cardinality(S) + 1
  BY FS_AddElement
<1>5. /\ IsFiniteSet(old \cup new)
      /\ Cardinality(old \cup new) = Cardinality(old) + Cardinality(new) - Cardinality(old \cap new)
  <2> HIDE DEF old, new
  <2> QED
    BY <1>2, <1>3, FS_Union
<1>6. Cardinality(old \cap new) = 0 /\ Cardinality(old) \in Nat
  <2>1. Cardinality({}) = 0
    BY FS_EmptySet
  <2> HIDE DEF old, new
  <2> QED
    BY <1>2, <2>1, FS_CardinalityType
<1>7. Cardinality(old \cup new) = Cardinality(old) + f[i]
  <2> HIDE DEF old, new
  <2> QED
    BY <1>3, <1>5, <1>6
<1> HIDE DEF old, new
<1> QED
  BY <1>1, <1>4, <1>5, <1>7 DEF old

(* A handler on its way to the turn it may come to owe. *)
LEMMA BeforeTheTurn ==
    ASSUME PipelineType, RecordInv, LedgerInv, NEW r \in Requests, NEW new,
           req' = [req EXCEPT ![r] = new], UNCHANGED <<conf, amp, ledger, boot, collided>>,
           Running, req[r].phase \in {"idle", "arrived"} \cup Held,
           \/ new.phase \notin Settled
           \/ new.phase = "accounting" /\ new.rows \in {<<"turn">>, <<"turn", "reduce">>}
    PROVE  LedgerInv'
<1>1. NoRow(r) /\ ~Writing(r)
  BY DEF RecordInv, RecordedSoFar, Writing, Held
<1>2. req'[r] = new /\ \A o \in Requests : o # r => req'[o] = req[o]
  BY DEF PipelineType
<1>3. req'[r].phase \notin Settled \/ Owes(r)'
  BY <1>2 DEF Owes
<1>4. Running'
  BY DEF Running
<1> QED
  BY <1>1, <1>2, <1>3, <1>4, NothingWritten

LEMMA AtWork ==
    ASSUME LedgerInv, NEW r \in Requests, req[r].phase \notin {"idle", "answered", "gone"}
    PROVE  Running
BY DEF LedgerInv, InFlight

(* Lines are only added at the end. *)
LEMMA LineAdded ==
    ASSUME PipelineType, NEW e \in Entry, ledger' = Append(ledger, e)
    PROVE  /\ Len(ledger) \in Nat /\ Len(ledger') = Len(ledger) + 1
           /\ DOMAIN ledger = 1 .. Len(ledger) /\ DOMAIN ledger' = 1 .. Len(ledger) + 1
           /\ \A i \in DOMAIN ledger : ledger'[i] = ledger[i]
           /\ ledger'[Len(ledger) + 1] = e
           /\ ledger = <<>> <=> Len(ledger) = 0
           /\ ledger' # <<>>
BY DEF PipelineType

(* A handler's own line leaves to the others what they owe and have paid. *)
LEMMA OthersTurns ==
    ASSUME PipelineType, LedgerInv, NEW r \in Requests, NEW new, NEW e \in Entry,
           req' = [req EXCEPT ![r] = new], ledger' = Append(ledger, e), UNCHANGED boot,
           e.by = r \/ e.by = NoTask,
           /\ req'[r].phase \in Settled => Owes(r)' \/ Paid(r)'
           /\ Owes(r)' => NoRow(r)'
           /\ Paid(r)' => \E i \in DOMAIN ledger' : i > boot' /\ ledger'[i] = TurnOf(r)'
    PROVE  TurnsOwn'
<1> SUFFICES ASSUME NEW o \in Requests, o # r
             PROVE  /\ req'[o].phase \in Settled => Owes(o)' \/ Paid(o)'
                    /\ Owes(o)' => NoRow(o)'
                    /\ Paid(o)' => \E i \in DOMAIN ledger' : i > boot' /\ ledger'[i] = TurnOf(o)'
  BY DEF TurnsOwn
<1>1. req'[o] = req[o]
  BY DEF PipelineType
<1>2. e.by # o
  BY PipelineAssumption
<1>3. /\ Owes(o)' <=> Owes(o)
      /\ Paid(o)' <=> Paid(o)
      /\ TurnOf(o)' = TurnOf(o)
      /\ NoRow(o) => NoRow(o)'
  BY <1>1, <1>2, RowOfOne DEF Owes, Paid, Writing, TurnOf
<1>4. \A i \in DOMAIN ledger : i \in DOMAIN ledger' /\ ledger'[i] = ledger[i]
  BY LineAdded
<1> QED
  BY <1>1, <1>3, <1>4 DEF LedgerInv, TurnsOwn

(* The rows of a turn, one after the other. *)
LEMMA RowsInTurn ==
    /\ Head(<<"turn">>) = "turn" /\ Tail(<<"turn">>) = <<>>
    /\ Head(<<"turn", "reduce">>) = "turn" /\ Tail(<<"turn", "reduce">>) = <<"reduce">>
    /\ Head(<<"reduce">>) = "reduce" /\ Tail(<<"reduce">>) = <<>>
    /\ <<"reduce">> # <<>> /\ <<"reduce">> # <<"turn">> /\ <<"reduce">> # <<"turn", "reduce">>
    /\ <<"turn">> # <<>> /\ <<"turn", "reduce">> # <<>>
OBVIOUS

LEMMA LedgerWriteRow ==
    ASSUME PipelineType, LedgerInv, NEW r \in Requests, WriteRow(r) PROVE LedgerInv'
<1> DEFINE e == [by |-> r, kind |-> Head(req[r].rows), session |-> req[r].session,
                 ratio |-> AmpRatio(req[r].usage)]
           new == [req[r] EXCEPT !.phase = "writing"]
<1>1. /\ req[r] \in Live /\ req[r].phase = "accounting" /\ req[r].rows # <<>>
      /\ req' = [req EXCEPT ![r] = new] /\ ledger' = Append(ledger, e)
      /\ UNCHANGED <<conf, amp, boot>>
      /\ collided' = (collided \/ \E o \in Requests : Writing(o))
  BY LiveRequest DEF WriteRow, Settled, Writing
<1>2. Head(req[r].rows) \in {"turn", "reduce"}
  BY <1>1 DEF Live, LiveRecord
<1>3. e \in Entry
  <2>1. req[r].session \in Sessions /\ AmpRatio(req[r].usage) \in Int
    BY <1>1, RatioIsNat DEF Live, LiveRecord
  <2> QED
    BY <1>2, <2>1 DEF Entry
<1>4. /\ new.phase = "writing" /\ new.rows = req[r].rows /\ new.session = req[r].session
      /\ new.usage = req[r].usage
  BY <1>1 DEF Live, LiveRecord
<1>5. e.by = r /\ e.kind = Head(req[r].rows)
  OBVIOUS
<1>6. e = [by |-> r, kind |-> e.kind, session |-> req[r].session, ratio |-> AmpRatio(req[r].usage)]
  OBVIOUS
<1> HIDE DEF e, new
<1>7. req'[r] = new /\ \A o \in Requests : o # r => req'[o] = req[o]
  BY <1>1 DEF PipelineType
<1>8. Writing(r)' /\ TurnOf(r)' = TurnOf(r)
  BY <1>4, <1>7 DEF Writing, TurnOf
<1>9. Running
  BY <1>1, AtWork
<1>10. (Owes(r) /\ e.kind = "turn") \/ (Paid(r) /\ e.kind = "reduce")
  <2>1. Owes(r) \/ Paid(r)
    BY <1>1 DEF LedgerInv, TurnsOwn, Settled
  <2>2. ASSUME Owes(r) PROVE e.kind = "turn"
    BY <1>5, <2>2, RowsInTurn, Zenon DEF Owes
  <2>3. ASSUME Paid(r) PROVE e.kind = "reduce"
    <3>1. req[r].rows \in {<<"reduce">>, <<>>}
      BY <1>1, <2>3 DEF Paid, Writing
    <3> QED
      BY <1>1, <1>5, <3>1, RowsInTurn, Zenon
  <2>4. CASE Owes(r)
    BY <2>2, <2>4
  <2>5. CASE Paid(r)
    BY <2>3, <2>5
  <2> QED
    BY <2>1, <2>4, <2>5
<1>11. Owes(r) => NoRow(r) /\ e = TurnOf(r)
  <2> SUFFICES ASSUME Owes(r) PROVE NoRow(r) /\ e = TurnOf(r)
    OBVIOUS
  <2>1. e.kind = "turn"
    BY <1>1, <1>5, RowsInTurn, Zenon DEF Owes
  <2> QED
    BY <1>6, <2>1 DEF LedgerInv, TurnsOwn, TurnOf
<1>12. boot \in 0 .. Len(ledger)
  BY DEF LedgerInv
<1>13. OneTurn'
  BY <1>1, <1>3, <1>5, <1>10, <1>11, LineAdded DEF LedgerInv, OneTurn, NoRow
<1>14. TurnsOwn'
  <2>1. Paid(r)' /\ ~Owes(r)'
    <3>1. req'[r].phase = "writing" /\ req'[r].rows = req[r].rows /\ "writing" # "accounting"
      BY <1>4, <1>7
    <3>2. req[r].rows \in {<<"turn">>, <<"turn", "reduce">>, <<"reduce">>}
      BY <1>1, <1>10 DEF Owes, Paid, Writing
    <3> QED
      BY <3>1, <3>2, Zenon DEF Owes, Paid, Writing
  <2>2. \E i \in DOMAIN ledger' : i > boot' /\ ledger'[i] = TurnOf(r)'
    <3>1. CASE Owes(r)
      BY <1>1, <1>3, <1>8, <1>11, <1>12, <3>1, LineAdded
    <3>2. CASE Paid(r)
      <4>1. PICK i \in DOMAIN ledger : i > boot /\ ledger[i] = TurnOf(r)
        BY <3>2 DEF LedgerInv, TurnsOwn
      <4> QED
        BY <1>1, <1>3, <1>8, <4>1, LineAdded
    <3> QED
      BY <1>10, <3>1, <3>2
  <2> QED
    BY <1>1, <1>3, <1>5, <2>1, <2>2, OthersTurns
<1>15. RowsOwned'
  BY <1>1, <1>3, <1>5, LineAdded DEF LedgerInv, RowsOwned
<1>16. ASSUME ~collided' PROVE LinesWhole' /\ MeansTrue'
  <2>1. ~collided /\ LinesWhole /\ MeansTrue /\ \A o \in Requests : ~Writing(o)
    BY <1>1, <1>9, <1>16 DEF LedgerInv
  <2>2. \A o \in Requests : Writing(o)' => o = r
    BY <1>7, <2>1 DEF Writing
  <2>3. Len(ledger) = 0 \/ ledger[Len(ledger)] = EndOfRow
    BY <2>1 DEF LinesWhole
  <2>4. EndOfRow.kind = "newline" /\ e.kind # "newline"
    BY <1>10 DEF EndOfRow
  <2>5. LinesWhole'
    BY <1>1, <1>3, <1>5, <1>8, <2>1, <2>2, <2>3, <2>4, LineAdded DEF LinesWhole
  <2>6. \A s \in Sessions : /\ Shown(s)' = Shown(s)
                            /\ \A i \in Shown(s) : ledger'[i] = ledger[i]
    <3> SUFFICES ASSUME NEW s \in Sessions, NEW i
                 PROVE  /\ i \in Shown(s)' <=> i \in Shown(s)
                        /\ i \in Shown(s) => ledger'[i] = ledger[i]
      OBVIOUS
    <3>1. i \in Readable <=> i \in DOMAIN ledger /\ i < Len(ledger) /\ ledger[i].kind # "newline"
      BY <2>1 DEF Readable, LinesWhole, PipelineType
    <3>2. i \in Readable' <=> i \in DOMAIN ledger' /\ i < Len(ledger') /\ ledger'[i].kind # "newline"
      BY <2>5 DEF Readable, LinesWhole
    <3>3. i \in Readable' <=> i \in Readable
      BY <1>1, <1>3, <2>3, <2>4, <3>1, <3>2, LineAdded
    <3>4. i \in Readable => ledger'[i] = ledger[i]
      BY <1>1, <1>3, <3>1, LineAdded
    <3>5. i \in Readable => ledger[i].by \in Requests
      BY <3>1 DEF LedgerInv, RowsOwned
    <3>6. \A o \in Requests : req'[o].phase = "answered" <=> req[o].phase = "answered"
      BY <1>1, <1>4, <1>7
    <3>7. i \in Shown(s)' <=>
              /\ i \in Readable' /\ i > boot /\ ledger'[i].kind = "turn"
              /\ ledger'[i].session = s /\ req'[ledger'[i].by].phase = "answered"
      BY <1>1 DEF Shown, TurnsShown, Pending
    <3> QED
      BY <3>3, <3>4, <3>5, <3>6, <3>7, ShownIs
  <2> QED
    BY <1>1, <2>1, <2>5, <2>6, MeansFrame
<1>17. boot' \in 0 .. Len(ledger') /\ Running'
  BY <1>1, <1>3, <1>9, <1>12, LineAdded DEF Running
<1> QED
  BY <1>13, <1>14, <1>15, <1>16, <1>17 DEF LedgerInv

LEMMA LedgerEndRow ==
    ASSUME PipelineType, LedgerInv, NEW r \in Requests, EndRow(r) PROVE LedgerInv'
<1> DEFINE new == [req[r] EXCEPT !.phase = "accounting", !.rows = Tail(@)]
<1>1. /\ req[r] \in Live /\ Writing(r)
      /\ req' = [req EXCEPT ![r] = new] /\ ledger' = Append(ledger, EndOfRow)
      /\ UNCHANGED <<conf, amp, boot, collided>>
  BY LiveRequest DEF EndRow, Settled, Writing
<1>2. /\ new.phase = "accounting" /\ new.rows = Tail(req[r].rows)
      /\ new.session = req[r].session /\ new.usage = req[r].usage
  BY <1>1 DEF Live, LiveRecord
<1> HIDE DEF new
<1>3. req'[r] = new /\ \A o \in Requests : o # r => req'[o] = req[o]
  BY <1>1 DEF PipelineType
<1>4. /\ EndOfRow \in Entry /\ EndOfRow.by = NoTask /\ EndOfRow.kind = "newline"
  BY DEF EndOfRow, Entry
<1>5. TurnOf(r)' = TurnOf(r)
  BY <1>2, <1>3 DEF TurnOf
<1>6. Running
  BY <1>1, AtWork DEF Writing
<1>7. boot' \in 0 .. Len(ledger') /\ Running'
  BY <1>1, <1>4, <1>6, LineAdded DEF Running, LedgerInv
<1>8. OneTurn' /\ RowsOwned'
  BY <1>1, <1>4, LineAdded DEF LedgerInv, OneTurn, RowsOwned
<1>9. TurnsOwn'
  <2>1. Paid(r) /\ req[r].rows \in {<<"turn">>, <<"turn", "reduce">>, <<"reduce">>}
    BY <1>1 DEF LedgerInv, TurnsOwn, Settled, Owes, Paid, Writing
  <2>2. new.rows \in {<<"reduce">>, <<>>}
    BY <1>2, <2>1, RowsInTurn, Zenon
  <2>3. Paid(r)' /\ ~Owes(r)'
    BY <1>2, <1>3, <2>2, RowsInTurn, Zenon DEF Owes, Paid
  <2>4. PICK i \in DOMAIN ledger : i > boot /\ ledger[i] = TurnOf(r)
    BY <2>1 DEF LedgerInv, TurnsOwn
  <2>5. i \in DOMAIN ledger' /\ i > boot' /\ ledger'[i] = TurnOf(r)'
    BY <1>1, <1>4, <1>5, <2>4, LineAdded
  <2> QED
    BY <1>1, <1>4, <2>3, <2>5, OthersTurns
<1>10. ASSUME ~collided' PROVE LinesWhole' /\ MeansTrue'
  <2>1. LinesWhole /\ MeansTrue
    BY <1>1, <1>6, <1>10 DEF LedgerInv
  <2>2. ledger # <<>> /\ \A o \in Requests : Writing(o) => ledger[Len(ledger)].by = o
    BY <1>1, <2>1 DEF LinesWhole
  <2>3. \A o \in Requests : ~Writing(o)'
    BY <1>1, <1>2, <1>3, <2>2 DEF Writing
  <2>4. LinesWhole'
    BY <1>1, <1>4, <2>1, <2>2, <2>3, LineAdded DEF LinesWhole
  <2>5. \A s \in Sessions : /\ Shown(s)' = Shown(s)
                            /\ \A i \in Shown(s) : ledger'[i] = ledger[i]
    <3> SUFFICES ASSUME NEW s \in Sessions, NEW i
                 PROVE  /\ i \in Shown(s)' <=> i \in Shown(s)
                        /\ i \in Shown(s) => ledger'[i] = ledger[i]
      OBVIOUS
    <3>1. i \in Readable <=> i \in DOMAIN ledger /\ i < Len(ledger) /\ ledger[i].kind # "newline"
      BY <2>1 DEF Readable, LinesWhole, PipelineType
    <3>2. i \in Readable' <=> i \in DOMAIN ledger' /\ i < Len(ledger') /\ ledger'[i].kind # "newline"
      BY <2>4 DEF Readable, LinesWhole
    <3>3. i \in Readable => ledger'[i] = ledger[i] /\ i \in Readable'
      BY <1>1, <1>4, <3>1, <3>2, LineAdded
    <3>4. i \in Readable' => i \in DOMAIN ledger /\ ledger'[i] = ledger[i]
                             /\ (i \in Readable \/ ledger[i].by = r)
      BY <1>1, <1>4, <2>2, <3>1, <3>2, LineAdded
    <3>5. i \in Readable' => ledger[i].by \in Requests
      BY <3>2, <3>4 DEF LedgerInv, RowsOwned
    <3>6. /\ \A o \in Requests : req'[o].phase = "answered" <=> req[o].phase = "answered"
          /\ req'[r].phase # "answered"
      BY <1>1, <1>2, <1>3 DEF Writing
    <3>7. i \in Shown(s)' <=>
              /\ i \in Readable' /\ i > boot /\ ledger'[i].kind = "turn"
              /\ ledger'[i].session = s /\ req'[ledger'[i].by].phase = "answered"
      BY <1>1 DEF Shown, TurnsShown, Pending
    <3> QED
      BY <3>3, <3>4, <3>5, <3>6, <3>7, ShownIs
  <2> QED
    BY <1>1, <2>1, <2>4, <2>5, MeansFrame
<1> QED
  BY <1>7, <1>8, <1>9, <1>10 DEF LedgerInv

LEMMA LedgerAccount ==
    ASSUME PipelineType, LedgerInv, NEW r \in Requests, Account(r) PROVE LedgerInv'
<1> DEFINE new == Answered(req[r], req[r].status)
<1>0. PICK s, u : s = req[r].session /\ u = req[r].usage
  OBVIOUS
<1>1. /\ req[r] \in Live /\ req[r].phase = "accounting" /\ req[r].rows = <<>>
      /\ req' = [req EXCEPT ![r] = new]
      /\ amp' = [amp EXCEPT ![s] = [turns |-> @.turns + 1, total |-> @.total + AmpRatio(u)]]
      /\ UNCHANGED <<conf, ledger, boot, collided>>
  BY <1>0, LiveRequest DEF Account, Settled, Fold
<1>2. s \in Sessions /\ AmpRatio(u) \in Nat
  BY <1>0, <1>1, RatioIsNat DEF Live, LiveRecord
<1>3. new.phase = "answered"
  BY OverFields DEF Answered
<1> HIDE DEF new
<1>4. req'[r] = new /\ \A o \in Requests : o # r => req'[o] = req[o]
  BY <1>1 DEF PipelineType
<1>5. PICK n \in DOMAIN ledger : n > boot /\ ledger[n] = TurnOf(r)
  <2>1. Paid(r)
    BY <1>1, RowsInTurn, Zenon DEF Paid
  <2> QED
    BY <2>1 DEF LedgerInv, TurnsOwn
<1>6. /\ ledger[n].by = r /\ ledger[n].kind = "turn" /\ ledger[n].session = s
      /\ ledger[n].ratio = AmpRatio(u)
  BY <1>0, <1>5 DEF TurnOf
<1>7. \A o \in Requests : Writing(o)' <=> Writing(o)
  BY <1>1, <1>3, <1>4 DEF Writing
<1>8. Running /\ Running'
  BY <1>1, AtWork DEF Running
<1>9. TurnsOwn'
  <2> SUFFICES ASSUME NEW o \in Requests
               PROVE  /\ req'[o].phase \in Settled => Owes(o)' \/ Paid(o)'
                      /\ Owes(o)' => NoRow(o)'
                      /\ Paid(o)' => \E i \in DOMAIN ledger' : i > boot' /\ ledger'[i] = TurnOf(o)'
    BY DEF TurnsOwn
  <2>1. CASE o = r
    BY <1>3, <1>4, <2>1 DEF Owes, Paid, Writing, Settled
  <2>2. CASE o # r
    BY <1>1, <1>4, <2>2 DEF LedgerInv, TurnsOwn, Owes, Paid, Writing, NoRow, TurnOf
  <2> QED
    BY <2>1, <2>2
<1>10. ASSUME ~collided' PROVE LinesWhole' /\ MeansTrue'
  <2>1. LinesWhole /\ MeansTrue
    BY <1>1, <1>8, <1>10 DEF LedgerInv
  <2>2. LinesWhole'
    BY <1>1, <1>7, <2>1 DEF LinesWhole
  <2>3. n \in Readable
    <3>1. \A i : i \in Readable <=> i \in DOMAIN ledger /\ i < Len(ledger) /\ ledger[i].kind # "newline"
      BY <2>1 DEF Readable, LinesWhole, PipelineType
    <3>2. n # Len(ledger)
      <4>1. SUFFICES ASSUME n = Len(ledger) PROVE FALSE
        OBVIOUS
      <4>2. ledger[Len(ledger)] # EndOfRow /\ ledger # <<>>
        BY <1>5, <1>6, <4>1 DEF EndOfRow, PipelineType
      <4>3. PICK o \in Requests : Writing(o)
        BY <2>1, <4>2 DEF LinesWhole
      <4>4. o = r
        BY <1>6, <2>1, <4>1, <4>3 DEF LinesWhole
      <4> QED
        BY <1>1, <4>3, <4>4 DEF Writing
    <3> QED
      BY <1>5, <1>6, <3>1, <3>2 DEF PipelineType
  <2>4. \A i \in Readable : ledger[i].kind = "turn" =>
            /\ ledger[i].by \in Requests
            /\ ledger[i].by = r => i = n
    BY <1>5, <1>6 DEF LedgerInv, RowsOwned, OneTurn, Readable
  <2>5. Readable' = Readable
    BY <1>1 DEF Readable
  <2>a. ASSUME NEW t, NEW i
        PROVE  i \in Shown(t)' <=>
                   /\ i \in Readable /\ i > boot /\ ledger[i].kind = "turn"
                   /\ ledger[i].session = t /\ req'[ledger[i].by].phase = "answered"
    BY <1>1, <2>5 DEF Shown, TurnsShown, Pending
  <2>6. n \notin Shown(s) /\ Shown(s)' = Shown(s) \cup {n}
    <3> SUFFICES ASSUME NEW i
                 PROVE  /\ i \in Shown(s)' <=> i \in Shown(s) \/ i = n
                        /\ n \notin Shown(s)
      OBVIOUS
    <3>1. n \notin Shown(s)
      BY <1>1, <1>6, ShownIs
    <3>2. CASE i = n
      BY <1>3, <1>4, <1>5, <1>6, <2>3, <2>a, <3>1, <3>2
    <3>3. CASE i # n
      <4>1. i \in Readable /\ ledger[i].kind = "turn" => req'[ledger[i].by] = req[ledger[i].by]
        BY <1>4, <2>4, <3>3
      <4> QED
        BY <2>a, <3>1, <3>3, <4>1, ShownIs
    <3> QED
      BY <3>1, <3>2, <3>3
  <2>7. \A t \in Sessions : t # s => Shown(t)' = Shown(t)
    <3> SUFFICES ASSUME NEW t \in Sessions, t # s, NEW i PROVE i \in Shown(t)' <=> i \in Shown(t)
      OBVIOUS
    <3>1. i \in Readable /\ ledger[i].kind = "turn" /\ ledger[i].session = t
              => req'[ledger[i].by] = req[ledger[i].by]
      BY <1>4, <1>6, <2>4
    <3> QED
      BY <2>a, <3>1, ShownIs
  <2>8. /\ IsFiniteSet(Units(Shown(s))) /\ amp[s].turns = Cardinality(Shown(s))
        /\ amp[s].total = Cardinality(Units(Shown(s)))
    BY <1>2, <2>1 DEF MeansTrue
  <2> DEFINE f == [i \in DOMAIN ledger |-> ledger[i].ratio]
  <2>9. ASSUME NEW t \in Sessions
        PROVE  Units(Shown(t)) = UNION {{i} \X (1 .. f[i]) : i \in Shown(t)}
    BY DEF Units, Shown, TurnsShown, Readable
  <2>10. ASSUME NEW t \in Sessions
         PROVE  Units(Shown(t))' = UNION {{i} \X (1 .. f[i]) : i \in Shown(t)'}
    BY <1>1 DEF Units, Shown, TurnsShown, Readable
  <2>11. IsFiniteSet(Shown(s))
    <3>1. IsFiniteSet(1 .. Len(ledger)) /\ Shown(s) \subseteq 1 .. Len(ledger)
      <4>1. Len(ledger) \in Int
        BY DEF PipelineType
      <4>2. IsFiniteSet(1 .. Len(ledger))
        BY <4>1, FS_Interval
      <4> QED
        BY <4>2 DEF Shown, TurnsShown, Readable, PipelineType
    <3> QED
      BY <3>1, FS_Subset
  <2>12. f[n] = AmpRatio(u)
    BY <1>6
  <2> HIDE DEF f
  <2> DEFINE U(T) == UNION {{i} \X (1 .. f[i]) : i \in T}
  <2>13. /\ IsFiniteSet(U(Shown(s) \cup {n}))
         /\ Cardinality(Shown(s) \cup {n}) = Cardinality(Shown(s)) + 1
         /\ Cardinality(U(Shown(s) \cup {n})) = Cardinality(U(Shown(s))) + f[n]
    <3>1. IsFiniteSet(U(Shown(s))) /\ f[n] \in Nat
      BY <1>2, <2>8, <2>9, <2>12
    <3> QED
      BY <2>6, <2>11, <3>1, OneTurnMore
  <2>14. /\ IsFiniteSet(Units(Shown(s))') /\ amp'[s].turns = Cardinality(Shown(s)')
         /\ amp'[s].total = Cardinality(Units(Shown(s))')
    <3>1. Units(Shown(s))' = U(Shown(s) \cup {n}) /\ Units(Shown(s)) = U(Shown(s))
      BY <1>2, <2>6, <2>9, <2>10
    <3>2. amp'[s].turns = amp[s].turns + 1 /\ amp'[s].total = amp[s].total + AmpRatio(u)
      BY <1>1, <1>2 DEF PipelineType
    <3> QED
      BY <2>6, <2>8, <2>12, <2>13, <3>1, <3>2
  <2>15. ASSUME NEW t \in Sessions, t # s
         PROVE  /\ IsFiniteSet(Units(Shown(t))') /\ amp'[t].turns = Cardinality(Shown(t)')
                /\ amp'[t].total = Cardinality(Units(Shown(t))')
    <3>1. Units(Shown(t))' = Units(Shown(t)) /\ Shown(t)' = Shown(t)
      BY <2>7, <2>9, <2>10, <2>15
    <3>2. amp'[t] = amp[t]
      BY <1>1, <2>15 DEF PipelineType
    <3> QED
      BY <2>1, <2>15, <3>1, <3>2 DEF MeansTrue
  <2>16. MeansTrue'
    BY <2>14, <2>15 DEF MeansTrue
  <2> QED
    BY <2>2, <2>16
<1> QED
  BY <1>1, <1>8, <1>9, <1>10 DEF LedgerInv, OneTurn, RowsOwned

LEMMA LedgerStep == PipelineType /\ LoopInv /\ RecordInv /\ LedgerInv /\ [Next]_vars => LedgerInv'
<1> SUFFICES ASSUME PipelineType, LoopInv, RecordInv, LedgerInv, [Next]_vars PROVE LedgerInv'
  OBVIOUS
<1>1. ASSUME NEW setup \in Setups, Boot(setup) PROVE LedgerInv'
  <2>1. /\ UNCHANGED <<req, ledger, collided>> /\ boot' = Len(ledger) /\ ~Running
        /\ amp' = [s \in Sessions |-> Fresh]
    BY <1>1 DEF Boot
  <2>2. \A r \in Requests : ~InFlight(r)
    BY <2>1 DEF LedgerInv
  <2>3. boot' \in 0 .. Len(ledger')
    BY <2>1 DEF PipelineType
  <2>4. TurnsOwn'
    BY <2>1, <2>2 DEF TurnsOwn, Owes, Paid, Writing, Settled, InFlight
  <2>5. MeansTrue'
    <3> SUFFICES ASSUME NEW s \in Sessions
                 PROVE  /\ IsFiniteSet(Units(Shown(s))') /\ amp'[s].turns = Cardinality(Shown(s)')
                        /\ amp'[s].total = Cardinality(Units(Shown(s))')
      BY DEF MeansTrue
    <3>1. Shown(s)' = {}
      BY <2>1 DEF Shown, TurnsShown, Readable, PipelineType
    <3>2. Units(Shown(s))' = {}
      BY <3>1 DEF Units
    <3>3. amp'[s].turns = 0 /\ amp'[s].total = 0
      BY <2>1 DEF Fresh
    <3> QED
      BY <3>1, <3>2, <3>3, FS_EmptySet
  <2>7. ~collided => LinesWhole'
    BY <2>1 DEF LedgerInv, LinesWhole, Writing
  <2>8. \A r \in Requests : ~InFlight(r)'
    BY <2>1, <2>2 DEF InFlight
  <2> QED
    BY <2>1, <2>3, <2>4, <2>5, <2>7, <2>8 DEF LedgerInv, OneTurn, RowsOwned
<1>2. CASE Crash
  <2>1. /\ \A r \in Requests : ~InFlight(r)' /\ (InFlight(r) \/ req'[r] = req[r])
        /\ UNCHANGED <<ledger, boot>> /\ ~Running'
        /\ collided' = (collided \/ \E r \in Requests : Writing(r))
    <3>1. \A r \in Requests :
              IF InFlight(r) THEN req'[r].phase = "gone" ELSE req'[r] = req[r]
      BY <1>2, OverFields DEF Crash, PipelineType
    <3> QED
      BY <1>2, <3>1 DEF Crash, Writing, InFlight, Running
  <2>2. TurnsOwn'
    BY <2>1 DEF TurnsOwn, Owes, Paid, Writing, Settled, InFlight
  <2>3. ~collided' => LinesWhole'
    BY <2>1 DEF LedgerInv, LinesWhole, Writing, InFlight
  <2> QED
    BY <2>1, <2>2, <2>3 DEF LedgerInv, OneTurn, RowsOwned
<1>3. ASSUME NEW r \in Requests, NEW route \in Routes, NEW s \in Sessions, NEW body \in Bodies,
             Arrive(r, route, s, body)
      PROVE  LedgerInv'
  <2> DEFINE new == NewRequest(route, s, body, FALSE, r)
  <2>1. /\ req' = [req EXCEPT ![r] = new] /\ UNCHANGED <<conf, amp, ledger, boot, collided>>
        /\ Running /\ req[r].phase = "idle"
    BY <1>3 DEF Arrive, Blank
  <2>2. new.phase \notin Settled
    BY DEF NewRequest, Settled
  <2> HIDE DEF new
  <2> QED
    BY <2>1, <2>2, BeforeTheTurn
<1>4. ASSUME NEW r \in Requests, TurnAway(r) PROVE LedgerInv'
  <2>1. PICK st \in {413, 508} : req' = [req EXCEPT ![r] = Answered(req[r], st)]
    BY <1>4, SMTT(30) DEF TurnAway
  <2> DEFINE new == Answered(req[r], st)
  <2>2. req[r].phase = "arrived" /\ UNCHANGED <<conf, amp, ledger, boot, collided>>
    BY <1>4 DEF TurnAway
  <2>3. new.phase \notin Settled
    BY OverFields DEF Answered, Settled
  <2>4. req' = [req EXCEPT ![r] = new]
    BY <2>1
  <2>5. Running
    BY <2>2, AtWork
  <2> HIDE DEF new
  <2> QED
    BY <2>2, <2>3, <2>4, <2>5, BeforeTheTurn
<1>5. ASSUME NEW r \in Requests, Prepare(r) PROVE LedgerInv'
  <2> DEFINE q == [req[r] EXCEPT !.capture = "open", !.prior = amp[req[r].session]]
             new == IF Refusal(q) # 0 THEN Refuse(q, Refusal(q)) ELSE [q EXCEPT !.phase = "ready"]
  <2>1. /\ req[r] \in Live /\ req[r].phase = "arrived"
        /\ UNCHANGED <<conf, amp, ledger, boot, collided>> /\ req' = [req EXCEPT ![r] = new]
    BY <1>5, LiveRequest DEF Prepare
  <2>2. Refuse(q, Refusal(q)).phase = "answered"
    BY OverFields DEF Refuse, Answered
  <2>3. [q EXCEPT !.phase = "ready"].phase = "ready"
    BY <2>1 DEF Live, LiveRecord
  <2>4. new.phase \notin Settled
    <3> HIDE DEF q
    <3> QED
      BY <2>2, <2>3 DEF Settled
  <2> HIDE DEF new
  <2> QED
    BY <2>1, <2>4, AtWork, BeforeTheTurn
<1>6. ASSUME NEW r \in Requests, Unreachable(r) PROVE LedgerInv'
  <2> DEFINE new == [Refuse(req[r], 502) EXCEPT !.sent = TRUE]
  <2>1. /\ req[r].phase = "ready" /\ UNCHANGED <<conf, amp, ledger, boot, collided>>
        /\ req' = [req EXCEPT ![r] = new]
    BY <1>6 DEF Unreachable
  <2>2. new.phase = "answered"
    BY DEF Refuse, Answered, Over
  <2> HIDE DEF new
  <2> QED
    BY <2>1, <2>2, AtWork, BeforeTheTurn DEF Held, Settled
<1>7. ASSUME NEW r \in Requests, NEW st \in Statuses, Respond(r, st) PROVE LedgerInv'
  <2> DEFINE new == [req[r] EXCEPT !.phase = "streaming", !.sent = TRUE, !.status = st]
  <2>1. /\ req[r] \in Live /\ req[r].phase = "ready" /\ req' = [req EXCEPT ![r] = new]
        /\ UNCHANGED <<conf, amp, ledger, boot, collided>>
    BY <1>7, LiveRequest DEF Respond, Held
  <2>2. new.phase = "streaming"
    BY <2>1 DEF Live, LiveRecord
  <2> HIDE DEF new
  <2> QED
    BY <2>1, <2>2, AtWork, BeforeTheTurn DEF Held, Settled
<1>8. ASSUME NEW r \in Requests, LoopBack(r) PROVE LedgerInv'
  <2> DEFINE n == <<r[1], r[2] + 1>>
             q == [req[r] EXCEPT !.phase = "waiting", !.sent = TRUE]
             new == NewRequest(req[r].route, req[r].session, req[r].body, TRUE, r)
  <2>1. /\ req[r] \in Live /\ r[2] = 0 /\ req[r].phase = "ready"
        /\ UNCHANGED <<conf, amp, ledger, boot, collided>>
    BY <1>8, LiveRequest, PastTheDoor DEF LoopBack, Held
  <2>2. r = <<r[1], 0>> /\ n = <<r[1], 1>> /\ n \in Requests /\ n # r
    BY <2>1, ClientPair
  <2>3. q.phase = "waiting"
    BY <2>1 DEF Live, LiveRecord
  <2>4. new.phase = "arrived"
    BY DEF NewRequest
  <2>5. req' = [req EXCEPT ![r] = q, ![n] = new]
    <3>1. req' = [req EXCEPT ![r].phase = "waiting", ![r].sent = TRUE, ![n] = new]
      BY <1>8 DEF LoopBack
    <3> QED
      BY <3>1, <2>2 DEF PipelineType
  <2> HIDE DEF q, new
  <2>6. /\ req'[r] = q /\ req'[n] = new
        /\ \A o \in Requests : o # r /\ o # n => req'[o] = req[o]
    BY <2>2, <2>5 DEF PipelineType
  <2>7. req[n].phase = "idle"
    <3>1. n[2] = 1 /\ <<n[1], 0>> = r
      BY <2>2
    <3>2. req[n] # Blank => Return(n)
      BY <2>2, <3>1 DEF LoopInv
    <3> QED
      BY <2>1, <3>1, <3>2 DEF Return, Told, Blank
  <2>8. NoRow(r) /\ ~Writing(r) /\ NoRow(n) /\ ~Writing(n)
    BY <2>1, <2>2, <2>7 DEF RecordInv, RecordedSoFar, Held, Writing
  <2>9. req'[r].phase \notin Settled /\ req'[n].phase \notin Settled
    BY <2>3, <2>4, <2>6 DEF Settled
  <2>10. Running /\ Running'
    BY <2>1, AtWork DEF Running
  <2> HIDE DEF n
  <2> QED
    BY <2>1, <2>6, <2>8, <2>9, <2>10, NothingWritten
<1>9. ASSUME NEW r \in Requests, LoopAnswers(r) PROVE LedgerInv'
  <2> DEFINE n == <<r[1], r[2] + 1>>
             new == [req[r] EXCEPT !.phase = "streaming", !.status = req[n].status]
  <2>1. /\ req[r] \in Live /\ req[r].phase = "waiting" /\ req' = [req EXCEPT ![r] = new]
        /\ UNCHANGED <<conf, amp, ledger, boot, collided>>
    BY <1>9, LiveRequest DEF LoopAnswers, Held
  <2>2. new.phase = "streaming"
    BY <2>1 DEF Live, LiveRecord
  <2> HIDE DEF new
  <2> QED
    BY <2>1, <2>2, AtWork, BeforeTheTurn DEF Held, Settled
<1>10. ASSUME NEW r \in Requests, Break(r) PROVE LedgerInv'
  <2> DEFINE new == [req[r] EXCEPT !.phase = "broken"]
  <2>1. /\ req[r] \in Live /\ req[r].phase = "streaming" /\ req' = [req EXCEPT ![r] = new]
        /\ UNCHANGED <<conf, amp, ledger, boot, collided>>
    BY <1>10, LiveRequest DEF Break, Held
  <2>2. new.phase = "broken"
    BY <2>1 DEF Live, LiveRecord
  <2> HIDE DEF new
  <2> QED
    BY <2>1, <2>2, AtWork, BeforeTheTurn DEF Held, Settled
<1>11. ASSUME NEW r \in Requests, NEW u \in Usages, Finish(r, u) PROVE LedgerInv'
  <2> DEFINE q == Closed(req[r], req[r].status)
             rows == RowsOf(q, u)
             new == IF rows = <<>> THEN Answered(q, q.status)
                    ELSE [q EXCEPT !.phase = "accounting", !.usage = u, !.rows = rows]
  <2>1. /\ req[r] \in Live /\ req[r].phase \in {"streaming", "broken"} /\ req[r].status \in Int
        /\ req' = [req EXCEPT ![r] = new] /\ UNCHANGED <<conf, amp, ledger, boot, collided>>
    BY <1>11, LiveRequest DEF Finish, StreamOver, Held, Live, LiveRecord
  <2>2. q \in Live
    BY <2>1, ClosedIsLive
  <2>3. rows \in {<<>>, <<"turn">>, <<"turn", "reduce">>}
    BY DEF RowsOf
  <2>4. \/ new.phase = "answered"
        \/ new.phase = "accounting" /\ new.rows \in {<<"turn">>, <<"turn", "reduce">>}
    <3> HIDE DEF q, rows
    <3>1. CASE rows = <<>>
      BY <3>1, OverFields DEF Answered
    <3>2. CASE rows # <<>>
      BY <2>2, <2>3, <3>2 DEF Live, LiveRecord
    <3> QED
      BY <3>1, <3>2
  <2> HIDE DEF new
  <2>5. Running /\ req[r].phase \in Held
    BY <2>1, AtWork DEF Held
  <2> QED
    BY <2>1, <2>4, <2>5, BeforeTheTurn DEF Settled
<1>12. ASSUME NEW r \in Requests, WriteRow(r) PROVE LedgerInv'
  BY <1>12, LedgerWriteRow
<1>13. ASSUME NEW r \in Requests, EndRow(r) PROVE LedgerInv'
  BY <1>13, LedgerEndRow
<1>14. ASSUME NEW r \in Requests, Account(r) PROVE LedgerInv'
  BY <1>14, LedgerAccount
<1>15. ASSUME NEW r \in Requests, HangUp(r) PROVE LedgerInv'
  <2> DEFINE new == Over(req[r], "gone", 0)
  <2>1. new.phase = "gone"
    BY OverFields
  <2>2. /\ req' = [req EXCEPT ![r] = new] /\ UNCHANGED <<conf, amp, ledger, boot, collided>>
        /\ req[r].phase \in {"ready", "waiting", "streaming"}
    BY <1>15 DEF HangUp
  <2> HIDE DEF new
  <2> QED
    BY <2>1, <2>2, AtWork, BeforeTheTurn DEF Held, Settled
<1>16. CASE UNCHANGED vars
  <2>1. UNCHANGED <<req, conf, amp, ledger, boot, collided>>
    BY <1>16 DEF vars
  <2>2. \A s \in Sessions : Shown(s)' = Shown(s)
    BY <2>1 DEF Shown, TurnsShown, Pending, Readable
  <2>3. MeansTrue => MeansTrue'
    BY <2>1, <2>2, MeansFrame
  <2>4. TurnsOwn'
    BY <2>1 DEF LedgerInv, TurnsOwn, Owes, Paid, Writing, NoRow, TurnOf
  <2>5. LinesWhole => LinesWhole'
    BY <2>1 DEF LinesWhole, Writing
  <2> QED
    BY <2>1, <2>3, <2>4, <2>5 DEF LedgerInv, OneTurn, RowsOwned, InFlight, Running
<1> QED
  BY <1>1, <1>2, <1>3, <1>4, <1>5, <1>6, <1>7, <1>8, <1>9, <1>10, <1>11, <1>12,
     <1>13, <1>14, <1>15, <1>16 DEF Next, HandlerStep, ProviderStep

(* The amplification of a session is the mean over exactly the turns the   *)
(* ledger shows for it since the start of the process, each once, however  *)
(* many handlers end together, unless two rows have collided in the file   *)
(* (account and persist_amp_row of main.rs).                               *)
THEOREM MeanOfTheLedger == Spec => []MeanIsOfTheLedger
<1>1. PipelineType /\ LedgerInv => MeanIsOfTheLedger
  <2> SUFFICES ASSUME PipelineType, LedgerInv, Running, ~collided, NEW s \in Sessions
               PROVE  amp[s] = [turns |-> Cardinality(Shown(s)),
                                total |-> Cardinality(Units(Shown(s)))]
    BY DEF MeanIsOfTheLedger, Shown
  <2>1. amp[s] \in Counted
    BY DEF PipelineType
  <2>2. amp[s].turns = Cardinality(Shown(s)) /\ amp[s].total = Cardinality(Units(Shown(s)))
    BY DEF LedgerInv, MeansTrue
  <2> QED
    BY <2>1, <2>2 DEF Counted
<1> QED
  BY PipelineTypeInit, PipelineTypeStep, LoopInit, LoopStep, RecordInit, RecordStep, LedgerInit,
     LedgerStep, <1>1, PTL DEF Spec
=============================================================================
