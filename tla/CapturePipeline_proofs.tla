----------------------- MODULE CapturePipeline_proofs -----------------------
(***************************************************************************)
(* TLAPS proofs about CapturePipeline: the rotation, the dedupe window and *)
(* the entries on disk, for every cap, divisor, capacity and window and    *)
(* any number of captures.                                                 *)
(***************************************************************************)
EXTENDS CapturePipeline, FiniteSetTheorems, WellFoundedInduction, TLAPS

LEMMA Least ==
    ASSUME NEW S \in SUBSET Nat, S # {}
    PROVE  \E m \in S : \A x \in S : m <= x
<1>1. PICK m \in S : \A x \in S : ~(<<x, m>> \in OpToRel(<, Nat))
  BY WFMin, NatLessThanWellFounded
<1>2. ASSUME NEW x \in S PROVE m <= x
  <2>1. x < m => <<x, m>> \in OpToRel(<, Nat)
    BY DEF OpToRel
  <2>2. ~(<<x, m>> \in OpToRel(<, Nat))
    BY <1>1, Zenon
  <2>3. ~(x < m)
    BY <2>1, <2>2, Zenon
  <2>4. x \in Nat /\ m \in Nat
    OBVIOUS
  <2> QED
    BY <2>3, <2>4
<1> QED
  BY <1>2
-----------------------------------------------------------------------------
(***************************************************************************)
(* Rotation.  Of the entries a scan has read and could delete at most      *)
(* MaxEntries stay; between two scans the estimate never falls behind the  *)
(* entries on which no call has failed.                                    *)
(***************************************************************************)
LEMMA OnDiskIsFinite ==
    \A d : OnDisk(d) \in SUBSET Nat /\ IsFiniteSet(OnDisk(d))
<1>1. IsFiniteSet(Ids) /\ Ids \subseteq Nat
  BY FS_Interval, CaptureAssumption DEF Ids
<1> QED
  BY <1>1, FS_Subset DEF OnDisk

LEMMA NewestFit ==
    ASSUME NEW ids \in SUBSET Nat, IsFiniteSet(ids)
    PROVE  /\ IsFiniteSet(ids \ Oldest(ids))
           /\ Cardinality(ids \ Oldest(ids)) <= MaxEntries
<1> DEFINE kept == ids \ Oldest(ids)
<1>1. IsFiniteSet(kept) /\ kept \in SUBSET Nat
  BY FS_Subset
<1>2. ASSUME kept = {} PROVE Cardinality(kept) <= MaxEntries
  BY <1>2, FS_EmptySet, CaptureAssumption
<1>3. ASSUME kept # {} PROVE Cardinality(kept) <= MaxEntries
  <2>1. PICK m \in kept : \A x \in kept : m <= x
    BY <1>1, <1>3, Least
  <2> DEFINE above == {x \in ids : x >= m}
  <2>2. IsFiniteSet(above) /\ Cardinality(above) \in Nat
    BY FS_Subset, FS_CardinalityType
  <2>3. Cardinality(above) <= MaxEntries
    BY <2>1, <2>2, CaptureAssumption DEF Oldest
  <2>4. kept \in SUBSET above
    BY <1>1, <2>1
  <2>5. Cardinality(kept) <= Cardinality(above) /\ Cardinality(kept) \in Nat
    BY <1>1, <2>2, <2>4, FS_Subset, FS_CardinalityType
  <2> HIDE DEF kept, above
  <2> QED
    BY <2>2, <2>3, <2>5, CaptureAssumption
<1> QED
  BY <1>1, <1>2, <1>3

LEMMA SlackIsPositive == Slack \in Nat /\ Slack >= 1
BY CaptureAssumption DEF Slack

(* The entries on which no call has failed.                                *)
Sound == OnDisk(disk) \ missed

(* The entry just written is not counted before the writer has rotated.    *)
RotationInv ==
    /\ DOMAIN disk = Ids
    /\ DOMAIN writer = {"at", "id"} /\ writer.at \in {"ready", "rotate", "metadata"}
    /\ estimate \in Nat \cup {Unknown}
    /\ MaxEntries > 0 /\ estimate # Unknown =>
           /\ Cardinality(Sound) <= estimate + (IF writer.at = "rotate" THEN 1 ELSE 0)
           /\ writer.at # "rotate" => Cardinality(Sound) < MaxEntries + Slack

LEMMA SoundIsFinite ==
    /\ Sound \in SUBSET Nat /\ IsFiniteSet(Sound) /\ Cardinality(Sound) \in Nat
    /\ Sound' \in SUBSET Nat /\ IsFiniteSet(Sound') /\ Cardinality(Sound') \in Nat
<1>1. /\ OnDisk(disk) \in SUBSET Nat /\ IsFiniteSet(OnDisk(disk))
      /\ OnDisk(disk') \in SUBSET Nat /\ IsFiniteSet(OnDisk(disk'))
  BY OnDiskIsFinite
<1>2. Sound \in SUBSET OnDisk(disk) /\ Sound' \in SUBSET OnDisk(disk')
  BY DEF Sound
<1>3. IsFiniteSet(Sound) /\ IsFiniteSet(Sound')
  BY <1>1, <1>2, FS_Subset
<1> QED
  BY <1>1, <1>2, <1>3, FS_CardinalityType

LEMMA RotationInit == Init => RotationInv
BY DEF Init, RotationInv, Ready, Unknown

(* What adds no sound entry needs no count. *)
LEMMA RotationSame ==
    ASSUME RotationInv, DOMAIN disk' = Ids, Sound' \subseteq Sound, UNCHANGED estimate,
           writer' = writer \/ (writer.at # "rotate" /\ writer' = Ready)
    PROVE  RotationInv'
<1>1. Cardinality(Sound') <= Cardinality(Sound)
  BY SoundIsFinite, FS_Subset
<1>2. writer'.at # "rotate" => writer.at # "rotate"
  BY DEF Ready
<1> QED
  BY <1>1, <1>2, SoundIsFinite, SlackIsPositive, CaptureAssumption DEF RotationInv, Ready, Unknown

LEMMA RotationStep == RotationInv /\ [Next]_vars => RotationInv'
<1> SUFFICES ASSUME RotationInv, [Next]_vars PROVE RotationInv'
  OBVIOUS
<1>1. ASSUME UNCHANGED <<writer, disk, estimate, missed>> PROVE RotationInv'
  BY <1>1 DEF RotationInv, Sound
<1>2. CASE Handlers
  BY <1>1, <1>2 DEF Handlers, Admit, SkipDuplicate, SendStart, RecordOutbound, Finish, Abandon
<1>3. CASE WriteStart
  <2> DEFINE id == Head(channel).id
  <2>1. /\ disk' = [disk EXCEPT ![id] = "bare"] /\ UNCHANGED <<estimate, missed>>
        /\ writer.at = "ready" /\ writer' = [at |-> "rotate", id |-> id]
    BY <1>3 DEF WriteStart, Taken, Ready
  <2> HIDE DEF id
  <2>2. DOMAIN disk' = Ids /\ Sound' \in SUBSET (Sound \cup {id})
    BY <2>1 DEF OnDisk, RotationInv, Sound
  <2>3. /\ IsFiniteSet(Sound \cup {id})
        /\ Cardinality(Sound \cup {id}) <= Cardinality(Sound) + 1
    <3>1. /\ IsFiniteSet(Sound \cup {id})
          /\ Cardinality(Sound \cup {id}) =
                 IF id \in Sound THEN Cardinality(Sound) ELSE Cardinality(Sound) + 1
      BY SoundIsFinite, FS_AddElement, Zenon
    <3> QED
      BY <3>1, SoundIsFinite
  <2>4. Cardinality(Sound') <= Cardinality(Sound \cup {id}) /\ Cardinality(Sound \cup {id}) \in Nat
    BY <2>2, <2>3, FS_Subset, FS_CardinalityType
  <2>5. Cardinality(Sound') <= Cardinality(Sound) + 1
    BY <2>3, <2>4, SoundIsFinite
  <2> QED
    BY <2>1, <2>2, <2>5, SoundIsFinite DEF RotationInv, Unknown
<1>4. ASSUME NEW what \in StartFailures, StartFails(what) PROVE RotationInv'
  <2>1. PICK made : /\ disk' = [i \in Ids |-> IF i \in made THEN "bare" ELSE disk[i]]
                    /\ missed' = missed \cup made
                    /\ UNCHANGED <<estimate, writer>>
    BY <1>4 DEF StartFails
  <2>2. DOMAIN disk' = Ids /\ Sound' \subseteq Sound
    BY <2>1 DEF Sound, OnDisk
  <2> QED
    BY <2>1, <2>2, RotationSame
<1>5. CASE RotateEntries
  <2>1. /\ writer.at = "rotate" /\ writer' = [writer EXCEPT !.at = "metadata"]
        /\ DOMAIN writer' = {"at", "id"} /\ writer'.at = "metadata"
    BY <1>5 DEF RotateEntries, RotationInv
  <2>2. CASE MaxEntries = 0
    BY <1>5, <2>1, <2>2 DEF RotateEntries, RotationInv
  <2>3. ASSUME MaxEntries > 0, NEW hidden, NEW stuck, NEW gutted \in SUBSET stuck,
               stuck \in SUBSET Oldest(OnDisk(disk) \ hidden),
               Scan(hidden, stuck, gutted)
        PROVE  RotationInv'
    <3> DEFINE read == OnDisk(disk) \ hidden
               kept == read \ Oldest(read)
               left == read \ (Oldest(read) \ stuck)
    <3>1. /\ disk' = [i \in Ids |-> IF i \in Oldest(read) \ stuck THEN "gone"
                                     ELSE IF i \in gutted THEN "bare" ELSE disk[i]]
          /\ estimate' = Cardinality(left)
          /\ missed' = hidden \cup stuck
      BY <2>3 DEF Scan
    <3>2. read \in SUBSET Nat /\ IsFiniteSet(read) /\ read \in SUBSET OnDisk(disk)
      BY OnDiskIsFinite, FS_Subset
    <3>3. IsFiniteSet(kept) /\ Cardinality(kept) <= MaxEntries
      BY <3>2, NewestFit
    <3>4. kept \in SUBSET left /\ IsFiniteSet(left)
      BY <3>2, FS_Subset
    <3>5. Cardinality(kept) <= Cardinality(left) /\ Cardinality(left) \in Nat
          /\ Cardinality(kept) \in Nat
      BY <3>3, <3>4, FS_Subset, FS_CardinalityType
    <3>6. Sound' \in SUBSET kept
      <4>1. \A i \in OnDisk(disk') : i \in OnDisk(disk) /\ i \notin Oldest(read) \ stuck
        BY <2>3, <3>1 DEF OnDisk, Oldest
      <4> QED
        BY <3>1, <4>1 DEF Sound
    <3>7. Cardinality(Sound') <= Cardinality(kept)
      BY <3>3, <3>6, FS_Subset
    <3>8. DOMAIN disk' = Ids
      BY <3>1
    <3> HIDE DEF read, kept, left
    <3> QED
      BY <2>1, <3>1, <3>3, <3>5, <3>7, <3>8, SoundIsFinite, SlackIsPositive, CaptureAssumption
         DEF RotationInv
  <2>4. CASE MaxEntries > 0 /\ MustScan
    <3>1. PICK hidden \in MayFail("read", OnDisk(disk)) :
             \E stuck \in MayFail("delete", Oldest(OnDisk(disk) \ hidden)) :
                \E gutted \in SUBSET stuck : Scan(hidden, stuck, gutted)
      <4>1. MaxEntries # 0
        BY <2>4
      <4> QED
        BY <1>5, <2>4, <4>1, Zenon DEF RotateEntries
    <3>2. \A ids : MayFail("delete", ids) \subseteq SUBSET ids
      BY DEF MayFail
    <3> QED
      BY <2>3, <2>4, <3>1, <3>2
  <2>5. CASE MaxEntries > 0 /\ ~MustScan
    <3>1. estimate' = estimate + 1 /\ UNCHANGED <<disk, missed>>
      BY <1>5, <2>5, CaptureAssumption DEF RotateEntries
    <3>2. estimate \in Nat /\ estimate + 1 < MaxEntries + Slack
      BY <2>5, SlackIsPositive, CaptureAssumption DEF MustScan, RotationInv
    <3>3. Sound' = Sound
      BY <3>1 DEF Sound
    <3> QED
      BY <2>1, <2>5, <3>1, <3>2, <3>3, SoundIsFinite, SlackIsPositive, CaptureAssumption
         DEF RotationInv, Unknown
  <2> QED
    BY <2>2, <2>4, <2>5, CaptureAssumption
<1>6. CASE WriteMetadata
  <2>1. /\ disk' = [disk EXCEPT ![writer.id] = IF @ = "bare" THEN "partial" ELSE @]
        /\ writer.at # "rotate" /\ writer' = Ready /\ UNCHANGED <<estimate, missed>>
    BY <1>6 DEF WriteMetadata
  <2>2. DOMAIN disk' = Ids /\ Sound' \subseteq Sound
    BY <2>1 DEF OnDisk, RotationInv, Sound
  <2> QED
    BY <2>1, <2>2, RotationSame
<1>7. CASE WriteOutbound
  BY <1>1, <1>7 DEF WriteOutbound
<1>8. CASE WriteFinish
  <2> DEFINE id == Head(channel).id
  <2>1. /\ disk' = [disk EXCEPT ![id] = Finished(id)] /\ UNCHANGED <<estimate, writer, missed>>
    BY <1>8 DEF WriteFinish
  <2> HIDE DEF id
  <2>2. DOMAIN disk' = Ids /\ Sound' \subseteq Sound
    BY <2>1 DEF OnDisk, RotationInv, Finished, Sound
  <2> QED
    BY <2>1, <2>2, RotationSame
<1>9. CASE Restart
  BY <1>9 DEF Restart, RotationInv, Ready
<1>10. CASE Tick \/ UNCHANGED vars
  BY <1>1, <1>10 DEF Tick, vars
<1> QED
  BY <1>2, <1>3, <1>4, <1>5, <1>6, <1>7, <1>8, <1>9, <1>10 DEF Next, Writer

(* Whatever Starts, scans and deletions fail, and whenever the process     *)
(* restarts: the entries on which no call has failed stay within the cap   *)
(* and its slack (RotationState).                                          *)
THEOREM CapWithinSlack == Spec => []WithinSlack
<1>1. RotationInv => WithinSlack
  <2> SUFFICES ASSUME RotationInv, MaxEntries > 0, writer = Ready, estimate # Unknown
               PROVE  Cardinality(OnDisk(disk) \ missed) < MaxEntries + Slack
    BY DEF WithinSlack
  <2> QED
    BY DEF RotationInv, Ready, Sound
<1>2. RotationInv /\ [Next]_vars => RotationInv'
  BY RotationStep
<1> QED
  BY RotationInit, <1>1, <1>2, PTL DEF Spec

(* Where the file system fails on no directory: the root and its shards    *)
(* can be read, what is to go can be deleted, and a body can be written.   *)
NothingMissed == ScanFailures = {} /\ "body" \notin StartFailures

(* Then the cap itself is enforced within the slack, as the comment on     *)
(* record_and_maybe_rotate says, over restarts and Starts without a        *)
(* directory.                                                              *)
THEOREM CapHolds ==
    ASSUME NothingMissed
    PROVE  Spec => []CapEnforced
<1>1. Init => missed = {}
  BY DEF Init
<1>2. missed = {} /\ [Next]_vars => (missed = {})'
  <2> SUFFICES ASSUME missed = {}, [Next]_vars PROVE missed' = {}
    OBVIOUS
  <2>1. CASE Handlers
    BY <2>1 DEF Handlers, Admit, SkipDuplicate, SendStart, RecordOutbound, Finish, Abandon
  <2>2. ASSUME NEW what \in StartFailures, StartFails(what) PROVE missed' = {}
    BY <2>2 DEF StartFails, NothingMissed
  <2>3. CASE RotateEntries
    <3>1. \A what, ids : MayFail(what, ids) = {{}}
      BY DEF MayFail, NothingMissed
    <3> QED
      BY <2>3, <3>1 DEF RotateEntries, Scan
  <2>4. CASE WriteStart \/ WriteMetadata \/ WriteOutbound \/ WriteFinish
    BY <2>4 DEF WriteStart, WriteMetadata, WriteOutbound, WriteFinish
  <2>5. CASE Tick \/ Restart \/ UNCHANGED vars
    BY <2>5 DEF Tick, Restart, vars
  <2> QED
    BY <2>1, <2>2, <2>3, <2>4, <2>5 DEF Next, Writer
<1>3. WithinSlack /\ missed = {} => CapEnforced
  BY DEF WithinSlack, CapEnforced
<1> QED
  BY <1>1, <1>2, <1>3, CapWithinSlack, PTL DEF Spec
-----------------------------------------------------------------------------
(***************************************************************************)
(* The dedupe window.  The queue is the end of the list of all admissions; *)
(* what is no longer in it is too old, or has Capacity newer ones.         *)
(***************************************************************************)
Admission == [key : Keys, at : Nat]

Out == Len(admitted) - Len(dedupe)

DedupeInv ==
    /\ clock \in Nat
    /\ admitted \in Seq(Admission) /\ dedupe \in Seq(Admission)
    /\ Out \in Nat
    /\ \A i \in 1 .. Len(dedupe) : dedupe[i] = admitted[Out + i]
    /\ \A i \in 1 .. Out :
           clock - admitted[i].at > WindowSecs \/ Len(admitted) - i >= Capacity
    /\ OncePerWindow

LEMMA DedupeInit == Init => DedupeInv
BY DEF Init, DedupeInv, Out, OncePerWindow

(* Expiry takes entries off the front only, and only expired ones. *)
LEMMA UnexpiredIsEnd ==
    ASSUME DedupeInv
    PROVE  \E n \in 0 .. Len(dedupe) :
               /\ Unexpired \in Seq(Admission)
               /\ Len(Unexpired) = Len(dedupe) - n
               /\ \A i \in 1 .. Len(dedupe) - n : Unexpired[i] = dedupe[n + i]
               /\ \A i \in 1 .. n : clock - dedupe[i].at > WindowSecs
<1> DEFINE live == {i \in 1 .. Len(dedupe) : clock - dedupe[i].at <= WindowSecs}
<1>1. Len(dedupe) \in Nat /\ \A i \in 1 .. Len(dedupe) : dedupe[i].at \in Nat
  <2>1. Len(dedupe) \in Nat /\ \A i \in 1 .. Len(dedupe) : dedupe[i] \in Admission
    BY DEF DedupeInv
  <2> QED
    BY <2>1 DEF Admission
<1>2. \A i \in 1 .. Len(dedupe) : i \notin live => clock - dedupe[i].at > WindowSecs
  BY <1>1, CaptureAssumption DEF DedupeInv
<1>3. CASE live = {}
  <2>1. Unexpired = <<>>
    BY <1>3 DEF Unexpired
  <2> QED
    BY <1>1, <1>2, <1>3, <2>1
<1>4. CASE live # {}
  <2> DEFINE m == CHOOSE i \in live : \A j \in live : i <= j
  <2>1. m \in live /\ \A j \in live : m <= j
    <3>1. live \in SUBSET Nat
      BY <1>1
    <3>2. \E i \in live : \A j \in live : i <= j
      BY <1>4, <3>1, Least
    <3> QED
      BY <3>2
  <2>2. Unexpired = SubSeq(dedupe, m, Len(dedupe))
    BY <1>4 DEF Unexpired
  <2>3. m \in 1 .. Len(dedupe)
    BY <2>1
  <2> HIDE DEF m
  <2>4. ASSUME NEW i \in 1 .. m - 1 PROVE i \in 1 .. Len(dedupe) /\ i \notin live
    <3>1. i \in 1 .. Len(dedupe) /\ ~(m <= i)
      BY <1>1, <2>3
    <3> HIDE DEF live
    <3> QED
      BY <2>1, <3>1
  <2> HIDE DEF live
  <2>5. /\ Unexpired \in Seq(Admission)
        /\ Len(Unexpired) = Len(dedupe) - (m - 1)
        /\ \A i \in 1 .. Len(dedupe) - (m - 1) : Unexpired[i] = dedupe[(m - 1) + i]
    BY <1>1, <2>2, <2>3 DEF DedupeInv
  <2>6. m - 1 \in 0 .. Len(dedupe)
    BY <1>1, <2>3
  <2>7. \A i \in 1 .. m - 1 : clock - dedupe[i].at > WindowSecs
    BY <1>2, <2>4
  <2> QED
    BY <2>5, <2>6, <2>7
<1> QED
  BY <1>3, <1>4

(* So the queue without the expired is still the end of the admissions. *)
LEMMA UnexpiredIsRecent ==
    ASSUME DedupeInv
    PROVE  LET q == Unexpired
               out == Len(admitted) - Len(q)
           IN  /\ q \in Seq(Admission) /\ out \in Nat /\ Len(q) \in Nat
               /\ \A i \in 1 .. Len(q) : q[i] = admitted[out + i]
               /\ \A i \in 1 .. out :
                      clock - admitted[i].at > WindowSecs \/ Len(admitted) - i >= Capacity
<1> DEFINE q == Unexpired
           out == Len(admitted) - Len(q)
<1>1. PICK n \in 0 .. Len(dedupe) :
          /\ q \in Seq(Admission)
          /\ Len(q) = Len(dedupe) - n
          /\ \A i \in 1 .. Len(dedupe) - n : q[i] = dedupe[n + i]
          /\ \A i \in 1 .. n : clock - dedupe[i].at > WindowSecs
  BY UnexpiredIsEnd
<1> HIDE DEF q
<1>2. Len(dedupe) \in Nat /\ Len(admitted) \in Nat /\ Len(q) \in Nat
  BY <1>1 DEF DedupeInv
<1>3. out = Out + n /\ out \in Nat
  BY <1>1, <1>2 DEF Out, DedupeInv
<1> HIDE DEF out
<1>4. ASSUME NEW i \in 1 .. Len(q) PROVE q[i] = admitted[out + i]
  <2>1. n + i \in 1 .. Len(dedupe) /\ out + i = Out + (n + i)
    <3>1. Out \in Nat
      BY DEF DedupeInv
    <3> QED
      BY <1>1, <1>2, <1>3, <3>1
  <2>2. q[i] = dedupe[n + i]
    BY <1>1, <1>2
  <2> QED
    BY <2>1, <2>2 DEF DedupeInv
<1>5. ASSUME NEW i \in 1 .. out
      PROVE  clock - admitted[i].at > WindowSecs \/ Len(admitted) - i >= Capacity
  <2>1. CASE i <= Out
    BY <1>2, <1>3, <2>1 DEF DedupeInv
  <2>2. CASE i > Out
    <3>1. i - Out \in 1 .. n /\ i - Out \in 1 .. Len(dedupe) /\ Out + (i - Out) = i
      BY <1>1, <1>2, <1>3, <2>2 DEF DedupeInv
    <3>2. dedupe[i - Out] = admitted[i]
      BY <3>1 DEF DedupeInv
    <3> QED
      BY <1>1, <3>1, <3>2
  <2> QED
    BY <1>2, <1>3, <2>1, <2>2 DEF DedupeInv
<1> QED
  BY <1>1, <1>2, <1>3, <1>4, <1>5 DEF q, out

(* Admitting a key appends it to both, and takes at most the oldest of a   *)
(* full queue off.                                                         *)
LEMMA DedupeAdmit ==
    ASSUME DedupeInv, NEW k \in Keys, Admit(k)
    PROVE  DedupeInv'
<1> DEFINE q == Unexpired
           out == Len(admitted) - Len(q)
           e == [key |-> k, at |-> clock]
           kept == IF Len(q) >= Capacity THEN Tail(q) ELSE q
           d == IF Len(q) >= Capacity THEN 1 ELSE 0
<1> USE CaptureAssumption
<1>1. /\ ~Seen(q, k) /\ dedupe' = Append(kept, e) /\ admitted' = Append(admitted, e)
      /\ UNCHANGED clock
  BY DEF Admit, Recorded
<1>2. /\ q \in Seq(Admission) /\ out \in Nat /\ Len(q) \in Nat
      /\ \A i \in 1 .. Len(q) : q[i] = admitted[out + i]
      /\ \A i \in 1 .. out :
             clock - admitted[i].at > WindowSecs \/ Len(admitted) - i >= Capacity
  BY UnexpiredIsRecent
<1> HIDE DEF q
<1>3. e \in Admission /\ clock \in Nat /\ admitted \in Seq(Admission) /\ Len(admitted) \in Nat
  BY DEF DedupeInv, Admission
<1>4. /\ kept \in Seq(Admission) /\ Len(kept) = Len(q) - d
      /\ \A i \in 1 .. Len(kept) : kept[i] = q[i + d]
  <2>1. CASE Len(q) >= Capacity
    <3>1. q # <<>>
      BY <1>2, <2>1
    <3> QED
      BY <1>2, <2>1, <3>1
  <2>2. CASE ~(Len(q) >= Capacity)
    BY <1>2, <2>2
  <2> QED
    BY <2>1, <2>2
<1>5. d \in {0, 1} /\ (d = 1 => Len(q) >= Capacity) /\ Len(kept) \in Nat
  BY <1>4
<1> HIDE DEF kept, d
<1>6. /\ dedupe' \in Seq(Admission) /\ Len(dedupe') = Len(q) - d + 1
      /\ \A i \in 1 .. Len(q) - d : dedupe'[i] = q[i + d]
      /\ dedupe'[Len(q) - d + 1] = e
  BY <1>1, <1>3, <1>4, <1>5
<1>7. /\ admitted' \in Seq(Admission) /\ Len(admitted') = Len(admitted) + 1
      /\ \A i \in 1 .. Len(admitted) : admitted'[i] = admitted[i]
      /\ admitted'[Len(admitted) + 1] = e
  BY <1>1, <1>3
<1> HIDE DEF e
<1>8. Out' = out + d /\ Out' \in Nat
  BY <1>2, <1>3, <1>5, <1>6, <1>7 DEF Out
<1>9. ASSUME NEW i \in 1 .. Len(dedupe') PROVE dedupe'[i] = admitted'[Out' + i]
  <2>1. CASE i = Len(q) - d + 1
    <3>1. dedupe'[i] = e
      BY <1>2, <1>3, <1>5, <1>6, <2>1
    <3>2. Out' + i = Len(admitted) + 1
      <4> DEFINE n == Len(q)
                 a == Len(admitted)
      <4>1. PICK o : o = Out'
        OBVIOUS
      <4>2. o = out + d /\ i = n - d + 1 /\ out + n = a
        BY <1>2, <1>3, <1>8, <2>1, <4>1
      <4>3. out \in Int /\ n \in Int /\ a \in Int /\ d \in Int
        BY <1>2, <1>3, <1>5
      <4> HIDE DEF n, a, out
      <4>4. o + i = a + 1
        BY <4>2, <4>3
      <4> QED
        BY <4>1, <4>4 DEF a
    <3> QED
      BY <1>7, <3>1, <3>2
  <2>2. CASE i # Len(q) - d + 1
    <3>1. /\ i \in 1 .. Len(q) - d /\ i + d \in 1 .. Len(q)
          /\ Out' + i = out + (i + d) /\ Out' + i \in 1 .. Len(admitted)
      <4>1. i \in 1 .. (Len(q) - d + 1)
        BY <1>6
      <4>2. i \in 1 .. Len(q) - d /\ i + d \in 1 .. Len(q)
        BY <1>2, <1>5, <2>2, <4>1
      <4> DEFINE n == Len(q)
                 a == Len(admitted)
      <4>3. PICK o : o = Out'
        OBVIOUS
      <4>4. o = out + d /\ out + n = a
        BY <1>2, <1>3, <1>8, <4>3
      <4>5. out \in Nat /\ n \in Int /\ a \in Int /\ d \in Int
        BY <1>2, <1>3, <1>5
      <4>6. i \in 1 .. n - d /\ i + d \in 1 .. n
        BY <4>2
      <4> HIDE DEF n, a, out
      <4>7. i \in Int /\ 1 <= i /\ i + d <= n /\ 0 <= d
        BY <1>5, <4>5, <4>6
      <4>8. o + i = out + (i + d) /\ o + i \in 1 .. a
        BY <4>4, <4>5, <4>7
      <4> QED
        BY <4>2, <4>3, <4>8 DEF a
    <3> HIDE DEF out
    <3> QED
      BY <1>2, <1>6, <1>7, <3>1
  <2> QED
    BY <2>1, <2>2
<1>10. ASSUME NEW i \in 1 .. Out'
       PROVE  clock' - admitted'[i].at > WindowSecs \/ Len(admitted') - i >= Capacity
  <2>1. i \in 1 .. Len(admitted) /\ admitted'[i] = admitted[i]
    BY <1>2, <1>3, <1>5, <1>7, <1>8
  <2>2. CASE i <= out
    <3>1. i \in 1 .. out
      BY <1>2, <2>1, <2>2
    <3>2. clock - admitted[i].at > WindowSecs \/ Len(admitted) - i >= Capacity
      BY <1>2, <3>1
    <3> QED
      BY <1>1, <1>3, <1>7, <2>1, <3>2
  <2>3. CASE ~(i <= out)
    <3>1. i = out + 1 /\ d = 1
      <4> HIDE DEF out
      <4> QED
        BY <1>2, <1>5, <1>8, <2>3
    <3> QED
      BY <1>2, <1>3, <1>5, <1>7, <3>1
  <2> QED
    BY <2>2, <2>3
<1>11. OncePerWindow'
  <2> SUFFICES ASSUME NEW i \in 1 .. Len(admitted'), NEW j \in 1 .. Len(admitted'),
                      i < j, j - i <= Capacity, admitted'[i].key = admitted'[j].key
               PROVE  admitted'[j].at - admitted'[i].at > WindowSecs
    BY DEF OncePerWindow
  <2>1. CASE j <= Len(admitted)
    <3>1. i \in 1 .. Len(admitted) /\ j \in 1 .. Len(admitted)
      BY <1>3, <1>7, <2>1
    <3>2. admitted'[i] = admitted[i] /\ admitted'[j] = admitted[j]
      BY <1>7, <3>1
    <3> QED
      BY <3>1, <3>2 DEF DedupeInv, OncePerWindow
  <2>2. CASE j = Len(admitted) + 1
    <3>1. /\ i \in 1 .. Len(admitted) /\ admitted'[i] = admitted[i]
          /\ admitted'[j] = e /\ Len(admitted) - i < Capacity
      BY <1>3, <1>7, <2>2
    <3>2. admitted[i].key = k /\ e.at = clock
      BY <3>1 DEF e
    <3>3. i \in 1 .. out
      <4>1. SUFFICES ASSUME i > out PROVE FALSE
        BY <1>2, <3>1
      <4>2. i - out \in 1 .. Len(q) /\ out + (i - out) = i
        BY <1>2, <1>3, <3>1, <4>1
      <4> HIDE DEF out
      <4>3. q[i - out].key = k
        BY <1>2, <3>2, <4>2
      <4> QED
        BY <1>1, <4>2, <4>3 DEF Seen
    <3>4. clock - admitted[i].at > WindowSecs
      <4>1. clock - admitted[i].at > WindowSecs \/ Len(admitted) - i >= Capacity
        BY <1>2, <3>3
      <4>2. ~(Len(admitted) - i >= Capacity)
        BY <1>3, <3>1
      <4> QED
        BY <4>1, <4>2
    <3> QED
      BY <3>1, <3>2, <3>4
  <2> QED
    BY <1>3, <1>7, <2>1, <2>2
<1> QED
  BY <1>1, <1>3, <1>6, <1>7, <1>8, <1>9, <1>10, <1>11 DEF DedupeInv

LEMMA DedupeStep == DedupeInv /\ [Next]_vars => DedupeInv'
<1> SUFFICES ASSUME DedupeInv, [Next]_vars PROVE DedupeInv'
  OBVIOUS
<1>1. ASSUME UNCHANGED <<clock, dedupe, admitted>> PROVE DedupeInv'
  BY <1>1 DEF DedupeInv, Out, OncePerWindow
<1>2. CASE Tick
  <2>1. clock' = clock + 1 /\ UNCHANGED <<dedupe, admitted>> /\ clock \in Nat
    BY <1>2 DEF Tick, DedupeInv
  <2>2. ASSUME NEW i \in 1 .. Out
        PROVE  clock' - admitted[i].at > WindowSecs \/ Len(admitted) - i >= Capacity
    <3>1. i \in 1 .. Len(admitted)
      BY DEF DedupeInv, Out
    <3>2. admitted[i] \in Admission
      BY <3>1 DEF DedupeInv
    <3>3. admitted[i].at \in Nat
      BY <3>2 DEF Admission
    <3>4. clock - admitted[i].at > WindowSecs \/ Len(admitted) - i >= Capacity
      BY DEF DedupeInv
    <3> QED
      BY <2>1, <3>3, <3>4, CaptureAssumption
  <2>3. clock' \in Nat /\ Out' = Out
    BY <2>1 DEF Out
  <2> QED
    BY <2>1, <2>2, <2>3 DEF DedupeInv, OncePerWindow
<1>3. ASSUME NEW k \in Keys, SkipDuplicate(k) PROVE DedupeInv'
  <2>1. dedupe' = Unexpired /\ UNCHANGED <<clock, admitted>>
    BY <1>3 DEF SkipDuplicate
  <2> QED
    BY <2>1, UnexpiredIsRecent DEF DedupeInv, Out, OncePerWindow
<1>4. ASSUME NEW id \in Ids, SendStart(id) \/ RecordOutbound(id) \/ Finish(id) \/ Abandon(id)
      PROVE  DedupeInv'
  BY <1>1, <1>4 DEF SendStart, RecordOutbound, Finish, Abandon
<1>5. CASE Writer
  BY <1>1, <1>5 DEF Writer, WriteStart, StartFails, RotateEntries, WriteMetadata,
                    WriteOutbound, WriteFinish
<1>6. CASE Restart
  BY <1>6 DEF Restart, DedupeInv, Out, OncePerWindow
<1>7. CASE UNCHANGED vars
  BY <1>1, <1>7 DEF vars
<1> QED
  BY <1>2, <1>3, <1>4, <1>5, <1>6, <1>7, DedupeAdmit DEF Next, Handlers

(* A key is admitted again within the window only after Capacity others    *)
(* have pushed it out of the queue (DedupeCache).                          *)
THEOREM AdmittedOncePerWindow == Spec => []OncePerWindow
<1>1. DedupeInv => OncePerWindow
  BY DEF DedupeInv
<1> QED
  BY DedupeInit, DedupeStep, <1>1, PTL DEF Spec
-----------------------------------------------------------------------------
(***************************************************************************)
(* Entries.  An id is started once: as long as its Start is unsent or in   *)
(* the channel its directory has not been there, and never is there again  *)
(* once the writer has made it and rotation has taken it.                  *)
(***************************************************************************)
Message == [kind : {"start", "outbound", "finish"}, id : Ids]

StartsOf(id) == {i \in DOMAIN channel : channel[i].kind = "start" /\ channel[i].id = id}

StartedOnce(id) ==
    /\ id > last => handler[id] = "none"
    /\ handler[id] \in {"none", "admitted"} => StartsOf(id) = {}
    /\ handler[id] \in {"none", "admitted"} \/ StartsOf(id) # {} => disk[id] = "absent"
    /\ \A i, j \in StartsOf(id) : i = j

EntriesInv ==
    /\ last \in Nat
    /\ DOMAIN handler = Ids /\ DOMAIN disk = Ids
    /\ channel \in Seq(Message)
    /\ \A id \in Ids : StartedOnce(id)

EntryStep(id) ==
    /\ disk[id] = "gone" => disk'[id] = "gone"
    /\ disk'[id] = "final" /\ disk[id] # "final" => disk[id] = "partial"

LEMMA EntriesInit == Init => EntriesInv
BY DEF Init, EntriesInv, StartedOnce, StartsOf, Ids

(* What is sent is added at the end or dropped. *)
LEMMA SentMessage ==
    ASSUME channel \in Seq(Message), NEW kind \in {"start", "outbound", "finish"}, NEW m \in Ids,
           Send(kind, m)
    PROVE  /\ channel' \in Seq(Message)
           /\ \A id \in Ids : kind # "start" \/ id # m => StartsOf(id)' = StartsOf(id)
           /\ StartsOf(m) = {} => \A i, j \in StartsOf(m)' : i = j
<1> DEFINE e == [kind |-> kind, id |-> m]
<1>1. e \in Message /\ e.kind = kind /\ e.id = m
  BY DEF Message
<1>2. channel' = channel \/ channel' = Append(channel, e)
  BY DEF Send
<1> HIDE DEF e
<1>3. CASE channel' = channel
  BY <1>3 DEF StartsOf
<1>4. CASE channel' = Append(channel, e)
  <2>1. /\ channel' \in Seq(Message)
        /\ \A i : i \in DOMAIN channel' <=> i \in DOMAIN channel \/ i = Len(channel) + 1
        /\ \A i \in DOMAIN channel : channel'[i] = channel[i] /\ i # Len(channel) + 1
        /\ channel'[Len(channel) + 1] = e
    BY <1>1, <1>4
  <2>2. \A id \in Ids : \A i :
            i \in StartsOf(id)' <=> \/ i \in StartsOf(id)
                                    \/ i = Len(channel) + 1 /\ kind = "start" /\ id = m
    BY <1>1, <2>1 DEF StartsOf
  <2>3. \A id \in Ids : kind # "start" \/ id # m => StartsOf(id)' = StartsOf(id)
    BY <2>2
  <2>4. StartsOf(m) = {} => \A i, j \in StartsOf(m)' : i = j
    BY <2>2
  <2> QED
    BY <2>1, <2>3, <2>4
<1> QED
  BY <1>2, <1>3, <1>4

(* What the writer takes is the head, and the rest moves up by one. *)
LEMMA TakenMessage ==
    ASSUME EntriesInv, NEW kind, Taken(kind)
    PROVE  /\ channel' \in Seq(Message) /\ Head(channel).id \in Ids
           /\ \A id \in Ids : /\ StartsOf(id) = {} => StartsOf(id)' = {}
                              /\ \A i, j \in StartsOf(id)' : i = j
           /\ \A id \in Ids : kind = "start" /\ id = Head(channel).id =>
                                 StartsOf(id) # {} /\ StartsOf(id)' = {}
<1> DEFINE m == Head(channel)
<1>1. /\ channel \in Seq(Message) /\ channel # <<>> /\ m.kind = kind /\ channel' = Tail(channel)
      /\ \A id \in Ids : StartedOnce(id)
  BY DEF Taken, EntriesInv
<1>2. /\ m \in Message /\ m.id \in Ids /\ 1 \in DOMAIN channel /\ channel[1] = m
      /\ channel' \in Seq(Message)
      /\ \A i \in DOMAIN channel' : i \in Nat \ {0} /\ i + 1 \in DOMAIN channel
                                    /\ channel'[i] = channel[i + 1]
  <2>1. m \in Message /\ 1 \in DOMAIN channel /\ channel[1] = m
    BY <1>1
  <2>2. /\ channel' \in Seq(Message)
        /\ \A i \in DOMAIN channel' : i \in Nat \ {0} /\ i + 1 \in DOMAIN channel
                                      /\ channel'[i] = channel[i + 1]
    BY <1>1
  <2> QED
    BY <2>1, <2>2 DEF Message
<1>3. \A id \in Ids : \A i \in StartsOf(id)' : i \in Nat \ {0} /\ i + 1 \in StartsOf(id)
  BY <1>2 DEF StartsOf
<1>4. \A id \in Ids : \A i, j \in StartsOf(id) : i = j
  BY <1>1 DEF StartedOnce
<1>5. \A id \in Ids : /\ StartsOf(id) = {} => StartsOf(id)' = {}
                      /\ \A i, j \in StartsOf(id)' : i = j
  <2> SUFFICES ASSUME NEW id \in Ids
               PROVE  /\ StartsOf(id) = {} => StartsOf(id)' = {}
                      /\ \A i, j \in StartsOf(id)' : i = j
    OBVIOUS
  <2>1. ASSUME NEW i \in StartsOf(id)', NEW j \in StartsOf(id)' PROVE i = j
    <3>1. i + 1 = j + 1 /\ i \in Nat /\ j \in Nat
      BY <1>3, <1>4
    <3> QED
      BY <3>1
  <2> QED
    BY <1>3, <2>1
<1>6. ASSUME NEW id \in Ids, kind = "start", id = m.id
      PROVE  StartsOf(id) # {} /\ StartsOf(id)' = {}
  <2>1. 1 \in StartsOf(id)
    BY <1>1, <1>2, <1>6 DEF StartsOf
  <2>2. ASSUME NEW i \in StartsOf(id)' PROVE FALSE
    <3>1. i \in Nat \ {0} /\ i + 1 \in StartsOf(id)
      BY <1>3
    <3>2. i + 1 = 1
      BY <1>4, <2>1, <3>1
    <3> QED
      BY <3>1, <3>2
  <2> QED
    BY <2>1, <2>2
<1> QED
  BY <1>2, <1>5, <1>6

LEMMA EntriesFrame ==
    ASSUME EntriesInv, UNCHANGED <<last, handler, channel>>, DOMAIN disk' = Ids,
           \A id \in Ids : disk[id] = "absent" => disk'[id] = "absent"
    PROVE  EntriesInv'
BY DEF EntriesInv, StartedOnce, StartsOf

LEMMA EntriesStep ==
    EntriesInv /\ [Next]_vars => EntriesInv' /\ \A id \in Ids : EntryStep(id)
<1> SUFFICES ASSUME EntriesInv, [Next]_vars PROVE EntriesInv' /\ \A id \in Ids : EntryStep(id)
  OBVIOUS
<1>0. /\ last \in Nat /\ DOMAIN handler = Ids /\ DOMAIN disk = Ids /\ channel \in Seq(Message)
      /\ \A id \in Ids : StartedOnce(id)
  BY DEF EntriesInv
<1>a. UNCHANGED disk => \A id \in Ids : EntryStep(id)
  BY DEF EntryStep
<1>1. ASSUME NEW k \in Keys, Admit(k) PROVE EntriesInv' /\ UNCHANGED disk
  <2>1. /\ last' = last + 1 /\ handler' = [handler EXCEPT ![last + 1] = "admitted"]
        /\ UNCHANGED <<channel, disk>>
    BY <1>1 DEF Admit
  <2>2. ASSUME NEW id \in Ids PROVE StartedOnce(id)'
    <3>1. StartedOnce(id) /\ (id = last + 1 => id > last)
      BY <1>0
    <3>2. handler'[id] = (IF id = last + 1 THEN "admitted" ELSE handler[id])
      BY <1>0, <2>1
    <3>3. StartsOf(id)' = StartsOf(id) /\ disk' = disk
      BY <2>1 DEF StartsOf
    <3>4. id > last' => id > last /\ id # last + 1
      BY <1>0, <2>1 DEF Ids
    <3> QED
      BY <3>1, <3>2, <3>3, <3>4 DEF StartedOnce
  <2> QED
    BY <1>0, <2>1, <2>2 DEF EntriesInv
<1>2. ASSUME NEW k \in Keys, SkipDuplicate(k) PROVE EntriesInv' /\ UNCHANGED disk
  BY <1>0, <1>2, EntriesFrame DEF SkipDuplicate
<1>3. ASSUME NEW m \in Ids, SendStart(m) PROVE EntriesInv' /\ UNCHANGED disk
  <2>1. /\ handler[m] = "admitted" /\ handler' = [handler EXCEPT ![m] = "started"]
        /\ Send("start", m) /\ UNCHANGED <<last, disk>>
    BY <1>3 DEF SendStart
  <2>2. /\ channel' \in Seq(Message)
        /\ \A id \in Ids : id # m => StartsOf(id)' = StartsOf(id)
        /\ StartsOf(m) = {} => \A i, j \in StartsOf(m)' : i = j
    BY <1>0, <2>1, SentMessage
  <2>3. StartedOnce(m)'
    BY <1>0, <2>1, <2>2 DEF StartedOnce
  <2>4. ASSUME NEW id \in Ids, id # m PROVE StartedOnce(id)'
    BY <1>0, <2>1, <2>2, <2>4 DEF StartedOnce
  <2> QED
    BY <1>0, <2>1, <2>2, <2>3, <2>4 DEF EntriesInv
<1>4. ASSUME NEW m \in Ids, NEW kind \in {"outbound", "finish"}, Send(kind, m),
             handler[m] \in {"started", "outbound"}, UNCHANGED <<last, disk>>,
             \E done \in {"outbound", "done"} : handler' = [handler EXCEPT ![m] = done]
      PROVE  EntriesInv'
  <2>1. /\ channel' \in Seq(Message)
        /\ \A id \in Ids : StartsOf(id)' = StartsOf(id)
    BY <1>0, <1>4, SentMessage
  <2>2. ASSUME NEW id \in Ids PROVE StartedOnce(id)'
    BY <1>0, <1>4, <2>1 DEF StartedOnce
  <2> QED
    BY <1>0, <1>4, <2>1, <2>2 DEF EntriesInv
<1>5. ASSUME NEW m \in Ids, Abandon(m) PROVE EntriesInv' /\ UNCHANGED disk
  <2>1. /\ handler[m] \in {"started", "outbound"} /\ handler' = [handler EXCEPT ![m] = "done"]
        /\ UNCHANGED <<last, channel, disk>>
    BY <1>5 DEF Abandon
  <2>2. ASSUME NEW id \in Ids PROVE StartedOnce(id)'
    BY <1>0, <2>1 DEF StartedOnce, StartsOf
  <2> QED
    BY <1>0, <2>1, <2>2 DEF EntriesInv
<1>6. CASE Handlers
  <2>1. ASSUME NEW m \in Ids, RecordOutbound(m) PROVE EntriesInv' /\ UNCHANGED disk
    BY <1>4, <2>1 DEF RecordOutbound
  <2>2. ASSUME NEW m \in Ids, Finish(m) PROVE EntriesInv' /\ UNCHANGED disk
    BY <1>4, <2>2 DEF Finish
  <2> QED
    BY <1>a, <1>1, <1>2, <1>3, <1>5, <1>6, <2>1, <2>2 DEF Handlers
<1>7. ASSUME NEW m \in Ids, Taken("start"), m = Head(channel).id, UNCHANGED <<last, handler>>,
             DOMAIN disk' = Ids, disk'[m] \in {disk[m], "bare"},
             \A id \in Ids : id # m => disk'[id] = disk[id]
      PROVE  EntriesInv' /\ \A id \in Ids : EntryStep(id)
  <2>1. /\ channel' \in Seq(Message) /\ StartsOf(m) # {} /\ StartsOf(m)' = {}
        /\ \A id \in Ids : /\ StartsOf(id) = {} => StartsOf(id)' = {}
                           /\ \A i, j \in StartsOf(id)' : i = j
    BY <1>7, TakenMessage
  <2>2. StartedOnce(m)' /\ EntryStep(m)
    BY <1>0, <1>7, <2>1 DEF StartedOnce, EntryStep
  <2>3. ASSUME NEW id \in Ids, id # m PROVE StartedOnce(id)' /\ EntryStep(id)
    BY <1>0, <1>7, <2>1, <2>3 DEF StartedOnce, EntryStep
  <2> QED
    BY <1>0, <1>7, <2>1, <2>2, <2>3 DEF EntriesInv
<1>8. CASE WriteStart
  <2>1. PICK id \in Ids : id = Head(channel).id
    BY <1>8, TakenMessage DEF WriteStart
  <2>2. Taken("start") /\ UNCHANGED <<last, handler>> /\ disk' = [disk EXCEPT ![id] = "bare"]
    BY <1>8, <2>1 DEF WriteStart
  <2> QED
    BY <1>0, <1>7, <2>1, <2>2
<1>9. ASSUME NEW what \in StartFailures, StartFails(what)
      PROVE  EntriesInv' /\ \A id \in Ids : EntryStep(id)
  <2>0. Taken("start") /\ UNCHANGED <<last, handler>>
    BY <1>9 DEF StartFails
  <2>1. PICK id \in Ids : id = Head(channel).id
    BY <2>0, TakenMessage
  <2>2. disk' = [i \in Ids |-> IF i \in (IF what = "body" THEN {id} ELSE {})
                               THEN "bare" ELSE disk[i]]
    BY <1>9, <2>1 DEF StartFails
  <2>3. DOMAIN disk' = Ids /\ disk'[id] \in {disk[id], "bare"}
        /\ \A i \in Ids : i # id => disk'[i] = disk[i]
    BY <2>2
  <2> QED
    BY <1>7, <2>0, <2>1, <2>3
<1>10. CASE RotateEntries
  <2>1. UNCHANGED <<last, handler, channel>>
    BY <1>10 DEF RotateEntries
  <2>2. ASSUME NEW hidden, NEW stuck, NEW gutted \in SUBSET stuck,
               stuck \in SUBSET Oldest(OnDisk(disk) \ hidden), Scan(hidden, stuck, gutted)
        PROVE  /\ DOMAIN disk' = Ids
               /\ \A id \in Ids : disk[id] = "absent" => disk'[id] = "absent"
               /\ \A id \in Ids : EntryStep(id)
    <3>1. PICK out : /\ out \subseteq OnDisk(disk) /\ gutted \subseteq OnDisk(disk)
                     /\ disk' = [id \in Ids |-> IF id \in out THEN "gone"
                                                ELSE IF id \in gutted THEN "bare" ELSE disk[id]]
      BY <2>2 DEF Scan, Oldest
    <3> QED
      BY <3>1 DEF EntryStep, OnDisk
  <2>3. /\ DOMAIN disk' = Ids
        /\ \A id \in Ids : disk[id] = "absent" => disk'[id] = "absent"
        /\ \A id \in Ids : EntryStep(id)
    <3>1. CASE UNCHANGED disk
      BY <1>0, <3>1 DEF EntryStep
    <3>2. CASE ~UNCHANGED disk
      <4>1. PICK hidden \in MayFail("read", OnDisk(disk)) :
               \E stuck \in MayFail("delete", Oldest(OnDisk(disk) \ hidden)) :
                  \E gutted \in SUBSET stuck : Scan(hidden, stuck, gutted)
        BY <1>10, <3>2 DEF RotateEntries
      <4>2. \A ids : MayFail("delete", ids) \subseteq SUBSET ids
        BY DEF MayFail
      <4> QED
        BY <2>2, <4>1, <4>2
    <3> QED
      BY <3>1, <3>2
  <2> QED
    BY <2>1, <2>3, EntriesFrame
<1>11. CASE WriteMetadata
  <2>1. /\ disk' = [disk EXCEPT ![writer.id] = IF @ = "bare" THEN "partial" ELSE @]
        /\ UNCHANGED <<last, handler, channel>>
    BY <1>11 DEF WriteMetadata
  <2>2. /\ DOMAIN disk' = Ids
        /\ \A id \in Ids : disk[id] = "absent" => disk'[id] = "absent"
        /\ \A id \in Ids : EntryStep(id)
    BY <1>0, <2>1 DEF EntryStep
  <2> QED
    BY <2>1, <2>2, EntriesFrame
<1>12. ASSUME NEW kind \in {"outbound", "finish"}, Taken(kind), UNCHANGED <<last, handler>>,
              DOMAIN disk' = Ids, \A id \in Ids : disk[id] = "absent" => disk'[id] = "absent"
       PROVE  EntriesInv'
  <2>1. /\ channel' \in Seq(Message)
        /\ \A id \in Ids : /\ StartsOf(id) = {} => StartsOf(id)' = {}
                           /\ \A i, j \in StartsOf(id)' : i = j
    BY <1>12, TakenMessage
  <2>2. ASSUME NEW id \in Ids PROVE StartedOnce(id)'
    BY <1>0, <1>12, <2>1 DEF StartedOnce
  <2> QED
    BY <1>0, <1>12, <2>1, <2>2 DEF EntriesInv
<1>13. CASE WriteOutbound
  <2>1. Taken("outbound") /\ UNCHANGED <<last, handler, disk>>
    BY <1>13 DEF WriteOutbound
  <2> QED
    BY <1>0, <1>a, <1>12, <2>1
<1>14. CASE WriteFinish
  <2>1. PICK id \in Ids :
            /\ Taken("finish") /\ UNCHANGED <<last, handler>>
            /\ disk' = [disk EXCEPT ![id] = Finished(id)]
    BY <1>14, TakenMessage DEF WriteFinish
  <2>2. /\ DOMAIN disk' = Ids
        /\ \A o \in Ids : disk[o] = "absent" => disk'[o] = "absent"
        /\ \A o \in Ids : EntryStep(o)
    BY <1>0, <2>1 DEF EntryStep, Finished
  <2> QED
    BY <1>12, <2>1, <2>2
<1>15. CASE Restart
  <2>1. /\ handler' = [id \in Ids |-> IF handler[id] = "none" THEN "none" ELSE "done"]
        /\ channel' = <<>> /\ UNCHANGED <<last, disk>>
    BY <1>15 DEF Restart
  <2>2. \A id \in Ids : StartsOf(id)' = {}
    BY <2>1 DEF StartsOf
  <2>3. ASSUME NEW id \in Ids PROVE StartedOnce(id)'
    BY <1>0, <2>1, <2>2 DEF StartedOnce
  <2> QED
    BY <1>0, <1>a, <2>1, <2>3 DEF EntriesInv
<1>16. CASE Tick \/ UNCHANGED vars
  BY <1>0, <1>a, <1>16, EntriesFrame DEF Tick, vars
<1> QED
  BY <1>6, <1>8, <1>9, <1>10, <1>11, <1>13, <1>14, <1>15, <1>16 DEF Next, Writer

(* A directory rotation deleted never comes back, and only an entry with   *)
(* the metadata of its Start is ever finished, whichever messages were     *)
(* dropped and whenever the process restarted (writer_task, handle_finish).*)
THEOREM NoEntryComesBack == Spec => NoEntryFromNothing
<1>1. EntriesInv /\ [Next]_vars
          => [\A id \in Ids :
                 /\ disk[id] = "gone" => disk'[id] = "gone"
                 /\ disk'[id] = "final" /\ disk[id] # "final" => disk[id] = "partial"]_vars
  BY EntriesStep DEF EntryStep
<1>2. EntriesInv /\ [Next]_vars => EntriesInv'
  BY EntriesStep
<1> QED
  BY EntriesInit, <1>1, <1>2, PTL DEF Spec, NoEntryFromNothing
=============================================================================
