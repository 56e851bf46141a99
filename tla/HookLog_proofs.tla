--------------------------- MODULE HookLog_proofs ---------------------------
(***************************************************************************)
(* TLAPS proofs of the properties of HookLog, for every interval, clock    *)
(* bound and number of rows, and for every set of failing operations and   *)
(* crash points the assumption below allows.                               *)
(***************************************************************************)
EXTENDS HookLog, TLAPS

(* Writing the stamp neither fails nor is cut short; everything else may. *)
StampIsWritten ==
    /\ "stamp" \notin Hiccups
    /\ "fill" \notin Hiccups
    /\ "fill" \notin CrashAt

LEMMA TypeInit == Init => TypeOK
BY HookAssumption DEF Init, TypeOK, Times, Steps

LEMMA TypeStep == TypeOK /\ [Next]_vars => TypeOK'
<1> SUFFICES ASSUME TypeOK, [Next]_vars PROVE TypeOK'
  OBVIOUS
<1> USE HookAssumption
<1>1. CASE Tick
  BY <1>1 DEF Tick, TypeOK, Times
<1>2. CASE OnEvent
  BY <1>2 DEF OnEvent, TypeOK, Times, Steps
<1>3. CASE FirstEvent
  BY <1>3 DEF FirstEvent, TypeOK, Times, Steps, Operations
<1>4. CASE SkipRotation
  BY <1>4 DEF SkipRotation, TypeOK, Times, Steps
<1>5. CASE StartRotation
  BY <1>5 DEF StartRotation, TypeOK, Times, Steps, Operations, CreatedAt
<1>6. CASE CreateArchive
  BY <1>6 DEF CreateArchive, TypeOK, Times, Steps, Operations
<1>7. CASE CopyLog
  BY <1>7 DEF CopyLog, TypeOK, Times, Steps, Operations
<1>8. CASE TruncateLog
  BY <1>8 DEF TruncateLog, TypeOK, Times, Steps, Operations
<1>9. CASE EmptyStamp
  BY <1>9 DEF EmptyStamp, TypeOK, Times, Steps, Operations
<1>10. CASE FillStamp
  BY <1>10 DEF FillStamp, TypeOK, Times, Steps
<1>11. CASE AppendRow
  <2>1. PICK n \in 1 .. MaxRows :
            /\ log' = log \cup {[n |-> n, at |-> now]}
            /\ appended' = appended \cup {[n |-> n, at |-> now]}
    BY <1>11 DEF AppendRow
  <2>2. [n |-> n, at |-> now] \in Row
    BY DEF TypeOK, Times, Row
  <2> QED
    BY <1>11, <2>1, <2>2 DEF AppendRow, TypeOK, Times, Steps
<1>12. ASSUME NEW step \in Hiccups, RotationFails(step)
       PROVE  TypeOK'
  BY <1>12 DEF RotationFails, TypeOK, Times, Steps
<1>13. ASSUME NEW step \in CrashAt, Crash(step)
       PROVE  TypeOK'
  BY <1>13 DEF Crash, TypeOK, Times, Steps
<1>14. CASE UNCHANGED vars
  BY <1>14 DEF vars, TypeOK
<1> QED
  BY <1>1, <1>2, <1>3, <1>4, <1>5, <1>6, <1>7, <1>8, <1>9, <1>10, <1>11,
     <1>12, <1>13, <1>14 DEF Next

(* Clocks, files and the handler's place keep their ranges. *)
THEOREM HookTypeCorrect == Spec => []TypeOK
BY TypeInit, TypeStep, PTL DEF Spec
-----------------------------------------------------------------------------
(***************************************************************************)
(* The inductive invariant.  NoRowLost alone does not say why emptying an  *)
(* archive loses nothing: the archive a rotation is about to empty holds   *)
(* only rows that are still in the log, because every archive that holds   *)
(* rows is a whole interval older than the stamp, save the one whose       *)
(* rotation was cut short, and that left the log empty.                    *)
(***************************************************************************)
Due == log = {} /\ now >= stamp + Interval

ArchivesAreOld ==
    \A t \in Times :
        archive[t] # {} => t + Interval <= now

StampInv ==
    /\ stamp = TornStamp => pc = "fill"
    /\ stamp = NoStamp => pc \in {"idle", "check", "stamp"} /\ log = {}
    /\ stamp \in Times => stamp <= now

HandlerInv ==
    /\ now <= clock
    /\ pc \in {"idle", "check"} /\ stamp \in Times => archive[stamp] \subseteq log \/ Due
    /\ pc = "append" => stamp \in Times /\ archive[stamp] \subseteq log
    /\ pc \in {"create", "copy", "truncate"} =>
          stamp \in Times /\ created = stamp /\ now >= stamp + Interval
    /\ pc \in {"create", "copy"} => archive[created] \subseteq log
    /\ pc = "truncate" => archive[created] = log
    /\ pc = "stamp" /\ stamp # NoStamp => Due
    /\ pc = "fill" => log = {}

RowsInv == \A r \in log : stamp \in Times => stamp <= r.at

HookInv == TypeOK /\ NoRowLost /\ ArchivesAreOld /\ StampInv /\ HandlerInv /\ RowsInv

LEMMA HookInit == Init => HookInv
<1> SUFFICES ASSUME Init PROVE HookInv
  OBVIOUS
<1>1. TypeOK
  BY TypeInit
<1> QED
  BY <1>1, HookAssumption
     DEF Init, HookInv, NoRowLost, ArchivesAreOld, StampInv, HandlerInv, RowsInv,
         Times, NoStamp, TornStamp

LEMMA HookStep ==
    ASSUME StampIsWritten
    PROVE  HookInv /\ [Next]_vars => HookInv'
<1> SUFFICES ASSUME HookInv, [Next]_vars PROVE HookInv'
  OBVIOUS
<1>0. TypeOK'
  BY TypeStep DEF HookInv
<1> USE HookAssumption DEF HookInv, NoStamp, TornStamp
<1>1. CASE Tick
  BY <1>0, <1>1 DEF Tick, TypeOK, NoRowLost, Archived, ArchivesAreOld, StampInv,
                    HandlerInv, RowsInv, Times, Due
<1>2. CASE OnEvent
  BY <1>0, <1>2 DEF OnEvent, TypeOK, NoRowLost, Archived, ArchivesAreOld, StampInv,
                    HandlerInv, RowsInv, Times, Due
<1>3. CASE FirstEvent
  BY <1>0, <1>3 DEF FirstEvent, TypeOK, NoRowLost, Archived, ArchivesAreOld, StampInv,
                    HandlerInv, RowsInv, Times, Due
<1>4. CASE SkipRotation
  BY <1>0, <1>4 DEF SkipRotation, TypeOK, NoRowLost, Archived, ArchivesAreOld, StampInv,
                    HandlerInv, RowsInv, Times, Due, CreatedAt
<1>5. CASE StartRotation
  BY <1>0, <1>5 DEF StartRotation, TypeOK, NoRowLost, Archived, ArchivesAreOld, StampInv,
                    HandlerInv, RowsInv, Times, Due, CreatedAt
<1>6. CASE CreateArchive
  <2>1. archive' = [archive EXCEPT ![created] = {}] /\ archive[created] \subseteq log
    BY <1>6 DEF CreateArchive, HandlerInv
  <2>2. log \cup Archived \subseteq log \cup Archived'
    BY <2>1 DEF Archived, TypeOK
  <2>3. NoRowLost'
    BY <1>6, <2>2 DEF NoRowLost, CreateArchive
  <2> QED
    BY <1>0, <1>6, <2>1, <2>3 DEF CreateArchive, TypeOK, ArchivesAreOld, StampInv,
                    HandlerInv, RowsInv, Times, Due
<1>7. CASE CopyLog
  <2>1. archive' = [archive EXCEPT ![created] = log] /\ archive[created] \subseteq log
    BY <1>7 DEF CopyLog, HandlerInv
  <2>2. log \cup Archived \subseteq log \cup Archived'
    BY <2>1 DEF Archived, TypeOK
  <2>3. NoRowLost'
    BY <1>7, <2>2 DEF NoRowLost, CopyLog
  <2> QED
    BY <1>0, <1>7, <2>1, <2>3 DEF CopyLog, TypeOK, ArchivesAreOld, StampInv,
                    HandlerInv, RowsInv, Times, Due
<1>8. CASE TruncateLog
  <2>1. log = archive[created] /\ created \in Times
    BY <1>8 DEF TruncateLog, HandlerInv, TypeOK
  <2>2. log \subseteq Archived
    BY <2>1 DEF Archived
  <2>3. NoRowLost'
    BY <1>8, <2>2 DEF NoRowLost, TruncateLog, Archived
  <2> QED
    BY <1>0, <1>8, <2>3 DEF TruncateLog, TypeOK, ArchivesAreOld, StampInv,
                    HandlerInv, RowsInv, Times, Due
<1>9. CASE EmptyStamp
  BY <1>0, <1>9 DEF EmptyStamp, TypeOK, NoRowLost, Archived, ArchivesAreOld, StampInv,
                    HandlerInv, RowsInv, Times, Due
<1>10. CASE FillStamp
  <2>1. archive[now] = {}
    BY DEF ArchivesAreOld, TypeOK, Times
  <2> QED
    BY <1>0, <1>10, <2>1 DEF FillStamp, TypeOK, NoRowLost, Archived, ArchivesAreOld,
                    StampInv, HandlerInv, RowsInv, Times, Due
<1>11. CASE AppendRow
  <2>1. PICK n \in 1 .. MaxRows :
            /\ log' = log \cup {[n |-> n, at |-> now]}
            /\ appended' = appended \cup {[n |-> n, at |-> now]}
    BY <1>11 DEF AppendRow
  <2>2. stamp \in Times /\ archive[stamp] \subseteq log /\ stamp <= now
    BY <1>11 DEF AppendRow, HandlerInv, StampInv
  <2>3. NoRowLost'
    BY <1>11, <2>1 DEF AppendRow, NoRowLost, Archived
  <2>4. RowsInv'
    BY <1>11, <2>1, <2>2 DEF AppendRow, RowsInv
  <2> QED
    BY <1>0, <1>11, <2>1, <2>2, <2>3, <2>4
       DEF AppendRow, TypeOK, ArchivesAreOld, StampInv, HandlerInv, Times, Due
<1>12. ASSUME NEW step \in Hiccups, RotationFails(step)
       PROVE  HookInv'
  <2>1. pc \in {"create", "copy", "truncate"}
    BY <1>12 DEF RotationFails, StampIsWritten, Operations
  <2> QED
    BY <1>0, <1>12, <2>1 DEF RotationFails, TypeOK, NoRowLost, Archived, ArchivesAreOld,
                    StampInv, HandlerInv, RowsInv, Times, Due
<1>13. ASSUME NEW step \in CrashAt, Crash(step)
       PROVE  HookInv'
  <2>1. pc # "fill" /\ pc # "idle"
    BY <1>13 DEF Crash, StampIsWritten, Steps, Operations
  <2> QED
    BY <1>0, <1>13, <2>1 DEF Crash, TypeOK, NoRowLost, Archived, ArchivesAreOld,
                    StampInv, HandlerInv, RowsInv, Times, Due, Steps, Operations
<1>14. CASE UNCHANGED vars
  BY <1>0, <1>14 DEF vars, NoRowLost, Archived, ArchivesAreOld, StampInv, HandlerInv,
                     RowsInv, Due
<1> QED
  BY <1>1, <1>2, <1>3, <1>4, <1>5, <1>6, <1>7, <1>8, <1>9, <1>10, <1>11,
     <1>12, <1>13, <1>14 DEF Next

LEMMA HookInvariant ==
    ASSUME StampIsWritten
    PROVE  Spec => []HookInv
<1>1. HookInv /\ [Next]_vars => HookInv'
  BY HookStep
<1> QED
  BY <1>1, HookInit, PTL DEF Spec

(* No rotation loses an event row, whichever archive or log operation      *)
(* fails and wherever the process dies, as long as the stamp is written.   *)
THEOREM NoRowIsLost ==
    ASSUME StampIsWritten
    PROVE  Spec => []NoRowLost
<1>1. HookInv => NoRowLost
  BY DEF HookInv
<1> QED
  BY <1>1, HookInvariant, PTL

(* Rotation does not come to a standstill: an event that leaves the log    *)
(* alone leaves no row in it as old as the interval.                       *)
THEOREM OnlyYoungLogsAreSkipped ==
    ASSUME StampIsWritten
    PROVE  Spec => SkipsOnlyYoungLog
<1>1. HookInv /\ [Next]_vars => [SkipRotation => YoungRowsOnly]_vars
  <2> SUFFICES ASSUME HookInv, SkipRotation PROVE YoungRowsOnly
    OBVIOUS
  <2>1. stamp \in Times /\ now < stamp + Interval
    BY DEF HookInv, SkipRotation, StampInv, TypeOK, CreatedAt
  <2>2. now \in Nat /\ stamp \in Nat /\ \A r \in log : r.at \in Nat /\ stamp <= r.at
    BY <2>1, HookAssumption DEF HookInv, RowsInv, TypeOK, Row, Times
  <2> QED
    BY <2>1, <2>2, HookAssumption DEF YoungRowsOnly
<1> QED
  BY <1>1, HookInvariant, PTL DEF Spec, SkipsOnlyYoungLog
=============================================================================
