------------------------------ MODULE HookLog ------------------------------
(***************************************************************************)
(* DaemonAdapter::on_event and maybe_rotate_hooks_jsonl (src/src/lib.rs):  *)
(* every hook event first rotates .l1.5/hooks.jsonl when its stamp is old  *)
(* enough, then appends its row.  Events are handled one at a time, under  *)
(* the adapter mutex; every file operation is a step that may fail, and    *)
(* between any two of them the process may die.                            *)
(***************************************************************************)
EXTENDS Integers

CONSTANTS
    Interval,   \* HOOKS_ROTATION_INTERVAL_SECS
    Hiccups,    \* the file operations that may report an error
    CrashAt,    \* the steps before which the process may die
    MaxClock,   \* bound on the clock
    MaxRows     \* bound on the rows appended

Operations == {"create", "copy", "truncate", "stamp", "fill"}
Steps == Operations \cup {"check", "append"}

(* What the stamp file can hold besides a time. *)
NoStamp == -1
TornStamp == -2

ASSUME HookAssumption ==
    /\ Interval \in Nat \ {0}
    /\ Hiccups \subseteq Operations
    /\ CrashAt \subseteq Steps
    /\ MaxClock \in Nat
    /\ MaxRows \in Nat

VARIABLES
    clock,
    stamp,    \* .hooks-rotation-stamp
    log,      \* the rows of hooks.jsonl
    archive,  \* archive[t]: the rows of hooks-<t>.jsonl.gz
    pc,       \* the step on_event is about to take
    now,      \* the handler's reading of the clock
    created,  \* the handler's reading of the stamp
    appended  \* every row ever appended

vars == <<clock, stamp, log, archive, pc, now, created, appended>>

(* A row is told from the others by its number; `at` is when it came. *)
Row == [n : Nat, at : Nat]

Init ==
    /\ clock = 0
    /\ stamp = NoStamp
    /\ log = {}
    /\ archive = [t \in 0 .. MaxClock |-> {}]
    /\ pc = "idle"
    /\ now = 0
    /\ created = 0
    /\ appended = {}

Tick ==
    /\ clock < MaxClock
    /\ clock' = clock + 1
    /\ UNCHANGED <<stamp, log, archive, pc, now, created, appended>>

OnEvent ==
    /\ pc = "idle"
    /\ pc' = "check"
    /\ now' = clock
    /\ UNCHANGED <<clock, stamp, log, archive, created, appended>>

(* An unreadable stamp reads as now. *)
CreatedAt == IF stamp = TornStamp THEN now ELSE stamp

(* A directory without a stamp gets one; its log is not rotated yet. *)
FirstEvent ==
    /\ pc = "check"
    /\ stamp = NoStamp
    /\ pc' = "stamp"
    /\ UNCHANGED <<clock, stamp, log, archive, now, created, appended>>

(* Mutant: a log of exactly the interval's age is left alone. *)
SkipRotationOfDue ==
    /\ pc = "check"
    /\ stamp # NoStamp
    /\ now <= CreatedAt + Interval
    /\ pc' = "append"
    /\ UNCHANGED <<clock, stamp, log, archive, now, created, appended>>

SkipRotation ==
    /\ pc = "check"
    /\ stamp # NoStamp
    /\ now < CreatedAt + Interval
    /\ pc' = "append"
    /\ UNCHANGED <<clock, stamp, log, archive, now, created, appended>>

(* An empty log is not archived, only stamped anew. *)
StartRotation ==
    /\ pc = "check"
    /\ stamp # NoStamp
    /\ now >= CreatedAt + Interval
    /\ created' = CreatedAt
    /\ pc' = IF log = {} THEN "stamp" ELSE "create"
    /\ UNCHANGED <<clock, stamp, log, archive, now, appended>>

(* File::create: an archive of that name is emptied. *)
CreateArchive ==
    /\ pc = "create"
    /\ archive' = [archive EXCEPT ![created] = {}]
    /\ pc' = "copy"
    /\ UNCHANGED <<clock, stamp, log, now, created, appended>>

(* io::copy and GzEncoder::finish. *)
CopyLog ==
    /\ pc = "copy"
    /\ archive' = [archive EXCEPT ![created] = log]
    /\ pc' = "truncate"
    /\ UNCHANGED <<clock, stamp, log, now, created, appended>>

TruncateLog ==
    /\ pc = "truncate"
    /\ log' = {}
    /\ pc' = "stamp"
    /\ UNCHANGED <<clock, stamp, archive, now, created, appended>>

(* fs::write empties the stamp, then fills it. *)
EmptyStamp ==
    /\ pc = "stamp"
    /\ stamp' = TornStamp
    /\ pc' = "fill"
    /\ UNCHANGED <<clock, log, archive, now, created, appended>>

(* Mutant: the stamp holds the time the next rotation is due. *)
FillStampWithDue ==
    /\ pc = "fill"
    /\ stamp' = now + Interval
    /\ pc' = "append"
    /\ UNCHANGED <<clock, log, archive, now, created, appended>>

FillStamp ==
    /\ pc = "fill"
    /\ stamp' = now
    /\ pc' = "append"
    /\ UNCHANGED <<clock, log, archive, now, created, appended>>

(* Mutant: an error of the rotation ends in truncating the log all the same. *)
RotationFailsEmptied(step) ==
    /\ pc = step
    /\ log' = {}
    /\ pc' = "append"
    /\ UNCHANGED <<clock, stamp, archive, now, created, appended>>

(* An error ends the rotation; the event's row is appended all the same. *)
RotationFails(step) ==
    /\ pc = step
    /\ pc' = "append"
    /\ UNCHANGED <<clock, stamp, log, archive, now, created, appended>>

AppendRow ==
    /\ pc = "append"
    /\ \E n \in 1 .. MaxRows :
           /\ \A r \in appended : r.n < n
           /\ \A m \in 1 .. n - 1 : \E r \in appended : r.n = m
           /\ LET row == [n |-> n, at |-> now] IN
              /\ log' = log \cup {row}
              /\ appended' = appended \cup {row}
    /\ pc' = "idle"
    /\ UNCHANGED <<clock, stamp, archive, now, created>>

(* The files stay as they are; the event in hand is lost. *)
Crash(step) ==
    /\ pc = step
    /\ pc' = "idle"
    /\ UNCHANGED <<clock, stamp, log, archive, now, created, appended>>

Next ==
    \/ Tick
    \/ OnEvent
    \/ FirstEvent
    \/ SkipRotation
    \/ StartRotation
    \/ CreateArchive
    \/ CopyLog
    \/ TruncateLog
    \/ EmptyStamp
    \/ FillStamp
    \/ AppendRow
    \/ \E step \in Hiccups : RotationFails(step)
    \/ \E step \in CrashAt : Crash(step)

Spec == Init /\ [][Next]_vars
-----------------------------------------------------------------------------
Times == 0 .. MaxClock

TypeOK ==
    /\ clock \in Times
    /\ stamp \in Times \cup {NoStamp, TornStamp}
    /\ log \subseteq Row
    /\ archive \in [Times -> SUBSET Row]
    /\ pc \in Steps \cup {"idle"}
    /\ now \in Times
    /\ created \in Times
    /\ appended \subseteq Row

Archived == UNION {archive[t] : t \in Times}

(* "Never lose an event row over a rotation hiccup": every row that was     *)
(* appended is still in the live log or in an archive, whichever operation  *)
(* of whichever rotation failed or was cut short.                           *)
NoRowLost == appended \subseteq log \cup Archived

(* "Rotate if it has existed for at least the interval": an event that      *)
(* leaves the log alone leaves no row in it that is older than the          *)
(* interval, so rotation cannot come to a standstill.                       *)
YoungRowsOnly == \A r \in log : now - r.at < Interval

SkipsOnlyYoungLog == [][SkipRotation => YoungRowsOnly]_vars
=============================================================================
