--------------------------- MODULE CapturePipeline ---------------------------
(***************************************************************************)
(* HTTP capture: request handlers pass a dedupe window, send Start,        *)
(* Outbound and Finish through a bounded channel that drops what does not  *)
(* fit, and one writer task turns the messages into entry directories and  *)
(* rotates the oldest away (capture.rs of ostk-cache-core, http_capture.rs *)
(* of the proxy).  A restart loses everything but the directories.         *)
(*                                                                         *)
(* A capture is known by its id, a number: ids sort by creation time.      *)
(***************************************************************************)
EXTENDS Integers, Sequences, FiniteSets

CONSTANTS
    Keys,         \* (session, body hash) of a request
    Capacity,     \* capacity of the DedupeCache
    WindowSecs,   \* DEDUPE_WINDOW_SECS
    ChannelCap,   \* WRITER_CHANNEL_CAP
    MaxEntries,   \* capture_max_entries, 0 for unlimited
    SlackDivisor, \* the 16 of record_and_maybe_rotate
    StartFailures, \* subset of {"mkdir", "body"}: what of a Start may fail
    ScanFailures,  \* subset of {"read", "delete"}: what of a scan may fail
    MaxCaptures,  \* bound on the captures admitted
    MaxClock      \* bound on the clock

ASSUME CaptureAssumption ==
    /\ Capacity \in Nat \ {0}
    /\ WindowSecs \in Nat
    /\ ChannelCap \in Nat \ {0}
    /\ MaxEntries \in Nat
    /\ SlackDivisor \in Nat \ {0}
    /\ StartFailures \subseteq {"mkdir", "body"}
    /\ ScanFailures \subseteq {"read", "delete"}
    /\ MaxCaptures \in Nat
    /\ MaxClock \in Nat

VARIABLES
    clock,
    dedupe,    \* DedupeCache.entries, oldest first
    admitted,  \* every [key, at] admitted since the start, oldest first
    last,      \* the id of the newest capture
    handler,   \* handler[id]: what the handler of a capture has done
    channel,   \* the messages the writer has yet to take
    writer,    \* the writer task: ready, or inside a Start
    disk,      \* disk[id]: the entry is "absent", "bare", "partial", "final" or "gone"
    estimate,  \* RotationState.estimate, Unknown after a start
    missed     \* history: entries some call failed on since the last scan, and
               \* those on which that scan failed

vars == <<clock, dedupe, admitted, last, handler, channel, writer, disk, estimate, missed>>

Ids == 1 .. MaxCaptures
Unknown == -1
Ready == [at |-> "ready", id |-> 0]

OnDisk(d) == {id \in Ids : d[id] \in {"bare", "partial", "final"}}

Init ==
    /\ clock = 0
    /\ dedupe = <<>>
    /\ admitted = <<>>
    /\ last = 0
    /\ handler = [id \in Ids |-> "none"]
    /\ channel = <<>>
    /\ writer = Ready
    /\ disk = [id \in Ids |-> "absent"]
    /\ estimate = Unknown
    /\ missed = {}

Tick ==
    /\ clock < MaxClock
    /\ clock' = clock + 1
    /\ UNCHANGED <<dedupe, admitted, last, handler, channel, writer, disk, estimate, missed>>

(* Mutant: an entry of exactly the window's age has left already. *)
UnexpiredEarly ==
    LET live == {i \in 1 .. Len(dedupe) : clock - dedupe[i].at < WindowSecs}
    IN  IF live = {} THEN <<>>
        ELSE SubSeq(dedupe, CHOOSE i \in live : \A j \in live : i <= j, Len(dedupe))

(* Entries leave the front of the queue once they are out of the window. *)
Unexpired ==
    LET live == {i \in 1 .. Len(dedupe) : clock - dedupe[i].at <= WindowSecs}
    IN  IF live = {} THEN <<>>
        ELSE SubSeq(dedupe, CHOOSE i \in live : \A j \in live : i <= j, Len(dedupe))

Seen(q, k) == \E i \in 1 .. Len(q) : q[i].key = k

Recorded(q, k) ==
    LET kept == IF Len(q) >= Capacity THEN Tail(q) ELSE q
    IN  Append(kept, [key |-> k, at |-> clock])

(* A request that is not a duplicate gets an id; its body is in the window. *)
Admit(k) ==
    /\ last < MaxCaptures
    /\ ~Seen(Unexpired, k)
    /\ dedupe' = Recorded(Unexpired, k)
    /\ admitted' = Append(admitted, [key |-> k, at |-> clock])
    /\ last' = last + 1
    /\ handler' = [handler EXCEPT ![last + 1] = "admitted"]
    /\ UNCHANGED <<clock, channel, writer, disk, estimate, missed>>

(* A duplicate is not captured, and does not renew its entry's age. *)
SkipDuplicate(k) ==
    /\ Seen(Unexpired, k)
    /\ dedupe' = Unexpired
    /\ UNCHANGED <<clock, admitted, last, handler, channel, writer, disk, estimate, missed>>

(* try_send: a full channel drops the message.  DROPPED_CAPTURES and       *)
(* ROTATED_INFLIGHT_DROPS, statistics no code acts upon, are left out.     *)
Send(kind, id) ==
    channel' = IF Len(channel) < ChannelCap
               THEN Append(channel, [kind |-> kind, id |-> id])
               ELSE channel

SendStart(id) ==
    /\ handler[id] = "admitted"
    /\ Send("start", id)
    /\ handler' = [handler EXCEPT ![id] = "started"]
    /\ UNCHANGED <<clock, dedupe, admitted, last, writer, disk, estimate, missed>>

RecordOutbound(id) ==
    /\ handler[id] = "started"
    /\ Send("outbound", id)
    /\ handler' = [handler EXCEPT ![id] = "outbound"]
    /\ UNCHANGED <<clock, dedupe, admitted, last, writer, disk, estimate, missed>>

(* With a response, or with the answer to a request that went nowhere. *)
Finish(id) ==
    /\ handler[id] \in {"started", "outbound"}
    /\ Send("finish", id)
    /\ handler' = [handler EXCEPT ![id] = "done"]
    /\ UNCHANGED <<clock, dedupe, admitted, last, writer, disk, estimate, missed>>

(* The client hung up: the handler is dropped and nothing is sent. *)
Abandon(id) ==
    /\ handler[id] \in {"started", "outbound"}
    /\ handler' = [handler EXCEPT ![id] = "done"]
    /\ UNCHANGED <<clock, dedupe, admitted, last, channel, writer, disk, estimate, missed>>

Taken(kind) ==
    /\ writer = Ready
    /\ channel # <<>>
    /\ Head(channel).kind = kind
    /\ channel' = Tail(channel)

(* create_dir_all and the request body. *)
WriteStart ==
    /\ Taken("start")
    /\ disk' = [disk EXCEPT ![Head(channel).id] = "bare"]
    /\ writer' = [at |-> "rotate", id |-> Head(channel).id]
    /\ UNCHANGED <<clock, dedupe, admitted, last, handler, estimate, missed>>

(* The directory or the body in it cannot be written: the Start ends here, *)
(* and a directory it has made is not counted.                             *)
StartFails(what) ==
    /\ Taken("start")
    /\ LET made == IF what = "body" THEN {Head(channel).id} ELSE {}
       IN  /\ disk' = [id \in Ids |-> IF id \in made THEN "bare" ELSE disk[id]]
           /\ missed' = missed \cup made
    /\ UNCHANGED <<clock, dedupe, admitted, last, handler, writer, estimate>>

(* rotate_capture_dir: of the entries the scan has read, the oldest are to *)
(* go, down to the cap.                                                    *)
Oldest(ids) ==
    {id \in ids : Cardinality({x \in ids : x >= id}) > MaxEntries}

(* What a scan may leave out: all entries when the root cannot be read,    *)
(* those of a shard when that cannot, and the entries it cannot delete.    *)
MayFail(what, ids) == IF what \in ScanFailures THEN SUBSET ids ELSE {{}}

Slack ==
    IF MaxEntries \div SlackDivisor > 1 THEN MaxEntries \div SlackDivisor ELSE 1

(* Mutant: the estimate is compared before the new entry is counted in. *)
MustScanLate == estimate = Unknown \/ estimate >= MaxEntries + Slack

MustScan == estimate = Unknown \/ estimate + 1 >= MaxEntries + Slack

(* A scan reads all entries but the hidden ones and deletes the oldest but *)
(* the stuck ones, some of which (gutted) lose their content nonetheless;  *)
(* it counts what it has read and not deleted.                             *)
Scan(hidden, stuck, gutted) ==
    LET read == OnDisk(disk) \ hidden
        out == Oldest(read) \ stuck
    IN  /\ disk' = [id \in Ids |-> IF id \in out THEN "gone"
                                    ELSE IF id \in gutted THEN "bare"
                                    ELSE disk[id]]
        /\ estimate' = Cardinality(read \ out)
        /\ missed' = hidden \cup stuck

(* record_and_maybe_rotate: scan and delete only when the estimate says the *)
(* cap could be exceeded by more than the slack.                            *)
RotateEntries ==
    /\ writer.at = "rotate"
    /\ \/ /\ MaxEntries = 0
          /\ UNCHANGED <<disk, estimate, missed>>
       \/ /\ MaxEntries > 0 /\ MustScan
          /\ \E hidden \in MayFail("read", OnDisk(disk)) :
                \E stuck \in MayFail("delete", Oldest(OnDisk(disk) \ hidden)) :
                   \E gutted \in SUBSET stuck : Scan(hidden, stuck, gutted)
       \/ /\ MaxEntries > 0 /\ ~MustScan
          /\ estimate' = estimate + 1
          /\ UNCHANGED <<disk, missed>>
    /\ writer' = [writer EXCEPT !.at = "metadata"]
    /\ UNCHANGED <<clock, dedupe, admitted, last, handler, channel>>

(* Mutant: the writer does not survive an entry its own rotation took. *)
WriteMetadataOrDie ==
    /\ writer.at = "metadata"
    /\ disk[writer.id] = "bare"
    /\ disk' = [disk EXCEPT ![writer.id] = "partial"]
    /\ writer' = Ready
    /\ UNCHANGED <<clock, dedupe, admitted, last, handler, channel, estimate, missed>>

(* write_metadata fails silently where rotation took the entry itself. *)
WriteMetadata ==
    /\ writer.at = "metadata"
    /\ disk' = [disk EXCEPT ![writer.id] = IF @ = "bare" THEN "partial" ELSE @]
    /\ writer' = Ready
    /\ UNCHANGED <<clock, dedupe, admitted, last, handler, channel, estimate, missed>>

(* The outbound body is written into the directory if there still is one. *)
WriteOutbound ==
    /\ Taken("outbound")
    /\ UNCHANGED <<clock, dedupe, admitted, last, handler, writer, disk, estimate, missed>>

(* Mutant: the entry directory is created where it is missing. *)
FinishedAnyway(id) == "final"

(* The response is written, and the metadata the Start left is completed. *)
Finished(id) == IF disk[id] = "partial" THEN "final" ELSE disk[id]

WriteFinish ==
    /\ Taken("finish")
    /\ LET id == Head(channel).id IN
       /\ disk' = [disk EXCEPT ![id] = Finished(id)]
    /\ UNCHANGED <<clock, dedupe, admitted, last, handler, writer, estimate, missed>>

Restart ==
    /\ dedupe' = <<>>
    /\ admitted' = <<>>
    /\ handler' = [id \in Ids |-> IF handler[id] = "none" THEN "none" ELSE "done"]
    /\ channel' = <<>>
    /\ writer' = Ready
    /\ estimate' = Unknown
    /\ missed' = {}
    /\ UNCHANGED <<clock, last, disk>>

Handlers ==
    \/ \E k \in Keys : Admit(k) \/ SkipDuplicate(k)
    \/ \E id \in Ids : SendStart(id) \/ RecordOutbound(id) \/ Finish(id) \/ Abandon(id)

Writer ==
    \/ WriteStart
    \/ \E what \in StartFailures : StartFails(what)
    \/ RotateEntries
    \/ WriteMetadata
    \/ WriteOutbound
    \/ WriteFinish

Next == Tick \/ Handlers \/ Writer \/ Restart

(* The runtime polls the writer task as long as it has something to do. *)
Spec == Init /\ [][Next]_vars /\ WF_vars(Writer)
-----------------------------------------------------------------------------
(* The cap is enforced within the slack, but for the entries on which the  *)
(* file system has failed: outside the step that has just added an entry,  *)
(* those that the last scan could read and delete and those written since  *)
(* are never more than the slack above the cap, although the directory is  *)
(* scanned only now and then, entries finish out of order, and a restart   *)
(* forgets the estimate after an entry was created.                        *)
WithinSlack ==
    MaxEntries > 0 /\ writer = Ready /\ estimate # Unknown
        => Cardinality(OnDisk(disk) \ missed) < MaxEntries + Slack

(* What the comment on record_and_maybe_rotate says: "the cap is therefore *)
(* enforced within that slack".                                            *)
CapEnforced ==
    MaxEntries > 0 /\ writer = Ready /\ estimate # Unknown
        => Cardinality(OnDisk(disk)) < MaxEntries + Slack

(* An entry that rotation deleted stays deleted, and none is finished that  *)
(* was never started: no late or lone Finish brings a directory back into   *)
(* being, whichever messages the channel dropped (2038).                   *)
NoEntryFromNothing ==
    [][\A id \in Ids :
          /\ disk[id] = "gone" => disk'[id] = "gone"
          /\ disk'[id] = "final" /\ disk[id] # "final" => disk[id] = "partial"]_vars

(* The dedupe window: a key is admitted again within the window only after  *)
(* Capacity other admissions have pushed it out.                            *)
OncePerWindow ==
    \A i, j \in 1 .. Len(admitted) :
        i < j /\ j - i <= Capacity /\ admitted[i].key = admitted[j].key
            => admitted[j].at - admitted[i].at > WindowSecs

(* The writer survives what it meets: the channel is empty time and again.  *)
ChannelDrains == []<>(channel = <<>> /\ writer = Ready)
=============================================================================
