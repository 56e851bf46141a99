-------------------------- MODULE ProjectionSources --------------------------
(***************************************************************************)
(* Where a rebuilt request takes its sections from before the body is      *)
(* touched (main.rs 549-723): a live envelope and templates from a kernel  *)
(* daemon (kernel_client.rs), the digests of recent turns from a file all  *)
(* seats of the workspace append to (cycle_digest.rs, standalone.rs), and  *)
(* the user turns of the harness's transcript (transcript_tail.rs).        *)
(*                                                                         *)
(* External: the harnesses of the seats, which write their transcripts     *)
(* when they like; the daemons, each of which answers, refuses or hangs.   *)
(***************************************************************************)
EXTENDS Integers, SequencesExt, FiniteSetsExt

CONSTANTS
    Seats,          \* conversations that share the workspace, by session id
    Matching,       \* seats whose transcript names this workspace in its first line
    Sockets,        \* sockets of kernel daemons
    Walk,           \* those found from the working directory upwards, nearest first
    Pinned,         \* the socket the configuration pins, or NoSocket
    NoSocket,
    NoFile,         \* no seat's transcript
    OwnCap,         \* own digests shown (5)
    PeerCap,        \* peers' digests shown (3)
    MaxTurns,       \* bound: turns of each seat
    MaxTears        \* bound: digest rows that are cut short

ASSUME SourcesAssumption ==
    /\ Matching \subseteq Seats /\ NoFile \notin Seats
    /\ NoSocket \notin Sockets /\ Walk \in Seq(Sockets) /\ Pinned \in Sockets \cup {NoSocket}
    /\ OwnCap \in Nat /\ PeerCap \in Nat /\ MaxTurns \in [Seats -> Nat] /\ MaxTears \in Nat

VARIABLES
    turns,     \* [Seats -> Nat]: user turns a seat has made
    flushed,   \* [Seats -> Nat]: how many of them are in its transcript
    recent,    \* seats with a transcript, latest modification first
    file,      \* lines of cycle_digests.jsonl
    open,      \* the last line has no newline
    tears,     \* rows cut short so far
    harvested, \* history: digests whose append succeeded, in order
    req        \* [Seats -> the request of the seat]

vars == <<turns, flushed, recent, file, open, tears, harvested, req>>
harness == <<turns, flushed, recent>>
digests == <<file, open, tears, harvested>>

-----------------------------------------------------------------------------
\* The sockets tried, in order: the pinned one alone, or those of the walk.
FetchCandidates == IF Pinned # NoSocket THEN <<Pinned>> ELSE Walk
\* fetch_templates takes no pinned socket.
TemplateCandidates == Walk

\* What a daemon does with one call: an error of any kind is a refusal, and a
\* call that takes longer than the timeout is given up.
Outcomes == {"answers", "refuses", "hangs"}

\* Lines of the digest file that parse, before the first that is no text
\* (map_while).
ReadableLines == {i \in DOMAIN file : file[i].whole /\ \A j \in 1..i : file[j].utf8}

LastLines(lines, n) == {i \in lines : Cardinality({j \in lines : j > i}) < n}
Rows(lines) == [i \in lines |-> file[i]]

\* Mutant: the file is pooled, as it was before digests were keyed.
OwnDigestsPooled(s) == Rows(LastLines(ReadableLines, OwnCap))

OwnDigests(s) == Rows(LastLines({i \in ReadableLines : file[i].seat = s}, OwnCap))

PeerDigests(s) == Rows(LastLines({i \in ReadableLines : file[i].seat # s}, PeerCap))

\* locate_session_file: the newest transcript that names the workspace, or else
\* the newest of all.
Located ==
    LET named == SelectSeq(recent, LAMBDA s : s \in Matching)
    IN IF named # <<>> THEN Head(named) ELSE Head(recent)

\* read_tail_events and render_cross_session_summary: the last events of the
\* file, n user turns among them.
TailTurns(f, n) == [i \in 1..n |-> <<f, flushed[f] - n + i>>]

\* read_recent_user_messages: all user turns of the file but the last, which is
\* taken for the one in flight.
PriorTurns(f) == [i \in 1..Max({0, flushed[f] - 1}) |-> <<f, i>>]

-----------------------------------------------------------------------------
Idle == [pc |-> "idle", cand |-> 0, mode |-> "rebuild_kernel", envelope |-> NoSocket,
         templates |-> NoSocket, own |-> <<>>, peers |-> <<>>, from |-> NoFile,
         tail |-> <<>>, prior |-> <<>>]

Init ==
    /\ turns = [s \in Seats |-> 0] /\ flushed = [s \in Seats |-> 0] /\ recent = <<>>
    /\ file = <<>> /\ open = FALSE /\ tears = 0 /\ harvested = <<>>
    /\ req = [s \in Seats |-> Idle]

\* The harness adds the pending user turns to its transcript.
Flush(s) ==
    /\ flushed[s] < turns[s]
    /\ flushed' = [flushed EXCEPT ![s] = turns[s]]
    /\ recent' = <<s>> \o SelectSeq(recent, LAMBDA t : t # s)
    /\ UNCHANGED <<turns, digests, req>>

\* A user turn reaches the proxy; with no socket there is nothing to probe.
Arrive(s) ==
    /\ req[s].pc = "idle" /\ turns[s] < MaxTurns[s]
    /\ turns' = [turns EXCEPT ![s] = @ + 1]
    /\ req' = [req EXCEPT ![s] = IF FetchCandidates = <<>>
                                 THEN [Idle EXCEPT !.pc = "digests", !.mode = "rebuild_local"]
                                 ELSE [Idle EXCEPT !.pc = "fetch", !.cand = 1]]
    /\ UNCHANGED <<flushed, recent, digests>>

\* Mutant: the candidates are tried all over again.
FetchFailedRetries(r) == [r EXCEPT !.cand = 1]

\* Mutant: a failed fetch leaves the mode as it was.
FetchFailedUndemoted(r) == [r EXCEPT !.pc = "digests", !.cand = 0]

\* The request is demoted to standalone synthesis.
FetchFailed(r) == [r EXCEPT !.pc = "digests", !.cand = 0, !.mode = "rebuild_local"]

\* fetch_projection_with: the candidate answers, or the next one is tried.
Fetch(s, outcome) ==
    /\ req[s].pc = "fetch"
    /\ LET r == req[s]
       IN req' = [req EXCEPT ![s] =
            IF outcome = "answers"
            THEN [r EXCEPT !.envelope = FetchCandidates[r.cand], !.cand = 1,
                           !.pc = IF TemplateCandidates = <<>> THEN "digests" ELSE "templates"]
            ELSE IF r.cand < Len(FetchCandidates) THEN [r EXCEPT !.cand = r.cand + 1]
            ELSE FetchFailed(r)]
    /\ UNCHANGED <<harness, digests>>

\* fetch_templates: the same over its own candidates, without a demotion.
FetchTemplates(s, outcome) ==
    /\ req[s].pc = "templates"
    /\ LET r == req[s]
       IN req' = [req EXCEPT ![s] =
            IF outcome = "answers"
            THEN [r EXCEPT !.templates = TemplateCandidates[r.cand], !.pc = "digests"]
            ELSE IF r.cand < Len(TemplateCandidates) THEN [r EXCEPT !.cand = r.cand + 1]
            ELSE [r EXCEPT !.pc = "digests"]]
    /\ UNCHANGED <<harness, digests>>

ReadDigests(s) ==
    /\ req[s].pc = "digests"
    /\ req' = [req EXCEPT ![s].own = OwnDigests(s), ![s].peers = PeerDigests(s),
                          ![s].pc = "transcript"]
    /\ UNCHANGED <<harness, digests>>

\* The session file is located once and its last events are rendered, with no
\* marker to tell where the current turn begins.
ReadTail(s) ==
    /\ req[s].pc = "transcript"
    /\ IF recent = <<>> THEN req' = [req EXCEPT ![s].pc = "sent"]
       ELSE \E f \in Seats : \E n \in 0..flushed[f] :
                /\ f = Located
                /\ req' = [req EXCEPT ![s].from = f, ![s].tail = TailTurns(f, n),
                                      ![s].pc = "thread"]
    /\ UNCHANGED <<harness, digests>>

\* Mutant: the session file is located again for the thread.
ReadThreadRelocated(s) ==
    /\ req[s].pc = "thread"
    /\ req' = [req EXCEPT ![s].prior = PriorTurns(Located), ![s].pc = "sent"]
    /\ UNCHANGED <<harness, digests>>

\* The same file is opened again; the harness may have written in between.
ReadThread(s) ==
    /\ req[s].pc = "thread"
    /\ req' = [req EXCEPT ![s].prior = PriorTurns(req[s].from), ![s].pc = "sent"]
    /\ UNCHANGED <<harness, digests>>

\* The stream has ended, well or not, and its text holds a digest or none.  An
\* append to a line without a newline makes one unreadable line of the two.
Appended(l) ==
    IF open THEN [file EXCEPT ![Len(file)].whole = FALSE] ELSE Append(file, l)

Row(s) == [seat |-> s, turn |-> turns[s], whole |-> TRUE, utf8 |-> TRUE]

Harvest(s) ==
    /\ req[s].pc = "sent"
    /\ file' = Appended(Row(s)) /\ open' = FALSE
    /\ harvested' = Append(harvested, Row(s))
    /\ req' = [req EXCEPT ![s] = Idle]
    /\ UNCHANGED <<harness, tears>>

NoDigest(s) ==
    /\ req[s].pc = "sent"
    /\ req' = [req EXCEPT ![s] = Idle]
    /\ UNCHANGED <<harness, digests>>

\* A full disk or a crash cuts the row short: before its newline, inside it or
\* inside a character.
TornHarvest(s, whole, utf8) ==
    /\ req[s].pc = "sent" /\ tears < MaxTears /\ (whole => utf8)
    /\ file' = IF open THEN [file EXCEPT ![Len(file)].whole = FALSE, ![Len(file)].utf8 = @ /\ utf8]
               ELSE Append(file, [Row(s) EXCEPT !.whole = whole, !.utf8 = utf8])
    /\ open' = TRUE /\ tears' = tears + 1
    /\ req' = [req EXCEPT ![s] = Idle]
    /\ UNCHANGED <<harness, harvested>>

\* The proxy restarts: the requests in flight are gone, the files stay.
Restart ==
    /\ \E s \in Seats : req[s].pc # "idle"
    /\ req' = [s \in Seats |-> Idle]
    /\ UNCHANGED <<harness, digests>>

\* The steps of a handler.  A hanging daemon does not keep `Fetch` from
\* happening: its timer fires.
Prelude(s) ==
    \/ \E o \in Outcomes : Fetch(s, o)
    \/ \E o \in Outcomes : FetchTemplates(s, o)
    \/ ReadDigests(s)
    \/ ReadTail(s)
    \/ ReadThread(s)

Next ==
    \/ \E s \in Seats : Flush(s) \/ Arrive(s) \/ Prelude(s) \/ Harvest(s) \/ NoDigest(s)
    \/ \E s \in Seats, whole, utf8 \in BOOLEAN : TornHarvest(s, whole, utf8)
    \/ Restart

Spec == Init /\ [][Next]_vars /\ \A s \in Seats : WF_vars(Prelude(s))
-----------------------------------------------------------------------------
HarvestedBy(s) == {i \in DOMAIN harvested : harvested[i].seat = s}

\* First-person digests are the seat's own, those of peers are of others, and
\* neither is invented; as long as no row was cut short the seat sees its last
\* ones, up to any harvested since by the response of its previous turn
\* (main.rs 642-668, cycle_digest.rs 168-190).
DigestsAreOwn ==
    \A s \in Seats : req[s].pc \in {"transcript", "thread", "sent"} =>
        /\ IsInjective(req[s].own)
        /\ \A i \in DOMAIN req[s].own : req[s].own[i].seat = s
        /\ \A i \in DOMAIN req[s].peers : req[s].peers[i].seat # s
        /\ tears = 0 => req[s].own = [i \in LastLines(HarvestedBy(s), OwnCap) |-> harvested[i]]

\* The ledger's mode tells whether a daemon answered this request, and no
\* section comes from a daemon when none gave an envelope (main.rs 566-639).
ModeIsTruthful ==
    \A s \in Seats : req[s].pc \in {"digests", "transcript", "thread", "sent"} =>
        /\ (req[s].mode = "rebuild_kernel") <=> (req[s].envelope # NoSocket)
        /\ req[s].templates # NoSocket => req[s].envelope # NoSocket

\* However the harness writes between the two reads of a transcript, the thread
\* of prior turns does not tell the turn in flight, is of the transcript that
\* the activity section is of, and lacks at most the last turn of that section
\* (main.rs 676-716, transcript_tail.rs 376-378).
ThreadCompletesTail ==
    \A s \in Seats : req[s].pc = "sent" =>
        LET tail == req[s].tail
            prior == ToSet(req[s].prior)
        IN /\ <<s, turns[s]>> \notin prior
           /\ \A i \in DOMAIN tail : \A t \in prior : t[1] = tail[i][1]
           /\ \A i \in DOMAIN tail : i < Len(tail) => tail[i] \in prior

\* transcript_tail.rs 17-19: "the tail enriches *prior* cycles only".
TailIsPrior ==
    \A s \in Seats : <<s, turns[s]>> \notin ToSet(req[s].tail)

\* Whatever the daemons do, every request gets to the upstream or dies with the
\* proxy (kernel_client.rs 155-220).
RequestsProceed ==
    \A s \in Seats : (req[s].pc \in {"fetch", "templates", "digests", "transcript", "thread"})
        ~> (req[s].pc \in {"sent", "idle"})

\* config.rs 169: a pinned socket, otherwise the walk.  Templates are fetched
\* from the walk even when a socket is pinned.
OneKernelPerRequest ==
    \A s \in Seats : (req[s].envelope # NoSocket /\ req[s].templates # NoSocket)
        => req[s].templates \in ToSet(FetchCandidates)
=============================================================================
