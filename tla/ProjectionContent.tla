-------------------------- MODULE ProjectionContent --------------------------
(***************************************************************************)
(* What apply_rebuild puts in the place of the turns it drops: the newest  *)
(* envelope, the capped tool activity, the frontier of unresolved items,   *)
(* the user thread and the optional sections, which a DEAD verdict may     *)
(* elide to meet its budget (rebuild.rs 405-560 and 1030-1615).            *)
(*                                                                         *)
(* External: the harness and its model, whose calls take and give locks of *)
(* the kernel.  `held` is the truth about those locks, which the proxy can *)
(* only read off the history.                                              *)
(***************************************************************************)
EXTENDS Integers, SequencesExt, FiniteSetsExt

CONSTANTS
    Locks,          \* names of kernel locks
    CallKinds,      \* which of "work", "monitor", "create", "release" are called
    NativeCap,      \* max_native_tool_summary
    ThreadCap,      \* max_user_intent_thread
    SectionSize,    \* bytes of each optional section, by name
    SectionSets,    \* which of them the sources of a request may yield
    Budgets,        \* compact_target_bytes a DEAD verdict may set
    MaxMessages,    \* bound on a history
    MaxCalls        \* bound on the calls of a history

ASSUME ContentAssumption ==
    /\ CallKinds \subseteq {"work", "monitor", "create", "release"}
    /\ NativeCap \in Nat /\ ThreadCap \in Nat
    /\ DOMAIN SectionSize = {"templates", "tail", "digests"}
    /\ \A s \in DOMAIN SectionSize : SectionSize[s] \in Nat
    /\ SectionSets \subseteq SUBSET DOMAIN SectionSize
    /\ Budgets \subseteq Nat
    /\ MaxMessages \in Nat /\ MaxCalls \in Nat

VARIABLES
    history,   \* body["messages"] as the harness holds them
    held,      \* locks that the kernel really has given to this conversation
    phase,     \* "harness", "composing" or "composed"
    synthetic, \* the projection being composed
    budget,    \* compact_target_bytes of this request, or NoBudget
    shown      \* history: the envelope of the last projection sent

contentVars == <<history, held, phase, synthetic, budget, shown>>

NoBudget == -1
NoEnvelope == 0

-----------------------------------------------------------------------------
\* The conversation.

NoLock == "none"
Actions == [kind : CallKinds \cap {"work", "monitor"}, lock : {NoLock}]
             \cup [kind : CallKinds \cap {"create", "release"}, lock : Locks]

User(text, results, envelope) ==
    [role |-> "user", text |-> text, calls |-> {}, results |-> results, envelope |-> envelope]
Assistant(calls) ==
    [role |-> "assistant", text |-> FALSE, calls |-> calls, results |-> {}, envelope |-> NoEnvelope]

\* The ids of calls number them in the order the history has them in.
AllCalls(ms) == UNION {ms[i].calls : i \in DOMAIN ms}
AllResults(ms) == UNION {ms[i].results : i \in DOMAIN ms}
NewestId(ms) == Max({0} \cup {c.id : c \in AllCalls(ms)})

ModelCalls(acts) ==
    /\ phase = "harness" /\ Len(history) < MaxMessages
    /\ Last(history).role = "user"
    /\ LET n == NewestId(history)
       IN /\ n + Len(acts) <= MaxCalls
          /\ history' = Append(history,
                 Assistant({[id |-> n + i, kind |-> acts[i].kind, lock |-> acts[i].lock] :
                               i \in DOMAIN acts}))
    /\ UNCHANGED <<held, phase, synthetic, budget, shown>>

\* The calls take effect in their order; the kernel refuses to give a lock
\* twice or to take back one it has not given.
LocksOf(calls, kind) == {c.lock : c \in {d \in calls : d.kind = kind}}

\* Locks that are created and not released after that.
Taken(calls) ==
    {l \in Locks : \E c \in calls :
        /\ c.kind = "create" /\ c.lock = l
        /\ \A d \in calls : d.kind = "release" /\ d.lock = l => d.id < c.id}

MayTakeEffect(call, locks) ==
    /\ call.kind = "create" => call.lock \notin locks
    /\ call.kind = "release" => call.lock \in locks
HeldAfter(calls) == Taken(calls) \cup (held \ LocksOf(calls, "release"))
Consistent(calls) ==
    \A c \in calls : MayTakeEffect(c, HeldAfter({d \in calls : d.id < c.id}))

\* The harness answers some of the newest calls, with or without words.  A call
\* it answers "ok" has taken effect, one in "error" has not, and of one left
\* without an answer (an interrupt) nobody knows.
Answer(done, answered, text, env) ==
    /\ phase = "harness" /\ Len(history) < MaxMessages
    /\ LET ids == {c.id : c \in Last(history).calls}
           calls == {c \in Last(history).calls : c.id \in done}
       IN /\ answered \subseteq ids /\ done \subseteq ids
          /\ text \/ answered # {}
          /\ Consistent(calls)
          /\ history' = Append(history, User(text,
                 {[id |-> i, ok |-> i \in done] : i \in answered}, env))
          /\ held' = HeldAfter(calls)
    /\ UNCHANGED <<phase, synthetic, budget, shown>>

-----------------------------------------------------------------------------
\* What is dropped.

IsRealUserMessage(m) == m.role = "user" /\ (m.text \/ m.results = {})
Boundaries(ms) == {i \in DOMAIN ms : IsRealUserMessage(ms[i])}
CycleBoundary == Max(Boundaries(history))
Dropped(ms) == SubSeq(ms, 1, Max(Boundaries(ms)) - 1)

\* extract_latest_envelope: an envelope is named after its message, so the
\* latest is the greatest.
LatestEnvelopeForgets(ms) ==   \* Mutant: a message without one clears it
    IF ms = <<>> THEN NoEnvelope ELSE Last(ms).envelope

LatestEnvelope(ms) == Max({NoEnvelope} \cup {ms[i].envelope : i \in DOMAIN ms})

\* summarize_native_tools: calls in encounter order with their status, the
\* last `cap` of them.
Status(call, results) ==
    IF ~\E r \in results : r.id = call.id THEN "pending"
    ELSE IF \E r \in results : r.id = call.id /\ r.ok THEN "ok" ELSE "error"

Summary(ms) ==
    {[call |-> c, status |-> Status(c, AllResults(ms))] : c \in AllCalls(ms)}

NewestOf(S, cap) == {x \in S : Cardinality({y \in S : y > x}) < cap}

NativeTools(ms, cap) ==
    {c \in Summary(ms) : c.call.id \in NewestOf({d.id : d \in AllCalls(ms)}, cap)}

\* summarize_unresolved: calls in flight, armed monitors and locks taken and
\* not given back, over all of the dropped slice.
WithStatus(native, status) == {c.call : c \in {d \in native : d.status = status}}

InFlight(native) == WithStatus(native, "pending")

ArmedMonitors(native) == {c \in WithStatus(native, "ok") : c.kind = "monitor"}

HeldLocksBlind(native) ==   \* Mutant: calls that failed count too
    Taken({c.call : c \in native})

HeldLocks(native) == Taken(WithStatus(native, "ok"))

UnresolvedPaged(ms) ==   \* Mutant: the frontier is read off the capped summary
    LET all == NativeTools(ms, NativeCap)
    IN [inFlight |-> InFlight(all), monitors |-> ArmedMonitors(all), locks |-> HeldLocks(all)]

Unresolved(ms) ==
    LET all == Summary(ms)   \* NativeTools with a cap of usize::MAX
    IN [inFlight |-> InFlight(all), monitors |-> ArmedMonitors(all), locks |-> HeldLocks(all)]

\* extract_user_intent_thread: positions of the user texts kept.
UserThread(ms) == NewestOf({i \in DOMAIN ms : ms[i].text}, ThreadCap)

-----------------------------------------------------------------------------
\* compose_synthetic_context: one line per item, besides the sections.
Count(f) == Cardinality(f.inFlight) + Cardinality(f.monitors) + Cardinality(f.locks)
SectionBytes(sections) ==
    LET part(s) == IF s \in sections THEN SectionSize[s] ELSE 0
    IN part("templates") + part("tail") + part("digests")

Composed(envelope, native, frontier, thread, sections) ==
    [envelope |-> envelope, native |-> native, frontier |-> frontier,
     thread |-> thread, sections |-> sections, elided |-> <<>>,
     size |-> Cardinality(native) + Count(frontier) + Cardinality(thread)
                + SectionBytes(sections)]

Empty == Composed(NoEnvelope, {}, [inFlight |-> {}, monitors |-> {}, locks |-> {}], {}, {})

ContentInit ==
    /\ history = <<User(TRUE, {}, NoEnvelope)>>
    /\ held = {} /\ phase = "harness" /\ synthetic = Empty /\ budget = NoBudget
    /\ shown = NoEnvelope

\* A request reaches apply_rebuild with the sections its sources yielded; with
\* no prior history the rebuild is skipped.
Compose(sections, b) ==
    /\ phase = "harness" /\ Last(history).role = "user"
    /\ CycleBoundary > 1
    /\ LET dropped == Dropped(history)
       IN synthetic' = Composed(LatestEnvelope(dropped), NativeTools(dropped, NativeCap),
                                Unresolved(dropped), UserThread(dropped), sections)
    /\ budget' = b /\ phase' = "composing"
    /\ UNCHANGED <<history, held, shown>>

OverBudgetStrict == budget # NoBudget /\ synthetic.size >= budget   \* Mutant: an off-by-one

OverBudget == budget # NoBudget /\ synthetic.size > budget

\* One turn of the elision loop: derived data first, recall-able data next.
ElisionOrder == [templates |-> 1, tail |-> 2, digests |-> 3]
NextElided == CHOOSE s \in synthetic.sections :
    \A t \in synthetic.sections : ElisionOrder[s] <= ElisionOrder[t]

Elide ==
    /\ phase = "composing" /\ OverBudget /\ synthetic.sections # {}
    /\ synthetic' = [synthetic EXCEPT !.sections = @ \ {NextElided},
                                      !.elided = Append(@, NextElided),
                                      !.size = @ - SectionSize[NextElided]]
    /\ UNCHANGED <<history, held, phase, budget, shown>>

Emit ==
    /\ phase = "composing" /\ (~OverBudget \/ synthetic.sections = {})
    /\ phase' = "composed" /\ shown' = synthetic.envelope
    /\ UNCHANGED <<history, held, synthetic, budget>>

\* The answer arrives and the conversation goes on.
Resume ==
    /\ phase = "composed" /\ phase' = "harness"
    /\ synthetic' = Empty /\ budget' = NoBudget
    /\ UNCHANGED <<history, held, shown>>

ContentNext ==
    \/ \E n \in 0..MaxCalls : \E acts \in [1..n -> Actions] : ModelCalls(acts)
    \/ \E done, answered \in SUBSET (1..MaxCalls), text \in BOOLEAN,
          env \in {NoEnvelope, Len(history) + 1} : Answer(done, answered, text, env)
    \/ \E sections \in SectionSets, b \in Budgets \cup {NoBudget} : Compose(sections, b)
    \/ Elide
    \/ Emit
    \/ Resume

ContentSpec == ContentInit /\ [][ContentNext]_contentVars
-----------------------------------------------------------------------------
\* A lock the kernel has really given is in the frontier as held, or as a call
\* in flight that may have taken it; one that is listed as held is really held
\* or a release of it is in flight.  It needs the frontier to be read off the
\* uncapped history, by status and in order (rebuild.rs 1262-1347).
FrontierTellsLocks ==
    (phase = "composed" /\ history[CycleBoundary].results = {} /\ CycleBoundary = Len(history)) =>
        LET f == synthetic.frontier
        IN /\ held \subseteq f.locks \cup LocksOf(f.inFlight, "create")
           /\ f.locks \subseteq held \cup LocksOf(f.inFlight, "release")

\* Every dropped call is either told as resolved in the history or is in the
\* frontier, however far the cap has paged the summary.
NothingPendingForgotten ==
    phase = "composed" =>
        \A c \in AllCalls(Dropped(history)) :
            \/ \E r \in AllResults(history) : r.id = c.id
            \/ c \in synthetic.frontier.inFlight

\* What the comment on summarize_unresolved says is in flight: calls with no
\* result at the boundary.  A boundary message that carries results with its
\* words answers calls the frontier then asks the model to issue again.
AnsweredIsResolved ==
    phase = "composed" =>
        \A c \in synthetic.frontier.inFlight : ~\E r \in AllResults(history) : r.id = c.id

\* A budget elides as little as the fixed order allows and never the core:
\* the last section to go had to, and what stays fits or nothing optional is left.
ElisionIsMinimal ==
    (phase = "composed" /\ budget # NoBudget) =>
        /\ synthetic.size <= budget \/ synthetic.sections = {}
        /\ synthetic.elided # <<>> =>
               synthetic.size + SectionSize[Last(synthetic.elided)] > budget
        /\ \A i, j \in DOMAIN synthetic.elided : i < j =>
               ElisionOrder[synthetic.elided[i]] < ElisionOrder[synthetic.elided[j]]

\* From one request to the next the projection never goes back to an older
\* envelope while it is read off a growing history (standalone mode).
EnvelopeNeverGoesBack == [][shown' >= shown]_contentVars
=============================================================================
