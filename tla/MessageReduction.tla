-------------------------- MODULE MessageReduction --------------------------
(***************************************************************************)
(* The request body on its way through handle_anthropic_message: the cut   *)
(* at the cycle boundary, the repair of orphaned tool results, and the     *)
(* tiers of the soft cap (src/src/rebuild.rs).  A message is what the      *)
(* passes look at: its role, what text it holds, the ids of its calls and  *)
(* its results with the sizes of their contents.                           *)
(*                                                                         *)
(* External: the harness, which grows a history and submits a suffix of it *)
(* (an interrupted or trimmed history starts anywhere).                    *)
(***************************************************************************)
EXTENDS Integers, Sequences, FiniteSets, FiniteSetsExt

CONSTANTS
    Tools,         \* names of tool definitions
    ResultSizes,   \* sizes of the contents of tool results
    Threshold,     \* TIER_A_EJECTION_THRESHOLD
    StubSize,      \* the content that replaces an ejected one
    TextSize,      \* any other block
    ToolSize,      \* one tool definition
    Caps,          \* soft_cap_bytes; 0 switches the cap off
    MaxMessages,   \* bound on a history
    MaxCalls       \* bound on the calls in a history

ASSUME ReductionAssumption ==
    /\ IsFiniteSet(Tools)
    /\ ResultSizes \subseteq Nat
    /\ {Threshold, StubSize, TextSize, ToolSize} \subseteq Nat
    /\ StubSize < Threshold
    /\ Caps \subseteq Nat
    /\ MaxMessages \in Nat
    /\ MaxCalls \in Nat

VARIABLES
    phase,     \* how far the handler has come
    messages,  \* body["messages"]
    tools,     \* the names in body["tools"]
    enabled,   \* RebuildConfig.enabled
    cap,       \* soft_cap_bytes
    received,  \* history: the messages as the harness sent them
    entry      \* history: the messages as the soft cap found them

reductionVars == <<phase, messages, tools, enabled, cap, received, entry>>
body == <<messages, tools>>
setting == <<enabled, cap, received>>

(* A text is named after the message that holds it, a call after the message *)
(* that makes it and its tool.                                               *)
NoText == 0
Projection == MaxMessages + 1
Call(i, t) == <<i, t>>

User(text, results) ==
    [role |-> "user", text |-> text, calls |-> {}, results |-> results]
Assistant(text, calls) ==
    [role |-> "assistant", text |-> text, calls |-> calls, results |-> {}]

(* Sizes stand for serialized bytes; a sum is the number of its units. *)
Units(f) == UNION {{i} \X (1 .. f[i]) : i \in DOMAIN f}
SumOf(f) == Cardinality(Units(f))

Sizes(results) == SumOf([x \in results |-> x.size])
MessageSize(m) ==
    (IF m.text = NoText THEN 0 ELSE TextSize)
        + TextSize * Cardinality(m.calls) + Sizes(m.results)
CallsOf(ms) == UNION {ms[i].calls : i \in DOMAIN ms}

MessagesSize(ms) == SumOf([i \in DOMAIN ms |-> MessageSize(ms[i])])
BodySize(ms, ts) == MessagesSize(ms) + ToolSize * Cardinality(ts)

UnderCap == cap = 0 \/ BodySize(messages, tools) <= cap

ReductionInit ==
    /\ phase = "harness"
    /\ messages = <<User(1, {})>>
    /\ tools = Tools
    /\ enabled = FALSE
    /\ cap = 0
    /\ received = <<>>
    /\ entry = <<>>
-----------------------------------------------------------------------------
(* The harness.  A user message is text, results, or results with text; it  *)
(* may answer only some of the calls before it, and an interrupted history  *)
(* holds results whose call is not in the message before.                   *)
Answers(ids) == UNION {[id : {c}, size : ResultSizes] : c \in ids}

AtMostOneEach(results) ==
    \A x, y \in results : x.id = y.id => x = y

Ghost == [id |-> Call(0, CHOOSE t \in Tools : TRUE), size |-> StubSize]

HarnessAppends(m) ==
    /\ phase = "harness"
    /\ Len(messages) < MaxMessages
    /\ messages' = Append(messages, m)
    /\ UNCHANGED <<phase, tools, entry, setting>>

ModelSpeaks ==
    /\ phase = "harness"
    /\ messages[Len(messages)].role = "user"
    /\ \E calls \in SUBSET {Call(Len(messages) + 1, t) : t \in Tools} :
           /\ Cardinality(CallsOf(messages) \cup calls) <= MaxCalls
           /\ HarnessAppends(Assistant(IF calls = {} THEN Len(messages) + 1 ELSE NoText, calls))

UserSpeaks ==
    /\ phase = "harness"
    /\ \E results \in SUBSET (Answers(messages[Len(messages)].calls) \cup {Ghost}),
          text \in {NoText, Len(messages) + 1} :
           /\ AtMostOneEach(results)
           /\ text # NoText \/ results # {}
           /\ HarnessAppends(User(text, results))

Submit(first) ==
    /\ phase = "harness"
    /\ messages[Len(messages)].role = "user"
    /\ messages' = SubSeq(messages, first, Len(messages))
    /\ received' = messages'
    /\ enabled' \in BOOLEAN
    /\ cap' \in Caps
    /\ phase' = "rebuild"
    /\ UNCHANGED <<tools, entry>>
-----------------------------------------------------------------------------
IsRealUserMessage(m) ==
    /\ m.role = "user"
    /\ m.text # NoText \/ m.calls # {} \/ m.results = {}

RealUserMessages(ms) == {i \in DOMAIN ms : IsRealUserMessage(ms[i])}

(* collect_tool_use_ids of the message before: there is none before the *)
(* first, and the role of the one before is not looked at.              *)
ValidIds(ms, i) == IF i = 1 THEN {} ELSE ms[i - 1].calls

StripOrphans(ms) ==
    [i \in DOMAIN ms |->
        IF ms[i].role = "user"
        THEN [ms[i] EXCEPT !.results = {x \in @ : x.id \in ValidIds(ms, i)}]
        ELSE ms[i]]

IsEmpty(m) == m.text = NoText /\ m.calls = {} /\ m.results = {}

(* The members of ms at the indices in K, in their order. *)
Rank(K, k) == Cardinality({j \in K : j <= k})
Kept(ms, K) == [i \in 1 .. Cardinality(K) |-> ms[CHOOSE k \in K : Rank(K, k) = i]]

Emptied(m) == m.role = "user" /\ IsEmpty(m)

DropEmptied(ms) == Kept(ms, {i \in DOMAIN ms : ~Emptied(ms[i])})

(* Mutant: emptied messages are dropped before anything is stripped. *)
RepairDropsFirst(ms) == StripOrphans(DropEmptied(ms))

Repair(ms) == DropEmptied(StripOrphans(ms))

(* The cut keeps the newest real user message and what follows it, behind *)
(* the projection of the rest.                                            *)
CutAt(ms, b) ==
    <<User(Projection, {})>> \o SubSeq(ms, b, Len(ms))

Boundary(ms) == Max(RealUserMessages(ms))

Rebuilt(ms) ==
    IF RealUserMessages(ms) = {} \/ Boundary(ms) = 1
    THEN Repair(ms)
    ELSE Repair(CutAt(ms, Boundary(ms)))

Rebuild ==
    /\ phase = "rebuild"
    /\ messages' = IF enabled THEN Rebuilt(messages) ELSE messages
    /\ entry' = messages'
    /\ phase' = "eject"
    /\ UNCHANGED <<tools, setting>>
-----------------------------------------------------------------------------
(* Tier A: while the body is over the cap, the largest remaining result     *)
(* content at or above the threshold is replaced by a stub.                 *)
LargeResults(ms) ==
    UNION {{i} \X {x \in ms[i].results : x.size >= Threshold} : i \in DOMAIN ms}

Stubbed(ms, i, x) ==
    [ms EXCEPT ![i].results = (@ \ {x}) \cup {[x EXCEPT !.size = StubSize]}]

(* Mutant: candidates in ascending order. *)
NextEjectionSmallest(ms, c) == \A d \in LargeResults(ms) : c[2].size <= d[2].size

(* Of several largest the code takes the first; here any of them. *)
NextEjection(ms, c) == \A d \in LargeResults(ms) : c[2].size >= d[2].size

Eject ==
    /\ phase = "eject"
    /\ ~UnderCap
    /\ \E c \in LargeResults(messages) :
           /\ NextEjection(messages, c)
           /\ messages' = Stubbed(messages, c[1], c[2])
    /\ UNCHANGED <<phase, tools, entry, setting>>

EjectDone ==
    /\ phase = "eject"
    /\ UnderCap \/ LargeResults(messages) = {}
    /\ phase' = IF UnderCap THEN "forward" ELSE "prune"
    /\ UNCHANGED <<body, entry, setting>>

(* Mutant: any message that holds results counts as their wrapper. *)
OnlyToolResultsOrMixed(m) == m.results # {}

OnlyToolResults(m) == m.results # {} /\ m.text = NoText /\ m.calls = {}

IsPair(ms, i) ==
    /\ ms[i].role = "assistant" /\ ms[i].calls # {}
    /\ ms[i + 1].role = "user" /\ OnlyToolResults(ms[i + 1])

(* The first and the last message are never looked at. *)
PrunablePairs(ms) == {i \in 2 .. Len(ms) - 2 : IsPair(ms, i)}

(* Mutant: only the wrapper of the results goes. *)
WithoutResults(ms, i) == SubSeq(ms, 1, i) \o SubSeq(ms, i + 2, Len(ms))

WithoutPair(ms, i) == SubSeq(ms, 1, i - 1) \o SubSeq(ms, i + 2, Len(ms))

Prune ==
    /\ phase = "prune"
    /\ ~UnderCap
    /\ PrunablePairs(messages) # {}
    /\ messages' = WithoutPair(messages, Min(PrunablePairs(messages)))
    /\ UNCHANGED <<phase, tools, entry, setting>>

PruneDone ==
    /\ phase = "prune"
    /\ UnderCap \/ PrunablePairs(messages) = {}
    /\ phase' = IF UnderCap THEN "forward" ELSE "trim"
    /\ UNCHANGED <<body, entry, setting>>

(* Mutant: only the calls of the newest message count. *)
ReferencedLately(ms) == UNION {{c[2] : c \in ms[i].calls} : i \in {Len(ms)} \ {0}}

Referenced(ms) == {c[2] : c \in CallsOf(ms)}

(* Mutant: the verdict ignores what tier C recovered. *)
VerdictBlind(ms, ts) == "refused"

Verdict(ms, ts) == IF BodySize(ms, ts) <= cap THEN "forward" ELSE "refused"

(* Tier C, and tier D when that was not enough. *)
Trim ==
    /\ phase = "trim"
    /\ tools' = tools \cap Referenced(messages)
    /\ phase' = Verdict(messages, tools')
    /\ UNCHANGED <<messages, entry, setting>>

ReductionNext ==
    \/ ModelSpeaks
    \/ UserSpeaks
    \/ \E first \in DOMAIN messages : Submit(first)
    \/ Rebuild
    \/ Eject
    \/ EjectDone
    \/ Prune
    \/ PruneDone
    \/ Trim

ReductionSpec == ReductionInit /\ [][ReductionNext]_reductionVars
-----------------------------------------------------------------------------
Done == phase \in {"forward", "refused"}

(* Calls whose results are not all, and results whose call is not, next to *)
(* them in the list.                                                       *)
ResultIds(m) == {x.id : x \in m.results}

Unanswered(ms) ==
    {c \in CallsOf(ms) :
        \E i \in DOMAIN ms :
            /\ c \in ms[i].calls
            /\ i = Len(ms) \/ c \notin ResultIds(ms[i + 1])}

Orphans(ms) == UNION {ResultIds(ms[i]) \ ValidIds(ms, i) : i \in DOMAIN ms}

(* "The function MUST preserve Anthropic's tool_use -> tool_result pairing  *)
(* invariant": no cut, repair, ejection or pruning parts a call from its    *)
(* results, and where the rebuild is enabled no orphaned result is left.    *)
PairingKept ==
    phase # "harness" =>
        /\ Unanswered(messages) \subseteq Unanswered(received)
        /\ Orphans(messages) \subseteq Orphans(received)
        /\ enabled /\ phase # "rebuild" => Orphans(messages) = {}

(* "Idempotent": repairing what any pass leaves behind once is enough, also *)
(* where a message emptied by the repair moves the ones after it.           *)
RepairIsIdempotent == Repair(Repair(messages)) = Repair(messages)

(* "We want to cut at (a), preserving the in-flight chain": the words of    *)
(* the newest real user message pass every stage, and up to the soft cap so *)
(* does every call made since.                                              *)
TextsOf(ms) == {ms[i].text : i \in DOMAIN ms}

NewestTurnKept ==
    phase # "harness" /\ RealUserMessages(received) # {} =>
        LET b == Boundary(received) IN
        /\ received[b].text \in TextsOf(messages)
        /\ phase # "rebuild"
             => CallsOf(SubSeq(received, b, Len(received))) \subseteq CallsOf(entry)

(* "Never drops a tool the assistant is actively using": whatever calls the *)
(* tiers leave in the body, their tools are still defined.                  *)
UsedToolsDefined == \A c \in CallsOf(messages) : c[2] \in tools

(* A forwarded body meets the cap, and a request is refused only when all   *)
(* tiers are exhausted and the body is over the cap all the same.           *)
CapMetOrExhausted ==
    /\ phase = "forward" => UnderCap
    /\ phase = "refused" =>
           /\ ~UnderCap
           /\ LargeResults(messages) = {}
           /\ PrunablePairs(messages) = {}
           /\ tools \subseteq Referenced(messages)

(* Largest first is worth it: when ejecting is enough, no smaller number of *)
(* ejected results would have been.                                         *)
Ejected == Cardinality(LargeResults(entry)) - Cardinality(LargeResults(messages))
Savings(S) == SumOf([c \in S |-> c[2].size - StubSize])

EjectsFewest ==
    phase = "forward" /\ Len(messages) = Len(entry) /\ tools = Tools =>
        \A S \in SUBSET LargeResults(entry) :
            Cardinality(S) < Ejected => BodySize(entry, tools) - Savings(S) > cap

(* "Keep the last pair so the model has at least one round-trip of          *)
(* in-flight context" (rebuild.rs 741-743): pruning does not take them all. *)
Pairs(ms) ==
    {i \in 1 .. Len(ms) - 1 :
        IsPair(ms, i) /\ ResultIds(ms[i + 1]) = ms[i].calls}

LastPairKept == Done /\ Pairs(entry) # {} => Pairs(messages) # {}
=============================================================================
