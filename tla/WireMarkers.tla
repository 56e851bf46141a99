---------------------------- MODULE WireMarkers ----------------------------
(***************************************************************************)
(* What the passes over an Anthropic request body do to the bytes the      *)
(* provider caches: the volatile billing token and the reminders of past   *)
(* turns are stripped, the kernel orientation (rebuild) or the firmware    *)
(* and HUD blocks (mutate) are added with cache_control markers of their   *)
(* own, next to the markers the harness has set.                           *)
(*                                                                         *)
(* External: the harness.  It resends the whole conversation with every    *)
(* request, places at most MarkerLimit markers in non-increasing order of  *)
(* lifetime, on the tools, on the system blocks and on its last two user   *)
(* messages, and rewrites every billing token it finds with each request.  *)
(***************************************************************************)
EXTENDS SequencesExt

CONSTANTS
    Modes,        \* the configured modes: "passthrough", "mutate", "rebuild"
    Tiers,        \* TTLs of the write policy, 0 when the policy is dark
    LeadingMarks, \* markers the harness sets: on the tools, on the system blocks
    MessageMarks, \* markers on its last two user messages, older first
    MarkerLimit,  \* ANTHROPIC_CACHE_CONTROL_LIMIT
    HudFigures,   \* what the HUD may read: figures of the session's row in amp_store
    MaxConversation   \* bound on the length of the conversation

(* Lifetimes of a marker in units of five minutes; 0 is no marker. *)
FiveMinutes == 1
OneHour == 12

ASSUME MarkersAssumption ==
    /\ Modes \subseteq {"passthrough", "mutate", "rebuild"}
    /\ Tiers \subseteq {0, FiveMinutes, OneHour}
    /\ LeadingMarks \subseteq
           [tools : Seq({FiveMinutes, OneHour}), system : Seq({FiveMinutes, OneHour})]
    /\ MessageMarks \subseteq [1 .. 2 -> {0, FiveMinutes, OneHour}]
    /\ MarkerLimit \in Nat
    /\ HudFigures \subseteq Nat \ {0}
    /\ MaxConversation \in Nat

VARIABLES
    mode,      \* config.mode, fixed for the life of the process
    conv,      \* the conversation as the harness holds it
    beat,      \* the billing token of the current request, 1 or 2
    sent,      \* sent[i]: message i as the last request left it
    wire,      \* the markers of the last request, in wire order
    lifetime,  \* ttl_s of the lane the last request would commit
    delivered  \* the messages whose reminder has been on the wire

markersVars == <<mode, conv, beat, sent, wire, lifetime, delivered>>

Notes == {"none", "inside", "whole", "unclosed"}
(* Only a tool result can have captured a billing header. *)
Messages ==
    [role : {"user"}, kind : {"words", "mixed"}, note : Notes, cch : {FALSE}]
        \cup [role : {"user"}, kind : {"result"}, note : Notes, cch : BOOLEAN]
        \cup [role : {"assistant"}, kind : {"words", "call"}, note : {"none"}, cch : {FALSE}]

Reminded(m) == m.note \in {"inside", "whole"}

MarkersInit ==
    /\ mode \in Modes
    /\ conv = <<>>
    /\ beat = 1
    /\ sent = <<>>
    /\ wire = <<>>
    /\ lifetime = 0
    /\ delivered = {}

(***************************************************************************)
(* The reminder strip.                                                     *)
(***************************************************************************)
IsUser(m) == m.role = "user"
IsPrompt(m) == IsUser(m) /\ m.kind # "result"

Users(c) == {i \in DOMAIN c : IsUser(c[i])}
Prompts(c) == {i \in DOMAIN c : IsPrompt(c[i])}

(* Mutant: one tool result among the words makes a message a result. *)
ProtectedWordsOnly(c) ==
    LET words == {i \in Users(c) : c[i].kind = "words"}
    IN  Max(IF words # {} THEN words ELSE Users(c))

(* The message whose reminders stay: the newest user message that is not   *)
(* made of tool results only, else the newest user message.                *)
Protected(c) == Max(IF Prompts(c) # {} THEN Prompts(c) ELSE Users(c))

(* Removing the closed reminders; what becomes empty holds a placeholder,  *)
(* and an unclosed tag is left alone.                                      *)
StrippedNote(note) ==
    CASE note = "whole"  -> "placeholder"
      [] note = "inside" -> "stripped"
      [] OTHER           -> "verbatim"

(* Mutant: the billing token is taken from the system prompt only. *)
TokenLeftInMessages(m, b) == IF m.cch THEN b ELSE 0

(* Every cch= token of every string is removed, in every mode. *)
TokenLeft(m, b) == 0

(* In mutate mode the HUD stands in front of the newest user message,      *)
(* unless that carries tool results; 0 is no HUD.                          *)
HudBefore(c, i, figure) ==
    IF mode = "mutate" /\ i = Max(Users(c)) /\ c[i].kind = "words" THEN figure ELSE 0

(* How message i reads after both strips, and with the HUD. *)
Form(c, i, b, figure) ==
    [text  |-> IF i = Protected(c) THEN "verbatim" ELSE StrippedNote(c[i].note),
     token |-> TokenLeft(c[i], b),
     hud   |-> HudBefore(c, i, figure)]

(***************************************************************************)
(* Markers.                                                                *)
(***************************************************************************)
Harness(ttl) == [by |-> "harness", ttl |-> ttl]
Proxy(ttl) == [by |-> "proxy", ttl |-> ttl]

Newest(S) == CHOOSE i \in S : \A j \in S : j <= i

Given(present, ttl) == IF present /\ ttl # 0 THEN <<ttl>> ELSE <<>>

(* The harness's markers on the messages lo .. hi: mm[2] is on its newest  *)
(* user message, mm[1] on the one before it.                               *)
MarksOver(c, mm, lo, hi) ==
    LET newest == Newest(Users(c))
        older == Users(c) \ {newest}
    IN  Given(older # {} /\ Newest(older) \in lo .. hi, mm[1])
            \o Given(newest \in lo .. hi, mm[2])

NonIncreasing(s) == \A i, j \in DOMAIN s : i < j => s[i] >= s[j]

(* What the harness may ask the provider for by itself. *)
Accepted(c, sm, mm) ==
    LET all == sm.tools \o sm.system \o MarksOver(c, mm, 1, Len(c))
    IN  Len(all) <= MarkerLimit /\ NonIncreasing(all)

(* Mutant: the policy's tier goes out as it is. *)
ClampUnfloored(ttl, downstream) == ttl

(* clamp_ttl_to_harness_floor: no five-minute breakpoint upstream of a one- *)
(* hour breakpoint of the harness.                                         *)
Clamp(ttl, downstream) ==
    IF ttl # OneHour /\ Contains(downstream, OneHour) THEN OneHour ELSE ttl

(* Mutant: one marker too many is taken to fit. *)
HasRoomOffByOne(n) == n <= MarkerLimit

(* append_kernel_orientation_to_system: marked while the limit leaves room. *)
HasRoom(n) == n < MarkerLimit

WithDefault(tier, ttl) == IF tier = 0 THEN ttl ELSE tier

Harnesses(s) == [k \in DOMAIN s |-> Harness(s[k])]

(* The rebuild keeps the chain from the newest prompt on; without history   *)
(* before it, or without a prompt, everything is forwarded.                *)
KeptFrom(c) == IF Prompts(c) # {} THEN Max(Prompts(c)) ELSE 1

WirePassthrough(c, sm, mm, tier) == Harnesses(sm.tools \o sm.system \o MarksOver(c, mm, 1, Len(c)))

WireRebuild(c, sm, mm, tier) ==
    LET inMessages == MarksOver(c, mm, 1, Len(c))
        ttl == Clamp(WithDefault(tier, OneHour), inMessages)
        orientation ==
            IF HasRoom(Len(sm.tools) + Len(sm.system) + Len(inMessages))
            THEN <<Proxy(ttl)>> ELSE <<>>
    IN  Harnesses(sm.tools \o sm.system) \o orientation
            \o Harnesses(MarksOver(c, mm, KeptFrom(c), Len(c)))

(* The mutate path: one firmware block instead of the harness's system     *)
(* blocks, and the HUD in front of the newest user message, whose own      *)
(* markers go, unless that message carries tool results.                   *)
WireMutate(c, sm, mm, tier) ==
    LET n == Max(Users(c))
        firmware == Clamp(WithDefault(tier, OneHour), MarksOver(c, mm, 1, Len(c)))
        hud == Clamp(WithDefault(tier, FiveMinutes), MarksOver(c, mm, n + 1, Len(c)))
        newest ==
            IF c[n].kind = "words" THEN <<Proxy(hud)>> ELSE Harnesses(MarksOver(c, mm, n, n))
    IN  Harnesses(sm.tools) \o <<Proxy(firmware)>>
            \o Harnesses(MarksOver(c, mm, 1, n - 1)) \o newest
            \o Harnesses(MarksOver(c, mm, n + 1, Len(c)))

Wire(c, sm, mm, tier) ==
    CASE mode = "passthrough" -> WirePassthrough(c, sm, mm, tier)
      [] mode = "rebuild"     -> WireRebuild(c, sm, mm, tier)
      [] mode = "mutate"      -> WireMutate(c, sm, mm, tier)

(* Mutant: the lane remembers the tier the policy picked. *)
RecordedLifetimeOfTier(c, mm, tier) == tier

(* The lifetime the candidate lane records: the policy's tier, or one hour *)
(* when the harness's own marker raised it.                                *)
RecordedLifetime(c, mm, tier) ==
    IF tier = 0 THEN 0 ELSE Clamp(tier, MarksOver(c, mm, 1, Len(c)))

(***************************************************************************)
(* Actions.                                                                *)
(***************************************************************************)
Grow(m) ==
    /\ Len(conv) < MaxConversation
    /\ conv' = Append(conv, m)
    /\ wire' = <<>> /\ lifetime' = 0
    /\ UNCHANGED <<mode, beat, sent, delivered>>

(* What the conversation ends with. *)
After ==
    IF conv = <<>> THEN "nothing" ELSE IF IsUser(Last(conv)) THEN "user" ELSE Last(conv).kind

(* The user speaks: after an answer, or over tool calls cut short, whose   *)
(* results the harness then puts into the same message.                    *)
Prompt(m) ==
    /\ IsPrompt(m)
    /\ m.kind = "words" => After \in {"nothing", "words"}
    /\ m.kind = "mixed" => After = "call"
    /\ Grow(m)

Result(m) ==
    /\ IsUser(m) /\ m.kind = "result"
    /\ After = "call"
    /\ Grow(m)

Answer(m) ==
    /\ ~IsUser(m)
    /\ After = "user" /\ Len(sent) = Len(conv)
    /\ Grow(m)

(* The passes of handle_anthropic_message over one request. *)
Request(sm, mm, tier, figure) ==
    /\ After = "user"
    /\ Accepted(conv, sm, mm)
    /\ beat' = 3 - beat
    /\ sent' = [i \in DOMAIN conv |-> Form(conv, i, beat, figure)]
    /\ delivered' = delivered \cup
           {i \in DOMAIN conv : Reminded(conv[i]) /\ sent'[i].text = "verbatim"}
    /\ wire' = Wire(conv, sm, mm, tier)
    /\ lifetime' = RecordedLifetime(conv, mm, tier)
    /\ UNCHANGED <<mode, conv>>

MarkersNext ==
    \/ \E m \in Messages : Prompt(m) \/ Result(m) \/ Answer(m)
    \/ \E sm \in LeadingMarks, mm \in MessageMarks, tier \in Tiers, figure \in HudFigures :
           Request(sm, mm, tier, figure)

MarkersSpec == MarkersInit /\ [][MarkersNext]_markersVars

(***************************************************************************)
(* Properties.                                                             *)
(***************************************************************************)
(* A prefix the provider has cached stays valid through the tool calls of  *)
(* a turn, but for the HUD: between two requests the bytes of a message    *)
(* both of them carry change only when the user has spoken in between (the *)
(* turn that was current loses its reminders), and only in that one        *)
(* message, although the harness rewrites every captured billing token     *)
(* with each request; or else it is mutate mode, and the message is the    *)
(* user's newest and changes in its HUD alone.                             *)
PrefixSurvivesTheTurn ==
    [][\A i \in DOMAIN sent :
           sent'[i] # sent[i] =>
               \/ /\ \E j \in Len(sent) + 1 .. Len(conv) : IsPrompt(conv[j])
                  /\ \A j \in i + 1 .. Len(sent) : ~IsPrompt(conv[j])
               \/ /\ mode = "mutate" /\ conv[i].kind = "words"
                  /\ \A j \in i + 1 .. Len(sent) : ~IsUser(conv[j])
                  /\ sent'[i] = [sent[i] EXCEPT !.hud = sent'[i].hud]]_markersVars

(* The same without the exception, which mutate mode breaks at the first   *)
(* tool call of a turn.                                                    *)
PromptSurvivesTheTurn ==
    [][\A i \in DOMAIN sent :
           sent'[i] # sent[i] =>
               \E j \in Len(sent) + 1 .. Len(conv) : IsPrompt(conv[j])]_markersVars

(* A reminder the user's prompt carries is on the wire at least once       *)
(* before it is stripped: the strip takes only what has been acted upon.   *)
PromptRemindersDelivered ==
    \A i \in DOMAIN sent : IsPrompt(conv[i]) /\ Reminded(conv[i]) => i \in delivered

(* The proxy never puts a five-minute breakpoint upstream of a one-hour    *)
(* one: the API refuses the request.                                       *)
NoShortBeforeLong ==
    \A i, j \in DOMAIN wire : i < j /\ wire[i].by = "proxy" => wire[i].ttl >= wire[j].ttl

(* What the harness sent within the limit is within it when the rebuild or *)
(* passthrough path forwards it.                                           *)
LimitKept == mode # "mutate" => Len(wire) <= MarkerLimit

(* The lane never claims a shorter life than a breakpoint of the proxy's   *)
(* own gives the prefix upstream of it: a later request would be decided   *)
(* DEAD and re-projected while the provider still holds the prefix.  One-  *)
(* hour markers of the harness on tools or system are not considered.      *)
LifetimeCoversWire ==
    lifetime # 0 /\ mode # "passthrough" =>
        \A i \in DOMAIN wire : wire[i].by = "proxy" => wire[i].ttl <= lifetime

(* What the module documentation says of the strip: what it removes has    *)
(* been acted upon.                                                        *)
EveryReminderDelivered ==
    \A i \in DOMAIN sent : Reminded(conv[i]) => i \in delivered

(* What the provider asks of the order of all markers. *)
OrderAccepted == \A i, j \in DOMAIN wire : i < j => wire[i].ttl >= wire[j].ttl
=============================================================================
