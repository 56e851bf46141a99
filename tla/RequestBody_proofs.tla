------------------------- MODULE RequestBody_proofs -------------------------
(***************************************************************************)
(* TLAPS proofs about what the passes make of a request body: the markers  *)
(* and stripped messages of WireMarkers, for every conversation, layout of *)
(* harness markers and marker limit, and the cut, repaired, stubbed and    *)
(* pruned messages of MessageReduction, for every history, cap and size.   *)
(***************************************************************************)
EXTENDS WireMarkers, MessageReduction, FiniteSetTheorems, SequenceTheorems,
        WellFoundedInduction, TLAPS

(* Every nonempty set of natural numbers has a least member.               *)
LEMMA Least ==
    ASSUME NEW S \in SUBSET Nat, S # {}
    PROVE  \E m \in S : \A x \in S : m <= x
<1>1. PICK m \in S : \A x \in S : ~(<<x, m>> \in OpToRel(<, Nat))
  BY WFMin, NatLessThanWellFounded
<1>2. ASSUME NEW x \in S PROVE m <= x
  <2>1. x < m => <<x, m>> \in OpToRel(<, Nat)
    BY DEF OpToRel
  <2>2. ~(<<x, m>> \in OpToRel(<, Nat))
    BY <1>1, Zenon
  <2>3. ~(x < m)
    BY <2>1, <2>2, Zenon
  <2>4. x \in Nat /\ m \in Nat
    OBVIOUS
  <2> QED
    BY <2>3, <2>4
<1> QED
  BY <1>2

(* The indices next to one that is not the last, or not the first.         *)
LEMMA IndexAfter ==
    ASSUME NEW n \in Nat, NEW k \in 1 .. n, k # n
    PROVE  k + 1 \in 1 .. n /\ k + 1 # 1 /\ (k + 1) - 1 = k
OBVIOUS

LEMMA IndexBefore ==
    ASSUME NEW n \in Nat, NEW k \in 1 .. n, k # 1
    PROVE  k - 1 \in 1 .. n /\ k > 1 /\ (k - 1) + 1 = k
OBVIOUS

(* Every nonempty set of indices of a sequence has a greatest one.         *)
LEMMA Greatest ==
    ASSUME NEW n \in Nat, NEW S \in SUBSET (1 .. n), S # {}
    PROVE  /\ Max(S) \in S /\ \A j \in S : j <= Max(S)
           /\ Newest(S) \in S /\ \A j \in S : j <= Newest(S)
<1> DEFINE T == {n - j : j \in S}
<1>1. T \in SUBSET Nat /\ T # {}
  <2>1. PICK j \in S : TRUE
    OBVIOUS
  <2>2. n - j \in T
    BY <2>1
  <2>3. \A x \in S : n - x \in Nat
    OBVIOUS
  <2> QED
    BY <2>2, <2>3
<1> HIDE DEF T
<1>2. PICK m \in T : \A x \in T : m <= x
  BY <1>1, Least
<1>3. PICK k \in S : m = n - k
  BY DEF T
<1>4. ASSUME NEW j \in S PROVE j <= k
  <2>1. n - j \in T
    BY DEF T
  <2>2. n - k <= n - j
    BY <1>2, <1>3, <2>1
  <2> QED
    BY <2>2
<1>5. \E x \in S : \A y \in S : x >= y
  BY <1>4
<1>6. Max(S) \in S /\ \A y \in S : Max(S) >= y
  BY <1>5 DEF Max
<1>7. Newest(S) \in S /\ \A y \in S : y <= Newest(S)
  BY <1>4 DEF Newest
<1> QED
  BY <1>6, <1>7
-----------------------------------------------------------------------------
(***************************************************************************)
(* The conversation begins with words of the user, and what it has grown   *)
(* by since the last request ends with its only user message.  The strips  *)
(* left the newest prompt of that request as it was, and no other; a HUD   *)
(* stands before its newest user message only, and in mutate mode only.    *)
(***************************************************************************)
Forms == [text : {"verbatim", "placeholder", "stripped"}, token : {0}, hud : Nat]

(* How message m reads, protected from the strip or not, after HUD h.      *)
Reads(m, protected, h) ==
    [text |-> IF protected THEN "verbatim" ELSE StrippedNote(m.note), token |-> 0, hud |-> h]

MarkersType ==
    /\ mode \in Modes
    /\ conv \in Seq(Messages)
    /\ sent \in Seq(Forms)
    /\ Len(sent) <= Len(conv)

ConversationInv ==
    /\ conv # <<>> => IsPrompt(conv[1])
    /\ \A j \in Len(sent) + 1 .. Len(conv) : IsUser(conv[j]) => j = Len(conv)

(* p is the newest prompt among the first n messages. *)
NewestPromptOf(c, n, p) ==
    /\ p \in 1 .. n /\ IsPrompt(c[p])
    /\ \A j \in p + 1 .. n : ~IsPrompt(c[j])

(* A HUD before message i of the first n. *)
HudOK(c, n, i, h) ==
    h # 0 => /\ mode = "mutate" /\ c[i].kind = "words"
             /\ \A j \in i + 1 .. n : ~IsUser(c[j])

SentInv ==
    sent # <<>> =>
        \E p \in 1 .. Len(sent) :
            /\ NewestPromptOf(conv, Len(sent), p)
            /\ \A i \in 1 .. Len(sent) :
                   /\ sent[i] = Reads(conv[i], i = p, sent[i].hud)
                   /\ HudOK(conv, Len(sent), i, sent[i].hud)

MarkersInv == MarkersType /\ ConversationInv /\ SentInv /\ PromptRemindersDelivered

LEMMA MessageFacts ==
    ASSUME NEW m \in Messages
    PROVE  /\ m.role \in {"user", "assistant"}
           /\ m.kind \in {"words", "mixed", "result", "call"}
           /\ m.note \in Notes
           /\ m.role = "assistant" => m.kind \in {"words", "call"}
           /\ m.role = "user" => m.kind \in {"words", "mixed", "result"}
           /\ StrippedNote(m.note) \in {"verbatim", "placeholder", "stripped"}
BY DEF Messages, Notes, StrippedNote

(* The step of a message that is appended: the first one is a prompt, and  *)
(* a user message is appended only where none is waiting to be sent.       *)
LEMMA GrowKeepsInv ==
    ASSUME MarkersInv, NEW m \in Messages, Grow(m),
           conv = <<>> => IsPrompt(m),
           IsUser(m) => After # "user",
           ~IsUser(m) => Len(sent) = Len(conv)
    PROVE  MarkersInv'
<1>1. /\ conv \in Seq(Messages) /\ conv' \in Seq(Messages)
      /\ Len(conv') = Len(conv) + 1 /\ conv'[Len(conv) + 1] = m
      /\ \A i \in 1 .. Len(conv) : conv'[i] = conv[i]
  BY DEF MarkersInv, MarkersType, Grow
<1>2. /\ sent \in Seq(Forms) /\ Len(sent) \in Nat /\ Len(conv) \in Nat
      /\ Len(sent) <= Len(conv) /\ sent' = sent /\ mode' = mode /\ delivered' = delivered
  BY DEF MarkersInv, MarkersType, Grow
<1>3. MarkersType'
  BY <1>1, <1>2 DEF MarkersInv, MarkersType
<1>4. ConversationInv'
  <2>1. IsPrompt(conv'[1])
    BY <1>1 DEF MarkersInv, ConversationInv
  <2>2. ASSUME NEW j \in Len(sent) + 1 .. Len(conv), IsUser(conv[j]) PROVE FALSE
    <3>1. j = Len(conv)
      BY <2>2 DEF MarkersInv, ConversationInv
    <3>2. conv # <<>> /\ IsUser(Last(conv))
      BY <1>2, <2>2, <3>1 DEF Last
    <3>3. After = "user"
      BY <3>2 DEF After
    <3>4. Len(sent) = Len(conv)
      BY <3>3
    <3> QED
      BY <1>2, <3>4
  <2>3. ASSUME NEW j \in Len(sent) + 1 .. Len(conv'), IsUser(conv'[j]) PROVE j = Len(conv')
    BY <1>1, <1>2, <2>2, <2>3
  <2> QED
    BY <1>2, <2>1, <2>3 DEF ConversationInv
<1>5. SentInv'
  <2>1. \A i \in 1 .. Len(sent) : conv'[i] = conv[i]
    BY <1>1, <1>2
  <2>2. SUFFICES ASSUME sent # <<>> PROVE SentInv'
    BY <1>2 DEF SentInv
  <2>3. PICK p \in 1 .. Len(sent) :
            /\ NewestPromptOf(conv, Len(sent), p)
            /\ \A i \in 1 .. Len(sent) :
                   /\ sent[i] = Reads(conv[i], i = p, sent[i].hud)
                   /\ HudOK(conv, Len(sent), i, sent[i].hud)
    BY <2>2 DEF MarkersInv, SentInv
  <2>4. NewestPromptOf(conv', Len(sent), p)
    BY <1>2, <2>1, <2>3 DEF NewestPromptOf
  <2>5. ASSUME NEW i \in 1 .. Len(sent)
        PROVE  /\ sent[i] = Reads(conv'[i], i = p, sent[i].hud)
               /\ HudOK(conv, Len(sent), i, sent[i].hud)'
    BY <1>2, <2>1, <2>3 DEF HudOK
  <2> QED
    BY <1>2, <2>3, <2>4, <2>5 DEF SentInv, HudOK
<1>6. PromptRemindersDelivered'
  <2>1. \A i \in DOMAIN sent : conv'[i] = conv[i]
    BY <1>1, <1>2
  <2> QED
    BY <1>2, <2>1 DEF MarkersInv, PromptRemindersDelivered
<1> QED
  BY <1>3, <1>4, <1>5, <1>6 DEF MarkersInv

(* In a conversation that begins with a prompt, what the strip protects is *)
(* its newest prompt.                                                      *)
LEMMA ProtectedIsNewestPrompt ==
    ASSUME NEW c \in Seq(Messages), c # <<>>, IsPrompt(c[1])
    PROVE  NewestPromptOf(c, Len(c), Protected(c))
<1>1. Prompts(c) \in SUBSET (1 .. Len(c)) /\ Prompts(c) # {} /\ Len(c) \in Nat
  <2>1. 1 \in DOMAIN c /\ DOMAIN c = 1 .. Len(c) /\ Len(c) \in Nat
    OBVIOUS
  <2> QED
    BY <2>1 DEF Prompts
<1>2. Max(Prompts(c)) \in Prompts(c) /\ \A j \in Prompts(c) : j <= Max(Prompts(c))
  BY <1>1, Greatest
<1>3. Protected(c) = Max(Prompts(c))
  BY <1>1 DEF Protected
<1>4. ASSUME NEW j \in Protected(c) + 1 .. Len(c), IsPrompt(c[j]) PROVE FALSE
  <2>1. j \in Prompts(c)
    BY <1>1, <1>2, <1>3 , <1>4 DEF Prompts
  <2> QED
    BY <1>1, <1>2, <1>3, <2>1
<1> QED
  BY <1>1, <1>2, <1>3, <1>4 DEF NewestPromptOf, Prompts

LEMMA RequestSends ==
    ASSUME MarkersInv, NEW sm, NEW mm, NEW tier, NEW figure \in HudFigures,
           Request(sm, mm, tier, figure)
    PROVE  /\ conv # <<>> /\ conv' = conv /\ mode' = mode
           /\ sent' \in Seq(Forms) /\ Len(sent') = Len(conv)
           /\ NewestPromptOf(conv, Len(conv), Protected(conv))
           /\ \A i \in 1 .. Len(conv) :
                  /\ sent'[i] = Reads(conv[i], i = Protected(conv), sent'[i].hud)
                  /\ HudOK(conv, Len(conv), i, sent'[i].hud)
<1>1. conv # <<>>
  BY DEF Request, After
<1>2. conv \in Seq(Messages) /\ IsPrompt(conv[1])
  BY <1>1 DEF MarkersInv, MarkersType, ConversationInv
<1>3. NewestPromptOf(conv, Len(conv), Protected(conv))
  BY <1>1, <1>2, ProtectedIsNewestPrompt
<1>4. sent' = [i \in 1 .. Len(conv) |->
                   Reads(conv[i], i = Protected(conv), HudBefore(conv, i, figure))]
  BY <1>2 DEF Request, Form, TokenLeft, Reads
<1>5. \A i \in 1 .. Len(conv) : /\ StrippedNote(conv[i].note) \in {"verbatim", "placeholder", "stripped"}
                                /\ HudBefore(conv, i, figure) \in Nat
  BY <1>2, MessageFacts, MarkersAssumption DEF HudBefore
<1>6. sent' \in Seq(Forms) /\ Len(sent') = Len(conv)
  BY <1>2, <1>4, <1>5 DEF Forms, Reads
<1>7. \A i \in 1 .. Len(conv) :
          /\ sent'[i] = Reads(conv[i], i = Protected(conv), sent'[i].hud)
          /\ sent'[i].hud = HudBefore(conv, i, figure)
  BY <1>4 DEF Reads
<1>8. ASSUME NEW i \in 1 .. Len(conv) PROVE HudOK(conv, Len(conv), i, HudBefore(conv, i, figure))
  <2>1. Users(conv) \in SUBSET (1 .. Len(conv)) /\ Users(conv) # {} /\ Len(conv) \in Nat
    <3>1. 1 \in DOMAIN conv /\ DOMAIN conv = 1 .. Len(conv) /\ Len(conv) \in Nat
      BY <1>1, <1>2
    <3> QED
      BY <1>2, <3>1 DEF Users, IsPrompt
  <2>2. \A j \in Users(conv) : j <= Max(Users(conv))
    BY <2>1, Greatest
  <2>3. ASSUME i = Max(Users(conv)), NEW j \in i + 1 .. Len(conv) PROVE ~IsUser(conv[j])
    <3>1. j \in DOMAIN conv /\ ~(j <= i)
      BY <1>2, <2>3
    <3> QED
      BY <2>2, <2>3, <3>1 DEF Users
  <2> QED
    BY <2>3 DEF HudOK, HudBefore
<1> QED
  BY <1>1, <1>3, <1>6, <1>7, <1>8 DEF Request

LEMMA RequestKeepsInv ==
    ASSUME MarkersInv, NEW sm, NEW mm, NEW tier, NEW figure \in HudFigures,
           Request(sm, mm, tier, figure)
    PROVE  MarkersInv'
<1> DEFINE p == Protected(conv)
<1>1. /\ conv # <<>> /\ conv' = conv /\ mode' = mode
      /\ sent' \in Seq(Forms) /\ Len(sent') = Len(conv)
      /\ NewestPromptOf(conv, Len(conv), p)
      /\ \A i \in 1 .. Len(conv) : /\ sent'[i] = Reads(conv[i], i = p, sent'[i].hud)
                                   /\ HudOK(conv, Len(conv), i, sent'[i].hud)
  BY RequestSends
<1>2. /\ conv \in Seq(Messages) /\ Len(conv) \in Nat
      /\ sent \in Seq(Forms) /\ Len(sent) \in Nat /\ Len(sent) <= Len(conv)
  BY DEF MarkersInv, MarkersType
<1> HIDE DEF p
<1>3. MarkersType'
  BY <1>1, <1>2 DEF MarkersInv, MarkersType
<1>4. ConversationInv'
  BY <1>1, <1>2 DEF MarkersInv, ConversationInv
<1>5. SentInv'
  <2>1. p \in 1 .. Len(sent') /\ NewestPromptOf(conv', Len(sent'), p)
    BY <1>1 DEF NewestPromptOf
  <2> QED
    BY <1>1, <2>1 DEF SentInv, HudOK
<1>6. ASSUME NEW i \in DOMAIN sent', IsPrompt(conv[i]), Reminded(conv[i])
      PROVE  i \in delivered'
  <2>1. i \in 1 .. Len(conv) /\ DOMAIN conv = 1 .. Len(conv)
    BY <1>1, <1>2
  <2>2. delivered \subseteq delivered'
    BY DEF Request
  <2>3. CASE i <= Len(sent)
    <3>1. i \in delivered
      BY <1>2, <1>6, <2>1, <2>3 DEF MarkersInv, PromptRemindersDelivered
    <3> QED
      BY <2>2, <3>1
  <2>4. CASE i > Len(sent)
    <3>1. i = Len(conv)
      <4>1. IsUser(conv[i]) /\ i \in Len(sent) + 1 .. Len(conv)
        BY <1>2, <1>6, <2>1, <2>4 DEF IsPrompt
      <4> QED
        BY <4>1 DEF MarkersInv, ConversationInv
    <3>2. p = i
      BY <1>1, <1>2, <1>6, <2>1, <3>1 DEF NewestPromptOf
    <3>3. sent'[i].text = "verbatim"
      <4>1. sent'[i] = Reads(conv[i], i = p, sent'[i].hud)
        BY <1>1, <2>1
      <4> QED
        BY <3>2, <4>1 DEF Reads
    <3> QED
      BY <1>6, <2>1, <3>3 DEF Request
  <2> QED
    BY <1>2, <2>1, <2>3, <2>4
<1>7. PromptRemindersDelivered'
  BY <1>1, <1>6 DEF PromptRemindersDelivered
<1> QED
  BY <1>3, <1>4, <1>5, <1>7 DEF MarkersInv

LEMMA MarkersInitInv == MarkersInit => MarkersInv
BY DEF MarkersInit, MarkersInv, MarkersType, ConversationInv, SentInv,
       PromptRemindersDelivered, Forms

LEMMA MarkersStep == MarkersInv /\ [MarkersNext]_markersVars => MarkersInv'
<1> SUFFICES ASSUME MarkersInv, [MarkersNext]_markersVars PROVE MarkersInv'
  OBVIOUS
<1>1. ASSUME NEW m \in Messages, Prompt(m) PROVE MarkersInv'
  <2>1. m.kind = "words" \/ m.kind = "mixed"
    BY <1>1, MessageFacts DEF Prompt, IsPrompt, IsUser
  <2>2. After # "user" /\ IsUser(m) /\ IsPrompt(m) /\ Grow(m)
    BY <1>1, <2>1 DEF Prompt, IsPrompt
  <2> QED
    BY <2>2, GrowKeepsInv
<1>2. ASSUME NEW m \in Messages, Result(m) PROVE MarkersInv'
  <2>1. conv # <<>> /\ After # "user" /\ IsUser(m) /\ Grow(m)
    BY <1>2 DEF Result, After
  <2> QED
    BY <2>1, GrowKeepsInv
<1>3. ASSUME NEW m \in Messages, Answer(m) PROVE MarkersInv'
  <2>1. conv # <<>> /\ Len(sent) = Len(conv) /\ ~IsUser(m) /\ Grow(m)
    BY <1>3 DEF Answer, After
  <2> QED
    BY <2>1, GrowKeepsInv
<1>4. ASSUME NEW sm \in LeadingMarks, NEW mm \in MessageMarks, NEW tier \in Tiers,
             NEW figure \in HudFigures, Request(sm, mm, tier, figure)
      PROVE  MarkersInv'
  BY <1>4, RequestKeepsInv
<1>5. CASE UNCHANGED markersVars
  BY <1>5 DEF markersVars, MarkersInv, MarkersType, ConversationInv, SentInv,
              NewestPromptOf, HudOK, PromptRemindersDelivered
<1> QED
  BY <1>1, <1>2, <1>3, <1>4, <1>5 DEF MarkersNext

(* In every reachable state the newest prompt of the last request is on    *)
(* the wire as it was (strip_scaffolding and protected_current_user_idx).  *)
THEOREM MarkersInvariant == MarkersSpec => []MarkersInv
BY MarkersInitInv, MarkersStep, PTL DEF MarkersSpec

(* Whatever the conversation, a reminder in a prompt of the user is on the *)
(* wire before protected_current_user_idx lets the strip take it.          *)
THEOREM RemindersDelivered == MarkersSpec => []PromptRemindersDelivered
BY MarkersInvariant, PTL DEF MarkersInv

(* Between two requests of a turn no byte of the messages both carry       *)
(* changes: only the prompt that the user has answered since is stripped,  *)
(* and in mutate mode the newest user message changes its HUD.             *)
THEOREM PrefixStable == MarkersSpec => PrefixSurvivesTheTurn
<1> DEFINE Spoken(i) ==
               /\ \E j \in Len(sent) + 1 .. Len(conv) : IsPrompt(conv[j])
               /\ \A j \in i + 1 .. Len(sent) : ~IsPrompt(conv[j])
           HudMoved(i) ==
               /\ mode = "mutate" /\ conv[i].kind = "words"
               /\ \A j \in i + 1 .. Len(sent) : ~IsUser(conv[j])
               /\ sent'[i] = [sent[i] EXCEPT !.hud = sent'[i].hud]
           Stable ==
               \A i \in DOMAIN sent :
                   sent'[i] # sent[i] =>
                       \/ /\ \E j \in Len(sent) + 1 .. Len(conv) : IsPrompt(conv[j])
                          /\ \A j \in i + 1 .. Len(sent) : ~IsPrompt(conv[j])
                       \/ /\ mode = "mutate" /\ conv[i].kind = "words"
                          /\ \A j \in i + 1 .. Len(sent) : ~IsUser(conv[j])
                          /\ sent'[i] = [sent[i] EXCEPT !.hud = sent'[i].hud]
<1>1. MarkersInv /\ [MarkersNext]_markersVars => [Stable]_markersVars
  <2> SUFFICES ASSUME MarkersInv, [MarkersNext]_markersVars, NEW i \in DOMAIN sent,
                      sent'[i] # sent[i]
               PROVE  Spoken(i) \/ HudMoved(i)
    BY DEF markersVars
  <2>1. PICK sm \in LeadingMarks, mm \in MessageMarks, tier \in Tiers, figure \in HudFigures :
             Request(sm, mm, tier, figure)
    BY DEF MarkersNext, Prompt, Result, Answer, Grow, markersVars
  <2>2. /\ NewestPromptOf(conv, Len(conv), Protected(conv))
        /\ \A k \in 1 .. Len(conv) :
               /\ sent'[k] = Reads(conv[k], k = Protected(conv), sent'[k].hud)
               /\ HudOK(conv, Len(conv), k, sent'[k].hud)
    BY <2>1, RequestSends
  <2>3. /\ Len(sent) \in Nat /\ Len(conv) \in Nat /\ Len(sent) <= Len(conv)
        /\ i \in 1 .. Len(sent) /\ i \in 1 .. Len(conv) /\ sent # <<>>
    BY DEF MarkersInv, MarkersType
  <2>4. PICK p \in 1 .. Len(sent) :
            /\ NewestPromptOf(conv, Len(sent), p)
            /\ \A k \in 1 .. Len(sent) :
                   /\ sent[k] = Reads(conv[k], k = p, sent[k].hud)
                   /\ HudOK(conv, Len(sent), k, sent[k].hud)
    BY <2>3 DEF MarkersInv, SentInv
  <2>5. /\ sent[i] = Reads(conv[i], i = p, sent[i].hud)
        /\ sent'[i] = Reads(conv[i], i = Protected(conv), sent'[i].hud)
    BY <2>2, <2>3, <2>4
  <2>6. CASE (i = p) = (i = Protected(conv))
    <3>1. PICK h : h = sent[i].hud
      OBVIOUS
    <3>2. PICK g : g = sent'[i].hud
      OBVIOUS
    <3>3. sent[i] = Reads(conv[i], i = p, h) /\ sent'[i] = Reads(conv[i], i = p, g)
      BY <2>5, <2>6, <3>1, <3>2
    <3>4. h # g /\ sent'[i] = [sent[i] EXCEPT !.hud = g]
      BY <3>3 DEF Reads
    <3>5. HudOK(conv, Len(sent), i, h) /\ HudOK(conv, Len(conv), i, g)
      BY <2>2, <2>3, <2>4, <3>1, <3>2
    <3>6. /\ mode = "mutate" /\ conv[i].kind = "words"
          /\ \A j \in i + 1 .. Len(sent) : ~IsUser(conv[j])
      <4>1. CASE h # 0
        BY <3>5, <4>1 DEF HudOK
      <4>2. CASE g # 0
        BY <2>3, <3>5, <4>2 DEF HudOK
      <4> QED
        BY <3>4, <4>1, <4>2
    <3> QED
      BY <3>2, <3>4, <3>6
  <2>7. CASE (i = p) # (i = Protected(conv))
    <3>1. Protected(conv) \in Len(sent) + 1 .. Len(conv) /\ IsPrompt(conv[Protected(conv)])
      BY <2>2, <2>3, <2>4, <2>7 DEF NewestPromptOf
    <3>2. i = p
      BY <2>3, <2>7, <3>1
    <3> QED
      BY <2>4, <3>1, <3>2 DEF NewestPromptOf
  <2> QED
    BY <2>6, <2>7
<1> QED
  BY <1>1, MarkersInvariant, PTL DEF MarkersSpec, PrefixSurvivesTheTurn
-----------------------------------------------------------------------------
(***************************************************************************)
(* The markers of one request.                                             *)
(***************************************************************************)
Lifetimes == {FiveMinutes, OneHour}
Markers == [by : {"harness", "proxy"}, ttl : Lifetimes]

(* No marker of the proxy is before a longer-lived one. *)
Ordered(w) ==
    \A i, j \in 1 .. Len(w) : i < j /\ w[i].by = "proxy" => w[i].ttl >= w[j].ttl

(* Nor is one of A before a longer-lived one of B. *)
Above(A, B) ==
    \A i \in 1 .. Len(A), j \in 1 .. Len(B) : A[i].by = "proxy" => A[i].ttl >= B[j].ttl

(* A lane that lives so long covers what the proxy has marked. *)
Covered(w, ttl) == \A i \in 1 .. Len(w) : w[i].by = "proxy" => w[i].ttl <= ttl

LEMMA Joined ==
    ASSUME NEW T, NEW A \in Seq(T), NEW B \in Seq(T)
    PROVE  /\ A \o B \in Seq(T) /\ Len(A \o B) = Len(A) + Len(B)
           /\ Len(A) \in Nat /\ Len(B) \in Nat
           /\ \A i \in 1 .. Len(A) : (A \o B)[i] = A[i]
           /\ \A i \in 1 .. Len(B) : (A \o B)[Len(A) + i] = B[i]
           /\ \A i \in Len(A) + 1 .. Len(A \o B) : (A \o B)[i] = B[i - Len(A)]
OBVIOUS

LEMMA OrderedJoin ==
    ASSUME NEW A \in Seq(Markers), NEW B \in Seq(Markers), Ordered(A), Ordered(B),
           Above(A, B)
    PROVE  A \o B \in Seq(Markers) /\ Ordered(A \o B)
<1> DEFINE w == A \o B
<1>1. /\ w \in Seq(Markers) /\ Len(w) = Len(A) + Len(B)
      /\ Len(A) \in Nat /\ Len(B) \in Nat
      /\ \A i \in 1 .. Len(A) : w[i] = A[i]
      /\ \A i \in Len(A) + 1 .. Len(w) : w[i] = B[i - Len(A)]
  OBVIOUS
<1> HIDE DEF w
<1>2. ASSUME NEW i \in 1 .. Len(w), NEW j \in 1 .. Len(w), i < j, w[i].by = "proxy"
      PROVE  w[i].ttl >= w[j].ttl
  <2>1. CASE j <= Len(A)
    BY <1>1, <1>2, <2>1 DEF Ordered
  <2>2. CASE i <= Len(A) /\ j > Len(A)
    <3>1. w[i] = A[i] /\ w[j] = B[j - Len(A)] /\ j - Len(A) \in 1 .. Len(B) /\ i \in 1 .. Len(A)
      BY <1>1, <2>2
    <3> QED
      BY <1>2, <3>1 DEF Above
  <2>3. CASE i > Len(A)
    <3>1. /\ w[i] = B[i - Len(A)] /\ w[j] = B[j - Len(A)]
          /\ i - Len(A) \in 1 .. Len(B) /\ j - Len(A) \in 1 .. Len(B)
          /\ i - Len(A) < j - Len(A)
      <4>1. i \in Len(A) + 1 .. Len(w) /\ j \in Len(A) + 1 .. Len(w) /\ i < j
        BY <1>1, <1>2, <2>3
      <4>2. w[i] = B[i - Len(A)] /\ w[j] = B[j - Len(A)]
        BY <1>1, <4>1
      <4> QED
        BY <1>1, <4>1, <4>2
    <3> QED
      BY <1>2, <3>1 DEF Ordered
  <2> QED
    BY <1>1, <2>1, <2>2, <2>3
<1>3. Ordered(w)
  BY <1>2 DEF Ordered
<1> QED
  BY <1>1, <1>3 DEF w

LEMMA HarnessesAreOrdered ==
    ASSUME NEW s \in Seq(Lifetimes)
    PROVE  /\ Harnesses(s) \in Seq(Markers) /\ Len(Harnesses(s)) = Len(s)
           /\ \A i \in 1 .. Len(s) : Harnesses(s)[i] = Harness(s[i])
           /\ Ordered(Harnesses(s))
<1>1. /\ Harnesses(s) = [k \in 1 .. Len(s) |-> Harness(s[k])]
      /\ \A k \in 1 .. Len(s) : Harness(s[k]) \in Markers
  BY DEF Harnesses, Harness, Markers
<1>2. /\ Harnesses(s) \in Seq(Markers) /\ Len(Harnesses(s)) = Len(s)
      /\ \A i \in 1 .. Len(s) : Harnesses(s)[i] = Harness(s[i])
  BY <1>1
<1>3. ASSUME NEW i \in 1 .. Len(s) PROVE Harnesses(s)[i].by # "proxy"
  <2>1. Harnesses(s)[i] = [by |-> "harness", ttl |-> s[i]]
    BY <1>2 DEF Harness
  <2> QED
    BY <2>1
<1> QED
  BY <1>2, <1>3 DEF Ordered

LEMMA ProxyIsOrdered ==
    ASSUME NEW ttl \in Lifetimes
    PROVE  /\ <<Proxy(ttl)>> \in Seq(Markers) /\ Len(<<Proxy(ttl)>>) = 1
           /\ <<Proxy(ttl)>>[1] = Proxy(ttl)
           /\ Ordered(<<Proxy(ttl)>>)
BY DEF Proxy, Markers, Ordered

LEMMA GivenFacts ==
    ASSUME NEW b \in BOOLEAN, NEW t \in {0} \cup Lifetimes
    PROVE  /\ Given(b, t) \in Seq(Lifetimes)
           /\ b /\ t # 0 => Len(Given(b, t)) = 1 /\ Given(b, t)[1] = t
           /\ ~b \/ t = 0 => Len(Given(b, t)) = 0
           /\ Len(Given(b, t)) \in 0 .. 1
<1>1. CASE b /\ t # 0
  <2>1. Given(b, t) = <<t>> /\ t \in Lifetimes
    BY <1>1 DEF Given
  <2>2. <<t>> \in Seq(Lifetimes) /\ Len(<<t>>) = 1 /\ <<t>>[1] = t
    BY <2>1
  <2>3. Len(<<t>>) \in 0 .. 1
    BY <2>2
  <2> QED
    BY <1>1, <2>1, <2>2, <2>3, Zenon
<1>2. CASE ~(b /\ t # 0)
  <2>1. Given(b, t) = <<>>
    BY <1>2 DEF Given
  <2> QED
    BY <1>2, <2>1
<1> QED
  BY <1>1, <1>2

IsPart(part, whole) ==
    /\ part \in Seq(Lifetimes) /\ whole \in Seq(Lifetimes)
    /\ Len(part) <= Len(whole)
    /\ \A k \in 1 .. Len(part) : \E l \in 1 .. Len(whole) : part[k] = whole[l]

LEMMA OneOfTwo ==
    ASSUME NEW a \in {0, 1}, NEW b \in {0, 1}, NEW k \in 1 .. a + b
    PROVE  (a = 1 /\ k = 1) \/ (b = 1 /\ k = a + 1)
OBVIOUS

(* What a part of the conversation carries, the whole of it carries too.   *)
LEMMA PartOfTheMarks ==
    ASSUME NEW c, Len(c) \in Nat, Users(c) \in SUBSET (1 .. Len(c)),
           Users(c) # {}, NEW mm \in MessageMarks,
           NEW lo \in Nat \ {0}, NEW hi \in Nat, hi <= Len(c)
    PROVE  IsPart(MarksOver(c, mm, lo, hi), MarksOver(c, mm, 1, Len(c)))
<1> DEFINE newest == Newest(Users(c))
           older == Users(c) \ {newest}
           b1 == older # {} /\ Newest(older) \in lo .. hi
           b2 == newest \in lo .. hi
           w1 == older # {} /\ Newest(older) \in 1 .. Len(c)
           w2 == newest \in 1 .. Len(c)
<1>1. mm[1] \in {0} \cup Lifetimes /\ mm[2] \in {0} \cup Lifetimes
  BY MarkersAssumption DEF Lifetimes
<1>2. newest \in Users(c)
  BY Greatest
<1>3. older # {} => Newest(older) \in older
  BY Greatest
<1>4. w2 /\ (b1 => w1) /\ (b2 => w2)
  BY <1>2, <1>3
<1>5. /\ MarksOver(c, mm, lo, hi) = Given(b1, mm[1]) \o Given(b2, mm[2])
      /\ MarksOver(c, mm, 1, Len(c)) = Given(w1, mm[1]) \o Given(w2, mm[2])
  BY DEF MarksOver
<1> HIDE DEF newest, older, b1, b2, w1, w2
<1>6. b1 \in BOOLEAN /\ b2 \in BOOLEAN /\ w1 \in BOOLEAN /\ w2 \in BOOLEAN
  BY DEF b1, b2, w1, w2
<1> DEFINE p1 == Given(b1, mm[1])
           p2 == Given(b2, mm[2])
           q1 == Given(w1, mm[1])
           q2 == Given(w2, mm[2])
<1>7. /\ p1 \in Seq(Lifetimes) /\ p2 \in Seq(Lifetimes)
      /\ q1 \in Seq(Lifetimes) /\ q2 \in Seq(Lifetimes)
  BY <1>1, <1>6, GivenFacts
<1>8. (Len(p1) = 0 \/ Len(p1) = 1) /\ (Len(p2) = 0 \/ Len(p2) = 1)
  <2>1. Len(p1) \in 0 .. 1 /\ Len(p2) \in 0 .. 1
    BY <1>1, <1>6, GivenFacts
  <2> QED
    BY <2>1
<1>9. ASSUME Len(p1) = 1 PROVE Len(q1) = 1 /\ q1[1] = p1[1]
  <2>1. ~b1 \/ mm[1] = 0 => Len(p1) = 0
    BY <1>1, <1>6, GivenFacts, Zenon
  <2>2. b1 /\ mm[1] # 0
    BY <1>9, <2>1
  <2> QED
    BY <1>1, <1>4, <1>6, <2>2, GivenFacts
<1>10. ASSUME Len(p2) = 1 PROVE Len(q2) = 1 /\ q2[1] = p2[1]
  <2>1. ~b2 \/ mm[2] = 0 => Len(p2) = 0
    BY <1>1, <1>6, GivenFacts, Zenon
  <2>2. b2 /\ mm[2] # 0
    BY <1>10, <2>1
  <2> QED
    BY <1>1, <1>4, <1>6, <2>2, GivenFacts
<1> HIDE DEF p1, p2, q1, q2
<1>11. /\ Len(p1 \o p2) = Len(p1) + Len(p2) /\ Len(q1 \o q2) = Len(q1) + Len(q2)
       /\ Len(q1) \in Nat /\ Len(q2) \in Nat
       /\ p1 \o p2 \in Seq(Lifetimes) /\ q1 \o q2 \in Seq(Lifetimes)
  BY <1>7, Joined
<1>12. ASSUME NEW k \in 1 .. Len(p1 \o p2)
       PROVE  \E l \in 1 .. Len(q1 \o q2) : (p1 \o p2)[k] = (q1 \o q2)[l]
  <2>1. CASE Len(p1) = 1 /\ k = 1
    <3>1. 1 \in 1 .. Len(p1) /\ 1 \in 1 .. Len(q1) /\ 1 \in 1 .. Len(q1 \o q2)
      BY <1>9, <1>11, <2>1
    <3>2. (p1 \o p2)[1] = p1[1] /\ (q1 \o q2)[1] = q1[1]
      BY <1>7, <3>1, Joined
    <3> QED
      BY <1>9, <2>1, <3>1, <3>2
  <2>2. CASE Len(p2) = 1 /\ k = Len(p1) + 1
    <3>1. 1 \in 1 .. Len(p2) /\ 1 \in 1 .. Len(q2) /\ Len(q1) + 1 \in 1 .. Len(q1 \o q2)
      BY <1>10, <1>11, <2>2
    <3>2. (p1 \o p2)[Len(p1) + 1] = p2[1] /\ (q1 \o q2)[Len(q1) + 1] = q2[1]
      BY <1>7, <3>1, Joined
    <3> QED
      BY <1>10, <2>2, <3>1, <3>2
  <2>3. /\ k \in Int /\ 1 <= k /\ k <= Len(p1) + Len(p2)
    BY <1>7, <1>11
  <2>4. Len(p1) \in {0, 1} /\ Len(p2) \in {0, 1} /\ k \in 1 .. Len(p1) + Len(p2)
    BY <1>8, <2>3
  <2>5. (Len(p1) = 1 /\ k = 1) \/ (Len(p2) = 1 /\ k = Len(p1) + 1)
    BY <2>4, OneOfTwo, Zenon
  <2> QED
    BY <2>1, <2>2, <2>5
<1>13. Len(p1 \o p2) <= Len(q1 \o q2)
  BY <1>8, <1>9, <1>10, <1>11
<1>14. MarksOver(c, mm, lo, hi) = p1 \o p2 /\ MarksOver(c, mm, 1, Len(c)) = q1 \o q2
  BY <1>5 DEF p1, p2, q1, q2
<1> QED
  BY <1>11, <1>12, <1>13, <1>14 DEF IsPart

LEMMA JoinFacts ==
    ASSUME NEW A \in Seq(Markers), NEW B \in Seq(Markers)
    PROVE  /\ \A C : Above(A, C) /\ Above(B, C) => Above(A \o B, C)
           /\ \A ttl : Covered(A, ttl) /\ Covered(B, ttl) => Covered(A \o B, ttl)
<1> DEFINE w == A \o B
<1>1. /\ \A i \in 1 .. Len(A) : w[i] = A[i]
      /\ \A i \in Len(A) + 1 .. Len(w) : w[i] = B[i - Len(A)]
      /\ Len(w) = Len(A) + Len(B) /\ Len(A) \in Nat /\ Len(B) \in Nat
  BY Joined
<1> HIDE DEF w
<1>2. ASSUME NEW i \in 1 .. Len(w)
      PROVE  \/ i \in 1 .. Len(A) /\ w[i] = A[i]
             \/ i - Len(A) \in 1 .. Len(B) /\ w[i] = B[i - Len(A)]
  BY <1>1
<1>3. ASSUME NEW C, Above(A, C), Above(B, C) PROVE Above(w, C)
  BY <1>2, <1>3 DEF Above
<1>4. ASSUME NEW ttl, Covered(A, ttl), Covered(B, ttl) PROVE Covered(w, ttl)
  BY <1>2, <1>4 DEF Covered
<1> QED
  BY <1>3, <1>4 DEF w

LEMMA HarnessesFacts ==
    ASSUME NEW s \in Seq(Lifetimes)
    PROVE  /\ \A C : Above(Harnesses(s), C)
           /\ \A ttl : Covered(Harnesses(s), ttl)
<1>1. ASSUME NEW i \in 1 .. Len(Harnesses(s)) PROVE Harnesses(s)[i].by # "proxy"
  <2>1. Harnesses(s)[i] = [by |-> "harness", ttl |-> s[i]]
    BY HarnessesAreOrdered DEF Harness
  <2> QED
    BY <2>1
<1> QED
  BY <1>1 DEF Above, Covered

LEMMA ProxyFacts ==
    ASSUME NEW ttl \in Lifetimes
    PROVE  /\ \A s \in Seq(Lifetimes) :
                  (\A k \in 1 .. Len(s) : s[k] <= ttl) => Above(<<Proxy(ttl)>>, Harnesses(s))
           /\ \A u \in Lifetimes : u <= ttl => Above(<<Proxy(ttl)>>, <<Proxy(u)>>)
           /\ \A u \in Lifetimes : ttl <= u => Covered(<<Proxy(ttl)>>, u)
<1>1. Len(<<Proxy(ttl)>>) = 1 /\ <<Proxy(ttl)>>[1].ttl = ttl /\ ttl \in Nat
  BY DEF Proxy, Lifetimes, FiveMinutes, OneHour
<1>2. ASSUME NEW s \in Seq(Lifetimes), \A k \in 1 .. Len(s) : s[k] <= ttl
      PROVE  Above(<<Proxy(ttl)>>, Harnesses(s))
  <2>1. ASSUME NEW j \in 1 .. Len(Harnesses(s)) PROVE ttl >= Harnesses(s)[j].ttl
    <3>1. Harnesses(s)[j] = [by |-> "harness", ttl |-> s[j]] /\ j \in 1 .. Len(s)
      BY HarnessesAreOrdered DEF Harness
    <3>2. s[j] \in Nat /\ s[j] <= ttl
      BY <1>2, <3>1 DEF Lifetimes, FiveMinutes, OneHour
    <3> QED
      BY <1>1, <3>1, <3>2
  <2> QED
    BY <1>1, <2>1 DEF Above
<1>3. ASSUME NEW u \in Lifetimes, u <= ttl PROVE Above(<<Proxy(ttl)>>, <<Proxy(u)>>)
  BY <1>1, <1>3 DEF Above, Proxy, Lifetimes, FiveMinutes, OneHour
<1>4. ASSUME NEW u \in Lifetimes, ttl <= u PROVE Covered(<<Proxy(ttl)>>, u)
  BY <1>1, <1>4 DEF Covered, Proxy
<1> QED
  BY <1>2, <1>3, <1>4

(* clamp_ttl_to_harness_floor never gives less than the policy's lifetime  *)
(* nor than that of any marker downstream.                                 *)
LEMMA ClampFacts ==
    ASSUME NEW ttl \in Lifetimes, NEW s \in Seq(Lifetimes)
    PROVE  /\ Clamp(ttl, s) \in Lifetimes /\ ttl <= Clamp(ttl, s)
           /\ \A k \in 1 .. Len(s) : s[k] <= Clamp(ttl, s)
<1>1. CASE ttl # OneHour /\ Contains(s, OneHour)
  <2>1. Clamp(ttl, s) = OneHour
    BY <1>1 DEF Clamp
  <2>2. ASSUME NEW k \in 1 .. Len(s) PROVE s[k] <= OneHour
    BY DEF Lifetimes, FiveMinutes, OneHour
  <2> QED
    BY <2>1, <2>2 DEF Lifetimes, FiveMinutes, OneHour
<1>2. CASE ttl = OneHour
  <2>1. Clamp(ttl, s) = OneHour
    BY <1>2 DEF Clamp
  <2>2. ASSUME NEW k \in 1 .. Len(s) PROVE s[k] <= OneHour
    BY DEF Lifetimes, FiveMinutes, OneHour
  <2> QED
    BY <1>2, <2>1, <2>2 DEF Lifetimes, FiveMinutes, OneHour
<1>3. CASE ttl # OneHour /\ ~Contains(s, OneHour)
  <2>1. Clamp(ttl, s) = ttl
    BY <1>3 DEF Clamp
  <2>2. ASSUME NEW k \in 1 .. Len(s) PROVE s[k] = FiveMinutes
    BY <1>3 DEF Contains, Lifetimes
  <2> QED
    BY <2>1, <2>2 DEF Lifetimes, FiveMinutes, OneHour
<1> QED
  BY <1>1, <1>2, <1>3

(* What a request of the harness gives the passes. *)
Forwardable(c, sm, mm, tier) ==
    /\ Len(c) \in Nat /\ Users(c) \in SUBSET (1 .. Len(c)) /\ Len(c) \in Users(c)
    /\ Prompts(c) \in SUBSET (1 .. Len(c)) /\ Prompts(c) # {}
    /\ sm \in LeadingMarks /\ mm \in MessageMarks /\ tier \in Tiers
    /\ Accepted(c, sm, mm)

LEMMA RequestIsForwardable ==
    ASSUME MarkersInv, NEW sm \in LeadingMarks, NEW mm \in MessageMarks, NEW tier \in Tiers,
           NEW figure, Request(sm, mm, tier, figure)
    PROVE  Forwardable(conv, sm, mm, tier)
<1>1. conv # <<>> /\ IsUser(Last(conv))
  <2>1. conv # <<>> /\ After = "user"
    BY DEF Request, After
  <2>2. conv \in Seq(Messages) /\ Last(conv) = conv[Len(conv)] /\ Len(conv) \in 1 .. Len(conv)
    BY <2>1 DEF MarkersInv, MarkersType, Last
  <2>3. Last(conv) \in Messages
    BY <2>2
  <2>4. Last(conv).kind # "user"
    BY <2>3, MessageFacts
  <2> QED
    BY <2>1, <2>4 DEF After
<1>2. conv \in Seq(Messages) /\ IsPrompt(conv[1])
  BY <1>1 DEF MarkersInv, MarkersType, ConversationInv
<1>3. /\ DOMAIN conv = 1 .. Len(conv) /\ Len(conv) \in Nat
      /\ Len(conv) \in 1 .. Len(conv) /\ 1 \in 1 .. Len(conv)
  BY <1>1, <1>2
<1>4. IsUser(conv[Len(conv)])
  BY <1>1 DEF Last
<1> QED
  BY <1>2, <1>3, <1>4 DEF Forwardable, Users, Prompts, Request

LEMMA LeadingFacts ==
    ASSUME NEW sm \in LeadingMarks
    PROVE  /\ sm.tools \in Seq(Lifetimes) /\ sm.system \in Seq(Lifetimes)
           /\ sm.tools \o sm.system \in Seq(Lifetimes)
           /\ Len(sm.tools \o sm.system) = Len(sm.tools) + Len(sm.system)
           /\ Len(sm.tools) \in Nat /\ Len(sm.system) \in Nat
<1>1. sm.tools \in Seq(Lifetimes) /\ sm.system \in Seq(Lifetimes)
  BY MarkersAssumption DEF Lifetimes
<1> QED
  BY <1>1, Joined

LEMMA TierFacts ==
    ASSUME NEW tier \in Tiers, NEW ttl \in Lifetimes
    PROVE  /\ WithDefault(tier, ttl) \in Lifetimes
           /\ tier # 0 => tier \in Lifetimes /\ WithDefault(tier, ttl) = tier
BY MarkersAssumption DEF WithDefault, Lifetimes, FiveMinutes, OneHour

(* What the properties say of the markers of one request. *)
WireIsFit(w, ttl) ==
    w \in Seq(Markers) /\ Ordered(w) /\ (ttl # 0 => Covered(w, ttl))

LEMMA PassthroughIsFit ==
    ASSUME NEW c, NEW sm, NEW mm, NEW tier, Forwardable(c, sm, mm, tier)
    PROVE  LET w == WirePassthrough(c, sm, mm, tier)
           IN  w \in Seq(Markers) /\ Ordered(w) /\ Len(w) <= MarkerLimit
<1> DEFINE all == sm.tools \o sm.system \o MarksOver(c, mm, 1, Len(c))
<1>1. MarksOver(c, mm, 1, Len(c)) \in Seq(Lifetimes)
  <2>1. Len(c) <= Len(c) /\ 1 \in Nat \ {0} /\ Users(c) # {}
    BY DEF Forwardable
  <2>2. IsPart(MarksOver(c, mm, 1, Len(c)), MarksOver(c, mm, 1, Len(c)))
    BY <2>1, PartOfTheMarks DEF Forwardable
  <2> QED
    BY <2>2 DEF IsPart
<1>2. all \in Seq(Lifetimes)
  BY <1>1, LeadingFacts, Joined DEF Forwardable
<1>3. Len(all) <= MarkerLimit
  BY DEF Forwardable, Accepted
<1> QED
  BY <1>2, <1>3, HarnessesAreOrdered DEF WirePassthrough

LEMMA RebuildIsFit ==
    ASSUME NEW c, NEW sm, NEW mm, NEW tier, Forwardable(c, sm, mm, tier)
    PROVE  LET w == WireRebuild(c, sm, mm, tier)
           IN  WireIsFit(w, RecordedLifetime(c, mm, tier)) /\ Len(w) <= MarkerLimit
<1> DEFINE whole == MarksOver(c, mm, 1, Len(c))
           kept == MarksOver(c, mm, KeptFrom(c), Len(c))
           lead == sm.tools \o sm.system
           ttl == Clamp(WithDefault(tier, OneHour), whole)
           room == HasRoom(Len(sm.tools) + Len(sm.system) + Len(whole))
           orientation == IF room THEN <<Proxy(ttl)>> ELSE <<>>
           front == Harnesses(lead) \o orientation
           w == front \o Harnesses(kept)
<1>1. WireRebuild(c, sm, mm, tier) = w
  BY DEF WireRebuild
<1>0. /\ Len(c) \in Nat /\ Users(c) \in SUBSET (1 .. Len(c)) /\ Users(c) # {}
      /\ sm \in LeadingMarks /\ mm \in MessageMarks /\ tier \in Tiers
  BY DEF Forwardable
<1>2. KeptFrom(c) \in Nat \ {0}
  <2>1. Max(Prompts(c)) \in Prompts(c)
    BY Greatest DEF Forwardable
  <2> QED
    BY <2>1 DEF KeptFrom, Forwardable
<1>3. /\ whole \in Seq(Lifetimes) /\ kept \in Seq(Lifetimes)
      /\ Len(kept) <= Len(whole)
      /\ \A k \in 1 .. Len(kept) : \E l \in 1 .. Len(whole) : kept[k] = whole[l]
  <2> DEFINE lo == KeptFrom(c)
             hi == Len(c)
  <2>1. hi <= Len(c) /\ hi \in Nat /\ lo \in Nat \ {0}
    BY <1>0, <1>2
  <2>2. whole = MarksOver(c, mm, 1, Len(c)) /\ kept = MarksOver(c, mm, lo, hi)
    OBVIOUS
  <2> HIDE DEF lo, hi, whole, kept
  <2>3. IsPart(MarksOver(c, mm, lo, hi), MarksOver(c, mm, 1, Len(c)))
    BY <1>0, <2>1, PartOfTheMarks
  <2> QED
    BY <2>2, <2>3 DEF IsPart
<1>4. lead \in Seq(Lifetimes) /\ Len(lead) = Len(sm.tools) + Len(sm.system) /\ Len(lead) \in Nat
  <2>1. sm.tools \o sm.system \in Seq(Lifetimes)
    BY <1>0, LeadingFacts
  <2>2. Len(sm.tools \o sm.system) = Len(sm.tools) + Len(sm.system)
    BY <1>0, LeadingFacts
  <2> HIDE DEF whole, kept, ttl, room
  <2>3. lead \in Seq(Lifetimes)
    BY <2>1
  <2>4. Len(lead) \in Nat
    <3> HIDE DEF lead
    <3> QED
      BY <2>3
  <2> QED
    BY <2>2, <2>3, <2>4
<1>5. OneHour \in Lifetimes /\ WithDefault(tier, OneHour) \in Lifetimes
  BY TierFacts DEF Forwardable, Lifetimes
<1>6. ttl \in Lifetimes /\ \A k \in 1 .. Len(whole) : whole[k] <= ttl
  BY <1>3, <1>5, ClampFacts
<1>7. tier # 0 => RecordedLifetime(c, mm, tier) = ttl
  BY <1>5, TierFacts DEF RecordedLifetime, Forwardable
<1>8. tier = 0 => RecordedLifetime(c, mm, tier) = 0
  BY DEF RecordedLifetime
<1>9. Len(lead) + Len(whole) <= MarkerLimit
  <2>1. Len(lead \o whole) <= MarkerLimit
    BY DEF Forwardable, Accepted
  <2> HIDE DEF lead, whole
  <2>2. Len(lead \o whole) = Len(lead) + Len(whole)
    <3>1. lead \in Seq(Lifetimes) /\ whole \in Seq(Lifetimes)
      BY <1>3, <1>4
    <3> QED
      BY <3>1, Joined, Zenon
  <2> QED
    BY <2>1, <2>2
<1>10. \A k \in 1 .. Len(kept) : kept[k] <= ttl
  BY <1>3, <1>6
<1> HIDE DEF whole, kept, lead, ttl, room
<1>11. /\ orientation \in Seq(Markers) /\ Ordered(orientation)
       /\ Above(orientation, Harnesses(kept)) /\ Covered(orientation, ttl)
       /\ Len(orientation) = IF room THEN 1 ELSE 0
  <2>1. CASE room
    <3>1. orientation = <<Proxy(ttl)>>
      BY <2>1
    <3>2. ttl <= ttl
      BY <1>6 DEF Lifetimes, FiveMinutes, OneHour
    <3>3. Len(<<Proxy(ttl)>>) = 1 /\ <<Proxy(ttl)>> \in Seq(Markers) /\ Ordered(<<Proxy(ttl)>>)
      BY <1>6, ProxyIsOrdered
    <3>4. Above(<<Proxy(ttl)>>, Harnesses(kept)) /\ Covered(<<Proxy(ttl)>>, ttl)
      BY <1>3, <1>6, <1>10, <3>2, ProxyFacts
    <3> HIDE DEF orientation
    <3> QED
      BY <2>1, <3>1, <3>3, <3>4
  <2>2. CASE ~room
    BY <2>2 DEF Ordered, Above, Covered
  <2> QED
    BY <2>1, <2>2
<1>12. Harnesses(lead) \in Seq(Markers) /\ Harnesses(kept) \in Seq(Markers)
       /\ Ordered(Harnesses(lead)) /\ Ordered(Harnesses(kept))
       /\ Len(Harnesses(lead)) = Len(lead) /\ Len(Harnesses(kept)) = Len(kept)
       /\ Above(Harnesses(lead), orientation) /\ Above(Harnesses(lead), Harnesses(kept))
       /\ Covered(Harnesses(lead), ttl) /\ Covered(Harnesses(kept), ttl)
  BY <1>3, <1>4, HarnessesAreOrdered, HarnessesFacts
<1> HIDE DEF orientation
<1>13. /\ front \in Seq(Markers) /\ Ordered(front) /\ Len(front) = Len(lead) + Len(orientation)
       /\ Above(front, Harnesses(kept)) /\ Covered(front, ttl)
  <2>1. front \in Seq(Markers) /\ Ordered(front)
    BY <1>11, <1>12, OrderedJoin
  <2>2. Len(front) = Len(lead) + Len(orientation)
    <3>1. Harnesses(lead) \in Seq(Markers) /\ orientation \in Seq(Markers)
      BY <1>11, <1>12
    <3>2. Len(front) = Len(Harnesses(lead)) + Len(orientation)
      BY <3>1, Joined
    <3> QED
      BY <1>12, <3>2
  <2>3. Above(front, Harnesses(kept)) /\ Covered(front, ttl)
    BY <1>11, <1>12, JoinFacts
  <2> QED
    BY <2>1, <2>2, <2>3
<1> HIDE DEF front
<1>14. /\ w \in Seq(Markers) /\ Ordered(w) /\ Covered(w, ttl)
       /\ Len(w) = Len(front) + Len(kept)
  <2>1. w \in Seq(Markers) /\ Ordered(w)
    BY <1>12, <1>13, OrderedJoin
  <2>2. Len(w) = Len(front) + Len(kept)
    <3>1. front \in Seq(Markers) /\ Harnesses(kept) \in Seq(Markers)
      BY <1>12, <1>13
    <3>2. Len(w) = Len(front) + Len(Harnesses(kept))
      BY <3>1, Joined
    <3> QED
      BY <1>12, <3>2
  <2>3. Covered(w, ttl)
    BY <1>12, <1>13, JoinFacts
  <2> QED
    BY <2>1, <2>2, <2>3
<1>15. Len(w) <= MarkerLimit
  <2>1. room => Len(lead) + Len(whole) + 1 <= MarkerLimit
    <3>1. room => Len(lead) + Len(whole) < MarkerLimit
      BY <1>4 DEF room, whole, HasRoom
    <3>2. Len(lead) \in Nat /\ Len(whole) \in Nat /\ MarkerLimit \in Nat
      <4>1. whole \in Seq(Lifetimes)
        BY <1>3
      <4>2. Len(whole) \in Nat
        BY <4>1
      <4> QED
        BY <1>4, <4>2, MarkersAssumption
    <3> QED
      BY <3>1, <3>2
  <2>2. Len(w) = Len(lead) + (IF room THEN 1 ELSE 0) + Len(kept)
    BY <1>11, <1>13, <1>14
  <2>3. Len(kept) \in Nat /\ Len(whole) \in Nat /\ MarkerLimit \in Nat
    BY <1>3, MarkersAssumption
  <2>4. Len(lead) \in Nat /\ Len(kept) <= Len(whole)
    BY <1>3, <1>4
  <2> QED
    BY <1>9, <2>1, <2>2, <2>3, <2>4
<1> HIDE DEF w
<1>16. RecordedLifetime(c, mm, tier) # 0 => Covered(w, RecordedLifetime(c, mm, tier))
  BY <1>7, <1>8, <1>14
<1> QED
  BY <1>1, <1>14, <1>15, <1>16 DEF WireIsFit

LEMMA MutateIsFit ==
    ASSUME NEW c, NEW sm, NEW mm, NEW tier, Forwardable(c, sm, mm, tier)
    PROVE  WireIsFit(WireMutate(c, sm, mm, tier), RecordedLifetime(c, mm, tier))
<1> DEFINE n == Max(Users(c))
           whole == MarksOver(c, mm, 1, Len(c))
           before == MarksOver(c, mm, 1, n - 1)
           own == MarksOver(c, mm, n, n)
           after == MarksOver(c, mm, n + 1, Len(c))
           ttl == Clamp(WithDefault(tier, OneHour), whole)
           hud == Clamp(WithDefault(tier, FiveMinutes), after)
           newest == IF c[n].kind = "words" THEN <<Proxy(hud)>> ELSE Harnesses(own)
           w1 == Harnesses(sm.tools) \o <<Proxy(ttl)>>
           w2 == w1 \o Harnesses(before)
           w3 == w2 \o newest
           w4 == w3 \o Harnesses(after)
<1>1. WireMutate(c, sm, mm, tier) = w4
  BY DEF WireMutate
<1>2. /\ Len(c) \in Nat /\ Users(c) \in SUBSET (1 .. Len(c)) /\ Users(c) # {}
      /\ Len(c) \in Users(c)
      /\ sm \in LeadingMarks /\ mm \in MessageMarks /\ tier \in Tiers
  BY DEF Forwardable
<1>3. n = Len(c) /\ n \in 1 .. Len(c)
  <2>1. n \in Users(c) /\ \A j \in Users(c) : j <= n
    BY <1>2, Greatest
  <2>2. n \in 1 .. Len(c) /\ Len(c) <= n
    BY <1>2, <2>1
  <2> HIDE DEF n
  <2> QED
    BY <1>2, <2>2
<1>4. /\ whole \in Seq(Lifetimes) /\ before \in Seq(Lifetimes) /\ own \in Seq(Lifetimes)
      /\ \A k \in 1 .. Len(before) : \E l \in 1 .. Len(whole) : before[k] = whole[l]
      /\ \A k \in 1 .. Len(own) : \E l \in 1 .. Len(whole) : own[k] = whole[l]
  <2>1. /\ n \in Nat /\ n - 1 \in Nat /\ n \in Nat \ {0} /\ n - 1 <= Len(c) /\ n <= Len(c)
        /\ 1 \in Nat \ {0}
    BY <1>2, <1>3
  <2> HIDE DEF n
  <2>2. IsPart(before, whole) /\ IsPart(own, whole)
    BY <1>2, <2>1, PartOfTheMarks
  <2> HIDE DEF before, own, whole
  <2> QED
    BY <2>2 DEF IsPart
<1>5. after = <<>>
  <2>1. \A x \in 1 .. Len(c) : x \notin n + 1 .. Len(c)
    BY <1>2, <1>3
  <2>2. Newest(Users(c)) \in 1 .. Len(c)
    BY <1>2, Greatest
  <2>3. Users(c) \ {Newest(Users(c))} # {} =>
            Newest(Users(c) \ {Newest(Users(c))}) \in 1 .. Len(c)
    <3>1. Users(c) \ {Newest(Users(c))} \in SUBSET (1 .. Len(c))
      BY <1>2
    <3> QED
      BY <1>2, <3>1, Greatest
  <2> HIDE DEF n
  <2>4. Given(FALSE, mm[1]) = <<>> /\ Given(FALSE, mm[2]) = <<>>
    BY DEF Given
  <2> QED
    BY <2>1, <2>2, <2>3 DEF MarksOver, Given
<1>6. /\ OneHour \in Lifetimes /\ WithDefault(tier, OneHour) \in Lifetimes
      /\ WithDefault(tier, FiveMinutes) \in Lifetimes
  BY <1>2, TierFacts DEF Lifetimes
<1>7. ttl \in Lifetimes /\ \A k \in 1 .. Len(whole) : whole[k] <= ttl
  BY <1>4, <1>6, ClampFacts
<1>8. hud = WithDefault(tier, FiveMinutes) /\ hud \in Lifetimes
  BY <1>5, <1>6 DEF Clamp, Contains
<1>9. hud <= ttl
  <2>1. WithDefault(tier, OneHour) <= ttl
    BY <1>4, <1>6, ClampFacts
  <2>2. WithDefault(tier, FiveMinutes) <= WithDefault(tier, OneHour)
    BY <1>2, MarkersAssumption DEF WithDefault, FiveMinutes, OneHour
  <2> HIDE DEF ttl, hud
  <2> QED
    BY <1>6, <1>7, <1>8, <2>1, <2>2 DEF Lifetimes, FiveMinutes, OneHour
<1>10. tier # 0 => RecordedLifetime(c, mm, tier) = ttl
  BY <1>2, <1>6, TierFacts DEF RecordedLifetime
<1>11. tier = 0 => RecordedLifetime(c, mm, tier) = 0
  BY DEF RecordedLifetime
<1>12. (\A k \in 1 .. Len(before) : before[k] <= ttl) /\ (\A k \in 1 .. Len(own) : own[k] <= ttl)
  BY <1>4, <1>7
<1>13. sm.tools \in Seq(Lifetimes) /\ <<>> \in Seq(Lifetimes) /\ ttl <= ttl
  <2>1. sm.tools \in Seq(Lifetimes)
    BY <1>2, LeadingFacts
  <2> HIDE DEF ttl
  <2> QED
    BY <1>7, <2>1 DEF Lifetimes, FiveMinutes, OneHour
<1> HIDE DEF n, whole, before, own, after, ttl, hud
<1>14. /\ <<Proxy(ttl)>> \in Seq(Markers) /\ Ordered(<<Proxy(ttl)>>)
       /\ Above(<<Proxy(ttl)>>, Harnesses(before)) /\ Covered(<<Proxy(ttl)>>, ttl)
  BY <1>4, <1>7, <1>12, <1>13, ProxyIsOrdered, ProxyFacts
<1>15. /\ newest \in Seq(Markers) /\ Ordered(newest) /\ Covered(newest, ttl)
       /\ Above(<<Proxy(ttl)>>, newest)
  <2>1. CASE c[n].kind = "words"
    <3>1. newest = <<Proxy(hud)>>
      BY <2>1
    <3>2. <<Proxy(hud)>> \in Seq(Markers) /\ Ordered(<<Proxy(hud)>>)
      BY <1>8, ProxyIsOrdered
    <3>3. Covered(<<Proxy(hud)>>, ttl) /\ Above(<<Proxy(ttl)>>, <<Proxy(hud)>>)
      BY <1>7, <1>8, <1>9, ProxyFacts
    <3> HIDE DEF newest
    <3> QED
      BY <3>1, <3>2, <3>3
  <2>2. CASE c[n].kind # "words"
    <3>1. newest = Harnesses(own)
      BY <2>2
    <3>2. Harnesses(own) \in Seq(Markers) /\ Ordered(Harnesses(own)) /\ Covered(Harnesses(own), ttl)
      BY <1>4, HarnessesAreOrdered, HarnessesFacts
    <3>3. Above(<<Proxy(ttl)>>, Harnesses(own))
      BY <1>4, <1>7, <1>12, ProxyFacts
    <3> HIDE DEF newest
    <3> QED
      BY <3>1, <3>2, <3>3
  <2> QED
    BY <2>1, <2>2
<1>16. /\ Harnesses(sm.tools) \in Seq(Markers) /\ Ordered(Harnesses(sm.tools))
       /\ \A C : Above(Harnesses(sm.tools), C)
       /\ Covered(Harnesses(sm.tools), ttl)
  BY <1>13, HarnessesAreOrdered, HarnessesFacts
<1>17. /\ Harnesses(before) \in Seq(Markers) /\ Ordered(Harnesses(before))
       /\ \A C : Above(Harnesses(before), C)
       /\ Covered(Harnesses(before), ttl)
  BY <1>4, HarnessesAreOrdered, HarnessesFacts
<1>18. /\ Harnesses(after) \in Seq(Markers) /\ Ordered(Harnesses(after))
       /\ \A A : Above(A, Harnesses(after))
       /\ Covered(Harnesses(after), ttl)
  <2>1. after \in Seq(Lifetimes) /\ Len(after) = 0
    BY <1>5, <1>13
  <2>2. Len(Harnesses(after)) = 0
    BY <2>1, HarnessesAreOrdered
  <2>3. Harnesses(after) \in Seq(Markers) /\ Ordered(Harnesses(after))
    BY <2>1, HarnessesAreOrdered
  <2>4. 1 .. Len(Harnesses(after)) = {}
    BY <2>2
  <2> QED
    BY <2>3, <2>4 DEF Above, Covered
<1> HIDE DEF newest
<1>19. /\ w1 \in Seq(Markers) /\ Ordered(w1) /\ Covered(w1, ttl)
       /\ Above(w1, Harnesses(before)) /\ Above(w1, newest)
  <2>1. w1 \in Seq(Markers) /\ Ordered(w1)
    BY <1>14, <1>16, OrderedJoin
  <2> QED
    BY <1>14, <1>15, <1>16, <2>1, JoinFacts
<1> HIDE DEF w1
<1>20. w2 \in Seq(Markers) /\ Ordered(w2) /\ Covered(w2, ttl) /\ Above(w2, newest)
  <2>1. w2 \in Seq(Markers) /\ Ordered(w2)
    BY <1>17, <1>19, OrderedJoin
  <2> QED
    BY <1>17, <1>19, <2>1, JoinFacts
<1> HIDE DEF w2
<1>21. w3 \in Seq(Markers) /\ Ordered(w3) /\ Covered(w3, ttl)
  <2>1. w3 \in Seq(Markers) /\ Ordered(w3)
    BY <1>15, <1>20, OrderedJoin
  <2> QED
    BY <1>15, <1>20, <2>1, JoinFacts
<1> HIDE DEF w3
<1>22. w4 \in Seq(Markers) /\ Ordered(w4) /\ Covered(w4, ttl)
  <2>1. w4 \in Seq(Markers) /\ Ordered(w4)
    BY <1>18, <1>21, OrderedJoin
  <2> QED
    BY <1>18, <1>21, <2>1, JoinFacts
<1> HIDE DEF w4
<1> QED
  BY <1>1, <1>10, <1>11, <1>22 DEF WireIsFit

(* Whatever the wire holds came from one request, or the harness has grown *)
(* the conversation since and nothing is on the wire.                      *)
WireInv ==
    /\ wire \in Seq(Markers) /\ Ordered(wire)
    /\ mode # "mutate" => Len(wire) <= MarkerLimit
    /\ mode # "passthrough" /\ lifetime # 0 => Covered(wire, lifetime)

LEMMA WireInitInv == MarkersInit => WireInv
BY MarkersAssumption DEF MarkersInit, WireInv, Ordered, Covered

LEMMA WireStep == MarkersInv /\ WireInv /\ [MarkersNext]_markersVars => WireInv'
<1> SUFFICES ASSUME MarkersInv, WireInv, [MarkersNext]_markersVars PROVE WireInv'
  OBVIOUS
<1>1. ASSUME NEW m \in Messages, Grow(m) PROVE WireInv'
  BY <1>1, MarkersAssumption DEF Grow, WireInv, Ordered, Covered
<1>2. ASSUME NEW sm \in LeadingMarks, NEW mm \in MessageMarks, NEW tier \in Tiers,
             NEW figure \in HudFigures, Request(sm, mm, tier, figure)
      PROVE  WireInv'
  <2>1. Forwardable(conv, sm, mm, tier)
    BY <1>2, RequestIsForwardable
  <2>2. /\ wire' = Wire(conv, sm, mm, tier) /\ mode' = mode
        /\ lifetime' = RecordedLifetime(conv, mm, tier)
    BY <1>2 DEF Request
  <2>3. mode \in {"passthrough", "mutate", "rebuild"}
    BY MarkersAssumption DEF MarkersInv, MarkersType
  <2>4. CASE mode = "passthrough"
    <3>1. wire' = WirePassthrough(conv, sm, mm, tier)
      BY <2>2, <2>4 DEF Wire
    <3> QED
      BY <2>1, <2>2, <2>4, <3>1, PassthroughIsFit DEF WireInv
  <2>5. CASE mode = "rebuild"
    <3>1. wire' = WireRebuild(conv, sm, mm, tier)
      BY <2>2, <2>5 DEF Wire
    <3> QED
      BY <2>1, <2>2, <2>5, <3>1, RebuildIsFit DEF WireInv, WireIsFit
  <2>6. CASE mode = "mutate"
    <3>1. wire' = WireMutate(conv, sm, mm, tier)
      BY <2>2, <2>6 DEF Wire
    <3> QED
      BY <2>1, <2>2, <2>6, <3>1, MutateIsFit DEF WireInv, WireIsFit
  <2> QED
    BY <2>3, <2>4, <2>5, <2>6
<1>3. CASE UNCHANGED markersVars
  BY <1>3 DEF markersVars, WireInv
<1> QED
  BY <1>1, <1>2, <1>3 DEF MarkersNext, Prompt, Result, Answer

(* Every wire body is ordered, within the marker limit and covered by the  *)
(* lifetime of its lane, in the modes that promise it.                     *)
THEOREM WireInvariant == MarkersSpec => []WireInv
BY MarkersInvariant, WireInitInv, WireStep, PTL DEF MarkersSpec

(* No marker of the proxy is upstream of a longer-lived one, whatever the  *)
(* policy's tier and the harness's markers are: clamp_ttl_to_harness_floor *)
(* looks at everything downstream, and what the rebuild keeps of the       *)
(* messages is a part of that.                                             *)
THEOREM ProxyMarkersOrdered == MarkersSpec => []NoShortBeforeLong
<1>1. WireInv => NoShortBeforeLong
  BY DEF WireInv, Ordered, NoShortBeforeLong
<1> QED
  BY <1>1, WireInvariant, PTL

(* The orientation takes a marker only where the harness has left one free. *)
THEOREM MarkerLimitKept == MarkersSpec => []LimitKept
<1>1. WireInv => LimitKept
  BY DEF WireInv, LimitKept
<1> QED
  BY <1>1, WireInvariant, PTL

(* The lane that a request commits lives at least as long as every marker  *)
(* the proxy has set in it.                                                *)
THEOREM LaneOutlivesMarkers == MarkersSpec => []LifetimeCoversWire
<1>1. WireInv => LifetimeCoversWire
  BY DEF WireInv, Covered, LifetimeCoversWire
<1> QED
  BY <1>1, WireInvariant, PTL
-----------------------------------------------------------------------------
(***************************************************************************)
(* What is kept of a sequence.  Rank(K, k) counts the kept indices up to   *)
(* k: the ranks of the kept indices are 1 .. Cardinality(K), in order.     *)
(***************************************************************************)
LEMMA RankStep ==
    ASSUME NEW n \in Nat, NEW K \in SUBSET (1 .. n)
    PROVE  /\ IsFiniteSet(K) /\ Cardinality(K) \in Nat
           /\ Rank(K, 0) = 0 /\ Rank(K, n) = Cardinality(K)
           /\ \A j \in Nat : Rank(K, j) \in Nat
           /\ \A j \in Nat :
                  Rank(K, j + 1) = IF j + 1 \in K THEN Rank(K, j) + 1 ELSE Rank(K, j)
<1>0. \A x \in K : x \in Nat /\ 1 <= x /\ x <= n
  OBVIOUS
<1>1. IsFiniteSet(K) /\ Cardinality(K) \in Nat
  <2>1. IsFiniteSet(1 .. n)
    BY FS_Interval
  <2>2. IsFiniteSet(K)
    BY <2>1, FS_Subset
  <2> QED
    BY <2>2, FS_CardinalityType
<1>2. Rank(K, 0) = 0
  <2>1. {j \in K : j <= 0} = {}
    <3>1. \A j \in K : ~(j <= 0)
      BY <1>0
    <3> QED
      BY <3>1
  <2> QED
    BY <2>1, FS_EmptySet DEF Rank
<1>3. Rank(K, n) = Cardinality(K)
  <2>1. {j \in K : j <= n} = K
    BY <1>0
  <2> QED
    BY <2>1 DEF Rank
<1>4. ASSUME NEW j \in Nat PROVE Rank(K, j) \in Nat
  <2>1. {i \in K : i <= j} \in SUBSET K
    OBVIOUS
  <2> QED
    BY <1>1, <2>1, FS_Subset, FS_CardinalityType DEF Rank
<1>5. ASSUME NEW j \in Nat
      PROVE  Rank(K, j + 1) = IF j + 1 \in K THEN Rank(K, j) + 1 ELSE Rank(K, j)
  <2> DEFINE upTo == {i \in K : i <= j}
  <2>1. IsFiniteSet(upTo)
    BY <1>1, FS_Subset
  <2>2. CASE j + 1 \in K
    <3>1. {i \in K : i <= j + 1} = upTo \cup {j + 1}
      <4>1. \A i \in K : i <= j + 1 <=> (i <= j \/ i = j + 1)
        BY <1>0
      <4> QED
        BY <2>2, <4>1
    <3>2. j + 1 \notin upTo
      OBVIOUS
    <3>3. Cardinality(upTo \cup {j + 1}) = Cardinality(upTo) + 1
      BY <2>1, <3>2, FS_AddElement
    <3> QED
      BY <2>2, <3>1, <3>3 DEF Rank
  <2>3. CASE j + 1 \notin K
    <3>1. {i \in K : i <= j + 1} = upTo
      <4>1. \A i \in K : i <= j + 1 <=> i <= j
        BY <1>0, <2>3
      <4> QED
        BY <4>1
    <3> QED
      BY <2>3, <3>1 DEF Rank
  <2> QED
    BY <2>2, <2>3
<1> QED
  BY <1>1, <1>2, <1>3, <1>4, <1>5

(* They order the kept indices.                                            *)
LEMMA RankGrows ==
    ASSUME NEW n \in Nat, NEW K \in SUBSET (1 .. n), NEW k \in K, NEW m \in K, k < m
    PROVE  Rank(K, k) < Rank(K, m)
<1> DEFINE A == {j \in K : j <= k}
           B == {j \in K : j <= m}
<1>1. IsFiniteSet(B) /\ IsFiniteSet(A) /\ Cardinality(A) \in Nat /\ Cardinality(B) \in Nat
  BY RankStep, FS_Subset, FS_CardinalityType
<1>2. A \in SUBSET B /\ A # B
  <2>1. m \in B /\ m \notin A
    OBVIOUS
  <2>2. \A j \in A : j \in B
    OBVIOUS
  <2> QED
    BY <2>1, <2>2
<1>3. Cardinality(A) <= Cardinality(B) /\ Cardinality(A) # Cardinality(B)
  BY <1>1, <1>2, FS_Subset
<1> HIDE DEF A, B
<1>4. Cardinality(A) < Cardinality(B)
  BY <1>1, <1>3
<1> QED
  BY <1>4 DEF A, B, Rank

(* The index of the i-th message kept. *)
IndexOf(K, i) == CHOOSE k \in K : Rank(K, k) = i

(* Ranks and kept indices determine each other.                            *)
LEMMA IndexFacts ==
    ASSUME NEW n \in Nat, NEW K \in SUBSET (1 .. n)
    PROVE  /\ \A i \in 1 .. Cardinality(K) :
                  IndexOf(K, i) \in K /\ Rank(K, IndexOf(K, i)) = i
           /\ \A k \in K : Rank(K, k) \in 1 .. Cardinality(K) /\ IndexOf(K, Rank(K, k)) = k
           /\ \A k \in K : k + 1 \in K => Rank(K, k + 1) = Rank(K, k) + 1
<1>1. ASSUME NEW i \in 1 .. Cardinality(K)
      PROVE  IndexOf(K, i) \in K /\ Rank(K, IndexOf(K, i)) = i
  <2> DEFINE S == {j \in Nat : Rank(K, j) >= i}
  <2>1. n \in S
    BY RankStep
  <2>2. PICK m \in S : \A x \in S : m <= x
    BY <2>1, Least
  <2>3. m # 0
    BY RankStep
  <2>4. m - 1 \in Nat /\ m - 1 \notin S
    BY <2>2, <2>3
  <2>5. Rank(K, m - 1) \in Nat /\ Rank(K, m - 1) < i /\ Rank(K, m) >= i /\ Rank(K, m) \in Nat
    BY <2>4, RankStep
  <2>6. Rank(K, (m - 1) + 1) = IF (m - 1) + 1 \in K THEN Rank(K, m - 1) + 1 ELSE Rank(K, m - 1)
    BY <2>4, RankStep
  <2>7. (m - 1) + 1 = m
    OBVIOUS
  <2>8. m \in K /\ Rank(K, m) = i
    BY <2>5, <2>6, <2>7
  <2> QED
    BY <2>8 DEF IndexOf
<1>2. ASSUME NEW k \in K
      PROVE  Rank(K, k) \in 1 .. Cardinality(K) /\ IndexOf(K, Rank(K, k)) = k
  <2>1. Rank(K, k) >= 1
    <3>1. k - 1 \in Nat /\ (k - 1) + 1 = k
      OBVIOUS
    <3>2. Rank(K, k) = Rank(K, k - 1) + 1 /\ Rank(K, k - 1) \in Nat
      BY <3>1, RankStep
    <3> QED
      BY <3>2
  <2>2. Rank(K, k) <= Cardinality(K)
    <3> DEFINE upTo == {j \in K : j <= k}
    <3>1. upTo \in SUBSET K /\ IsFiniteSet(K)
      BY RankStep
    <3> HIDE DEF upTo
    <3>2. Cardinality(upTo) <= Cardinality(K)
      BY <3>1, FS_Subset
    <3> QED
      BY <3>2 DEF Rank, upTo
  <2>3. Rank(K, k) \in 1 .. Cardinality(K)
    <3>1. k \in Nat /\ Rank(K, k) \in Nat /\ Cardinality(K) \in Nat
      BY RankStep
    <3> QED
      BY <2>1, <2>2, <3>1
  <2>4. IndexOf(K, Rank(K, k)) \in K /\ Rank(K, IndexOf(K, Rank(K, k))) = Rank(K, k)
    BY <1>1, <2>3
  <2>5. ASSUME NEW x \in K, Rank(K, x) = Rank(K, k) PROVE x = k
    <3>1. Rank(K, k) \in Nat /\ x \in Nat /\ k \in Nat
      BY <2>3
    <3>2. x < k => Rank(K, x) < Rank(K, k)
      BY RankGrows
    <3>3. k < x => Rank(K, k) < Rank(K, x)
      BY RankGrows
    <3> QED
      BY <2>5, <3>1, <3>2, <3>3
  <2> QED
    BY <2>3, <2>4, <2>5
<1>3. ASSUME NEW k \in K, k + 1 \in K PROVE Rank(K, k + 1) = Rank(K, k) + 1
  <2>1. k \in Nat
    OBVIOUS
  <2> QED
    BY <1>3, <2>1, RankStep
<1> QED
  BY <1>1, <1>2, <1>3
-----------------------------------------------------------------------------
(***************************************************************************)
(* Messages as the harness makes them: only the user's hold results, only  *)
(* the model's hold calls, and then no words.                              *)
(***************************************************************************)
Ids == (Nat \X Tools) \cup {Ghost.id}
Results == [id : Ids, size : Nat]
Message ==
    [role : {"user", "assistant"}, text : Nat, calls : SUBSET (Nat \X Tools),
     results : SUBSET Results]
Turns ==
    {m \in Message :
        /\ m.role = "user" => m.calls = {}
        /\ m.role = "assistant" => m.results = {} /\ (m.calls # {} => m.text = NoText)}

(* The fields of a message.                                                *)
LEMMA TurnFacts ==
    ASSUME NEW m \in Turns
    PROVE  /\ m.role \in {"user", "assistant"} /\ m.text \in Nat
           /\ m.calls \in SUBSET (Nat \X Tools) /\ m.results \in SUBSET Results
           /\ m.role = "user" => m.calls = {}
           /\ m.role = "assistant" => m.results = {} /\ (m.calls # {} => m.text = NoText)
           /\ m = [role |-> m.role, text |-> m.text, calls |-> m.calls, results |-> m.results]
BY DEF Turns, Message

(* A user message with other results is one.                               *)
LEMMA WithResults ==
    ASSUME NEW m \in Turns, NEW R \in SUBSET Results, m.role = "user"
    PROVE  /\ [m EXCEPT !.results = R] \in Turns
           /\ [m EXCEPT !.results = R].role = m.role
           /\ [m EXCEPT !.results = R].text = m.text
           /\ [m EXCEPT !.results = R].calls = m.calls
           /\ [m EXCEPT !.results = R].results = R
<1>1. [m EXCEPT !.results = R] =
          [role |-> m.role, text |-> m.text, calls |-> m.calls, results |-> R]
  BY TurnFacts
<1>2. [role |-> m.role, text |-> m.text, calls |-> m.calls, results |-> R] \in Turns
  BY TurnFacts DEF Turns, Message
<1> QED
  BY <1>1, <1>2

(* Stripping touches results only, and leaves those of the calls before.   *)
LEMMA StripFacts ==
    ASSUME NEW ms \in Seq(Turns)
    PROVE  /\ StripOrphans(ms) \in Seq(Turns) /\ Len(StripOrphans(ms)) = Len(ms)
           /\ \A i \in 1 .. Len(ms) :
                  /\ StripOrphans(ms)[i].role = ms[i].role
                  /\ StripOrphans(ms)[i].text = ms[i].text
                  /\ StripOrphans(ms)[i].calls = ms[i].calls
                  /\ StripOrphans(ms)[i].results =
                         {x \in ms[i].results : x.id \in ValidIds(ms, i)}
<1> DEFINE left(i) == {x \in ms[i].results : x.id \in ValidIds(ms, i)}
           stripped(i) ==
               IF ms[i].role = "user" THEN [ms[i] EXCEPT !.results = left(i)] ELSE ms[i]
<1>1. StripOrphans(ms) = [i \in 1 .. Len(ms) |-> stripped(i)]
  BY DEF StripOrphans
<1>2. ASSUME NEW i \in 1 .. Len(ms)
      PROVE  /\ stripped(i) \in Turns /\ stripped(i).role = ms[i].role
             /\ stripped(i).text = ms[i].text /\ stripped(i).calls = ms[i].calls
             /\ stripped(i).results = left(i)
  <2>1. ms[i] \in Turns
    OBVIOUS
  <2>2. left(i) \in SUBSET Results
    BY <2>1, TurnFacts
  <2>3. CASE ms[i].role = "user"
    <3> HIDE DEF left
    <3> QED
      BY <2>1, <2>2, <2>3, WithResults
  <2>4. CASE ms[i].role # "user"
    BY <2>1, <2>4, TurnFacts
  <2> QED
    BY <2>3, <2>4
<1> HIDE DEF stripped
<1>3. StripOrphans(ms) \in Seq(Turns) /\ Len(StripOrphans(ms)) = Len(ms)
  BY <1>1, <1>2
<1>4. \A i \in 1 .. Len(ms) : StripOrphans(ms)[i] = stripped(i)
  BY <1>1
<1> QED
  BY <1>2, <1>3, <1>4

(* What is kept of a sequence is a sequence of its members.                *)
LEMMA KeptFacts ==
    ASSUME NEW T, NEW ms \in Seq(T), NEW K \in SUBSET (1 .. Len(ms))
    PROVE  /\ Kept(ms, K) \in Seq(T) /\ Len(Kept(ms, K)) = Cardinality(K)
           /\ \A j \in 1 .. Cardinality(K) : Kept(ms, K)[j] = ms[IndexOf(K, j)]
<1>1. /\ Len(ms) \in Nat /\ Cardinality(K) \in Nat
      /\ \A j \in 1 .. Cardinality(K) : IndexOf(K, j) \in 1 .. Len(ms)
  <2>1. Len(ms) \in Nat
    OBVIOUS
  <2>2. Cardinality(K) \in Nat
    BY <2>1, RankStep
  <2>3. \A j \in 1 .. Cardinality(K) : IndexOf(K, j) \in K
    BY <2>1, IndexFacts
  <2> QED
    BY <2>1, <2>2, <2>3
<1>2. Kept(ms, K) = [j \in 1 .. Cardinality(K) |-> ms[IndexOf(K, j)]]
  BY DEF Kept, IndexOf
<1>3. \A j \in 1 .. Cardinality(K) : ms[IndexOf(K, j)] \in T
  BY <1>1
<1> QED
  BY <1>1, <1>2, <1>3

(* The messages a repair leaves. *)
Remaining(ms) == {i \in DOMAIN StripOrphans(ms) : ~Emptied(StripOrphans(ms)[i])}

(* A repaired history is the remaining stripped messages in their order.   *)
LEMMA RepairFacts ==
    ASSUME NEW ms \in Seq(Turns)
    PROVE  /\ Remaining(ms) \in SUBSET (1 .. Len(ms)) /\ Len(ms) \in Nat
           /\ Repair(ms) \in Seq(Turns) /\ Len(Repair(ms)) = Cardinality(Remaining(ms))
           /\ Len(Repair(ms)) \in Nat
           /\ \A j \in 1 .. Len(Repair(ms)) :
                  /\ IndexOf(Remaining(ms), j) \in Remaining(ms)
                  /\ Repair(ms)[j] = StripOrphans(ms)[IndexOf(Remaining(ms), j)]
           /\ \A k \in Remaining(ms) :
                  /\ Rank(Remaining(ms), k) \in 1 .. Len(Repair(ms))
                  /\ Repair(ms)[Rank(Remaining(ms), k)] = StripOrphans(ms)[k]
           /\ \A k \in 1 .. Len(ms) :
                  ms[k].calls # {} \/ ms[k].text # NoText
                      \/ StripOrphans(ms)[k].results # {} => k \in Remaining(ms)
<1> DEFINE s == StripOrphans(ms)
           K == Remaining(ms)
<1>1. s \in Seq(Turns) /\ Len(s) = Len(ms) /\ Len(ms) \in Nat
  BY StripFacts
<1>2. K \in SUBSET (1 .. Len(ms)) /\ K \in SUBSET (1 .. Len(s))
  <2>1. DOMAIN s = 1 .. Len(ms)
    BY <1>1
  <2> QED
    BY <1>1, <2>1 DEF Remaining
<1>3. Repair(ms) = Kept(s, K)
  BY DEF Repair, DropEmptied, Remaining
<1>4. \A k \in 1 .. Len(ms) :
          ms[k].calls # {} \/ ms[k].text # NoText \/ s[k].results # {} => k \in K
  <2>1. DOMAIN s = 1 .. Len(ms)
    BY <1>1
  <2>2. \A k \in 1 .. Len(ms) : s[k].text = ms[k].text /\ s[k].calls = ms[k].calls
    BY StripFacts
  <2> QED
    BY <2>1, <2>2 DEF Remaining, Emptied, IsEmpty
<1> HIDE DEF s, K
<1>5. /\ Kept(s, K) \in Seq(Turns) /\ Len(Kept(s, K)) = Cardinality(K)
      /\ \A j \in 1 .. Cardinality(K) : Kept(s, K)[j] = s[IndexOf(K, j)]
  BY <1>1, <1>2, KeptFacts
<1>6. /\ \A j \in 1 .. Cardinality(K) : IndexOf(K, j) \in K
      /\ \A k \in K : Rank(K, k) \in 1 .. Cardinality(K) /\ IndexOf(K, Rank(K, k)) = k
      /\ Cardinality(K) \in Nat
  BY <1>1, <1>2, IndexFacts, RankStep
<1>7. \A k \in K : Kept(s, K)[Rank(K, k)] = s[k]
  BY <1>5, <1>6
<1> QED
  BY <1>1, <1>2, <1>3, <1>4, <1>5, <1>6, <1>7 DEF s, K

(* The message before a result that the repair leaves is left too, and     *)
(* still before it.                                                        *)
LEMMA ResultKeepsNeighbour ==
    ASSUME NEW ms \in Seq(Turns), NEW k \in Remaining(ms),
           StripOrphans(ms)[k].results # {}
    PROVE  /\ k > 1 /\ k - 1 \in Remaining(ms)
           /\ Rank(Remaining(ms), k) > 1
           /\ Repair(ms)[Rank(Remaining(ms), k) - 1] = StripOrphans(ms)[k - 1]
           /\ ValidIds(Repair(ms), Rank(Remaining(ms), k)) = ValidIds(ms, k)
<1> DEFINE K == Remaining(ms)
<1>1. k \in 1 .. Len(ms) /\ Len(ms) \in Nat /\ K \in SUBSET (1 .. Len(ms))
  BY RepairFacts
<1>2. ValidIds(ms, k) # {}
  BY <1>1, StripFacts
<1>3. k # 1 /\ ms[k - 1].calls # {} /\ ValidIds(ms, k) = ms[k - 1].calls
  BY <1>2 DEF ValidIds
<1>4. k > 1 /\ k - 1 \in 1 .. Len(ms) /\ (k - 1) + 1 = k
  BY <1>1, <1>3, IndexBefore
<1>5. k - 1 \in K
  BY <1>3, <1>4, RepairFacts
<1> HIDE DEF K
<1>6. Rank(K, k) = Rank(K, k - 1) + 1
  <2>1. \A j \in K : j + 1 \in K => Rank(K, j + 1) = Rank(K, j) + 1
    BY <1>1, IndexFacts
  <2>2. (k - 1) + 1 \in K
    BY <1>4 DEF K
  <2> QED
    BY <1>5, <1>4, <2>1, <2>2
<1>7. Rank(K, k - 1) \in 1 .. Len(Repair(ms)) /\ Repair(ms)[Rank(K, k - 1)] = StripOrphans(ms)[k - 1]
  BY <1>5, RepairFacts DEF K
<1>8. StripOrphans(ms)[k - 1].calls = ms[k - 1].calls
  BY <1>4, StripFacts
<1>9. Rank(K, k) > 1 /\ Rank(K, k) # 1 /\ Rank(K, k) - 1 = Rank(K, k - 1)
  <2>1. Rank(K, k - 1) \in Nat /\ Rank(K, k - 1) >= 1
    BY <1>7
  <2> QED
    BY <1>6, <2>1
<1> QED
  BY <1>3, <1>5, <1>7, <1>8, <1>9, <1>4 DEF ValidIds, K

(* After a repair no result is without its call, and every result that is  *)
(* left would be left by a second one.                                     *)
LEMMA RepairedResults ==
    ASSUME NEW ms \in Seq(Turns), NEW j \in 1 .. Len(Repair(ms)), NEW x \in Repair(ms)[j].results
    PROVE  x.id \in ValidIds(Repair(ms), j)
<1> DEFINE K == Remaining(ms)
           k == IndexOf(K, j)
<1>1. k \in K /\ Repair(ms)[j] = StripOrphans(ms)[k]
  BY RepairFacts
<1>2. K \in SUBSET (1 .. Len(ms)) /\ Len(ms) \in Nat /\ Len(Repair(ms)) = Cardinality(K)
  BY RepairFacts
<1>3. Rank(K, k) = j
  BY <1>2, IndexFacts
<1>4. x \in ms[k].results /\ x.id \in ValidIds(ms, k) /\ StripOrphans(ms)[k].results # {}
  BY <1>1, <1>2, StripFacts
<1> QED
  BY <1>1, <1>3, <1>4, ResultKeepsNeighbour

(* A repaired history has no result without its call right before it.      *)
LEMMA RepairedHasNoOrphans ==
    ASSUME NEW ms \in Seq(Turns)
    PROVE  Orphans(Repair(ms)) = {}
<1>1. DOMAIN Repair(ms) = 1 .. Len(Repair(ms))
  BY RepairFacts
<1>2. \A j \in DOMAIN Repair(ms) : ResultIds(Repair(ms)[j]) \subseteq ValidIds(Repair(ms), j)
  BY <1>1, RepairedResults DEF ResultIds
<1> QED
  BY <1>2 DEF Orphans

(* The first n indices are n.                                              *)
LEMMA UpTo ==
    ASSUME NEW n \in Nat
    PROVE  Cardinality(1 .. n) = n
<1>1. Cardinality(1 .. n) = IF 1 > n THEN 0 ELSE n - 1 + 1
  BY FS_Interval
<1> QED
  BY <1>1

(* Repairing a repaired history changes nothing.                           *)
LEMMA RepairTwice ==
    ASSUME NEW ms \in Seq(Turns)
    PROVE  Repair(Repair(ms)) = Repair(ms)
<1> DEFINE r == Repair(ms)
           s == StripOrphans(r)
           n == Len(r)
           K == Remaining(r)
<1>1. r \in Seq(Turns) /\ n \in Nat
  BY RepairFacts
<1>2. s \in Seq(Turns) /\ Len(s) = n
  BY <1>1, StripFacts
<1>3. ASSUME NEW j \in 1 .. n PROVE s[j] = r[j]
  <2>1. /\ s[j].role = r[j].role /\ s[j].text = r[j].text /\ s[j].calls = r[j].calls
        /\ s[j].results = {x \in r[j].results : x.id \in ValidIds(r, j)}
    BY <1>1, StripFacts
  <2>2. s[j].results = r[j].results
    BY <2>1, RepairedResults
  <2>3. s[j] \in Turns /\ r[j] \in Turns
    BY <1>1, <1>2
  <2> HIDE DEF s, r
  <2> QED
    BY <2>1, <2>2, <2>3, TurnFacts
<1>4. ASSUME NEW j \in 1 .. n PROVE ~Emptied(r[j])
  <2>1. IndexOf(Remaining(ms), j) \in Remaining(ms)
        /\ r[j] = StripOrphans(ms)[IndexOf(Remaining(ms), j)]
    BY RepairFacts
  <2> QED
    BY <2>1 DEF Remaining
<1>5. K = 1 .. n
  <2>1. DOMAIN s = 1 .. n
    BY <1>2
  <2> HIDE DEF r, s
  <2> QED
    BY <1>3, <1>4, <2>1 DEF Remaining, s
<1>6. ASSUME NEW j \in 1 .. n PROVE IndexOf(K, j) = j
  <2>1. {i \in K : i <= j} = 1 .. j
    BY <1>1, <1>5
  <2>2. Rank(K, j) = j
    <3>1. Rank(K, j) = Cardinality(1 .. j)
      BY <2>1 DEF Rank
    <3>2. j \in Nat
      OBVIOUS
    <3> QED
      BY <3>1, <3>2, UpTo
  <2>3. K \in SUBSET (1 .. n) /\ j \in K
    BY <1>5
  <2> HIDE DEF K
  <2>4. \A k \in K : IndexOf(K, Rank(K, k)) = k
    BY <1>1, <2>3, IndexFacts
  <2> QED
    BY <2>2, <2>3, <2>4
<1>7. Cardinality(K) = n
  BY <1>1, <1>5, UpTo
<1>8. /\ Repair(r) \in Seq(Turns) /\ Len(Repair(r)) = Cardinality(K)
      /\ \A j \in 1 .. Len(Repair(r)) : Repair(r)[j] = s[IndexOf(K, j)]
  BY <1>1, RepairFacts
<1> HIDE DEF r, s, K, n
<1>9. Len(Repair(r)) = Len(r) /\ \A j \in 1 .. Len(r) : Repair(r)[j] = r[j]
  BY <1>3, <1>6, <1>7, <1>8 DEF n
<1> QED
  BY <1>1, <1>8, <1>9, SeqEqual DEF r

(* The repair takes away no call, no words and no answer to a call.        *)
LEMMA RepairKeeps ==
    ASSUME NEW ms \in Seq(Turns)
    PROVE  /\ CallsOf(Repair(ms)) = CallsOf(ms)
           /\ Unanswered(Repair(ms)) \subseteq Unanswered(ms)
           /\ \A t \in TextsOf(ms) : t # NoText => t \in TextsOf(Repair(ms))
<1> DEFINE r == Repair(ms)
           s == StripOrphans(ms)
           K == Remaining(ms)
<1>1. /\ DOMAIN ms = 1 .. Len(ms) /\ Len(ms) \in Nat /\ K \in SUBSET (1 .. Len(ms))
      /\ DOMAIN r = 1 .. Len(r) /\ Len(r) \in Nat /\ Len(r) = Cardinality(K)
  BY RepairFacts
<1>2. /\ \A k \in K : /\ Rank(K, k) \in 1 .. Len(r) /\ r[Rank(K, k)] = s[k]
                      /\ s[k].calls = ms[k].calls /\ s[k].text = ms[k].text
      /\ \A j \in 1 .. Len(r) : IndexOf(K, j) \in K /\ r[j] = s[IndexOf(K, j)]
  BY <1>1, RepairFacts, StripFacts
<1>3. \A k \in 1 .. Len(ms) : ms[k].calls # {} \/ ms[k].text # NoText => k \in K
  BY RepairFacts
<1> HIDE DEF r, s, K
<1>4. CallsOf(r) \subseteq CallsOf(ms)
  <2> SUFFICES ASSUME NEW j \in 1 .. Len(r), NEW c \in r[j].calls PROVE c \in CallsOf(ms)
    BY <1>1 DEF CallsOf
  <2>1. IndexOf(K, j) \in DOMAIN ms /\ c \in ms[IndexOf(K, j)].calls
    BY <1>1, <1>2
  <2> QED
    BY <2>1 DEF CallsOf
<1>5. CallsOf(ms) \subseteq CallsOf(r)
  <2> SUFFICES ASSUME NEW k \in 1 .. Len(ms), NEW c \in ms[k].calls PROVE c \in CallsOf(r)
    BY <1>1 DEF CallsOf
  <2>1. k \in K
    BY <1>3
  <2> QED
    BY <1>1, <1>2, <2>1 DEF CallsOf
<1>6. ASSUME NEW t \in TextsOf(ms), t # NoText PROVE t \in TextsOf(r)
  <2>1. PICK k \in 1 .. Len(ms) : ms[k].text = t
    BY <1>1, <1>6 DEF TextsOf
  <2>2. k \in K
    BY <1>3, <1>6, <2>1
  <2> QED
    BY <1>1, <1>2, <2>1, <2>2 DEF TextsOf
<1>7. ASSUME NEW c \in Unanswered(r) PROVE c \in Unanswered(ms)
  <2>1. PICK j \in 1 .. Len(r) :
            c \in r[j].calls /\ (j = Len(r) \/ c \notin ResultIds(r[j + 1]))
    BY <1>1 DEF Unanswered
  <2> DEFINE k == IndexOf(K, j)
  <2>2. k \in K /\ k \in 1 .. Len(ms) /\ c \in ms[k].calls /\ Rank(K, k) = j
    <3>1. k \in K /\ r[j] = s[k]
      BY <1>2, <2>1
    <3>2. Rank(K, k) = j
      BY <1>1, <2>1, IndexFacts
    <3> QED
      BY <1>1, <1>2, <2>1, <3>1, <3>2
  <2> HIDE DEF k
  <2>3. ASSUME k # Len(ms), c \in ResultIds(ms[k + 1]) PROVE FALSE
    <3>1. k + 1 \in 1 .. Len(ms) /\ k + 1 # 1 /\ (k + 1) - 1 = k
      BY <1>1, <2>2, <2>3, IndexAfter
    <3>2. k + 1 \in 1 .. Len(ms) /\ ValidIds(ms, k + 1) = ms[k].calls
      BY <3>1 DEF ValidIds
    <3>3. PICK x \in ms[k + 1].results : x.id = c
      BY <2>3 DEF ResultIds
    <3>4. x \in s[k + 1].results
      BY <2>2, <3>2, <3>3, StripFacts DEF s
    <3>5. k + 1 \in K
      BY <3>2, <3>4, RepairFacts DEF K, s
    <3>6. Rank(K, k + 1) = j + 1
      BY <1>1, <2>2, <3>5, IndexFacts
    <3>7. j + 1 \in 1 .. Len(r) /\ r[j + 1] = s[k + 1]
      BY <1>2, <3>5, <3>6
    <3>8. c \in ResultIds(r[j + 1]) /\ j # Len(r)
      <4>1. c \in ResultIds(r[j + 1])
        BY <3>3, <3>4, <3>7 DEF ResultIds
      <4> QED
        BY <1>1, <3>7, <4>1
    <3> QED
      BY <2>1, <3>8
  <2>4. c \in CallsOf(ms)
    BY <1>1, <2>2 DEF CallsOf
  <2> QED
    BY <1>1, <2>2, <2>3, <2>4 DEF Unanswered
<1> QED
  BY <1>4, <1>5, <1>6, <1>7 DEF r
-----------------------------------------------------------------------------
(***************************************************************************)
(* The other passes: the cut, the stubs and the pruning.                   *)
(***************************************************************************)
LEMMA CutFacts ==
    ASSUME NEW ms \in Seq(Turns), NEW b \in 1 .. Len(ms)
    PROVE  /\ CutAt(ms, b) \in Seq(Turns) /\ Len(CutAt(ms, b)) = Len(ms) - b + 2
           /\ CutAt(ms, b)[1] = User(Projection, {})
           /\ \A j \in 2 .. Len(ms) - b + 2 : CutAt(ms, b)[j] = ms[b + j - 2]
<1> DEFINE tail == SubSeq(ms, b, Len(ms))
           lead == <<User(Projection, {})>>
<1>1. Len(ms) \in Nat /\ b \in Int /\ \A i \in b .. Len(ms) : ms[i] \in Turns
  OBVIOUS
<1>2. /\ tail \in Seq(Turns) /\ Len(tail) = Len(ms) - b + 1
      /\ \A i \in 1 .. Len(ms) - b + 1 : tail[i] = ms[b + i - 1]
  BY <1>1, SubSeqProperties
<1>3. lead \in Seq(Turns) /\ Len(lead) = 1 /\ lead[1] = User(Projection, {})
  BY ReductionAssumption DEF User, Turns, Message, Projection
<1> HIDE DEF tail, lead
<1>4. /\ lead \o tail \in Seq(Turns) /\ Len(lead \o tail) = Len(ms) - b + 2
      /\ \A i \in 1 .. 1 + Len(tail) : (lead \o tail)[i] = IF i <= 1 THEN lead[i] ELSE tail[i - 1]
  <2>1. /\ lead \o tail \in Seq(Turns) /\ Len(lead \o tail) = Len(lead) + Len(tail)
        /\ \A i \in 1 .. Len(lead) + Len(tail) : (lead \o tail)[i] =
               IF i <= Len(lead) THEN lead[i] ELSE tail[i - Len(lead)]
    BY <1>2, <1>3, ConcatProperties
  <2>2. Len(lead) + Len(tail) = Len(ms) - b + 2
    BY <1>1, <1>2, <1>3
  <2> QED
    BY <1>3, <2>1, <2>2
<1>5. (lead \o tail)[1] = User(Projection, {})
  BY <1>1, <1>2, <1>3, <1>4
<1>6. ASSUME NEW j \in 2 .. Len(ms) - b + 2 PROVE (lead \o tail)[j] = ms[b + j - 2]
  <2>1. j \in 1 .. 1 + Len(tail) /\ ~(j <= 1) /\ j - 1 \in 1 .. Len(ms) - b + 1
    BY <1>1, <1>2
  <2>2. (lead \o tail)[j] = tail[j - 1] /\ tail[j - 1] = ms[b + (j - 1) - 1]
    BY <1>2, <1>4, <2>1
  <2>3. b + (j - 1) - 1 = b + j - 2
    BY <1>1
  <2> QED
    BY <2>2, <2>3
<1>7. CutAt(ms, b) = lead \o tail
  BY DEF CutAt, lead, tail
<1> QED
  BY <1>4, <1>5, <1>6, <1>7

(* It parts no call from its results, and loses none from the boundary on. *)
LEMMA CutKeeps ==
    ASSUME NEW ms \in Seq(Turns), NEW b \in 1 .. Len(ms)
    PROVE  /\ Unanswered(CutAt(ms, b)) \subseteq Unanswered(ms)
           /\ CallsOf(CutAt(ms, b)) \subseteq CallsOf(ms)
           /\ \A k \in b .. Len(ms) : ms[k].calls \subseteq CallsOf(CutAt(ms, b))
           /\ ms[b].text \in TextsOf(CutAt(ms, b))
<1> DEFINE c == CutAt(ms, b)
           n == Len(ms) - b + 2
<1>1. /\ DOMAIN c = 1 .. n /\ Len(c) = n /\ n \in Nat /\ 2 <= n /\ Len(ms) \in Nat
      /\ c[1].calls = {} /\ \A j \in 2 .. n : c[j] = ms[b + j - 2]
      /\ DOMAIN ms = 1 .. Len(ms)
  <2>1. User(Projection, {}).calls = {}
    BY DEF User
  <2>2. c \in Seq(Turns) /\ Len(c) = n
    BY CutFacts
  <2>3. c[1].calls = {} /\ \A j \in 2 .. n : c[j] = ms[b + j - 2]
    BY <2>1, CutFacts
  <2>4. Len(ms) \in Nat /\ b \in Nat /\ b <= Len(ms) /\ DOMAIN ms = 1 .. Len(ms)
    OBVIOUS
  <2> HIDE DEF c
  <2> QED
    BY <2>2, <2>3, <2>4
<1>2. \A j \in 2 .. n : b + j - 2 \in 1 .. Len(ms)
  OBVIOUS
<1>3. \A k \in b .. Len(ms) : k - b + 2 \in 2 .. n /\ c[k - b + 2] = ms[k]
  <2> SUFFICES ASSUME NEW k \in b .. Len(ms)
               PROVE  k - b + 2 \in 2 .. n /\ c[k - b + 2] = ms[k]
    OBVIOUS
  <2>1. k - b + 2 \in 2 .. n /\ b + (k - b + 2) - 2 = k
    OBVIOUS
  <2> QED
    BY <1>1, <2>1
<1> HIDE DEF c
<1>4. ASSUME NEW x \in Unanswered(c) PROVE x \in Unanswered(ms)
  <2>1. PICK j \in 1 .. n :
            x \in c[j].calls /\ (j = n \/ x \notin ResultIds(c[j + 1]))
    BY <1>1 DEF Unanswered
  <2> DEFINE k == b + j - 2
  <2>2. j \in 2 .. n /\ k \in 1 .. Len(ms) /\ x \in ms[k].calls
    <3>1. j # 1
      BY <1>1, <2>1
    <3>2. j \in 2 .. n
      BY <3>1
    <3>3. k \in 1 .. Len(ms) /\ c[j] = ms[k]
      BY <1>1, <1>2, <3>2
    <3> HIDE DEF k, n
    <3> QED
      BY <2>1, <3>2, <3>3
  <2>3. j = n => k = Len(ms)
    OBVIOUS
  <2>4. j # n => c[j + 1] = ms[k + 1]
    <3>1. j # n => j + 1 \in 2 .. n /\ b + (j + 1) - 2 = k + 1
      BY <2>2
    <3> QED
      BY <1>1, <3>1
  <2> HIDE DEF k, n
  <2> QED
    BY <1>1, <2>1, <2>2, <2>3, <2>4 DEF Unanswered, CallsOf
<1>5. CallsOf(c) \subseteq CallsOf(ms)
  <2> SUFFICES ASSUME NEW j \in 1 .. n, NEW x \in c[j].calls PROVE x \in CallsOf(ms)
    BY <1>1 DEF CallsOf
  <2>1. j \in 2 .. n
    BY <1>1
  <2> QED
    BY <1>1, <1>2, <2>1 DEF CallsOf
<1>6. ASSUME NEW k \in b .. Len(ms) PROVE ms[k].calls \subseteq CallsOf(c)
  BY <1>1, <1>3 DEF CallsOf
<1>7. ms[b].text \in TextsOf(c)
  <2>1. b \in b .. Len(ms)
    OBVIOUS
  <2>2. b - b + 2 \in DOMAIN c /\ c[b - b + 2] = ms[b]
    BY <1>1, <1>3, <2>1
  <2> QED
    BY <2>2 DEF TextsOf
<1> QED
  BY <1>4, <1>5, <1>6, <1>7 DEF c

(* An ejection candidate is a result in the body.                          *)
LEMMA LargeFacts ==
    ASSUME NEW ms \in Seq(Turns), NEW c \in LargeResults(ms)
    PROVE  /\ c[1] \in 1 .. Len(ms) /\ c[2] \in ms[c[1]].results
           /\ c[2].size >= Threshold
<1>1. PICK i \in DOMAIN ms : c \in {i} \X {x \in ms[i].results : x.size >= Threshold}
  BY DEF LargeResults
<1> QED
  BY <1>1

(* A stub answers the call its content answered.                           *)
LEMMA StubFacts ==
    ASSUME NEW ms \in Seq(Turns), NEW i \in 1 .. Len(ms), NEW x \in ms[i].results
    PROVE  /\ Stubbed(ms, i, x) \in Seq(Turns) /\ Len(Stubbed(ms, i, x)) = Len(ms)
           /\ \A k \in 1 .. Len(ms) :
                  /\ Stubbed(ms, i, x)[k].role = ms[k].role
                  /\ Stubbed(ms, i, x)[k].text = ms[k].text
                  /\ Stubbed(ms, i, x)[k].calls = ms[k].calls
                  /\ ResultIds(Stubbed(ms, i, x)[k]) = ResultIds(ms[k])
<1> DEFINE y == [x EXCEPT !.size = StubSize]
           R == (ms[i].results \ {x}) \cup {y}
           m == [ms[i] EXCEPT !.results = R]
<1>1. ms[i] \in Turns /\ x \in Results /\ ms[i].results \in SUBSET Results
  <2>1. ms[i] \in Turns
    OBVIOUS
  <2> QED
    BY <2>1, TurnFacts
<1>2. y \in Results /\ y.id = x.id
  BY <1>1, ReductionAssumption DEF Results
<1>3. R \in SUBSET Results
  BY <1>1, <1>2
<1>4. ms[i].role = "user"
  BY <1>1, TurnFacts
<1>5. {z.id : z \in R} = {z.id : z \in ms[i].results}
  <2>1. ASSUME NEW z \in R PROVE \E w \in ms[i].results : w.id = z.id
    BY <1>2, <2>1
  <2>2. ASSUME NEW z \in ms[i].results PROVE \E w \in R : w.id = z.id
    BY <1>2, <2>2
  <2> HIDE DEF R
  <2> QED
    BY <2>1, <2>2
<1> HIDE DEF R
<1>6. /\ m \in Turns /\ m.role = ms[i].role /\ m.text = ms[i].text /\ m.calls = ms[i].calls
      /\ m.results = R
  BY <1>1, <1>3, <1>4, WithResults
<1>7. ResultIds(m) = ResultIds(ms[i])
  BY <1>5, <1>6 DEF ResultIds
<1> HIDE DEF m
<1>8. Stubbed(ms, i, x) = [ms EXCEPT ![i] = m]
  BY DEF Stubbed, m, R, y
<1>9. /\ [ms EXCEPT ![i] = m] \in Seq(Turns) /\ Len([ms EXCEPT ![i] = m]) = Len(ms)
      /\ \A k \in 1 .. Len(ms) : [ms EXCEPT ![i] = m][k] = IF k = i THEN m ELSE ms[k]
  BY <1>6, ExceptSeq
<1> QED
  BY <1>6, <1>7, <1>8, <1>9

(* What PairingKept and NewestTurnKept look at. *)
SameShape(ms, ns) ==
    /\ Len(ns) = Len(ms) /\ DOMAIN ms = 1 .. Len(ms) /\ DOMAIN ns = 1 .. Len(ms)
    /\ Len(ms) \in Nat
    /\ \A k \in 1 .. Len(ms) :
           ns[k].text = ms[k].text /\ ns[k].calls = ms[k].calls /\ ResultIds(ns[k]) = ResultIds(ms[k])

(* Where only sizes change no pairing, call or text does.                  *)
LEMMA SameShapeKeeps ==
    ASSUME NEW ms, NEW ns, SameShape(ms, ns)
    PROVE  /\ CallsOf(ns) = CallsOf(ms) /\ TextsOf(ns) = TextsOf(ms)
           /\ Unanswered(ns) \subseteq Unanswered(ms) /\ Orphans(ns) \subseteq Orphans(ms)
<1>1. CallsOf(ns) = CallsOf(ms)
  BY DEF SameShape, CallsOf
<1>2. TextsOf(ns) = TextsOf(ms)
  BY DEF SameShape, TextsOf
<1>3. Unanswered(ns) \subseteq Unanswered(ms)
  <2> SUFFICES ASSUME NEW c \in Unanswered(ns) PROVE c \in Unanswered(ms)
    OBVIOUS
  <2>1. PICK k \in 1 .. Len(ms) :
            c \in ns[k].calls /\ (k = Len(ns) \/ c \notin ResultIds(ns[k + 1]))
    BY DEF Unanswered, SameShape
  <2>2. k # Len(ms) => k + 1 \in 1 .. Len(ms)
    <3>1. Len(ms) \in Nat
      BY DEF SameShape
    <3> QED
      BY <3>1, IndexAfter
  <2> QED
    BY <1>1, <2>1, <2>2 DEF SameShape, Unanswered
<1>4. Orphans(ns) \subseteq Orphans(ms)
  <2> SUFFICES ASSUME NEW k \in 1 .. Len(ms),
                      NEW c \in ResultIds(ns[k]) \ ValidIds(ns, k)
               PROVE  c \in Orphans(ms)
    BY DEF Orphans, SameShape
  <2>1. ValidIds(ns, k) = ValidIds(ms, k)
    <3>1. k # 1 => k - 1 \in 1 .. Len(ms)
      BY DEF SameShape
    <3> QED
      BY <3>1 DEF SameShape, ValidIds
  <2> QED
    BY <2>1 DEF SameShape, Orphans
<1> QED
  BY <1>1, <1>2, <1>3, <1>4

(* A pruned pair is a call without words and its results without words.    *)
LEMMA WithoutPairFacts ==
    ASSUME NEW ms \in Seq(Turns), NEW i \in PrunablePairs(ms)
    PROVE  /\ i \in 2 .. Len(ms) - 2 /\ Len(ms) \in Nat
           /\ WithoutPair(ms, i) \in Seq(Turns) /\ Len(WithoutPair(ms, i)) = Len(ms) - 2
           /\ \A j \in 1 .. i - 1 : WithoutPair(ms, i)[j] = ms[j]
           /\ \A j \in i .. Len(ms) - 2 : WithoutPair(ms, i)[j] = ms[j + 2]
           /\ ms[i].results = {} /\ ms[i].text = NoText
           /\ ms[i + 1].calls = {} /\ ms[i + 1].text = NoText
<1> DEFINE n == Len(ms)
           front == SubSeq(ms, 1, i - 1)
           back == SubSeq(ms, i + 2, n)
<1>1. i \in 2 .. n - 2 /\ n \in Nat /\ IsPair(ms, i) /\ ms[i] \in Turns /\ ms[i + 1] \in Turns
  BY DEF PrunablePairs
<1>2. \A j \in 1 .. n : ms[j] \in Turns
  OBVIOUS
<1>3. /\ front \in Seq(Turns) /\ Len(front) = i - 1
      /\ \A j \in 1 .. i - 1 : front[j] = ms[j]
  <2>1. \A j \in 1 .. i - 1 : ms[j] \in Turns
    BY <1>1, <1>2
  <2>2. /\ front \in Seq(Turns) /\ Len(front) = IF 1 <= i - 1 THEN (i - 1) - 1 + 1 ELSE 0
        /\ \A j \in 1 .. (i - 1) - 1 + 1 : front[j] = ms[1 + j - 1]
    BY <1>1, <2>1, SubSeqProperties
  <2> HIDE DEF front, n
  <2> QED
    BY <1>1, <2>2
<1>4. /\ back \in Seq(Turns) /\ Len(back) = n - i - 1
      /\ \A j \in 1 .. n - i - 1 : back[j] = ms[i + 1 + j]
  <2>1. \A j \in i + 2 .. n : ms[j] \in Turns
    BY <1>1, <1>2
  <2>2. /\ back \in Seq(Turns) /\ Len(back) = IF i + 2 <= n THEN n - (i + 2) + 1 ELSE 0
        /\ \A j \in 1 .. n - (i + 2) + 1 : back[j] = ms[(i + 2) + j - 1]
    BY <1>1, <2>1, SubSeqProperties
  <2> HIDE DEF back, n
  <2>3. i + 2 <= n /\ n - (i + 2) + 1 = n - i - 1
    BY <1>1
  <2>4. ASSUME NEW j \in 1 .. n - i - 1 PROVE back[j] = ms[i + 1 + j]
    <3>1. (i + 2) + j - 1 = i + 1 + j
      BY <1>1
    <3> QED
      BY <2>2, <2>3, <3>1
  <2> QED
    BY <2>2, <2>3, <2>4
<1> HIDE DEF front, back
<1>5. /\ front \o back \in Seq(Turns) /\ Len(front \o back) = n - 2
      /\ \A j \in 1 .. n - 2 : (front \o back)[j] =
             IF j <= i - 1 THEN front[j] ELSE back[j - (i - 1)]
  <2>1. /\ front \o back \in Seq(Turns) /\ Len(front \o back) = Len(front) + Len(back)
        /\ \A j \in 1 .. Len(front) + Len(back) : (front \o back)[j] =
               IF j <= Len(front) THEN front[j] ELSE back[j - Len(front)]
    BY <1>3, <1>4, ConcatProperties
  <2>2. Len(front) + Len(back) = n - 2
    BY <1>1, <1>3, <1>4
  <2> HIDE DEF n
  <2> QED
    BY <1>3, <2>1, <2>2
<1>6. \A j \in 1 .. i - 1 : (front \o back)[j] = ms[j]
  BY <1>1, <1>3, <1>5
<1>7. ASSUME NEW j \in i .. n - 2 PROVE (front \o back)[j] = ms[j + 2]
  <2>1. j \in 1 .. n - 2 /\ ~(j <= i - 1) /\ j - (i - 1) \in 1 .. n - i - 1
        /\ i + 1 + (j - (i - 1)) = j + 2
    BY <1>1
  <2> QED
    BY <1>4, <1>5, <2>1
<1>8. /\ ms[i].results = {} /\ ms[i].text = NoText
      /\ ms[i + 1].calls = {} /\ ms[i + 1].text = NoText
  BY <1>1, TurnFacts DEF IsPair, OnlyToolResults
<1>9. WithoutPair(ms, i) = front \o back
  BY DEF WithoutPair, front, back, n
<1> QED
  BY <1>1, <1>5, <1>6, <1>7, <1>8, <1>9 DEF n

(* Pruning a call together with its results parts nothing else.            *)
LEMMA PruneKeeps ==
    ASSUME NEW ms \in Seq(Turns), NEW i \in PrunablePairs(ms)
    PROVE  /\ Unanswered(WithoutPair(ms, i)) \subseteq Unanswered(ms)
           /\ Orphans(WithoutPair(ms, i)) \subseteq Orphans(ms)
           /\ CallsOf(WithoutPair(ms, i)) \subseteq CallsOf(ms)
           /\ \A t \in TextsOf(ms) : t # NoText => t \in TextsOf(WithoutPair(ms, i))
           /\ LargeResults(ms) = {} => LargeResults(WithoutPair(ms, i)) = {}
<1> DEFINE w == WithoutPair(ms, i)
           n == Len(ms)
           from(j) == IF j < i THEN j ELSE j + 2
<1>1. /\ i \in 2 .. n - 2 /\ n \in Nat /\ DOMAIN ms = 1 .. n
      /\ w \in Seq(Turns) /\ Len(w) = n - 2 /\ DOMAIN w = 1 .. n - 2
      /\ ms[i].results = {} /\ ms[i].text = NoText
      /\ ms[i + 1].calls = {} /\ ms[i + 1].text = NoText
  BY WithoutPairFacts
<1>2. n \in Int /\ i \in Int /\ 2 <= i /\ i <= n - 2
  BY <1>1
<1>3. ASSUME NEW j \in 1 .. n - 2 PROVE from(j) \in 1 .. n /\ w[j] = ms[from(j)]
  <2>1. CASE j < i
    <3>1. j \in 1 .. i - 1 /\ j \in 1 .. n
      BY <1>1, <2>1
    <3> QED
      BY <2>1, <3>1, WithoutPairFacts
  <2>2. CASE ~(j < i)
    <3>1. j \in i .. n - 2 /\ j + 2 \in 1 .. n
      BY <1>1, <2>2
    <3> QED
      BY <2>2, <3>1, WithoutPairFacts
  <2> QED
    BY <2>1, <2>2
<1>4. \A k \in 1 .. n : k # i /\ k # i + 1 => \E j \in 1 .. n - 2 : from(j) = k
  <2> SUFFICES ASSUME NEW k \in 1 .. n, k # i, k # i + 1
               PROVE  \E j \in 1 .. n - 2 : from(j) = k
    OBVIOUS
  <2>1. CASE k < i
    <3>1. k \in 1 .. n - 2
      BY <1>1, <2>1
    <3> QED
      BY <2>1, <3>1
  <2>2. CASE ~(k < i)
    <3>1. k - 2 \in 1 .. n - 2 /\ ~(k - 2 < i) /\ (k - 2) + 2 = k
      BY <1>1, <2>2
    <3> QED
      BY <3>1
  <2> QED
    BY <2>1, <2>2
<1> HIDE DEF w
<1>5. CallsOf(w) \subseteq CallsOf(ms)
  <2> SUFFICES ASSUME NEW j \in 1 .. n - 2, NEW c \in w[j].calls PROVE c \in CallsOf(ms)
    BY <1>1 DEF CallsOf
  <2> QED
    BY <1>1, <1>3 DEF CallsOf
<1>6. ASSUME NEW t \in TextsOf(ms), t # NoText PROVE t \in TextsOf(w)
  <2>1. PICK k \in 1 .. n : ms[k].text = t
    BY <1>1 DEF TextsOf
  <2>2. PICK j \in 1 .. n - 2 : from(j) = k
    BY <1>1, <1>4, <1>6, <2>1
  <2>3. w[j].text = t
    BY <1>3, <2>1, <2>2
  <2> QED
    BY <1>1, <2>3 DEF TextsOf
<1>7. ASSUME LargeResults(ms) = {} PROVE LargeResults(w) = {}
  <2> SUFFICES ASSUME NEW c \in LargeResults(w) PROVE FALSE
    OBVIOUS
  <2>1. c[1] \in 1 .. n - 2 /\ c[2] \in w[c[1]].results /\ c[2].size >= Threshold
    BY <1>1, LargeFacts
  <2>2. from(c[1]) \in DOMAIN ms /\ c[2] \in ms[from(c[1])].results
    BY <1>1, <1>3, <2>1
  <2> HIDE DEF from
  <2>3. <<from(c[1]), c[2]>> \in LargeResults(ms)
    BY <2>1, <2>2 DEF LargeResults
  <2> QED
    BY <1>7, <2>3
<1>8. ASSUME NEW c \in Unanswered(w) PROVE c \in Unanswered(ms)
  <2>1. PICK j \in 1 .. n - 2 :
            c \in w[j].calls /\ (j = n - 2 \/ c \notin ResultIds(w[j + 1]))
    BY <1>1 DEF Unanswered
  <2>2. from(j) \in 1 .. n /\ c \in ms[from(j)].calls /\ c \in CallsOf(ms)
    <3>1. from(j) \in 1 .. n /\ w[j] = ms[from(j)]
      BY <1>3
    <3> HIDE DEF from
    <3> QED
      BY <1>1, <2>1, <3>1 DEF CallsOf
  <2>3. CASE j = n - 2
    <3>1. from(j) = n
      <4> HIDE DEF n
      <4> QED
        BY <1>2, <2>3
    <3> QED
      BY <1>1, <2>2, <3>1 DEF Unanswered
  <2>4. CASE j # n - 2 /\ j = i - 1
    <3>1. from(j) = j /\ j + 1 = i
      <4> HIDE DEF n
      <4> QED
        BY <1>2, <2>4
    <3>2. c \notin ResultIds(ms[j + 1])
      BY <1>1, <3>1 DEF ResultIds
    <3> QED
      BY <1>1, <2>2, <3>1, <3>2 DEF Unanswered
  <2>5. CASE j # n - 2 /\ j # i - 1
    <3>1. from(j + 1) = from(j) + 1 /\ j + 1 \in 1 .. n - 2
      <4> HIDE DEF n
      <4> QED
        BY <1>2, <2>5
    <3>2. c \notin ResultIds(ms[from(j) + 1])
      BY <1>3, <2>1, <2>5, <3>1
    <3> HIDE DEF from
    <3> QED
      BY <1>1, <2>2, <3>2 DEF Unanswered
  <2> QED
    BY <2>3, <2>4, <2>5
<1>9. ASSUME NEW j \in 1 .. n - 2, NEW x \in ResultIds(w[j]) \ ValidIds(w, j)
      PROVE  x \in Orphans(ms)
  <2>1. from(j) \in 1 .. n /\ x \in ResultIds(ms[from(j)])
    BY <1>3
  <2>2. x \notin ValidIds(ms, from(j))
    <3>1. CASE j = i
      <4>1. from(j) = i + 2 /\ i + 2 # 1 /\ (i + 2) - 1 = i + 1
        BY <1>1, <3>1
      <4> QED
        BY <1>1, <4>1 DEF ValidIds
    <3>2. CASE j # i /\ j # 1
      <4>1. j - 1 \in 1 .. n - 2 /\ from(j - 1) = from(j) - 1 /\ from(j) # 1
        BY <1>1, <3>2
      <4>2. w[j - 1] = ms[from(j) - 1]
        BY <1>3, <4>1
      <4> HIDE DEF from
      <4> QED
        BY <1>9, <3>2, <4>1, <4>2 DEF ValidIds
    <3>3. CASE j # i /\ j = 1
      <4>1. from(j) = 1
        BY <1>1, <3>3
      <4> QED
        BY <4>1 DEF ValidIds
    <3> QED
      BY <3>1, <3>2, <3>3
  <2> HIDE DEF from
  <2> QED
    BY <1>1, <2>1, <2>2 DEF Orphans
<1>10. Orphans(w) \subseteq Orphans(ms)
  <2> SUFFICES ASSUME NEW j \in 1 .. n - 2, NEW x \in ResultIds(w[j]) \ ValidIds(w, j)
               PROVE  x \in Orphans(ms)
    BY <1>1 DEF Orphans
  <2> QED
    BY <1>9
<1> QED
  BY <1>5, <1>6, <1>7, <1>8, <1>10 DEF w
-----------------------------------------------------------------------------
(***************************************************************************)
(* The invariant of the handler.                                           *)
(***************************************************************************)
Stages == {"harness", "rebuild", "eject", "prune", "trim", "forward", "refused"}

(* Every user message says something or answers something. *)
Spoken(ms) ==
    \A i \in DOMAIN ms : ms[i].role = "user" => ms[i].text # NoText \/ ms[i].results # {}

BodyTypeOK ==
    /\ phase \in Stages
    /\ messages \in Seq(Turns) /\ received \in Seq(Turns) /\ entry \in Seq(Turns)
    /\ tools \subseteq Tools /\ enabled \in BOOLEAN /\ cap \in Nat

(* What the harness sends, and what the handler has of it at first. *)
SentAsSpoken ==
    /\ phase = "harness" => messages # <<>> /\ Spoken(messages)
    /\ Spoken(received)
    /\ phase = "rebuild" => messages = received

(* No tier takes a tool before the last, and no tier starts before the ones *)
(* before it have given all they can.                                       *)
TiersInOrder ==
    /\ phase \notin {"forward", "refused"} => tools = Tools
    /\ phase \in {"prune", "trim"} => LargeResults(messages) = {}
    /\ phase = "trim" => PrunablePairs(messages) = {} /\ ~UnderCap

ReductionInvariant ==
    /\ BodyTypeOK
    /\ SentAsSpoken
    /\ TiersInOrder
    /\ PairingKept
    /\ NewestTurnKept
    /\ UsedToolsDefined
    /\ CapMetOrExhausted

(* Calls name tools of the request.                                        *)
LEMMA CallsTyped ==
    ASSUME NEW ms \in Seq(Turns), NEW c \in CallsOf(ms)
    PROVE  c[2] \in Tools
<1>1. PICK i \in 1 .. Len(ms) : c \in ms[i].calls
  BY DEF CallsOf
<1>2. ms[i] \in Turns
  OBVIOUS
<1>3. c \in Nat \X Tools
  BY <1>1, <1>2, TurnFacts
<1> QED
  BY <1>3

(* The first words of the user are a well-formed history.                  *)
LEMMA ReductionStarts == ReductionInit => ReductionInvariant
<1> SUFFICES ASSUME ReductionInit PROVE ReductionInvariant
  OBVIOUS
<1> DEFINE m == User(1, {})
<1>1. /\ m \in Turns /\ m.text # NoText /\ m.calls = {}
  BY DEF User, Turns, Message, NoText
<1> HIDE DEF m
<1>2. messages = <<m>>
  BY DEF ReductionInit, m
<1>3. messages \in Seq(Turns) /\ messages # <<>> /\ DOMAIN messages = {1} /\ messages[1] = m
  BY <1>1, <1>2
<1>4. BodyTypeOK
  <2>1. received \in Seq(Turns) /\ entry \in Seq(Turns)
    BY EmptySeq DEF ReductionInit
  <2>2. phase \in Stages /\ tools \subseteq Tools /\ enabled \in BOOLEAN /\ cap \in Nat
    BY DEF ReductionInit, Stages
  <2> QED
    BY <1>3, <2>1, <2>2 DEF BodyTypeOK
<1>5. SentAsSpoken
  <2>1. Spoken(messages)
    BY <1>1, <1>3 DEF Spoken
  <2>2. Spoken(received)
    BY DEF Spoken, ReductionInit
  <2> QED
    BY <1>3, <2>1, <2>2 DEF SentAsSpoken, ReductionInit
<1>6. TiersInOrder /\ PairingKept /\ NewestTurnKept /\ CapMetOrExhausted
  BY DEF ReductionInit, TiersInOrder, PairingKept, NewestTurnKept, CapMetOrExhausted
<1>7. UsedToolsDefined
  BY <1>4, CallsTyped DEF UsedToolsDefined, ReductionInit, BodyTypeOK
<1> QED
  BY <1>4, <1>5, <1>6, <1>7 DEF ReductionInvariant

(* The history grows by well-formed messages.                              *)
LEMMA HistoryGrows ==
    ASSUME ReductionInvariant, NEW m \in Turns, HarnessAppends(m),
           m.role = "user" => m.text # NoText \/ m.results # {}
    PROVE  ReductionInvariant'
<1>1. /\ phase = "harness" /\ phase' = "harness" /\ messages' = Append(messages, m)
      /\ UNCHANGED <<tools, entry, enabled, cap, received>>
      /\ BodyTypeOK /\ SentAsSpoken /\ TiersInOrder
  BY DEF ReductionInvariant, HarnessAppends, setting
<1>2. /\ messages' \in Seq(Turns) /\ Len(messages') = Len(messages) + 1
      /\ \A i \in 1 .. Len(messages) : messages'[i] = messages[i]
      /\ messages'[Len(messages) + 1] = m
      /\ Len(messages) \in Nat
  <2>1. messages \in Seq(Turns)
    BY <1>1 DEF BodyTypeOK
  <2> QED
    BY <1>1, <2>1, AppendProperties
<1>3. BodyTypeOK'
  BY <1>1, <1>2 DEF BodyTypeOK
<1>4. SentAsSpoken'
  <2>1. Spoken(messages')
    <3> SUFFICES ASSUME NEW i \in 1 .. Len(messages) + 1, messages'[i].role = "user"
                 PROVE  messages'[i].text # NoText \/ messages'[i].results # {}
      BY <1>2 DEF Spoken
    <3>1. CASE i = Len(messages) + 1
      BY <1>2, <3>1
    <3>2. CASE i # Len(messages) + 1
      <4>1. i \in 1 .. Len(messages) /\ messages \in Seq(Turns)
        BY <1>1, <1>2, <3>2 DEF BodyTypeOK
      <4> QED
        BY <1>1, <1>2, <4>1 DEF SentAsSpoken, Spoken
    <3> QED
      BY <3>1, <3>2
  <2>2. messages' # <<>>
    BY <1>2
  <2>3. Spoken(received)'
    BY <1>1 DEF SentAsSpoken, Spoken
  <2> QED
    BY <1>1, <2>1, <2>2, <2>3 DEF SentAsSpoken, Spoken
<1>5. TiersInOrder'
  BY <1>1 DEF TiersInOrder
<1>6. PairingKept' /\ NewestTurnKept' /\ CapMetOrExhausted'
  BY <1>1 DEF PairingKept, NewestTurnKept, CapMetOrExhausted
<1>7. UsedToolsDefined'
  BY <1>1, <1>2, CallsTyped DEF UsedToolsDefined, TiersInOrder
<1> QED
  BY <1>3, <1>4, <1>5, <1>6, <1>7 DEF ReductionInvariant

(* The model's turn adds calls, or words.                                  *)
LEMMA ModelSpeaksKeeps == ReductionInvariant /\ ModelSpeaks => ReductionInvariant'
<1> SUFFICES ASSUME ReductionInvariant, ModelSpeaks PROVE ReductionInvariant'
  OBVIOUS
<1>1. Len(messages) \in Nat
  BY DEF ReductionInvariant, BodyTypeOK
<1>2. PICK calls \in SUBSET {Call(Len(messages) + 1, t) : t \in Tools} :
          HarnessAppends(Assistant(IF calls = {} THEN Len(messages) + 1 ELSE NoText, calls))
  BY DEF ModelSpeaks
<1> DEFINE m == Assistant(IF calls = {} THEN Len(messages) + 1 ELSE NoText, calls)
<1>3. calls \in SUBSET (Nat \X Tools)
  BY <1>1 DEF Call
<1>4. m \in Turns /\ m.role = "assistant"
  BY <1>1, <1>3 DEF Assistant, Turns, Message, NoText
<1> HIDE DEF m
<1> QED
  BY <1>2, <1>4, HistoryGrows DEF m

(* The user's turn adds words, results, or both.                           *)
LEMMA UserSpeaksKeeps == ReductionInvariant /\ UserSpeaks => ReductionInvariant'
<1> SUFFICES ASSUME ReductionInvariant, UserSpeaks PROVE ReductionInvariant'
  OBVIOUS
<1> DEFINE last == messages[Len(messages)]
<1>1. Len(messages) \in Nat /\ last \in Turns
  <2>1. messages \in Seq(Turns) /\ messages # <<>>
    BY DEF ReductionInvariant, BodyTypeOK, SentAsSpoken, UserSpeaks
  <2> QED
    BY <2>1
<1>2. PICK results \in SUBSET (Answers(last.calls) \cup {Ghost}),
           text \in {NoText, Len(messages) + 1} :
          (text # NoText \/ results # {}) /\ HarnessAppends(User(text, results))
  BY DEF UserSpeaks
<1>3. Answers(last.calls) \subseteq Results
  <2> SUFFICES ASSUME NEW c \in last.calls, NEW x \in [id : {c}, size : ResultSizes]
               PROVE  x \in Results
    BY DEF Answers
  <2>1. c \in Ids
    BY <1>1, TurnFacts DEF Ids
  <2> QED
    BY <2>1, ReductionAssumption DEF Results
<1>4. Ghost \in Results
  <2>1. Ghost.id \in Ids
    BY DEF Ids
  <2> QED
    BY <2>1, ReductionAssumption DEF Results, Ghost
<1> DEFINE m == User(text, results)
<1>5. m \in Turns /\ m.text = text /\ m.results = results
  <2>1. results \in SUBSET Results /\ text \in Nat
    BY <1>1, <1>3, <1>4 DEF NoText
  <2> QED
    BY <2>1 DEF User, Turns, Message
<1> HIDE DEF m
<1> QED
  BY <1>2, <1>5, HistoryGrows DEF m

(* Any suffix may be submitted.                                            *)
LEMMA SubmitKeeps ==
    ASSUME ReductionInvariant, NEW first \in DOMAIN messages, Submit(first)
    PROVE  ReductionInvariant'
<1>1. /\ phase = "harness" /\ phase' = "rebuild" /\ messages' = SubSeq(messages, first, Len(messages))
      /\ received' = messages' /\ enabled' \in BOOLEAN /\ cap' \in Nat
      /\ UNCHANGED <<tools, entry>> /\ BodyTypeOK /\ SentAsSpoken /\ TiersInOrder
  BY ReductionAssumption DEF ReductionInvariant, Submit
<1>2. messages \in Seq(Turns) /\ first \in 1 .. Len(messages) /\ Len(messages) \in Nat
  BY <1>1 DEF BodyTypeOK
<1>3. /\ messages' \in Seq(Turns) /\ Len(messages') = Len(messages) - first + 1
      /\ \A i \in 1 .. Len(messages) - first + 1 : messages'[i] = messages[first + i - 1]
  <2>1. \A i \in first .. Len(messages) : messages[i] \in Turns
    BY <1>2
  <2> QED
    BY <1>1, <1>2, <2>1, SubSeqProperties
<1>4. BodyTypeOK'
  BY <1>1, <1>3 DEF BodyTypeOK, Stages
<1>5. Spoken(messages')
  <2> SUFFICES ASSUME NEW i \in 1 .. Len(messages) - first + 1, messages'[i].role = "user"
               PROVE  messages'[i].text # NoText \/ messages'[i].results # {}
    <3>1. DOMAIN messages' = 1 .. Len(messages) - first + 1
      BY <1>3
    <3> QED
      BY <3>1 DEF Spoken
  <2>1. first + i - 1 \in DOMAIN messages /\ messages'[i] = messages[first + i - 1]
    BY <1>2, <1>3
  <2> QED
    BY <1>1, <2>1 DEF SentAsSpoken, Spoken
<1>6. SentAsSpoken'
  BY <1>1, <1>5 DEF SentAsSpoken, Spoken
<1>7. TiersInOrder' /\ CapMetOrExhausted'
  BY <1>1 DEF TiersInOrder, CapMetOrExhausted
<1>8. PairingKept'
  BY <1>1 DEF PairingKept
<1>9. NewestTurnKept'
  <2> SUFFICES ASSUME RealUserMessages(messages') # {}
               PROVE  messages'[Boundary(messages')].text \in TextsOf(messages')
    BY <1>1 DEF NewestTurnKept
  <2>1. Boundary(messages') \in DOMAIN messages'
    <3>1. RealUserMessages(messages') \in SUBSET (1 .. Len(messages'))
      BY <1>3 DEF RealUserMessages
    <3>2. Len(messages') \in Nat
      BY <1>3
    <3>3. Max(RealUserMessages(messages')) \in RealUserMessages(messages')
      BY <3>1, <3>2, Greatest
    <3> QED
      BY <3>3 DEF RealUserMessages, Boundary
  <2> QED
    BY <2>1 DEF TextsOf
<1>10. UsedToolsDefined'
  BY <1>1, <1>3, CallsTyped DEF UsedToolsDefined, TiersInOrder
<1> QED
  BY <1>4, <1>6, <1>7, <1>8, <1>9, <1>10 DEF ReductionInvariant

(* The newest real user message is one, and has words.                     *)
LEMMA BoundaryFacts ==
    ASSUME NEW ms \in Seq(Turns), Spoken(ms), RealUserMessages(ms) # {}
    PROVE  /\ Boundary(ms) \in 1 .. Len(ms)
           /\ ms[Boundary(ms)].text # NoText
<1>1. RealUserMessages(ms) \in SUBSET (1 .. Len(ms)) /\ Len(ms) \in Nat
  BY DEF RealUserMessages
<1>2. Boundary(ms) \in RealUserMessages(ms)
  BY <1>1, Greatest DEF Boundary
<1>3. Boundary(ms) \in DOMAIN ms /\ IsRealUserMessage(ms[Boundary(ms)])
  BY <1>2 DEF RealUserMessages
<1>4. ms[Boundary(ms)].calls = {}
  <2>1. ms[Boundary(ms)] \in Turns
    BY <1>3
  <2> QED
    BY <1>3, <2>1, TurnFacts DEF IsRealUserMessage
<1> QED
  BY <1>1, <1>2, <1>3, <1>4 DEF IsRealUserMessage, Spoken

(* A set that has the calls of all messages from b on has those of the     *)
(* tail.                                                                   *)
LEMMA RecentCalls ==
    ASSUME NEW ms \in Seq(Turns), NEW b \in 1 .. Len(ms), NEW S,
           \A k \in b .. Len(ms) : ms[k].calls \subseteq S
    PROVE  CallsOf(SubSeq(ms, b, Len(ms))) \subseteq S
<1> DEFINE tail == SubSeq(ms, b, Len(ms))
<1>1. Len(ms) \in Nat /\ b \in Nat /\ \A i \in b .. Len(ms) : ms[i] \in Turns
  OBVIOUS
<1>2. /\ tail \in Seq(Turns) /\ Len(tail) = Len(ms) - b + 1
      /\ \A i \in 1 .. Len(ms) - b + 1 : tail[i] = ms[b + i - 1]
  BY <1>1, SubSeqProperties
<1> HIDE DEF tail
<1>3. DOMAIN tail = 1 .. Len(ms) - b + 1
  BY <1>2
<1>4. ASSUME NEW i \in 1 .. Len(ms) - b + 1 PROVE tail[i].calls \subseteq S
  <2>1. b + i - 1 \in b .. Len(ms) /\ tail[i] = ms[b + i - 1]
    BY <1>1, <1>2
  <2> QED
    BY <2>1
<1>5. CallsOf(tail) \subseteq S
  BY <1>3, <1>4 DEF CallsOf
<1> QED
  BY <1>5 DEF tail

(* What a rebuild keeps of a history.                                      *)
LEMMA RebuiltKeeps ==
    ASSUME NEW ms \in Seq(Turns), Spoken(ms)
    PROVE  /\ Rebuilt(ms) \in Seq(Turns) /\ Orphans(Rebuilt(ms)) = {}
           /\ Unanswered(Rebuilt(ms)) \subseteq Unanswered(ms)
           /\ CallsOf(Rebuilt(ms)) \subseteq CallsOf(ms)
           /\ RealUserMessages(ms) # {} =>
                  /\ ms[Boundary(ms)].text \in TextsOf(Rebuilt(ms))
                  /\ \A k \in Boundary(ms) .. Len(ms) : ms[k].calls \subseteq CallsOf(Rebuilt(ms))
<1> DEFINE b == Boundary(ms)
<1>1. CASE RealUserMessages(ms) = {} \/ b = 1
  <2>1. Rebuilt(ms) = Repair(ms)
    BY <1>1 DEF Rebuilt
  <2>2. /\ Repair(ms) \in Seq(Turns) /\ Orphans(Repair(ms)) = {}
        /\ Unanswered(Repair(ms)) \subseteq Unanswered(ms)
        /\ CallsOf(Repair(ms)) = CallsOf(ms)
    BY RepairFacts, RepairedHasNoOrphans, RepairKeeps
  <2>3. ASSUME RealUserMessages(ms) # {}
        PROVE  /\ ms[b].text \in TextsOf(Repair(ms))
               /\ \A k \in b .. Len(ms) : ms[k].calls \subseteq CallsOf(Repair(ms))
    <3>1. b \in 1 .. Len(ms) /\ ms[b].text # NoText /\ DOMAIN ms = 1 .. Len(ms)
      BY <2>3, BoundaryFacts
    <3>2. ms[b].text \in TextsOf(ms)
      BY <3>1 DEF TextsOf
    <3>3. \A k \in b .. Len(ms) : ms[k].calls \subseteq CallsOf(ms)
      BY <3>1 DEF CallsOf
    <3> QED
      BY <2>2, <3>1, <3>2, <3>3, RepairKeeps
  <2> QED
    BY <2>1, <2>2, <2>3
<1>2. CASE RealUserMessages(ms) # {} /\ b # 1
  <2> DEFINE c == CutAt(ms, b)
  <2>1. Rebuilt(ms) = Repair(c)
    BY <1>2 DEF Rebuilt
  <2>2. b \in 1 .. Len(ms) /\ ms[b].text # NoText
    BY <1>2, BoundaryFacts
  <2> HIDE DEF b
  <2>3. /\ c \in Seq(Turns) /\ Unanswered(c) \subseteq Unanswered(ms)
        /\ CallsOf(c) \subseteq CallsOf(ms)
        /\ \A k \in b .. Len(ms) : ms[k].calls \subseteq CallsOf(c)
        /\ ms[b].text \in TextsOf(c)
    BY <2>2, CutFacts, CutKeeps
  <2> HIDE DEF c
  <2>4. /\ Repair(c) \in Seq(Turns) /\ Orphans(Repair(c)) = {}
        /\ Unanswered(Repair(c)) \subseteq Unanswered(c)
        /\ CallsOf(Repair(c)) = CallsOf(c)
        /\ ms[b].text \in TextsOf(Repair(c))
    BY <2>2, <2>3, RepairFacts, RepairedHasNoOrphans, RepairKeeps
  <2> QED
    BY <2>1, <2>3, <2>4 DEF b
<1> QED
  BY <1>1, <1>2

(* The rebuild keeps the invariant, whether or not it is enabled.          *)
LEMMA RebuildKeeps == ReductionInvariant /\ Rebuild => ReductionInvariant'
<1> SUFFICES ASSUME ReductionInvariant, Rebuild PROVE ReductionInvariant'
  OBVIOUS
<1> DEFINE b == Boundary(received)
<1>1. /\ phase = "rebuild" /\ phase' = "eject" /\ entry' = messages'
      /\ messages' = IF enabled THEN Rebuilt(received) ELSE received
      /\ UNCHANGED <<tools, enabled, cap, received>>
      /\ BodyTypeOK /\ SentAsSpoken /\ TiersInOrder /\ received \in Seq(Turns) /\ Spoken(received)
  BY DEF ReductionInvariant, Rebuild, SentAsSpoken, BodyTypeOK, setting
<1>2. /\ messages' \in Seq(Turns)
      /\ enabled => Orphans(messages') = {}
      /\ Unanswered(messages') \subseteq Unanswered(received)
      /\ Orphans(messages') \subseteq Orphans(received)
  BY <1>1, RebuiltKeeps
<1>3. ASSUME RealUserMessages(received) # {}
      PROVE  /\ received[b].text \in TextsOf(messages')
             /\ CallsOf(SubSeq(received, b, Len(received))) \subseteq CallsOf(messages')
  <2>1. b \in 1 .. Len(received) /\ DOMAIN received = 1 .. Len(received)
    BY <1>1, <1>3, BoundaryFacts
  <2>2. /\ received[b].text \in TextsOf(messages')
        /\ \A k \in b .. Len(received) : received[k].calls \subseteq CallsOf(messages')
    <3>1. CASE enabled
      BY <1>1, <1>3, <3>1, RebuiltKeeps
    <3>2. CASE ~enabled
      <4>1. received[b].text \in TextsOf(received)
        BY <2>1 DEF TextsOf
      <4>2. \A k \in b .. Len(received) : received[k].calls \subseteq CallsOf(received)
        BY <2>1 DEF CallsOf
      <4> QED
        BY <1>1, <3>2, <4>1, <4>2
    <3> QED
      BY <3>1, <3>2
  <2> QED
    BY <1>1, <2>1, <2>2, RecentCalls
<1>4. BodyTypeOK'
  BY <1>1, <1>2 DEF BodyTypeOK, Stages
<1>5. SentAsSpoken'
  BY <1>1 DEF SentAsSpoken, Spoken
<1>6. TiersInOrder' /\ CapMetOrExhausted'
  BY <1>1 DEF TiersInOrder, CapMetOrExhausted
<1>7. PairingKept'
  BY <1>1, <1>2 DEF PairingKept
<1>8. NewestTurnKept'
  <2>1. received' = received /\ entry' = messages'
    BY <1>1
  <2> QED
    BY <1>3, <2>1 DEF NewestTurnKept
<1>9. UsedToolsDefined'
  BY <1>1, <1>2, CallsTyped DEF UsedToolsDefined, TiersInOrder
<1> QED
  BY <1>4, <1>5, <1>6, <1>7, <1>8, <1>9 DEF ReductionInvariant

(* What the tiers leave of the messages: no pairing is broken by them, no  *)
(* words are lost and nothing is added.                                    *)
TierKeeps(ms, ns) ==
    /\ ns \in Seq(Turns)
    /\ Unanswered(ns) \subseteq Unanswered(ms) /\ Orphans(ns) \subseteq Orphans(ms)
    /\ CallsOf(ns) \subseteq CallsOf(ms)
    /\ \A t \in TextsOf(ms) : t # NoText => t \in TextsOf(ns)

(* A step of tier A or B keeps what does not depend on the tier.           *)
LEMMA TierStep ==
    ASSUME ReductionInvariant, phase \in {"eject", "prune"}, phase' = phase,
           UNCHANGED <<tools, entry, setting>>, TierKeeps(messages, messages')
    PROVE  /\ BodyTypeOK' /\ SentAsSpoken' /\ PairingKept' /\ NewestTurnKept'
           /\ UsedToolsDefined' /\ CapMetOrExhausted' /\ tools' = Tools
<1>1. /\ UNCHANGED <<tools, entry, enabled, cap, received>> /\ tools = Tools
      /\ BodyTypeOK /\ SentAsSpoken /\ PairingKept /\ NewestTurnKept
      /\ messages' \in Seq(Turns)
  BY DEF ReductionInvariant, setting, TierKeeps, TiersInOrder
<1>2. BodyTypeOK'
  BY <1>1 DEF BodyTypeOK
<1>3. SentAsSpoken'
  BY <1>1 DEF SentAsSpoken, Spoken
<1>4. PairingKept'
  BY <1>1 DEF PairingKept, TierKeeps
<1>5. NewestTurnKept'
  <2>1. RealUserMessages(received) # {} => received[Boundary(received)].text # NoText
    BY <1>1, BoundaryFacts DEF BodyTypeOK, SentAsSpoken
  <2>2. received' = received /\ entry' = entry
    BY <1>1
  <2> QED
    BY <1>1, <2>1, <2>2 DEF NewestTurnKept, TierKeeps
<1>6. UsedToolsDefined'
  BY <1>1, CallsTyped DEF UsedToolsDefined
<1>7. CapMetOrExhausted'
  BY DEF CapMetOrExhausted
<1> QED
  BY <1>1, <1>2, <1>3, <1>4, <1>5, <1>6, <1>7

(* A stub in place of a content keeps the invariant.                       *)
LEMMA EjectKeeps == ReductionInvariant /\ Eject => ReductionInvariant'
<1> SUFFICES ASSUME ReductionInvariant, Eject PROVE ReductionInvariant'
  OBVIOUS
<1>1. /\ phase = "eject" /\ UNCHANGED <<phase, tools, entry, setting>>
      /\ messages \in Seq(Turns) /\ Len(messages) \in Nat
  BY DEF Eject, ReductionInvariant, BodyTypeOK
<1>2. PICK c \in LargeResults(messages) : messages' = Stubbed(messages, c[1], c[2])
  BY DEF Eject
<1>3. c[1] \in 1 .. Len(messages) /\ c[2] \in messages[c[1]].results
  BY <1>1, LargeFacts
<1>4. /\ messages' \in Seq(Turns) /\ Len(messages') = Len(messages)
      /\ \A k \in 1 .. Len(messages) :
             /\ messages'[k].text = messages[k].text
             /\ messages'[k].calls = messages[k].calls
             /\ ResultIds(messages'[k]) = ResultIds(messages[k])
  BY <1>1, <1>2, <1>3, StubFacts
<1>5. SameShape(messages, messages')
  <2>1. DOMAIN messages = 1 .. Len(messages) /\ DOMAIN messages' = 1 .. Len(messages)
    BY <1>1, <1>4
  <2> QED
    BY <1>1, <1>4, <2>1 DEF SameShape
<1>6. TierKeeps(messages, messages')
  BY <1>4, <1>5, SameShapeKeeps DEF TierKeeps
<1>7. TiersInOrder'
  BY <1>1, <1>6, TierStep DEF TiersInOrder
<1> QED
  BY <1>1, <1>6, <1>7, TierStep DEF ReductionInvariant

(* Pruning the oldest pair keeps the invariant.                            *)
LEMMA PruneStepKeeps == ReductionInvariant /\ Prune => ReductionInvariant'
<1> SUFFICES ASSUME ReductionInvariant, Prune PROVE ReductionInvariant'
  OBVIOUS
<1>1. /\ phase = "prune" /\ UNCHANGED <<phase, tools, entry, setting>>
      /\ messages \in Seq(Turns) /\ PrunablePairs(messages) # {}
      /\ LargeResults(messages) = {}
      /\ messages' = WithoutPair(messages, Min(PrunablePairs(messages)))
  BY DEF Prune, ReductionInvariant, BodyTypeOK, TiersInOrder
<1>2. Min(PrunablePairs(messages)) \in PrunablePairs(messages)
  <2>1. PrunablePairs(messages) \in SUBSET Nat
    BY <1>1 DEF PrunablePairs
  <2>2. \E i \in PrunablePairs(messages) : \A j \in PrunablePairs(messages) : i <= j
    BY <1>1, <2>1, Least
  <2> QED
    BY <2>2 DEF Min
<1>3. TierKeeps(messages, messages') /\ LargeResults(messages') = {}
  BY <1>1, <1>2, PruneKeeps, WithoutPairFacts DEF TierKeeps
<1>4. TiersInOrder'
  BY <1>1, <1>3, TierStep DEF TiersInOrder
<1> QED
  BY <1>1, <1>3, <1>4, TierStep DEF ReductionInvariant

(* A tier that has nothing to do leaves the body alone.                    *)
LEMMA TierDoneKeeps == ReductionInvariant /\ (EjectDone \/ PruneDone) => ReductionInvariant'
<1> SUFFICES ASSUME ReductionInvariant, EjectDone \/ PruneDone PROVE ReductionInvariant'
  OBVIOUS
<1>1. /\ UNCHANGED <<messages, tools, entry, enabled, cap, received>>
      /\ phase \in {"eject", "prune"} /\ phase' \in {"prune", "trim", "forward"}
      /\ phase' = "forward" => UnderCap
      /\ phase' # "forward" => ~UnderCap /\ LargeResults(messages) = {}
      /\ phase' = "trim" => PrunablePairs(messages) = {}
  BY DEF EjectDone, PruneDone, setting, body, ReductionInvariant, TiersInOrder
<1>2. /\ BodyTypeOK /\ SentAsSpoken /\ TiersInOrder /\ PairingKept /\ NewestTurnKept
      /\ UsedToolsDefined
  BY DEF ReductionInvariant
<1>3. UnderCap' = UnderCap
  BY <1>1 DEF UnderCap
<1>4. BodyTypeOK'
  BY <1>1, <1>2 DEF BodyTypeOK, Stages
<1>5. SentAsSpoken'
  BY <1>1, <1>2 DEF SentAsSpoken, Spoken
<1>6. TiersInOrder' /\ CapMetOrExhausted'
  BY <1>1, <1>2, <1>3 DEF TiersInOrder, CapMetOrExhausted
<1>7. PairingKept' /\ NewestTurnKept'
  BY <1>1, <1>2 DEF PairingKept, NewestTurnKept
<1>8. UsedToolsDefined'
  BY <1>1, <1>2 DEF UsedToolsDefined
<1> QED
  BY <1>4, <1>5, <1>6, <1>7, <1>8 DEF ReductionInvariant

(* Dropping unreferenced tools and the verdict keep the invariant.         *)
LEMMA TrimKeeps == ReductionInvariant /\ Trim => ReductionInvariant'
<1> SUFFICES ASSUME ReductionInvariant, Trim PROVE ReductionInvariant'
  OBVIOUS
<1>1. /\ UNCHANGED <<messages, entry, enabled, cap, received>> /\ phase = "trim"
      /\ tools' = tools \cap Referenced(messages) /\ tools = Tools
      /\ phase' = IF BodySize(messages, tools') <= cap THEN "forward" ELSE "refused"
      /\ ~UnderCap /\ LargeResults(messages) = {} /\ PrunablePairs(messages) = {}
      /\ BodyTypeOK /\ SentAsSpoken /\ PairingKept /\ NewestTurnKept
  BY DEF Trim, Verdict, setting, ReductionInvariant, TiersInOrder
<1>2. BodyTypeOK'
  BY <1>1 DEF BodyTypeOK, Stages
<1>3. SentAsSpoken'
  BY <1>1 DEF SentAsSpoken, Spoken
<1>4. TiersInOrder'
  BY <1>1 DEF TiersInOrder
<1>5. PairingKept' /\ NewestTurnKept'
  BY <1>1 DEF PairingKept, NewestTurnKept
<1>6. UsedToolsDefined'
  <2>1. \A c \in CallsOf(messages) : c[2] \in Referenced(messages) /\ c[2] \in Tools
    BY <1>1, CallsTyped DEF Referenced, BodyTypeOK
  <2> QED
    BY <1>1, <2>1 DEF UsedToolsDefined
<1>7. CapMetOrExhausted'
  <2>1. cap # 0
    BY <1>1 DEF UnderCap
  <2>2. UnderCap' <=> BodySize(messages, tools') <= cap
    BY <1>1, <2>1 DEF UnderCap
  <2> QED
    BY <1>1, <2>2 DEF CapMetOrExhausted
<1> QED
  BY <1>2, <1>3, <1>4, <1>5, <1>6, <1>7 DEF ReductionInvariant

(* What the handler holds of a request is well formed in every phase, its  *)
(* tiers come in their order, and the four promises below hold together.   *)
THEOREM ReductionInductive == ReductionSpec => []ReductionInvariant
<1>1. ASSUME ReductionInvariant, [ReductionNext]_reductionVars PROVE ReductionInvariant'
  <2>1. CASE ModelSpeaks
    BY <1>1, <2>1, ModelSpeaksKeeps
  <2>2. CASE UserSpeaks
    BY <1>1, <2>2, UserSpeaksKeeps
  <2>3. CASE \E first \in DOMAIN messages : Submit(first)
    BY <1>1, <2>3, SubmitKeeps
  <2>4. CASE Rebuild
    BY <1>1, <2>4, RebuildKeeps
  <2>5. CASE Eject
    BY <1>1, <2>5, EjectKeeps
  <2>6. CASE EjectDone \/ PruneDone
    BY <1>1, <2>6, TierDoneKeeps
  <2>7. CASE Prune
    BY <1>1, <2>7, PruneStepKeeps
  <2>8. CASE Trim
    BY <1>1, <2>8, TrimKeeps
  <2>9. CASE UNCHANGED reductionVars
    <3>1. UNCHANGED <<phase, messages, tools, entry, enabled, cap, received>>
      BY <2>9 DEF reductionVars
    <3>2. BodyTypeOK' /\ SentAsSpoken'
      BY <1>1, <3>1 DEF ReductionInvariant, BodyTypeOK, SentAsSpoken, Spoken
    <3>3. TiersInOrder' /\ CapMetOrExhausted'
      BY <1>1, <3>1 DEF ReductionInvariant, TiersInOrder, CapMetOrExhausted, UnderCap
    <3>4. PairingKept' /\ NewestTurnKept' /\ UsedToolsDefined'
      BY <1>1, <3>1 DEF ReductionInvariant, PairingKept, NewestTurnKept, UsedToolsDefined
    <3> QED
      BY <3>2, <3>3, <3>4 DEF ReductionInvariant
  <2> QED
    BY <1>1, <2>1, <2>2, <2>3, <2>4, <2>5, <2>6, <2>7, <2>8, <2>9 DEF ReductionNext
<1> QED
  BY <1>1, ReductionStarts, PTL DEF ReductionSpec

(* No pass of the handler parts a call from its results: every call the    *)
(* body leaves unanswered was unanswered as the harness sent it, and after *)
(* a rebuild no result is an orphan (repair_orphaned_tool_results, tiers A *)
(* and B of the soft cap).                                                 *)
THEOREM CallsStayPaired == ReductionSpec => []PairingKept
<1>1. ReductionInvariant => PairingKept
  BY DEF ReductionInvariant
<1> QED
  BY <1>1, ReductionInductive, PTL

(* The body a stage leaves, repaired twice, is the body repaired once, for *)
(* histories that begin and break off anywhere                             *)
(* (repair_orphaned_tool_results drops emptied messages after it stripped  *)
(* all of them).                                                           *)
THEOREM OneRepairIsEnough == ReductionSpec => []RepairIsIdempotent
<1>1. ReductionInvariant => RepairIsIdempotent
  BY RepairTwice DEF ReductionInvariant, BodyTypeOK, RepairIsIdempotent
<1> QED
  BY <1>1, ReductionInductive, PTL

(* The words of the newest real user message reach the provider through    *)
(* cut, repair and every tier, and the calls made since reach the soft     *)
(* cap.                                                                    *)
THEOREM NewestTurnSurvives == ReductionSpec => []NewestTurnKept
<1>1. ReductionInvariant => NewestTurnKept
  BY DEF ReductionInvariant
<1> QED
  BY <1>1, ReductionInductive, PTL

(* Every call in the body names a tool that the body defines (tier C).     *)
THEOREM NoUsedToolDropped == ReductionSpec => []UsedToolsDefined
<1>1. ReductionInvariant => UsedToolsDefined
  BY DEF ReductionInvariant
<1> QED
  BY <1>1, ReductionInductive, PTL

(* A forwarded body meets the soft cap, and a refused one has no large     *)
(* result, no prunable pair and no unreferenced tool left (tier D).        *)
THEOREM RefusedOnlyAtTheEnd == ReductionSpec => []CapMetOrExhausted
<1>1. ReductionInvariant => CapMetOrExhausted
  BY DEF ReductionInvariant
<1> QED
  BY <1>1, ReductionInductive, PTL
-----------------------------------------------------------------------------
(***************************************************************************)
(* Sums.  The units of a sum can be told apart by what they belong to, so  *)
(* sums over parts that share nothing add up.                              *)
(***************************************************************************)
OnSet(w, S) == [c \in S |-> w[c]]

LEMMA UnitsOfOne ==
    ASSUME NEW k, NEW n \in Nat
    PROVE  IsFiniteSet({k} \X (1 .. n)) /\ Cardinality({k} \X (1 .. n)) = n
<1>1. IsFiniteSet(1 .. n) /\ Cardinality(1 .. n) = n
  BY FS_Interval
<1>2. IsFiniteSet({k}) /\ Cardinality({k}) = 1
  BY FS_Singleton
<1>3. /\ IsFiniteSet({k} \X (1 .. n))
      /\ Cardinality({k} \X (1 .. n)) = Cardinality({k}) * Cardinality(1 .. n)
  BY <1>1, <1>2, FS_Product
<1> QED
  BY <1>1, <1>2, <1>3

(* A sum over finitely many is a number.                                   *)
LEMMA SumIsNatural ==
    ASSUME NEW S, IsFiniteSet(S), NEW w, \A c \in S : w[c] \in Nat
    PROVE  IsFiniteSet(Units(OnSet(w, S))) /\ SumOf(OnSet(w, S)) \in Nat
<1> DEFINE F == {{c} \X (1 .. w[c]) : c \in S}
           f == [c \in S |-> {c} \X (1 .. w[c])]
<1>1. f \in Surjection(S, F)
  BY DEF Surjection
<1>2. IsFiniteSet(F)
  <2> HIDE DEF F, f
  <2> QED
    BY <1>1, FS_Surjection
<1>3. ASSUME NEW T \in F PROVE IsFiniteSet(T)
  <2>1. PICK c \in S : T = {c} \X (1 .. w[c])
    OBVIOUS
  <2>2. w[c] \in Nat
    OBVIOUS
  <2> QED
    BY <2>1, <2>2, UnitsOfOne
<1>4. IsFiniteSet(UNION F)
  <2> HIDE DEF F
  <2> QED
    BY <1>2, <1>3, FS_UNION
<1>5. Units(OnSet(w, S)) = UNION F
  BY DEF Units, OnSet
<1> QED
  BY <1>4, <1>5, FS_CardinalityType DEF SumOf

LEMMA SumAddsUp ==
    ASSUME NEW S, IsFiniteSet(S), NEW T, IsFiniteSet(T), S \cap T = {},
           NEW w, \A c \in S \cup T : w[c] \in Nat
    PROVE  /\ SumOf(OnSet(w, S \cup T)) = SumOf(OnSet(w, S)) + SumOf(OnSet(w, T))
           /\ SumOf(OnSet(w, S)) \in Nat /\ SumOf(OnSet(w, T)) \in Nat
<1> DEFINE A == Units(OnSet(w, S))
           B == Units(OnSet(w, T))
<1>1. IsFiniteSet(A) /\ SumOf(OnSet(w, S)) \in Nat
  BY SumIsNatural
<1>2. IsFiniteSet(B) /\ SumOf(OnSet(w, T)) \in Nat
  BY SumIsNatural
<1>3. Units(OnSet(w, S \cup T)) = A \cup B
  BY DEF Units, OnSet
<1>4. A \cap B = {}
  BY DEF Units, OnSet
<1>5. SumOf(OnSet(w, S)) = Cardinality(A) /\ SumOf(OnSet(w, T)) = Cardinality(B)
      /\ SumOf(OnSet(w, S \cup T)) = Cardinality(Units(OnSet(w, S \cup T)))
  BY DEF SumOf
<1> HIDE DEF A, B
<1>6. Cardinality(A \cup B) = Cardinality(A) + Cardinality(B) - Cardinality(A \cap B)
  BY <1>1, <1>2, FS_Union
<1>7. Cardinality(A \cap B) = 0
  BY <1>4, FS_EmptySet
<1>8. Cardinality(A) \in Nat /\ Cardinality(B) \in Nat
  BY <1>1, <1>2, FS_CardinalityType
<1>9. Cardinality(A \cup B) = Cardinality(A) + Cardinality(B)
  BY <1>6, <1>7, <1>8
<1> QED
  BY <1>1, <1>2, <1>3, <1>5, <1>9

LEMMA SumOfOne ==
    ASSUME NEW c, NEW w, w[c] \in Nat
    PROVE  SumOf(OnSet(w, {c})) = w[c]
<1>1. Units(OnSet(w, {c})) = {c} \X (1 .. w[c])
  BY DEF Units, OnSet
<1> QED
  BY <1>1, UnitsOfOne DEF SumOf

LEMMA SumWithOneMore ==
    ASSUME NEW S, IsFiniteSet(S), NEW c, c \notin S, NEW w, \A d \in S \cup {c} : w[d] \in Nat
    PROVE  /\ SumOf(OnSet(w, S \cup {c})) = SumOf(OnSet(w, S)) + w[c]
           /\ SumOf(OnSet(w, S)) \in Nat /\ w[c] \in Nat
<1>1. IsFiniteSet({c}) /\ S \cap {c} = {} /\ w[c] \in Nat
  BY FS_Singleton
<1>2. SumOf(OnSet(w, {c})) = w[c]
  BY <1>1, SumOfOne
<1>3. /\ SumOf(OnSet(w, S \cup {c})) = SumOf(OnSet(w, S)) + SumOf(OnSet(w, {c}))
      /\ SumOf(OnSet(w, S)) \in Nat
  BY <1>1, SumAddsUp
<1> QED
  BY <1>1, <1>2, <1>3

(* A sum over as many that are each at least as large is at least as large. *)
LEMMA BoundedSum ==
    ASSUME NEW S, IsFiniteSet(S), NEW w, NEW k \in Nat, \A c \in S : w[c] \in Nat
    PROVE  /\ (\A c \in S : w[c] <= k) => SumOf(OnSet(w, S)) <= Cardinality(S) * k
           /\ (\A c \in S : k <= w[c]) => Cardinality(S) * k <= SumOf(OnSet(w, S))
<1> DEFINE U == Units(OnSet(w, S))
           B == S \X (1 .. k)
<1>1. IsFiniteSet(U) /\ SumOf(OnSet(w, S)) = Cardinality(U)
  BY SumIsNatural DEF SumOf
<1>2. IsFiniteSet(1 .. k) /\ Cardinality(1 .. k) = k
  BY FS_Interval
<1>3. IsFiniteSet(B) /\ Cardinality(B) = Cardinality(S) * k
  BY <1>2, FS_Product
<1>4. ASSUME \A c \in S : w[c] <= k PROVE U \subseteq B
  <2> SUFFICES ASSUME NEW c \in S, NEW j \in 1 .. w[c] PROVE <<c, j>> \in B
    BY DEF Units, OnSet
  <2>1. w[c] \in Nat /\ w[c] <= k
    BY <1>4
  <2>2. j \in 1 .. k
    BY <2>1
  <2> QED
    BY <2>2
<1>5. ASSUME \A c \in S : k <= w[c] PROVE B \subseteq U
  <2> SUFFICES ASSUME NEW c \in S, NEW j \in 1 .. k PROVE <<c, j>> \in U
    OBVIOUS
  <2>1. w[c] \in Nat /\ k <= w[c]
    BY <1>5
  <2>2. j \in 1 .. w[c]
    BY <2>1
  <2> QED
    BY <2>2 DEF Units, OnSet
<1> HIDE DEF U, B
<1> QED
  BY <1>1, <1>3, <1>4, <1>5, FS_Subset

LEMMA LargerSum ==
    ASSUME NEW S, IsFiniteSet(S), NEW T, IsFiniteSet(T), Cardinality(S) <= Cardinality(T),
           NEW w, \A c \in S \cup T : w[c] \in Nat,
           \A c \in S \ T, d \in T \ S : w[c] <= w[d]
    PROVE  SumOf(OnSet(w, S)) <= SumOf(OnSet(w, T))
<1> DEFINE A == S \ T
           B == T \ S
           C == S \cap T
<1>1. /\ S = C \cup A /\ T = C \cup B /\ C \cap A = {} /\ C \cap B = {}
      /\ IsFiniteSet(A) /\ IsFiniteSet(B) /\ IsFiniteSet(C)
      /\ \A c \in C \cup A : w[c] \in Nat
      /\ \A c \in C \cup B : w[c] \in Nat
  <2>1. A \in SUBSET S /\ B \in SUBSET T /\ C \in SUBSET S
    OBVIOUS
  <2>2. IsFiniteSet(A) /\ IsFiniteSet(B) /\ IsFiniteSet(C)
    BY <2>1, FS_Subset
  <2> QED
    BY <2>2
<1>2. \A c \in A, d \in B : w[c] <= w[d]
  OBVIOUS
<1> HIDE DEF A, B, C
<1>3. Cardinality(A) <= Cardinality(B) /\ Cardinality(A) \in Nat /\ Cardinality(B) \in Nat
  <2>1. /\ Cardinality(C \cup A) = Cardinality(C) + Cardinality(A) - Cardinality(C \cap A)
        /\ Cardinality(C \cup B) = Cardinality(C) + Cardinality(B) - Cardinality(C \cap B)
    BY <1>1, FS_Union
  <2>2. Cardinality(C \cap A) = 0 /\ Cardinality(C \cap B) = 0
    BY <1>1, FS_EmptySet
  <2>3. Cardinality(A) \in Nat /\ Cardinality(B) \in Nat /\ Cardinality(C) \in Nat
    BY <1>1, FS_CardinalityType
  <2> QED
    BY <1>1, <2>1, <2>2, <2>3
<1>4. /\ SumOf(OnSet(w, S)) = SumOf(OnSet(w, C)) + SumOf(OnSet(w, A))
      /\ SumOf(OnSet(w, T)) = SumOf(OnSet(w, C)) + SumOf(OnSet(w, B))
      /\ SumOf(OnSet(w, A)) \in Nat /\ SumOf(OnSet(w, B)) \in Nat /\ SumOf(OnSet(w, C)) \in Nat
  BY <1>1, SumAddsUp
<1>5. SumOf(OnSet(w, A)) <= SumOf(OnSet(w, B))
  <2>1. CASE B = {}
    <3>1. A = {}
      BY <1>1, <1>3, <2>1, FS_EmptySet
    <3> QED
      BY <1>4, <2>1, <3>1
  <2>2. CASE B # {}
    <3>1. PICK k \in {w[d] : d \in B} : \A x \in {w[d] : d \in B} : k <= x
      <4>1. {w[d] : d \in B} \in SUBSET Nat /\ {w[d] : d \in B} # {}
        BY <1>1, <2>2
      <4> QED
        BY <4>1, Least
    <3>2. k \in Nat /\ (\A d \in B : k <= w[d]) /\ (\A c \in A : w[c] <= k)
      BY <1>1, <1>2, <3>1
    <3>3. SumOf(OnSet(w, A)) <= Cardinality(A) * k
      BY <1>1, <3>2, BoundedSum
    <3>4. Cardinality(B) * k <= SumOf(OnSet(w, B))
      BY <1>1, <3>2, BoundedSum
    <3>5. Cardinality(A) * k <= Cardinality(B) * k
      BY <1>3, <3>2
    <3>6. Cardinality(A) * k \in Nat /\ Cardinality(B) * k \in Nat
      BY <1>3, <3>2
    <3> QED
      BY <1>4, <3>3, <3>4, <3>5, <3>6
  <2> QED
    BY <2>1, <2>2
<1> QED
  BY <1>4, <1>5

(* Messages whose calls and results can be counted and summed up. *)
Countable(ms) ==
    \A i \in DOMAIN ms :
        /\ IsFiniteSet(ms[i].calls) /\ IsFiniteSet(ms[i].results)
        /\ AtMostOneEach(ms[i].results)

SizeOf == [x \in Results |-> x.size]

LEMMA SizesAreSums ==
    ASSUME NEW R \in SUBSET Results, IsFiniteSet(R)
    PROVE  /\ Sizes(R) = SumOf(OnSet(SizeOf, R)) /\ Sizes(R) \in Nat
           /\ \A x \in R : SizeOf[x] = x.size /\ x.size \in Nat
<1>1. \A x \in R : SizeOf[x] = x.size /\ x.size \in Nat
  BY DEF SizeOf, Results
<1>2. OnSet(SizeOf, R) = [x \in R |-> x.size]
  BY <1>1 DEF OnSet
<1> QED
  BY <1>1, <1>2, SumIsNatural DEF Sizes

(* The size of a message but for the contents of its results. *)
Frame(m) == (IF m.text = NoText THEN 0 ELSE TextSize) + TextSize * Cardinality(m.calls)

LEMMA MessageSizes ==
    ASSUME NEW m \in Turns, IsFiniteSet(m.calls), IsFiniteSet(m.results)
    PROVE  /\ MessageSize(m) = Frame(m) + Sizes(m.results)
           /\ Frame(m) \in Nat /\ Sizes(m.results) \in Nat /\ MessageSize(m) \in Nat
<1>1. Cardinality(m.calls) \in Nat
  BY FS_CardinalityType
<1>2. TextSize * Cardinality(m.calls) \in Nat
  BY <1>1, ReductionAssumption
<1>3. Frame(m) \in Nat
  BY <1>2, ReductionAssumption DEF Frame
<1>4. Sizes(m.results) \in Nat
  BY TurnFacts, SizesAreSums
<1>5. MessageSize(m) = Frame(m) + Sizes(m.results)
  BY DEF MessageSize, Frame
<1> QED
  BY <1>3, <1>4, <1>5

(* A stub in place of a large result saves the difference.                 *)
LEMMA StubResults ==
    ASSUME NEW R \in SUBSET Results, IsFiniteSet(R), AtMostOneEach(R),
           NEW x \in R, x.size >= Threshold
    PROVE  LET y == [x EXCEPT !.size = StubSize]
               Q == (R \ {x}) \cup {y}
           IN  /\ Q \in SUBSET Results /\ IsFiniteSet(Q) /\ AtMostOneEach(Q)
               /\ Sizes(Q) + (x.size - StubSize) = Sizes(R)
               /\ {z \in Q : z.size >= Threshold} = {z \in R : z.size >= Threshold} \ {x}
<1> DEFINE y == [x EXCEPT !.size = StubSize]
           Q == (R \ {x}) \cup {y}
           P == R \ {x}
<1>1. /\ x \in Results /\ y \in Results /\ y.id = x.id /\ y.size = StubSize
      /\ StubSize \in Nat /\ Threshold \in Nat /\ StubSize < Threshold /\ x.size \in Nat
  BY ReductionAssumption DEF Results
<1> HIDE DEF y
<1>2. y \notin P
  BY <1>1 DEF AtMostOneEach
<1>3. IsFiniteSet(P) /\ P \in SUBSET Results /\ R = P \cup {x} /\ x \notin P
  BY FS_Subset
<1>4. IsFiniteSet(Q) /\ Q \in SUBSET Results /\ Q = P \cup {y}
  BY <1>1, <1>3, FS_AddElement
<1>5. AtMostOneEach(Q)
  BY <1>1 DEF AtMostOneEach
<1>6. {z \in Q : z.size >= Threshold} = {z \in R : z.size >= Threshold} \ {x}
  BY <1>1
<1> HIDE DEF P, Q
<1>7. \A z \in P \cup {x} : SizeOf[z] \in Nat
  BY <1>3, SizesAreSums
<1>8. \A z \in P \cup {y} : SizeOf[z] \in Nat
  BY <1>4, SizesAreSums
<1>9. SumOf(OnSet(SizeOf, P \cup {x})) = SumOf(OnSet(SizeOf, P)) + SizeOf[x]
      /\ SumOf(OnSet(SizeOf, P)) \in Nat
  BY <1>3, <1>7, SumWithOneMore
<1>10. SumOf(OnSet(SizeOf, P \cup {y})) = SumOf(OnSet(SizeOf, P)) + SizeOf[y]
  BY <1>2, <1>3, <1>8, SumWithOneMore
<1>11. SizeOf[x] = x.size /\ SizeOf[y] = StubSize
  BY <1>1 DEF SizeOf
<1>12. Sizes(R) = SumOf(OnSet(SizeOf, P \cup {x})) /\ Sizes(Q) = SumOf(OnSet(SizeOf, P \cup {y}))
  BY <1>3, <1>4, SizesAreSums
<1>13. Sizes(Q) + (x.size - StubSize) = Sizes(R)
  BY <1>1, <1>9, <1>10, <1>11, <1>12
<1> QED
  BY <1>4, <1>5, <1>6, <1>13 DEF y, Q

(* The sizes of a sequence of messages.                                    *)
Weights(ms) == [i \in 1 .. Len(ms) |-> MessageSize(ms[i])]

LEMMA BodySizes ==
    ASSUME NEW ms \in Seq(Turns), Countable(ms)
    PROVE  /\ BodySize(ms, Tools) \in Nat
           /\ BodySize(ms, Tools) = SumOf(OnSet(Weights(ms), 1 .. Len(ms)))
                                        + ToolSize * Cardinality(Tools)
           /\ ToolSize * Cardinality(Tools) \in Nat
           /\ SumOf(OnSet(Weights(ms), 1 .. Len(ms))) \in Nat
           /\ \A i \in 1 .. Len(ms) :
                  Weights(ms)[i] = MessageSize(ms[i]) /\ Weights(ms)[i] \in Nat
           /\ IsFiniteSet(1 .. Len(ms))
<1>1. DOMAIN ms = 1 .. Len(ms) /\ Len(ms) \in Nat
  OBVIOUS
<1>2. \A i \in 1 .. Len(ms) : Weights(ms)[i] = MessageSize(ms[i])
  BY DEF Weights
<1>3. ASSUME NEW i \in 1 .. Len(ms) PROVE MessageSize(ms[i]) \in Nat
  <2>1. ms[i] \in Turns /\ IsFiniteSet(ms[i].calls) /\ IsFiniteSet(ms[i].results)
    BY <1>1 DEF Countable
  <2> QED
    BY <2>1, MessageSizes
<1>4. IsFiniteSet(1 .. Len(ms))
  BY <1>1, FS_Interval
<1>5. OnSet(Weights(ms), 1 .. Len(ms)) = [i \in DOMAIN ms |-> MessageSize(ms[i])]
  BY <1>1, <1>2 DEF OnSet
<1>6. SumOf(OnSet(Weights(ms), 1 .. Len(ms))) \in Nat
  BY <1>2, <1>3, <1>4, SumIsNatural
<1>7. Cardinality(Tools) \in Nat
  BY ReductionAssumption, FS_CardinalityType
<1>8. ToolSize * Cardinality(Tools) \in Nat
  BY <1>7, ReductionAssumption
<1>9. BodySize(ms, Tools) = SumOf(OnSet(Weights(ms), 1 .. Len(ms))) + ToolSize * Cardinality(Tools)
  BY <1>5 DEF BodySize, MessagesSize
<1> QED
  BY <1>2, <1>3, <1>4, <1>6, <1>8, <1>9

LEMMA StubSaves ==
    ASSUME NEW ms \in Seq(Turns), Countable(ms), NEW c \in LargeResults(ms)
    PROVE  LET ns == Stubbed(ms, c[1], c[2])
           IN  /\ Countable(ns) /\ LargeResults(ns) = LargeResults(ms) \ {c}
               /\ BodySize(ns, Tools) + (c[2].size - StubSize) = BodySize(ms, Tools)
<1> DEFINE i == c[1]
           x == c[2]
           R == ms[i].results
           y == [x EXCEPT !.size = StubSize]
           Q == (R \ {x}) \cup {y}
           m == [ms[i] EXCEPT !.results = Q]
           ns == Stubbed(ms, i, x)
           I == 1 .. Len(ms)
           J == I \ {i}
<1>1. /\ i \in I /\ x \in R /\ x.size >= Threshold /\ c = <<i, x>>
      /\ DOMAIN ms = I /\ Len(ms) \in Nat
  <2>1. i \in I /\ x \in R /\ x.size >= Threshold
    BY LargeFacts
  <2>2. c = <<i, x>>
    BY DEF LargeResults
  <2> QED
    BY <2>1, <2>2
<1>2. ms[i] \in Turns /\ R \in SUBSET Results
  <2>1. ms[i] \in Turns
    BY <1>1
  <2> QED
    BY <2>1, TurnFacts
<1>3. IsFiniteSet(ms[i].calls) /\ IsFiniteSet(R) /\ AtMostOneEach(R)
  BY <1>1 DEF Countable
<1>4. /\ Q \in SUBSET Results /\ IsFiniteSet(Q) /\ AtMostOneEach(Q)
      /\ Sizes(Q) + (x.size - StubSize) = Sizes(R)
      /\ {z \in Q : z.size >= Threshold} = {z \in R : z.size >= Threshold} \ {x}
  BY <1>1, <1>2, <1>3, StubResults
<1>5. ms[i].role = "user"
  BY <1>1, <1>2, TurnFacts
<1> HIDE DEF y, Q, R, i, x
<1>6. /\ m \in Turns /\ m.text = ms[i].text /\ m.calls = ms[i].calls /\ m.results = Q
  BY <1>2, <1>4, <1>5, WithResults
<1>7. ns = [ms EXCEPT ![i] = m]
  BY DEF Stubbed, Q, y, R
<1> HIDE DEF m, ns
<1>8. /\ ns \in Seq(Turns) /\ Len(ns) = Len(ms) /\ DOMAIN ns = I
      /\ \A k \in I : ns[k] = IF k = i THEN m ELSE ms[k]
  <2>1. /\ [ms EXCEPT ![i] = m] \in Seq(Turns) /\ Len([ms EXCEPT ![i] = m]) = Len(ms)
        /\ \A k \in 1 .. Len(ms) : [ms EXCEPT ![i] = m][k] = IF k = i THEN m ELSE ms[k]
    BY <1>1, <1>6, ExceptSeq
  <2> QED
    BY <1>7, <2>1
<1>9. Countable(ns)
  <2> SUFFICES ASSUME NEW k \in I
               PROVE  /\ IsFiniteSet(ns[k].calls) /\ IsFiniteSet(ns[k].results)
                      /\ AtMostOneEach(ns[k].results)
    BY <1>8 DEF Countable
  <2>1. CASE k = i
    BY <1>3, <1>4, <1>6, <1>8, <2>1
  <2>2. CASE k # i
    BY <1>1, <1>8, <2>2 DEF Countable
  <2> QED
    BY <2>1, <2>2
<1>10. LargeResults(ns) = LargeResults(ms) \ {c}
  <2> DEFINE large(S) == {z \in S : z.size >= Threshold}
  <2>1. ASSUME NEW k, NEW z
        PROVE  /\ <<k, z>> \in LargeResults(ms) <=> k \in I /\ z \in large(ms[k].results)
               /\ <<k, z>> \in LargeResults(ns) <=> k \in I /\ z \in large(ns[k].results)
    BY <1>1, <1>8 DEF LargeResults
  <2>2. ASSUME NEW k, NEW z
        PROVE  <<k, z>> \in LargeResults(ns) <=> <<k, z>> \in LargeResults(ms) /\ <<k, z>> # c
    <3>1. CASE k \notin I
      BY <2>1, <3>1
    <3>2. CASE k \in I /\ k # i
      BY <1>1, <1>8, <2>1, <3>2
    <3>3. CASE k = i
      <4>1. large(ns[k].results) = large(R) \ {x} /\ ms[k].results = R
        BY <1>1, <1>4, <1>6, <1>8, <3>3 DEF R
      <4> HIDE DEF large
      <4>2. <<k, z>> # c <=> z # x
        BY <1>1, <3>3
      <4> QED
        BY <1>1, <2>1, <3>3, <4>1, <4>2
    <3> QED
      BY <3>1, <3>2, <3>3
  <2>3. \A d : d \in LargeResults(ns) \/ d \in LargeResults(ms) => d = <<d[1], d[2]>>
    BY DEF LargeResults
  <2> QED
    BY <2>2, <2>3
<1>11. BodySize(ns, Tools) + (x.size - StubSize) = BodySize(ms, Tools)
  <2>1. /\ BodySize(ms, Tools) = SumOf(OnSet(Weights(ms), I)) + ToolSize * Cardinality(Tools)
        /\ \A k \in I : Weights(ms)[k] = MessageSize(ms[k]) /\ Weights(ms)[k] \in Nat
        /\ IsFiniteSet(I) /\ ToolSize * Cardinality(Tools) \in Nat
    BY BodySizes
  <2>2. /\ BodySize(ns, Tools) = SumOf(OnSet(Weights(ns), I)) + ToolSize * Cardinality(Tools)
        /\ \A k \in I : Weights(ns)[k] = MessageSize(ns[k]) /\ Weights(ns)[k] \in Nat
    BY <1>8, <1>9, BodySizes
  <2>3. IsFiniteSet(J) /\ i \notin J /\ I = J \cup {i}
    BY <1>1, <2>1, FS_Subset
  <2> HIDE DEF I, J
  <2>4. /\ SumOf(OnSet(Weights(ms), J \cup {i})) = SumOf(OnSet(Weights(ms), J)) + Weights(ms)[i]
        /\ SumOf(OnSet(Weights(ms), J)) \in Nat
    BY <2>1, <2>3, SumWithOneMore
  <2>5. SumOf(OnSet(Weights(ns), J \cup {i})) = SumOf(OnSet(Weights(ns), J)) + Weights(ns)[i]
    BY <2>2, <2>3, SumWithOneMore
  <2>6. OnSet(Weights(ns), J) = OnSet(Weights(ms), J)
    <3>1. \A k \in J : Weights(ns)[k] = Weights(ms)[k]
      BY <1>8, <2>1, <2>2, <2>3
    <3> QED
      BY <3>1 DEF OnSet
  <2>7. MessageSize(ms[i]) = Frame(ms[i]) + Sizes(R) /\ Frame(ms[i]) \in Nat /\ Sizes(R) \in Nat
    BY <1>2, <1>3, MessageSizes DEF R
  <2>8. MessageSize(m) = Frame(ms[i]) + Sizes(Q) /\ Sizes(Q) \in Nat
    <3>1. Frame(m) = Frame(ms[i])
      BY <1>6 DEF Frame
    <3> QED
      BY <1>3, <1>4, <1>6, <3>1, MessageSizes
  <2>9. Weights(ms)[i] = MessageSize(ms[i]) /\ Weights(ns)[i] = MessageSize(m)
    BY <1>1, <1>8, <2>1, <2>2, <2>3
  <2>10. x.size - StubSize \in Int
    <3>1. x \in Results
      BY <1>1, <1>2
    <3> QED
      BY <3>1, ReductionAssumption DEF Results
  <2> DEFINE others == SumOf(OnSet(Weights(ms), J))
  <2>11. SumOf(OnSet(Weights(ms), I)) = others + (Frame(ms[i]) + Sizes(R))
    <3>1. Weights(ms)[i] = Frame(ms[i]) + Sizes(R)
      BY <2>7, <2>9
    <3> QED
      BY <2>3, <2>4, <3>1
  <2>12. SumOf(OnSet(Weights(ns), I)) = others + (Frame(ms[i]) + Sizes(Q))
    <3>1. Weights(ns)[i] = Frame(ms[i]) + Sizes(Q)
      BY <2>8, <2>9
    <3> QED
      BY <2>3, <2>5, <2>6, <3>1
  <2>13. others \in Nat
    BY <2>4
  <2>14. /\ BodySize(ms, Tools) = others + (Frame(ms[i]) + Sizes(R)) + ToolSize * Cardinality(Tools)
         /\ BodySize(ns, Tools) = others + (Frame(ms[i]) + Sizes(Q)) + ToolSize * Cardinality(Tools)
    BY <2>1, <2>2, <2>11, <2>12
  <2> HIDE DEF others
  <2> DEFINE frame == Frame(ms[i])
             before == Sizes(R)
             after == Sizes(Q)
             defs == ToolSize * Cardinality(Tools)
             saved == x.size - StubSize
  <2>15. /\ frame \in Nat /\ before \in Nat /\ after \in Nat /\ defs \in Nat /\ saved \in Int
         /\ after + saved = before
    BY <1>4, <2>1, <2>7, <2>8, <2>10, Zenon
  <2>16. (others + (frame + after) + defs) + saved = others + (frame + before) + defs
    <3> HIDE DEF frame, before, after, defs, saved
    <3> QED
      BY <2>13, <2>15
  <2> QED
    BY <2>14, <2>16
<1> QED
  BY <1>9, <1>10, <1>11 DEF ns, i, x

-----------------------------------------------------------------------------
(* What tier A has ejected of e when m is left.  It was the largest, it is  *)
(* what the body has lost, and without the smallest of it the body was over *)
(* the cap.                                                                 *)
Gone(e, m) == LargeResults(e) \ LargeResults(m)

Greedy(e, m, limit) ==
    /\ LargeResults(m) \subseteq LargeResults(e)
    /\ \A c \in Gone(e, m), d \in LargeResults(m) : c[2].size >= d[2].size
    /\ BodySize(m, Tools) + Savings(Gone(e, m)) = BodySize(e, Tools)
    /\ Gone(e, m) # {} =>
           \E c \in Gone(e, m) :
               /\ \A d \in Gone(e, m) : c[2].size <= d[2].size
               /\ BodySize(e, Tools) - Savings(Gone(e, m) \ {c}) > limit

(* Stubs leave the number of messages alone, and pruning does not.          *)
EjectionInv ==
    /\ phase \in {"harness", "rebuild"} => Countable(messages)
    /\ phase \notin {"harness", "rebuild"} =>
           /\ Len(messages) <= Len(entry)
           /\ Len(messages) = Len(entry) =>
                  /\ Countable(messages) /\ Countable(entry)
                  /\ Greedy(entry, messages, cap)

Saving(ms) == [c \in LargeResults(ms) |-> c[2].size - StubSize]

(* There are finitely many candidates, and a stub makes each smaller.      *)
LEMMA SavingFacts ==
    ASSUME NEW ms \in Seq(Turns), Countable(ms)
    PROVE  /\ IsFiniteSet(LargeResults(ms))
           /\ \A c \in LargeResults(ms) :
                  /\ Saving(ms)[c] = c[2].size - StubSize /\ Saving(ms)[c] \in Nat
                  /\ c[2].size \in Nat
           /\ \A S \in SUBSET LargeResults(ms) : Savings(S) = SumOf(OnSet(Saving(ms), S))
<1> DEFINE I == 1 .. Len(ms)
           large(i) == {x \in ms[i].results : x.size >= Threshold}
           F == {{i} \X large(i) : i \in I}
           f == [i \in I |-> {i} \X large(i)]
<1>1. DOMAIN ms = I /\ IsFiniteSet(I)
  <2>1. Len(ms) \in Nat
    OBVIOUS
  <2> QED
    BY <2>1, FS_Interval
<1>2. LargeResults(ms) = UNION F
  BY <1>1 DEF LargeResults
<1>3. IsFiniteSet(F)
  <2>1. f \in Surjection(I, F)
    BY DEF Surjection
  <2> HIDE DEF F, f, I
  <2> QED
    BY <1>1, <2>1, FS_Surjection
<1>4. ASSUME NEW T \in F PROVE IsFiniteSet(T)
  <2>1. PICK i \in I : T = {i} \X large(i)
    OBVIOUS
  <2>2. large(i) \in SUBSET ms[i].results /\ IsFiniteSet(ms[i].results)
    BY <1>1 DEF Countable
  <2> HIDE DEF large
  <2>3. IsFiniteSet(large(i)) /\ IsFiniteSet({i})
    BY <2>2, FS_Subset, FS_Singleton
  <2> QED
    BY <2>1, <2>3, FS_Product
<1>5. IsFiniteSet(LargeResults(ms))
  <2> HIDE DEF F
  <2> QED
    BY <1>2, <1>3, <1>4, FS_UNION
<1>6. ASSUME NEW c \in LargeResults(ms)
      PROVE  Saving(ms)[c] = c[2].size - StubSize /\ Saving(ms)[c] \in Nat /\ c[2].size \in Nat
  <2>1. c[1] \in I /\ c[2] \in ms[c[1]].results /\ c[2].size >= Threshold
    BY LargeFacts
  <2>2. ms[c[1]] \in Turns
    BY <1>1, <2>1
  <2>3. c[2] \in Results
    BY <2>1, <2>2, TurnFacts
  <2>4. c[2].size \in Nat
    BY <2>3 DEF Results
  <2>5. c[2].size - StubSize \in Nat
    BY <2>1, <2>4, ReductionAssumption
  <2> QED
    BY <2>4, <2>5 DEF Saving
<1>7. ASSUME NEW S \in SUBSET LargeResults(ms) PROVE Savings(S) = SumOf(OnSet(Saving(ms), S))
  <2>1. \A c \in S : Saving(ms)[c] = c[2].size - StubSize
    BY <1>6
  <2>2. OnSet(Saving(ms), S) = [c \in S |-> c[2].size - StubSize]
    BY <2>1 DEF OnSet
  <2> QED
    BY <2>2 DEF Savings
<1> QED
  BY <1>5, <1>6, <1>7

(* Nothing is ejected at first.                                            *)
LEMMA GreedyStarts ==
    ASSUME NEW ms \in Seq(Turns), Countable(ms), NEW limit
    PROVE  Greedy(ms, ms, limit)
<1>1. Gone(ms, ms) = {}
  BY DEF Gone
<1>2. Savings({}) = 0
  <2>1. Units([c \in {} |-> c[2].size - StubSize]) = {}
    BY DEF Units
  <2> QED
    BY <2>1, FS_EmptySet DEF Savings, SumOf
<1>3. BodySize(ms, Tools) \in Nat
  BY BodySizes
<1> QED
  BY <1>1, <1>2, <1>3 DEF Greedy

(* The largest that is left joins those before it as the smallest.         *)
LEMMA GreedyContinues ==
    ASSUME NEW e \in Seq(Turns), Countable(e), NEW ms \in Seq(Turns), Countable(ms),
           NEW limit \in Nat, Greedy(e, ms, limit), BodySize(ms, Tools) > limit,
           NEW c \in LargeResults(ms), NextEjection(ms, c)
    PROVE  Greedy(e, Stubbed(ms, c[1], c[2]), limit)
<1> DEFINE ns == Stubbed(ms, c[1], c[2])
           G == Gone(e, ms)
           w == Saving(e)
           s == c[2].size
<1>1. /\ LargeResults(ns) = LargeResults(ms) \ {c}
      /\ BodySize(ns, Tools) + (s - StubSize) = BodySize(ms, Tools) /\ Countable(ns)
  BY StubSaves
<1>2. /\ LargeResults(ms) \subseteq LargeResults(e) /\ c \in LargeResults(e)
      /\ BodySize(ms, Tools) + Savings(G) = BodySize(e, Tools)
      /\ \A x \in G, d \in LargeResults(ms) : x[2].size >= d[2].size
  BY DEF Greedy
<1>3. Gone(e, ns) = G \cup {c} /\ c \notin G /\ G \in SUBSET LargeResults(e)
  BY <1>1, <1>2 DEF Gone
<1>4. /\ IsFiniteSet(LargeResults(e))
      /\ \A d \in LargeResults(e) :
             w[d] = d[2].size - StubSize /\ w[d] \in Nat /\ d[2].size \in Nat
      /\ \A S \in SUBSET LargeResults(e) : Savings(S) = SumOf(OnSet(w, S))
  BY SavingFacts
<1>5. BodySize(ms, Tools) \in Nat /\ BodySize(e, Tools) \in Nat
  BY BodySizes
<1>6. \A d \in LargeResults(ms) : s >= d[2].size
  BY DEF NextEjection
<1> HIDE DEF G, w, ns, s
<1>7. w[c] = s - StubSize /\ w[c] \in Nat /\ s \in Nat
  BY <1>2, <1>4 DEF s
<1>8. Savings(G \cup {c}) = Savings(G) + w[c] /\ Savings(G) \in Nat
  <2>1. IsFiniteSet(G)
    BY <1>3, <1>4, FS_Subset
  <2>2. \A d \in G \cup {c} : w[d] \in Nat
    BY <1>2, <1>3, <1>4
  <2>3. /\ SumOf(OnSet(w, G \cup {c})) = SumOf(OnSet(w, G)) + w[c]
        /\ SumOf(OnSet(w, G)) \in Nat
    BY <1>3, <2>1, <2>2, SumWithOneMore
  <2>4. G \cup {c} \in SUBSET LargeResults(e)
    BY <1>2, <1>3
  <2> QED
    BY <1>3, <1>4, <2>3, <2>4
<1>9. \A x \in Gone(e, ns), d \in LargeResults(ns) : x[2].size >= d[2].size
  BY <1>1, <1>2, <1>3, <1>6 DEF s
<1>10. BodySize(ns, Tools) + Savings(G \cup {c}) = BodySize(e, Tools)
  <2>1. BodySize(ns, Tools) \in Nat
    <3>1. c[1] \in 1 .. Len(ms) /\ c[2] \in ms[c[1]].results
      BY LargeFacts
    <3>2. ns \in Seq(Turns)
      BY <3>1, StubFacts DEF ns
    <3> QED
      BY <1>1, <3>2, BodySizes
  <2> QED
    BY <1>1, <1>2, <1>5, <1>7, <1>8, <2>1
<1>11. \A d \in G \cup {c} : s <= d[2].size
  <2>1. \A d \in G : d[2].size >= s /\ d[2].size \in Nat
    BY <1>2, <1>3, <1>4 DEF s
  <2> QED
    BY <1>7, <2>1 DEF s
<1>12. BodySize(e, Tools) - Savings((G \cup {c}) \ {c}) > limit
  <2>1. (G \cup {c}) \ {c} = G
    BY <1>3
  <2>2. Savings((G \cup {c}) \ {c}) = Savings(G)
    BY <2>1, Zenon
  <2>3. BodySize(e, Tools) - Savings(G) > limit
    BY <1>2, <1>5, <1>8
  <2> QED
    BY <2>2, <2>3
<1>13. LargeResults(ns) \subseteq LargeResults(e)
  BY <1>1, <1>2
<1>14. Greedy(e, ns, limit)
  <2>1. \E x \in G \cup {c} :
            /\ \A d \in G \cup {c} : x[2].size <= d[2].size
            /\ BodySize(e, Tools) - Savings((G \cup {c}) \ {x}) > limit
    BY <1>11, <1>12 DEF s
  <2> QED
    BY <1>3, <1>9, <1>10, <1>13, <2>1 DEF Greedy
<1> QED
  BY <1>14 DEF ns

(* Every message the harness makes can be counted: it calls no more than   *)
(* the tools there are, and answers each call at most once.                *)
LEMMA CountableGrows ==
    ASSUME NEW ms \in Seq(Turns), Countable(ms), NEW m \in Turns,
           IsFiniteSet(m.calls), IsFiniteSet(m.results), AtMostOneEach(m.results)
    PROVE  Countable(Append(ms, m))
<1> DEFINE ns == Append(ms, m)
           n == Len(ms)
<1>1. /\ ns \in Seq(Turns) /\ Len(ns) = n + 1 /\ n \in Nat
      /\ \A i \in 1 .. n : ns[i] = ms[i]
      /\ ns[n + 1] = m
      /\ DOMAIN ms = 1 .. n
  BY AppendProperties
<1> HIDE DEF ns, n
<1>2. DOMAIN ns = 1 .. n + 1
  BY <1>1
<1>3. ASSUME NEW i \in 1 .. n + 1
      PROVE  /\ IsFiniteSet(ns[i].calls) /\ IsFiniteSet(ns[i].results)
             /\ AtMostOneEach(ns[i].results)
  <2>1. CASE i = n + 1
    BY <1>1, <2>1
  <2>2. CASE i # n + 1
    <3>1. i \in 1 .. n
      BY <1>1, <2>2
    <3> QED
      BY <1>1, <3>1 DEF Countable
  <2> QED
    BY <2>1, <2>2
<1>4. Countable(ns)
  BY <1>2, <1>3 DEF Countable
<1> QED
  BY <1>4 DEF ns

LEMMA CallsCounted ==
    ASSUME NEW k, NEW calls \in SUBSET {Call(k, t) : t \in Tools}
    PROVE  IsFiniteSet(calls)
<1> DEFINE all == {Call(k, t) : t \in Tools}
           f == [t \in Tools |-> Call(k, t)]
<1>1. f \in Surjection(Tools, all)
  BY DEF Surjection
<1>2. IsFiniteSet(Tools)
  BY ReductionAssumption
<1> HIDE DEF all, f
<1>3. IsFiniteSet(all)
  BY <1>1, <1>2, FS_Surjection
<1>4. calls \in SUBSET all
  BY DEF all
<1> QED
  BY <1>3, <1>4, FS_Subset

LEMMA ResultsCounted ==
    ASSUME NEW R, AtMostOneEach(R), NEW ids, IsFiniteSet(ids), \A x \in R : x.id \in ids
    PROVE  IsFiniteSet(R)
<1> DEFINE f == [x \in R |-> x.id]
<1>1. f \in Injection(R, ids)
  BY DEF Injection, AtMostOneEach, IsInjective
<1> HIDE DEF f
<1> QED
  BY <1>1, FS_Injection

(* The repair and the cut keep messages, or strip results from them.       *)
LEMMA CountableSplits ==
    ASSUME NEW ms \in Seq(Turns), Countable(ms), NEW i \in 1 .. Len(ms), NEW R,
           R \subseteq ms[i].results
    PROVE  IsFiniteSet(ms[i].calls) /\ IsFiniteSet(R) /\ AtMostOneEach(R)
<1>1. i \in DOMAIN ms
  OBVIOUS
<1>2. /\ IsFiniteSet(ms[i].calls) /\ IsFiniteSet(ms[i].results)
      /\ AtMostOneEach(ms[i].results)
  BY <1>1 DEF Countable
<1>3. IsFiniteSet(R)
  BY <1>2, FS_Subset
<1>4. AtMostOneEach(R)
  BY <1>2 DEF AtMostOneEach
<1> QED
  BY <1>2, <1>3, <1>4

LEMMA RepairCountable ==
    ASSUME NEW ms \in Seq(Turns), Countable(ms)
    PROVE  Countable(Repair(ms))
<1> DEFINE r == Repair(ms)
<1>1. r \in Seq(Turns) /\ DOMAIN r = 1 .. Len(r) /\ Remaining(ms) \in SUBSET (1 .. Len(ms))
  BY RepairFacts
<1>2. ASSUME NEW j \in 1 .. Len(r)
      PROVE  /\ IsFiniteSet(r[j].calls) /\ IsFiniteSet(r[j].results)
             /\ AtMostOneEach(r[j].results)
  <2> DEFINE k == IndexOf(Remaining(ms), j)
  <2>1. k \in Remaining(ms) /\ r[j] = StripOrphans(ms)[k]
    BY RepairFacts
  <2> HIDE DEF k
  <2>2. k \in 1 .. Len(ms)
    BY <1>1, <2>1
  <2>3. /\ StripOrphans(ms)[k].calls = ms[k].calls
        /\ StripOrphans(ms)[k].results = {x \in ms[k].results : x.id \in ValidIds(ms, k)}
    BY <2>2, StripFacts
  <2>4. r[j].calls = ms[k].calls /\ r[j].results \subseteq ms[k].results
    BY <2>1, <2>3
  <2> HIDE DEF r
  <2> QED
    BY <2>2, <2>4, CountableSplits
<1> HIDE DEF r
<1>3. Countable(r)
  BY <1>1, <1>2 DEF Countable
<1> QED
  BY <1>3 DEF r

LEMMA CutCountable ==
    ASSUME NEW ms \in Seq(Turns), Countable(ms), NEW b \in 1 .. Len(ms)
    PROVE  Countable(CutAt(ms, b))
<1> DEFINE c == CutAt(ms, b)
           n == Len(ms) - b + 2
<1>1. /\ c \in Seq(Turns) /\ Len(c) = n /\ c[1] = User(Projection, {})
      /\ \A j \in 2 .. n : c[j] = ms[b + j - 2]
  BY CutFacts
<1>2. n \in Nat /\ DOMAIN c = 1 .. n
  BY <1>1
<1>3. ASSUME NEW j \in 1 .. n
      PROVE  /\ IsFiniteSet(c[j].calls) /\ IsFiniteSet(c[j].results)
             /\ AtMostOneEach(c[j].results)
  <2>1. CASE j = 1
    <3>1. c[j].calls = {} /\ c[j].results = {}
      <4>1. User(Projection, {}).calls = {} /\ User(Projection, {}).results = {}
        BY DEF User
      <4> QED
        BY <1>1, <2>1, <4>1
    <3> QED
      BY <3>1, FS_EmptySet DEF AtMostOneEach
  <2>2. CASE j # 1
    <3>1. j \in 2 .. n /\ b + j - 2 \in 1 .. Len(ms)
      BY <1>2, <2>2
    <3> QED
      BY <1>1, <3>1, CountableSplits
  <2> QED
    BY <2>1, <2>2
<1> HIDE DEF c, n
<1>4. Countable(c)
  BY <1>2, <1>3 DEF Countable
<1> QED
  BY <1>4 DEF c

LEMMA RebuiltCountable ==
    ASSUME NEW ms \in Seq(Turns), Countable(ms)
    PROVE  Countable(Rebuilt(ms))
<1> DEFINE b == Boundary(ms)
<1>1. CASE RealUserMessages(ms) = {} \/ b = 1
  BY <1>1, RepairCountable DEF Rebuilt
<1>2. CASE RealUserMessages(ms) # {} /\ b # 1
  <2>1. b \in 1 .. Len(ms)
    <3>1. RealUserMessages(ms) \in SUBSET (1 .. Len(ms)) /\ Len(ms) \in Nat
      BY DEF RealUserMessages
    <3> QED
      BY <1>2, <3>1, Greatest DEF Boundary
  <2>2. CutAt(ms, b) \in Seq(Turns) /\ Countable(CutAt(ms, b))
    BY <2>1, CutFacts, CutCountable
  <2>3. Rebuilt(ms) = Repair(CutAt(ms, b))
    BY <1>2 DEF Rebuilt
  <2> QED
    BY <2>2, <2>3, RepairCountable
<1> QED
  BY <1>1, <1>2

LEMMA SuffixCountable ==
    ASSUME NEW ms \in Seq(Turns), Countable(ms), NEW first \in 1 .. Len(ms)
    PROVE  Countable(SubSeq(ms, first, Len(ms)))
<1> DEFINE s == SubSeq(ms, first, Len(ms))
           n == Len(ms) - first + 1
<1>1. Len(ms) \in Nat /\ \A i \in first .. Len(ms) : ms[i] \in Turns
  OBVIOUS
<1>2. /\ s \in Seq(Turns) /\ Len(s) = n
      /\ \A i \in 1 .. n : s[i] = ms[first + i - 1]
  BY <1>1, SubSeqProperties
<1>3. n \in Nat /\ DOMAIN s = 1 .. n
  BY <1>2
<1>4. ASSUME NEW j \in 1 .. n
      PROVE  /\ IsFiniteSet(s[j].calls) /\ IsFiniteSet(s[j].results)
             /\ AtMostOneEach(s[j].results)
  <2>1. first + j - 1 \in 1 .. Len(ms)
    BY <1>1
  <2> QED
    BY <1>2, <2>1, CountableSplits
<1> HIDE DEF s, n
<1>5. Countable(s)
  BY <1>3, <1>4 DEF Countable
<1> QED
  BY <1>5 DEF s

(* What the harness holds can be counted.                                  *)
LEMMA EjectionStarts == ReductionInit => EjectionInv
<1> SUFFICES ASSUME ReductionInit PROVE EjectionInv
  OBVIOUS
<1> DEFINE m == User(1, {})
<1>1. m.calls = {} /\ m.results = {}
  BY DEF User
<1> HIDE DEF m
<1>2. messages = <<m>>
  BY DEF ReductionInit, m
<1>3. DOMAIN messages = {1} /\ messages[1] = m
  BY <1>2
<1>4. Countable(messages)
  BY <1>1, <1>3, FS_EmptySet DEF Countable, AtMostOneEach
<1> QED
  BY <1>4 DEF EjectionInv, ReductionInit

LEMMA HarnessStaysCountable ==
    ASSUME ReductionInvariant, EjectionInv, ModelSpeaks \/ UserSpeaks
    PROVE  EjectionInv'
<1>1. /\ phase = "harness" /\ messages \in Seq(Turns) /\ messages # <<>>
      /\ Countable(messages) /\ Len(messages) \in Nat
  BY DEF ReductionInvariant, BodyTypeOK, SentAsSpoken, EjectionInv, ModelSpeaks, UserSpeaks
<1>2. messages' \in Seq(Turns)
  <2>1. ReductionInvariant'
    BY ModelSpeaksKeeps, UserSpeaksKeeps
  <2> QED
    BY <2>1 DEF ReductionInvariant, BodyTypeOK
<1>3. ASSUME NEW m, HarnessAppends(m)
      PROVE  /\ messages' = Append(messages, m) /\ m \in Turns
             /\ phase' = "harness"
  <2>1. messages' = Append(messages, m) /\ phase' = "harness"
    BY <1>1, <1>3 DEF HarnessAppends
  <2>2. messages'[Len(messages) + 1] = m /\ Len(messages') = Len(messages) + 1
    BY <1>1, <2>1
  <2>3. messages'[Len(messages) + 1] \in Turns
    BY <1>1, <1>2, <2>2
  <2> QED
    BY <2>1, <2>2, <2>3
<1>4. CASE ModelSpeaks
  <2>1. PICK calls \in SUBSET {Call(Len(messages) + 1, t) : t \in Tools} :
            HarnessAppends(Assistant(IF calls = {} THEN Len(messages) + 1 ELSE NoText, calls))
    BY <1>4 DEF ModelSpeaks
  <2> DEFINE m == Assistant(IF calls = {} THEN Len(messages) + 1 ELSE NoText, calls)
  <2>2. m.calls = calls /\ m.results = {}
    BY DEF Assistant
  <2> HIDE DEF m
  <2>3. HarnessAppends(m)
    BY <2>1 DEF m
  <2>4. /\ IsFiniteSet(m.calls) /\ IsFiniteSet(m.results) /\ AtMostOneEach(m.results)
    BY <2>2, CallsCounted, FS_EmptySet DEF AtMostOneEach
  <2>5. Countable(messages')
    BY <1>1, <1>3, <2>3, <2>4, CountableGrows
  <2> QED
    BY <1>3, <2>3, <2>5 DEF EjectionInv
<1>5. CASE UserSpeaks
  <2> DEFINE last == messages[Len(messages)]
             ids == last.calls \cup {Ghost.id}
  <2>1. PICK results \in SUBSET (Answers(last.calls) \cup {Ghost}),
             text \in {NoText, Len(messages) + 1} :
            AtMostOneEach(results) /\ HarnessAppends(User(text, results))
    BY <1>5 DEF UserSpeaks
  <2>2. IsFiniteSet(ids)
    <3>1. IsFiniteSet(last.calls)
      <4>1. Len(messages) \in DOMAIN messages
        BY <1>1
      <4> QED
        BY <1>1, <4>1 DEF Countable
    <3> QED
      BY <3>1, FS_AddElement
  <2>3. \A x \in results : x.id \in ids
    BY DEF Answers
  <2> DEFINE m == User(text, results)
  <2>4. m.calls = {} /\ m.results = results
    BY DEF User
  <2> HIDE DEF m, ids, last
  <2>5. HarnessAppends(m)
    BY <2>1 DEF m
  <2>6. /\ IsFiniteSet(m.calls) /\ IsFiniteSet(m.results) /\ AtMostOneEach(m.results)
    BY <2>1, <2>2, <2>3, <2>4, ResultsCounted, FS_EmptySet
  <2>7. Countable(messages')
    BY <1>1, <1>3, <2>5, <2>6, CountableGrows
  <2> QED
    BY <1>3, <2>5, <2>7 DEF EjectionInv
<1> QED
  BY <1>4, <1>5

(* Submitting and rebuilding keep the body countable; the soft cap finds   *)
(* nothing ejected.                                                        *)
LEMMA RebuildStaysCountable ==
    ASSUME ReductionInvariant, EjectionInv, (\E first \in DOMAIN messages : Submit(first)) \/ Rebuild
    PROVE  EjectionInv'
<1>1. messages \in Seq(Turns) /\ phase \in {"harness", "rebuild"} /\ Countable(messages)
  BY DEF ReductionInvariant, BodyTypeOK, EjectionInv, Submit, Rebuild
<1>2. CASE \E first \in DOMAIN messages : Submit(first)
  <2>1. PICK first \in 1 .. Len(messages) : Submit(first)
    BY <1>1, <1>2
  <2>2. messages' = SubSeq(messages, first, Len(messages)) /\ phase' = "rebuild"
    BY <2>1 DEF Submit
  <2>3. Countable(messages')
    BY <1>1, <2>2, SuffixCountable
  <2> QED
    BY <2>2, <2>3 DEF EjectionInv
<1>3. CASE Rebuild
  <2>1. /\ messages' = (IF enabled THEN Rebuilt(messages) ELSE messages)
        /\ entry' = messages' /\ phase' = "eject"
    BY <1>3 DEF Rebuild
  <2>2. Countable(messages')
    BY <1>1, <2>1, RebuiltCountable
  <2>3. messages' \in Seq(Turns)
    <3>1. ReductionInvariant'
      BY <1>3, RebuildKeeps
    <3> QED
      BY <3>1 DEF ReductionInvariant, BodyTypeOK
  <2>4. PICK ms : ms = messages'
    OBVIOUS
  <2>5. PICK limit : limit = cap'
    OBVIOUS
  <2>6. Greedy(ms, ms, limit) /\ Len(ms) \in Nat
    BY <2>2, <2>3, <2>4, GreedyStarts
  <2>7. Len(messages') <= Len(entry') /\ Countable(entry')
    BY <2>1, <2>2, <2>4, <2>6
  <2>8. Greedy(entry', messages', cap')
    BY <2>1, <2>4, <2>5, <2>6
  <2> QED
    BY <2>1, <2>2, <2>7, <2>8 DEF EjectionInv
<1> QED
  BY <1>2, <1>3

(* An ejection is the greedy one, and comes only over the cap.             *)
LEMMA EjectStaysGreedy == ReductionInvariant /\ EjectionInv /\ Eject => EjectionInv'
<1> SUFFICES ASSUME ReductionInvariant, EjectionInv, Eject PROVE EjectionInv'
  OBVIOUS
<1>1. /\ phase = "eject" /\ phase' = "eject" /\ entry' = entry /\ cap' = cap /\ tools = Tools
      /\ messages \in Seq(Turns) /\ entry \in Seq(Turns) /\ cap \in Nat
      /\ ~UnderCap
      /\ Len(messages) <= Len(entry)
      /\ Len(messages) = Len(entry) =>
             Countable(messages) /\ Countable(entry) /\ Greedy(entry, messages, cap)
  BY DEF Eject, ReductionInvariant, BodyTypeOK, TiersInOrder, EjectionInv, setting
<1>2. PICK c \in LargeResults(messages) :
          NextEjection(messages, c) /\ messages' = Stubbed(messages, c[1], c[2])
  BY DEF Eject
<1>3. Len(messages') = Len(messages)
  <2>1. c[1] \in 1 .. Len(messages) /\ c[2] \in messages[c[1]].results
    BY <1>1, LargeFacts
  <2> QED
    BY <1>1, <1>2, <2>1, StubFacts
<1>4. ASSUME Len(messages) = Len(entry)
      PROVE  Countable(messages') /\ Greedy(entry, messages', cap)
  <2>1. Countable(messages) /\ Countable(entry) /\ Greedy(entry, messages, cap)
    BY <1>1, <1>4
  <2>2. BodySize(messages, Tools) \in Nat
    BY <1>1, <2>1, BodySizes
  <2>3. BodySize(messages, Tools) > cap
    BY <1>1, <2>2 DEF UnderCap
  <2>4. Countable(messages')
    BY <1>1, <1>2, <2>1, StubSaves
  <2> QED
    BY <1>1, <1>2, <2>1, <2>3, <2>4, GreedyContinues
<1>5. Len(messages') <= Len(entry')
  BY <1>1, <1>3
<1>6. Len(messages') = Len(entry') =>
          Countable(messages') /\ Countable(entry') /\ Greedy(entry', messages', cap')
  BY <1>1, <1>3, <1>4
<1> QED
  BY <1>1, <1>5, <1>6 DEF EjectionInv

(* A pruned body is shorter than the soft cap found it.                    *)
LEMMA PruneShortens == ReductionInvariant /\ EjectionInv /\ Prune => EjectionInv'
<1> SUFFICES ASSUME ReductionInvariant, EjectionInv, Prune PROVE EjectionInv'
  OBVIOUS
<1>1. /\ phase = "prune" /\ phase' = "prune" /\ entry' = entry
      /\ messages \in Seq(Turns) /\ entry \in Seq(Turns)
      /\ Len(messages) <= Len(entry) /\ PrunablePairs(messages) # {}
      /\ messages' = WithoutPair(messages, Min(PrunablePairs(messages)))
  BY DEF Prune, ReductionInvariant, BodyTypeOK, EjectionInv
<1>2. Min(PrunablePairs(messages)) \in PrunablePairs(messages)
  <2>1. PrunablePairs(messages) \in SUBSET Nat
    BY <1>1 DEF PrunablePairs
  <2>2. \E i \in PrunablePairs(messages) : \A j \in PrunablePairs(messages) : i <= j
    BY <1>1, <2>1, Least
  <2> QED
    BY <2>2 DEF Min
<1>3. Len(messages') = Len(messages) - 2 /\ Len(messages) \in Nat /\ Len(entry) \in Nat
  BY <1>1, <1>2, WithoutPairFacts
<1>4. Len(messages') <= Len(entry') /\ Len(messages') # Len(entry')
  BY <1>1, <1>3
<1> QED
  BY <1>1, <1>4 DEF EjectionInv

(* The history can be counted in every phase, and what tier A has ejected  *)
(* was the largest, by which the body has become smaller, and over the cap *)
(* without the last of it.                                                 *)
THEOREM EjectionInductive == ReductionSpec => [](ReductionInvariant /\ EjectionInv)
<1>1. ASSUME ReductionInvariant, EjectionInv, [ReductionNext]_reductionVars
      PROVE  EjectionInv'
  <2>1. CASE ModelSpeaks \/ UserSpeaks
    BY <1>1, <2>1, HarnessStaysCountable
  <2>2. CASE (\E first \in DOMAIN messages : Submit(first)) \/ Rebuild
    BY <1>1, <2>2, RebuildStaysCountable
  <2>3. CASE Eject
    BY <1>1, <2>3, EjectStaysGreedy
  <2>4. CASE Prune
    BY <1>1, <2>4, PruneShortens
  <2>5. CASE EjectDone \/ PruneDone \/ Trim
    <3>1. /\ UNCHANGED <<messages, entry, cap>>
          /\ phase \in {"eject", "prune", "trim"}
          /\ phase' \in {"prune", "trim", "forward", "refused"}
      BY <2>5 DEF EjectDone, PruneDone, Trim, Verdict, setting, body
    <3> QED
      BY <1>1, <3>1 DEF EjectionInv
  <2>6. CASE UNCHANGED reductionVars
    <3>1. UNCHANGED <<phase, messages, entry, cap>>
      BY <2>6 DEF reductionVars
    <3> QED
      BY <1>1, <3>1 DEF EjectionInv
  <2> QED
    BY <1>1, <2>1, <2>2, <2>3, <2>4, <2>5, <2>6 DEF ReductionNext
<1>2. ReductionInit => EjectionInv
  BY EjectionStarts
<1> QED
  BY <1>1, <1>2, ReductionInductive, PTL DEF ReductionSpec

(* Where ejecting is enough, no smaller number of large results would have *)
(* been: the largest-first order of tier A (soft_cap_tier_a_eject) drops   *)
(* as few contents as the cap allows.                                      *)
THEOREM FewestEjected == ReductionSpec => []EjectsFewest
<1>1. ASSUME ReductionInvariant, EjectionInv PROVE EjectsFewest
  <2> SUFFICES ASSUME phase = "forward", Len(messages) = Len(entry), tools = Tools,
                      NEW S \in SUBSET LargeResults(entry), Cardinality(S) < Ejected
               PROVE  BodySize(entry, Tools) - Savings(S) > cap
    BY DEF EjectsFewest
  <2> DEFINE L == LargeResults(entry)
             G == Gone(entry, messages)
             w == Saving(entry)
  <2>1. /\ messages \in Seq(Turns) /\ entry \in Seq(Turns) /\ cap \in Nat
        /\ Countable(entry) /\ Greedy(entry, messages, cap)
    BY <1>1 DEF ReductionInvariant, BodyTypeOK, EjectionInv
  <2>2. /\ IsFiniteSet(L)
        /\ \A c \in L : w[c] = c[2].size - StubSize /\ w[c] \in Nat /\ c[2].size \in Nat
        /\ \A T \in SUBSET L : Savings(T) = SumOf(OnSet(w, T))
    BY <2>1, SavingFacts
  <2>3. LargeResults(messages) \subseteq L /\ G = L \ LargeResults(messages)
    BY <2>1 DEF Greedy, Gone
  <2>4. BodySize(entry, Tools) \in Nat
    BY <2>1, BodySizes
  <2>5. Ejected = Cardinality(L) - Cardinality(LargeResults(messages))
    BY DEF Ejected
  <2>6. /\ \A c \in G, d \in LargeResults(messages) : c[2].size >= d[2].size
        /\ G # {} => \E c \in G : /\ \A d \in G : c[2].size <= d[2].size
                                  /\ BodySize(entry, Tools) - Savings(G \ {c}) > cap
    BY <2>1 DEF Greedy
  <2> HIDE DEF L, G, w
  <2>7. /\ IsFiniteSet(G) /\ Ejected = Cardinality(G) /\ G \in SUBSET L
        /\ IsFiniteSet(S) /\ Cardinality(S) \in Nat /\ S \in SUBSET L
    <3>1. IsFiniteSet(S) /\ IsFiniteSet(G) /\ IsFiniteSet(LargeResults(messages))
      BY <2>2, <2>3, FS_Subset DEF L
    <3>2. /\ Cardinality(LargeResults(messages) \cup G) =
                 Cardinality(LargeResults(messages)) + Cardinality(G)
                     - Cardinality(LargeResults(messages) \cap G)
      BY <3>1, FS_Union
    <3>3. LargeResults(messages) \cup G = L /\ LargeResults(messages) \cap G = {}
      BY <2>3
    <3>4. /\ Cardinality(LargeResults(messages) \cup G) = Cardinality(L)
          /\ Cardinality(LargeResults(messages) \cap G) = 0
      <4>1. Cardinality({}) = 0
        BY FS_EmptySet
      <4> QED
        BY <3>3, <4>1, Zenon
    <3>5. /\ Cardinality(LargeResults(messages)) \in Nat /\ Cardinality(G) \in Nat
          /\ Cardinality(S) \in Nat
      BY <3>1, FS_CardinalityType
    <3>6. Cardinality(L) = Cardinality(LargeResults(messages)) + Cardinality(G)
      BY <3>2, <3>4, <3>5
    <3> QED
      BY <2>3, <2>5, <3>1, <3>5, <3>6 DEF L
  <2>8. G # {}
    BY <2>7, FS_EmptySet
  <2>9. PICK c \in G : /\ \A d \in G : c[2].size <= d[2].size
                       /\ BodySize(entry, Tools) - Savings(G \ {c}) > cap
    BY <2>6, <2>8
  <2> DEFINE T == G \ {c}
  <2>10. IsFiniteSet(T) /\ Cardinality(T) = Cardinality(G) - 1 /\ Cardinality(G) \in Nat
    BY <2>7, <2>9, FS_RemoveElement, FS_CardinalityType
  <2>11. T \in SUBSET L /\ BodySize(entry, Tools) - Savings(T) > cap
    BY <2>7, <2>9
  <2>12. \A a \in S \ T, d \in T \ S : w[a] <= w[d]
    <3> SUFFICES ASSUME NEW a \in S \ T, NEW d \in T PROVE w[a] <= w[d]
      OBVIOUS
    <3>1. a \in L /\ d \in L /\ d \in G /\ (a = c \/ a \in LargeResults(messages))
      BY <2>3, <2>7, <2>11
    <3>2. a[2].size <= d[2].size
      <4>1. CASE a = c
        BY <2>9, <3>1, <4>1
      <4>2. CASE a \in LargeResults(messages)
        <5>1. d[2].size >= a[2].size /\ d[2].size \in Nat /\ a[2].size \in Nat
          BY <2>2, <2>6, <3>1, <4>2
        <5> QED
          BY <5>1
      <4> QED
        BY <3>1, <4>1, <4>2
    <3>3. /\ w[a] = a[2].size - StubSize /\ w[d] = d[2].size - StubSize
          /\ a[2].size \in Nat /\ d[2].size \in Nat
      BY <2>2, <3>1
    <3> QED
      BY <3>2, <3>3, ReductionAssumption
  <2> HIDE DEF T
  <2>13. SumOf(OnSet(w, S)) <= SumOf(OnSet(w, T))
    <3>1. Cardinality(S) <= Cardinality(T)
      BY <2>7, <2>10
    <3>2. \A a \in S \cup T : w[a] \in Nat
      BY <2>2, <2>7, <2>11
    <3> QED
      BY <2>7, <2>10, <2>12, <3>1, <3>2, LargerSum
  <2>14. SumOf(OnSet(w, S)) \in Nat /\ SumOf(OnSet(w, T)) \in Nat
    <3>1. (\A a \in S : w[a] \in Nat) /\ (\A a \in T : w[a] \in Nat)
      BY <2>2, <2>7, <2>11
    <3> QED
      BY <2>7, <2>10, <3>1, SumIsNatural
  <2>15. Savings(S) = SumOf(OnSet(w, S)) /\ Savings(T) = SumOf(OnSet(w, T))
    BY <2>2, <2>7, <2>11
  <2> QED
    BY <2>1, <2>4, <2>11, <2>13, <2>14, <2>15
<1> QED
  BY <1>1, EjectionInductive, PTL
=============================================================================
