------------------------------ MODULE SseStream ------------------------------
(***************************************************************************)
(* One streamed response from the upstream to the harness and to the       *)
(* ledger: chunks that cut the stream anywhere, the usage-truth rewriter   *)
(* between them (usage_truth.rs 105-242), and the usage parser that reads  *)
(* the original bytes when the stream has ended (usage.rs).  The smallest  *)
(* pieces a chunk can separate are tokens: an event's name line, the first *)
(* and the second half of its data line, carriage return and newline.      *)
(***************************************************************************)
EXTENDS Integers, Sequences, FiniteSetsExt

CONSTANTS Inputs,       \* what an event may report as input_tokens
          CacheReads,   \* ... and as cache_read_input_tokens
          Estimates,    \* estimated prompt sizes (estimate_tokens), 0 for none
          MaxEvents     \* bound: events of one response

ASSUME StreamAssumption ==
  /\ Inputs \subseteq Nat /\ CacheReads \subseteq Nat /\ Estimates \subseteq Nat
  /\ MaxEvents \in Nat

VARIABLES dialect,    \* "anthropic" or "openai": the handler that forwards
          gate,       \* enabled_for_session answered yes
          est,        \* the estimate of the prompt's size
          response,   \* the tokens the upstream is going to send
          pos,        \* how many of them have arrived (`accumulated`)
          carry,      \* the rewriter's carry
          out,        \* what the harness received
          stream,     \* "streaming", "ended", "broken" or "gone"
          recorded    \* the usage the ledger row holds, or NoUsage

streamVars == <<dialect, gate, est, response, pos, carry, out, stream, recorded>>

-----------------------------------------------------------------------------
\* The upstream's side: which events a response has and how it writes them.

Tok(t) == [t |-> t, kind |-> "", in |-> 0, cached |-> 0]
NoBytes == Tok("none")

\* A usage report with an input side; without one (output_tokens only) the
\* kind is "output", and "text" is an event that is no usage report.
Reports(kind) == [t : {"tail"}, kind : {kind}, in : Inputs, cached : CacheReads]
Plain(kind)   == [t : {"tail"}, kind : {kind}, in : {0}, cached : {0}]

EventTokens(tail, style) ==
  LET name == Tok("name")  head == Tok("head")  cr == Tok("cr")  nl == Tok("nl")
  IN IF style = "lf" THEN <<name, nl, head, tail, nl, nl>>
     ELSE <<name, cr, nl, head, tail, cr, nl, cr, nl>>

Payloads == Reports("start") \cup Reports("delta") \cup Plain("output") \cup Plain("text")

EventSize(style) == IF style = "lf" THEN 6 ELSE 9

Response(n, payload, style) ==
  [i \in 1..n * EventSize(style) |->
     EventTokens(payload[((i - 1) \div EventSize(style)) + 1], style)
       [((i - 1) % EventSize(style)) + 1]]

Responses ==
  { Response(r[1], r[2], r[3]) :
      r \in UNION { {n} \X [1..n -> Payloads] \X {"lf", "crlf"} : n \in 0..MaxEvents } }

NoUsage == [in |-> -1, cached |-> -1]
accumulated == SubSeq(response, 1, pos)

-----------------------------------------------------------------------------
\* The rewriter.

Rewriting == dialect = "anthropic" /\ gate /\ est > 0

\* find_double_newline: the first blank line of either style ends an event.
EventEnds(buf) ==
  { p \in 2..Len(buf) :
      /\ buf[p].t = "nl"
      /\ \/ buf[p - 1].t = "nl"
         \/ p > 3 /\ buf[p - 1].t = "cr" /\ buf[p - 2].t = "nl" /\ buf[p - 3].t = "cr" }

HasInputSide(tok) == tok.kind \in {"start", "delta"}
Total(tok) == tok.in + tok.cached

\* bump_usage: raise input_tokens until the reported total is the estimate.
Bumped(tok) ==
  IF HasInputSide(tok) /\ est > Total(tok)
  THEN [tok EXCEPT !.in = @ + (est - Total(tok))] ELSE tok

\* Transform: the events of the carry end where find_double_newline finds a blank
\* line in what the events before have left.
Cuts(buf) ==
  CHOOSE C \in SUBSET EventEnds(buf) :
    \A p \in EventEnds(buf) :
      p \in C <=> \A q \in C : q < p => p - q \in EventEnds(SubSeq(buf, q + 1, Len(buf)))

\* rewrite_event: a data line is parsed only when all of it is in the event.  The
\* line that replaces it ends in a bare newline: of its carriage return no byte is
\* left.
DataLine(buf, cuts, i) == i > 1 /\ i - 1 \notin cuts /\ buf[i - 1].t = "head"
RewriteEvent(buf, cuts, i) ==
  IF DataLine(buf, cuts, i) THEN Bumped(buf[i])
  ELSE IF i > 1 /\ DataLine(buf, cuts, i - 1) /\ Bumped(buf[i - 1]) # buf[i - 1]
          /\ buf[i].t = "cr"
       THEN NoBytes
  ELSE buf[i]

Emit(buf, cuts) ==
  LET done == Max(cuts \cup {0})
  IN [out   |-> [i \in 1..done |-> RewriteEvent(buf, cuts, i)],
      carry |-> SubSeq(buf, done + 1, Len(buf))]

TransformChunk(buf) ==   \* Mutant: each chunk taken for whole events
  Emit(buf, {Len(buf)})

\* transform: emit every complete event of the carry.
Transform(buf) == Emit(buf, Cuts(buf))

-----------------------------------------------------------------------------
\* The parsers of the accounting.

\* A chunk boundary inside a multi-byte character leaves text that is not UTF-8.
IsUtf8(bytes) ==
  ~(/\ bytes # <<>> /\ bytes[Len(bytes)].t = "head"
    /\ response[Len(bytes) + 1].kind = "text")

\* Data lines that arrived whole: their parse needs no blank line.
UsageLines(bytes) == {i \in DOMAIN bytes : bytes[i].t = "tail" /\ bytes[i].kind # "text"}
InputReports(bytes) == {i \in UsageLines(bytes) : HasInputSide(bytes[i])}

\* parse_anthropic_usage_from_sse adds up every report of the stream; a sum is the
\* number of its units.
Units(f) == UNION {{i} \X (1..f[i]) : i \in DOMAIN f}
SumOf(f) == Cardinality(Units(f))
AnthropicUsage(bytes) ==
  IF UsageLines(bytes) = {} THEN NoUsage
  ELSE [in     |-> SumOf([i \in UsageLines(bytes) |-> bytes[i].in]),
        cached |-> SumOf([i \in UsageLines(bytes) |-> bytes[i].cached])]

\* The prompt count of this dialect includes the cached part.
OpenAiReport(tok) ==
  [in |-> IF tok.in > tok.cached THEN tok.in - tok.cached ELSE 0, cached |-> tok.cached]

OpenAiUsageFirst(bytes) ==   \* Mutant: the first report is kept
  IF InputReports(bytes) = {} THEN NoUsage ELSE OpenAiReport(bytes[Min(InputReports(bytes))])

\* parse_openai_usage_from_sse keeps the latest report with a prompt side.
OpenAiUsage(bytes) ==
  IF InputReports(bytes) = {} THEN NoUsage ELSE OpenAiReport(bytes[Max(InputReports(bytes))])

ParseUsage(bytes) ==
  IF ~IsUtf8(bytes) THEN NoUsage
  ELSE IF dialect = "anthropic" THEN AnthropicUsage(bytes) ELSE OpenAiUsage(bytes)

-----------------------------------------------------------------------------
StreamInit ==
  /\ dialect \in {"anthropic", "openai"} /\ gate \in BOOLEAN
  /\ est \in Estimates /\ response \in Responses
  /\ pos = 0 /\ carry = <<>> /\ out = <<>>
  /\ stream = "streaming" /\ recorded = NoUsage

\* One chunk, of any size, arrives and is passed on.
Chunk(n) ==
  /\ stream = "streaming" /\ pos + n <= Len(response)
  /\ LET chunk == SubSeq(response, pos + 1, pos + n)
         t == Transform(carry \o chunk)
     IN IF Rewriting THEN out' = out \o t.out /\ carry' = t.carry
        ELSE out' = out \o chunk /\ UNCHANGED carry
  /\ pos' = pos + n
  /\ UNCHANGED <<dialect, gate, est, response, stream, recorded>>

\* The loop is left, the tail is flushed as it is, the ledger row is written.
\* Both handlers account for a broken stream as for a complete one.
Leave(how) ==
  /\ stream = "streaming" /\ stream' = how
  /\ out' = out \o carry /\ carry' = <<>>
  /\ recorded' = ParseUsage(accumulated)
  /\ UNCHANGED <<dialect, gate, est, response, pos>>

StreamEnds   == pos = Len(response) /\ Leave("ended")
StreamBreaks == pos < Len(response) /\ Leave("broken")

\* The harness hangs up: the body is dropped and nothing after the loop runs.
ClientGone ==
  /\ stream = "streaming" /\ stream' = "gone"
  /\ UNCHANGED <<dialect, gate, est, response, pos, carry, out, recorded>>

StreamNext ==
  \/ \E n \in 1..Len(response) : Chunk(n)
  \/ StreamEnds
  \/ StreamBreaks
  \/ ClientGone

StreamSpec == StreamInit /\ [][StreamNext]_streamVars

-----------------------------------------------------------------------------
\* What the harness is owed, read off the whole stream at once: reports that a
\* blank line completed say at least the estimate, all else is untouched but for
\* the carriage return of a line that was raised.
Complete(bytes, i) == \E p \in EventEnds(bytes) : p > i

Raised(bytes, i) ==
  /\ Rewriting /\ Complete(bytes, i)
  /\ bytes[i].t = "tail" /\ HasInputSide(bytes[i]) /\ est > Total(bytes[i])

Owed(bytes) ==
  [i \in DOMAIN bytes |->
     IF Raised(bytes, i) THEN [bytes[i] EXCEPT !.in = est - bytes[i].cached]
     ELSE IF i > 1 /\ Raised(bytes, i - 1) /\ bytes[i].t = "cr" THEN NoBytes
     ELSE bytes[i]]

\* However the chunks cut the stream, whether it ends or breaks, the harness
\* has received exactly the tokens of the upstream, in order, each complete
\* report once raised to the estimate (usage_truth.rs 132-242).
ChunkingInvisible ==
  /\ stream \in {"ended", "broken"} => out = Owed(accumulated)
  /\ \E k \in 0..pos : out = SubSeq(Owed(accumulated), 1, k)

\* What an honest ledger holds: the last report with an input side.
Reported(bytes) ==
  IF InputReports(bytes) = {} THEN [in |-> 0, cached |-> 0]
  ELSE LET last == bytes[Max(InputReports(bytes))]
       IN IF dialect = "anthropic" THEN [in |-> last.in, cached |-> last.cached]
          ELSE OpenAiReport(last)

\* A ledger row, of either dialect, holds what the upstream reported and never
\* what the rewriter told the harness (main.rs 1435-1436), provided a stream of
\* the Anthropic dialect reports its input side once.
LedgerHonest ==
  recorded # NoUsage /\ (dialect = "anthropic" => Cardinality(InputReports(accumulated)) <= 1)
    => recorded = Reported(accumulated)

\* The same without the proviso: usage_truth.rs 112-113 says that some versions
\* of the API repeat the input side in message_delta.
LedgerAlwaysHonest == recorded # NoUsage => recorded = Reported(accumulated)
=============================================================================
