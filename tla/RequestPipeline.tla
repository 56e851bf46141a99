-------------------------- MODULE RequestPipeline --------------------------
(***************************************************************************)
(* A request from the client's socket to the ledger.  main resolves the    *)
(* configuration and refuses an upstream that is plainly itself; three     *)
(* handlers (Anthropic messages, OpenAI responses, everything else) refuse *)
(* a request locally or forward it, stream the answer through, and then    *)
(* close its capture, log an upstream error, append the turn to the ledger *)
(* and fold it into the amplification of the session.                      *)
(*                                                                         *)
(* A handler runs without yielding between its await points, but handlers  *)
(* run on several threads: what one of them does to a shared file or map   *)
(* in two calls is two steps here.  A client that goes away at an await    *)
(* point takes the handler with it.                                        *)
(*                                                                         *)
(* External: the clients, the provider, and an upstream address that leads *)
(* back to the proxy under a name the start-up guard does not know.        *)
(***************************************************************************)
EXTENDS Integers, Sequences, FiniteSets

CONSTANTS
    Clients,   \* requests the clients make, one handler task each
    MaxDepth,  \* bound on how often one request may come back
    Sessions,  \* session ids
    Setups,    \* the configuration sources a start of the proxy may find
    Bodies,    \* classes of request bodies
    Usages,    \* what parse_usage may find in a response
    MaxBoots   \* bound on the starts of the process

(* Of a setting, Unset is a source that does not name it. *)
Unset == "unset"
(* Of a response, no usage was found. *)
NoUsage == [input |-> 0, read |-> 0, found |-> FALSE]

(* A handler task: of a client's request, or of its n-th return. *)
Requests == Clients \X (0 .. MaxDepth)
NoTask == <<"none", 0>>

ModeNames == {"passthrough", "mutate", "rebuild"}
UpstreamNames == {"provider", "loopback", "alias"}
Routes == {"messages", "responses", "other"}

(* A body is what the parsers make of it and which size limits it exceeds. *)
BodyType ==
    [parses : {"request", "json", "garbage"},
     size   : {"fine", "reducible", "irreducible", "overflow", "walled"}]

SourceType(S) == [cli : S \cup {Unset}, env : S \cup {Unset}, toml : S \cup {Unset}]

ASSUME PipelineAssumption ==
    /\ IsFiniteSet(Clients)
    /\ MaxDepth \in Nat \ {0}
    /\ Setups \subseteq
           [mode : SourceType(ModeNames), upstream : SourceType(UpstreamNames), fileParses : BOOLEAN]
    /\ Bodies \subseteq BodyType
    /\ NoUsage \in Usages
    /\ \A u \in Usages : u.input \in Nat /\ u.read \in Nat /\ u.found \in BOOLEAN
    /\ MaxBoots \in Nat
    /\ NoTask \notin Requests

VARIABLES
    boots,   \* how often the process was started
    conf,    \* the resolved configuration, Down while the process is not running
    req,     \* the local state of each handler
    amp,     \* AppState.amp_store
    ledger,  \* .ostk/memory/ledger.jsonl, as the writes it consists of
    errors,  \* upstream-errors.jsonl: the requests it has a row of, with the status
    boot,    \* how much of the ledger was there when the process started
    collided \* a ledger row met an unfinished row of another handler, or of a crash

vars == <<boots, conf, req, amp, ledger, errors, boot, collided>>

Down == [mode |-> "down", upstream |-> "down"]
Fresh == [turns |-> 0, total |-> 0]
Blank == [phase |-> "idle"]

(* A task that is over keeps what the properties ask of it. *)
Over(q, phase, status) ==
    [phase |-> phase, hop |-> q.hop, parent |-> q.parent, capture |-> q.capture,
     recorded |-> q.recorded, sent |-> q.sent, status |-> status]

(* The newline that ends a row. *)
EndOfRow == [by |-> NoTask, kind |-> "newline", session |-> "none", ratio |-> 0]

Init ==
    /\ boots = 0
    /\ conf = Down
    /\ req = [r \in Requests |-> Blank]
    /\ amp = [s \in Sessions |-> Fresh]
    /\ ledger = <<>>
    /\ errors = {}
    /\ boot = 0
    /\ collided = FALSE

Running == conf # Down

(***************************************************************************)
(* Start: Config::resolve and the self-loop guard.                         *)
(***************************************************************************)

(* pick_value: command line over environment over file over default. *)
Pick(sources, default) ==
    CASE sources.cli # Unset  -> sources.cli
      [] sources.cli = Unset /\ sources.env # Unset -> sources.env
      [] sources.cli = Unset /\ sources.env = Unset /\ sources.toml # Unset -> sources.toml
      [] OTHER -> default

(* A file with one bad field is not read at all. *)
FromFile(setup, sources) ==
    IF setup.fileParses THEN sources ELSE [sources EXCEPT !.toml = Unset]

Resolve(setup) ==
    [mode     |-> Pick(FromFile(setup, setup.mode), "mutate"),
     upstream |-> Pick(FromFile(setup, setup.upstream), "provider")]

(* check_upstream_self_loop knows the loopback names only. *)
IsPlainSelf(upstream) == upstream = "loopback"

Boot(setup) ==
    /\ ~Running /\ boots < MaxBoots
    /\ ~IsPlainSelf(Resolve(setup).upstream)
    /\ boots' = boots + 1
    /\ conf' = Resolve(setup)
    /\ amp' = [s \in Sessions |-> Fresh]
    /\ boot' = Len(ledger)
    /\ UNCHANGED <<req, ledger, errors, collided>>

InFlight(r) == req[r].phase \notin {"idle", "answered", "gone"}

(* The process dies: the handlers and the in-memory stores are gone. *)
Crash ==
    /\ Running
    /\ conf' = Down
    /\ req' = [r \in Requests |-> IF InFlight(r) THEN Over(req[r], "gone", 0) ELSE req[r]]
    /\ collided' = (collided \/ \E r \in Requests : req[r].phase = "writing")
    /\ UNCHANGED <<boots, amp, ledger, errors, boot>>

(***************************************************************************)
(* Arrival and local refusals.                                             *)
(***************************************************************************)
NewRequest(route, s, body, hop, parent) ==
    [phase |-> "arrived", route |-> route, session |-> s, body |-> body, hop |-> hop,
     parent |-> parent, capture |-> "none", recorded |-> 0, sent |-> FALSE, status |-> 0,
     prior |-> Fresh, usage |-> NoUsage, rows |-> <<>>]

(* A client's request never carries the hop header. *)
Arrive(r, route, s, body) ==
    /\ r[2] = 0
    /\ Running /\ req[r] = Blank
    /\ req' = [req EXCEPT ![r] = NewRequest(route, s, body, FALSE, r)]
    /\ UNCHANGED <<boots, conf, amp, ledger, errors, boot, collided>>

Answered(q, status) == Over(q, "answered", status)

(* HttpCapture::finish. *)
Closed(q, status) ==
    IF q.capture = "open" THEN [q EXCEPT !.capture = "closed", !.recorded = status] ELSE q

(* Mutant: the loop guard is missing from the widest handler. *)
IsLoopKnownPaths(q) == q.hop /\ q.route # "other"

(* The hop header on ingress: this request comes from the proxy itself. *)
IsLoop(q) == q.hop

(* axum's body limit answers before the handler, the handlers' loop guard  *)
(* before anything else; both leave no capture behind.                     *)
TurnAway(r) ==
    LET q == req[r]
    IN  /\ q.phase = "arrived"
        /\ \/ q.body.size = "walled" /\ req' = [req EXCEPT ![r] = Answered(q, 413)]
           \/ /\ q.body.size # "walled" /\ IsLoop(q)
              /\ req' = [req EXCEPT ![r] = Answered(q, 508)]
        /\ UNCHANGED <<boots, conf, amp, ledger, errors, boot, collided>>

(* What a handler needs the body to be: the GPT path an object, the mutate *)
(* path a messages request, the other modes JSON, the fallback nothing.    *)
Parses(q) ==
    CASE q.route = "responses" -> q.body.parses # "garbage"
      [] q.route = "messages" /\ conf.mode = "mutate" -> q.body.parses = "request"
      [] q.route = "messages" /\ conf.mode # "mutate" -> q.body.parses # "garbage"
      [] OTHER -> TRUE

(* The local refusals of the handlers, 0 for none: overflow before any     *)
(* pass, the soft cap after the passes (a body that is not JSON skips      *)
(* them), the parse error last.                                            *)
Refusal(q) ==
    CASE q.route = "messages" /\ q.body.size = "overflow" -> 400
      [] q.route = "messages" /\ q.body.size = "irreducible" /\ q.body.parses # "garbage" -> 413
      [] ~(q.route = "messages" /\ q.body.size = "overflow") /\ ~Parses(q) -> 400
      [] OTHER -> 0

(* Mutant: the soft-cap refusal returns with the capture still open. *)
RefuseLeavingOpen(q, status) == Answered(IF status = 413 THEN q ELSE Closed(q, status), status)

Refuse(q, status) == Answered(Closed(q, status), status)

(* The synchronous head of a handler: prior_amp is read for the HUD, the   *)
(* capture is opened, the passes run, and the request is refused or ready. *)
Prepare(r) ==
    LET q == [req[r] EXCEPT !.capture = "open", !.prior = amp[req[r].session]]
    IN  /\ req[r].phase = "arrived" /\ q.body.size # "walled" /\ ~IsLoop(q)
        /\ req' = [req EXCEPT ![r] =
               IF Refusal(q) # 0 THEN Refuse(q, Refusal(q)) ELSE [q EXCEPT !.phase = "ready"]]
        /\ UNCHANGED <<boots, conf, amp, ledger, errors, boot, collided>>

(***************************************************************************)
(* Forwarding.                                                             *)
(***************************************************************************)

(* send() fails: 502, a closed capture and an error row. *)
Unreachable(r) ==
    /\ req[r].phase = "ready" /\ conf.upstream = "provider"
    /\ req' = [req EXCEPT ![r] = [Refuse(@, 502) EXCEPT !.sent = TRUE]]
    /\ errors' = errors \cup {<<r, 502>>}
    /\ UNCHANGED <<boots, conf, amp, ledger, boot, collided>>

(* The provider's response headers arrive. *)
Respond(r, status) ==
    /\ req[r].phase = "ready" /\ conf.upstream = "provider"
    /\ req' = [req EXCEPT ![r].phase = "streaming", ![r].sent = TRUE, ![r].status = status]
    /\ UNCHANGED <<boots, conf, amp, ledger, errors, boot, collided>>

(* The upstream is the proxy under another name: the request comes back,   *)
(* with the hop header every handler stamps on what it sends.              *)
LoopBack(r) ==
    LET n == <<r[1], r[2] + 1>> IN
    /\ n \in Requests
    /\ req[r].phase = "ready" /\ conf.upstream = "alias"
    /\ req' = [req EXCEPT
           ![r].phase = "waiting", ![r].sent = TRUE,
           ![n] = NewRequest(req[r].route, req[r].session, req[r].body, TRUE, r)]
    /\ UNCHANGED <<boots, conf, amp, ledger, errors, boot, collided>>

LoopAnswers(r) ==
    LET n == <<r[1], r[2] + 1>> IN
    /\ n \in Requests
    /\ req[r].phase = "waiting"
    /\ req[n].phase = "answered"
    /\ req' = [req EXCEPT ![r].phase = "streaming", ![r].status = req[n].status]
    /\ UNCHANGED <<boots, conf, amp, ledger, errors, boot, collided>>

(* The connection to the upstream breaks in the middle of the answer. *)
Break(r) ==
    /\ req[r].phase = "streaming" /\ conf.upstream = "provider"
    /\ req' = [req EXCEPT ![r].phase = "broken"]
    /\ UNCHANGED <<boots, conf, amp, ledger, errors, boot, collided>>

(* Mutant: only an orderly end of the stream is an end. *)
StreamOverClean(q) == q.phase = "streaming"

(* The last chunk has come, or chunk() has returned an error. *)
StreamOver(q) == q.phase \in {"streaming", "broken"}

(* The ledger rows of a turn: its own, and one for what the soft cap took. *)
RowsOf(q, u) ==
    CASE ~u.found \/ q.route = "other" -> <<>>
      [] u.found /\ q.route = "messages" /\ q.body.size = "reducible" -> <<"turn", "reduce">>
      [] OTHER -> <<"turn">>

(* The stream is over: the capture is closed and an error status logged. *)
Finish(r, u) ==
    /\ StreamOver(req[r])
    /\ LET q == Closed(req[r], req[r].status)
       IN  /\ req' = [req EXCEPT ![r] =
                  IF RowsOf(q, u) = <<>> THEN Answered(q, q.status)
                  ELSE [q EXCEPT !.phase = "accounting", !.usage = u, !.rows = RowsOf(q, u)]]
           /\ errors' = IF q.status >= 400 THEN errors \cup {<<r, q.status>>} ELSE errors
    /\ UNCHANGED <<boots, conf, amp, ledger, boot, collided>>

(* account: how much larger the prompt was than what was paid in full. *)
AmpRatio(u) == IF u.input = 0 THEN 1 ELSE (u.read + u.input) \div u.input

(* persist_amp_row writes a row and its newline in two calls. *)
WriteRow(r) ==
    LET q == req[r]
    IN  /\ q.phase = "accounting" /\ q.rows # <<>>
        /\ ledger' = Append(ledger,
               [by |-> r, kind |-> Head(q.rows), session |-> q.session, ratio |-> AmpRatio(q.usage)])
        /\ req' = [req EXCEPT ![r].phase = "writing"]
        /\ collided' = (collided \/ \E o \in Requests : req[o].phase = "writing")
        /\ UNCHANGED <<boots, conf, amp, errors, boot>>

EndRow(r) ==
    /\ req[r].phase = "writing"
    /\ ledger' = Append(ledger, EndOfRow)
    /\ req' = [req EXCEPT ![r].phase = "accounting", ![r].rows = Tail(@)]
    /\ UNCHANGED <<boots, conf, amp, errors, boot, collided>>

(* Mutant: the turn is added to the mean the request started from. *)
FoldOfPrior(q, a) ==
    [turns |-> q.prior.turns + 1, total |-> q.prior.total + AmpRatio(q.usage)]

(* The running mean, held as its sum: mean = total / turns. *)
Fold(q, a) == [turns |-> a.turns + 1, total |-> a.total + AmpRatio(q.usage)]

(* Under the entry's lock. *)
Account(r) ==
    LET q == req[r]
    IN  /\ q.phase = "accounting" /\ q.rows = <<>>
        /\ amp' = [amp EXCEPT ![q.session] = Fold(q, @)]
        /\ req' = [req EXCEPT ![r] = Answered(q, q.status)]
        /\ UNCHANGED <<boots, conf, ledger, errors, boot, collided>>

(* The client, or the request this one came back from, closes the          *)
(* connection at an await point: the handler is dropped where it stands.   *)
HangUp(r) ==
    /\ req[r].phase \in {"ready", "waiting", "streaming"}
    /\ req[r].parent = r \/ req[req[r].parent].phase = "gone"
    /\ req' = [req EXCEPT ![r] = Over(@, "gone", 0)]
    /\ UNCHANGED <<boots, conf, amp, ledger, errors, boot, collided>>

Statuses == {200, 400}

HandlerStep(r) ==
    \/ TurnAway(r)
    \/ Prepare(r)
    \/ LoopBack(r) \/ LoopAnswers(r)
    \/ \E u \in Usages : Finish(r, u)
    \/ WriteRow(r)
    \/ EndRow(r)
    \/ Account(r)

ProviderStep(r) == Unreachable(r) \/ \E st \in Statuses : Respond(r, st)

Next ==
    \/ \E setup \in Setups : Boot(setup)
    \/ Crash
    \/ \E r \in Requests :
        \/ \E route \in Routes, s \in Sessions, body \in Bodies : Arrive(r, route, s, body)
        \/ HandlerStep(r)
        \/ ProviderStep(r)
        \/ Break(r)
        \/ HangUp(r)

(* The runtime polls every task that can make progress, and the upstream   *)
(* answers or the connection to it fails; nobody has to call or to leave.  *)
Fairness == \A r \in Requests : WF_vars(HandlerStep(r)) /\ WF_vars(ProviderStep(r))

Spec == Init /\ [][Next]_vars /\ Fairness

(***************************************************************************)
(* Properties.                                                             *)
(***************************************************************************)
(* Every answer a client gets to the end leaves the record it should: the  *)
(* capture, once opened, is closed with the very status the client saw,    *)
(* there is an error row exactly when the trouble was upstream, and a      *)
(* request refused locally has neither an error row nor a turn.            *)
AnswersAreRecorded ==
    \A r \in Requests :
        req[r].phase = "answered" =>
            LET q == req[r]
            IN  /\ q.capture # "none" => q.capture = "closed" /\ q.recorded = q.status
                /\ (<<r, q.status>> \in errors) <=> (q.sent /\ q.status >= 400)
                /\ ~q.sent => \A i \in DOMAIN ledger : ledger[i].by # r

(* A loop is broken at its first turn: no request that came from the proxy *)
(* is forwarded or captured, so a request costs at most one more, and the  *)
(* client is told what became of that one.                                 *)
LoopIsBroken ==
    \A n \in Requests :
        req[n] # Blank /\ req[n].hop =>
            /\ ~req[n].sent /\ req[n].capture = "none"
            /\ req[req[n].parent].phase = "answered" =>
                   req[req[n].parent].status = req[n].status /\ req[n].status \in {413, 508}

(* The rows a reader of the ledger can parse: alone between two newlines. *)
Readable ==
    {i \in DOMAIN ledger :
        /\ ledger[i].kind # "newline"
        /\ i = 1 \/ ledger[i - 1] = EndOfRow
        /\ i < Len(ledger) /\ ledger[i + 1] = EndOfRow}

(* The turns of this life of the process the ledger shows for a session. *)
TurnsShown(s) ==
    {i \in Readable : i > boot /\ ledger[i].kind = "turn" /\ ledger[i].session = s}

(* Turns whose row is written and that are not yet in the mean. *)
Pending(s) ==
    {i \in TurnsShown(s) : req[ledger[i].by].phase # "answered"}

(* A turn counts for as many units as its ratio. *)
Units(shown) == UNION {{i} \X (1 .. ledger[i].ratio) : i \in shown}

(* The amplification the HUD shows a session is the mean over exactly the  *)
(* turns the ledger shows for it since the process started, each counted   *)
(* once however many handlers end together and whatever the soft cap wrote *)
(* besides, unless two rows have collided in the file.                     *)
MeanIsOfTheLedger ==
    Running /\ ~collided =>
        \A s \in Sessions :
            LET shown == TurnsShown(s) \ Pending(s)
            IN  amp[s] = [turns |-> Cardinality(shown), total |-> Cardinality(Units(shown))]

(* Every request is answered, or its client has left. *)
RequestsAreAnswered ==
    \A r \in Requests :
        req[r].phase = "arrived" ~> req[r].phase \in {"answered", "gone"}
=============================================================================
