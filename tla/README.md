# A TLA+ model of ostk-cache

ostk-cache is a local HTTP proxy between a coding harness and a model provider.
It rewrites request bodies so that the provider's prompt cache is used well,
keeps per-lane state that says whether a cached prefix is still alive, and
writes logs and captures beside the traffic. This directory holds TLA+ modules
translated from the Rust source, TLC configurations that check them on small
instances, and TLAPS proofs for every value of the constants.

Paths below are relative to the repository (`src/` here is its crate directory).

## Inventory

| Component | State | Operations | Hard part | Correct when |
|---|---|---|---|---|
| Write policy (`write_policy.rs`) | a lane record per (session, model): simulated and committed prefix, observed prompt, tier, last time, gap ring | `decide`, `forecast_tier` | truncation, shrinking prompts, the tier decided now judges the *next* gap | reads and writes add up, no wrap, cold writes capped |
| Lane store and commit path (`main.rs` 38-89, 404-480, 1501-1505) | `lane_store`, one candidate lane per request in flight | snapshot, sweep, local rejection, forward, commit | overlapping requests, failures between snapshot and commit, sweep by an old clock | newest success wins, only idle lanes are forgotten; WARM is said only of a live prefix |
| Frozen projection (`main.rs` 56-72, 741-957, `rebuild.rs` 380-571) | `projection_store` per (session, first message) | offer, match, serve or re-render, persist, sweep | persisted before the upstream answers | a WARM turn re-sends its block; no cycle is omitted |
| Message repair and soft cap (`rebuild.rs` 572-995) | the request body | repair of orphans, four reduction tiers | positions shift while blocks are dropped | no result loses its call, the cap is met or refused |
| cache_control markers (`rebuild.rs` 58-170, mutate path of `main.rs`) | the request body | orientation block, harness floor, HUD and firmware markers | four-marker budget, TTL order | order and budget hold for any harness markers |
| Hook log (`lib.rs` 51-88, 606-691) | `hooks.jsonl`, its archives, a stamp | rotate, append | each file operation may fail or be the last | no row lost, rotation never stops |
| HTTP capture (`capture.rs`, `http_capture.rs`) | dedupe queue, bounded channel, entry directories, an estimate of their number | admit, start, outbound, finish, rotate | dropped messages, out-of-order starts, failing file calls, restart | cap within slack but for what a failing call hid, once per window, writer never stuck |
| Projection composition (`rebuild.rs` 405-560, 1030-1615) | the synthetic context under construction | extract, cap, carry over, elide | what the cap pages out may be unresolved | every open item is told, nothing optional is elided in vain |
| Cycle digests (`cycle_digest.rs`, `standalone.rs`) | one append-only file per workspace | harvest, read last K of a session | shared by all seats, rows may be torn | a seat reads only its own turns |
| Cadence (`ttl_forecast.rs`) | ring of gaps per session, hint cache | forecast | read-modify-write without a lock, hints up to a minute old | a demotion has evidence, a hint is recent |
| Kernel client (`kernel_client.rs`) | none | find sockets, fetch with a timeout, fall back | dead sockets, late answers | a request is never held up for good, the mode says who answered |
| Transcript tail (`transcript_tail.rs`) | none | choose a session file, render its tail | newest file may be another seat's | the turn in flight is not told as a past one |
| Usage truth (`usage_truth.rs`, `usage.rs`) | the rewriter's tail of bytes | transform, flush, parse | chunks cut events anywhere | every event rewritten once, nothing lost |
| Strips (`system_reminder_strip.rs`, `billing_strip.rs`) | the request body | remove volatile text | the protected turn moves | protected turn intact, past turns stable |
| Request pipeline (`main.rs` 282-2120: three handlers) | per request: capture, status, rows; `amp_store`, ledger, error log | refuse, forward, stream, account | many ways out, hang-ups, loops, overlapping turns | every answer recorded as the client saw it, mean equals ledger |
| Page table (`lib.rs` 180-290) | pages by name | store, load, pin, evict, release, restore | | state transitions |
| Configuration (`config.rs`) | none | resolve CLI, environment, file | | precedence |
| Hooks installer (`bin/hooks.rs`) | settings.json | install, uninstall, status | read-merge-replace | foreign entries kept |

The components meet in `handle_anthropic_message`: one task per request runs
cadence, policy decision, capture start, overflow answer, strips, orientation,
rebuild, file-handle rewrite, soft cap, forwarding, and, inside the response
stream, capture finish, lane commit and accounting. Tasks share the stores
(`DashMap`s locked per access, not per request), the capture channel and the
hook adapter's mutex. Nothing but the files survives a restart.

## Modules

| Module | What it is |
|---|---|
| `WritePolicy` | `decide` and `forecast_tier` as operators on a lane record, integer arithmetic |
| `LaneCommit` | handlers racing on the lane store; the upstream's cache as ghost state `aliveUntil` |
| `LaneRegister` | the abstract specification `LaneCommit` implements |
| `LaneCommit_proofs` | its theorems |
| `FrozenProjection` | the projection store with the lane that licenses a frozen block (uses `WritePolicy`) |
| `HookLog`, `HookLog_proofs` | hook events, rotation, failures and crashes; its theorems |
| `CapturePipeline` | dedupe, channel, writer, rotation, restart |
| `MessageReduction` | boundary cut, repair of orphaned results, the tiers of the soft cap |
| `WireMarkers` | strips and cache_control markers: the bytes and breakpoints the provider caches by |
| `ProjectionContent` | what the synthetic context holds and what a budget elides |
| `ProjectionSources` | kernel daemons, digest file and transcript: where its sections come from |
| `SseStream` | a streamed response through the rewriter, and the usage parsers |
| `RequestPipeline` | three handlers from the socket to the ledger, with start-up |
| `CadenceForecast` | `forecast_ttl`, its unlocked state and its hint cache |
| `FrozenProjection_proofs`, `RequestPipeline_proofs`, `CapturePipeline_proofs` | theorems about the module of that name |
| `Projection_proofs` | theorems about `ProjectionContent` and `ProjectionSources` |
| `RequestBody_proofs` | theorems about `WireMarkers` and `MessageReduction` |
| `StreamAndCadence_proofs` | theorems about `SseStream` and `CadenceForecast` |
| `MC*` | constants for TLC |

A request meets them in this order: `RequestPipeline` (arrival), `CadenceForecast`,
`LaneCommit` (decision), `CapturePipeline` (start), `ProjectionSources`,
`WireMarkers` (strips, orientation), `FrozenProjection` and `ProjectionContent`
(rebuild), `MessageReduction` (cut, repair, soft cap), `RequestPipeline` (send),
`SseStream`, `CapturePipeline` (finish), `LaneCommit` (commit), `RequestPipeline`
(accounting). Each module keeps the steps of its neighbours that its own state
can see and abstracts the rest to a nondeterministic choice.

### LaneCommit

A handler's program counter is `req[r].phase`: `timed` (read the clock),
`decided` (cloned the lane and ran `decide`), `swept` (idle lanes retained or
dropped), `sent`, `streaming`. Each step is one access to the shared store, so
TLC interleaves handlers wherever the code releases the map. The commit carries
the harness floor: `Forward` patches the candidate's `ttl` exactly as
`clamp_ttl_to_harness_floor` does. The upstream is external: it keeps a prefix
for the lifetime on the wire counted from the moment it takes the request.
`Reject` stands for the three local answers (overflow, soft cap, invalid body),
which all return before the commit.

- `WarmIsAlive`: a WARM decision is true of the upstream. It needs the code to
  commit only after success, to stamp the lane with a time *before* the upstream
  took the request, and to record the lifetime that went on the wire.
- `DecisionAddsUp`: read + write = what is kept, the unsigned subtraction does
  not wrap, a cold write never exceeds `cold_cap`.
- `NewestSuccessWins`: refinement of `LaneRegister` with `newest` mapped to
  `last_ts`. The history variable `ended` holds lane and request time of every
  request whose response has streamed to its end, and both machines carry it: the
  register moves a lane on only together with it (`Land`), so a candidate
  committed by a rejected, refused or broken request, a newer success dropped for
  an older one, and a lane forgotten while in use are all steps it does not have.
  Lanes are forgotten when idle (`ForgetIdle`), or all together with `ended` when
  the process starts anew (`StartAnew`).

Bounds: one lane and two handlers are the least that race; prompts {2, 4} let a
prefix grow and shrink by half; tiers of 1 and 2 seconds with a clock up to 4
let gaps fall below, between and beyond them; an idle window of 2 and no minimum
length make the sweep happen.

### FrozenProjection

The lane machine reduced to one request phase before and one after the rebuild,
plus the store. The harness floor (`main.rs` 821-831) may raise the lifetime a
request will record, between decision and rebuild (`Floored`). `turns[c]` is what the harness holds; the boundary is its newest
user turn by index and fingerprint; `written[m]` is a history variable: what the
request that last committed lane `m` sent. `HandlingTime` bounds the time from
decision to rebuild: the assumption `OneHour + HandlingTime <= IdleEvict` is the
code's 1 h against 24 h. `ProjectionIsStable` is checked for one model; with two
the store's key is too coarse (see Disagreements).

### HookLog

One event at a time (the adapter mutex), one action per file operation.
`Hiccups` names the operations that may report an error, `CrashAt` the steps
before which the process may die; the passing run allows all of them except
those between the truncation and the filled stamp. A row whose append fails is
one that was never appended. The `manifest.json` a Stop event overwrites is left
out: nothing reads it back.

### CapturePipeline

`Admit` is the locked `check_and_record` with the id taken right after it,
`SendStart`, `RecordOutbound` and `Finish` are `try_send`s that may drop, the
writer's `Start` is three steps because a restart may fall between them (body,
rotation, metadata). `StartFailures` and `ScanFailures` name what may fail: the
directory or the body of a Start; reading the root, a shard or an entry (what is
hidden from the scan is neither counted nor deleted; an unreadable root hides all
and makes the estimate 0); deleting an entry, which then stays, with or without
its content, and is counted. The history variable `missed` holds the entries a
call failed on: those the last scan could not read or delete, and those a failing
Start has left behind since. A panic inside a message (`http_capture.rs` 49-52) is
not modelled: `handle_capture_msg` has no call that panics, and one would end its
message and not the loop.

- `WithinSlack`: the entries that are not `missed` stay within cap and slack. The
  entries that are can exceed it, see `CapEnforced` under Disagreements.
- `OncePerWindow`: a key gets in again within the window only when the queue was
  full.
- `NoEntryFromNothing`: rotated entries stay away, unstarted ones are not finished.
- `ChannelDrains`. Fairness: weak, for the writer, which the runtime polls.

Bounds: two keys and a queue of one make both eviction and expiry happen. Three
captures at a cap of two with slack one: the first Start scans (unknown estimate),
the next is skipped, the third scans and deletes, and after a restart or a failed
read the sequence is another. A channel of one drops whenever two messages wait.
All four failures are on.

### MessageReduction

One request body from the harness to the verdict of the soft cap. `phase` is the
place in the handler: `rebuild` (cut and repair, repair alone when the cut is
skipped, nothing when rebuild is off), `eject`, `prune`, `trim` (tiers A to C,
each loop iteration a step), then `forward` or `refused` (the 413). The harness
builds any history of user turns, calls, full, partial, missing and misplaced
results, and submits any suffix of it that ends in a user message. Texts and
calls carry the position they were made at, so that losing one is visible;
contents are only sizes, and a sum of sizes is the number of its units (`Units`,
`SumOf`), which is how sums can be reasoned about. Of several largest results the
model ejects any, the code the first.

- `PairingKept`: no pass parts a call from its results or a result from its call.
- `RepairIsIdempotent`: the repair's doc comment, over everything the passes leave.
- `NewestTurnKept`, `UsedToolsDefined`: what must never be dropped.
- `CapMetOrExhausted`, `EjectsFewest`: the verdict, and that largest-first is
  the shortest way to it.

Bounds: six messages hold two pairs between user turns, so pruning runs twice;
two calls and result sizes on both sides of the threshold, two of them above it,
make the order of ejections matter; the caps are off, met by pruning or trimming
or not at all, and met by ejecting.

### WireMarkers

The conversation grows by prompts, calls and results as a harness grows it; each
`Request` applies the passes of `main.rs` 758-857 and, in mutate mode, 1191-1315,
as one step: they run without an await and touch nothing shared. `sent` is how
every message reads on the wire (what the strips left of its words, which billing
token is still in it, and in mutate mode the HUD in front of the newest user
message, whose figures change from turn to turn), `wire` the markers in wire order with who set them, `lifetime` the `ttl_s`
the candidate lane would commit. A reminder may be part of a text (`inside`),
all of it (`whole`: a placeholder takes its place) or without an end tag
(`unclosed`: left alone).

- `PrefixSurvivesTheTurn`: between two requests the bytes of a message change only
  when the user has spoken, and only in the turn that was current. It is what
  makes the prefix cache work across the tool calls of a turn, and it fails if a
  result is taken for a prompt or a billing token is left anywhere. Mutate mode is
  an exception the property names: its HUD stands in front of the prompt and goes
  at the turn's first tool result (`main.rs` 1259), so there the newest user
  message changes within a turn. `PromptSurvivesTheTurn`, without the exception, is
  refuted (see Disagreements).
- `PromptRemindersDelivered`: a prompt's reminder is sent before it is stripped.
- `NoShortBeforeLong`, `LimitKept`: what the API refuses, as far as the proxy's
  own markers go. `LimitKept` leaves mutate mode out: that path adds its HUD
  and firmware markers without counting.
- `LifetimeCoversWire`: the lane never expects a shorter life than a breakpoint of
  the proxy's own has. The harness's one-hour markers on tools and system blocks
  are not compared: the clamp looks at the messages only.

Bounds: four messages hold a prompt, a call, its result and a further one;
`Leading` and `Trailing` are the layouts of five-minute and one-hour markers with
zero to four in all; the HUD has two figures to read.

### ProjectionContent

`history` is `body["messages"]`; calls do work, arm a monitor, take or give back a
lock; `held` is what the kernel really gave, which the proxy can only infer. An
unanswered call may or may not have taken effect. `Compose` is `apply_rebuild` up
to the composition, `Elide` one turn of its elision loop. Sections are names with
sizes; texts are not modelled.

- `FrontierTellsLocks`: the frontier's locks are the real ones up to calls in
  flight. It holds where the boundary message carries no results (see
  Disagreements) and needs the frontier to be read in order, by status, and
  before the cap.
- `NothingPendingForgotten`: a dropped call is answered somewhere or in the frontier.
- `ElisionIsMinimal`: the budget's last victim had to go; order is fixed; the core stays.
- `EnvelopeNeverGoesBack`: in standalone mode, over a growing history.

Bounds: six messages and two calls let one lock be taken, given back, refused or
left in doubt; caps of one make the summary page out the older call.

### ProjectionSources

The prelude of a rebuild request, one step per file read or socket call, for
seats that share a workspace. A daemon answers, refuses or hangs; a hang is a step
of the handler because its timer fires. The digest file is appended to by all
seats; a torn append lacks its newline, part of its text, or ends in half a
character, and the next append then joins it. `Restart` drops the requests in
flight. A conversation has one request at a time here: its harness waits for the
answer.

- `DigestsAreOwn`: own and peers' digests are never mixed, none is invented, and
  without torn rows a seat sees exactly its last ones.
- `ModeIsTruthful`: the ledger's `rebuild_kernel` means a daemon answered.
- `ThreadCompletesTail`: the transcript is located once and opened twice, for its last
  events (`ReadTail`) and for the user turns (`ReadThread`), and the harness may
  write in between. The thread of prior turns is of the file the activity section
  is of, whoever's it is; it lacks at most the last turn of that section; and it
  never tells the turn in flight. The activity section itself may tell it, see
  `TailIsPrior` under Disagreements.
- `RequestsProceed`: whatever the daemons do. Fairness: weak, for the handler's own
  steps (`Prelude`): the runtime polls a task whose call returned or timed out.

Bounds: two seats with two and one turns, two sockets, caps of one, one torn row.

### SseStream

Tokens are the pieces a chunk boundary can separate: an event's name line, the
first and second half of its data line, carriage return, newline. The upstream
chooses the line style and up to two events, each with an input side, without one
or no report at all. `Chunk(n)` takes any number of tokens. The parsers read the
original bytes when the loop is left.

- `ChunkingInvisible`: the harness's bytes are those of the whole stream rewritten
  at once (`Owed`), however it was cut, at its end, at a break and at every moment
  before. Of a CRLF data line that was raised the carriage return is gone
  (`NoBytes`): `rewrite_event` writes the line with a bare newline.
- `LedgerHonest`: the row has the upstream's numbers, not the rewritten ones, for
  streams of the Anthropic dialect that report their input side once.

### RequestPipeline

One record per handler task; a client's request may come back through an upstream
that is the proxy under another name (`alias`). `Prepare` is the synchronous head of
a handler, `Finish`, `WriteRow`, `EndRow` and `Account` the synchronous tail: they
are separate steps because handlers run on several threads and the ledger and the
map are shared. A client can go at an await point; the handler is then dropped.
The mean is kept as sum and count, `AmpRatio` by integer division.

- `AnswersAreRecorded`: capture status equals the client's status, an error row
  exactly for trouble upstream, no turn for a local refusal.
- `LoopIsBroken`: nothing that came from the proxy is forwarded or captured.
- `MeanIsOfTheLedger`: the mean counts each turn the ledger shows, once, until two
  rows collide in the file (a row and its newline are two writes).
- `RequestsAreAnswered`. Fairness: weak, for the handlers' steps (the runtime polls
  them) and for the provider, which answers or whose connection fails; the code sets
  no timeout of its own, so without that assumption a request may wait for ever.
  Clients need not call and need not leave.

Bounds: two clients and one return each, one session (so that their turns meet),
two starts; six bodies take every way out of every handler.

### CadenceForecast

`Read` and `Insert` are the two accesses of `main.rs` 375-391; in between another
request of the session may do the same. `IdentityHintCache` is the last scan and its
time. `overlap` and `current` are history variables.

- `DemotionHasEvidence`: an observed demotion of a session whose requests did not
  overlap means that no gap in the ring's reach was short.
- `HintIsRecent`: a forecast by hint was true of the file within the cache's life.

## Runs

| Run | Shows |
|---|---|
| `lanes` | type correctness, `WarmIsAlive`, `DecisionAddsUp`, the refinement of `LaneRegister` for two racing handlers with rejections, failures and restarts |
| `freeze` | stable and complete projections for one model |
| `hooklog` | no row lost, no standstill, under failures and crashes |
| `capture` | cap within slack but for what a failing call hid, dedupe, no revived entry, channel drains |
| `reduction` | nothing that belongs together is parted and the cap is met or refused |
| `wire` | prefix stability, reminders, marker limit and order of the proxy's markers |
| `wire_order` | the proxy's one-hour marker behind a five-minute one of the harness (violation) |
| `content` | the frontier, the elision and the envelope |
| `sources` | digests, mode, the two readings of a transcript, and that a request always proceeds |
| `sse` | the rewriter is blind to chunks, the ledger honest |
| `pipeline` | records, loop guard, mean, and that every request ends |
| `cadence` | evidence for demotions, age of hints |

Every property of a passing run has a mutant: an operator beside the definition
it replaces, commented `Mutant:`, that a plausible slip in the code would
produce and that TLC then rejects.

Fairness: the capture writer, the request prelude (`ProjectionSources`), the handlers
and the provider (`RequestPipeline`), each as said above, always weak and always
of steps a runtime or a timer drives. Every safety property holds without it.
Deadlock is not checked: clocks, captures, turns, rows and starts are bounded, so
every model stops.

## Proofs

`LaneCommit_proofs` proves, for any lanes, handlers and parameters:

- `TypeCorrect`, from an inductive invariant that types every handler phase
  separately (`CoreInvariant`);
- `DecisionsAddUp`, from `c <= s` in every stored and pending lane;
- `WarmRequestsAreAlive`, assuming the harness leaves room for the proxy's
  marker. The invariant says of every *stored* lane that its time plus its
  lifetime is at most `aliveUntil`, and of every *streaming* candidate the same;
  the monotonic clock carries it through the wait at the upstream;
- `StoreIsARegister`, the refinement, step by step: an end that adds to `ended` is a
  `Land`, a sweep forgets only idle lanes, every other step of a handler leaves the
  register alone.

`HookLog_proofs` proves type correctness outright, and `NoRowIsLost` and
`OnlyYoungLogsAreSkipped` assuming the stamp gets written once the log is
truncated. The strengthening says which rows are where at each program counter:
between copy and truncation the archive equals the log, rows in the log are no
older than the stamp.

`FrozenProjection_proofs`:

- `HistoryComplete`: a stored block covers the conversation up to the boundary it
  is stored with, so a match of the boundaries proves it complete.
- `StableProjection`, assuming `OneLane`, every request on one lane (with two the
  property is false, see Disagreements). What has to be carried (`StableInv`):
  while the lane lives and its conversation has not gone on, the store holds the
  block that warmed it (`WarmBlock`); it is replaced only by a handler of the same
  conversation, and that one was told of the living lane and serves the same block
  (`Informed`); it is not swept, also not under a handler between decision and
  rebuild, because `OneHour + HandlingTime <= IdleEvict` (`FoundWarm`); and what a
  handler has sent is still there when it commits (`SentBlock`). The harness's one
  request per conversation enters as `OnePerConversation`.

`RequestPipeline_proofs`, over a type invariant that separates handlers that are
blank, live and done:

- `LoopsAreBroken`: a request at depth one carries the hop header and a parent, one
  at depth zero neither, and there is nothing deeper (`LoopInv`).
- `AnswersRecorded`: which records exist is fixed by phase, status and route of a
  request (`RecordedSoFar`), and no handler touches another's records
  (`RecordFrame`).

- `MeanOfTheLedger`: a request that has been answered owes its turn or has paid it,
  in exactly one row that is whole as long as no two writers have met in the file
  (`TurnsOwn`, `LinesWhole`), and the sums of the mean are counted over the paid
  ones of this life of the process (`MeansTrue`).

`CapturePipeline_proofs`:

- `CapWithinSlack`, whatever fails: the estimate never falls behind the directories
  on disk that no call has failed on, and what rotation keeps of those it could
  read and delete fits the cap (`NewestFit`).
- `CapHolds`, assuming `NothingMissed` (no body write and no scan fails; without it
  the statement is false, see Disagreements): nothing is ever `missed`, so all
  directories count and the comment's cap holds outright.
- `AdmittedOncePerWindow`: the queue is the tail of all admissions; what has left it
  was expired or had `Capacity` admissions after it.
- `NoEntryComesBack`: an id's Start is in the channel at most once, and its directory
  cannot exist before the writer has taken it (`StartedOnce`). Finishes of entries
  that are gone or were never started find no metadata.

`Projection_proofs`, about `ProjectionContent`:

- `ContentInvariant` joins what the following rest on: ids number the calls in their
  order, so the newer of two calls about a lock is known by its id
  (`ConversationOK`); what is held is what the answered calls say, up to the
  unanswered ones (`LocksTold`, kept by `LocksStep` through every answer, refusal
  and doubt); the projection is that of the dropped part (`ProjectionOK`).
- `LocksAreTold`, `PendingIsTold`: paging the summary out never loses a lock or a
  pending call. The first needs that the boundary message holds no results, which is
  said in the property.
- `ElidesTheLeast`: elided sections are in the fixed order, nothing elided is left
  (`ElisionOK`), and putting the last one back would go over budget.
- `EnvelopeOnlyAdvances`: the envelope shown last lies in the part of the history that
  is dropped (`ShownIsDropped`), and that part only grows.

and about `ProjectionSources`, for any seats and sockets:

- `ModeTruthful`: mode and envelope are set together, and templates are asked for only
  after an envelope.
- `ThreadCompletes`: a transcript only grows and never holds more turns than were made,
  so the second reading finds all that the first has found and all of it but its
  last turn is older than its seat's newest.
- `DigestsKeptApart`: the rows of a seat are in the order of its turns, also where a
  torn append has swallowed some (`RowsOK`), and the file is what was harvested until
  the first tear (`FileIsHarvest`).

`RequestBody_proofs`, about `WireMarkers`:

- `RemindersDelivered`, `PrefixStable`: the conversation has the shape the strips rely
  on (`ConversationInv`), and what was sent of a message is fixed by whether its
  prompt is still the newest, but for the HUD, which only the newest user message
  of mutate mode has (`SentInv`).
- `ProxyMarkersOrdered`, `MarkerLimitKept`, `LaneOutlivesMarkers`: every pass is a lemma
  on the sequence of markers (clamp, leading, trailing, HUD), composed for the
  three routes into `WireIsFit`. Harness layouts are any that satisfy the module's
  assumption.

and about `MessageReduction`, for any history, cap and sizes:

- `ReductionInductive`, the invariant of the handler: messages are well formed
  (`BodyTypeOK`), every user message says something until the rebuild (`SentAsSpoken`),
  no tier starts before the ones before it are exhausted (`TiersInOrder`), and the
  promises below.
- `CallsStayPaired`, `OneRepairIsEnough`, `NewestTurnSurvives`, `NoUsedToolDropped`,
  `RefusedOnlyAtTheEnd`. The work is in the passes: keeping the members at a set of
  indices (`Rank`, `Kept`) keeps neighbours that are both kept side by side
  (`ResultKeepsNeighbour`), because a message whose result survives stripping holds
  the call and so is not dropped.
- `FewestEjected`, from `EjectionInv`: what has been ejected is at least as large as
  what is left, is what the body has lost, and without the smallest of it the body
  was over the cap (`Greedy`). Any smaller set of results saves no more than the
  ejected ones without that smallest (`LargerSum`: of two sets, the one that is not
  smaller and whose own members are all at least as large has the larger sum).

`StreamAndCadence_proofs`:

- `HintRecent`: the history variable `current` follows the files with the clock, and no
  scan holds anything its files had not said when it was made.
- `DemotionFounded`, from `EvidenceInv`: where no requests overlapped, the ring holds
  the differences of the last arrivals, in the handler's copy while it has one and in
  the store otherwise (`Matches`). The ring's least gap is the first of its sorted
  copy (`SortedFirst`), which is what the tail veto looks at.
- `StreamInvariant`: a response is well formed (blank lines end events that lie at
  least four tokens apart, a data line's second half follows its first), and up to
  the last event that has ended the harness has what it is owed, the rest being the
  carry (`InFlight`). `ChunksDoNotShow` follows, because the ends found in carry and
  chunk are those of the whole stream behind the last one (`CutsBehind`).
- `LedgerIsHonest`: sums over a stream that reports once are that report's, whatever
  the rewriter did meanwhile.

Assumptions on constants are those of the modules (`*Assumption`), which TLC
evaluates on every run; those of a theorem alone are in its statement.

Every safety property and action property of the passing runs is a theorem. Only
model-checked are:

- liveness (`ChannelDrains`, `RequestsProceed`, `RequestsAreAnswered`), which TLAPS
  does not reach;
- `OrderAccepted`, which the code violates, and the other disagreements below;
- that fairness and bounds let the interesting cases happen, for which the runs and
  their mutants stand.

## Disagreements between code and text

With a run:

- `wire_order`: `append_kernel_orientation_to_system` (`rebuild.rs` 97) marks its block
  with one hour behind five-minute markers of the harness on tools or system
  blocks, which the comment at `rebuild.rs` 80 says the API answers with a 400. The
  clamp only looks downstream. The run is of rebuild mode alone: mutate mode, where
  the orientation block is not appended, breaks the order with its own firmware
  block (`main.rs` 1222-1230).

Found while modelling; each is a change of one constant or property away from a
passing configuration, and TLC then shows the trace:

| Change | Refuted | Why |
|---|---|---|
| `MCLaneCommit.cfg`, `HarnessMarkers` with `"full"` | `WarmIsAlive` | a lane records the policy's tier even where no marker of the proxy reaches the wire (`rebuild.rs` 97-146): WARM is then said of a prefix that expired |
| `MCFrozenProjection.cfg`, `Models = {m1, m2}`, `Conversations = {c1}` | `ProjectionIsStable` | `projection_store` is keyed without the model (`main.rs` 56) and written before success: the frozen block can change under a live prefix |
| `HookLog.cfg`, `Hiccups` with `"stamp"` | `NoRowLost` | a stamp write that fails after the truncation lets the next rotation overwrite the archive (`lib.rs` 77, 86; 636 says never lose a row) |
| `HookLog.cfg`, `CrashAt` with `"fill"` | `SkipsOnlyYoungLog` | a stamp left empty by a crash is read as "now" for ever (`lib.rs` 60) |
| `CapturePipeline.cfg`, `INVARIANT CapEnforced` | itself | a Start whose body cannot be written leaves an uncounted directory (`capture.rs` 194), an unreadable root or shard counts as nothing (331-332, 344-345) and an entry that cannot be deleted stays (381-387); each alone takes the directory past "the cap is therefore enforced within that slack" (290). With `StartFailures = {"mkdir"}` and `ScanFailures = {}` it passes |
| `MessageReduction.cfg`, `INVARIANT LastPairKept` | itself | pruning spares the last message, not the last pair (`rebuild.rs` 757 against 742 and `README.md` 174) |
| `MCProjectionContent.cfg`, `INVARIANT AnsweredIsResolved` | itself | calls answered in a boundary message that also has words are listed as in flight (`rebuild.rs` 1286) |
| `SseStream.cfg`, `INVARIANT LedgerAlwaysHonest` | itself | the parser adds up reports although `usage_truth.rs` 112-113 says `message_delta` may repeat the input side |
| `MCProjectionSources.cfg`, `Pinned = "pin"`, `INVARIANT OneKernelPerRequest` | itself | `fetch_templates` ignores the pinned socket (`kernel_client.rs` 349 against `config.rs` 169) |
| `MCProjectionSources.cfg`, `INVARIANT TailIsPrior` | itself | the tail is rendered without a marker of where the current turn begins (`main.rs` 684), so a turn the harness has flushed is listed as past activity; `transcript_tail.rs` 17-19 says it enriches prior cycles only |
| `MCWireMarkers.cfg`, `PROPERTY PromptSurvivesTheTurn` | itself | in mutate mode the HUD in front of the prompt is gone once a tool result follows (`main.rs` 1259-1304) |
| `MCWireMarkers.cfg`, `INVARIANT EveryReminderDelivered` | itself | a reminder in a tool result can be stripped before any request carried it (`system_reminder_strip.rs` 33-35) |
| `CadenceForecast.cfg`, `INVARIANT RebaseIsStructural` | itself | of two overlapping requests one gap is lost, also a short one (`main.rs` 379-391 against the module comment of `ttl_forecast.rs`) |

Read, not run: a config file with one bad field is dropped whole although the
message says "using defaults for affected fields" (`config.rs` 361), and `PROXY_PORT`
is truncated by `as u16` (`config.rs` 466).

## Plan

1. An abstract prefix cache that `WireMarkers` and `LaneCommit` together implement.
2. A store keyed by model as well in `FrozenProjection`, should the code get one:
   `StableProjection` then loses its assumption.
3. The GPT backend's lanes, once the GPT handler keeps any.

## Not modelled

- Text layout: section renderers, wording of digests, tool signatures, telemetry
  lines, the per-turn line, `section_sizes` and the body breakdown.
- Header filtering and redaction, JSON parsing, the content of capture files.
- The file-handle rewriter (`rewrite_middleware.rs`): it delegates to an external
  crate and appends telemetry rows; the proxy guards the projection block from it.
- `InMemoryPageTable`: the hook adapter holds one and never calls it.
- The hooks installer, reports, replay script and tests; the Codex rollout reader
  and the tool-body index, which the proxy does not call.
- Panics, of the capture writer or of a handler.
- Graceful shutdown: it lets requests in flight end, as if no crash came.
- A ledger or error row that cannot be written: it is logged and dropped.
- Eviction from `amp_store` and `cadence_store`: there is none in the code.
- Requests that overlap within one conversation are modelled where stores are shared
  (`LaneCommit`, `FrozenProjection`, `CadenceForecast`, `RequestPipeline`) and not
  where only files are read (`ProjectionSources`).

Token counts are integers; the rounding of `f64` beyond 2^53 is out of scope.
