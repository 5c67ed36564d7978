# Verification of secret-guard

TLA+ models of secret-guard, the local gateway between coding agents and LLM
providers, with TLC runs and TLAPS proofs. Definitions carry the names of the
source where TLA+ allows it. `PROJECT.json` maps each of them to the lines it
stands for, lists the runs, the mutants, the hazards and the findings.

    tlc -workers 2 -config TableRaces.cfg MCConfigTable.tla     one run
    tlapm Configuration_proofs.tla                              one proof module

Contents: 1 the system · 2 modules and runs · 3 what the runs found · 4 fairness
and bounds · 5 what is proved · 6 what is not modelled · 7 plan.

## 1 The system

An agent sends its requests to `/{protocol}/{provider}/...`. The gateway finds
the provider, resolves routers and pools to an upstream, replaces secrets in the
body by mock values, forwards, restores the secrets in the answer on the fly,
and records request and answer in a DAG that the WebUI shows. The same WebUI
edits providers, secrets, decisions, API keys and settings, which live in a
static configuration file and in `state.toml`.

| Component | State | Operations | Correct when |
|---|---|---|---|
| two-layer tables (`config/mod.rs`, `config/decisions.rs`) | static and dynamic entries, decision per static id, `persist_lock` | upsert, delete, reset, set_decision; effective reads | every reader sees one merged entry; what is omitted is kept; a static key is never copied |
| state file (`config/mod.rs`, `state.rs`, `server.rs`) | `state.toml` | load, change one section, rename, publish in memory; prune at a start | memory never ahead of the file; no write lost; a crash leaves a whole file |
| providers and routing (`provider.rs`) | none of its own | select_route, resolve_route, would_cycle, find_cycles | the best route wins; walks end; a cycle gets into a table only past the check |
| plan pools (`pool.rs`) | alarms per member position | align, pick, mark, status, reset, time | an alarm stays with its member, is bounded and rings |
| dispatch (`proxy/mod.rs`) | what a request has read | lookup, collect the body, resolve, watch, forward | later steps act on what was read |
| recording (`proxy/recorder.rs`, `proxy/fan_out.rs`) | in-flight guard | build, push, partial view, attach, give up | every record settles, once |
| conversation DAG (`dag/`) | nodes, sessions, prefix index, block refcounts | push, evict, attach, sync, recycle | sharing is exact, capacity holds, the right parent is found |
| web CRUD (`web/api/`) | none of its own | create, update, delete, reset, decision, listing | checks hold at the write, or the contract says otherwise |
| API keys, login (`auth/`) | keys and index; sessions, pending logins | issue, revoke, disable; login | revoked keys are refused, logins are used once |
| redaction, mocks (`redact.rs`, `mock.rs`, `secrets.rs`) | mock values; per-stream buffers | replace, restore, rebuild, watch for leaks | nothing secret goes up; restored text is what was redacted, however it is cut into chunks |
| codecs (`codec/`) | per-stream translation state | parse, write, translate, scan, synthesize streams | the client's stream is legal and says what the upstream said |
| model lists (`proxy/models.rs`) | cache under one lock | fetch, reuse, expire, back off | upstreams are asked when it is due, answers are the last lists they gave |
| usage (`usage/`) | channel, the writer's batch, database | record, batch, write, flush | what a client got is counted, and written before the process ends |
| privacy scan (`privacy.rs`) | bounded queue, alerts | submit, scan, dismiss | never blocks a request |
| server (`server.rs`) | listeners, drain | start, stop | a stop waits for what is under way |

How they meet. Handlers run on the threads of one async runtime, so any two
interleave at every lock and every `await`. All writers of `state.toml` are
meant to hold one `persist_lock` and rewrite the whole file, so tables, keys and
settings can overwrite each other. The proxy holds no lock across its steps: it
copies the entry, awaits the body, reads the table once per hop, reads a pool's
configuration again for the answer, and attaches the answer to a node that may
have been evicted. Pools are charged by position in a member list the user can
reorder. Records live through panics, disconnects and timeouts thanks to a drop
guard that races with the normal path. A streamed answer is read by a task of its own,
which outlives its client; its bytes arrive in chunks that respect neither
frames nor characters nor mock values, and pass a reassembler, a reader, the
restoring windows and a writer. Everything that is counted goes through one
channel to a thread of its own, which a stop must wait for. These are the behaviours the modules
below are about; `hazards` in `PROJECT.json` lists them line by line.

## 2 Modules and runs

Each module models one component; `MC*` modules hold the instances TLC checks.
`*_proofs` modules hold the theorems, `DataLemmas` what they use of sequences and sets.
Steps are critical sections: one lock acquisition, one table read or one write
is one action. Operators marked "variant" or "faulty variant" are plausible
bugs; for each property one of them is put in the place of the real definition
and TLC must then refute the property, so no property holds by accident.

### PoolFailover — `pool.rs`, pool hop of `provider.rs`, two reads in `proxy/mod.rs`

`members` is the configured list, `usable` the providers that exist and are
enabled, `rt` the positional runtime of `PoolStates`, `req` what each request
has read: it enters with one copy of the list, picks by position, reads the list
again for its `PoolWatch`, and marks when the answer arrives. `Reconfigure`,
`Toggle`, `Reset` and `Tick` come in between. An alarm is the number of ticks
left, so time needs no bound. A response's hint of a resume time is a choice.

- **PoolSafety** — two requests; two members in both orders, the second time
  with one of them listed twice; cooldowns below and above the cap. The WebUI
  shows what the next pick would do (`StatusAgreesWithPick`); only an answered
  signal arms an alarm, at its own position (`AlarmsFollowTheirMember`). Under fair
  time every alarm rings (`AlarmsRing`), once the user leaves the member list
  alone: without that premise TLC finds a member that sleeps for ever, because
  every reorder lets a request mark the wrong position anew (`MarkHitsTarget`,
  section 3). That the runtime stays aligned, alarms within the cap and
  positions within the request's own list (`TypeOK`, `AlarmWithinCap`,
  `CandidatesInBounds`) is proved and in no configuration.

### ConversationDag, RecordLifecycle — `dag/mod.rs`, `dag/pool.rs`, `proxy/recorder.rs`

`nodes`, `sessions`, `index` and `refs` are the fields of `DagInner` and of the
block pool; a node is named by the request that pushed it. A request goes
through build (where `created_at` and the capture mode are taken), push,
evictions one by one (in the code all under one lock, here kept together by
`Unlocked`), partial views, interning the reply and attaching it (two critical
sections), failure, or the guard's check and attach. Messages are model values
whose blocks may be shared; the 64-bit prefix hash is a function onto three
values, so that collisions happen. Titles, previews and notifications are left
out.

- **DagStructure** — three concurrent requests, room for two nodes, colliding
  hashes: refcounts equal holders (`RefcountsExact`); child counts, the index
  and the sessions are what the nodes say (`DerivedStateIsExact`, that is
  `LinksExact` and `SessionsAreTips`); a node's chain is its conversation
  (`ConversationIsExact`); the store is back within its limits after a push
  (`WithinCapacity`); mode "latest" keeps the audit bodies of the heads and no
  others (`AuditFollowsHeads`); the deepest parent is found
  (`DeepestParentFound`).
- **DagLifecycle** — two requests while the capture mode is switched: the DAG
  implements `RecordLifecycle`, the abstract specification of a record (appears
  pending, settles at most once, may be forgotten, is over only when settled or
  forgotten), under the mapping `Lifecycle` at the end of `ConversationDag`
  (`RecordsSettleOnce`); every pending record settles or is evicted
  (`EveryRecordSettles`). That `AuditFollowsHeads` holds while the mode is
  switched is checked by no run, the theorem `AuditIsKept` covers it.

### StateFile — every writer of `state.toml`

`mem` holds the cells in memory (both tables' entries, decisions, keys with
their index, capture mode), `disk` the file, `job` one writer per handler:
`Start` computes the new content, `Load` reads the file, `Rename` replaces it
(the one atomic step: the temporary file and its fsync precede it and leave the
target alone), `Publish` writes each cell. A load or a write may fail (`Abort`), and `Restart` may happen
between any two steps, with another static configuration: memory is rebuilt from
the file, decisions on ids that are no longer static are pruned, and the file is
rewritten if it can be. Secrets carry a generator that may be declared or
inferred, because only declared ones belong in the file. All writers but
`ApiKeyStore::issue` take the lock, as in the code.

- **FileWriters** — two writers of any sections, failing disks, restarts: what
  was answered is in the file (`MemoryIsPersisted`), decisions are about static
  ids (`DecisionsAreOnStatics`), and a start after a crash finds each write whole
  or not at all (`RestartKeepsWholeWrites`). `issue` breaks `MemoryIsPersisted` when it overlaps
  another writer (FileLostUpdate shows how), so here it runs while the others
  are idle (`MCIssueAlone`, a state constraint).
- **FileLostUpdate** — violated, see section 3.

### RouteGraph, RouteResolution — `provider.rs`, first half of `dispatch`

`RouteGraph` has the providers, `select_route`, the edges, and the depth-first
scan for cycles as a recursive function of a call (stack, node, and the scan so
far: done, seen, out), with `would_cycle` and `find_cycles` on top of it; reachability is there as the
reference. A pattern is the set of models it matches. `RouteResolution` is one
walk: `Lookup` reads the entry, `StartWalk` follows the wait for the body, then
one action per hop (and per member tried), each reading the table once. That
table is the merged view of two layers (`get_effective`): the static entries, and
over them the overrides, `dynamic_entries`, and the `decisions`. Admins edit the
second between any two hops: an upsert in two steps, the checks on the merged view
(`CheckUpsert`) and the store (`StoreUpsert`, or `UpsertRefused`); `Delete` of an
id without static entry; `Decide`, which sets any of the three modes of a static
id; `Reset`, which takes its override and its decision away. Only the upsert is
checked for cycles. What a pool offers is any subset of its positions, which covers
every state of `PoolFailover`. A disconnect while the body is read changes
nothing and is not a step.

- **RouteWalks** — all walks over 4 ids, one of them static, from every
  combination of overrides and decisions, with up to two edits between the hops.
  The catalogue has ties, disabled routes, rewrites, nested pools, disabled and
  missing targets and cycles. Whatever is edited: no id twice (`ChainIsSimple`),
  walks end (`WalksEnd`). While nobody edits, the first usable member serves
  (`FirstUsableMemberServes`) and a cycle error means a cycle (`CyclesAreReal`).
  On every table reached, a scan from every start reports only cycles, each
  once, and something iff there is one, and a scan of all leaves no set of
  mutually reachable ids without a report (`ScansAreExact`). A step that closes a
  cycle shows an entry which the check of an upsert, made in that moment, would
  have refused, and which comes unchecked: brought back by a decision or a reset,
  or checked against another table than the one it is stored in
  (`CyclesEnterUnchecked`). All of these happen in the run, the last when two admins
  edit at once, which they do only while there is no request
  (`MCOneAdminWhileWalking`, a state constraint). The first is the behaviour of
  the code (section 3), the second the gap the source declares (`server.rs:470`);
  the property says that there is no third way. In the module, holding when
  added: `RewritesFeedForward`, `OutermostPoolIsCharged`, `TypeOK`.

### ConfigTable — two layers and the handlers that edit them

One id: `static`, `dyn`, `decision`, the lock while a reset is between its two
publications, and a task per admin. `Post` is `create_flow` up to its upsert;
`Put`, `BackfillDynamic`, `BackfillEffective`, `Build`, `Store`, `Refetch` are
`update_flow` with `update_provider`'s closure, one step per table read. Lists,
keys and cooldowns are model values. Of an entry the model keeps the construct,
the key, the list and one pool setting; endpoints are present or not; name,
enabled and key files travel like these and are left out. A write succeeds or
fails as a whole (StateFile has its inside). An admin can send every key except
the one of the static configuration (`StaticKeyAssumption`), so that finding it
in the dynamic layer means it was copied.

- **TableRaces** — two admins, every interleaving, every kind of static entry,
  one body per intention: the static key stays in its layer
  (`StaticKeyStaysOut`), and no reader sees, during a reset, an entry that was
  neither the old one nor the static one (`ResetShowsOldOrStatic`). With one
  admin and every body (`Admins = {a}`, `Payloads <- MCAllPayloads`, no
  symmetry) `OmittedIsKept` holds too: what a body omits stays as it was. One
  admin, because the source accepts that two concurrent edits may mix.
  That is proved for every configuration of this kind; `ViewsAgree` is proved
  for any number of admins. Neither is in a configuration of the runs.

### MockWindow, ChunkedStream — `StreamingRestorer`, `SseReassembler`

A text is a sequence of bytes. `MockWindow` has the replacement of mocks in a
text (`RestoreText`: one mock after the other, by length) and the window that
restores a text that comes in pieces (`Feed`, `Flush`, `FindSafeEnd`: what may
leave the window, on a character boundary, without cutting a mock that is
complete or might still become so). `ChunkedStream` feeds it the frames that the
reassembler cuts from the chunks: `scanned` is the place from which the search
for a terminator resumes, `MaxBuf` the limit of a frame. A body is one block, of
text or of JSON, where mocks are spelled in their escaped form.

- **Chunks** — three tables of mocks, with bodies of up to nine bytes over
  alphabets with every kind of line end, a character of two bytes, a quote and a
  backslash, cut into chunks in every way: the frames handed over are those of
  the whole body (`FramesIgnoreChunks`), and what the client has got is the
  restoration of the whole text (`RestorationIgnoresChunks`), whatever the cuts.
  In the module, holding when added: `WindowIsBounded` (no more is kept back
  than the longest mock), `OnlyLongFramesAbort`, `NoMockAcrossTheCut`; for
  mocks that overlap themselves see section 3.

### StreamCodecs, StreamScan, StreamTranslate — `codec/`

`StreamCodecs` has the event readers and writers of the three protocols with
their state: how an OpenAI delta gets a block number, which events a writer
swallows, invents or holds back, and the frames of each. `StreamScan` is what
the record is written from, `StreamTranslate` is `translate.rs` and `synth.rs`:
the windows per block, the flush before a block or a message closes, the held
back stop, the backfilled start, the stream synthesized for a client that asked
for one and whose upstream answered in a piece. The upstream is part of the
model: it opens blocks one at a time or side by side, as its protocol allows,
says pieces, stops, adds usage late, ends early, fails, or sends a frame that is
too long. `IsLegal` is the clients' grammar: what a strict reader of the protocol
accepts.

- **Streams** — the routes between every two of OpenAI, Anthropic and Responses,
  and within one with restoration; up to two blocks of text, thinking, tool call
  or a kind without IR, up to three pieces that may hold a mock cut in two. The
  client's stream is legal (`ClientStreamIsLegal`); it says, block by block,
  what the upstream said, restored (`ClientHearsTheAnswer`); so does the record,
  unrestored, with the numbers that were given (`RecordShowsWhatIsSaid`); the
  closing frames of Responses repeat what the deltas said
  (`DoneFramesRepeatTheDeltas`); a stop of the upstream reaches the client with
  its usage (`EndReachesTheClient`); and the stream synthesized from the record
  is legal and says the same (`SynthesizedStreamSaysTheSame`).

### ModelListCache — `proxy/models.rs`

`entries` is the cache, a time in it kept as its age up to the age that matters;
`holder` and `queue` are the asynchronous lock; a query walks its targets with
the lock held, and fetches what is due: candidates one after the other
(`Headers`, then the body), under one time-out. Every `await` may be the last one
(`Disconnect`). `last` is history: what the fetches of a key came to.

- **Models** — two queries, two providers of which one is reached through two
  endpoints, upstreams that answer, fail, lack the endpoint or fall silent:
  `RefreshesWhenDue` (a list is fetched exactly when the last fetch is out of
  its window), `AnswersAreTheLatest` (failures take nothing away), `QueriesEnd`
  (under the time-out, nobody keeps the lock for ever).

### Redaction — `redact.rs`, its callers and `dag/derive.rs`

A text is a sequence of numbers; a request is a sequence of leaves. `Ask` builds
the map (`redact_ir`: secrets in the order `HandlingOrder`, candidates probed
against the request as replaced so far, exhausted probing degraded or refused,
hits counted before the replacement) and pushes the record. What comes back is
parsed (`ReplyParsed`), rejected by its reader, without JSON, or never comes
(`ReplyRejected`, `ReplyOpaque`, `NoReply`); it is restored, and the honeypot
raises its alerts. The conversation goes on from what the client
keeps. `RebuildPairs` and `RebuiltView` are what the timeline does with a record
long after.

- **Redaction** — secrets that contain and overlap each other, with every
  strategy, in three tables among which the user switches in mid-conversation:
  `WireHoldsNoSecret`, `EchoIsRestored`, `RebuiltViewIsTheWire`,
  `AlarmsAreReal`. In the module, holding when added: `MocksAreStable`,
  `AuditMatchesTheWire`. `EchoIsRestored` depends on the mocks of this instance
  being no part of other values, see section 3.

### Shutdown — `server.rs`, the usage writer, stream tasks

A stop and what is under way. Per client: its connection, its handler, which
dies with the connection, and the task that copies a stream, which does not;
between task and client a bounded channel. Rows for the statistics go through
`channel` to `writer`, in batches that a flush ends. `DrainDone` is the return
of `with_graceful_shutdown`: all connections and all streams of `/api/events`
are over; then the flush, whose answer or time-out ends the process. A row is
written when it is in the database or counted as dropped.

- **Shutdown** — two requests, streamed or whole, a stream of events, a channel
  of one item, batches of two: when the barrier was passed, every redaction that
  took place is in the audit and every answer a client has in full is in the
  statistics (`TailIsStored`); a stop comes to its end (`ShutdownEnds`); a
  stream is counted although its client has left (`StreamsAreCounted`). A
  statement of the source about the drain is refuted (`DrainedMeansRecorded`,
  section 3).

## 3 What the runs found

FileLostUpdate checks one statement of the source, `NoLostUpdate`, and TLC refutes
it: `ApiKeyStore::issue` does not take `persist_lock`, and an answered write
disappears from the file. The quote is in `findings`.

The modules state more such sentences. None is in a configuration; added to the
one named here, TLC refutes each.

| Property, add to | Stated at | What the code does |
|---|---|---|
| `MarkHitsTarget`, PoolSafety.cfg | `pool.rs:523` | `dispatch` reads a pool twice; after a reorder in between, the mark lands on a member that sent no signal |
| `JustPushedSurvives`, DagLifecycle.cfg | `dag/mod.rs:877` | `created_at` precedes the push, so a late push can evict the node it has just inserted |
| `InferredIsNotPersisted`, FileWriters.cfg | `mock.rs:1357` | every write of another section stores inferred generators as declared ones |
| `CycleErrorsComeFromCycles`, RouteWalks.cfg | `provider.rs:1078` | edits one after another, reversing a route under a walk, answer "cycle" for tables that never had one |
| `EditedTablesStayAcyclic`, RouteWalks.cfg with one admin and no constraint | `server.rs:470` | neither a decision (`crud.rs:364`) nor a reset (`crud.rs:308`) is checked for cycles; each can bring an entry back that closes one |
| `RoutersSeeTheRequestModel`, RouteWalks.cfg with `MaxEdits` 0 | `contracts.md:1698`, `:410` | the body's model is read for router entries only (`proxy/mod.rs:310`): pool → router matches on the empty model |
| `ListingShowsStaticOnce`, TableRaces.cfg | `config/mod.rs:1511` | a listing made of two reads misses or repeats an entry |
| `BothAreTheCallers`, TableRaces.cfg with one admin and `MCAllPayloads`, no symmetry (so the next two) | `web/api/providers.rs:598` | under prefer_static, a PUT that names no construct is refused for naming two |
| `CreateNeverOverridesStatic` | `web/api/crud.rs:218` | POST of the id of a disabled static entry stores an override |
| `OverrideIsKept` | `web/api/providers.rs:576`, `:207` | under prefer_static, a PUT that omits routes and members replaces a Direct override by the static construct (`:220`) |
| `NoMockAcrossTheCut`, Chunks.cfg with the one mock ⟨m, m⟩ and bodies of up to eight m | `redact.rs:872` | for a mock that overlaps itself the cut may fall inside an occurrence; `RestorationIgnoresChunks` falls with it. With mocks that do not (the generators' own), both hold |
| `StopReasonReachesTheClient`, Streams.cfg with `Routes <- OpenAiToAnthropic`, no foreign blocks, one block, one piece | `contracts.md:341` (FWD-3) | where an OpenAI upstream tells its usage in a chunk after the stop, the frame that brings it to the client has no reason of its own, and `write_stop_reason` says "end_turn" (`anthropic.rs:1508`) |
| `EveryDeltaHasItsStart`, Streams.cfg with `Routes <- AnthropicRestored`, `ForeignBlocks` {"server_tool_use"}, one block, one piece | `known-limitations.md:28` | the start of a block of an unknown kind is swallowed, its `input_json_delta` is not (`anthropic.rs:293`) |
| `JoinersDoNotFetch`, Models.cfg with `MCFourUpstreams`, TTL 30, Backoff 3, FetchTimeout 1 | `contracts.md:453` | a query that walks four silent upstreams holds the lock past the window of the first, so the one that waited fetches it again (`models.rs:226`) |
| `EchoIsRestored`, `MockIsNewToTheRequest`, Redaction.cfg with `MCFixed`, `MCFixedUtterances`, `MCNoOpening` | `contracts.md:553` (RED-6), `:488` (RED-2) | a fixed mock is not probed against the request, so a request that holds it already gets the secret back in its place (`redact.rs:343`) |
| `DrainedMeansRecorded`, Shutdown.cfg | `server.rs:661`, `contracts.md:1671` (USAGE-8), `:460` (FWD-8) | the task of a stream whose client has left, or whose upstream broke, is no connection: it may still run when the drain is over, and its row come behind the flush |

Seen while reading, with no property of their own: window tails leave after an
error frame; `dedup_by` (RED-9) removes adjacent twins only; the honeypot compares
with what was computed before that; `known-limitations.md:131` promises at most
300 s of staleness and leaves out the wait for the lock; an edit of `base_url`
while a fetch is under way stores the old upstream's list under the new one; a
hang-up in mid-fetch leaves no `last_attempt`; a POST with a buffered answer whose
client hangs up before `record_response` is not counted (`contracts.md:1614` says
every answered one is); and a client that stalls in sending its body, or does not
read, blocks the drain, which has no time-out.

## 4 Fairness and bounds

Safety runs assume no fairness. The others:

- `WF(Tick)` in PoolFailover: time passes. No request is required to move.
- `WF(Evict)` and `WF(Ending)` in ConversationDag. Eviction is a loop under one
  lock. A request in flight ends since the upstream has a header timeout
  (`send_upstream_or_fail`) and an idle timeout per chunk (`next_chunk`, both
  3600 s by default), and dropping the task runs `InflightGuard`. It is assumed
  that a client reads or disconnects in the end: the channel to it has no
  timeout.
- `WF(Hop)` in RouteResolution: `resolve_route` contains no `await`. Nothing
  obliges a client to send its body or an admin to act.
- In ModelListCache, per query, the steps from the lock to the answer, the
  time-out of a fetch, and time. Nothing is assumed of an upstream: it may be
  silent, and the time-out ends the fetch.
- In Shutdown, per client, that it reads, that it sends its body or hangs up,
  that its handler and its stream task get on (an upstream that does not answer
  is cut off by the timeouts above); the closing of `/api/events` streams, the
  writer, and the end of the process after the flush. Nobody is obliged to stop
  the server, and no watcher to leave.

Deadlock is checked except where the system stops: a finite set of requests that
are all over (ConversationDag), a body or a stream at its end (Chunks, Streams), a
conversation at its bound (Redaction), a process that has ended (Shutdown).

| Bound | Where | Why it is enough |
|---|---|---|
| `Requests` (2–3) | pool, DAG | an interleaving needs two; the third gives forks, a request in flight between two settled ones, and evictions between the steps of others |
| `MaxNodes` 1–2, `MaxSessions` 2, `MinSessions` 1 | DAG | every push beyond the second evicts; the last session is spared |
| `MCHashes` 0..2 | DAG | collisions between prefixes of one and of different lengths |
| `MemberLists`, `Hints`, `Cooldowns`, `Cap` | pool | reorder, grow, shrink, repeat; alarms of one tick and of two; a hint and a cooldown above the cap |
| one id, one key, `Writers` 2 | state file | the lost update and every crash point need two writers and one entry |
| 4 ids, one static, `MaxEdits` 2, a second admin while there is no request | routing (315,316 states) | nested and overlapping cycles; one edit that changes a chain behind the walk and one ahead of it; whatever the layers hold is an initial state, so one edit is enough to bring an entry back, and two make a check that is out of date at the store |
| 1–2 admins, one id | ConfigTable | handlers of different ids share only the lock and the file |
| `MaxChunk` 2, `MaxBuf` 5, bodies of up to 9 bytes | Chunks (714,000 states) | terminators, characters and mocks cut in every place; frames one short of the limit, at it and beyond |
| `MaxBlocks` 2, `MaxPieces` 3, one foreign kind | Streams (400,539 states) | blocks side by side and one after the other; a mock cut in two with something before it, after it, or in the other block |
| 2 queries, `TTL` 2, `Backoff` 1, `FetchTimeout` 1 | Models (176,029 states) | one query waits while the other fetches; an age inside each window, at its end and past it |
| `MaxMessages` 3, `MaxEdits` 1 | Redaction (127,440 states) | a turn, its answer, and a turn under another table that repeats both |
| 2 clients, 1 watcher, `Capacity` 1, `BatchMax` 2, `MaxChunks` 1 | Shutdown (257,639 states) | a row behind a full channel, a batch with a row when the flush comes, one client draining while the other has left |

Symmetry is used for requests and admins only, and only in runs without
liveness. The state constraints are `MCIssueAlone` and `MCOneAdminWhileWalking`.

## 5 What is proved

For every value of the constants that satisfies the named assumptions. Each
theorem follows from an inductive invariant by one lemma per action.

| Theorem | Property | Argument |
|---|---|---|
| `PoolTypeCorrect`, `PoolAlarmWithinCap`, `PoolCandidatesInBounds`, `PoolAlarmsFollowTheirMember`, `PoolStatusAgrees` | PoolFailover | types alone are not inductive for the cap or the positions: the invariant adds that slots and ids have the same domain, that alarms are within the cap, and that a request's candidates lie in the list it holds. The action property follows: of all actions only `ExhaustionSignal` sets an alarm. `PoolStatusAgrees`: a slot the status shows as active holds no alarm, or one that has rung, and those are the slots a pick clears |
| `LimitsHold` | ConversationDag: `WithinCapacity` | whoever is over a limit holds the lock and evicts until nothing is (`CapacityInv`) |
| `RecordsKeepTheirPromise` | `RecordsSettleOnce`, the refinement of `RecordLifecycle` | where a request is and what its record says go together (`RecordInv`); then every step is one of the record's or none |
| `ConversationsAreExact`, `DerivedStateFollows`, `DeepestIsFound` | `ConversationIsExact`, `DerivedStateIsExact`, `DeepestParentFound` | `StructInv`: the stored paths are simple and closed under prefixes, a path's owner is its last node, and counts, hashes, index and sessions are functions of the nodes. What `gc_cascade` removes is a branch that no survivor hangs from (`DoomedBranch`, `EvictStruct`), so every survivor keeps its ancestors; a push extends one path by one node (`PushAdds`, `PushStruct`). `find_parent` compares the messages after the hash, so a collision costs it nothing (`FindParentIs`), and a prefix of a stored conversation that ends at a node is in the index under its own hash (`PrefixIsHit`) |
| `AuditIsKept` | `AuditFollowsHeads` | a pending node that was captured still has its body (`AuditInv`), so settling keeps the head's, and each settlement clears those it supersedes; a push only makes a pending node the head, and an eviction leaves no survivor with a new relation to its ancestors |
| `RefcountsAreExact` | `RefcountsExact`, for finitely many requests | a sum over a finite set is the number of its points, one set of points per summand and no two sharing one, so that it can be split and changed summand by summand (`TotalUnion`, `TotalChange`); the fold the property sums with is such a sum (`AddsTotal`). `RefInv`: a request holds a reply only between interning and attaching it, a node in flight none. Then a push gains what the messages after the shared prefix use (`PushRefs`), an eviction releases what the nodes that go held (`EvictRefs`), and attaching moves a reply from the request to its node or releases it (`AttachRefs`); that nothing is released which is not held makes the code's saturating subtraction exact |
| `FileTypeCorrect`, `FileMemoryIsPersisted`, `FileNoLostUpdate`, `FileRestartKeepsWholeWrites`, `FileDecisionsAreOnStatics`, `FileRevivedIdStartsClean` | StateFile without `issue` | whoever works holds the lock (`WorkUnderLock`); the cells to publish are those of the new content (`AllToDo`), with keys and index together (`KeysWithIndex`); what a job has loaded is still the file (`FileIsFresh`); after the rename the file holds the new content (`PublishesTheFile`). `FileNoLostUpdate` thus says that the violation in FileLostUpdate is due to `issue` alone; `FileRevivedIdStartsClean` (an id that comes back into the static configuration has no decision left over) assumes a file that can be written |
| `WalkVisitsNoProviderTwice` | `ChainIsSimple` | the visited set covers the chain and the current id at every hop, whatever the table becomes |
| `ScansAnswerExactly` | `ScansAreExact` | reachability is the least closed set (`ReachableIsLeast`: a round that adds no key ends the search, so as many rounds as keys are enough). `visit` exists because a call inside a call has fewer ids left (`VisitExists`). What it keeps (`Settled`): of an id that is done and off the stack all targets are done, those on the stack are marked by a report, and if it is on a cycle, its knot is reported or still on the stack. The step that needs it is the return from an id whose targets are all through (`PopSettles`): had its knot no report, the ids done and not on the stack would be a closed set that misses it. Hence "done" may be consulted although other cycles through the id go unreported, as the comment on `CycleScan` claims |
| `CycleErrorsAreReal`, `PoolServesFirstUsable` | `CyclesAreReal`, `FirstUsableMemberServes` | until the first edit (`CalmInv`) every visited id reaches the one the walk is at, so an edge back to one of them closes a cycle; and every offered candidate that is no longer tried was not usable |
| `CyclesAreUnchecked` | `CyclesEnterUnchecked`, for any number of admins | an edit changes what one id shows, whatever layer it writes to (`TouchesOne`). Another entry for one id closes a cycle only if one can be reached from that id (`NewEdgesCloseFrom`; fewer edges close none, `FewerEdges`), which is what the check of it decides (`EntryClosesCycle`, from `CheckIsExact`). So the entry of an upsert that closes a cycle fails the check on the table it is stored in, and passed it on the one it was checked on (`TableOK`): they are not the same (`StepClosesUnchecked`) |
| `TableTypeCorrect`, `TableViewsAgree`, `TableStaticKeyStaysOut`, `TableResetShowsOldOrStatic` | ConfigTable | every entry or body a task carries is free of the static key (`Carried`); a reset holds the lock and nobody else can write between its two publications (`ResetInv`). `ViewsAgree` follows from the types by cases |
| `TableOmittedIsKept` | ConfigTable: `OmittedIsKept`, for one admin | `PutInv`: what a PUT has filled in so far is a function of its body, the override and the effective entry it found, and both are still there, since nobody else writes. What is left is about those functions only: filling from the override and then from the effective entry, building, and inheriting from the static entry again gives back what was omitted (`PutKeeps`, by the construct of each of the entries involved, with an override, `OverrideKept`, and without, `StaticKept`) |
| `CacheIsHistory`, `FetchesAreDue`, `AnswersAreTrue` | ModelListCache: `RefreshesWhenDue`, `AnswersAreTheLatest` | every entry says what the history of its key says, as far as the ages that matter go (`CacheInv`); a query that holds the lock has in its answer what the entries it has walked past say (`QueryInv`), since only the holder writes. A fetch then starts exactly when the history asks for it, and an answer is the last list of each target |
| `FramesAreThoseOfTheBody` | ChunkedStream: `FramesIgnoreChunks` | a later terminator ends later (`EndsGrow`), so the first one that is recognised is the first that ends, and bytes that follow do not change it (`FoundStays`). A terminator that was not there before ends in the new bytes and is recognised at most three bytes before them; so a search that begins there finds the first one (`StepBackIsEnough`), and the loop of `feed` cuts all frames (`CutIsExact`). `FramesInv`: the frames are the first ones of the body, and until the reassembler gives up the buffer is what lies behind them, holds no terminator and has been scanned to its end. Frames of a buffer behind frames of a body are the next frames of the body (`EndsConcatenate`) |
| `RecordsShowTheAnswer` | StreamTranslate: `RecordShowsWhatIsSaid` | the property speaks of the snapshot, which a decoder state that is off would spoil only a few frames later, so `RecordInv` speaks of the decoder too: while the answer is open, what the reader keeps agrees with the blocks so far, index by index (`Carries`: which block of the record each OpenAI call, Anthropic index or Responses item and part goes to, and whether it is open), and the scan shows each of them with what was said (`ShowsAll`). `Ranks` numbers the blocks the reader knows, in the order of their starts; a block without IR has no number and moves none. Per protocol one lemma says what the reader makes of each frame of the model (`OpenAiOpensCall`, `AnthropicSays`, `ResponsesCloses`, ...), and one per action carries the invariant on (`OpenBlockRecords`, `SayRecords`, `CloseBlockRecords`, ...). Once an OpenAI answer has stopped, its usage may still come: `OpenAiEnded` |
| `EndsReachTheClient` | StreamTranslate: `EndReachesTheClient` | `EndInv` follows the end from the upstream to the client's own scan of what it was sent. While the answer is open (`Listens`) the client has heard of no end, the translator keeps the usage of the start where the upstream tells one, and reader and writer are in step: no item has begun whose index the reader could still give away, and a call has begun if and only if the answer has one, which decides the stop reason of a Responses stream. A step keeps this because the frames of an open answer are read into starts, pieces and stops of blocks only (`Mild`; `OpenLeads`, `PieceLeads`, `CloseLeads`), and what the windows and the three writers make of those, a start that is first probed for included, tells no reader an end (`Unheard`, `StartTranslated`, `TalkTranslated`). Once stopped (`EndWaits`), the client knows the end (`Knows`), or, where a Responses client waits for the `message_stop` that the translator holds back (`pending`), the writer has what it will tell then (`WillTell`); and a usage that comes late overwrites nothing but the stop reason of an Anthropic client (`DeltaIsWritten`, `StopIsWritten`, `EndTranslated`, `LateUsageEnds`). Extends `RecordInv`, which says that the reader's blocks are those of the answer |
| `TypesAreKept`, `RowsAreSafe`, `TailIsNotLost` | Shutdown: `TailIsStored` | a row that is due is written, in the batch, or in the channel ahead of any flush (`RowsAreSafe`); a handler that has not ended has its connection (`ConnectionInv`), so that when the drain is over, no row becomes due any more; once the flush is answered, none is in front of it (`BarrierInv`) |

Assumptions: `ListsAssumption` and `TimeAssumption` (pools), `MessagesAssumption`,
`HashAssumption`, `TicksAssumption` and `CapacityAssumption` (the DAG; the hash is
any function, the limits are any positive numbers), the operations excluding
`issue` for the file, `ResolutionAssumption`, `TableAssumption` and
`StaticKeyAssumption`, `CacheAssumption`, `ShutdownAssumption`, and
`StreamAssumption`: what a chunk is put together from are sequences of `Bytes`,
any set. `AnswerAssumption`: pieces are sequences of tokens, any set of them, the
name of a tool is not empty, and a kind without IR is none of those with one;
`MaxBlocks` and `MaxPieces` are not assumed to be anything. The runs evaluate all of them. Properties that are proved and restate nothing the runs need
(`ViewsAgree`, `OmittedIsKept`, `AlarmWithinCap`, `CandidatesInBounds`, the type invariants) are in
no configuration.

`TableOmittedIsKept` has the hypothesis `OneAdmin` besides: with two, an edit
may come between a PUT's reads and its write, where `update_flow` accepts that
an edit is lost. `ResolutionAssumption` says that `IdOrder` lists the
ids, so that they are finitely many, and that `None` is none of the values it
stands beside.

The DAG's hash and its filtering of the index fold over sequences, and so do
`select_route`, the edges of a provider and the scan for cycles, whose fold calls
the recursion it is part of. What these folds compute for every input is proved
in `DataLemmas` by induction over a set: the set of lengths for which the claim
holds contains 0 and is closed under successor, so it is `Nat`
(`NatSetInduction`, from the well-foundedness of `<`). A fold is the choice of a
function over sets of indices; that it exists is `FoldExists`, and that it takes
the elements in their order `FoldValue`. The loops over a buffer are functions
that look up their own value further on: `JumpsExist`, by an induction that goes
down from the end (`DownwardInduction`).

What the record shows needs two things said differently from how TLC would
like them: `Ascending` and `InOrder` choose the sequence in order instead of
sorting (the library's `SortSeq` exists in TLC only), and a block of the upstream
is one record.

The proofs of a component are in `<component>_proofs`, except those of the
choice of the upstream, the bytes of its answer and its model lists
(PoolFailover, ChunkedStream, ModelListCache), which are in
`UpstreamAnswers_proofs`, of the tables and the file (ConfigTable, StateFile), in
`Configuration_proofs`, and of StreamTranslate: what the record of a stream shows
is in `StreamRecord_proofs`, and how its end reaches the client in
`StreamEnd_proofs`. ModelListCache names its specification `CacheSpec` because one
module extends it together with PoolFailover.

Only model-checked:

- liveness and everything that needs ENABLED;
- of StreamTranslate, what concerns the blocks that the client gets:
  `ClientStreamIsLegal`, `ClientHearsTheAnswer`, `DoneFramesRepeatTheDeltas`,
  `SynthesizedStreamSaysTheSame`. What is proved of the windows and the writers is
  that they say nothing of an end and which items they begin; the texts they pass
  on need an invariant that relates each open window, each accumulator of a
  Responses item and the client's scan with what was said so far;
- of Redaction, `WireHoldsNoSecret`, `RebuiltViewIsTheWire`, `EchoIsRestored` and
  `AlarmsAreReal`. They need that a mock put into a text never completes, with
  what stands beside it, a value replaced before it, or another mock. The code
  does not see to that (a fixed mock is not even compared with the request,
  section 3), so that a theorem would have to assume it;
- `RestorationIgnoresChunks`, which is not true of every table of mocks either
  (section 3: mocks that overlap themselves).

## 6 What is not modelled, and why

- Requests between the protocols, the Gemini and Ollama codecs, header and
  whole-body redaction of what is no JSON, the limits on what a record
  accumulates, wildcard patterns, key detection, masking: functions of their
  input, string work whose tests reach the cases. Of the codecs the streams are
  modelled, where state is.
- HTTP, TLS, files as such, OIDC cryptography: outside the program or pure I/O.
- DAG views, search, timeline, the read APIs: projections of the DAG, except
  `rebuild_pairs` (Redaction).
- Prices, summaries and retention of the usage database: SQL. What gets into it
  is in Shutdown.
- Login, sessions, privacy scanning, endpoint discovery: see section 7 for what
  of these has state.
- Two admins between a PUT's reads and its write (`web/api/providers.rs:71`,
  `:220`, `web/api/crud.rs:219`): the source accepts that an edit is lost; the
  actions are there, no property claims the opposite. The gap between cycle check
  and store (`provider.rs:1074`, `:1124`, `:1139`), which it declares too, is in
  `CyclesEnterUnchecked`.

## 7 Plan

Done, in the order of what the rest builds on: pools, DAG with recording, state
file, routing, tables; then the streams (window, reassembler, codecs,
translation), the model list cache, redaction, shutdown. Next:

1. `ApiKeys` and `LoginSessions`: revocation against lookups and the plaintext
   registry; pending logins used once and expiring.
2. `PrivacyQueue`: a bounded queue in front of a slow scanner, findings that
   come after the user's decision.
3. The request side of the codecs, and the round trip of a conversation through
   two protocols.
4. Proofs: of StreamTranslate what the client gets of the blocks, first
   `ClientHearsTheAnswer` for an answer without mocks, along `RecordInv` on the
   upstream's side and `Listens` in `StreamEnd_proofs` on the client's.
