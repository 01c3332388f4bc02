# opgo: a verification development

opgo shares one paid coding plan among several users: a Go program that
authenticates requests to LLM APIs, refuses those of users or pools that have used
up their quota, forwards the others to an upstream provider, converts between three
API protocols where needed, and charges the user for the tokens the answer reports.

This directory holds TLA+ modules that model its concurrent core, its protocol conversion
and its accounts, the TLC configurations that check them on small instances, and proofs that the TLA+ proof
system checks for every value of the constants. `PROJECT.json` maps every definition
to the lines it is translated from. Paths below are relative to the repository.

- [1. The system](#1-the-system)
- [2. Modules](#2-modules)
- [3. Runs](#3-runs)
- [4. Proofs](#4-proofs)
- [5. What the runs found](#5-what-the-runs-found)
- [6. Not modelled, assumptions](#6-not-modelled-assumptions)
- [7. Plan](#7-plan)

## 1. The system

### Components

| Component | State it keeps | Operations | What makes it correct |
|---|---|---|---|
| Admission and charging, `internal/proxy/proxy.go` (`forward`, `userLimitExceeded`, `recordUsage`) | one mutex per user; the request each handler serves | authenticate, read the balance snapshot, judge every window under the lock, forward, charge under the lock | nobody gets past a limit by more than the requests in flight may cost; a verdict is one decision; an answer is charged to the window it was admitted in, once at most; what was spent survives a restart |
| Smart boost, `internal/proxy/boost.go` | `boostTracker.m`: per user and window the granted tier, tagged with cycle, revision, policy and limit | `state` (reads, deletes what is stale), `mark`, `maybeBoostLocked`, `hardLimitFor` | no more than `max_boost_times` tiers per cycle; a tier never outlives its cycle or configuration; ladders are not mixed |
| Streamed answers, `streamCopy` in `proxy.go` | scanner goroutine, channel, merged usage, discard flag | scan, receive, heartbeat, write, close, charge | usage is charged once and as the lines say, whoever breaks off; the client sees every line once; no goroutine is left behind |
| Configuration, `internal/config/manager.go` | `cur`, the last hash, the last existence | load, poll, reload | a bad file never replaces a good configuration; a good one is in force in the end (but see section 5) |
| Balance, `internal/balance/balance.go` | the last snapshot, when it was last asked for | fetch, sleep in short naps, plan | asks as often as configured and no more; keeps its last answer; follows the configured provider |
| Usage table, `internal/store/store.go` | SQLite rows | insert a charge, sum since a time | sums include what was charged from the start of a window on |
| Rate limiter, `rateLimiter` in `proxy.go` | hit times per user | `allow` with a sweep | at most so many requests in any minute |
| Stream conversion, `internal/translate/stream.go`, `convert.go`, `continuation.go` | reader and writer state: open block, indices, tool call, pending usage and finish | `Feed`, `Close` | blocks open and close in pairs, arguments reach their own call, the stream ends once with its usage |
| Request and response conversion, `internal/translate/*` | none: every request carries the whole dialog | parse into a common form, build from it; ask for a follow-up | over a whole dialog nothing said is lost, repeated or attributed to another; calls and results stay paired, turns whole; settings and usage arrive |
| Metering, `internal/meter/meter.go` | none | parse usage, price, peak windows, cost | every token is charged once, at the price of admission, in a window or not (but see section 5); the client is told what it is charged for |
| Configuration parsing, `internal/config/config.go` | none | strip comments, decode first-wins, default, validate | of duplicates the first counts; what is accepted can be worked with as a whole |
| Model names and Muse compatibility, `model_override.go`, `muse_compat.go` | none | edit JSON texts in place | untouched where not applicable |
| Start and shutdown, `main.go` | the context of the process | start in order, stop on a signal | quotas hold across restarts |
| Audit, `internal/audit` | none | start a proxy of its own, look for keys in every answer | - |
| Reports and web page, `proxy.go`, `web/` | none of their own | `/v1/usage`, `/api/*`, `/v1/balance` | reading does not change what requests rely on |

### How they interact

Every HTTP request is a goroutine. It reads the configuration through an atomic
pointer (`Manager.Get`), and does so three times: for the user's identity and own
limits (`authUser`), for prices and providers (`forward`), and for the boost policy
and the global limits (`userLimitExceeded`). It reads the balance snapshot once, and
judges all windows by it. Under its user's mutex it goes over the windows twice: the
first pass may grant boosts, the second compares the sums of the usage table with
the limits. The mutex is free while the request is upstream, and taken again for the
charge. Reports read and clean the boost states without that mutex. The configuration
poller and the balance synchroniser are one goroutine each; the second reads the
configuration too. A streamed answer adds a scanning goroutine, joined to its handler
by an unbuffered channel and a context.

### What is hard

- the limit check and the charge are two critical sections with an upstream call in
  between; the windows of a verdict are read one after the other;
- a snapshot or a configuration goes stale between its reading and its use, also
  across a window's reset;
- boost states are shared with reports that do not take the user's lock, and `state()`
  and `mark()` are separate critical sections of their own mutex;
- reads of the usage table may fail, and a window that cannot be read is skipped;
- clients leave and upstreams break off anywhere in a stream; heartbeats interleave
  with its lines;
- an upstream reads a dialog that has been through the conversion of each answer to the client, the
  client's history, and the conversion of each request back, by code that shares nothing;
- the process may end at any moment, and locks, boosts and snapshots with it;
- the configuration file is hashed and read at different moments; its content changes
  the interval and the provider of a goroutine that is asleep or waiting for an answer.

`PROJECT.json` lists each hazard at its line with the properties that would show it, and
what they leave out.

## 2. Modules

| Module | Role |
|---|---|
| `Gateway` | admission, boosts, charges, reports, over time, reloads and balance refreshes |
| `GatewayProps` | its types, properties and inductive invariant |
| `GatewayProofs` | theorems about it, among them that it implements `Quota` |
| `Quota` | the abstract specification of the admission path: admit, charge, waive, crash, roll over |
| `StreamCopy` | one streamed answer, with its properties |
| `StreamCopyProofs` | theorems about what its client sees, what is charged for it and how it ends |
| `StreamReader`, `StreamWriter` | the readers and the writers of three protocols, as operators on records |
| `StreamConvert` | `StreamConverter` on the stream of an upstream that may be irregular or break off |
| `StreamConvertProps` | what a client may rely on when its stream is converted |
| `StreamConvertProofs` | lemmas on what each event makes of a writer, for any writer state and any length, and theorems about `StreamConvert` |
| `Picks` | some elements of a sequence by the set of their places (`At`), a recursive function that, unlike `SelectSeq`, can be proved about |
| `Induction` | induction over the natural numbers for a set given as such, and lemmas on sequences and what `At` picks from them, which the proofs about ladders, streams and conversations use |
| `Requests` | requests of three protocols: their parsers, builders and settings, as operators |
| `Answers` | whole answers of three protocols, and when a follow-up is asked for |
| `Dialogs` | what clients and upstreams write and read in each protocol (external) |
| `Conversation` | a dialog of several requests between a client and an upstream of different protocols |
| `ConversationProps` | what both sides may rely on |
| `DialogProofs` | theorems about what the client knows, and lemmas on every parser: what it makes of a dialog |
| `ConversationProofs` | lemmas on every builder, and the theorems about what an upstream is sent |
| `Meter` | usage, peak windows and cost, as operators |
| `ConfigFile` | what `Parse` makes of a configuration text, and what it refuses |
| `Accounts` | one request under a configuration: admitted, converted, answered, charged, with its properties |
| `AccountsProofs` | theorems about configurations, charges and settings |
| `RateLimiter` | the sliding window of `allow` and how handlers call it, with its properties |
| `ConfigWatch` | the hot reload, with its properties |
| `BalanceSync` | the balance synchroniser composed with `ConfigWatch` (it EXTENDS it: the steps of the watcher are steps of the composition that leave the synchroniser alone) |
| `ServiceProofs` | theorems about the hot reload, the synchroniser and the rate limiter, the parts with a state of their own beside the requests |
| `MCGateway`, `MCStreamCopy`, `MCStreamConvert`, `MCConversation`, `MCAccounts`, `MCRateLimiter`, `MCBalanceSync` | the instances for TLC |

### Gateway

A *worker* is a slot of the HTTP server that serves generation requests one after the
other, so that the number of workers bounds the requests in flight. Its `pc` follows
`forward`:

| pc | Action | Code |
|---|---|---|
| idle | `Authenticate` | `authUser` |
| authed | `Refuse`, `ReadSnapshot` | everything up to `userLimitExceeded`: rate, body, model, price, balance, pool |
| wait | `Lock` | `mu.Lock()` and `cfg.Get()` in `userLimitExceeded` |
| boost | `BoostPeriod` | first pass over one window: the sum, `boostTracker.state`, the conditions of `maybeBoostLocked` |
| grant | `Grant` | `boostTracker.mark`, which takes the tracker's mutex anew |
| check | `PassPeriod`, `RejectPeriod` | second pass over one window, `hardLimitFor`, the deferred unlock |
| upstream | `Answer`, `EndUncharged` | the upstream call with its outcomes |
| record | `RecordUsage` | `recordUsage`: lock, insert, unlock |

A *reporter* builds a usage report: `ReportRead` (snapshot), `ReportConfig`,
`ReportPeriod`, the last one cleaning boost states as `boostTracker.state` does.
`Tick`, `Reload` and `Refresh` are time, a reload that succeeds and a fetch that does. `Restart` is
the end of the process and its next start: a crash, or a signal. A shutdown is no
better than a crash for the requests in flight, since `ListenAndServe` returns as soon as
`Shutdown` begins and main then closes the database and returns (main.go:83-96). The usage
table survives; the configuration is loaded anew, and locks, boosts, snapshot and handlers are
gone. `due` is external: the reset times the balance service gave last, which it does
not take back because the proxy was restarted.

Data: the usage table is kept as suffix sums, `spent[u][t]` being all that `u` was
charged with a time stamp of `t` or later, which is what `UserWindowSum` asks for and
lets a long history be one number. Money is in whole accounting units and `Pct` rounds
to one. In the code a boosted limit is a float of dollars that is rounded only when it is
compared; the model rounds at each tier, so the two may differ by a unit. The pointer
identity that tags a boost state is the revision number of the configuration.

### Quota

What all of this is to promise, without locks, passes, snapshots or boosts. `start` is when each
window began, `spent` the same suffix sums, and `ticket` what a worker has been admitted
with. `Admit` is one step that sees every limiting window below the cap; `Charge` adds a
cost at the time of the ticket; `Waive` ends a ticket without a charge, `Crash` ends all of them.
The refinement mapping (`Abstract` in `GatewayProps`) takes a request's ticket from the
step in which its last window passes to the step that charges it or gives it up, and `HardCap`,
the largest limit any configuration and boost give, as the cap. Steps of the
passes, grants, reloads and reports map to stuttering.

### StreamCopy

The scanner (`scan`), the handler (`pc`), the client (`client`) and the stream the
upstream sends (`script`, the lines of one answer). A line has a kind, the usage it
carries and whether a converter is done with it; what a converter writes for it is
only whether it writes anything. `Leave` is the client's departure: from then on a write
may be lost silently or fail, and a read of the upstream may end, as the upstream's
request shares the client's context.

### StreamReader, StreamWriter, StreamConvert

`Read` and `Write` are the three `read*Line` and the three `Write` methods. A line is a record
of what it says (what it may lack is a sequence of at most one element), an event is a
kind and its content, and a writer is one record with `out`, all it has written: what each
SSE event says is kept as its type, the block it is about and its content. Ids of items,
sequence numbers, names and the echoed request are left out. A fragment is the number of its
line; whether the text so far reads as an unfinished prelude, which the code finds by
looking for phrases, is an input, and so is whether the request allows one more follow-up.

`StreamConvert` has one action per kind of line an upstream sends, each of which calls
`Feed`, and `EndOfBody` and `Close`. `said` is what a client of the upstream's own protocol
would have understood: deltas in order, tool calls with their ids and arguments, usage, whether
the answer was whole. The properties compare it with `out`. `Odd` names the irregularities
an instance allows: ids that come late, fragments without an index, fragments
of parallel calls that interleave, placeholders for arguments, running usage, the event
`response.incomplete`, and a `content_block_stop` that is missing (`unclosed`), also where the next block is of the
same kind (`doubled`); `said.odd` records which of them a stream has shown.

The two stream modules meet at `Feed`: `StreamCopy` keeps of it whether it writes and whether it is done,
`StreamConvert` keeps what, and leaves out what `StreamCopy` has (heartbeats, a client that leaves, billing).

### Requests, Answers, Dialogs, Conversation

A text is a sequence of phrases, each said once in a dialog, and content is a sequence of blocks as in
`translate.Block`: text, media, thinking, a call, a result. Each protocol's wire format is
what the converter tells apart in it: Chat Completions has reasoning and calls beside the content of a message
and results as messages; Responses has a flat list of items; Anthropic has messages of blocks.
`Parse...` and `Build...` are the parsers and builders, with the loops over messages and items as recursive functions
(`MessagesToChat`, `AddResults`, `ParseItems`, `AddBlocks`) and their local state (`pendingToolMedia`, `content`) as what is carried along. The arguments of a call may be an object, empty,
missing or cut off; `AsText` and `AsObject` are what the builders make of them.

`Conversation` composes both directions. `UserSpeaks`, `ModelAnswers` and `ToolRuns` (one call of those that are `open`, in any
order) extend the dialog as it was
held (`said`) and as the client knows it (`history`): the latter holds each answer as `ConvertResponseMeta`
made it, and `Asked` is `ConvertRequest` of all of it, as the client writes it. What the upstream reads in that
request is compared with `said`, piece by piece. How clients write their history and how
upstreams read and write their protocol is external (`Dialogs`); the formats are those the parsers expect.

### Meter, ConfigFile, Accounts

A configuration text is a record with a list of objects per section, since a JSON text may hold a key twice; a
section is a list of entries with their names. `Providers`, `ProviderOrder`, `Pricing`, `WithDefaults` are what `Parse`
computes, `Accepted` is the conjunction of what it checks. `Accounts` starts on a text, lets it be rewritten while an
answer is under way, and takes one request through what `forward` captures of the configuration (`Ask`) and what
it does with the answer's usage (`Answer`). `Hy3` is the one model whose name matters, since the conversion knows its efforts. A client has the key of some user; which one makes no difference here. A minute of the day is a number below `Day`; prices are whole
units per token, so that nothing is rounded. Percentages and prices are integers, and a string is kept as far as `validate` looks at it.

### RateLimiter

A handler reads the limit (`Enter`) and then the time (`ReadClock`), and only `Allow` is under
the mutex: the time it is called with may be older than that of a call before it, and the limit
older than a reload. `hits` and `lastSweep` are the fields of `rateLimiter`; `granted` keeps
every hit, and `verdict` the last call, for the properties. A hit is a time and the number of
its call, which makes the slices of the code sets: nothing depends on their order.

### ConfigWatch and BalanceSync

The file's content is a model value; its hash is the content. `wpc` is `main` up to
`Watch` and then the polling goroutine, with the poll (`PollGone`, `PollChanged`) and the
second read (`ReloadFile`) apart. Whoever edits the file may write or remove it at any
time after the start, with contents that were there before or not; a switch says whether it may also do so
between `Load` and `Watch` (`WritesAtStart`). `torn` is a history variable: the content last read
to be loaded is not the one that was hashed with it.
The synchroniser keeps ages instead of times: since the last fetch, since the
configuration changed, and until the timer fires.

## 3. Runs

| Run | What is checked | Instance |
|---|---|---|
| `quota` | `TypeOK`, `OvershootBounded`, `ChecksStayTrue`, the inductive `QuotaInv`, `RolloverNotCharged`, `BeyondOverageNeedsLiveBoost`, `ImplementsQuota` | one user, two workers, two windows of lengths 2 and 3, time 0..2 with resets up to 4 ahead, restarts at any moment |
| `reload` | `TiersExact`, `TiersBounded` | one worker, one reporter, one reload to another policy that also gives or takes the user's own limit, two pool states; reads of the usage table may fail |
| `stream` | `BilledAsRead`, `ClientSeesAll`, `EndedOnce`, `DepartureEndsStream`, `NoGoroutineLeak` | four streams (one per protocol and an empty one), copied and converted, with and without heartbeats, at most two |
| `convert` | `ContentKept`, `BlocksPaired`, `AnswerEndsOnce`, `UsageKept`, `OutputComplete`, `PhaseAccurate` | all six pairs of protocols, streams of up to 4 lines (Chat Completions), 6 (Responses) or 5 (Anthropic), all irregularities |
| `dialog` | `DialogKept`, `AttachmentsOwned`, `ResultsInPlace`, `TurnsWhole`, `AnswersKept` | all six pairs of protocols, two messages of the user, two answers with up to two calls each, results of text, media, both or nothing |
| `billing` | `ConfigUsable`, `FirstWritten`, `ChargeExact`, `ToldAsBilled`, `SettingsKept` | some 50 texts in which one section varies (most are refused), two rewrites, two models, one of them hy3, six minutes of a day of 12, seven usages per protocol |
| `rate` | `AtMostLimitPerMinute`, `RefusedOnlyWhenFull`, `HitsForgotten` | two users, two concurrent calls, four calls in all, limits 0, 1 and 2, a minute of two ticks, time 0..4 |
| `services` | `SeenIsLoaded`, `SettledIsLoaded`, `IntervalHonoured`, `NotTooOften`, `SnapshotKept`, `SnapshotFollows` | two valid contents with different intervals and providers, one invalid content, any of which may come and go at any moment |
| `one_overshoot` | `AtMostOneOvershoot`, violated | two workers, one window of limit 3 without boosts, requests that cost 2 |
| `follow_ups` | `FollowUpsBounded`, violated | a Responses client and a Chat Completions upstream whose answers are preludes |
| `stream_promises` | `StreamPromiseKept`, violated | an Anthropic upstream and a Responses client, placeholders and missing block ends |
| `request_promises` | `RequestPromiseKept`, violated | the texts and usages of `billing`, an Anthropic upstream, one demand |

The last four are claims of a document, a comment or a test that the code does not keep (section 5). `StreamPromiseKept` and
`RequestPromiseKept` are disjunctions of several promises, so that the one state TLC finds breaks each of them.

### What the properties say

- `OvershootBounded`: what a limited user has used, plus what its requests in flight may
  cost, stays below the largest hard limit plus one request per worker. It is the
  guarantee that check-then-charge gives, for any snapshot and configuration held.
- `ChecksStayTrue`: while later windows are judged the windows already passed are still
  below the limit. It is what the user's lock is for.
- `BeyondOverageNeedsLiveBoost`: a window lets a request pass beyond its limit without boosts (the base
  overage where they are enabled, the plain limit where not) only by a boost of the cycle and the configuration the request is judged by.
- `RolloverNotCharged`: a request still running at a reset takes nothing from the new window.
- `ImplementsQuota`: seen from outside, an admission is one step that sees every charge before it and none
  after, a request is charged once at most and at the time it was judged at, and a restart forgets no
  charge. A lock taken too late, a charge outside of it or a boost beyond the cap would each be a step `Quota` has not.
- `TiersBounded`, `TiersExact`: a boost state is some rung of its own policy's ladder on
  its own limit, whatever reports and reloads came between reading and granting.
- `BilledAsRead`: one charge, by the last counts of the lines read, no matter when the client
  left or the upstream broke. `ClientSeesAll`: every handled line, once and in order.
  `EndedOnce`: a converter's closing events come once and last. `DepartureEndsStream`,
  `NoGoroutineLeak`: the handler and then the scanner end.
- `ContentKept`: reasoning and text reach the client in order and once, from any upstream, and tool calls
  with their ids and arguments from a regular one. `BlocksPaired`: items and blocks
  open one at a time, with indices from 0, and close before the answer ends, also where the upstream does not close its own;
  for a client of Responses not where it opens one of the kind that is open (`StartCloses`). `AnswerEndsOnce`,
  `UsageKept`: one end, however finish, usage, the last line and the break-off follow
  each other, with the final usage. `OutputComplete`: `response.completed` repeats what was
  streamed, with the same exception. `PhaseAccurate`: a text is a commentary exactly if a tool call follows it or a
  follow-up is asked for.
- `DialogKept`: whatever the user, the model or a tool said is in every later request, once and in order, after one
  conversion of each answer and another of each request, but for what the client was never given (`Lost`). `ResultsInPlace`: between a call and its result there
  are only calls and results. `AttachmentsOwned`: the model can tell whose attachments it sees, also
  where results hold text only and media follow in a message of the user. `TurnsWhole`: turns alternate, though a model's
  turn may come as many items. `AnswersKept`: the client knows what was answered, but for `Lost`, and why it ended, unless it is one of Responses.
- `ConfigUsable`, `FirstWritten`: what is accepted works as a whole (a key has one user, a model a provider, an
  alias no other model), and of what is written twice the values of the first count; the order of names does so only
  where the section is there once. `ChargeExact`: of a usage that tells prompt or completion tokens, and counts
  cached ones in the prompt, every token is charged once, at the price the request was admitted under, whatever was reloaded since, and with the multiplier exactly in the
  windows, stated around the clock. `ToldAsBilled`: the usage the client is told prices to what it was charged,
  though one is converted and the other read from the original. `SettingsKept`: the limit and the effort, or the nearest the upstream has, reach it, and the choice of
  tools reaches one of OpenAI. What these leave out is the subject of `request_promises` and section 5.
- `AtMostLimitPerMinute`: nobody is granted more than a configured limit in the minute up to now,
  in whatever order calls with older and newer times get the mutex. `RefusedOnlyWhenFull`: who is
  refused really has used the limit up. `HitsForgotten`: hits of users who stay away go.
- `SeenIsLoaded`: what the poller will not look at again is loaded. `SettledIsLoaded`: a valid
  file that stays is in force in the end. Both except the case that the content last read to be loaded was not the one
  hashed with it (`torn`): see section 5. `IntervalHonoured`, `NotTooOften`: nobody sleeps past
  the interval now configured by more than a check, nor fetches before it is over, also while no fetch has ever succeeded.
  `SnapshotKept`, `SnapshotFollows`: failed fetches lose nothing, and the snapshot
  becomes that of the provider configured.

Each of these has a mutant of the code in its module (a dropped comparison, a lock that
is shared, a charge at the wrong time, a plan made once, ...) under which it fails.

### Bounds, and why they are enough

- Two workers of one user are what interferes: users share no lock, no sum and no boost
  state. The proofs cover any number of either.
- Two windows make the cross-window condition of a boost, the order of the passes and the
  interval between them matter. A third adds only another such pair.
- `MaxClock`, `Horizon`: the clock passes the shortest window's reset with room for a request
  admitted before and charged after. `quota` never needs a third cycle: a state tagged by
  an older cycle is treated alike however old it is.
- Costs, limits and percentages are chosen so that two charges reach a trigger and a third the
  limit, so that a request sits exactly on the limit, and so that the base overage and the
  first boost give different amounts (105 % of 4 rounds to 4, 150 % is 6). In `one_overshoot` one request leaves 1 of the
  limit of 3, so that two that cost 2 each pass it by more than one of them.
- `MaxRev = 1` with two configurations: a state and a request each hold the old or the new
  one. `MaxSpent` only caps `reload`, where
  windows that cannot be read let requests pass, and charge, for ever.
- Two answers and two messages of the user: an answer is converted once for the client and once in each later
  request, so that the second request already shows what the first conversion did; a result with a word of the
  user after it, and two calls in one answer, are in it. What is kept between messages (pending media) is flushed by the next.
- `MCFiles`: `validate` and `Parse` work section by section, and every text varies one section of a base; the relations
  across sections (aliases, providers, legacy fields) have texts of their own.
- `Day = 12` and windows that are empty, reversed, overlapping, adjacent to midnight or end at the invalid `24:00`, with minutes at
  their ends and beside them.
- `MaxLines`: what the converter keeps between lines is the open block, the pending usage and finish, and
  the latest call; four lines are a text, a call, more of it and the end. Responses needs
  six, since items start and end by lines of their own, and Anthropic five: its blocks may be left unclosed, so that two blocks with
  what each says need four lines and the end one. Chat Completions says as much in one line.
- A minute of two ticks: a hit may be younger than, exactly, or older than a minute. `MaxDelay = 1`: a
  call may be overtaken by one with a later time, also across a sweep. Four ticks are two sweeps.
- `MaxBeats = 2`: a heartbeat before, between or after any two lines.
- `MaxAge = 5` is above the longest interval and a check: all older ages act alike. `services` also writes the file
  between `Load` and `Watch`.

`CHECK_DEADLOCK FALSE` is set for `StreamCopy`, `StreamConvert`, `Conversation` and `Accounts` only, where a
finished answer, dialog or charge really is the end.

### Fairness, and why the code justifies it

- `Gateway` has none, and nothing is claimed of a request's end. The timeouts of the server and the transport are for
  headers (main.go:75-81, proxy.go:67): no deadline ends the reading of a client's body or of an upstream's answer, so that a
  request may never come to the lock, and one that is upstream may stay there.
- A goroutine that can run does (Go's scheduler): weak fairness of the steps of `StreamCopy`, `ConfigWatch` and `BalanceSync`.
- In `StreamCopy`, an upstream may stay silent for ever, and the client may stay for ever.
  Only when the client has left, or the body has been closed, does a read return. Writes
  return; a client that is connected but never reads is outside the model.
- The poller's and the synchroniser's timers fire. `SnapshotFollows` assumes that a provider
  asked again and again answers once (strong fairness of a success); the others do not.
- Nothing makes a client send a request, a file change, a heartbeat come or a reset happen.

## 4. Proofs

| Theorem | Statement |
|---|---|
| `GatewayProofs!TypeCorrect` | `Spec => []TypeOK` |
| `GatewayProofs!TiersStayBounded` | `Spec => []TiersBounded`, also when reads of the usage table fail |
| `GatewayProofs!TiersStayExact` | `Spec => []TiersExact`, also when reads of the usage table fail |
| `GatewayProofs!QuotaInvariant` | with a table that can be read, `Spec => []QuotaInv` |
| `GatewayProofs!QuotaKept` | with a table that can be read, `Spec => []OvershootBounded` |
| `GatewayProofs!VerdictIsOneDecision` | with a table that can be read, `Spec => []ChecksStayTrue` |
| `GatewayProofs!GatewayImplementsQuota` | with a table that can be read, `Spec => ImplementsQuota` |
| `GatewayProofs!RolloverKeepsCharges` | `Spec => RolloverNotCharged`, also when the table cannot be read |
| `GatewayProofs!PassesAreCovered` | with a table that can be read, `Spec => BeyondOverageNeedsLiveBoost` |
| `ServiceProofs!RateLimitKept` | `LimiterSpec => []AtMostLimitPerMinute` |
| `ServiceProofs!RefusalsJustified` | `LimiterSpec => []RefusedOnlyWhenFull` |
| `ServiceProofs!AbsentUsersForgotten` | `LimiterSpec => []HitsForgotten` |
| `ServiceProofs!IntervalAlwaysHonoured` | `Spec => []IntervalHonoured` |
| `ServiceProofs!NeverTooOften` | `Spec => NotTooOften` |
| `ServiceProofs!SnapshotsKept` | `Spec => SnapshotKept` |
| `StreamCopyProofs!StreamEndsOnce` | `Spec => []EndedOnce` |
| `StreamCopyProofs!ClientsSeeAll` | `Spec => []ClientSeesAll` |
| `StreamCopyProofs!BilledAsLinesSay` | if every total covers the prompts given so far, `Spec => []BilledAsRead` |
| `StreamConvertProofs!BlocksStayPaired` | `Spec => []BlocksPaired`, for clients of Responses if no block may start while one of its kind is open (`"doubled" \notin Odd`) |
| `StreamConvertProofs!AnswersEndOnce` | `Spec => []AnswerEndsOnce` |
| `StreamConvertProofs!OutputStaysComplete` | `Spec => []OutputComplete` under the same condition |
| `StreamConvertProofs!ContentStaysKept` | `Spec => []ContentKept` |
| `StreamConvertProofs!UsageStaysKept` | `Spec => []UsageKept` |
| `StreamConvertProofs!PhasesStayAccurate` | `Spec => []PhaseAccurate` |
| `ServiceProofs!SeenStaysLoaded` | `WatchSpec => []SeenIsLoaded` |
| `DialogProofs!DialogTyped` | `Spec => []DialogInv` |
| `DialogProofs!AnswersAreKept` | `Spec => []AnswersKept` |
| `ConversationProofs!TurnsTyped` | `Spec => []TurnInv` |
| `ConversationProofs!DialogIsKept` | `Spec => []DialogKept` |
| `ConversationProofs!TurnsAreWhole` | `Spec => []TurnsWhole` |
| `ConversationProofs!ResultsArePlaced` | `Spec => []PlaceInv` |
| `ConversationProofs!ResultsAreInPlace` | `Spec => []ResultsInPlace` |
| `AccountsProofs!ConfigStaysUsable` | `Spec => []ConfigUsable` |
| `AccountsProofs!FirstStaysWritten` | `Spec => []FirstWritten` |
| `AccountsProofs!ChargesStayExact` | `Spec => []ChargeExact` |
| `AccountsProofs!ClientsToldAsBilled` | `Spec => []ToldAsBilled` |
| `AccountsProofs!SettingsStayKept` | `Spec => []SettingsKept` |

They hold for any users, workers, reporters, windows, limits, policies, costs and
bounds that satisfy the named assumptions.

**The quota.** `OvershootBounded` alone is not inductive: that a request in flight is within
the bound depends on what its admission saw. `QuotaInv` adds

1. `LockHeld`: who judges holds the user's lock, so that no charge of that user happens meanwhile;
2. `SuffixSums`: what was charged since a later moment is part of what was charged since an earlier
   one;
3. `SnapshotsAdvance`: a snapshot in hand is not newer than the current one. With 2, what a
   request counted by its own snapshot is at least what the current snapshot counts for
   the user: a stale snapshot errs on the safe side;
4. `TierInv`: limits and policies in hand are those of some configuration, pointers of the
   same revision are equal, and boost states, like the one a grant is based on, are rungs
   of a bounded ladder. So no window is judged against more than `HardCap`;
5. `ChecksStayTrue`: the windows already passed are still below `HardCap`.

When the last window passes, every limited window holds less than `HardCap`, and the request that
joins those in flight adds at most `MaxCost`; a charge moves that amount from the requests
in flight to the sum. That is the step `OvershootBounded` needs, and it also explains why
the bound counts workers. The proof has one lemma per conjunct with one step per action.
TLC checks `QuotaInv` as an invariant of `quota`.

**The refinement.** Every step of `Gateway` is a step of `Quota` or a stutter. The step that
needs an argument is the last `PassPeriod`: there `ChecksStayTrue` and `SnapshotsAdvance` give that all limited windows,
also those judged earlier and by an older snapshot, are below the cap at this very moment (`AdmittedBelowCap`).
`Refresh` maps to `Roll` because resets only move forward (`StartsForward`), `RecordUsage` to `Charge` or, when the
INSERT fails, to `Waive`, and `Restart` to `Crash`. Safety only: `Quota` has no fairness, since a ticket need not be charged.

A restart keeps `QuotaInv`: what it relies on is about requests that are judged, of which there are none afterwards,
and about `spent` and `due`, which stay.

**The boosts.** `TierInv` is inductive by itself, without the lock and with failing reads:
`Grant` writes a rung one above what `BoostPeriod` found, whatever a report did in
between, and `GrantsKnown` carries what was found across that gap. `TiersExact` says which rung of which ladder
a state is. A ladder is a recursive function of the tier, so that its type and its steps are proved by induction
(`SetInduction`). `LadderInv` adds the same of what a request found before it grants: that stays true although a report may
have deleted the entry it was found in, since it is about policy and limit and not about the table.

**One step.** `RolloverNotCharged` and `BeyondOverageNeedsLiveBoost` are about single steps and need only the types:
a request changes by its own steps or by a restart (`OwnSteps`). A charge stamped at the time
of the verdict is no part of a suffix that starts later. Who passes beyond the limit without boosts was judged by what
`boostTracker.state` honoured, which compares cycle, configuration and limit.

**The rate limit.** What was granted in the minute up to now is still stored (`RecentStored`):
the time a call brings is not after the clock, so neither its cutoff nor that of a sweep is
within this minute. The call therefore counts all of it, and adds itself only below its
limit. No assumption is needed on how long a call waits for the mutex. A refusal counted calls that were granted,
so they are there to be counted (`RefusalInv`). Forgetting does depend on the wait: a call that gets the mutex
after a sweep by a later time is at most `MaxDelay` late, so that no hit is a minute older than the last sweep
(`SweptInv`).

**The balance.** `SyncInv` adds what is left of a nap: the nap ends with the interval, or within a check of the last
change. Only the head of the loop leads to a fetch, and only when the interval is over. Time counted up to
`MaxAge` does no harm, because intervals and checks are shorter.

**The end of a stream.** `EndInv`: nothing that is written while the handler loops, heartbeats and chunks, is an end, and a
line is only handled once it was read. The rest is that `Close` is passed once.

**A streamed answer.** Only `HandleLine` makes the lines handled more, and only a write that fails makes the handler discard
what follows; `SeenInv` says that then the client is gone. What `At` picks from a sequence with one more element is what it picked
before, with that element or without, which is proved by induction on the length. `BillInv` says that the usage in hand has, for each
count, the last value above zero among the lines handled (`LargestOf` gives the place of the last one when a line carries
none), and that it is charged in `Return` and nowhere else.

**Stream conversion.** The first part of `StreamConvertProofs` shows what one event makes of a writer in any good state, however much it has written:
`Plain` for Chat Completions; `Sound` for the other two, with `Whole` (the items kept so far repeat the deltas) for Responses. The blocks stay paired,
and what the client has understood grows by what the event says and by nothing else (the `Says...` lemmas).
The second part carries that along the stream with three invariants:

1. `WriterInv`: the writer is good, it has told a finish exactly if the upstream has, and the block it has open for an Anthropic
   upstream is the one the upstream has open, or a call (`Aligned`). It is what makes a block that starts of another kind
   than the open one, so that the latter is closed first; for a client of Responses that takes `Tidy`, that no upstream doubles a block. It gives `BlocksPaired`, `AnswerEndsOnce` and `OutputComplete`;
2. `TellsInv`: text, reasoning, calls and arguments that the client was told (`Agree`) are those the upstream has said; the reader and the writer are at
   the call the upstream is at (`Following`); the usage told is the one given, or held back by the reader and told by the end (`UsageFed`,
   `Withheld`, `UsageTold`). It gives `ContentKept` and `UsageKept`;
3. `PhaseInv`: where a Chat Completions upstream sends its calls one after the other, no text is labelled before it is known what
   follows. It gives `PhaseAccurate`.

The proofs are for any number of lines and fragments and for all irregularities; where a property excepts irregular streams, so does its theorem,
and `BlocksStayPaired` and `OutputStaysComplete` are, for clients of Responses, about upstreams that never double a block, while the run checks all streams in which none has been doubled so far.

**The hot reload.** `WatchInv` says more than `SeenIsLoaded`, also while the file is gone: between two polls, what was hashed last
is in force if it is valid and was what was then loaded (`~torn`). A poll that records another hash is followed by `ReloadFile`, which
loads the file if it is valid and sets `torn` if it is not what was hashed.

**Accounts.** `AccountsInv` carries from admission to charge that the prices, windows and minute a request has captured are of
the right kind, whatever the file becomes meanwhile; what else is needed follows from the text in force having been accepted.

1. What was deduplicated is, name by name, what was written first (`DedupeKeepsFirst`, by induction on the length). A flattened
   list of keys without repetition gives lists that are disjoint (`FlatDisjoint`): `validate` looks for a key it has seen before,
   and the property is about pairs of users. The first provider is the first name of the text that was defined (`FirstProvider`).
2. `InWindow` measures minutes around the clock from the start of a window; `SameWindow` shows by the arithmetic of `%` that the
   comparisons of the code, split by whether a window reaches over midnight, say the same.
3. A multiplier on each price is one on the sum (`CostTimes`), and conversion from any protocol to any other leaves the counts that cost
   something as they were (`ToldCost`), also where `ParseBodyUsage` discards a usage without prompt and answer.
4. Settings are compared by pairs of protocols (`SettingsConverted`); efforts and budgets meet at the thresholds of `EffortOf`.

**Conversations.** What an upstream reads is a sequence of pieces; two sequences have the same words, thoughts and media (`Kept`) if their
parts do (`KeptCat` and the lemmas around it), so that most of the work is to say what each loop adds to what was read before it.

1. `DialogInv`: an entry of `history` is the one of `said`, or what `Known` says the client learns of an answer. A step of the model keeps
   it because `ParseAnswer` recovers what was said (`AnswerParsed`) and each builder's answer is read back as that. It gives `AnswersKept`.
2. `TurnInv`: the entries follow one another as clients may send them (`Follows`). It is needed because the parsers and builders rely on
   it: results merged into the message of the user, items of one turn merged into one message.
3. The parsers, by induction on the length of the history: what is parsed is read like the entries, no two
   turns are of one role but results, and each message has a form that the builders expect (`GoodMsg`, `AllParsedWell`).
4. The builders, by induction on the messages parsed (`Converted`): `Anthropic` and `Responses` build what is read like each message; for
   `Chat Completions` the message so far and the attachments that wait (`pendingToolMedia`) are together read as what was parsed (`Chatted`), and
   that a result is never the last of them unflushed keeps the turns whole.
5. What the client knows is read like what was held, but for `Lost` (`HeldAsKnown`). With 3 and 4 it gives `DialogKept` and `TurnsWhole`.
6. `ResultsInPlace` is about two places of a request and cannot be put together from parts as `Kept` is. It is therefore said of an automaton
   that reads one piece after the other (`Takes`): a call waits until its result starts, no call comes after a result while another waits, and
   whatever is neither is read only while none waits. A request it reads to the end with none left waiting is `InPlace` (`RunsInPlace`).
   Automata do compose: `Leads(x, y)` says that `y` may be read wherever `x` may, with the same change. It holds of what each
   builder makes of a message (`AntMessageLeads`, `StandsForResponses`) and, for `Chat Completions`, where the attachments of results
   are held back to the end of their turn, of the messages built and pending together (`Placed`, `StandsForChat`).
7. `PlaceInv`: the automaton reads the history and is left with the open calls waiting. It is needed because ids must be new (those of an answer
   are above all before it) and because nobody but the tools speaks while a call waits. With 6 it gives `ResultsInPlace`.

The loops are recursive functions, and what they compute is proved by induction over sets of numbers (`SetInduction`).

Model-checked only: everything about liveness; `AttachmentsOwned`, which looks from an attachment back to the words before it and
from there to the dialog as it was held, so that neither `Kept` nor `Leads` carries it.

Assumptions a reader should know: `BoundAssumption` takes `max_boost_times` to be at least 1
where boosts are enabled (0, the default, means no bound, and then there is none to prove);
`QuotaKept`, `VerdictIsOneDecision` and `GatewayImplementsQuota` take reads of the usage table to succeed, since the code lets a request pass a
window it could not read. `BilledAsLinesSay` takes `TotalsCoverPrompts`: no line gives a total below a prompt given before it or with it.
`mergeUsage` takes a smaller total as it is (proxy.go:619-647), so that without it the last conjunct of `BilledAsRead` fails; the
streams of `MCStreamCopy` satisfy it (`MCTotals`). `AccountsAssumption` gives texts, settings and usages their types: names and
prices are whole numbers, a usage has no negative count, and an effort is one of the eight that clients of OpenAI send
(`Efforts`). Where `SettingsKept` says the nearest effort, that is the lowest budget for all but medium and high towards Anthropic, and one of three for hy3.

## 5. What the runs found

- `one_overshoot`: README.md:281 says concurrent requests pass the limit by one request's amount at
  most. All requests admitted before the first is charged pass: of a limit of 3, with 2 used, two requests of 2 make 6.
- `follow_ups`: continuation.go:14-15 says that a model which only announces what it will do is asked to go on three times
  per turn of the user, so that there is no endless loop. The announcements are counted as messages of the parsed request, and the Responses parser has merged
  them into one (parse_request.go:216-226). That one counts once, or not at all when it has more than 500 characters
  (continuation.go:54), and the length test before it is on the current answer only: it goes on for ever.
- `stream_promises`, one Anthropic stream read by a Responses client:
  - `ToolsIntact`: README.md:219 says that tools stay intact in conversion. An Anthropic tool_use block starts
    with the placeholder `{}` for its arguments; `readAnthropicLine` passes it on in front of
    the real ones (stream.go:360-361).
  - `StartCloses`: stream.go:994 says that an active block is closed before a new one is opened. The condition in the next line excepts one
    of the same kind: where an Anthropic upstream leaves `content_block_stop` out, a Responses client has two items open, the first
    is never closed and is missing from `response.completed`.
- `request_promises`, one request to an Anthropic upstream:
  - `FirstProviderServes`: README.md:64 and 93 say that a model without a provider goes to the first, and of what is there twice the first counts.
    Where the section `providers` itself is there twice, values come from the first and the order from the last (config.go:329, 701).
    The order of the models listed has the same source, so that models are listed that cannot be asked for.
  - `CachedBesidesInput`: README.md:204 and 242 say that the real tokens are charged. Anthropic's `input_tokens` leaves out cached tokens, which
    `CostUnits` subtracts nevertheless (meter.go:34-37): of 2 input tokens, 2 read from the cache and 1 written to it, only the
    latter three are charged.
  - `ChoiceReachesAnthropic`: README.md:219 and regression_test.go:171 say that the choice of tools is not lost. `buildAnthropicRequest` writes none, nor
    the choice of parallel calls, though `parseAnthropicRequest` reads both (parse_request.go:379-402).
  - `NoneIsNone`: build_request.go:202 names `none` among the efforts clients send. Towards Anthropic every effort but high and medium becomes a
    budget of 2000 (build_request.go:634-645), this one included, so that the upstream thinks.

Seen while modelling, without a run of their own.

*Admission and boosts.* boost.go:15-16 says a boost state goes when its cycle, configuration or limit
changes; it also goes when a request or report with the *previous* snapshot looks at it (boost.go:42), after the new
cycle's boost was granted. A shutdown loses the charges of requests in flight (main.go:83-96 against
README.md:14). README.md:243 and balance.go:29 describe windows
with an end; sums have none, and admission does not compare the time with the reset, so that
until the next synchronisation charges after a reset count in the window that has ended.

*Configuration.* README.md:223 and 227 say that a changed file takes effect without a restart, and one that is back is loaded. A poll hashes
the file and `Reload` reads it again (manager.go:97): a content hashed by a poll, gone when `Reload` read the file and back before the next poll
is not looked at again. `SeenIsLoaded` and `SettledIsLoaded` except it as `torn`. A file replaced between `Load` and `Watch` is hashed and not loaded (main.go:46, manager.go:64-69), which the comment
at manager.go:61-63 excludes only for what is written after `Watch` has returned. A window that ends at "24:00" is ignored without a word.

*Charges.* README.md:242 says that the real tokens are charged: a usage with a total only is charged nothing (meter.go:159-162), nor is one
with cached tokens only. `ChargeExact` says so.

*Streams.* proxy.go:530-531 says heartbeats never change the content; the empty line after the comment
(proxy.go:557) dispatches an event whose lines have not all been sent, so that a client of a copied stream may lose its name. In the
stream converter, a tool call whose id comes after
its first fragment becomes two calls, which the comment at stream.go:123-124 means to avoid;
fragments of parallel calls go to the latest one; a usage reported before the finish is
taken for the final one (stream.go:1054-1055); `response.incomplete` says nothing to the reader,
so that a truncated answer ends without finish reason and usage; a text of an Anthropic
upstream ends by `content_block_stop`, before it is known what follows, so that its phase
is always `final_answer` and no follow-up is asked for. The preconditions of `ContentKept`,
`UsageKept`, `AnswerEndsOnce` and `PhaseAccurate` leave these streams out.

*Whole answers and requests.* A Chat Completions client gets no text of an answer with calls (response.go:304-305), which
`Lost` in `ConversationProps` provides for. Responses clients are told `completed` however an answer ended.
A result of an Anthropic client that has no text reaches a Chat Completions upstream as JSON text, and results from OpenAI clients
reach Anthropic under the role `tool` (build_request.go:664-671), with text placed ahead of thinking. Towards Anthropic, efforts that are neither high nor medium
become a budget of 2000, xhigh and max included, and the default limit of 4096 is
below the budgets of 8000 and 32000. The properties state what is kept besides this.

## 6. Not modelled, assumptions

- The snapshot's reading and the request's time stamp are one step of `Gateway`; in the
  code they are two statements a few microseconds apart.
- A failed INSERT loses its charge (`RecordUsage`, `Waive`). That nothing is ever lost is not a property of this code.
- Refusals that keep no state (size, body, model, price) are one action without a guard; the rate
  limiter is a module of its own.
- The process may end at any moment, but `Restart` is one step: nothing happens while it is down except that the next step may be `Tick`.
- Media are of one kind, images; audio in Anthropic results is dropped for Responses. Tool declarations, names, sampling
  parameters (`temperature`, `top_p`, `stop`) and `web_search` are copied or dropped field by field and not modelled. An upstream answers with one choice.
- Fractional prices and their rounding, comments and syntax of the configuration file, audio and modality fields.
- Only successful reloads and fetches are steps of `Gateway`; how they come about is the
  subject of `ConfigWatch` and `BalanceSync`.
- The schema of the usage table, SQL and pragmas; JSON; HTTP headers; logs; the web page; the audit
  mode; installation. `muse_compat.go` and `model_override.go` edit JSON texts byte by
  byte, which is the detail a model leaves out.
- The lower case and the trimming of efforts; efforts other than the eight of `Efforts`.
- The balance service's resets only move forward (`NextReset`): one that moved back would open a window again.
- Limits of 0, which mean none, are in no run; the theorems are for any limits. `quota` has no reloads and no
  reports: the theorems have them all.
- Liveness is checked by TLC and not proved.

## 7. Plan

Done: the core (`Gateway`, `StreamCopy`, `ConfigWatch`, `BalanceSync`), the stream converter, the rate limiter, the abstract
specification with its refinement, restarts, the conversion of whole requests and answers, metering and
the configuration file. What is left, in this order:

1. `AttachmentsOwned` as a theorem: an automaton as for `ResultsInPlace`, which knows the last words read and whose attachments may follow.
2. Several answers of one client in parallel over `StreamCopy` and `StreamConvert` composed, with what a converter writes kept in full.
3. The shapes of requests that no client of ours writes but the parsers accept: results inside messages of Responses, system messages in the
   middle of a dialog, several choices.
