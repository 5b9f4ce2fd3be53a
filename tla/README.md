# Verification of the latticelm gateway

latticelm is a Go gateway that offers one API (Open Responses) in front of
OpenAI, Anthropic, Google and compatible LLM providers. This directory holds TLA+
models of its concurrent and failure-prone parts, the TLC runs that check them
and the TLAPS proofs about them.

- Sections 1 and 2: what the system consists of, and which module models what.
- Section 3: the runs, their bounds, and the fairness they assume.
- Section 4: what is proved, from which assumptions and along which argument.
- Section 5: what is only model-checked, and why.
- Section 6: findings, and behaviours worth knowing.
- Section 7: what is not modelled.
- Section 8: how to run it, and the plan.

Paths are relative to the repository. `PROJECT.json` holds the same information
for tools: for every definition the lines it models, for every property a faulty
variant of a definition that violates it, and the list of hazards.

## 1. Inventory

| Component | Code | State | Operations | Talks to |
|---|---|---|---|---|
| Streaming pipeline | `internal/server/server.go`, `internal/observability/provider_wrapper.go`, `internal/providers/` | four goroutines, five channels, the request's context | stream deltas, report the error, close | breaker, client, upstream |
| SSE event stream | `internal/server/server.go` | output indexes, message builder, tool calls in progress | one event per delta, final events | client |
| Request handler | `internal/server/server.go` | per request: history, replay state | create, continue, get, delete a response | registry, conversation store, limiter, usage store |
| Conversation store and API | `internal/conversation/` | rows with owner, messages, replay state, expiry | create, get, delete, cleanup, paged list | handler, SQL database |
| Circuit breaker | `internal/providers/circuitbreaker.go` and gobreaker | state, generation, counts, expiry | `Allow`, `done` | pipeline |
| Rate limiter | `internal/ratelimit/` and Redis | token bucket, slot counter with TTL, daily quota | allow, acquire, release, check, record | handler, Redis |
| Usage store | `internal/usage/store.go` | channel, batch, rows | `Record`, flush, `Close` | handlers, PostgreSQL, shutdown |
| Signing keys | `internal/auth/auth.go` | key cache, its age, cooldown, retry interval | validate, refresh on demand, forced and periodic | identity provider |
| Login and sessions | `internal/auth/oidc_client.go`, `internal/ui/handlers.go`, session stores | the browser's cookies, sessions in memory or Redis | login, callback, token login, logout, session lookup | browser, identity provider, users |
| Users and API keys | `internal/users/`, `internal/apikeys/` | rows | admin operations, key creation and revocation, authentication by key | login, SQL database |
| Configuration and hot reload | `internal/config/`, `internal/providers/providers.go`, `cmd/gateway/main.go` | tables, each pod's registry | migrate, seed, edit, poll, `Swap` | every request, breakers |
| Provider converters | `internal/providers/{openai,anthropic,google}` | per stream: blocks and calls in progress | decode upstream events, encode stored history | upstream, pipeline |
| Observability, UI, middleware | `internal/observability`, `internal/ui`, `internal/logger` | (almost) none | count, serve | |

How they interact. A request passes authentication and the rate limiter (Redis
commands, each atomic on its own), is given its history by the conversation
store, a provider by the registry, and is answered by that provider's goroutine
through the breaker's and the instrumenting goroutine. After the answer the
handler stores the conversation and puts a usage event in the channel of the
usage store. Independently, a goroutine polls the configuration tables and swaps
the registry (with new breakers), a goroutine refreshes the signing keys, one
flushes usage, one removes expired conversations, and administrators edit users,
keys and providers, on any number of pods over one database.

What is hard here, and what makes each part correct:

| Component | Hard behaviour | Correctness |
|---|---|---|
| Pipeline | closing order of five channels read with `select`; abandoned streams | a completed response is whole and its stream succeeded; breaker and metrics are told the truth; nobody blocks for ever |
| SSE | text, calls and late names interleave in any order | a client that follows the events knows the completed response |
| Converters | each upstream cuts an answer into events in its own way | streaming and not streaming give the same response; its calls can be sent back |
| Conversations | forks, deletions and expiry while requests run; several providers and owners in one chain; paging over a changing table | a row holds its transcript, and only its owner's; a list misses nothing |
| Breaker | outcomes arrive late; the poll replaces breakers | every call is counted once; open and half-open admit what they may |
| Limiter | lost answers, crashes, TTL against long requests, check before use | limits hold, leaks are temporary |
| Token bucket | clocks disagree, keys expire | no window admits more than burst and refill |
| Usage | full channel, failing inserts, shutdown order | no usage is billed twice or silently lost; shutdown ends |
| Signing keys | rotation, outage, slow fetches, queueing on a mutex | withdrawn keys die within the window; new keys are learnt |
| Login | tabs share cookies, responses overtake each other, sessions and tokens expire apart | a code goes with its verifier; a logout leaves nothing; the latest login counts |
| Accounts | handlers read, compute and write back without transactions | a suspension holds; rights are granted, never acquired; an administrator remains |
| Configuration | pods start, seed, poll and die at any point | operators' rows survive; pods converge to the tables |

## 2. Modules

Each module's header says what it abstracts from. `MC*` modules only define
constants that a `.cfg` cannot write; `*Proofs` modules extend the module they are
about. Three of them are about two models: `StreamPipelineProofs` also extends
`ProviderStreams`, `RateLimiterProofs` also `TokenBucket` and `CircuitBreakerProofs` also
`ConfigReload`, whose names are chosen apart for that. A definition whose comment calls it a faulty variant is used by no
specification: it is what a plausible bug would make of the definition after it.

| Module | Models | State | Actions |
|---|---|---|---|
| `StreamPipeline` | one streaming request, with and without observability | offered deltas, buffered errors, closed channels, a program counter and the locals of each goroutine | a `select` case, send, receive or close each; `ClientDisconnect`, upstream failing or ending |
| `SSEStream` | the stream builders of `handleStreamingResponse` | the handler's locals as a record, with what a client knows from the events sent (observer) | `Receive` of one delta, the ends of the stream, `Fail`, `Complete`, `CallDone`, `Completed` |
| `ProviderStreams` | the loops of the three `GenerateStream`, composed with `SSEStream`; what `Generate` returns; the calls of a stored history | the upstream's answer in blocks, deltas to send, replay blocks | one event or chunk of each upstream, `Deliver`, the handler's actions |
| `Conversations` | `handleResponses` from lookup to store, reads, deletes and the list | per request phase, owner, predecessor, provider, messages, replay index, and what was said in its conversation (observer); the table, newest row first; a reader of the list | `FirstTurn`, `FollowUp`, answers, `Create`, the two delete handlers, `cleanup`, `StartListing`, `NextPage` |
| `CircuitBreaker` | `CircuitBreakerProvider` over gobreaker (external), and `Swap` | gobreaker's counts, ticks to expiry, what is expected of each call | `Allow`, `Reject`, the outcomes of `done`, `Panic`, `Swap`, `Tick` |
| `RateLimiter` | `Middleware.Handler` over the slot counter and the quota | per request program counter, counter with TTL, tokens used today | one Redis command each, lost answers, crash, expiry, midnight |
| `TokenBucket` | `tokenBucketScript` | clock, bucket fields, TTL | `AllowRequest`, `RefuseRequest`, `BucketTick`, start of an observation window |
| `UsageStore` | `Record`, `flushLoop`, `insertBatch`, `Close`, shutdown in `main` | place of each event, progress of the goroutine and of `main` | one per case of the selects and per stage of the shutdown |
| `SigningKeys` | `getKey`, the refreshes, `periodicRefresh` | published keys, cache, ages, queue on `refreshMu`, fetches in flight | one per stretch between locks and fetches; `Publish`, `Withdraw`, `Tick` |
| `UsageLedger` | what the usage store promises (abstract specification) | per event open, declined, pending or settled; how often billed | `Accept`, `Decline`, `Bill`, `Lose`, `GiveUp`, `Close` |
| `Accounts` | OIDC callback, `users/api.go`, `apikeys/api.go`, authentication by key | rows, sessions, active keys, each handler's copy of the row | one SQL statement each |
| `BrowserSessions` | login, callback, token login, logout, session store, and whom a request is taken for | the browser's cookies, what each tab waits for and the `Set-Cookie` headers of its response, sessions, expiry, codes | sending a request, handling it, its response arriving, each a step; expiries |
| `ConfigReload` | `config/store.go`, `loadConfig`, the poll, admin edits | tables, table lock, each pod's progress and registry | one statement or transaction each; `Crash`, `Restart` |

Conventions. A Go `select` with several ready cases is a disjunction. A blocked
send on an unbuffered channel is an *offer* that the receiver takes; the sender
notices in a step of its own. Time, where it matters, is counted in ticks and kept
as an age or a remaining time, so that state spaces stay finite without a bound
on the length of behaviours. Variables marked *observer* are read by no action
of the program; they let a property refer to the past. External code (gobreaker,
Redis, PostgreSQL, the identity provider) is modelled as the repository uses it and
marked `external` in the map.

The modules are linked by what they take from each other. `StreamPipeline` admits
or refuses a stream at will, where `CircuitBreaker` says which; `SlotReturned`
of the first is what justifies the fairness of the second (every admitted call
reports, unless its provider panics in `Generate`). `ServeUnrecorded`, `AcquireFailsOpen` and the like let the limiter see any
outcome of the pipeline. `ConfigReload` says when a registry is replaced, and
`CircuitBreaker!Swap` what this means to a breaker. `ProviderStreams` is the
composition of the decoders with the handler of `SSEStream`: every delta the
handler sees is one that an upstream's events can produce. `UsageStore` implements
`UsageLedger` (`INSTANCE UsageLedger WITH`): pending is what is in the channel or
in the batch, settled what has a row or was in a failed insert.

## 3. Runs

Numbers of states are distinct states; every run ends within three minutes with two
workers.

| Run | States | Bounds | Shows |
|---|---|---|---|
| `pipeline` | 85 488 | 3 deltas | see below |
| `pipeline_lost_error` | violation | 1 delta | finding 1 |
| `limiter` | 750 421 | 4 requests, limit 2, quota 2, TTL 2 | `PositiveCountExpires`, `ConcurrencyBounded`, `QuotaOvershootBounded`, `LockoutEnds` |
| `token_bucket` | 21 474 | burst of 2 requests, rate 1/2, skew 2, 12 ticks | `RateBounded` |
| `breaker` | 41 976 | 4 calls, 2 probes, trip at 3 calls and 1/2 | `CountsConsistent`, `HalfOpenBounded`, `TimeoutKeptUntilReload`, `ProbeLimitIsTemporary` |
| `usage` | 27 578 | 4 events, channel 2, batch 2 | `ExactlyOnePlace`, `GracefulCloseFlushes`, `AcceptedIsFlushed`, `ImplementsLedger` |
| `sse_stream` | 1 822 555 | 5 events of Anthropic, 2 chunks of Google, 3 of OpenAI | `ClientFollows`, `ToolChoiceRespected`, `StreamedAsGenerated`, `CallsSentBack` |
| `conversations` | 1 010 238 | 3 requests, 2 providers, 1 user under 2 tenants and 1 administrator, pages of 1 row | `TranscriptKept`, `HistoryStaysWithOwner`, `ContinuedAnswerConvertible`, `ListingMissesNothing` |
| `accounts` | 1 268 540 | 3 identities, 2 handlers at a time, 5 requests, limit of 1 key | `BarredUntilReactivated`, `RightsAreGranted`, `LastAdminKept`, `KeyLimitOvershoot` |
| `browser_sessions` | 2 044 817 | 2 users, 2 tabs, 2 logins | `CodeMatchesVerifier`, `LogoutLeavesNothing`, `LatestLoginWins` |
| `signing_keys` | 670 735 | 2 keys, 2 requests, 2 rotations | `WithdrawnKeyRejected`, `KeysConverge` |
| `config_reload` | 253 189 | 2 pods, 2 providers, 1 model, 3 edits, 2 crashes | `RowsSurviveSeeding`, `PodsConverge` |

**pipeline.** Safety: without observability no error is missed
(`DirectErrorNotMissed`), a completed answer has all the deltas the upstream sent
(`CompletedAnswerIsWhole`), the breaker counts a success only for a finished and
delivered stream (`SuccessOnlyIfDelivered`), no error send can block or panic
(`ErrorSendNeverBlocks`), and the metrics never say something else than the
client was told (`MetricsAgreeWithClient`). Liveness: the breaker's slot comes
back once the handler has returned (`SlotReturned`), a disconnect ends the handler
(`DisconnectEndsHandler`), a completed response has its usage recorded even if
storing it fails, and every stream ends up in the metrics but for one case, the
goroutine that is left with a delta (`StreamIsAccounted`; section 6). Three deltas
put one delta in every goroutine's hands at once. *Fairness*: weak fairness of
each goroutine's own steps, because Go runs ready goroutines; none of the
upstream's chunks, ends or failures, nor of the client: an upstream may stall for
ever. The context of a request is cancelled once its handler returns
(`net/http`), hence `WF(RequestEnd)`.

**limiter.** Four requests against a limit of two: two can outlive the TTL while two
others are admitted in their place, and their releases, which the new counter did not
expect, let in no more than that. `used` is bounded by refusing arrivals once more
than `UsedBound` tokens were counted, the drift below zero by `DriftBound`. Two
properties exclude histories in which a Redis call failed or a gateway crashed
(`past = "troubled"`): the code gives up the limits in those cases on purpose (it
fails open). `ConcurrencyBounded` then allows as many requests above the limit as held a slot
when the key last expired (observer `late`), none in histories without such a one;
`QuotaOvershootBounded` is about the latter (`past = "clean"`). The other properties hold
for every history. *Fairness*: time passes (`WF(Tick)`). Nothing is assumed of requests,
which may hang: the expiry alone ends a lockout.

**token_bucket.** An observation window starts at any moment; `RateBounded` is
about every window. The clock's bound lets a key expire, with idle time to spare,
between two bursts. No fairness.

**breaker.** With four calls the breaker can be tripped, probed and still have an
outcome of an earlier generation outstanding. The counts of one generation
are bounded by `ReqBound`. A provider may panic in `Generate`, whose `done` is not
deferred: the call then never reports and keeps its slot (`Panic`). A half-open breaker at its
limit of probes leaves that state, or one of the calls in flight has been lost this
way (`ProbeLimitIsTemporary`; section 6). *Fairness*: `WF(Done)`: every other admitted call
ends, which for streams is `SlotReturned`.

**usage.** Four events overflow a channel of two and leave a partial batch. The
order within the channel does not matter to anything checked and is left out.
`ImplementsLedger` compares every step with `UsageLedger`: an event is billed at most
once, all events of an insert share its fate, and nothing is pending after a
`Close` in time. *Fairness*: handlers end, the flush goroutine runs (an insert has a limit of
10 s), `main` goes through its shutdown.

**sse_stream.** Five events of Anthropic are a text or thinking block and a call with
a fragment of arguments, or two calls; two chunks of Google have calls at the same and at
different part positions; three of OpenAI have two calls with late names and
several entries in a chunk. `ClientFollows` is about a model of a client (`Follow`) that
is told each event as it is sent (`SendSSE`): it keeps items by output index, adds
fragments to them, and compares with `done` events and `response.completed`. The observer
`view` holds what it knows, and `confused` that an event surprised it. `StreamedAsGenerated` compares
the response with what `Generate` makes of the same answer, and `CallsSentBack`
looks at the request that the next turn sends to any of the three providers. Both
leave out the calls that are not `Clear`: the cases in which they would fail are
named there and in section 6.

**conversations.** Three requests form every chain and fork of depth three. Two
providers, one of which returns native replay messages, are enough for all cases
of `applyReplayState`. `TranscriptKept` compares a row with `said`, to which each turn
appends its input and its answer. Stored rows push others to later pages while a list is read; with
pages of one row, three requests make that happen at each place. The two tenants
are interchangeable, which is used as symmetry (only safety is checked). Nothing
forces a request to arrive or a handler to go on, so a behaviour may end:
`CHECK_DEADLOCK FALSE`.

**accounts.** Two handlers at a time is where each read-compute-write race
appears; five requests let a suspension be written, raced, and tested by a login or
a request with a key. The workers are symmetric (only safety is checked). Identities
`root` and `ann` may claim the configured admin address; the identity provider has no
address for `bob`. `LastAdminKept` names all ways in
which the last administrator can be lost, `overtaken` being the observer of
handlers in whose pause another one wrote: there is no other way.

**browser_sessions.** Two logins, of one or two users and in one tab or two, are
enough to overwrite each cookie and session by another login's; each response can
arrive after those of later requests. Redis may fail when a session is
stored, read or deleted; cookies, sessions and tokens expire at any time. A read that
fails is an absent session to the handlers: `LogoutLeavesNothing` holds for such
reads, too, while `LatestLoginWins` needs a store that can be read (section 6). Nobody has to log
in again after that: `CHECK_DEADLOCK FALSE`. No fairness.

**signing_keys.** Withdrawal of one key (`Watched`) is timed: keys are alike.
Ticks are coarse, but their order relation to the stale window, the cooldown and
the retry intervals is that of the code's defaults. The two requests' fetches fit into
the stale window, so that `MaxAge` is that window; for longer queues the bound grows
with them (section 6), which the theorem covers. *Fairness*: time passes,
timers fire, goroutines run; the provider answers the periodic refresh again and again and
with usable keys (`SF`), without which no cache could catch up. `refreshMu` is
a FIFO queue: Go's mutex hands over in order once a waiter starves.

**config_reload.** Two pods race in migration, seeding and polling; three
edits let an administrator save, re-point and delete. *Fairness*: `WF(PodStep)`: a pod
that exits is restarted (the deployment's restart policy); `SF(Poll)`: polls whose
queries fail are retried every 30 s and succeed again and again. After the last
edit, if the tables can be built into a registry, all pods end up serving them.

## 4. Proofs

All theorems are about the specifications the runs check, for all values of the
constants that satisfy the named assumption of the module. The bounds that
keep TLC's state spaces finite (`MaxDeltas`, `UsedBound`, `DriftBound`, `ReqBound`,
`MaxClock`) are constants, too: the theorems hold for every value of them.

**`StreamPipelineProofs`** (`PipelineAssumption`: the number of deltas is a
natural number). `TypeCorrect`, `VerdictSound`, `ErrorSendsSafe`,
`DirectCompletion`, `AnswerWhole`, `MetricsTruthful`. That a success verdict means a delivered stream is not
inductive: the verdict is given by the breaker goroutine on nothing but a closed
channel. `VerdictInv` supplies why that is enough, one part per goroutine.
`ProviderInv`: the provider closes its error channel only with an error in
it or after its Done delta was taken. `BreakerInv`: while the breaker goroutine
waits, an exited provider without a pending error has finished. `InstrInv`: the
instrumenting goroutine uses its error channel once, before it closes it.
`DirectInv` adds the handler: until it has received an error, a reported one is
still ahead of it. With observability this last part is false, which is finding 1.
The other two hold in both cases. `ChannelInv` keeps the account of the deltas: as
long as the provider has reported no error, what was sent is what the handler
received plus what is offered on the two channels; and it says what a closed
channel tells about its sender. `EndingInv` follows the handler out of its loop:
when it is about to complete without an error, the provider is past its content
deltas, so nothing is in flight any more. `MetricsInv` ties the instrumenting
goroutine's verdict to the errors it passed on: `inFail` exactly when an error is on
its way to the handler or was received, and a handler that completes has left it
behind for good.

The same module proves `EventsFollowed` and `ToolChoiceKept` of `StreamSpec`, the
handler composed with the three upstreams: for streams of any length, with any
number of calls and any fragments. `StreamInv` says how the handler's state and what
its client knows go together, from where the handler stands. `Agree` is its core: the
output indexes `0 .. next - 1` are taken, each by the message or by one call, and
the client's list has at each of them that item with the content the handler
keeps for it. In the loop (`Progress`) all items are in progress; after it
(`Finishing`) those in `left` are, and the others completed. Once `streamRespErr` is set a
call may have an index that was never announced, so that `Agree` is
claimed only as long as it is not: from then on the handler sends
`response.failed` and nothing else, which surprises nobody. The events are dealt with by lemmas on
`Follow` (`FollowAdded`, `FollowDelta`, `FollowDone`) and the operations by one lemma
each (`EnsureProgress`, `StartProgress`, `NameProgress`, `ArgumentsProgress`). For
`response.completed`, `OutputAsBuilt` shows that `buildOrderedStreamOutput` gives the client's
list: with each index below `next` taken once, as many items precede one as its
index says (`CountBelow`).

**`RateLimiterProofs`** (`LimiterAssumption`: finitely many requests, positive
limits). `TypeCorrect`, `LockoutIsTemporary` (from `ExpiryInv`, which holds for
all histories), `SlotsBounded` and `OvershootBounded`. For histories without trouble
`CountInv` says that the counter equals the number of held slots less those that the
last expiry forgot (releases count those, too, and so keep the difference), and that
exactly the requests between acquire and release hold one. `QuotaInv` accounts for usage not
yet recorded: `used + |serving| * MaxTokens <= Quota - 1 + MaxConcurrent * MaxTokens`.
A request enters `serving` only while `used < Quota`, and `CountInv` bounds
how many are there.

For the token bucket (`BucketAssumption`: `Expiry * Rate >= Capacity` as the
script computes it; skew within the 5 s of grace) it proves `BucketTypeCorrect` and
`RateLimitHolds`. `BucketInv` is an amortised argument: what was admitted in the
window plus the bucket's potential (what it could be worth to the caller whose
clock is furthest ahead) never exceeds burst, refill and skew. Its other
half says that a key expires only when its bucket would be full anyway, so that
a missing key gives nothing away.

**`CircuitBreakerProofs`** (`BreakerAssumption`: finitely many calls, positive
limits). `TypeCorrect`, `CountsSound`, `HalfOpenSafe`, `OpenPeriodKept`. `Sound`
relates counts and calls of one generation: requests = successes + failures +
calls in flight, at most `MaxRequests` of them counted in the half-open state,
and none in flight in the open one. It is proved to survive `currentState`, which every
operation runs first, and then each operation. `OpenInv` ties the remaining
time of an open breaker to the time since it tripped.

For the configuration (`ConstantsAssumption`: what is absent is told apart, and the seed file
passes `Config.Validate`) it proves `SeedingKeepsRows`, for any number of
pods, providers, edits and crashes. `SeedInv`: a pod between `LOCK TABLE` and its
commit holds the lock, and one that goes on to seed has found the table empty, which
nobody can change while the lock is held. No other step of a pod writes rows.

**`UsageStoreProofs`** (`UsageAssumption`: finitely many events, positive
sizes). `TypeCorrect`, `NoDoubleBilling` (`PlaceInv`, inductive together with the
types) and `CloseDrains`, for which `CloseInv` follows the order of shutdown:
handlers end before `done` is closed unless `srv.Shutdown` timed out, the drain
leaves the channel empty, the last insert the batch. `StoreImplementsLedger`
proves the refinement of `UsageLedger` from the same two invariants: a
handler's step is `Accept` or `Decline`, an insert is `Bill` or `Lose` of the whole
batch (or nothing, if it is empty), `srv.Shutdown` timing out is `GiveUp`, the end
of `main` is `Close`, and all other steps leave the ledger as it is. `PlaceInv`
says that what is in the batch was not billed before, `CloseInv` that
nothing is pending when `main` ends.

**`AccountsProofs`** (`AccountsAssumption`: finitely many handlers, at least one
identity, positive key limit; the number of identities is arbitrary).
`TypeCorrect`, `KeyLimit`, `SuspensionHolds`, `RightsHold`, `LastAdminStays`.
`HandlerInv` says of what a handler holds between two statements that it is a whole
row, and that of an existing user unless it is creating one: without it a login
could write back the record of nobody. `KeyLimitOvershoot` is inductive as it
stands; the insertion moves one from the handlers that have counted to the keys.
The other three are action properties, one lemma per action (`BarredStep`,
`PlainStep`, `LastAdminStep`). For the last administrator a handler's row is not
enough: `FreshInv` says that a handler which no write overtook still has the row of
the table, and a count of administrators that is still right. A guarded write
therefore demotes or deletes a user while another administrator is there.

**`BrowserSessionsProofs`** (`LoginAssumption`; any number of tabs, users and
logins). `TypeCorrect`, `CodesMatch`, `LogoutIsFinal`, `LatestWins`. `PairInv`: state
and verifier cookie are set and cleared by the same responses, so that in the
browser and in every request on its way they belong to one login, whichever that
is. Comparing the state with the login of the code is then comparing the
verifier, too. `SessionInv`: the session cookie is that of the latest login or
absent, since each response that grants something replaces or clears it. For the
logout, `QuietInv` follows a logout that was sent after all login responses until its
own response arrives, and `OnceInv` shows that an ended session stays away: sessions
come from codes, a code is used once (`AwayInv`: it is issued to one tab), and
before that its session is unknown to everyone (`Unseen`).

**`ConversationsProofs`** (`ConversationsAssumption`: a principal without a user
is the one of a gateway without authentication, since `auth.New` refuses an empty
issuer). `HistoryInvariant`, `HistoryOwned`, `ContinuedConvertible`, for chains of any
length. That a history is its owner's is not inductive over rows: a request
collects its messages from a row that may be deleted before it is stored itself.
`MessageInv` therefore speaks of the messages of every request. Those of its own
turn are in the neutral form; the others belong to turns whose handlers are through,
which never change their owner (`RowsInv`); and all may be read by the caller.
Ownership is handed down (`OwnsOlder`): who owns a row owns what its owner owned. This
is where the assumption is needed, because a row of nobody vouches for nothing.
`ContinuedInv` then only has to look at the moment in which a follow-up reads the
row. What the sequence operators do to the elements of a sequence is stated in
lemmas of their own (`AppendRange`, `RemoveAtRange`, `HistoryRange` and so on).

`TranscriptsKept` rests on `TranscriptInv`. `Tells(ms, t)` says that the messages end with the
lines of the transcript, in order, and have nothing before them but answers out of
it; it survives appending a turn, putting a referenced item in front and exchanging a message
for its native form. A request has it from when it got its history, its row
for good (`Stored`), together with the place of the answer that the replay state
points to. That row is read by every follow-up, so the invariant is handed down.

`ListingComplete` is about pages cut from a table that changes between them. By
`PlacesTaken` the rows of a list have the places `0 .. n - 1`, so a page is full whenever a row
comes after it. `ListInv`: a row that is still due has at least
`(page - 1) * Limit` rows before it (`DueIn`). New rows come in front and move it back,
never onto a page that was read; rows that are due themselves stand behind these pages, too, and may
be deleted; the other deletions, which could move it forward, are those that the property
excludes (section 6).

**`SigningKeysProofs`** (`ConstantsAssumption`). `RefreshesSerialised`,
`WithdrawnRejected`, for any number of keys, requests and rotations. `StateInv` has
the types, that an answer on its way is younger than the fetch that brings it
(`FetchInv`), and that `refreshMu` is waited for once by each and held by the one that
fetches (`QueueInv`). `WindowInv` is the argument about time. That a key set is within
its window when a request looks into it is checked before the request queues, and
not again; so each place in the queue must be worth one fetch: `WaitInv`
bounds the age of the set by the places that are gone (`Waited`). A
queue without repetitions is no longer than there are requests (`QueueBound`), so
the sum fits into `MaxAge`, the stale window or the fetches of all requests one after
the other, whichever is longer.

In these eight modules types are proved and not checked again by the runs.

## 5. Only model-checked

- Liveness (`SlotReturned`, `DisconnectEndsHandler`, `StreamIsAccounted`,
  `LockoutEnds`, `ProbeLimitIsTemporary`, `AcceptedIsFlushed`, `KeysConverge`,
  `PodsConverge`): fairness and `ENABLED` are out of the prover's
  reach.
- `StreamedAsGenerated` and `CallsSentBack` of `ProviderStreams`: what `Generate` returns
  is a fold over the answer, and calls are picked from the answer and from the replay message with
  `SelectSeq`. Facts about these for every sequence need an induction over
  data that the installed provers cannot do.

All other properties of the runs, invariants and properties of steps, are theorems.

## 6. Findings and behaviours noted

One run shows the code to disagree with what it says of itself.

1. **A failed stream can be reported as completed** (run `pipeline_lost_error`).
   With observability enabled the provider closes `errChan` and `deltaChan` while
   the error is still on its way through the breaker goroutine. If the
   instrumenting goroutine sees `deltaChan` closed first, the `default` case at
   `internal/observability/provider_wrapper.go:191` stops listening for the error;
   metrics say success and the client gets `response.completed`. The comment
   at line 182 says "If an error is already pending, capture it before finishing."
   Without observability this cannot happen (theorem `DirectCompletion`).

Behaviours met while modelling, without a run of their own:

- *A native answer keeps its form.* `internal/api/types.go:237` says replay artifacts
  are for "same-provider follow-up requests", and a test
  (`internal/server/server_test.go:1239`) that they do not reach another provider. This
  holds for the answer that is continued (`ContinuedAnswerConvertible`). But the
  rehydrated history of a second turn at the same provider is also stored
  (`internal/server/server.go:275-277`), so a third turn with another provider is sent
  the first one's thinking blocks, which its converter refuses
  (`internal/providers/openai/convert.go:172`, `internal/providers/google/google.go:418`).
- *Streamed calls that differ from generated ones.* Google's calls of different
  chunks at the same part position are taken for one: arguments are
  concatenated, the second name is lost, and the next turn drops the call because its
  arguments are no JSON object. Of an OpenAI chunk with several `tool_calls` entries only the
  first is forwarded. An Anthropic call without arguments is streamed with `""`,
  where `Generate` returns `{}`, and the next turn drops it, which leaves its
  result without a call.
- *Breakers are forgotten every 30 s.* The config poll replaces each breaker by
  a closed one (`cmd/gateway/main.go:481-501`), also when nothing changed, so an open
  breaker admits calls before `Timeout` has passed (`circuitbreaker.go:30` says
  otherwise). `TimeoutKeptUntilReload` is stated up to the first reload.
- A client that disconnects counts as a failure of its provider: the context's
  error is the stream's error.
- A goroutine of `InstrumentedProvider` that holds a delta when the handler
  returns blocks for ever (`provider_wrapper.go:214`), and its stream is missing from the
  metrics. `StreamIsAccounted` says that this is the only way.
- A provider that panics in `Generate` never reports to the breaker
  (`circuitbreaker.go:100-101`; the server's recovery goes on): in the half-open state its probe
  slot is lost until the next reload.
- After a request has outlived the 300 s TTL, its release can leave the slot
  counter at -1 (the correction to 0 is only reached if the pipeline fails), and one request
  too many is admitted; compare the comment at `internal/ratelimit/backend.go:102`.
  `ConcurrencyBounded` says how many it can be.
- Handlers that outlive `srv.Shutdown` leave usage events in the channel behind.
- One row that PostgreSQL refuses costs the whole batch of usage events.
- GET of a response whose synchronous answer was empty returns the previous
  turn's answer, and a follow-up sent right after a streamed response completes
  may find no row yet (404).
- A login with a changed e-mail or name, or a PATCH, writes back role and status as
  it read them, and can undo a suspension written in between.
- The last administrator can be lost by a PATCH of the status, by a bulk update,
  or by a write that another one overtook. `is_admin` is
  kept in the session: a demoted administrator keeps the rights until it ends.
- `DELETE /v1/responses/{id}` does not compare owners, while GET does. The
  conversation API compares issuer and subject only, `OwnsConversation` the tenant as
  well, though only if the conversation has one (the comment at
  `internal/auth/principal.go:103` says "non-empty on either side").
- Lists are paged by OFFSET: when a row that was listed already, or a new one, is deleted
  between two pages, another row appears on neither.
- The second tab's login overwrites the state cookie; the first tab's callback is then
  answered "Invalid state". The callback does not clear a `lattice_session` cookie: once
  its session is gone, or Redis cannot be read, the identity of an older token
  login shows through. A session lives 24 h and may outlive its ID token: the UI shows
  a user while the API answers 401. A session nobody logs out of stays until its TTL. The
  temporary cookies are cleared with `Secure` also where they were set without.
- One provider row that `buildProvider` refuses (`createProvider` only checks
  that name and type are given) makes every reload fail on all pods, and every
  start. Deleting a provider that a model still names leaves running pods up, but a
  pod that restarts fails `Config.Validate`. After the last provider is deleted,
  the next start seeds again and overwrites models of the same name.
- A request may take its provider and its `provider_model_id` from two different
  registries when a `Swap` comes between the two lookups.
- A request that waits for `refreshMu` behind several failing forced refreshes may
  accept a key from a set that became older than `StaleTTL` meanwhile, by up to the
  fetches of all queued requests (`MaxAge`, `WithdrawnRejected`). The periodic refresh does not take the mutex and may put
  an older answer over a newer one, until its next round. A token with a
  new key is refused during the cooldown of 30 s after a refresh.

## 7. Not modelled

- `HandleLogout` and `HandleUser` of the OIDC client (no route leads to them),
  `HandleDebugClaims`, the mode without authentication; identity and proxy headers
  of the limiter: stateless parsing.
- Request validation, `InheritMissingContext`, the field by field conversions of
  requests and answers: data, covered by the repository's tests. `Conversations`
  keeps of them that a content block of a foreign type is refused, `ProviderStreams`
  which calls of a history are sent.
- Usage queries, lists of users and keys, the filters of the conversation list:
  read-only SQL. `Append` of the conversation store, which no handler calls.
- Configuration files, environment and encryption of keys: pure functions. The
  migrations of the other stores repeat the loop `ConfigReload` models.
- Metrics, tracing, logging, health, middleware, static files, the browser UI,
  deployment: no state of their own that another part depends on.
- Requests that are routed while a registry is swapped (section 6 has what can
  happen to one): the registry's reads are single lookups.

## 8. Running it, and the plan

`tlc -config Pipeline.cfg StreamPipeline` (module and configuration of each run
are in `PROJECT.json`); `tlapm StreamPipelineProofs.tla` and likewise for the
other seven `*Proofs` modules.

The modules were built in the order of what a fault would cost a client: pipeline,
limiter, breaker and usage first, with their proofs, then the events, conversations,
accounts, keys and configuration, then the upstreams' decoders, the logins of a
browser and the ledger. Next:

1. *Proofs.* `StreamedAsGenerated` and `CallsSentBack`, once the provers can do the
   inductions they need; everything else that is a safety property is proved.
2. *Abstract specifications.* The registry as an eventually consistent copy of the
   tables.
3. *Model.* Requests routed while a registry is swapped (composing `ConfigReload`
   and `CircuitBreaker`); request validation and `InheritMissingContext` as pure
   operators, if they grow.
