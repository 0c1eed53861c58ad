# A verification project for menshen

menshen is a gateway between programs that talk to large language models and the
providers that serve them. It picks a provider, fails over to others, replays
cached answers, and keeps an audit log of every exchange in SQLite. This directory
models that program in TLA+, checks the models with TLC and proves theorems about
them with TLAPS. Paths are relative to the repository; every definition that models
code is mapped to its lines in `PROJECT.json`.

## 1. The system

| Component | Code | State it keeps | Operations |
| --- | --- | --- | --- |
| Exchange store | `internal/storage.go` | a bounded channel, the flag `stopping`, the channel `closed`, five tables of one SQLite file | `SaveExchange`, `worker`, `saveExchangeSync`, `retentionWorker`, `Cleanup`, `Close` |
| Process lifecycle | `main.go` | two HTTP servers, signal and error channels, one shutdown deadline | `run`: start, stop on a signal or an error, close |
| Failover | `internal/proxy.go` 230-250, 770-924 | per request: attempts, the response kept, the log record | `forwardWithFailover`, `shouldFailover`, `applyLogMetadata`, `respondBadGateway` |
| Streaming proxy, SSE auditors | `internal/proxy.go` 462-573, `protocol_*.go` | per request: capture buffer, the auditor's unfinished line, token counts, how the stream ended | `proxyStream`, `Write`, `IsComplete`, `Usage` |
| Request handler, response cache | `internal/proxy.go` 308-460, 575-613, `cache.go`, `FindCachedResponse` | per request: provider, cache key, log records; shared: the database | `ServeAPIHTTP`, `serveCachedResponse`, `canUseCache`, `canStoreCachedResponse` |
| Normalisation and cache key | `internal/normalize.go` | none | `analyzeRequestCommon`, `decodeJSONObject`, `buildEffectiveBody`, `buildCacheKeyWithFilter`, `writeCanonicalJSON` |
| Routing | `internal/proxy.go` 96-225 | active providers in order, total weight | `buildActiveProviders`, `pickProvider*`, `resolveProvider` |
| Headers and URLs | `internal/proxy.go` 926-1084 | none | which headers pass to and from the upstream |
| Passthrough | `internal/proxy.go` 746-766 | none | `proxyPassthrough` |
| Configuration, command line | `internal/config.go`, `main.go` | the immutable `Config` | load, defaults, validation |
| Reports and dashboard | `internal/storage.go` 318-581, `internal/web` | none | read-only queries and pages |

How they interact. Each request has a goroutine of its own. A handler reads the
database directly when it looks for a cached answer, and writes it only through
`SaveExchange`, which puts the exchange on the channel or drops it. One `worker`
goroutine takes exchanges off the channel and commits each in a transaction; one
`retentionWorker` deletes what is too old. `run` starts all of them and closes the
store when the servers have stopped, or at once when a listener failed. The cache
has no storage of its own: it is the audit log, read by `cache_key`.

What is hard about it:

- `Close` runs beside handlers that still call `SaveExchange`, and `run` decides
  when that can be the case;
- an exchange spans up to five tables, and an INSERT or the COMMIT may fail, the
  process may die, and the retention deletes in between;
- nobody waits for the worker, so a lookup sees an older log than its handler knows;
- after a failover the provider, the model, the cache key and the logged body must
  all be those of the answer, while the rejected responses must be closed;
- the cache key is made of decoded values and the body that is sent of raw text, and
  both are patched for the provider;
- credentials of the client, of the gateway and of the provider meet in two headers;
- a stream is cut into chunks anywhere and ends in many ways, and only one that was
  copied whole and ended with its marker may be cached;
- a cache hit is logged as a new exchange that looks like an answer.

`PROJECT.json` lists these hazards one by one, each with its line and the properties
that would notice.

## 2. The modules

    AuditLog            what the store promises (abstract)
      ^      ^
      |      |  uses it as its store
      |      Gateway        ServeAPIHTTP and the cache, many requests
      |  implements
    Storage             channel, worker, retention, Close
      ^      ^
      |      | extends
      |      Reports        the queries of the dashboard
      | extends
    Lifecycle           main.run around the store
    Selection           the loop that picks providers out of a list
      ^      ^
      |      Failover   one request, many providers
    Dispatch            configuration, choice of the provider, URL and headers
    CacheKey            the body of a request and its cache key
    Stream              one streamed response

`Dispatch`, `CacheKey`, `Failover` and `Stream` refine steps of `Gateway`: `Dispatch` what comes before `Arrive` and
whom the attempts go to, `CacheKey` the operators `Effective` and `KeyOf`, `Failover`
and `Stream` the steps inside `Answer`. They are related to `Gateway` by these
correspondences and not by a refinement mapping: each looks at one request in a detail
that `Gateway` chooses freely.

**AuditLog** has four variables: what is pending, durable, reported lost, and whether
the log is open. It says when an exchange may move between them. `Storage` is shown
to implement it, `Gateway` is built on it.

**Storage.** `queue`, `task` and `txRows` are the channel, the exchange the worker
holds and the rows of its open transaction; `db` maps each table to the exchanges
that have a row in it. A handler is a small machine (`caller`) because the check of
`stopping` and the send are two steps with room for `Close` between them. `Close` and
the retention goroutine have a step for each point another goroutine can observe.
`Insert` adds the rows table by table and may fail at each; `Crash` drops everything
that is not committed and opens the database again. Rows are sets: contents do not
matter here.

**Lifecycle** extends `Storage` with `phase`, `deadline`, `failed` and `down` and
restricts each store action by what `main.go` lets happen when: `Close` is called by
`run` only, no handler starts on a server that is down, nothing runs after `exit`.

**Failover** is one non-stream request. `att` records the attempts with provider,
metadata and outcome; `lastHTTP` and `lastErr` are the variables of the code as
indices into it; `open` is the set of attempts whose body is still open and `expired`
those whose client timer has fired. The status codes are abstracted to the classes
`shouldFailover` distinguishes.

**Stream** is one streamed response, its chunks, the auditor and the capture. A line
of an event has two symbols so that a chunk can end inside it, and JSON is abstracted
to the kind of the line: text, usage, later usage, end marker. Both protocols are
instances of the same machine; they differ in which count a line sets. `Write` is the
loop it is in the code: a round cuts the buffer at its first newline and reads the line
before it, until there is no newline left (`CutLine`, `Rounds`). The reference of
`AuditIgnoresChunks` (`Fed`) gets one symbol at a time and has no loop.

**Gateway** is many requests around one log. Lookup, answer, save and reply are steps
of their own, with steps of the store, of the clock, of the retention and a restart in
between. Who answers, with what status, whether the body is whole and whether it is
small enough to cache is chosen freely. A body is named after the request it was
generated for, which is how a property can tell where a replayed answer came from.
A cache key is the record of the fields it stands for; SHA-256 has no collisions.

`cache.enable` is a variable that is fixed at the start: without the cache there are no
keys.

**Reports** adds the read-only queries of the dashboard as operators over the tables of
`Storage`: which tables each joins and how, the time window, grouping, and what comes
of a window without rows. Sums are those of the library over a set of exchanges
(`Hits`, `Tokens`). It has no actions: each query is one SELECT and sees one state. `UsageSummary` of an empty window has no result, since SUM over no rows is NULL,
which `Scan` refuses to put into an `int64`; the handler then answers 500.

**Dispatch** is one request from the configuration file to the upstream. `LoadConfig`
validates and expands the file, `NewGateway` sorts the active providers, `ServeAPIHTTP`
authenticates, resolves a pinned path or draws by weight, and `Failover` goes on to the
next candidate, as it may do or not at any time. Each attempt is recorded with its URL
and its headers. A path is a sequence of slashes and names, a header a sequence of
values. An `int` has the largest value `MaxInt` and wraps around.

**CacheKey** is `normalize.go`. A body is raw: fields in the client's order, possibly
repeated, with the spelling of each number and string. `Decode` gives what
`encoding/json` makes of it, with numbers rounded to `Precision` bits; the key is the
canonical text of the decoded fields, and the body that is sent is put together from
raw text and patches. The state is only the list of what has been analysed, so that
properties can compare requests. `Spellings` are the ways to write a number or a string,
`MaxDepth` is how deep `encoding/json` decodes. Values nest, and what is done to them
is a recursive function on the values up to that depth (`NestedUpto`, `DecodedAs`,
`Canonical`), not a `RECURSIVE` operator, so that it can be proved about.

**Selection** is the loop over `activeProviders` that appends what it likes, as a
recursive function over the iterations: the provers know nothing about the library's
`SelectSeq`.

The MC modules give TLC its instances. The theorems are in one module for each
component, `StorageProofs`, `LifecycleProofs`, `FailoverProofs`, `GatewayProofs`,
`StreamProofs`, `DispatchProofs` and `CacheKeyProofs`; all but `LifecycleProofs` use the
lemmas on induction, lists and sums of `DataProofs`.

## 3. What the runs check

| Run | Bounds | What it shows |
| --- | --- | --- |
| `storage` | 2 exchanges, channel of 1, one crash, clock to 2, retention 1 | `WholeExchanges`: the rows of an exchange are all there or none. `NoSilentLoss`: pending, readable, reported, expired or wiped by a crash. `QuietWhenClosed`: after `Close` nothing is left and nothing runs. `StoreInv`, the invariant of the proofs. `CloseReturns`, `AcceptedIsSettled` under fairness. `ImplementsAuditLog`. `ReportsAgree`: the reports by day, model and provider add up to the summary and to what the log lists, at every moment |
| `lifecycle` | 2 exchanges, one restart, retention 0 | `CleanStop`: without an error no handler is left when the store closes. `TurnedAwayOnlyOnError`: a request is refused only when `run` stops with an error. `SignalEndsProcess`: a signal ends it, whatever handlers do. `KeptForever`: no row is ever deleted |
| `failover` | 3 providers, every order, capability set and outcome | `BodiesReleased`, `BestAnswer` (the last response wins over the last error), `EachProviderOnce`, `AttributedToAnswer` (log and cache key are those of the answer), `RequestEnds` |
| `stream` | 5 bodies of up to 9 symbols, 4 limits, one of them negative, all settings | `AuditIgnoresChunks`: chunking makes no difference to the counts and the marker, against a reference that reads symbol by symbol. `OnlyWholeStreamsCached`, `StoredAsSent`, `StatusTellsOutcome` |
| `gateway` | 2 requests of 8 kinds, 3 providers, cache on and off, one restart | `HitAnswersThisRequest`: the source of a hit was asked the same, as its provider got it. `AnswersAreAudited`: no answer before its exchange was offered |
| `gateway_chain` | 3 requests of one kind, clock to 2, max_age 1, retention 1 | `HitIsFresh`: replaying and logging a hit does not make the answer younger |
| `dispatch` | 18 files with up to 4 providers, 31 paths, 24 sets of headers, `MaxInt` 7 | `WeightsHold`: the draws that select a provider are proportional to its weight, in total and among the capable ones, and a valid file is refused only when the weights exceed an `int`. `RoutedRight`: a pinned request goes to its provider and nowhere else, any other to an active and capable one, with the URL joined right; 503 and 400 only when there is reason. `HeaviestFirst`: the failover order does not depend on the order of the map. `CredentialsFit`: the gateway's token stays, a provider's key replaces the client's, custom headers win |
| `cache_key` | all pairs of 181 requests, floats of 3 bits, values 3 deep | `KeyIgnoresLayout` and `SameKeySameAnswer`: requests share a key exactly when they ask the same, up to float64, against a reference that compares decoded values. `BodySurvives`: the body that is sent says what came, to the last digit, but for the patches. `MetaDescribesSentBody`: key, model and stream flag are those of the body that is sent |
| `cache_collision` | as `cache_key` | violation, see below |
| `close_race` | as `lifecycle`, clock stopped | violation, see below |
| `degradation` | as `failover` | violation, see below |
| `gateway_privacy` | as `gateway` | violation, see below |

Why the bounds are enough to be interesting. A channel of one is full when one handler
has sent, so the second one drops its exchange; with two exchanges one is in a
transaction or committed while the other is sent, and the clock lets the first expire
before the second. A hit needs two requests; a hit on a hit needs three, and with a
max_age of one tick its third request comes when the first answer is too old. Three
providers allow an answer kept, replaced and beaten by a later error. The limit of 4
symbols lies inside the bodies of `stream`, so that a chunk may be skipped and the
next one fit. Four providers of two protocols give two with equal weights, one that can
only be pinned and one of each capability; weights up to 7 with `MaxInt` 7 wrap a total
to a negative and to a positive number, as 2^63 would. With three bits 8 and 9 are the
first integers that round to the same float, as 2^53 and 2^53 + 1 do, and 40 is out of
range; one body nests deeper than the decoder goes. A key relates two requests, so pairs
of requests are enough.

`Symmetry` is used in the runs of `Gateway`, which check no liveness. Deadlock is not
checked where the requests simply run out (`Gateway`, `Dispatch`, `CacheKey`); the other
specifications have a stuttering end state.

Fairness. `Storage` is weakly fair to steps of goroutines that nothing else disables
for ever: the worker, the retention goroutine once it is told, the sends of
handlers and the steps of `Close`. It is not fair to handlers arriving, to failures or
to crashes. `Lifecycle` drops fairness for handlers (a client can keep one busy) and
adds it for the deadline, which is a timer, and for the steps of `run`; Shutdown
returns because of the deadline. `Failover` is fair to the steps of the handler: each
attempt and each read ends because `upstream.timeout` is positive, as in the default
configuration; with 0, no limit, `RequestEnds` is not claimed. `Stream` and `Gateway`
claim no liveness: a client that stops reading blocks a write for as long as it likes.
Nor do `Dispatch` and `CacheKey`, whose steps are calls that return.

### Where code and documents disagree

- `close_race`: `SaveExchange` tests `stopping` and then sends. `Close` may set the
  flag and close the channel in between, and the send panics. The changelog lists
  that as fixed. It takes a listener that fails or a shutdown that reaches its
  deadline; `OnlyErrorsTurnAway` below says that it takes an error.
- `degradation`: the response kept while further providers are tried is read after
  them, and the timer of its own attempt covers the body. When it fires first the
  client gets a 502 where the README promises the last upstream response.
- `gateway_privacy`: with `log_response_body = false` the body of an answer that can
  be cached is stored all the same. The README and the example configuration say the
  option controls persistence and that hits need it.

- `cache_collision`: the design document calls the cache key collision-resistant and the
  requests that share one identical. Numbers go through `float64` before they are
  hashed, so integers above 2^53 that differ, such as two seeds, share a key while
  each is sent upstream with its own digits. Up to that precision `cache_key` shows
  that the key is exact.

Noticed, but not stated as runs: the README lists fewer failover triggers than
`shouldFailover` has; a model override makes the "provider-agnostic" cache of the
README provider-dependent, since the key is built from the overridden model; and
streams of `/responses` have no `[DONE]`, so they are never cached.

## 4. What is proved

TLC checks the instances of section 3; the theorems hold for all values of the
constants: any number of exchanges, requests, providers and attempts, any queue
capacity, any configuration files and headers, any stream and any way to cut it, any
body however deep it nests. Every invariant and every action property of the passing
runs is proved, and so is that the store implements its abstract specification.

| Module | Theorems |
| --- | --- |
| `StorageProofs` | `TypeCorrect`, `Invariance` and from it `ExchangesAreWhole`, `LossIsReported`, `ClosedIsQuiet`; `NothingExpires` for `retention_days = 0`; `Implementation`: the store implements `AuditLog`; `DashboardAddsUp` for the queries of `Reports` |
| `LifecycleProofs` | `RunsStorage`: each step of the process is a step of the store or leaves it alone, which carries the theorems above over; `LifeTypeCorrect`, `StopInvariance`, `StopIsClean`, `OnlyErrorsTurnAway` |
| `FailoverProofs` | `FailoverInvariance` and from it `FailoverTypeCorrect`, `ResponsesAreReleased`, `AnswerIsAttributed`, `AnswerIsBest`, `ProvidersAskedOnce` |
| `GatewayProofs` | `GatewayInvariance` and from it `GatewayTypeCorrect`, `HitsAnswerTheRequest`, `HitsAreFresh`, `AnswersAreLogged`; `GatewayUsesTheLog`: each behaviour is one of `AuditLog` |
| `StreamProofs` | `StreamInvariance` and from it `StreamTypeCorrect`, `ChunksMakeNoDifference`, `OnlyWholeStreams`, `BodiesAreStoredAsSent`, `StatusIsTrue` |
| `DispatchProofs` | `DispatchInvariance` and from it `DispatchTypeCorrect`, `HeaviestAttemptsFirst`, `CredentialsAreKept`, `RequestsAreRouted`, `DrawsAreFair` |
| `CacheKeyProofs` | `CanonicalReadable`: a canonical text has one value; `TypeCorrect`, `LayoutDoesNotMatter`, `KeyTellsTheQuestion`, `BodyIsTheClients`, `MetaIsOfTheSentBody` |

**Store and process.** `WholeExchanges` alone is not inductive: a commit adds the rows
of the open transaction, so the invariant must know that they belong to the one exchange
the worker holds (`OneTask`). `NoSilentLoss` needs that an exchange the store has, or has
reported, is one whose handler is done (`HandedOver`); otherwise an exchange could
come back after it was dropped. `QuietWhenClosed` needs that the worker exits only
with an empty, closed channel (`StopOrder`). `StoreInv` is their conjunction with
`TypeOK`, it is checked by `storage` and proved with one lemma per action.
Refinement then maps `pending` to the worker's exchange followed by the channel:
`Receive` is a stutter, `Commit` is `Persist`, `Rollback` is `Lose`, the cleanup is
`Purge`. `StopInv` adds to it which servers are down in which phase and that no
handler runs on a server that is down.

**Failover.** `BestAnswer` speaks of the end and says nothing of the loop.
`FailoverInv` adds what `lastHTTP` and `lastErr` mean while it runs (`LoopInv`: each
points to the last attempt of its kind, and nothing was good so far), that the i-th
attempt went to the i-th candidate (`InOrder`), and why the loop was left (`ReturnInv`:
with a good answer, or with all candidates asked, or without a client).
`EachProviderOnce` then needs that the list of candidates repeats nobody and has
everybody, which is a fact about the loop of `Selection`.

**Gateway.** `HitAnswersThisRequest` relates a hit to a request that may have failed over
to a provider with another model, was logged, and perhaps lost its provider's record to
the retention since. `GatewayInv` says for every request what its key stands for
(`KeyRight`: an exchange with a key and no source has the key of the body its provider
got, status 200, and its own body or none) and of a hit that the answer it replays is
settled (`ReplayRight`), so that later steps do not touch it. That the store is offered
only exchanges of handlers that are done makes the log stable. Freshness follows because
a lookup takes no replay for an answer. `GatewayUsesTheLog` closes the circle: the gateway
is proved correct over any log that behaves like `AuditLog`, and `Implementation` says
that the store is one.

**Stream.** The heart is that `Write` with its buffer and its loop comes to the state
of a reader that takes one symbol at a time, whatever the chunks: after k rounds the
loop stands where the reader is behind the k-th newline. `StreamInv` adds that the
capture is all of what was delivered unless it is marked truncated, that the marker was
seen only if it is in the text, and what each way to end leaves behind.

**Dispatch.** `DispatchInv` says that the providers are what `LoadConfig` makes of a
valid file, that the active ones are a sorted list of all with weight, and that the
attempts are those the draw and the loop make of them (`Served`, `Attempted`). The
properties follow from it by looking at `Forward`: the headers one by one for
`CredentialsFit`, the names and slashes of `Join` and `Trimmed` for `RoutedRight`. For
`WeightsHold` the draws that pick the i-th candidate are shown to be the interval between
the cumulative weights before and behind it, and its size is counted with a bijection.

**Reports.** The reports group the same exchanges by day, model and provider, and the
report by day also has those without a response. Sums over a set do not depend on the
order in which the fold takes its members, so the sum over a set is the sum over its
groups; grouping loses nothing because every exchange has one label and rows of different
labels differ. That the report by day adds up to the others needs an invariant of the
store: rows are committed together (`WholeExchanges`), so in the database no request is
without its response.

**Cache key.** The state is a list of what `PrepareBody` made of requests (`Inv`); the
work is in the operators. They recurse over JSON values, so it is shown first, by
induction on how deep a value nests, that the functions exist and do on each level what
their definitions say. `KeyTellsTheQuestion` needs that nothing is lost in the text that
is hashed. Injectivity is not inductive: two lists may have the same text although their
items have not, unless the end of an item can be seen. `Readable` is the strengthening:
if a text starts with the texts of two values, whatever follows them, the values are the
same. A list keeps it because its separators tell where an item is over (`ListsRead`), an
object because its keys come in order and once (`ObjectsRead`), and the first token tells
arrays, objects and plain values apart. `LayoutDoesNotMatter` is the converse. Together
they say what `Gateway` takes for granted when it makes a key the record of the fields
it stands for. `BodyIsTheClients` and `MetaIsOfTheSentBody` look at one level: the keys of
the sent body are those that came and those that are patched, and after the patches
nothing is left to patch.

**Induction.** The provers cannot instantiate the library's induction theorems, which
take an operator as parameter. `DataProofs` states induction over a set instead and
derives it from the well-foundedness of `<` on the naturals. With it the recursive
functions of the models (the sums of weights, the loops of `Selection` and of
`Write`, the reference `Fed`, the decoding and the writing of nested values) are proved
about for every length and every depth.

**Assumptions.** The proofs rest on the named assumptions of the modules, which TLC
evaluates in each run:

- `StorageAssumption`, `GatewayAssumption`, `StreamAssumption`, `FailoverAssumption` say
  of which type the constants are and that the markers for "nothing" are none of the
  values. For `NothingExpires` the retention goroutine starts with `StartRetention`,
  which returns at once when `retention_days = 0`.
- `DispatchAssumption`: `Names` lists distinct names, none of them a slash.
- `ReportsAssumption`: token counts are naturals, and a window is never of zero days,
  which `getDays` sees to.
- `CacheKeyAssumption`: `KeyOrder` lists the keys that occur, each once, among them the four
  the code names; depth and precision are positive. The `RequestsAssumption` of `CacheKey`
  says what the fields of a request are. The largest number, the precision and the
  spellings are arbitrary.
- `FilesAssumption`: weights are ints, and the gateway's token is not also the key of a
  provider or a custom header, in which case sending it is what was configured.
- `RequestsAssumption` of `Dispatch`: names in a path are separated, which is what a name is, and a
  client presents the token only in the form and the header the gateway looks for. A
  client that puts it elsewhere sends it upstream itself, and the code does not
  look there.

Writing the proofs showed four things the runs had not. `RoutedRight` had claimed that
only a client's own double slash comes out as one; a base URL may have one as well, which
`TrimRight` leaves unless it is at the end. `CredentialsFit` needs that the token is not
the text of the version header that `WithVersion` adds, hence the first line of
`FilesAssumption`. And `Write` had been modelled by its result, which is what had to be
proved; it is now the loop. `CacheKey` had let the decoder take values of any depth,
while `encoding/json` refuses what nests too deep: such a body is now one that is not
decoded, and is forwarded as it came.

Only model-checked:

- all liveness (`CloseReturns`, `AcceptedIsSettled`, `SignalEndsProcess`, `RequestEnds`),
  which needs ENABLED;
- the four properties of section 3 that the code violates.

## 5. What is not modelled

- The non-stream usage extraction: it decodes one body into token counts and keeps no
  state. `Stream` has the counts of event streams.
- Response headers, queries, escaped paths and `Accept`: they are copied. The copying of
  a passed-through response.
- Command line, defaults and `--gen-config`. The defaults of `LoadConfig` are values of
  constants: a time limit, a retention and the cache are there or not.
- Previews of bodies, the order of rows and the pages of the dashboard; log lines.
- The pool of SQLite connections and its locking: a statement succeeds or fails as a
  whole. The contents of bodies in the database.
- SHA-256 is taken to have no collisions, in `Gateway` and `CacheKey`.
- Installation scripts, the migration and the documents are not part of the program.

## 6. Plan

Done: all modules of section 2, and proofs of all safety properties, of the action
properties and of the refinement. Left, in this order:

1. `Stream` and `Gateway` are related by correspondence only. A specification of one
   exchange that both implement would let `GatewayProofs` rest on `StreamProofs`.
2. The usage extraction of non-stream bodies, if it ever keeps state.
3. Liveness stays with TLC until the prover handles ENABLED.
