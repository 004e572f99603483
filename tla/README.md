# gqlforge in TLA+

gqlforge turns an annotated GraphQL schema into a gateway: a configuration is
read, merged and compiled once, at start-up, into a *blueprint*; from then on
every HTTP request is planned, executed against upstream services, and answered.
Two kinds of code are hard to test in it. One is short and concurrent: executions
shared between requests, calls batched across resolvers, a cache before both, and
subscriptions that live on connections which come and go. The other is sequential
and long, and wrong only for inputs nobody wrote down: plans of queries, keys that
answers are shared under, streams cut anywhere, SQL, merged schemas, values on
their way between JSON, protobuf, PostgreSQL and GraphQL.

This project models both. The concurrent parts are state machines, checked with
TLC, their invariants and refinements proved with TLAPS for any number of
requests, tasks, keys and bounds. The sequential parts are operators, translated
from the code and compared with a definition of what their result should be: by TLC
over bounded inputs, and for the code between a resolver and its upstream by
TLAPS for inputs of any size.

Paths below are relative to the repository's `src/`, unless they start with
`docs/` or `gqlforge-`.

## 1. Inventory

| Part | State | What is hard | What makes it correct | Modules |
|---|---|---|---|---|
| Request deduplication, `core/data_loader/dedupe.rs` | a mutex-protected map: key to a final value or to a weak broadcast sender | leaders dropped at an await, weak pointers that dangle, a send racing a subscribe | one execution per key at a time, no lost wakeup, no leftover value, every call ends | `Dedupe`, `SingleFlight` |
| Resolver evaluation, `core/ir/` | the request's and the process's Dedupe, the response cache | two nested dedupes, a cache that is read, then filled | one upstream read at a time, one value per request, none older than its request | `EvalIo`; `IrEval`, `WorkerHooks`, `Operators` for what an expression asks and yields |
| DataLoader, `core/data_loader/data_loader.rs` | the batch being collected, cache, two switches, timers | several batches at once, callers dropped, the cache changing during a load | no batch without a timer, each caller gets exactly its keys, no stale load | `DataLoader` |
| Operation execution, `core/jit/graphql_executor.rs` | plan cache, constant responses, Dedupe by `OperationId` | three shared structures with three different keys | everybody gets the outcome of their own request | `JitExecutor` |
| Redis Pub/Sub, `cli/redis/listener.rs` | map from channel to sender, sink, driver | subscribing, leaving and reconnecting interleave | no leak, no silent subscriber, reconnection restores all | `RedisListener` |
| Redis Streams, `cli/redis/listener.rs` | `last_id`, own connection | a connection lost between any two steps | no entry skipped or repeated | `RedisReadStream` |
| PostgreSQL listener, `cli/postgres/listener.rs` | map of senders, a client behind a mutex, the driver's connection | the client works only while the driver polls | attached subscribers are LISTENed for, the driver comes back | `PostgresListener` |
| Plans and responses, `core/jit/` | plan, store | skip and include, fragments, lists in lists, plans reused by text | a cached plan serves a request like its own; a response is what every field resolved on its own parent gives | `JitPlan`, `JitInput`, `JitResponse` |
| Upstream requests and batches, `core/http`, `core/graphql`, `core/grpc` | none | what a key leaves out; taking a merged answer apart | what shares a key asks the same; a key gets in a batch what it gets alone | `UpstreamRequest`, `UpstreamBatch` |
| Streams, `core/grpc/stream.rs`, `core/graphql/sse_client.rs` | a byte buffer | input cut anywhere | the same items for every cutting | `StreamDecoder` |
| JavaScript worker, `cli/javascript/`, `core/worker/` | none | a request made of what a script was given back | what crosses unchanged is what was sent | `WorkerHooks` |
| HTTP and REST, `core/http/request_handler.rs`, `core/rest/` | a request's `Cache-Control` | order of endpoints, types of parameters, sums of policies | the right endpoint with the right variables; nothing cached longer than an upstream allows | `RequestHandler` |
| Databases, `core/postgres`, `cli/postgres/pool`, `core/redis`, `cli/redis/client.rs` | none | placeholders with nulls, binary formats, replies by shape | a statement touches what its directive says; a value survives the way through the database | `PostgresQuery`, `PostgresValue`, `SqlSchema`, `RedisCommand` |
| gRPC, `core/grpc`, `core/proto_reader` | descriptor pools | optional, oneof, maps, imports from disk and by reflection | an accepted field is served by its method; what a file imports is found, once | `Protobuf` |
| Configuration, `core/config/` | documents, links, extensions | merging of types by use, links once, transformers that rename | what the merged schema accepts every part accepts | `Configuration`, `ConfigReader`, `FederationMerge`, `Transformers`, `SdlDocument`, `Settings` |
| Blueprint, `core/blueprint/` | definitions | paths through lists, unions, added and omitted fields; one directive's templates, batching and link | an accepted field has a resolver of its type, which asks the client it names; a field is registered as it is declared | `Blueprint`, `Operators` |
| Generator, `core/generator`, `cli/generator` | none | samples that disagree | the generated configuration serves its samples | `ConfigGenerator` |
| Authentication, `core/auth`, `core/ir/access_expr.rs` | key sets of a library | several providers, missing operands | nobody gets through unless asked for | `AccessExpr` |
| N + 1 tracking, `core/config/npo`, `gqlforge-chunk` | caches of paths, shared chunks | cycles, sharing in place | every prone field is found; a chunk keeps what it held | `NpoTracker` |

Interactions: the HTTP server makes one `JITExecutor` per HTTP request;
`execute()` goes through Dedupe to the plan's resolvers; a resolver goes through
two further Dedupe instances (`eval_io`) to a DataLoader or straight to an
upstream; subscriptions call the listeners' `subscribe()` or `read_stream()` and
poll the stream they return. A client that disconnects drops the future of its
request, at whatever await it stands. That drop is the one event all concurrent
parts must survive, and every module of theirs has it.

`PROJECT.json` lists every component with its status, and under `hazards` each
place where this code can go wrong in a way a unit test would hardly reach.

## 2. Modules

State machines:

| Module | Role |
|---|---|
| `Dedupe` | the detailed specification, its inductive invariants `Inv` and `FullInv`, and the mapping to `SingleFlight` |
| `SingleFlight` | what deduplication promises: per key one flight that callers join, land with or leave |
| `EvalIo` | `eval()` of an io: composes two `Dedupe`s (one by EXTENDS, one as the instance `Global`) with the response cache and a changing upstream |
| `JitExecutor` | `execute()`: composes `Dedupe` with the plan cache and the constant responses |
| `DataLoader`, `RedisListener`, `RedisReadStream`, `PostgresListener` | one file (or half of one) each |
| `MCEvalIo`, `MCJitExecutor`, `MCDataLoader` | their instances for TLC; the listeners are checked as they are |
| `DedupeProofs`, `EvalIoProofs`, `JitExecutorProofs`, `DataLoaderProofs`, `RedisListenerProofs`, `PostgresListenerProofs`, `AlgorithmProofs` | theorems and lemmas; those of `RedisReadStream` stand at its end |

Operators, one module per part of the table above (`RedisCommand` to
`NpoTracker`): each has the code's functions under the code's names, a definition
or two of what they should yield, and between them a property, such as
`PostgresQuery.StatementIsBounded` or `JitPlan.PlanServesQuery`. `Upstreams` puts
together `RequestHandler` and the four between a resolver and its upstream, and states
their invariants;
`MCInputs` and `MCAlgorithms`, which extend it, have the bounded inputs and the other
invariants, and `AlgorithmProofs` proves `Upstreams`' own.

Operators that end in `_Something` next to the one they are named after are its
mutated forms, each a plausible bug; `PROJECT.json` says which property notices.

### How state and actions correspond to the code

**Dedupe.** `cache` is the map, `Pending(e)` holds the weak pointer to channel
`e`; the strong pointer is the leader's program counter, so `Alive(e)` is
`Weak::upgrade`. `StepReturn`, `StepAwait` and `StepInit` are the outcomes of
`step()` (90-118), one critical section each; `Recv`, `RecvErr` are the two arms
of `rx.recv().await`; `Execute` is the end of `or_else().await`, `Publish` the
critical section of lines 75-81, `Return` the drop of the sender after it.
`Cancel` drops the future at either await and cleans nothing up, as in the code.
A value is the number of the execution that made it, which is enough to say
fresh, stale and same.

**EvalIo.** A task is a field of a request. `CacheHit`, `AskUpstream` and
`AskDedupe` are the ways into `eval()`; `Lead` makes the leader of the request's
dedupe a caller of the process's, whose steps are `GlobalLead`, `GlobalRead` (the
upstream answers) and `GlobalStep`; `Land` returns from the inner to the outer;
`Finish` stores in the cache. An io that is not deduplicated is read by `ReadDirect` and
stored by `FinishDirect` (60-69): its answer may be under way while the upstream changes and
others store newer ones, and then goes over them. Fields of one request are joined futures of one task:
one runs only while the others are `Parked`. `Drop` cuts both nested calls off. A
value is the version of the upstream's data it was read from and the request that
obtained it; `since` remembers how old a value a request may be given. `Down` says which
reads fail; an error is handed on but, because of the `?` before `cache.set`, never stored.

**JitExecutor.** A task `<<h, i>>` is the `i`-th GraphQL request of HTTP request
`h`. `ConstHit/ConstMiss`, `PlanHit/PlanMiss`, `Build/BuildFails`, `Enter`
.. `Leave` or `Start/Finish`, and `Store` are the statements of `execute()`; two
HTTP requests interleave between any two of them, the requests of one batch only
at awaits (`Alone`), because one task polls them all. `Drop(h)` drops an HTTP
request with everything in it. A response is what it depends on: operation,
variables, headers; the headers matter unless the plan is constant and not
protected, which is exactly what `Storable` relies on. The second key, the
query's text, is `Request(t).query`.

**DataLoader.** The critical section of `load_many` is one action
(`ReturnCached`, `JoinAndLoad`, `JoinAndWait`, by its three outcomes); the spawn
after the unlock is another (`SpawnLoad`, `SpawnTimer`), since the
`disable_cache` atomic is read there. `TimerFires`, `Load`, `Deliver` and
`DeliverErr` are the spawned tasks. A value is the version of the data source it
was read from, so staleness can be stated.

**Redis listener.** `Connect`, `Resubscribe`, `PublishSink`, `StreamClosed`,
`ClearSink` are the driver; its iteration over the `DashMap` visits entries in
any order and may miss what is inserted meanwhile. `subscribe()` is split at every
point where another task can run: waiting for the sink, `register_subscriber()`,
`SUBSCRIBE`, `tx.subscribe()`. `GuardDrop` is the guard's `remove_if`,
`Unsubscribe` the task it spawns. `cut` is a history variable: the channels
UNSUBSCRIBEd since they were last SUBSCRIBEd.

**Redis Streams.** The generator's loop, one action per arm. `from` is the
server's side of a blocked `XREAD`: `$` is resolved when the command arrives.

**PostgreSQL listener.** `conn` is the connection object the driver owns,
`client` the one callers use. A request of the client travels only while somebody
polls that connection (`Polled`), fails when the connection was dropped (`Fails`),
and otherwise waits; `lock` is the client's mutex.

**Operators.** Data is abstracted to what the properties tell apart: a byte is a
token or a small number, a type `<<"list", type, nonNull>>`, an optional value a
sequence of at most one element, a failed result the empty sequence. Each module's
header says how. What the code leaves to a hash map's order is a set of outcomes;
what it leaves to a library (`convert_case`, `serde_json`, a JWT's signature) is a
constant or an operator marked external in `PROJECT.json`.

## 3. Runs

| Run | Instance | Shows |
|---|---|---|
| `eval_io` | request `a` with two fields, `b` with one; ios that are shared, cached, both, or cached with an upstream that fails; 3 calls, 2 versions of the upstream; the request's dedupe persists | one upstream read at a time, one value per request, none older than the execution joined and none from the cache that is an error, every field ends; the persistent `Dedupe` inside keeps `Inv` and implements `SingleFlight` |
| `jit_executor` | any 2 of 6 kinds of HTTP request at once, 3 equal ones, 3 for a protected constant, and those the code does not tell apart (`Meetings`): a constant sent with different variables, two operations of one document, a batch with two shared queries, a constant next to a shared query | own answer for whoever can be told apart, nobody else's HTTP request's for the others, every request answered; `Dedupe` without persistence inside it |
| `jit_batch` | one batch of two deduplicated queries | **violated**: section 5 |
| `loader` | 3 calls of `load_one`, or 2 of `load_many` with a cache whose owner feeds, clears and switches it; batches of 2, 2 versions of the source | timers, senders, batch size, complete answers, no stale load, every call ends |
| `redis_listener` | 2 subscribers, 2 channels, 3 calls, 2 losses | no leak, reconnection keeps subscriptions, everything ends or comes back |
| `redis_stale_sender`, `redis_late_unsubscribe` | 2 subscribers, 1 channel, 3 calls, no loss | **violated**: section 5 |
| `redis_read_stream` | starts `0`, `2` and `$`, 6 entries, replies of 2, 2 losses | no gap, no repetition, every entry yielded |
| `redis_read_latest` | start `$`, 4 entries, 1 loss | **violated**: section 5 |
| `postgres_listener` | 2 subscribers, 2 channels, 4 calls, 2 losses | attached means LISTENed to; the driver comes back or waits for itself, and unless it does every call of `subscribe()` ends |
| `postgres_reconnect` | 1 subscriber, 1 channel, 2 calls, 1 loss | **violated**: section 5 |
| `algorithms` | 57 families of inputs, one step from "none" to an input of a family | ten invariants, each comparing what functions make of an input with what they should |

The invariants of `algorithms`, and the families each is about:

| Invariant | What is compared, and in which families |
|---|---|
| `SqlIsOwn` | the statements of `@postgres` and `@greptimedb` with their directive (`sql`) |
| `FieldIsServed` | an accepted field's command, message or column with its value and back (`redis`, `schema`, `answer`, `args`, `grouped`, `column`) |
| `ChunksDoNotMatter` | a stream cut into chunks, with the same stream whole (`stream`, `text`) |
| `SharedAreSame`, `BatchedIsAlone` | what shares a key or a batch, with what is asked alone (`key`, `batch`) |
| `PlanServesQuery` | a plan with its query: skip and include, arguments and variables, fragments, upstream selections (`plan`, `input`, `select`) |
| `ResultsFindTheirPlace` | values with the place they are put: responses, expressions, hooks, access, and what crosses to the JavaScript worker and back, what is sent of a response or a batch (`reply`, `response`, `ir`, `hook`, `codec`, `access`, `auth`) |
| `RequestIsAnswered` | a request with the endpoint that answers, or the error it ends in when what is left of its path is no URI or its body no JSON; policies with the header (`http`, `cache`) |
| `EveryProneFieldFound` | the tracker's paths with all paths, and chunks (`types`, `chunk`) |
| `ConfigurationsMerge` | a configuration on its way from files, databases, proto files or samples to the blueprint (the other families). Among them: the fields of a directive as the blueprint compiles and asks them (`https`, `constant`, `templated`, `selecting`, `client`, `streaming`, `federation`, `enum`), a field as the registered schema and the printed SDL declare it (`define`), what is generated of proto files (`proto`), servers' reflection (`imports`), imports found from where a file is linked (`link`), the headers let through and collected (`headers`) |

### Bounds, and why they are enough

`MaxCalls`, `MaxLosses`, `MaxEntries`, `MaxVersion`, `MaxAsk` bound how often the
environment acts; they are guards of `Call`, `ConnectionLost`, `Transient`, `Add`,
`Change` and of the size of one request. Nothing else is bounded.

- Dedupe: a hazard needs a leader, a follower and somebody who comes after the
  leader was dropped: three tasks. `eval_io` and `jit_executor` both have them, one
  with persistence and one without, and two keys, so that a channel could be
  confused with another key's.
- EvalIo: two fields of one request and one of another are the smallest instance
  with a follower in each of the two dedupes; two versions are what "older" relates.
  The second version of `both` and `failing` is an error (`MCDown`): one that is
  shared by followers, and one that comes between two values of a cache.
- JitExecutor: two HTTP requests make every pair of equal or different keys of the
  three structures; the third repeats the leader/follower/latecomer triple where
  the answer depends on who asks. Two positions in a batch are what shares an `OperationId`.
- DataLoader: three callers are enough for one that fills a batch, one whose timer
  is still asleep, and one that starts the next; batch size 2 makes the boundary
  reachable. For the cache, two calls and two versions are what staleness relates.
- Listeners: a leaving and a coming subscriber of one channel are the races; the
  second channel keeps entries from being confused; a second loss hits the
  re-subscription after the first.
- Redis Streams: a reply is full (2), partial (1) and empty; the six entries span
  three replies and both losses.
- Algorithms: an input has two or three of whatever the code loops over (fields,
  keys, chunks, types, providers), because what goes wrong goes wrong between two
  of them or at the boundary after the last; and every value of whatever it
  branches on. Where the code ends a loop by a number (three redirects, a page
  of columns), the number is the code's or a small one named in `MCInputs`.

Deadlock checking is off everywhere: a behaviour may end when its bounds are used
up, when all clients have gone, when an input has been picked, or (PostgreSQL) in
the deadlock of section 5, which a liveness property states instead.

### Fairness, and why the code justifies it

Weak fairness of each task's own steps: tokio polls every woken task. Nothing is
assumed of clients (they may never call, never leave), of `ConnectionLost` or of
cancellation. Beyond that:

- `or_else`, upstream calls and awaits of a timer end (upstream clients have
  timeouts); a field that is `Parked` runs when its request's task is polled.
- Redis listener: `Reachable` (a connect succeeds sooner or later) is assumed by
  `ListenerComesBack` only, where it is written out.
- PostgreSQL: strong fairness of the driver's and of each subscriber's steps,
  because tokio's mutex is first come, first served; without that, a waiting
  driver could be overtaken for ever.

## 4. Proofs

`tlapm` checks the seven `*Proofs` modules and `RedisReadStream`. Their theorems hold for every number
of requests, tasks, keys, channels, subscribers, entries, bytes and records and for
any bound. The assumptions are the named `ASSUME`s of the modules (constants are
numbers, flags and sets of the expected kind) and what a theorem states itself;
finiteness is assumed only where a cardinality is in the statement.

Proofs about a state machine have one shape: `Init` gives the invariant; one
lemma per action that it is preserved, one step per conjunct the action can
disturb; a lemma that collects them; the temporal theorem by PTL.

- **Dedupe** (`DedupeProofs`). What is promised is not inductive: why is the entry
  that a leader overwrites at the end its own? `LeaderOwnsEntry` and `OneSender` say
  so; `EntryOfLeader` and `ReceiverOfLeader` tie a channel to its leader's key, from
  which `SingleExecution` and `NoLostWakeup` follow; `StaleStaysOver` makes
  `FreshResult` inductive. With `FullInv`, which says for every receiver what it is
  about to get, every step is shown to be a step of `SingleFlight` or a stutter:
  theorem `Refinement`.
- **Resolver evaluation** (`EvalIoProofs`). `Composition`: every step of `EvalIo` is
  a step of, or leaves alone, each of the two dedupes, so that `DedupeProofs` applies
  to both, to the process's by `INSTANCE DedupeProofs WITH ...`; `RequestsFlights` and
  `OneAtUpstream` come of that. That a value is no older than the execution it was
  taken from needs an invariant that relates the two: `DatedBack`, with
  `ReadRecently`, `MadeRecently` and `ValuesDated`. That all fields of a request get
  one value needs `ValueIsResult`, what the persistent dedupe holds is what was landed. A direct
  answer is dated when it is read, not when it is stored: the invariant is about answers under way
  too, and about the cache, which never holds an error.
- **Operation execution** (`JitExecutorProofs`). `Drop` cancels many calls at once, which no
  action of `Dedupe` does; `CancelAll` is proved to keep its invariant. `AnswersAreOwn`
  is about all requests, without assumption on what clients send. Which of them the code keeps
  apart is part of the statement, `Separate(t)`: all who send `t`'s text name one operation
  (`OneName`); if that is a kept constant, all have its variables; and no other request of
  its batch is deduplicated (`AloneUnderKey`). Such a request gets its own answer; any other one
  gets the outcome of a request of its own HTTP request, or of one that sent the
  document of its constant, and no other's. `SameKeyGood` says that an execution is good for
  everybody with the key, `StoredRight` that a response put in the cache is right for
  everybody who sends the text; `SameTextSameName` and `Good` relate the two.
- **DataLoader** (`DataLoaderProofs`). `TimerArmed` needs that keys and senders go together
  (`KeysWanted`); that a caller between unlock and spawn holds the batch it took
  (`Holding`); `CompleteAnswer` and `FreshLoad` need `HoldsHits` and `ReadLater`;
  `BatchBound` is about a cardinality and uses the library's theorems on finite sets.
- **Redis listener.** `AcceptedIsKept` generalises the statement about the listen
  loop to the re-subscription, where the driver has yet to visit a channel.
- **Redis Streams.** `WaitsAfterLast`, `ReplyFollows` and `FromStart` relate `last_id`
  to what the server knows and to the reply in hand.
- **PostgreSQL listener.** `AttachedIsVisited` covers the iteration over the channels,
  `DriverOwnsConn` and `LockHeld` the client.
- **Upstreams** (`AlgorithmProofs`). Induction is over sets of naturals: `LeastNatural`,
  from the library's theorem that `<` is well-founded on them, gives `SetInduction` and
  `SeqInduction`; `RecursionExists` shows that a function defined by recursion exists,
  which `CHOOSE` alone does not say.
  - `Stable`: a unit that a decoder finds in a buffer it finds in every longer one;
    hence (`TurnThenFed`, `DrainThenFed`) decoding a chunk later is decoding it at
    once, and `AnyChunks`. `PackedIsOne`: what one message is sent as is one unit, and
    no shorter beginning of it is any; hence `MessagesArrive`, and, as what was sent before
    a connection broke is whole messages and a beginning of one (`BrokenOff`),
    `CutsAreHarmless`. The messages are what can be sent: of gRPC at most 255 bytes (a length
    of one byte in the model), of JSON text without a line end and not beginning with a
    blank.
  - `KeySaysWhatIsAsked`: whatever a key hashes determines what is asked and as whom.
    `SharingIsSafe` is about fields of one kind (`@http`, `@graphQL`, `@grpc`, `@s3`): keys
    of two kinds are hashes of different things.
  - `AskedTogether` and `ApartIsByKey`: one request asks for what each key asks for, and
    what is handed out by a key is what its own answer would have held. Of POST and gRPC
    it is assumed that the batching value is in the body; the code finds it there.
  - `WhereCounts`: by induction on a filter's entries, its clauses use the placeholders
    after those already given out, one for each value that is not null and in order;
    `EachInItsPlace` adds what is set before and LIMIT and OFFSET after, and `StatementAnswers`
    goes through the five operations. `OneTable` says that a name finds one table at
    most, `Compiled` what of a directive reaches its template: `EveryStatementBounded`.
    `EveryConnectionOfItsKind` needs that the ids of database links are distinct, which
    `core/blueprint/links.rs` enforces. A table whose columns are known has at least one: of one
    with none the code checks nothing.
  - `OneSummary`: the header is determined by which scopes and ages the successful policies
    have, in whatever order they came, and `CollectedSumsUp` that `set_cache_control()` finds
    it; hence `CachedNoLonger`. `MatchesInstances` and `VariablesOfPath` relate the walk over a
    path to the instances of its pattern, `FirstFound` the search to the first endpoint in the order
    in which the hash map yields them, `UriOfLeft` and `LeftToRest` what is left of the path below
    `/api` to the URI parsed from it, if it is one, and `HandledWithCors` what the two CORS
    wrappers leave of an answer: `AnyRequestIsAnswered`, which compares a request with the same
    one without an origin at a server without CORS.
  - `NoChunksMatter`, `SharedAlwaysSame`, `BatchedAlwaysAlone`, `EverySqlIsOwn`,
    `EveryRequestAnswered` state all this
    as the invariants of module `Upstreams` that the run `algorithms` checks.

Only model-checked:

- all liveness and fairness: TLAPS does not reason about ENABLED;
- `FieldIsServed`, `PlanServesQuery`, `ResultsFindTheirPlace`, `EveryProneFieldFound`,
  `ConfigurationsMerge`: their modules follow trees (types, selections, values, paths) with
  RECURSIVE operators, or use `SelectSeq` and folds, and neither can be expanded by the
  prover.

## 5. Where the code and its documentation part

Found by a run, each with its counterexample:

1. `redis_stale_sender`: `subscribe()` clones the sender, awaits `SUBSCRIBE`, and
   only then makes its receiver. A guard dropped meanwhile removes the sender; the
   new stream ends at once, which the comment at `cli/redis/listener.rs:302` rules
   out. `StaleStreamEnds` shows that it does end rather than hang.
2. `redis_late_unsubscribe`: the spawned `UNSUBSCRIBE` may come after a new
   subscriber's `SUBSCRIBE`; the subscriber stays attached and hears nothing until
   the next reconnection.
3. `postgres_reconnect`: after a lost connection the driver awaits its `LISTEN`
   statements before it polls the connection that would send them; with any
   channel registered it never comes back. The passing run states exactly when it
   does (`ComesBackOrStuck`).
4. `redis_read_latest`: until the first entry, every `XREAD` asks for `$` anew and
   entries in between are lost, while `docs/content/docs/redis.md:137` promises
   catching up. From the first entry on, `NoGapNoRepeat` holds, and is proved.
5. `jit_batch`: the requests of one batch share one `OperationId`; deduplicated
   ones among them share one execution and one response.

Met while the operators were translated; the modules have the code's behaviour, and
their properties say what holds in spite of it:

- *Plans and requests.* Plans and constant responses are cached by the query's text
  alone (`graphql_executor.rs:78`, a TODO). Items of a list argument are parsed against
  the list's type; a missing variable is an error even when it is nullable; a single
  value is not wrapped into a list. `collect_fields` drops a second field of the same name.
  A variable of `skip` or `include` that is absent or no boolean counts as `false` for the one
  and `true` for the other (`model.rs:79-87`); defaults that the operation declares are not read.
  A constant in a batch with a deduplicated query may follow that query's execution, whose response is
  then kept as the constant's. A REST request's URI is matched by its path only. What is left
  of it when `/api` is taken out, everywhere, is parsed as a URI again (`request_handler.rs:259`): `/api`,
  `/api/api` and `/apix/y` are no URIs then and fail, `/apix` has a host and an empty path. A body that
  is not JSON fails too; of two endpoints that match, a hash map's order decides. HTTP/1
  subscriptions are single; an HTTP/2 error returns early and hides the others.
- *Upstream requests.* `@graphQL` sends a nested field's variables as `$x`, neither
  `skip` nor `include` nor aliases, and the fields of wrapped resolvers still. Followers of
  a shared request miss `set_headers`. Streams ignore `grpc-status`, hooks and CRLF.
- *Configuration.* A file's `@upstream` is merged, its server, links and telemetry are
  dropped (`merge.rs:293-315`), and a second `@upstream` resets `verifySSL`; linked files' links
  are not loaded. `@redis(db:)` may name no link; a `batchKey` of a gRPC subscription is
  ignored, without `upstream.batch` accepted but unused. Several S3 links share the id `""`.
  `{{.env}}` with nothing after it panics (`reader_context.rs:34-37`). Written to SDL and read back, a
  configuration loses the subscription root and descriptions.
- *Documentation.* `auth.md:110` says any provider, `Auth::from_config` asks all;
  the server's query limits bind async-graphql but not `POST /graphql`; timeouts that
  `runtime-config.md` gives in milliseconds are seconds.
- *Directives.* A `select` of several segments is prefixed by the context's path in its first
  only. A batched GET may read the parent in several parameters, though only one is batched by. An
  enum's or a custom scalar's constant takes any value. An `@s3` link is not validated, and one of
  several clients is asked when none is named. A subscription with `select`, `@cache`, `@protected`, an
  enum alias or a union never opens a stream. A field added to, or modified in, the query type stops
  a start with federation. The subscription root is missing in the printed document; an interface
  is registered without what it implements and without arguments.
- *Responses and headers.* Introspection's fields come after the others, whatever their order.
  Cookies of several upstreams are joined by `; ` in one `Set-Cookie`; an answer's second is
  dropped. An experimental header is taken from failed answers too; a request header that
  repeats keeps its last value. An `application/graphql` body with a backslash is understood
  only if it already is a quoted JSON string.
- *JavaScript worker.* Of headers or query names that repeat, the last is kept; a request's header
  that is not ASCII fails the call, a response's is dropped; a query's text is given decoded and
  written back as it is, so `&`, `#` and `+` in it change it; a path without a leading slash is
  taken for a part of the host.
- *Proto files.* An import is resolved against the linked file's directory, not the importing one's; a
  `grpc-status` that is no number counts as 0.
- *Generator.* Every number is an `Int`; lists in lists are flattened; query keys equal in
  camel case share one argument; a renamed subscription type leaves `schema.subscription` behind.

## 6. Not modelled, and why

- Messages of a subscription and the broadcast channel's lag at 256 (`RecvError::Lagged`).
- Threads: locks that are never held across an await (Dedupe's and the DataLoader's
  mutex, a `DashMap` shard) are atomic sections. The exception, the iteration over
  the Redis map, is in the hazards.
- A server that refuses a re-subscription on a live connection (the code logs and
  goes on), and a trimmed Redis stream.
- Panics of a `Loader`'s task other than those `loader` has, eviction by `LruCache`; the
  gateway itself uses `NoCache` and `load_one`. `max_batch_size` is at least 1 there:
  `core/blueprint/upstream.rs` replaces a missing size by 100.
- Mutations in operation execution (never deduplicated).
- Validation's accumulation of error texts, telemetry, the CLI's output, formatting:
  wording, which no property is about.
- What libraries do: SQL and Redis servers beyond the replies above, JWT signatures,
  the JavaScript engine, `async-graphql`. Each is a constant or an external operator.

`PROJECT.json` says of each component what of it is left out.

## 7. Plan

1. `Broadcast`: capacity, lag, and delivery to subscribers, under both listeners.
2. The entries of `hazards` that no property covers yet, each with its reason there.
