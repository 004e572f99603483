----------------------------- MODULE DataLoader -----------------------------
(***************************************************************************)
(* DataLoader<K, T, C> (src/core/data_loader/data_loader.rs): calls of     *)
(* load_many join the batch that is being collected.  A batch leaves when  *)
(* the timer that its first caller spawned fires, or at once when its keys *)
(* reach max_batch_size; a spawned task then loads all its keys with one   *)
(* call of the Loader and hands every caller the values of its own keys.   *)
(* Callers may be dropped while they wait; the spawned tasks go on.        *)
(*                                                                         *)
(* A value is abstracted to the version of the data source it was read     *)
(* from, so that a value is old when its number is small; 0 is no value.   *)
(***************************************************************************)
EXTENDS Naturals, FiniteSets

CONSTANTS
    Calls,      \* the calls of load_many; each is made at most once
    Keys,       \* the keys they ask for
    Existing,   \* the keys the loader has a value for
    MaxBatch,   \* max_batch_size
    MaxAsk,     \* bound: keys in one call; load_one asks for one
    Caching,    \* whether the cache factory stores anything (not NoCache)
    Owner,      \* which operations on the cache the owner uses
    MaxVersion  \* bound: versions the data source goes through

ASSUME DataLoaderAssumption ==
    /\ IsFiniteSet(Keys)
    /\ Existing \subseteq Keys
    /\ MaxBatch \in Nat
    /\ MaxAsk \in Nat
    /\ Caching \in BOOLEAN
    /\ Owner \subseteq {"enable_cache", "enable_all_cache", "feed", "clear"}
    /\ MaxVersion \in Nat \ {0}

VARIABLES
    keys,       \* requests.keys: the keys of the batch being collected
    pending,    \* requests.pending: the calls that wait for that batch
    cache,      \* requests.cache_storage: key -> value or 0
    disableOne, \* requests.disable_cache, guarded by the mutex
    disableAll, \* DataLoader::disable_cache, an atomic
    timers,     \* sleeping fetch tasks, by the disable_cache they captured
    batches,    \* the batches taken out of requests and not answered yet
    pc,         \* where each call stands in load_many
    asked,      \* the keys a call was made with
    want,       \* keys_set: those of them it sent to the loader
    answer,     \* use_cache_values, extended by what the loader returned
    sent,       \* what was sent through the call's oneshot channel
    version,    \* external: the version of the data source
    since       \* history: the version when the call was made

vars == <<keys, pending, cache, disableOne, disableAll, timers, batches, pc,
          asked, want, answer, sent, version, since>>

caller == <<asked, want, answer, since>>

NoValues == [k \in Keys |-> 0]

Init ==
    /\ keys = {}
    /\ pending = {}
    /\ cache = NoValues
    /\ disableOne = FALSE
    /\ disableAll = FALSE
    /\ timers = [off \in BOOLEAN |-> 0]
    /\ batches = {}
    /\ pc = [c \in Calls |-> "new"]
    /\ asked = [c \in Calls |-> {}]
    /\ want = [c \in Calls |-> {}]
    /\ answer = [c \in Calls |-> NoValues]
    /\ sent = [c \in Calls |-> "none"]
    /\ version = 1
    /\ since = [c \in Calls |-> 0]

(***************************************************************************)
(* load_many, up to the release of the lock.                               *)
(***************************************************************************)
\* The keys that are answered from the cache, and the others.
Hits(K) == IF disableOne \/ disableAll THEN {} ELSE {k \in K : cache[k] # 0}
Misses(K) == K \ Hits(K)

\* Mutated form: the batch may grow to one key more.
Full_OffByOne(K) == Cardinality(K) > MaxBatch

\* requests.keys.len() >= self.max_batch_size
Full(K) == Cardinality(K) >= MaxBatch

Enter(c, K) ==
    /\ pc[c] = "new"
    /\ Cardinality(K) <= MaxAsk
    /\ asked' = [asked EXCEPT ![c] = K]
    /\ want' = [want EXCEPT ![c] = Misses(K)]
    /\ answer' = [answer EXCEPT ![c] =
                      [k \in Keys |-> IF k \in Hits(K) THEN cache[k] ELSE 0]]
    /\ since' = [since EXCEPT ![c] = version]

\* Nothing to load: everything was cached, or no key was given.
ReturnCached(c, K) ==
    /\ Enter(c, K)
    /\ Misses(K) = {}
    /\ pc' = [pc EXCEPT ![c] = "done"]
    /\ sent' = [sent EXCEPT ![c] = "ok"]
    /\ UNCHANGED <<keys, pending, cache, disableOne, disableAll, timers,
                   batches, version>>

\* A batch as do_load receives it; its flag is captured when it is spawned.
Batch(K, C, stage, off) ==
    [keys |-> K, calls |-> C, stage |-> stage, off |-> off, version |-> 0]

\* Mutated form: the caller that fills the batch leaves its own entry out.
Taken_Others(c, K) == Batch(keys \cup Misses(K), pending, "taken", FALSE)

\* requests.take(), with the caller's own keys and sender added.
Taken(c, K) == Batch(keys \cup Misses(K), pending \cup {c}, "taken", FALSE)

\* Action::ImmediateLoad
JoinAndLoad(c, K) ==
    /\ Enter(c, K)
    /\ Misses(K) # {}
    /\ Full(keys \cup Misses(K))
    /\ batches' = batches \cup {Taken(c, K)}
    /\ keys' = {}
    /\ pending' = {}
    /\ pc' = [pc EXCEPT ![c] = "immediate"]
    /\ UNCHANGED <<cache, disableOne, disableAll, timers, sent, version>>

\* Mutated form: only the very first caller starts a timer.
Waiting_FirstEver == IF \A c \in Calls : pc[c] = "new" THEN "start" ELSE "wait"

\* Action::StartFetch for the first of a batch, else Action::Delay.
Waiting == IF keys = {} THEN "start" ELSE "wait"

JoinAndWait(c, K) ==
    /\ Enter(c, K)
    /\ Misses(K) # {}
    /\ ~Full(keys \cup Misses(K))
    /\ keys' = keys \cup Misses(K)
    /\ pending' = pending \cup {c}
    /\ pc' = [pc EXCEPT ![c] = Waiting]
    /\ UNCHANGED <<cache, disableOne, disableAll, timers, batches, sent,
                   version>>

(***************************************************************************)
(* load_many, after the lock: the task is spawned with the value that the  *)
(* disable_cache atomic has by now, and the caller waits for its channel.  *)
(***************************************************************************)
SpawnLoad(c) ==
    /\ pc[c] = "immediate"
    /\ \E b \in batches :
          /\ c \in b.calls
          /\ b.stage = "taken"
          /\ batches' = (batches \ {b})
                \cup {[b EXCEPT !.stage = "load", !.off = disableAll]}
    /\ pc' = [pc EXCEPT ![c] = "wait"]
    /\ UNCHANGED <<keys, pending, cache, disableOne, disableAll, timers, caller,
                   sent, version>>

SpawnTimer(c) ==
    /\ pc[c] = "start"
    /\ timers' = [timers EXCEPT ![disableAll] = @ + 1]
    /\ pc' = [pc EXCEPT ![c] = "wait"]
    /\ UNCHANGED <<keys, pending, cache, disableOne, disableAll, batches, caller,
                   sent, version>>

\* A channel whose sender was lost makes the caller panic at its unwrap.
Receive(c) ==
    /\ pc[c] = "wait"
    /\ sent[c] # "none"
    /\ pc' = [pc EXCEPT ![c] = IF sent[c] = "lost" THEN "panicked" ELSE "done"]
    /\ UNCHANGED <<keys, pending, cache, disableOne, disableAll, timers, batches,
                   caller, sent, version>>

\* The caller's future is dropped at rx.await; its entry stays.
Drop(c) ==
    /\ pc[c] = "wait"
    /\ pc' = [pc EXCEPT ![c] = "dropped"]
    /\ UNCHANGED <<keys, pending, cache, disableOne, disableAll, timers, batches,
                   caller, sent, version>>

(***************************************************************************)
(* The spawned tasks: a timer that takes what has been collected by then,  *)
(* and do_load.                                                            *)
(***************************************************************************)
TimerFires(off) ==
    /\ timers[off] > 0
    /\ timers' = [timers EXCEPT ![off] = @ - 1]
    /\ batches' = batches \cup
          (IF keys = {} THEN {} ELSE {Batch(keys, pending, "load", off)})
    /\ keys' = {}
    /\ pending' = {}
    /\ UNCHANGED <<cache, disableOne, disableAll, pc, caller, sent, version>>

\* self.loader.load(&keys).await: reads the data source, or fails.
Load(b) ==
    /\ b.stage = "load"
    /\ \E stage \in {"ok", "err"} :
          batches' = (batches \ {b})
                \cup {[b EXCEPT !.stage = stage, !.version = version]}
    /\ UNCHANGED <<keys, pending, cache, disableOne, disableAll, timers, pc,
                   caller, sent, version>>

\* Mutated forms: a caller is sent every value of the batch; or what the cache
\* holds by now.
Values_All(b, c) ==
    [k \in Keys |-> IF k \in b.keys \cap Existing THEN b.version
                                                  ELSE answer[c][k]]
Values_Cached(b, c) ==
    [k \in Keys |-> IF k \in want[c] \cap Existing
                    THEN IF cache[k] # 0 THEN cache[k] ELSE b.version
                    ELSE answer[c][k]]
\* Mutated form: what was found in the cache is left out.
Values_Loaded(b, c) ==
    [k \in Keys |-> IF k \in want[c] \cap Existing THEN b.version ELSE 0]

\* use_cache_values, extended by the loaded values of the call's own keys.
Values(b, c) ==
    [k \in Keys |-> IF k \in want[c] \cap Existing THEN b.version
                                                   ELSE answer[c][k]]

\* Under the lock, the cache is filled and then every sender answered.
Deliver(b) ==
    /\ b.stage = "ok"
    /\ batches' = batches \ {b}
    /\ cache' = IF ~Caching \/ disableOne \/ b.off THEN cache
                ELSE [k \in Keys |-> IF k \in b.keys \cap Existing
                                     THEN b.version ELSE cache[k]]
    /\ answer' = [c \in Calls |-> IF c \in b.calls THEN Values(b, c)
                                                   ELSE answer[c]]
    /\ sent' = [c \in Calls |-> IF c \in b.calls THEN "ok" ELSE sent[c]]
    /\ UNCHANGED <<keys, pending, disableOne, disableAll, timers, pc, asked,
                   want, version, since>>

DeliverErr(b) ==
    /\ b.stage = "err"
    /\ batches' = batches \ {b}
    /\ sent' = [c \in Calls |-> IF c \in b.calls THEN "err" ELSE sent[c]]
    /\ UNCHANGED <<keys, pending, cache, disableOne, disableAll, timers, pc,
                   caller, version>>

\* The loader panics: its task ends, and takes the senders of its batch along.
LoadPanics(b) ==
    /\ b.stage = "load"
    /\ batches' = batches \ {b}
    /\ sent' = [c \in Calls |-> IF c \in b.calls THEN "lost" ELSE sent[c]]
    /\ UNCHANGED <<keys, pending, cache, disableOne, disableAll, timers, pc,
                   caller, version>>

(***************************************************************************)
(* The rest of the interface, and the data source.                         *)
(***************************************************************************)
requests == <<keys, pending, timers, batches, pc, caller, sent>>

EnableCache(on) ==
    /\ "enable_cache" \in Owner
    /\ disableOne' = ~on
    /\ UNCHANGED <<requests, cache, disableAll, version>>

EnableAllCache(on) ==
    /\ "enable_all_cache" \in Owner
    /\ disableAll' = ~on
    /\ UNCHANGED <<requests, cache, disableOne, version>>

FeedOne(k) ==
    /\ "feed" \in Owner
    /\ cache' = IF Caching THEN [cache EXCEPT ![k] = version] ELSE cache
    /\ UNCHANGED <<requests, disableOne, disableAll, version>>

Clear ==
    /\ "clear" \in Owner
    /\ cache' = NoValues
    /\ UNCHANGED <<requests, disableOne, disableAll, version>>

\* Somebody writes to the data source.
Change ==
    /\ version < MaxVersion
    /\ version' = version + 1
    /\ UNCHANGED <<requests, cache, disableOne, disableAll>>

-----------------------------------------------------------------------------
Progress(c) == SpawnLoad(c) \/ SpawnTimer(c) \/ Receive(c)

Process(b) == Load(b) \/ Deliver(b) \/ DeliverErr(b) \/ LoadPanics(b)

Next ==
    \/ \E c \in Calls, K \in SUBSET Keys :
          ReturnCached(c, K) \/ JoinAndLoad(c, K) \/ JoinAndWait(c, K)
    \/ \E c \in Calls : Progress(c) \/ Drop(c)
    \/ \E off \in BOOLEAN : TimerFires(off)
    \/ \E b \in batches : Process(b)
    \/ \E on \in BOOLEAN : EnableCache(on) \/ EnableAllCache(on)
    \/ \E k \in Existing : FeedOne(k)
    \/ Clear
    \/ Change

Spec == Init /\ [][Next]_vars

\* The runtime polls every task that is ready, sleep(delay) ends, and so does
\* the call of the loader.
Fairness ==
    /\ \A c \in Calls : /\ WF_vars(Progress(c))
                        /\ WF_vars(\E b \in batches : c \in b.calls /\ Process(b))
    /\ \A off \in BOOLEAN : WF_vars(TimerFires(off))

FairSpec == Spec /\ Fairness

-----------------------------------------------------------------------------
BatchType ==
    [keys : SUBSET Keys, calls : SUBSET Calls, off : BOOLEAN, version : Nat,
     stage : {"taken", "load", "ok", "err"}]

\* The types of the variables.
TypeOK ==
    /\ keys \subseteq Keys
    /\ pending \subseteq Calls
    /\ cache \in [Keys -> Nat]
    /\ disableOne \in BOOLEAN
    /\ disableAll \in BOOLEAN
    /\ timers \in [BOOLEAN -> Nat]
    /\ batches \subseteq BatchType
    /\ pc \in [Calls -> {"new", "immediate", "start", "wait", "done",
                         "dropped", "panicked"}]
    /\ asked \in [Calls -> SUBSET Keys]
    /\ want \in [Calls -> SUBSET Keys]
    /\ answer \in [Calls -> [Keys -> Nat]]
    /\ sent \in [Calls -> {"none", "ok", "err", "lost"}]
    /\ version \in Nat
    /\ since \in [Calls -> Nat]

\* StartFetch / Delay: as long as a batch is being collected, a timer sleeps
\* that will take it, or a caller is about to spawn one; callers that filled or
\* abandoned earlier batches do not take the timer with them.
TimerArmed ==
    keys # {} => \/ timers[TRUE] + timers[FALSE] > 0
                 \/ \E c \in Calls : pc[c] = "start"

\* The call has a sender that was not used yet.
Unanswered(c) == pc[c] # "new" /\ sent[c] = "none"

\* take(): a call that has no answer yet has its sender in exactly one place,
\* requests.pending or one of the batches; so no channel is dropped unanswered
\* ("data loader channel was unexpectedly dropped") and none is used twice.
OnePlace ==
    \A c \in Calls :
        /\ Unanswered(c) =>
              c \in pending \/ \E b \in batches : c \in b.calls
        /\ c \in pending =>
              Unanswered(c) /\ \A b \in batches : c \notin b.calls
        /\ \A b, d \in batches :
              c \in b.calls => Unanswered(c) /\ (c \in d.calls => d = b)

\* do_load: a successful answer has a value for exactly those of the caller's
\* own keys that exist, wherever each of them came from and whoever shared the
\* batch.
CompleteAnswer ==
    \A c \in Calls :
        sent[c] = "ok" =>
            \A k \in Keys : answer[c][k] # 0 <=> k \in asked[c] \cap Existing

\* load_many: a key that was not answered from the cache is read from the data
\* source after the call was made, whatever is cached in the meantime.
FreshLoad ==
    \A c \in Calls :
        sent[c] = "ok" => \A k \in want[c] \cap Existing : answer[c][k] >= since[c]

\* max_batch_size: with one key per call (load_one) no batch is larger; with
\* more, a batch exceeds it by less than the keys of one call.
BatchBound ==
    \A b \in batches :
        \/ Cardinality(b.keys) < MaxBatch
        \/ \E c \in Calls : \/ Cardinality(b.keys) < MaxBatch + Cardinality(asked[c])
                            \/ Cardinality(b.keys) <= Cardinality(asked[c])

\* Every call comes back with an answer unless it is dropped or the loader
\* panicked on its batch; then it panics too, and nobody else's call does.
EveryCallEnds ==
    \A c \in Calls :
        pc[c] \in {"immediate", "start", "wait"}
            ~> pc[c] \in {"done", "dropped", "panicked"}

-----------------------------------------------------------------------------
(* The inductive invariant behind the properties above.                     *)

\* The keys of a batch are those its calls want, before and after take().
KeysWanted ==
    /\ keys = {k \in Keys : \E c \in pending : k \in want[c]}
    /\ \A c \in pending : want[c] # {}
    /\ \A b \in batches :
          b.keys = {k \in Keys : \E c \in b.calls : k \in want[c]}

\* A caller between the lock and the spawn still holds the batch it took.
Holding ==
    /\ \A c \in Calls : pc[c] = "immediate" =>
          \E b \in batches : c \in b.calls /\ b.stage = "taken"
    /\ \A b \in batches : b.stage = "taken" =>
          \E c \in b.calls : pc[c] = "immediate"
    /\ \A b \in batches : \A c, d \in b.calls :
          pc[c] = "immediate" /\ pc[d] = "immediate" => c = d
    /\ \A c \in pending : pc[c] # "immediate"
    /\ \A c \in Calls : pc[c] = "immediate" => sent[c] = "none"
    /\ \A c \in Calls : pc[c] = "done" => sent[c] # "none"
    /\ \A c \in Calls : pc[c] = "new" => sent[c] = "none"

\* Only existing keys have values; a waiting call holds those from the cache.
HoldsHits ==
    /\ \A k \in Keys : cache[k] # 0 => k \in Existing
    /\ version > 0
    /\ \A c \in Calls :
          /\ want[c] \subseteq asked[c]
          /\ sent[c] # "ok" /\ pc[c] # "new" =>
                \A k \in Keys : answer[c][k] # 0 <=> k \in asked[c] \ want[c]
          /\ asked[c] \ want[c] \subseteq Existing

\* A batch is read after each of its calls was made.
ReadLater ==
    /\ \A c \in Calls : since[c] <= version
    /\ \A b \in batches : b.stage = "ok" =>
          /\ b.version > 0
          /\ \A c \in b.calls : since[c] <= b.version

\* The batch being collected, the batches on their way, and the callers agree
\* on who waits for what: load_many, the timer task and do_load together.
Inv ==
    /\ TypeOK
    /\ KeysWanted
    /\ TimerArmed
    /\ OnePlace
    /\ Holding
    /\ HoldsHits
    /\ ReadLater
    /\ CompleteAnswer
    /\ FreshLoad

=============================================================================
