------------------------------- MODULE EvalIo -------------------------------
(***************************************************************************)
(* IR::IO and IR::Cache (src/core/ir/eval.rs, src/core/ir/eval_io.rs): how *)
(* the field resolvers of concurrent GraphQL requests come to one value    *)
(* read from an upstream.  Three structures stand before the upstream:     *)
(*   - the response cache of the process (runtime.cache), for IR::Cache;   *)
(*   - request_ctx.cache, a Dedupe of the request, with persist;           *)
(*   - request_ctx.dedupe_handler, a Dedupe of the process, without.       *)
(* The first Dedupe is this module's own (EXTENDS), with pairs of request  *)
(* and io as keys; the second is the instance Global, and an execution of  *)
(* the first is a call of the second.                                      *)
(*                                                                         *)
(* A value, or an error, is abstracted to the version of the upstream's    *)
(* data it was read from; an io stands for its own cache key (see ResolverKey for keys).    *)
(***************************************************************************)
EXTENDS Dedupe, Sequences

CONSTANTS
    Requests,   \* the GraphQL requests in progress
    IOs,        \* the ios their fields resolve to,
    Deduped,    \* those with dedupe set, in a query,
    Cached,     \* those wrapped in IR::Cache
    Owner,      \* task -> the request whose field it resolves
    MaxVersion, \* bound: versions the upstream's data goes through
    Down        \* io and version: the upstream answers with an error

ASSUME EvalIoAssumption ==
    /\ Owner \in [Tasks -> Requests]
    /\ Keys = Requests \X IOs
    /\ Deduped \cup Cached \subseteq IOs
    /\ Persist
    /\ MaxVersion \in Nat
    /\ Down \subseteq IOs \X (1..MaxVersion)

VARIABLES
    gcache, gpc, gkey, gchan, ginbox, gresult, gexecs, gcalls, gstale,
              \* dedupe_handler, as in Dedupe
    read,     \* the version each execution of the global dedupe has read
    made,     \* the version each execution of a request's dedupe returned
    stage,    \* where each task stands in eval()
    asked,    \* the io of its field
    value,    \* the version it has been given, and by which request's doing
    store,    \* the response cache: io -> such a value, or Nothing
    version,  \* external: the version of the upstream's data
    since,    \* history: the oldest version that was not over when a request
              \* first asked for an io
    gone      \* the requests that were dropped

global == <<gcache, gpc, gkey, gchan, ginbox, gresult, gexecs, gcalls, gstale>>
data   == <<read, made>>
eval   == <<stage, asked, value>>
env    == <<store, version, since, gone>>
evalVars == <<vars, global, data, eval, env>>

Global == INSTANCE Dedupe WITH
    Keys <- IOs, Persist <- FALSE,
    cache <- gcache, pc <- gpc, key <- gkey, chan <- gchan, inbox <- ginbox,
    result <- gresult, execs <- gexecs, calls <- gcalls, stale <- gstale

Nothing == [version |-> 0, by |-> "nobody"]
ValueOf(v, r) == [version |-> v, by |-> r]

EvalInit ==
    /\ Init
    /\ Global!Init
    /\ read = <<>>
    /\ made = <<>>
    /\ stage = [t \in Tasks |-> "new"]
    /\ asked \in [Tasks -> IOs]
    /\ value = [t \in Tasks |-> Nothing]
    /\ store = [io \in IOs |-> Nothing]
    /\ version = 1
    /\ since = [r \in Requests |-> [io \in IOs |-> 0]]
    /\ gone = {}

TasksOf(r) == {t \in Tasks : Owner[t] = r}

\* The fields of a request are joined futures of one runtime task: one of them
\* runs only while the others stand at an await.
Parked(t) ==
    \/ stage[t] \in {"new", "direct", "fetched", "done", "dropped"}
    \/ /\ stage[t] = "dedupe"
       /\ \/ pc[t] = "await"
          \/ pc[t] = "exec" /\ gpc[t] \in {"exec", "await"}

Runs(t) ==
    /\ Owner[t] \notin gone
    /\ \A u \in TasksOf(Owner[t]) \ {t} : Parked(u)

At(t, s) == stage[t] = s /\ Runs(t)
Goto(t, s) == stage' = [stage EXCEPT ![t] = s]

\* What a request that asks now may be given: the present version, or the one
\* an execution that has not published it yet has read before.
Oldest(io) ==
    LET under == {read[gchan[t]] : t \in {u \in Tasks : gpc[u] = "publish" /\ gkey[u] = io}}
    IN  CHOOSE v \in under \cup {version} : \A w \in under \cup {version} : v <= w

\* Mutated form: the process, not the request, keeps the persistent dedupe.
RequestKey_OfProcess(t) == <<CHOOSE r \in Requests : TRUE, asked[t]>>

\* request_ctx.cache belongs to the request, so its keys never meet another's.
RequestKey(t) == <<Owner[t], asked[t]>>

(***************************************************************************)
(* eval() of IR::Cache looks the key up first; eval_io() goes straight to  *)
(* the upstream unless the io is deduplicated.                             *)
(***************************************************************************)
Ask(t) ==
    /\ At(t, "new")
    /\ since' = [since EXCEPT ![Owner[t]][asked[t]] =
                     IF @ = 0 THEN Oldest(asked[t]) ELSE @]
    /\ UNCHANGED <<global, data, asked, store, version, gone>>

Hit(t) == asked[t] \in Cached /\ store[asked[t]] # Nothing

CacheHit(t) ==
    /\ Ask(t)
    /\ Hit(t)
    /\ value' = [value EXCEPT ![t] = store[asked[t]]]
    /\ Goto(t, "done")
    /\ UNCHANGED vars

AskUpstream(t) ==
    /\ Ask(t)
    /\ ~Hit(t)
    /\ asked[t] \notin Deduped
    /\ Goto(t, "direct")
    /\ UNCHANGED <<vars, value>>

AskDedupe(t) ==
    /\ Ask(t)
    /\ ~Hit(t)
    /\ asked[t] \in Deduped
    /\ Call(t, RequestKey(t))
    /\ Goto(t, "dedupe")
    /\ UNCHANGED value

(***************************************************************************)
(* The request's dedupe; its leader calls the global one at once.  A leader*)
(* is never dropped without its followers, which are fields of the same    *)
(* request, so that none of them ever finds its channel closed (RecvErr).  *)
(***************************************************************************)
Lead(t) ==
    /\ At(t, "dedupe")
    /\ StepInit(t)
    /\ Global!Call(t, asked[t])
    /\ made' = Append(made, 0)
    /\ UNCHANGED <<read, eval, env>>

RequestStep(t) ==
    /\ At(t, "dedupe")
    /\ \/ StepReturn(t)
       \/ StepAwait(t)
       \/ Recv(t)
       \/ Publish(t)
       \/ Return(t)
    /\ UNCHANGED <<global, data, eval, env>>

GlobalLead(t) ==
    /\ At(t, "dedupe") /\ pc[t] = "exec"
    /\ Global!StepInit(t)
    /\ read' = Append(read, 0)
    /\ UNCHANGED <<vars, made, eval, env>>

\* eval_io_inner(): the upstream answers.
GlobalRead(t) ==
    /\ At(t, "dedupe") /\ pc[t] = "exec"
    /\ Global!Execute(t)
    /\ read' = [read EXCEPT ![gchan[t]] = version]
    /\ UNCHANGED <<vars, made, eval, env>>

GlobalStep(t) ==
    /\ At(t, "dedupe") /\ pc[t] = "exec"
    /\ \/ Global!StepAwait(t)
       \/ Global!Recv(t)
       \/ Global!RecvErr(t)
       \/ Global!Publish(t)
       \/ Global!Return(t)
    /\ UNCHANGED <<vars, data, eval, env>>

\* The global dedupe returns, and with it or_else of the request's.
Land(t) ==
    /\ At(t, "dedupe") /\ gpc[t] = "done"
    /\ Execute(t)
    /\ made' = [made EXCEPT ![chan[t]] = read[gresult[t]]]
    /\ UNCHANGED <<global, read, eval, env>>

(***************************************************************************)
(* The value is there; IR::Cache stores it, over whatever is there by now, *)
(* unless it is an error.                                                  *)
(***************************************************************************)
\* eval_io(io, ctx).await?, then cache.set(key, val.clone(), max_age)
Stored(io, v) == IF io \in Cached /\ <<io, v.version>> \notin Down THEN v ELSE store[io]

Answer(t, v) ==
    /\ value' = [value EXCEPT ![t] = v]
    /\ store' = [store EXCEPT ![asked[t]] = Stored(asked[t], v)]
    /\ Goto(t, "done")
    /\ UNCHANGED <<vars, global, data, asked, version, since, gone>>

Finish(t) ==
    /\ At(t, "dedupe")
    /\ pc[t] = "done"
    /\ Answer(t, ValueOf(made[result[t]], Owner[t]))

\* eval_io_inner() without a dedupe: the upstream answers, and the answer is on its way
\* for as long as it takes.
ReadDirect(t) ==
    /\ stage[t] = "direct"
    /\ value' = [value EXCEPT ![t] = ValueOf(version, Owner[t])]
    /\ Goto(t, "fetched")
    /\ UNCHANGED <<vars, global, data, asked, env>>

FinishDirect(t) ==
    /\ At(t, "fetched")
    /\ Answer(t, value[t])

(***************************************************************************)
(* The clock, the upstream, and clients that go away: all fields of their  *)
(* request are dropped, with the two nested dedupe() futures each may have.*)
(***************************************************************************)
Expire(io) ==
    /\ store[io] # Nothing
    /\ store' = [store EXCEPT ![io] = Nothing]
    /\ UNCHANGED <<vars, global, data, eval, version, since, gone>>

Change ==
    /\ version < MaxVersion
    /\ version' = version + 1
    /\ UNCHANGED <<vars, global, data, eval, store, since, gone>>

Drop(t) ==
    /\ stage[t] \in {"dedupe", "direct", "fetched"}
    /\ \A u \in TasksOf(Owner[t]) : Parked(u)
    /\ gone' = gone \cup {Owner[t]}
    /\ IF stage[t] = "dedupe" THEN Cancel(t) ELSE UNCHANGED vars
    /\ IF stage[t] = "dedupe" /\ pc[t] = "exec" THEN Global!Cancel(t)
                                                ELSE UNCHANGED global
    /\ Goto(t, "dropped")
    /\ UNCHANGED <<data, asked, value, store, version, since>>

-----------------------------------------------------------------------------
\* What the runtime runs by itself once a field is evaluated.
Evaluation(t) ==
    \/ Lead(t)
    \/ RequestStep(t)
    \/ GlobalLead(t)
    \/ GlobalRead(t)
    \/ GlobalStep(t)
    \/ Land(t)
    \/ Finish(t)
    \/ ReadDirect(t)
    \/ FinishDirect(t)

EvalNext ==
    \/ \E t \in Tasks : CacheHit(t)
    \/ \E t \in Tasks : AskUpstream(t)
    \/ \E t \in Tasks : AskDedupe(t)
    \/ \E t \in Tasks : Evaluation(t)
    \/ \E io \in IOs : Expire(io)
    \/ Change
    \/ \E t \in Tasks : Drop(t)

EvalSpec == EvalInit /\ [][EvalNext]_evalVars

\* The runtime polls every woken future, and the upstream answers or times out.
EvalFairness ==
    \A t \in Tasks :
        WF_evalVars(Evaluation(t) \/ (Owner[t] \in gone /\ Drop(t)))

-----------------------------------------------------------------------------
\* eval_io(): of all requests in progress, at most one is at the upstream for
\* a deduplicated io, also after requests were dropped on either level.
OneUpstreamRead ==
    \A t, u \in Tasks :
        /\ gpc[t] \in {"exec", "publish"}
        /\ gpc[u] \in {"exec", "publish"}
        /\ gkey[t] = gkey[u]
        => t = u

\* eval(), eval_io(): a field never gets, and the response cache never keeps,
\* what was read and handed out before the request that obtained it first
\* asked: at worst it is as old as the execution that request joined.  Two
\* levels of shared executions and one of persisted results hand values on,
\* and the clock of IR::Cache starts only when a value is stored, which a slow
\* answer may be long after, over a newer one.  No error is ever kept.
NoOlderThanItsRequest ==
    /\ \A t \in Tasks : stage[t] \in {"fetched", "done"} =>
          value[t].version >= since[value[t].by][asked[t]]
    /\ \A io \in IOs : store[io] # Nothing =>
          /\ store[io].version >= since[store[io].by][io]
          /\ <<io, store[io].version>> \notin Down

\* eval_io(): the fields of a request that share a deduplicated io, and take
\* it from no cache, get one and the same value, whoever read it.
OneValuePerRequest ==
    \A t, u \in Tasks :
        /\ stage[t] = "done" /\ stage[u] = "done"
        /\ Owner[t] = Owner[u]
        /\ asked[t] = asked[u]
        /\ asked[t] \in Deduped \ Cached
        => value[t] = value[u]

\* eval_io(): a field that was asked for gets its value unless its own request
\* is dropped; other requests' drops, on either level, only delay it.
EveryFieldEnds ==
    \A t \in Tasks :
        stage[t] \in {"dedupe", "direct"} ~> stage[t] \in {"done", "dropped"}

-----------------------------------------------------------------------------
(* The inductive invariant behind the three invariants above.               *)

Values == [version : Nat, by : Requests \cup {"nobody"}]

\* The types of the variables; each execution has its entry in the histories.
EvalTypeOK ==
    /\ read \in [1..gexecs -> Nat]
    /\ made \in [1..execs -> Nat]
    /\ stage \in [Tasks -> {"new", "dedupe", "direct", "fetched", "done", "dropped"}]
    /\ asked \in [Tasks -> IOs]
    /\ value \in [Tasks -> Values]
    /\ store \in [IOs -> Values]
    /\ version \in Nat \ {0}
    /\ since \in [Requests -> [IOs -> Nat]]
    /\ gone \subseteq Requests

\* The two dedupe() calls of a field are nested, and made for its own key.
Nested ==
    \A t \in Tasks :
        /\ stage[t] = "dedupe" => pc[t] # "idle"
        /\ stage[t] \in {"direct", "fetched"} => asked[t] \notin Deduped
        /\ pc[t] # "idle" => /\ key[t] = RequestKey(t)
                             /\ stage[t] \in {"dedupe", "done"}
        /\ pc[t] \notin {"idle", "done"} => stage[t] = "dedupe"
        /\ gpc[t] # "idle" => gkey[t] = asked[t] /\ pc[t] \notin {"idle", "step", "await"}
        /\ gpc[t] \notin {"idle", "done"} => pc[t] = "exec"

\* The first question for an io is never dated later than what an execution
\* that was read and has not published yet brings, nor than the present.
DatedBack ==
    /\ \A t \in Tasks : stage[t] # "new" => since[Owner[t]][asked[t]] # 0
    /\ \A r \in Requests, io \in IOs : since[r][io] <= version
    /\ \A t \in Tasks : gpc[t] = "publish" =>
          /\ read[gchan[t]] # 0
          /\ \A r \in Requests : since[r][gkey[t]] <= read[gchan[t]]

\* What a call of the global dedupe has been sent is recent enough for the
\* request that made the call.
ReadRecently ==
    \A t \in Tasks :
        LET enough(e) == read[e] >= since[Owner[t]][asked[t]] IN
        /\ gpc[t] = "return" => enough(gchan[t])
        /\ gpc[t] = "await" /\ ginbox[t] # 0 => enough(ginbox[t])
        /\ gpc[t] = "done" => enough(gresult[t])

\* So is what the request's own dedupe hands on and keeps.
MadeRecently ==
    /\ \A t \in Tasks : pc[t] = "publish" =>
          made[chan[t]] >= since[Owner[t]][asked[t]]
    /\ \A r \in Requests, io \in IOs : cache[<<r, io>>].state = "ready" =>
          /\ since[r][io] # 0
          /\ made[cache[<<r, io>>].exec] >= since[r][io]

\* Values name a request that has asked.
ValuesDated ==
    /\ \A t \in Tasks : stage[t] \in {"fetched", "done"} =>
          value[t].by \in Requests /\ since[value[t].by][asked[t]] # 0
    /\ \A io \in IOs : store[io] # Nothing =>
          store[io].by \in Requests /\ since[store[io].by][io] # 0

\* Without a cache, a field's value is what its call of dedupe() returned.
ValueIsResult ==
    \A t \in Tasks : stage[t] = "done" /\ asked[t] \in Deduped \ Cached =>
        pc[t] = "done" /\ value[t] = ValueOf(made[result[t]], Owner[t])

\* eval() and eval_io() keep the two dedupes, the cache and the fields' values
\* consistent with the times at which the requests first asked.
EvalInv ==
    /\ FullInv
    /\ Global!FullInv
    /\ EvalTypeOK
    /\ Nested
    /\ DatedBack
    /\ ReadRecently
    /\ MadeRecently
    /\ ValuesDated
    /\ NoOlderThanItsRequest
    /\ ValueIsResult
=============================================================================
