---------------------------- MODULE JitExecutor ----------------------------
(***************************************************************************)
(* JITExecutor (src/core/jit/graphql_executor.rs): what happens to a       *)
(* GraphQL request between the HTTP server and the resolvers.  Three       *)
(* structures of AppContext are shared by all HTTP requests: the cache of  *)
(* constant responses and the cache of operation plans, both keyed by a    *)
(* hash of the query's text, and the Dedupe instance that lets concurrent  *)
(* equal HTTP requests share one execution, keyed by the OperationId, a    *)
(* hash of the HTTP request's headers and of its whole body.               *)
(*                                                                         *)
(* A task is the future execute(request) of one GraphQL request: <<h, i>>  *)
(* is the i-th of HTTP request h, which has several only if it is a batch. *)
(* Keys are the HTTP requests a client may send, standing for their own    *)
(* OperationId (hashes do not collide).                                    *)
(*                                                                         *)
(* A response is abstracted to what it depends on: the operation that was  *)
(* run, the variables and the headers it was run with.                     *)
(***************************************************************************)
EXTENDS Dedupe, Sequences

CONSTANTS
    Operations,     \* the operations there are: [query, name]
    ConstOps,       \* those whose plan has is_const,
    ProtectedOps,   \* is_protected,
    DedupeOps       \* is_dedupe or min_cache_ttl (and is a query)

ASSUME JitAssumption ==
    /\ \A op \in Operations : DOMAIN op = {"query", "name"}
    /\ ConstOps \cup ProtectedOps \cup DedupeOps \subseteq Operations
    /\ \A k \in Keys : DOMAIN k = {"headers", "requests"}
    /\ ~Persist

VARIABLES
    http,       \* the HTTP requests
    stage,      \* where each task stands in execute()
    plan,       \* the operation whose plan a task has in hand
    response,   \* the response it will return
    plans,      \* operation_plans: query -> operation
    consts,     \* const_execution_cache: query -> response
    made        \* the response of each deduplicated execution

jitVars == <<vars, http, stage, plan, response, plans, consts, made>>

Https == {t[1] : t \in Tasks}
TasksOf(h) == {t \in Tasks : t[1] = h}

Texts == UNION {{k.requests[i].query : i \in DOMAIN k.requests} : k \in Keys}

None == [op |-> "none"]
Failure == [op |-> "error"]

Request(t) == http[t[1]].requests[t[2]]

\* get_operation(): what the request asks to be run, if the document has it.
Asked(t) == [query |-> Request(t).query, name |-> Request(t).name]

\* exec(): the plan decides the operation, the request brings the variables,
\* the HTTP request the headers; the plan of a constant needs no headers
\* unless it is protected.
Outcome(op, vars_, headers) ==
    [op |-> op, vars |-> vars_,
     headers |-> IF op \in ConstOps \ ProtectedOps THEN "any" ELSE headers]

Answer(t) == Outcome(plan[t], Request(t).vars, http[t[1]].headers)

\* The answer the client of task t is owed.
Own(t) == IF Asked(t) \in Operations
          THEN Outcome(Asked(t), Request(t).vars, http[t[1]].headers)
          ELSE Failure

CanDedupe(op) == op \in DedupeOps \cup ConstOps

\* Mutated form: the headers are not hashed.
OperationId_Body(t) == CHOOSE k \in Keys : k.requests = http[t[1]].requests

\* GraphQLRequestLike::operation_id(): headers and whole body, for every
\* request of a batch the same.
OperationId(t) == http[t[1]]

\* A batch is polled by one task of the runtime: a request of it runs only
\* while the others stand at an await.
Parked(t) ==
    \/ stage[t] \in {"unused", "new", "exec", "answered", "dropped"}
    \/ stage[t] = "dedupe" /\ pc[t] \in {"exec", "await"}

Alone(t) == \A u \in TasksOf(t[1]) \ {t} : Parked(u)

JitInit ==
    /\ http \in [Https -> Keys]
    /\ key = [t \in Tasks |-> http[t[1]]]
    /\ Init
    /\ stage = [t \in Tasks |-> IF t[2] \in DOMAIN http[t[1]].requests
                                THEN "new" ELSE "unused"]
    /\ plan = [t \in Tasks |-> None]
    /\ response = [t \in Tasks |-> None]
    /\ plans = [q \in Texts |-> None]
    /\ consts = [q \in Texts |-> None]
    /\ made = <<>>

At(t, s) == stage[t] = s /\ Alone(t)
Goto(t, s) == stage' = [stage EXCEPT ![t] = s]
Reply(t, r) == response' = [response EXCEPT ![t] = r]

(***************************************************************************)
(* const_execution_cache.get()                                             *)
(***************************************************************************)
ConstHit(t) ==
    /\ At(t, "new")
    /\ consts[Request(t).query] # None
    /\ Reply(t, consts[Request(t).query])
    /\ Goto(t, "answered")
    /\ UNCHANGED <<vars, http, plan, plans, consts, made>>

ConstMiss(t) ==
    /\ At(t, "new")
    /\ consts[Request(t).query] = None
    /\ Goto(t, "lookup")
    /\ UNCHANGED <<vars, http, plan, response, plans, consts, made>>

(***************************************************************************)
(* operation_plans.get(), else ConstValueExecutor::try_new() and insert(); *)
(* several requests may miss and build the same plan.                      *)
(***************************************************************************)
PlanHit(t) ==
    /\ At(t, "lookup")
    /\ plans[Request(t).query] # None
    /\ plan' = [plan EXCEPT ![t] = plans[Request(t).query]]
    /\ Goto(t, "planned")
    /\ UNCHANGED <<vars, http, response, plans, consts, made>>

PlanMiss(t) ==
    /\ At(t, "lookup")
    /\ plans[Request(t).query] = None
    /\ Goto(t, "build")
    /\ UNCHANGED <<vars, http, plan, response, plans, consts, made>>

Build(t) ==
    /\ At(t, "build")
    /\ Asked(t) \in Operations
    /\ plan' = [plan EXCEPT ![t] = Asked(t)]
    /\ plans' = [plans EXCEPT ![Request(t).query] = Asked(t)]
    /\ Goto(t, "planned")
    /\ UNCHANGED <<vars, http, response, consts, made>>

BuildFails(t) ==
    /\ At(t, "build")
    /\ Asked(t) \notin Operations
    /\ Reply(t, Failure)
    /\ Goto(t, "answered")
    /\ UNCHANGED <<vars, http, plan, plans, consts, made>>

(***************************************************************************)
(* dedupe_and_exec(): the whole of Dedupe, with exec() as or_else.         *)
(***************************************************************************)
Enter(t) ==
    /\ At(t, "planned")
    /\ CanDedupe(plan[t])
    /\ Call(t, OperationId(t))
    /\ Goto(t, "dedupe")
    /\ UNCHANGED <<http, plan, response, plans, consts, made>>

Lead(t) ==
    /\ At(t, "dedupe")
    /\ StepInit(t)
    /\ made' = Append(made, Answer(t))
    /\ UNCHANGED <<http, stage, plan, response, plans, consts>>

DedupeStep(t) ==
    /\ At(t, "dedupe")
    /\ \/ StepReturn(t)
       \/ StepAwait(t)
       \/ Recv(t)
       \/ RecvErr(t)
       \/ Execute(t)
       \/ Publish(t)
       \/ Return(t)
    /\ UNCHANGED <<http, stage, plan, response, plans, consts, made>>

Leave(t) ==
    /\ At(t, "dedupe")
    /\ pc[t] = "done"
    /\ Reply(t, made[result[t]])
    /\ Goto(t, "store")
    /\ UNCHANGED <<vars, http, plan, plans, consts, made>>

(***************************************************************************)
(* exec() without deduplication                                            *)
(***************************************************************************)
Start(t) ==
    /\ At(t, "planned")
    /\ ~CanDedupe(plan[t])
    /\ Goto(t, "exec")
    /\ UNCHANGED <<vars, http, plan, response, plans, consts, made>>

Finish(t) ==
    /\ At(t, "exec")
    /\ Reply(t, Answer(t))
    /\ Goto(t, "store")
    /\ UNCHANGED <<vars, http, plan, plans, consts, made>>

(***************************************************************************)
(* const_execution_cache.insert()                                          *)
(***************************************************************************)
\* is_const && !is_protected
Storable(t) == plan[t] \in ConstOps \ ProtectedOps

Store(t) ==
    /\ At(t, "store")
    /\ consts' = IF Storable(t)
                 THEN [consts EXCEPT ![Request(t).query] = response[t]]
                 ELSE consts
    /\ Goto(t, "answered")
    /\ UNCHANGED <<vars, http, plan, response, plans, made>>

(***************************************************************************)
(* The client goes away while its request waits: the future of the whole   *)
(* HTTP request is dropped.                                                *)
(***************************************************************************)
Drop(h) ==
    /\ \A t \in TasksOf(h) : Parked(t)
    /\ \E t \in TasksOf(h) : stage[t] \in {"dedupe", "exec"}
    /\ stage' = [t \in Tasks |->
         IF t[1] = h /\ stage[t] \in {"new", "dedupe", "exec"}
         THEN "dropped" ELSE stage[t]]
    /\ pc' = [t \in Tasks |->
         IF t[1] = h /\ stage[t] = "dedupe" THEN "idle" ELSE pc[t]]
    /\ chan' = [t \in Tasks |-> IF pc'[t] = "idle" THEN 0 ELSE chan[t]]
    /\ inbox' = [t \in Tasks |-> IF pc'[t] = "idle" THEN 0 ELSE inbox[t]]
    /\ UNCHANGED <<cache, key, result, execs, calls, stale,
                   http, plan, response, plans, consts, made>>

-----------------------------------------------------------------------------
Execution(t) ==
    \/ ConstHit(t)
    \/ ConstMiss(t)
    \/ PlanHit(t)
    \/ PlanMiss(t)
    \/ Build(t)
    \/ BuildFails(t)
    \/ Enter(t)
    \/ Lead(t)
    \/ DedupeStep(t)
    \/ Leave(t)
    \/ Start(t)
    \/ Finish(t)
    \/ Store(t)

JitNext ==
    \/ \E t \in Tasks : Execution(t)
    \/ \E h \in Https : Drop(h)

JitSpec == JitInit /\ [][JitNext]_jitVars

\* The runtime polls every woken future, and resolvers terminate.
Fairness == \A t \in Tasks : WF_jitVars(Execution(t))

-----------------------------------------------------------------------------
(* Whose answers the code keeps apart, among the requests that were sent.    *)

Asking == {t \in Tasks : t[2] \in DOMAIN http[t[1]].requests}
SameText(t) == {u \in Asking : Request(u).query = Request(t).query}

\* A document that has an operation whose execution is shared, or whose response is kept
\* for everybody who sends the document.
Sharable(text) == \E op \in Operations : op.query = text /\ CanDedupe(op)
Frozen(text) == \E op \in ConstOps \ ProtectedOps : op.query = text

\* operation_plans is keyed by the document alone: whoever sends it asks for the same
\* operation of it.
OneName(t) == \A u \in SameText(t) : Asked(u) = Asked(t)

\* The requests of a batch have one OperationId: no other one of them is shared.
AloneUnderKey(t) ==
    \A j \in DOMAIN http[t[1]].requests :
        \/ http[t[1]].requests[j] = Request(t)
        \/ ~Sharable(http[t[1]].requests[j].query)

\* A response kept by const_execution_cache is one for all: whoever sends the document of
\* a constant does so with the same variables, and got a response of its own.
Separate(t) ==
    /\ OneName(t)
    /\ Asked(t) \in ConstOps \ ProtectedOps =>
          \A u \in SameText(t) : Request(u).vars = Request(t).vars /\ AloneUnderKey(u)
    /\ CanDedupe(Asked(t)) => AloneUnderKey(t)

\* A failure, or what some request of the HTTP request k can come to, whichever operation
\* of its document the plan at hand is of.
OutcomesOf(k) ==
    {Failure} \cup
    UNION {{Outcome(op, k.requests[i].vars, k.headers) :
               op \in {o \in Operations : o.query = k.requests[i].query}} :
              i \in DOMAIN k.requests}

OfOthers(t) ==
    IF Frozen(Request(t).query) THEN UNION {OutcomesOf(http[u[1]]) : u \in SameText(t)} ELSE {}

\* t's own answer if t can be told from the others; else at least one of its HTTP request,
\* or of another one that sent the document of a constant.
Right(t) ==
    {a \in OutcomesOf(http[t[1]]) \cup OfOthers(t) : Separate(t) => a = Own(t)}

\* execute(): whatever the two caches hold and whoever shares an execution,
\* a request that can be told from the others is answered with the outcome of
\* its own operation, run with its own variables and with headers equal to its
\* own; and also any other one never with the outcome of another HTTP request,
\* unless its document has a constant and the other one sent that document.
OwnAnswer ==
    \A t \in Tasks : stage[t] = "answered" => response[t] \in Right(t)

\* execute_batch(), "Execute a GraphQL batch query": each request of a batch
\* is answered with its own outcome.
BatchAnsweredApart ==
    \A t \in Tasks : stage[t] = "answered" => response[t] = Own(t)

\* execute_batch() and dedupe(): every request is answered unless its client
\* goes away, also when the leader of its execution does.
EveryRequestAnswered ==
    \A t \in Tasks :
        stage[t] = "new" ~> stage[t] \in {"answered", "dropped"}

-----------------------------------------------------------------------------
(* The inductive invariant behind OwnAnswer.                                 *)

Answers == {Failure} \cup UNION {OutcomesOf(k) : k \in Keys}

\* The types; each execution has its entry in made.
JitTypeOK ==
    /\ http \in [Https -> Keys]
    /\ stage \in [Tasks -> {"unused", "new", "lookup", "build", "planned", "dedupe",
                            "exec", "store", "answered", "dropped"}]
    /\ plan \in [Tasks -> Operations \cup {None}]
    /\ response \in [Tasks -> Answers \cup {None}]
    /\ plans \in [Texts -> Operations \cup {None}]
    /\ consts \in [Texts -> Answers \cup {None}]
    /\ made \in [1..execs -> Answers]
    /\ key = [t \in Tasks |-> http[t[1]]]
    /\ \A t \in Tasks : stage[t] # "unused" => t \in Asking

\* The plan of an operation of t's document, of the one it asks for if nobody else asks
\* for another one.
PlansFor(t) ==
    {op \in Operations : op.query = Request(t).query /\ (OneName(t) => op = Asked(t))}

\* A plan in hand is one for the task; only what can be shared is in dedupe().
PlanOwn ==
    \A t \in Tasks :
        /\ stage[t] \in {"planned", "dedupe", "exec", "store"} => plan[t] \in PlansFor(t)
        /\ stage[t] = "dedupe" => CanDedupe(plan[t])
        /\ pc[t] \notin {"idle", "done"} => stage[t] = "dedupe"
        /\ pc[t] = "done" => stage[t] \in {"dedupe", "store", "answered"}

\* The caches hold what is right for anybody who sends the document,
CachesOwn ==
    \A t \in Asking :
        LET q == Request(t).query IN
        /\ plans[q] # None => plans[q] \in PlansFor(t)
        /\ consts[q] # None => consts[q] \in Right(t)

\* An answer that is t's own if t can be told from the others, and else at least of its
\* HTTP request.
Good(t) == {a \in OutcomesOf(http[t[1]]) : Separate(t) => a = Own(t)}

\* and an execution that a task leads or follows is good for it.
MadeOwn ==
    \A t \in Tasks :
        /\ pc[t] \in Leading => made[chan[t]] \in Good(t)
        /\ pc[t] = "await" /\ inbox[t] # 0 => made[inbox[t]] \in Good(t)
        /\ stage[t] = "dedupe" /\ pc[t] = "done" => made[result[t]] \in Good(t)

AnswersRight ==
    \A t \in Tasks :
        /\ stage[t] = "store" => response[t] \in Good(t)
        /\ stage[t] = "answered" => response[t] \in Right(t)

\* execute() keeps plans, constants, executions and answers with their askers.
JitInv ==
    /\ FullInv
    /\ JitTypeOK
    /\ PlanOwn
    /\ CachesOwn
    /\ MadeOwn
    /\ AnswersRight
=============================================================================
