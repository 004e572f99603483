-------------------------- MODULE JitExecutorProofs --------------------------
(***************************************************************************)
(* JitExecutor for any HTTP requests, operations and batches: OwnAnswer.   *)
(* Dedupe's own invariant is kept also by Drop, which cuts several calls   *)
(* of dedupe() off at once; on top of it JitInv says whose answer each     *)
(* plan, constant and execution is.  Followers are given their leader's    *)
(* answer, which is good for them because they have its key                *)
(* (ReceiverOfLeader) and a request that is told from the others is the    *)
(* only one of its key to share an execution (SameKeyGood); a constant     *)
(* that is kept is right for everybody who sends its document              *)
(* (StoredRight).                                                          *)
(***************************************************************************)
EXTENDS JitExecutor, DedupeProofs, SequenceTheorems

\* Append adds one entry to a history and keeps the others.
LEMMA HistoryGrows ==
    ASSUME NEW S, NEW s \in Seq(S), NEW v \in S
    PROVE  /\ Append(s, v) \in [1..Len(s) + 1 -> S]
           /\ Append(s, v)[Len(s) + 1] = v
           /\ \A i \in 1..Len(s) : Append(s, v)[i] = s[i]
<1> DEFINE a == Append(s, v)
<1>1. /\ a \in Seq(S) /\ Len(a) = Len(s) + 1 /\ a[Len(s) + 1] = v
      /\ \A i \in 1..Len(s) : a[i] = s[i]
  BY AppendProperties
<1>2. a \in [1..Len(a) -> S]
  BY <1>1, LenProperties
<1> QED
  BY <1>1, <1>2

-----------------------------------------------------------------------------
(* Dropping an HTTP request cancels all of its calls of dedupe(), each at    *)
(* one of the two awaits.                                                    *)

\* The calls of the tasks C are dropped together, nothing else is touched.
CancelAll(C) ==
    /\ \A t \in C : pc[t] \in {"exec", "await"}
    /\ pc' = [t \in Tasks |-> IF t \in C THEN "idle" ELSE pc[t]]
    /\ chan' = [t \in Tasks |-> IF pc'[t] = "idle" THEN 0 ELSE chan[t]]
    /\ inbox' = [t \in Tasks |-> IF pc'[t] = "idle" THEN 0 ELSE inbox[t]]
    /\ UNCHANGED <<cache, key, result, execs, calls, stale>>

\* dedupe(): nothing depends on leaders and followers being dropped one by one.
LEMMA CancelAllInv ==
    ASSUME FullInv, NEW C \in SUBSET Tasks, CancelAll(C)
    PROVE  FullInv'
<1> USE DEF FullInv, Inv, TypeOK
<1>1. /\ \A t \in Tasks : pc'[t] # "idle" => /\ pc'[t] = pc[t] /\ chan'[t] = chan[t]
                                             /\ inbox'[t] = inbox[t]
      /\ \A t \in Tasks : pc'[t] = "idle" => chan'[t] = 0 /\ inbox'[t] = 0
      /\ \A t \in Tasks : pc[t] = "done" => pc'[t] = "done"
      /\ UNCHANGED <<cache, key, result, execs, calls, stale>>
  BY DEF CancelAll
<1>2. TypeOK'
  BY DEF CancelAll
<1>3. \A e : InFlight(e)' => InFlight(e)
  BY <1>1 DEF InFlight
<1>4. ChannelsKnown'
  BY <1>1 DEF ChannelsKnown, Leading
<1>5. OneSender'
  BY <1>1 DEF OneSender, Leading
<1>6. LeaderOwnsEntry'
  BY <1>1 DEF LeaderOwnsEntry, Pending
<1>7. EntryOfLeader'
  BY <1>1 DEF EntryOfLeader, Leading, Pending
<1>8. ReceiverOfLeader'
  BY <1>1 DEF ReceiverOfLeader, Leading
<1>9. AnswerStored'
  BY <1>1 DEF AnswerStored, Ready
<1>10. StaleStaysOver'
  BY <1>1, <1>3 DEF StaleStaysOver, Leading
<1>11. FreshResult' /\ OneResult'
  BY <1>1 DEF FreshResult, OneResult, Ready
<1>12. ResultPending'
  BY <1>1 DEF ResultPending, CancelAll
<1>13. HandedOutIsOver'
  BY <1>1, <1>3 DEF HandedOutIsOver
<1> QED
  BY <1>2, <1>4, <1>5, <1>6, <1>7, <1>8, <1>9, <1>10, <1>11, <1>12, <1>13

\* The keys asked for are HTTP requests that were sent.
Sent == http \in [Https -> Keys]

\* execute(): everything else a task does to Dedupe is a step of it.
LEMMA DedupeKept == FullInv /\ Sent /\ [JitNext]_jitVars => FullInv' /\ Sent'
<1> SUFFICES ASSUME FullInv, Sent, [JitNext]_jitVars PROVE FullInv' /\ Sent'
  OBVIOUS
<1>1. ASSUME NEW t \in Tasks, Execution(t) PROVE [Next]_vars
  <2>1. CASE Enter(t)
    <3>1. OperationId(t) \in Keys
      BY DEF OperationId, Sent, Https
    <3> QED
      BY <2>1, <3>1 DEF Enter, Next
  <2>2. CASE Lead(t) \/ DedupeStep(t)
    BY <2>2 DEF Lead, DedupeStep, Next, Progress
  <2>3. CASE ~(Enter(t) \/ Lead(t) \/ DedupeStep(t))
    BY <1>1, <2>3 DEF Execution, ConstHit, ConstMiss, PlanHit, PlanMiss, Build, BuildFails,
       Leave, Start, Finish, Store
  <2> QED
    BY <2>1, <2>2, <2>3
<1>2. ASSUME NEW h \in Https, Drop(h) PROVE FullInv'
  <2> DEFINE C == {t \in TasksOf(h) : stage[t] = "dedupe"}
  <2>1. \A t \in Tasks : t \in C <=> t[1] = h /\ stage[t] = "dedupe"
    BY DEF TasksOf
  <2>2. \A t \in C : pc[t] \in {"exec", "await"}
    BY <1>2 DEF Drop, Parked
  <2>3. CancelAll(C)
    BY <1>2, <2>1, <2>2 DEF Drop, CancelAll
  <2> QED
    BY <2>3, CancelAllInv DEF TasksOf
<1>3. ASSUME UNCHANGED jitVars PROVE FullInv'
  <2>1. [Next]_vars
    BY <1>3 DEF jitVars
  <2> QED
    BY <2>1, FullNext
<1>4. http' = http
  BY DEF JitNext, jitVars, Execution, ConstHit, ConstMiss, PlanHit, PlanMiss, Build,
     BuildFails, Enter, Lead, DedupeStep, Leave, Start, Finish, Store, Drop
<1> QED
  BY <1>1, <1>2, <1>3, <1>4, FullNext DEF JitNext, Sent

\* dedupe_and_exec(): also under execute(), which drops the requests of a batch
\* together, no follower waits in vain and nobody is given a leftover.
THEOREM SharedExecutions == JitSpec => [](NoLostWakeup /\ FreshResult)
<1>1. JitInit => FullInv /\ Sent
  BY InitInv, InitSettled DEF JitInit, FullInv, Sent
<1>2. FullInv => NoLostWakeup /\ FreshResult
  BY DEF FullInv, Inv, NoLostWakeup, ReceiverOfLeader, Alive, Leading
<1> QED
  BY <1>1, <1>2, DedupeKept, PTL DEF JitSpec

-----------------------------------------------------------------------------
(* Whose answers are the same.                                               *)

\* What is said of a task from the HTTP requests alone.
SameFor(t) ==
    /\ Request(t)' = Request(t)
    /\ PlansFor(t)' = PlansFor(t)
    /\ Good(t)' = Good(t)
    /\ Right(t)' = Right(t)

\* It stays: the HTTP requests are what was sent, whatever happens.
LEMMA RequestsStay ==
    ASSUME http' = http
    PROVE  Asking' = Asking /\ \A t : SameFor(t)
<1>1. /\ Asking' = Asking
      /\ \A t : Request(t)' = Request(t) /\ Asked(t)' = Asked(t) /\ Own(t)' = Own(t)
  BY DEF Asking, Own, Asked, Request
<1>2. \A t : SameText(t)' = SameText(t) /\ AloneUnderKey(t)' = AloneUnderKey(t)
  BY <1>1 DEF SameText, AloneUnderKey
<1>3. \A t : OneName(t)' = OneName(t)
  BY <1>1, <1>2 DEF OneName
<1>4. \A t : Separate(t)' = Separate(t)
  BY <1>1, <1>2, <1>3 DEF Separate
<1>5. \A t : OfOthers(t)' = OfOthers(t)
  BY <1>1, <1>2 DEF OfOthers
<1> QED
  BY <1>1, <1>3, <1>4, <1>5 DEF SameFor, PlansFor, Good, Right

\* What the proofs need of Dedupe's invariant: its types, the executions that
\* are in somebody's hands, and that followers have their leader's key.
Known ==
    /\ pc \in [Tasks -> {"idle", "step", "await", "exec", "publish", "return", "done"}]
    /\ chan \in [Tasks -> Nat] /\ inbox \in [Tasks -> Nat] /\ result \in [Tasks -> Nat]
    /\ execs \in Nat
    /\ \A t \in Tasks :
          /\ pc[t] \in Leading => chan[t] \in 1..execs
          /\ pc[t] = "await" /\ inbox[t] # 0 => inbox[t] \in 1..execs
          /\ pc[t] = "done" => result[t] \in 1..execs
    /\ \A t, u \in Tasks :
          pc[t] = "await" /\ pc[u] \in Leading /\ chan[u] = chan[t] => key[u] = key[t]
    /\ \A k \in Keys : cache[k].state # "ready"

\* They follow from it.
LEMMA KnownFacts == JitInv => Known
<1> SUFFICES ASSUME JitInv PROVE Known
  OBVIOUS
<1> USE DEF JitInv, FullInv, Inv, TypeOK
<1>1. \A t \in Tasks :
         /\ pc[t] \in Leading => chan[t] \in 1..execs
         /\ pc[t] = "await" /\ inbox[t] # 0 => inbox[t] \in 1..execs
         /\ pc[t] = "done" => result[t] \in 1..execs
  BY DEF ChannelsKnown, HandedOutIsOver
<1>2. \A t, u \in Tasks :
         pc[t] = "await" /\ pc[u] \in Leading /\ chan[u] = chan[t] => key[u] = key[t]
  BY DEF ReceiverOfLeader
<1>3. \A k \in Keys : cache[k].state # "ready"
  BY JitAssumption DEF StaleStaysOver
<1> QED
  BY <1>1, <1>2, <1>3 DEF Known

\* Own and other outcomes are answers; one that is good for a request is right for it.
LEMMA GoodIsRight ==
    ASSUME JitTypeOK, NEW t \in Asking
    PROVE  Good(t) \subseteq Right(t) /\ Right(t) \subseteq Answers
<1>1. \A u \in Asking : http[u[1]] \in Keys
  BY DEF Asking, JitTypeOK, Https
<1>2. \A u \in Asking : OutcomesOf(http[u[1]]) \subseteq Answers
  BY <1>1 DEF Answers
<1>3. OfOthers(t) \subseteq Answers
  BY <1>2 DEF OfOthers, SameText
<1> QED
  BY <1>2, <1>3 DEF Good, Right

\* exec(): a plan for the request gives a good answer.
LEMMA AnswerGood ==
    ASSUME JitTypeOK, NEW t \in Asking, plan[t] \in PlansFor(t)
    PROVE  Answer(t) \in Good(t)
<1>1. Answer(t) \in OutcomesOf(http[t[1]])
  BY DEF Asking, PlansFor, Answer, OutcomesOf, Request
<1>2. Separate(t) => Answer(t) = Own(t)
  BY DEF Separate, PlansFor, Answer, Own
<1> QED
  BY <1>1, <1>2 DEF Good

\* operation_plans: where one sender of a document has no rival, no sender has.
LEMMA SameTextSameName ==
    ASSUME NEW t \in Asking, NEW u \in Asking, Request(t).query = Request(u).query, OneName(t)
    PROVE  Asked(u) = Asked(t) /\ OneName(u) /\ SameText(u) = SameText(t)
  BY DEF OneName, SameText

\* OperationId: what shared an execution with a request is good for it.
LEMMA SameKeyGood ==
    ASSUME JitTypeOK, NEW t \in Asking, NEW u \in Asking, key[t] = key[u],
           plan[t] \in PlansFor(t), CanDedupe(plan[t]),
           plan[u] \in PlansFor(u), CanDedupe(plan[u])
    PROVE  Good(t) \subseteq Good(u)
<1>1. /\ t \in Tasks /\ u \in Tasks /\ http[t[1]] = http[u[1]]
      /\ t[2] \in DOMAIN http[u[1]].requests
  BY DEF Asking, JitTypeOK
<1>2. ASSUME Separate(u) PROVE Separate(t) /\ Own(t) = Own(u)
  <2>1. CanDedupe(Asked(u)) /\ AloneUnderKey(u)
    BY <1>2 DEF Separate, PlansFor
  <2>2. Sharable(http[u[1]].requests[t[2]].query)
    BY <1>1 DEF Sharable, PlansFor, Request
  <2>3. Request(t) = Request(u)
    BY <1>1, <2>1, <2>2 DEF AloneUnderKey, Request
  <2>4. /\ Asked(t) = Asked(u) /\ Own(t) = Own(u)
        /\ SameText(t) = SameText(u) /\ AloneUnderKey(t)
    BY <1>1, <2>1, <2>3 DEF Asked, Own, SameText, AloneUnderKey
  <2> QED
    BY <1>2, <2>3, <2>4 DEF Separate, OneName
<1> QED
  BY <1>1, <1>2 DEF Good

\* const_execution_cache: what is kept of one request is right for whoever sends its
\* document.
LEMMA StoredRight ==
    ASSUME JitTypeOK, NEW t \in Asking, NEW u \in Asking,
           Request(t).query = Request(u).query,
           plan[t] \in PlansFor(t), Storable(t)
    PROVE  Good(t) \subseteq Right(u)
<1>1. t \in SameText(u) /\ u \in SameText(t)
  BY DEF SameText
<1>2. OutcomesOf(http[t[1]]) \subseteq OfOthers(u)
  <2>1. Frozen(Request(u).query)
    BY DEF Frozen, PlansFor, Storable
  <2> QED
    BY <1>1, <2>1 DEF OfOthers
<1>3. ASSUME Separate(u) PROVE Separate(t) /\ Own(t) = Own(u)
  <2>1. Asked(t) = Asked(u) /\ OneName(t) /\ SameText(t) = SameText(u)
    BY <1>3, SameTextSameName DEF Separate
  <2>2. plan[t] = Asked(t) /\ Asked(t) \in ConstOps \ ProtectedOps /\ Asked(t) \in Operations
    BY <2>1 DEF PlansFor, Storable
  <2>3. \A v \in SameText(t) : Request(v).vars = Request(u).vars /\ AloneUnderKey(v)
    BY <1>3, <2>1, <2>2 DEF Separate
  <2>4. Request(t).vars = Request(u).vars /\ AloneUnderKey(t)
    BY <1>1, <2>1, <2>3
  <2> QED
    BY <2>1, <2>2, <2>3, <2>4 DEF Separate, Own, Outcome
<1> QED
  BY <1>2, <1>3 DEF Good, Right

-----------------------------------------------------------------------------
(* One lemma per action.                                                     *)

\* The part of the invariant that is not Dedupe's.
JitRest ==
    /\ JitTypeOK
    /\ PlanOwn
    /\ CachesOwn
    /\ MadeOwn
    /\ AnswersRight

\* Steps outside dedupe() that neither store a plan nor a constant: the caches
\* and the executions stay as they were.
LEMMA Outside ==
    ASSUME JitInv, http' = http, UNCHANGED <<vars, made>>,
           \A u \in Tasks : stage'[u] = "dedupe" => stage[u] = "dedupe"
    PROVE  /\ MadeOwn'
           /\ UNCHANGED <<plans, consts>> => CachesOwn'
  BY RequestsStay DEF JitInv, MadeOwn, CachesOwn, SameFor, Leading, vars

\* const_execution_cache has the document's answer.
LEMMA ConstHitKept ==
    ASSUME JitInv, NEW t \in Tasks, ConstHit(t)
    PROVE  JitRest'
<1>1. /\ http' = http /\ UNCHANGED <<vars, made>>
      /\ Asking' = Asking /\ \A u : SameFor(u)
  BY RequestsStay DEF ConstHit
<1>2. \A u \in Tasks : /\ stage'[u] = "dedupe" => stage[u] = "dedupe"
                       /\ u # t => stage'[u] = stage[u] /\ plan'[u] = plan[u]
                                   /\ response'[u] = response[u]
  BY DEF ConstHit, JitInv, JitTypeOK, Goto, Reply
<1>3. t \in Asking
  BY DEF ConstHit, At, JitInv, JitTypeOK
<1>4. /\ response' = [response EXCEPT ![t] = consts[Request(t).query]]
      /\ consts[Request(t).query] \in Right(t) /\ consts[Request(t).query] \in Answers
  BY <1>3, GoodIsRight DEF ConstHit, Reply, JitInv, CachesOwn
<1>5. JitTypeOK'
  BY <1>1, <1>2, <1>3, <1>4 DEF JitInv, JitTypeOK, ConstHit, At, Goto, vars
<1>6. PlanOwn'
  BY <1>1, <1>2, <1>3, <1>4 DEF JitInv, PlanOwn, SameFor, JitTypeOK, ConstHit, At, Goto, vars
<1>7. CachesOwn'
  BY <1>1, <1>2, Outside DEF ConstHit
<1>8. MadeOwn'
  BY <1>1, <1>2, Outside
<1>9. AnswersRight'
  BY <1>1, <1>2, <1>3, <1>4 DEF JitInv, AnswersRight, SameFor, JitTypeOK, ConstHit, Goto
<1> QED
  BY <1>5, <1>6, <1>7, <1>8, <1>9 DEF JitRest

\* It has none.
LEMMA ConstMissKept ==
    ASSUME JitInv, NEW t \in Tasks, ConstMiss(t)
    PROVE  JitRest'
<1>1. /\ http' = http /\ UNCHANGED <<vars, made>>
      /\ Asking' = Asking /\ \A u : SameFor(u)
  BY RequestsStay DEF ConstMiss
<1>2. \A u \in Tasks : /\ stage'[u] = "dedupe" => stage[u] = "dedupe"
                       /\ u # t => stage'[u] = stage[u] /\ plan'[u] = plan[u]
                                   /\ response'[u] = response[u]
  BY DEF ConstMiss, JitInv, JitTypeOK, Goto, Reply
<1>3. t \in Asking
  BY DEF ConstMiss, At, JitInv, JitTypeOK
<1>4. JitTypeOK'
  BY <1>1, <1>2, <1>3 DEF JitInv, JitTypeOK, ConstMiss, At, Goto, vars
<1>5. PlanOwn'
  BY <1>1, <1>2, <1>3 DEF JitInv, PlanOwn, SameFor, JitTypeOK, ConstMiss, At, Goto, vars
<1>6. CachesOwn'
  BY <1>1, <1>2, Outside DEF ConstMiss
<1>7. MadeOwn'
  BY <1>1, <1>2, Outside
<1>8. AnswersRight'
  BY <1>1, <1>2, <1>3 DEF JitInv, AnswersRight, SameFor, ConstMiss, At, Goto
<1> QED
  BY <1>4, <1>5, <1>6, <1>7, <1>8 DEF JitRest

\* operation_plans has the document's plan.
LEMMA PlanHitKept ==
    ASSUME JitInv, NEW t \in Tasks, PlanHit(t)
    PROVE  JitRest'
<1>1. /\ http' = http /\ UNCHANGED <<vars, made>>
      /\ Asking' = Asking /\ \A u : SameFor(u)
  BY RequestsStay DEF PlanHit
<1>2. \A u \in Tasks : /\ stage'[u] = "dedupe" => stage[u] = "dedupe"
                       /\ u # t => stage'[u] = stage[u] /\ plan'[u] = plan[u]
                                   /\ response'[u] = response[u]
  BY DEF PlanHit, JitInv, JitTypeOK, Goto, Reply
<1>3. t \in Asking
  BY DEF PlanHit, At, JitInv, JitTypeOK
<1>4. /\ plan' = [plan EXCEPT ![t] = plans[Request(t).query]]
      /\ plans[Request(t).query] \in PlansFor(t) /\ plans[Request(t).query] \in Operations
  BY <1>3 DEF PlanHit, JitInv, CachesOwn, PlansFor
<1>5. JitTypeOK'
  BY <1>1, <1>2, <1>3, <1>4 DEF JitInv, JitTypeOK, PlanHit, At, Goto, vars
<1>6. PlanOwn'
  BY <1>1, <1>2, <1>3, <1>4 DEF JitInv, PlanOwn, SameFor, JitTypeOK, PlanHit, At, Goto, vars
<1>7. CachesOwn'
  BY <1>1, <1>2, Outside DEF PlanHit
<1>8. MadeOwn'
  BY <1>1, <1>2, Outside
<1>9. AnswersRight'
  BY <1>1, <1>2, <1>3, <1>4 DEF JitInv, AnswersRight, SameFor, PlanHit, At, Goto
<1> QED
  BY <1>5, <1>6, <1>7, <1>8, <1>9 DEF JitRest

\* It has none.
LEMMA PlanMissKept ==
    ASSUME JitInv, NEW t \in Tasks, PlanMiss(t)
    PROVE  JitRest'
<1>1. /\ http' = http /\ UNCHANGED <<vars, made>>
      /\ Asking' = Asking /\ \A u : SameFor(u)
  BY RequestsStay DEF PlanMiss
<1>2. \A u \in Tasks : /\ stage'[u] = "dedupe" => stage[u] = "dedupe"
                       /\ u # t => stage'[u] = stage[u] /\ plan'[u] = plan[u]
                                   /\ response'[u] = response[u]
  BY DEF PlanMiss, JitInv, JitTypeOK, Goto, Reply
<1>3. t \in Asking
  BY DEF PlanMiss, At, JitInv, JitTypeOK
<1>4. JitTypeOK'
  BY <1>1, <1>2, <1>3 DEF JitInv, JitTypeOK, PlanMiss, At, Goto, vars
<1>5. PlanOwn'
  BY <1>1, <1>2, <1>3 DEF JitInv, PlanOwn, SameFor, JitTypeOK, PlanMiss, At, Goto, vars
<1>6. CachesOwn'
  BY <1>1, <1>2, Outside DEF PlanMiss
<1>7. MadeOwn'
  BY <1>1, <1>2, Outside
<1>8. AnswersRight'
  BY <1>1, <1>2, <1>3 DEF JitInv, AnswersRight, SameFor, PlanMiss, At, Goto
<1> QED
  BY <1>4, <1>5, <1>6, <1>7, <1>8 DEF JitRest

\* The plan is made and stored.
LEMMA BuildKept ==
    ASSUME JitInv, NEW t \in Tasks, Build(t)
    PROVE  JitRest'
<1>1. /\ http' = http /\ UNCHANGED <<vars, made>>
      /\ Asking' = Asking /\ \A u : SameFor(u)
  BY RequestsStay DEF Build
<1>2. \A u \in Tasks : /\ stage'[u] = "dedupe" => stage[u] = "dedupe"
                       /\ u # t => stage'[u] = stage[u] /\ plan'[u] = plan[u]
                                   /\ response'[u] = response[u]
  BY DEF Build, JitInv, JitTypeOK, Goto, Reply
<1>3. t \in Asking
  BY DEF Build, At, JitInv, JitTypeOK
<1>4. plan' = [plan EXCEPT ![t] = Asked(t)] /\ Asked(t) \in Operations /\ Asked(t) \in PlansFor(t)
  BY DEF Build, PlansFor, Asked
<1>5. JitTypeOK'
  BY <1>1, <1>2, <1>3, <1>4 DEF JitInv, JitTypeOK, Build, At, Goto, vars
<1>6. PlanOwn'
  BY <1>1, <1>2, <1>3, <1>4 DEF JitInv, PlanOwn, SameFor, JitTypeOK, Build, At, Goto, vars
<1>7. CachesOwn'
  <2>1. \A u \in Asking : \/ plans'[Request(u).query] = plans[Request(u).query]
                            \/ /\ Request(u).query = Request(t).query
                               /\ plans'[Request(u).query] = Asked(t)
    BY DEF JitInv, JitTypeOK, Build
  <2> QED
    <3>1. \A u \in Asking : Request(u).query = Request(t).query => Asked(t) \in PlansFor(u)
      BY <1>3, <1>4 DEF PlansFor, OneName, SameText
    <3> QED
      BY <1>1, <1>4, <2>1, <3>1 DEF JitInv, CachesOwn, SameFor, Build
<1>8. MadeOwn'
  BY <1>1, <1>2, Outside
<1>9. AnswersRight'
  BY <1>1, <1>2, <1>3, <1>4 DEF JitInv, AnswersRight, SameFor, Build, At, Goto
<1> QED
  BY <1>5, <1>6, <1>7, <1>8, <1>9 DEF JitRest

\* There is no such operation in the document.
LEMMA BuildFailsKept ==
    ASSUME JitInv, NEW t \in Tasks, BuildFails(t)
    PROVE  JitRest'
<1>1. /\ http' = http /\ UNCHANGED <<vars, made>>
      /\ Asking' = Asking /\ \A u : SameFor(u)
  BY RequestsStay DEF BuildFails
<1>2. \A u \in Tasks : /\ stage'[u] = "dedupe" => stage[u] = "dedupe"
                       /\ u # t => stage'[u] = stage[u] /\ plan'[u] = plan[u]
                                   /\ response'[u] = response[u]
  BY DEF BuildFails, JitInv, JitTypeOK, Goto, Reply
<1>3. t \in Asking
  BY DEF BuildFails, At, JitInv, JitTypeOK
<1>4. /\ response' = [response EXCEPT ![t] = Failure]
      /\ Failure \in Right(t) /\ Failure \in Answers
  BY <1>3, GoodIsRight DEF BuildFails, Reply, Right, OutcomesOf, Own, JitInv
<1>5. JitTypeOK'
  BY <1>1, <1>2, <1>3, <1>4 DEF JitInv, JitTypeOK, BuildFails, At, Goto, vars
<1>6. PlanOwn'
  BY <1>1, <1>2, <1>3, <1>4 DEF JitInv, PlanOwn, SameFor, JitTypeOK, BuildFails, At, Goto, vars
<1>7. CachesOwn'
  BY <1>1, <1>2, Outside DEF BuildFails
<1>8. MadeOwn'
  BY <1>1, <1>2, Outside
<1>9. AnswersRight'
  BY <1>1, <1>2, <1>3, <1>4 DEF JitInv, AnswersRight, SameFor, JitTypeOK, BuildFails, Goto
<1> QED
  BY <1>5, <1>6, <1>7, <1>8, <1>9 DEF JitRest

\* dedupe() has returned.
LEMMA LeaveKept ==
    ASSUME JitInv, NEW t \in Tasks, Leave(t)
    PROVE  JitRest'
<1>1. /\ http' = http /\ UNCHANGED <<vars, made>>
      /\ Asking' = Asking /\ \A u : SameFor(u)
  BY RequestsStay DEF Leave
<1>2. \A u \in Tasks : /\ stage'[u] = "dedupe" => stage[u] = "dedupe"
                       /\ u # t => stage'[u] = stage[u] /\ plan'[u] = plan[u]
                                   /\ response'[u] = response[u]
  BY DEF Leave, JitInv, JitTypeOK, Goto, Reply
<1>3. t \in Asking
  BY DEF Leave, At, JitInv, JitTypeOK
<1>4. /\ response' = [response EXCEPT ![t] = made[result[t]]]
      /\ made[result[t]] \in Good(t) /\ made[result[t]] \in Answers
  BY <1>3, GoodIsRight DEF Leave, At, Reply, JitInv, MadeOwn
<1>5. JitTypeOK'
  BY <1>1, <1>2, <1>3, <1>4 DEF JitInv, JitTypeOK, Leave, At, Goto, vars
<1>6. PlanOwn'
  BY <1>1, <1>2, <1>3, <1>4 DEF JitInv, PlanOwn, SameFor, JitTypeOK, Leave, At, Goto, vars
<1>7. CachesOwn'
  BY <1>1, <1>2, Outside DEF Leave
<1>8. MadeOwn'
  BY <1>1, <1>2, Outside
<1>9. AnswersRight'
  BY <1>1, <1>2, <1>3, <1>4 DEF JitInv, AnswersRight, SameFor, JitTypeOK, Leave, Goto
<1> QED
  BY <1>5, <1>6, <1>7, <1>8, <1>9 DEF JitRest

\* The operation is not deduplicated;
LEMMA StartKept ==
    ASSUME JitInv, NEW t \in Tasks, Start(t)
    PROVE  JitRest'
<1>1. /\ http' = http /\ UNCHANGED <<vars, made>>
      /\ Asking' = Asking /\ \A u : SameFor(u)
  BY RequestsStay DEF Start
<1>2. \A u \in Tasks : /\ stage'[u] = "dedupe" => stage[u] = "dedupe"
                       /\ u # t => stage'[u] = stage[u] /\ plan'[u] = plan[u]
                                   /\ response'[u] = response[u]
  BY DEF Start, JitInv, JitTypeOK, Goto, Reply
<1>3. t \in Asking
  BY DEF Start, At, JitInv, JitTypeOK
<1>4. JitTypeOK'
  BY <1>1, <1>2, <1>3 DEF JitInv, JitTypeOK, Start, At, Goto, vars
<1>5. PlanOwn'
  BY <1>1, <1>2, <1>3 DEF JitInv, PlanOwn, SameFor, JitTypeOK, Start, At, Goto, vars
<1>6. CachesOwn'
  BY <1>1, <1>2, Outside DEF Start
<1>7. MadeOwn'
  BY <1>1, <1>2, Outside
<1>8. AnswersRight'
  BY <1>1, <1>2, <1>3 DEF JitInv, AnswersRight, SameFor, Start, At, Goto
<1> QED
  BY <1>4, <1>5, <1>6, <1>7, <1>8 DEF JitRest

\* it is executed.
LEMMA FinishKept ==
    ASSUME JitInv, NEW t \in Tasks, Finish(t)
    PROVE  JitRest'
<1>1. /\ http' = http /\ UNCHANGED <<vars, made>>
      /\ Asking' = Asking /\ \A u : SameFor(u)
  BY RequestsStay DEF Finish
<1>2. \A u \in Tasks : /\ stage'[u] = "dedupe" => stage[u] = "dedupe"
                       /\ u # t => stage'[u] = stage[u] /\ plan'[u] = plan[u]
                                   /\ response'[u] = response[u]
  BY DEF Finish, JitInv, JitTypeOK, Goto, Reply
<1>3. t \in Asking
  BY DEF Finish, At, JitInv, JitTypeOK
<1>4. /\ response' = [response EXCEPT ![t] = Answer(t)]
      /\ Answer(t) \in Good(t) /\ Answer(t) \in Answers
  BY <1>3, GoodIsRight, AnswerGood DEF Finish, At, Reply, JitInv, PlanOwn
<1>5. JitTypeOK'
  BY <1>1, <1>2, <1>3, <1>4 DEF JitInv, JitTypeOK, Finish, At, Goto, vars
<1>6. PlanOwn'
  BY <1>1, <1>2, <1>3, <1>4 DEF JitInv, PlanOwn, SameFor, JitTypeOK, Finish, At, Goto, vars
<1>7. CachesOwn'
  BY <1>1, <1>2, Outside DEF Finish
<1>8. MadeOwn'
  BY <1>1, <1>2, Outside
<1>9. AnswersRight'
  BY <1>1, <1>2, <1>3, <1>4 DEF JitInv, AnswersRight, SameFor, JitTypeOK, Finish, Goto
<1> QED
  BY <1>5, <1>6, <1>7, <1>8, <1>9 DEF JitRest

\* The response of a constant is stored.
LEMMA StoreKept ==
    ASSUME JitInv, NEW t \in Tasks, Store(t)
    PROVE  JitRest'
<1>1. /\ http' = http /\ UNCHANGED <<vars, made>>
      /\ Asking' = Asking /\ \A u : SameFor(u)
  BY RequestsStay DEF Store
<1>2. \A u \in Tasks : /\ stage'[u] = "dedupe" => stage[u] = "dedupe"
                       /\ u # t => stage'[u] = stage[u] /\ plan'[u] = plan[u]
                                   /\ response'[u] = response[u]
  BY DEF Store, JitInv, JitTypeOK, Goto, Reply
<1>3. t \in Asking
  BY DEF Store, At, JitInv, JitTypeOK
<1>4. /\ response[t] \in Good(t) /\ plan[t] \in PlansFor(t)
      /\ response[t] \in Right(t) /\ response[t] \in Answers
  BY <1>3, GoodIsRight DEF Store, At, JitInv, PlanOwn, AnswersRight
<1>5. JitTypeOK'
  <2>1. consts' \in [Texts -> Answers \cup {None}]
    BY <1>3, <1>4 DEF JitInv, JitTypeOK, Store
  <2> QED
    BY <1>1, <1>3, <2>1 DEF JitInv, JitTypeOK, Store, At, Goto, vars
<1>6. PlanOwn'
  BY <1>1, <1>2, <1>3, <1>4 DEF JitInv, PlanOwn, SameFor, JitTypeOK, Store, At, Goto, vars
<1>7. CachesOwn'
  <2>1. \A u \in Asking : \/ consts'[Request(u).query] = consts[Request(u).query]
                            \/ /\ Request(u).query = Request(t).query
                               /\ Storable(t)
                               /\ consts'[Request(u).query] = response[t]
    BY DEF JitInv, JitTypeOK, Store
  <2> QED
    <3>1. \A u \in Asking : Request(u).query = Request(t).query /\ Storable(t)
             => response[t] \in Right(u)
      BY <1>3, <1>4, StoredRight DEF JitInv
    <3> QED
      BY <1>1, <2>1, <3>1 DEF JitInv, CachesOwn, SameFor, Store
<1>8. MadeOwn'
  BY <1>1, <1>2, Outside
<1>9. AnswersRight'
  BY <1>1, <1>2, <1>3, <1>4 DEF JitInv, AnswersRight, SameFor, Store, At, Goto
<1> QED
  BY <1>5, <1>6, <1>7, <1>8, <1>9 DEF JitRest

-----------------------------------------------------------------------------
(* Inside dedupe().                                                          *)

\* Steps of dedupe() touch neither the caches nor the answers already given.
LEMMA Inside ==
    ASSUME JitInv, UNCHANGED <<http, response, plans, consts>>,
           \A u \in Tasks : stage'[u] \in {"store", "answered"} => stage'[u] = stage[u]
    PROVE  /\ CachesOwn'
           /\ AnswersRight'
  BY RequestsStay DEF JitInv, CachesOwn, AnswersRight, SameFor

\* Nor any plan or history, but those of the leader and of its executions.
LEMMA InsideTypes ==
    ASSUME JitInv, UNCHANGED <<http, stage, plan, response, plans, consts, made, key, execs>>
    PROVE  JitTypeOK'
  BY RequestsStay DEF JitInv, JitTypeOK

\* dedupe_and_exec() calls dedupe() with the OperationId.
LEMMA EnterKept ==
    ASSUME JitInv, NEW t \in Tasks, Enter(t)
    PROVE  JitRest'
<1>1. Known /\ JitTypeOK /\ PlanOwn /\ MadeOwn
  BY KnownFacts DEF JitInv
<1>2. /\ stage[t] = "planned" /\ CanDedupe(plan[t]) /\ stage' = [stage EXCEPT ![t] = "dedupe"]
      /\ pc' = [pc EXCEPT ![t] = "step"] /\ key' = [key EXCEPT ![t] = http[t[1]]]
      /\ result' = [result EXCEPT ![t] = 0] /\ UNCHANGED <<chan, inbox, execs, cache>>
      /\ UNCHANGED <<http, plan, response, plans, consts, made>>
  BY DEF Enter, Call, At, Goto, OperationId
<1>3. Asking' = Asking /\ \A u : SameFor(u)
  BY <1>2, RequestsStay
<1>4. JitTypeOK'
  <2>1. key' = [u \in Tasks |-> http[u[1]]]
    BY <1>1, <1>2 DEF JitTypeOK
  <2> QED
    BY <1>1, <1>2, <1>3, <2>1 DEF JitTypeOK
<1>5. PlanOwn'
  BY <1>1, <1>2, <1>3 DEF PlanOwn, SameFor, JitTypeOK, Known
<1>6. CachesOwn' /\ AnswersRight'
  BY <1>1, <1>2, Inside DEF JitTypeOK
<1>7. MadeOwn'
  BY <1>1, <1>2, <1>3 DEF MadeOwn, SameFor, Known, Leading, JitTypeOK
<1> QED
  BY <1>4, <1>5, <1>6, <1>7 DEF JitRest

\* The leader runs exec() for itself.
LEMMA LeadKept ==
    ASSUME JitInv, NEW t \in Tasks, Lead(t)
    PROVE  JitRest'
<1>1. Known /\ JitTypeOK /\ PlanOwn /\ MadeOwn
  BY KnownFacts DEF JitInv
<1>2. /\ stage[t] = "dedupe" /\ pc[t] = "step" /\ execs' = execs + 1
      /\ chan' = [chan EXCEPT ![t] = execs'] /\ pc' = [pc EXCEPT ![t] = "exec"]
      /\ UNCHANGED <<key, inbox, result, http, stage, plan, response, plans, consts>>
      /\ made' = Append(made, Answer(t))
  BY DEF Lead, StepInit, NewChannel, At
<1>3. Asking' = Asking /\ \A u : SameFor(u)
  BY <1>2, RequestsStay
<1>4. Answer(t) \in Good(t) /\ Answer(t) \in Answers
  <2>1. t \in Asking /\ plan[t] \in PlansFor(t)
    BY <1>1, <1>2 DEF PlanOwn, JitTypeOK
  <2> QED
    BY <1>1, <2>1, AnswerGood, GoodIsRight
<1>5. /\ made' \in [1..execs + 1 -> Answers] /\ made'[execs + 1] = Answer(t)
      /\ \A e \in 1..execs : made'[e] = made[e]
  <2>1. execs \in Nat /\ made \in [1..execs -> Answers]
    BY <1>1 DEF Known, JitTypeOK
  <2>2. made \in Seq(Answers) /\ Len(made) = execs
    BY ONLY <2>1
  <2> QED
    BY <1>2, <1>4, <2>2, HistoryGrows
<1>6. JitTypeOK'
  BY <1>1, <1>2, <1>3, <1>5 DEF JitTypeOK
<1>7. PlanOwn'
  BY <1>1, <1>2, <1>3 DEF PlanOwn, SameFor, Known
<1>8. CachesOwn' /\ AnswersRight'
  BY <1>2, Inside
<1>9. MadeOwn'
  BY <1>1, <1>2, <1>3, <1>4, <1>5 DEF MadeOwn, SameFor, Known, Leading
<1> QED
  BY <1>6, <1>7, <1>8, <1>9 DEF JitRest

\* A task calls dedupe(), joins, is sent a result or finds its leader gone; the
\* leader's exec() ends, it publishes and returns.  Only Publish makes an answer
\* somebody's who did not have it: its followers', who have its key.
LEMMA DedupeStepKept ==
    ASSUME JitInv, NEW t \in Tasks, DedupeStep(t)
    PROVE  JitRest'
<1>1. Known /\ JitTypeOK /\ PlanOwn /\ MadeOwn
  BY KnownFacts DEF JitInv
<1>2. /\ stage[t] = "dedupe"
      /\ UNCHANGED <<http, stage, plan, response, plans, consts, made>>
  BY DEF DedupeStep, At
<1>3. \A u : SameFor(u)
  BY <1>2, RequestsStay
<1>4. /\ UNCHANGED <<key, execs>> /\ pc[t] \notin {"idle", "done"}
      /\ \E p \in {"step", "await", "publish", "return", "done"} : pc' = [pc EXCEPT ![t] = p]
  BY <1>1 DEF DedupeStep, StepReturn, StepAwait, Recv, RecvErr, Execute, Publish, Return, Known
<1>5. JitTypeOK'
  BY <1>2, <1>4, InsideTypes
<1>6. PlanOwn'
  BY <1>1, <1>2, <1>3, <1>4 DEF PlanOwn, SameFor, Known
<1>7. CachesOwn' /\ AnswersRight'
  BY <1>2, Inside
<1>8. MadeOwn'
  <2>1. CASE StepReturn(t)
    BY <1>1, <2>1 DEF StepReturn, Known, JitTypeOK, Https
  <2>2. CASE StepAwait(t)
    BY <1>1, <1>2, <1>3, <2>2 DEF StepAwait, MadeOwn, SameFor, Known, Leading
  <2>3. CASE Recv(t)
    BY <1>1, <1>2, <1>3, <2>3 DEF Recv, MadeOwn, SameFor, Known, Leading
  <2>4. CASE RecvErr(t)
    BY <1>1, <1>2, <1>3, <2>4 DEF RecvErr, MadeOwn, SameFor, Known, Leading
  <2>5. CASE Execute(t)
    BY <1>1, <1>2, <1>3, <2>5 DEF Execute, MadeOwn, SameFor, Known, Leading
  <2>6. CASE Publish(t)
    <3>1. ASSUME NEW u \in Tasks, pc[u] = "await", chan[u] = chan[t]
          PROVE Good(t) \subseteq Good(u)
      <4>1. key[u] = key[t]
        BY <1>1, <2>6, <3>1 DEF Publish, Known, Leading
      <4>2. /\ stage[u] = "dedupe" /\ CanDedupe(plan[u]) /\ CanDedupe(plan[t])
            /\ plan[u] \in PlansFor(u) /\ plan[t] \in PlansFor(t)
        BY <1>1, <1>2, <3>1 DEF PlanOwn
      <4>3. t \in Asking /\ u \in Asking
        BY <1>1, <1>2, <4>2 DEF JitTypeOK
      <4> QED
        BY <1>1, <4>1, <4>2, <4>3, SameKeyGood
    <3>2. made[chan[t]] \in Good(t)
      BY <1>1, <2>6 DEF Publish, MadeOwn, Leading
    <3> QED
      BY <1>1, <1>2, <1>3, <2>6, <3>1, <3>2 DEF Publish, MadeOwn, SameFor, Known, Leading
  <2>7. CASE Return(t)
    BY <1>1, <1>2, <1>3, <2>7 DEF Return, MadeOwn, SameFor, Known, Leading
  <2> QED
    BY <2>1, <2>2, <2>3, <2>4, <2>5, <2>6, <2>7 DEF DedupeStep
<1> QED
  BY <1>5, <1>6, <1>7, <1>8 DEF JitRest

\* A client goes away, and with it all that its HTTP request was waiting for.
LEMMA DropKept ==
    ASSUME JitInv, NEW h \in Https, Drop(h)
    PROVE  JitRest'
<1>1. Known /\ JitTypeOK /\ PlanOwn /\ MadeOwn
  BY KnownFacts DEF JitInv
<1>2. /\ UNCHANGED <<cache, key, result, execs, http, plan, response, plans, consts, made>>
      /\ \A u \in Tasks : stage'[u] # "dropped" => stage'[u] = stage[u]
      /\ stage' \in [Tasks -> {"unused", "new", "lookup", "build", "planned", "dedupe",
                               "exec", "store", "answered", "dropped"}]
      /\ \A u \in Tasks : stage'[u] # "unused" => stage[u] # "unused"
  BY <1>1 DEF Drop, JitTypeOK
<1>3. Asking' = Asking /\ \A u : SameFor(u)
  BY <1>2, RequestsStay
<1>4. \A u \in Tasks : pc'[u] # "idle" =>
         /\ pc'[u] = pc[u] /\ chan'[u] = chan[u] /\ inbox'[u] = inbox[u]
         /\ stage[u] \in {"dedupe", "store", "answered"} => stage'[u] = stage[u]
  BY <1>1 DEF Drop
<1>5. JitTypeOK'
  BY <1>1, <1>2, <1>3 DEF JitTypeOK
<1>6. PlanOwn'
  BY <1>1, <1>2, <1>3, <1>4 DEF PlanOwn, SameFor, Known
<1>7. CachesOwn' /\ AnswersRight'
  BY <1>2, Inside
<1>8. MadeOwn'
  BY <1>1, <1>2, <1>3, <1>4 DEF MadeOwn, SameFor, Known, Leading
<1> QED
  BY <1>5, <1>6, <1>7, <1>8 DEF JitRest

-----------------------------------------------------------------------------
\* The caches are empty, and nobody has asked for anything.
LEMMA JitInitInv == JitInit => JitInv
<1> SUFFICES ASSUME JitInit PROVE JitInv
  OBVIOUS
<1>1. FullInv
  BY InitInv, InitSettled DEF JitInit, FullInv
<1>2. /\ \A t \in Tasks : pc[t] = "idle" /\ stage[t] \in {"new", "unused"}
      /\ \A q \in Texts : plans[q] = None /\ consts[q] = None
  BY DEF JitInit, Init
<1>3. JitTypeOK
  BY DEF JitInit, Init, JitTypeOK, Asking
<1>4. \A t \in Asking : Request(t).query \in Texts
  BY <1>3 DEF JitTypeOK, Asking, Https, Request, Texts
<1> QED
  BY <1>1, <1>2, <1>3, <1>4 DEF JitInv, PlanOwn, CachesOwn, MadeOwn, AnswersRight, Leading

\* Every step of execute() keeps the invariant, whatever is asked.
LEMMA JitNextInv == JitInv /\ [JitNext]_jitVars => JitInv'
<1> SUFFICES ASSUME JitInv, [JitNext]_jitVars PROVE JitInv'
  OBVIOUS
<1>1. FullInv'
  BY DedupeKept DEF JitInv, JitTypeOK, Sent
<1>2. JitRest'
  <2>1. ASSUME NEW t \in Tasks, Execution(t) PROVE JitRest'
    BY <2>1, ConstHitKept, ConstMissKept, PlanHitKept, PlanMissKept, BuildKept, BuildFailsKept,
       EnterKept, LeadKept, DedupeStepKept, LeaveKept, StartKept, FinishKept, StoreKept
    DEF Execution
  <2>2. ASSUME NEW h \in Https, Drop(h) PROVE JitRest'
    BY <2>2, DropKept
  <2>3. CASE UNCHANGED jitVars
    <3>1. /\ UNCHANGED <<vars, http, stage, plan, response, plans, consts, made>>
          /\ UNCHANGED <<pc, key, chan, inbox, result, execs>>
      BY <2>3 DEF jitVars, vars
    <3>2. JitTypeOK' /\ PlanOwn' /\ MadeOwn'
      BY <3>1, InsideTypes, RequestsStay DEF JitInv, PlanOwn, MadeOwn, SameFor, Leading
    <3> QED
      BY <3>1, <3>2, Inside DEF JitRest
  <2> QED
    BY <2>1, <2>2, <2>3 DEF JitNext
<1> QED
  BY <1>1, <1>2 DEF JitInv, JitRest

\* execute(): whatever is sent, whatever the caches hold, whoever shares an
\* execution and whoever goes away meanwhile, a request that can be told from
\* the others sent is answered with its own outcome, and any other one with an
\* outcome of its HTTP request, or of one that sent the document of a constant.
THEOREM AnswersAreOwn == JitSpec => []OwnAnswer
<1>1. JitInit => JitInv
  BY JitInitInv
<1>2. JitInv /\ [JitNext]_jitVars => JitInv'
  BY JitNextInv
<1>3. JitInv => OwnAnswer
  BY DEF JitInv, AnswersRight, OwnAnswer
<1> QED
  BY <1>1, <1>2, <1>3, PTL DEF JitSpec
=============================================================================
