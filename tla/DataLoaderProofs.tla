-------------------------- MODULE DataLoaderProofs --------------------------
(***************************************************************************)
(* DataLoader for any calls, keys, limits and cache: the batch being       *)
(* collected always has a timer, every unanswered call has its sender in   *)
(* exactly one place, and what a call is answered is complete and fresh.   *)
(***************************************************************************)
EXTENDS DataLoader, FiniteSetTheorems, TLAPS

\* A timer more is at least one timer: the count behind StartFetch.
LEMMA OneMore ==
    ASSUME NEW m \in Nat, NEW n \in Nat
    PROVE  (m + 1) + n > 0 /\ n + (m + 1) > 0
  OBVIOUS

\* DataLoader::new() starts consistent.
LEMMA InitInv == Init => Inv
<1> SUFFICES ASSUME Init PROVE Inv
  OBVIOUS
<1>1. TypeOK
  <2>1. disableOne \in BOOLEAN /\ disableAll \in BOOLEAN
    BY Zenon DEF Init
  <2>2. /\ keys \subseteq Keys /\ pending \subseteq Calls
        /\ batches \subseteq BatchType
        /\ version \in Nat
        /\ cache \in [Keys -> Nat]
        /\ timers \in [BOOLEAN -> Nat]
    BY DEF Init, NoValues
  <2>3. /\ pc \in [Calls -> {"new", "immediate", "start", "wait", "done",
                              "dropped"}]
        /\ asked \in [Calls -> SUBSET Keys]
        /\ want \in [Calls -> SUBSET Keys]
        /\ answer \in [Calls -> [Keys -> Nat]]
        /\ sent \in [Calls -> {"none", "ok", "err"}]
        /\ since \in [Calls -> Nat]
    BY DEF Init, NoValues
  <2> QED
    BY <2>1, <2>2, <2>3 DEF TypeOK
<1>2. KeysWanted /\ TimerArmed /\ OnePlace /\ Holding /\ ReadLater
  BY DEF Init, KeysWanted, TimerArmed, OnePlace, Unanswered, Holding, ReadLater
<1>3. HoldsHits /\ CompleteAnswer /\ FreshLoad
  BY DEF Init, HoldsHits, CompleteAnswer, FreshLoad, NoValues
<1> QED
  BY <1>1, <1>2, <1>3 DEF Inv

\* The invariant when load_many answers from the cache.
LEMMA ReturnCachedInv ==
    ASSUME Inv, NEW c \in Calls, NEW K \in SUBSET Keys, ReturnCached(c, K)
    PROVE  Inv'
<1>1. TypeOK'
  BY DEF Inv, TypeOK, ReturnCached, Enter, Misses, Hits, caller, BatchType
<1>2. KeysWanted'
  BY DEF Inv, TypeOK, ReturnCached, Enter, Misses, Hits, caller, BatchType,
         KeysWanted, OnePlace, Unanswered
<1>3. TimerArmed'
  BY DEF Inv, TypeOK, ReturnCached, Enter, Misses, Hits, caller, BatchType,
         TimerArmed, KeysWanted, OnePlace, Unanswered
<1>4. OnePlace'
  BY DEF Inv, TypeOK, ReturnCached, Enter, Misses, Hits, caller, BatchType,
         OnePlace, Unanswered, Holding, KeysWanted
<1>5. Holding'
  BY DEF Inv, TypeOK, ReturnCached, Enter, Misses, Hits, caller, BatchType,
         Holding, OnePlace, Unanswered
<1>6. HoldsHits'
  BY DataLoaderAssumption DEF Inv, TypeOK, ReturnCached, Enter, Misses,
         Hits, caller, BatchType, HoldsHits, OnePlace, Unanswered,
         ReadLater
<1>7. ReadLater'
  BY DEF Inv, TypeOK, ReturnCached, Enter, Misses, Hits, caller, BatchType,
         ReadLater, OnePlace, Unanswered
<1>8. CompleteAnswer'
  BY DataLoaderAssumption DEF Inv, TypeOK, ReturnCached, Enter, Misses,
         Hits, caller, BatchType, CompleteAnswer, HoldsHits, OnePlace,
         Unanswered, ReadLater, Holding
<1>9. FreshLoad'
  BY DataLoaderAssumption DEF Inv, TypeOK, ReturnCached, Enter, Misses,
         Hits, caller, BatchType, FreshLoad, ReadLater, OnePlace,
         Unanswered, Holding
<1> QED
  BY <1>1, <1>2, <1>3, <1>4, <1>5, <1>6, <1>7, <1>8, <1>9 DEF Inv

\* The invariant when a call fills the batch.
LEMMA JoinAndLoadInv ==
    ASSUME Inv, NEW c \in Calls, NEW K \in SUBSET Keys, JoinAndLoad(c, K)
    PROVE  Inv'
<1> DEFINE n == Taken(c, K)
<1>a. /\ n \in BatchType
      /\ n.keys = keys \cup Misses(K)
      /\ n.calls = pending \cup {c}
      /\ n.stage = "taken"
  BY DEF Inv, TypeOK, BatchType, Taken, Batch, Misses
<1>b. /\ batches' = batches \cup {n}
      /\ keys' = {} /\ pending' = {}
      /\ pc[c] = "new" /\ pc' = [pc EXCEPT ![c] = "immediate"]
      /\ UNCHANGED <<cache, disableOne, disableAll, timers, sent, version>>
  BY DEF JoinAndLoad, Enter
<1>c. /\ asked' = [asked EXCEPT ![c] = K]
      /\ want' = [want EXCEPT ![c] = Misses(K)]
      /\ since' = [since EXCEPT ![c] = version]
      /\ answer' = [answer EXCEPT ![c] =
                        [k \in Keys |-> IF k \in Hits(K) THEN cache[k] ELSE 0]]
  BY DEF JoinAndLoad, Enter
<1>d. /\ Misses(K) \subseteq Keys /\ K \ Misses(K) = Hits(K)
      /\ Misses(K) \subseteq K /\ Misses(K) # {}
      /\ \A k \in Hits(K) : cache[k] # 0
  BY DEF Misses, Hits, JoinAndLoad
<1> HIDE DEF n
<1>1. TypeOK'
  BY <1>a, <1>b, <1>c, <1>d DEF Inv, TypeOK
<1>2. KeysWanted'
  BY <1>a, <1>b, <1>c, <1>d DEF Inv, TypeOK, KeysWanted, OnePlace,
         Unanswered
<1>3. TimerArmed'
  BY <1>a, <1>b, <1>c, <1>d DEF Inv, TypeOK, TimerArmed, KeysWanted,
         OnePlace, Unanswered
<1>4. OnePlace'
  BY <1>a, <1>b, <1>c, <1>d DEF Inv, TypeOK, OnePlace, Unanswered, Holding,
         KeysWanted
<1>5. Holding'
  <2>1. c \notin pending /\ \A b \in batches : c \notin b.calls
    BY <1>b DEF Inv, OnePlace, Unanswered
  <2>2. pc'[c] = "immediate" /\ \A d \in Calls \ {c} : pc'[d] = pc[d]
    BY <1>b DEF Inv, TypeOK
  <2>3. \A b \in batches : b.calls \subseteq Calls
    BY DEF Inv, TypeOK, BatchType
  <2>4. /\ \A d \in Calls : pc'[d] = "immediate" =>
              \E b \in batches' : d \in b.calls /\ b.stage = "taken"
        /\ \A b \in batches' : b.stage = "taken" =>
              \E d \in b.calls : pc'[d] = "immediate"
    BY <1>a, <1>b, <2>1, <2>2, <2>3 DEF Inv, Holding
  <2>5. \A b \in batches' : \A d, e \in b.calls :
            pc'[d] = "immediate" /\ pc'[e] = "immediate" => d = e
    BY <1>a, <1>b, <2>1, <2>2, <2>3 DEF Inv, TypeOK, Holding
  <2>6. \A d \in Calls :
            /\ pc'[d] = "immediate" => sent'[d] = "none"
            /\ pc'[d] = "done" => sent'[d] # "none"
            /\ pc'[d] = "new" => sent'[d] = "none"
    BY <1>b, <2>2 DEF Inv, Holding
  <2> QED
    BY <1>b, <2>4, <2>5, <2>6 DEF Holding
<1>6. HoldsHits'
  BY DataLoaderAssumption, <1>a, <1>b, <1>c, <1>d DEF Inv, TypeOK,
         HoldsHits, OnePlace, Unanswered, ReadLater
<1>7. ReadLater'
  BY <1>a, <1>b, <1>c, <1>d DEF Inv, TypeOK, ReadLater, OnePlace,
         Unanswered
<1>8. CompleteAnswer'
  BY DataLoaderAssumption, <1>a, <1>b, <1>c, <1>d DEF Inv, TypeOK,
         CompleteAnswer, HoldsHits, OnePlace, Unanswered, ReadLater,
         Holding
<1>9. FreshLoad'
  BY DataLoaderAssumption, <1>a, <1>b, <1>c, <1>d DEF Inv, TypeOK,
         FreshLoad, ReadLater, OnePlace, Unanswered, Holding
<1> QED
  BY <1>1, <1>2, <1>3, <1>4, <1>5, <1>6, <1>7, <1>8, <1>9 DEF Inv

\* The invariant when a call joins the batch.
LEMMA JoinAndWaitInv ==
    ASSUME Inv, NEW c \in Calls, NEW K \in SUBSET Keys, JoinAndWait(c, K)
    PROVE  Inv'
<1>1. TypeOK'
  BY DEF Inv, TypeOK, JoinAndWait, Enter, Misses, Hits, Waiting, caller,
         BatchType
<1>2. KeysWanted'
  BY DEF Inv, TypeOK, JoinAndWait, Enter, Misses, Hits, Waiting, caller,
         BatchType, KeysWanted, OnePlace, Unanswered
<1>3. TimerArmed'
  BY DEF Inv, TypeOK, JoinAndWait, Enter, Misses, Hits, Waiting, caller,
         BatchType, TimerArmed, KeysWanted, OnePlace, Unanswered
<1>4. OnePlace'
  BY DEF Inv, TypeOK, JoinAndWait, Enter, Misses, Hits, Waiting, caller,
         BatchType, OnePlace, Unanswered, Holding, KeysWanted
<1>5. Holding'
  BY DEF Inv, TypeOK, JoinAndWait, Enter, Misses, Hits, Waiting, caller,
         BatchType, Holding, OnePlace, Unanswered
<1>6. HoldsHits'
  BY DataLoaderAssumption DEF Inv, TypeOK, JoinAndWait, Enter, Misses, Hits,
         Waiting, caller, BatchType, HoldsHits, OnePlace, Unanswered,
         ReadLater
<1>7. ReadLater'
  BY DEF Inv, TypeOK, JoinAndWait, Enter, Misses, Hits, Waiting, caller,
         BatchType, ReadLater, OnePlace, Unanswered
<1>8. CompleteAnswer'
  BY DataLoaderAssumption DEF Inv, TypeOK, JoinAndWait, Enter, Misses, Hits,
         Waiting, caller, BatchType, CompleteAnswer, HoldsHits, OnePlace,
         Unanswered, ReadLater, Holding
<1>9. FreshLoad'
  BY DataLoaderAssumption DEF Inv, TypeOK, JoinAndWait, Enter, Misses, Hits,
         Waiting, caller, BatchType, FreshLoad, ReadLater, OnePlace,
         Unanswered, Holding
<1> QED
  BY <1>1, <1>2, <1>3, <1>4, <1>5, <1>6, <1>7, <1>8, <1>9 DEF Inv

\* The invariant when the caller spawns do_load.
LEMMA SpawnLoadInv ==
    ASSUME Inv, NEW c \in Calls, SpawnLoad(c)
    PROVE  Inv'
<1>a. PICK b \in batches :
        /\ c \in b.calls
        /\ b.stage = "taken"
        /\ batches' = (batches \ {b})
              \cup {[b EXCEPT !.stage = "load", !.off = disableAll]}
  BY DEF SpawnLoad
<1> DEFINE n == [b EXCEPT !.stage = "load", !.off = disableAll]
<1>b. /\ n \in BatchType
      /\ n.keys = b.keys /\ n.calls = b.calls
      /\ n.stage = "load" /\ n.version = b.version
  BY DEF Inv, TypeOK, BatchType
<1>c. batches' = (batches \ {b}) \cup {n}
  BY <1>a
<1>d. /\ c \in b.calls
      /\ b.stage = "taken"
      /\ pc[c] = "immediate"
      /\ pc' = [pc EXCEPT ![c] = "wait"]
      /\ UNCHANGED <<keys, pending, cache, disableOne, disableAll, timers,
                     asked, want, answer, since, sent, version>>
  BY <1>a DEF SpawnLoad, caller
<1> HIDE DEF n
<1>1. TypeOK'
  BY <1>b, <1>c, <1>d DEF Inv, TypeOK
<1>2. KeysWanted'
  BY <1>b, <1>c, <1>d DEF Inv, KeysWanted
<1>3. TimerArmed'
  BY <1>b, <1>c, <1>d DEF Inv, TypeOK, TimerArmed, KeysWanted, OnePlace,
         Unanswered
<1>4. OnePlace'
  BY <1>b, <1>c, <1>d DEF Inv, TypeOK, OnePlace, Unanswered, Holding,
         KeysWanted
<1>5. Holding'
  BY <1>b, <1>c, <1>d DEF Inv, TypeOK, Holding, OnePlace, Unanswered
<1>6. HoldsHits'
  BY DataLoaderAssumption, <1>b, <1>c, <1>d DEF Inv, TypeOK, HoldsHits,
         OnePlace, Unanswered, ReadLater
<1>7. ReadLater'
  BY <1>b, <1>c, <1>d DEF Inv, TypeOK, ReadLater, OnePlace, Unanswered
<1>8. CompleteAnswer'
  BY DataLoaderAssumption, <1>b, <1>c, <1>d DEF Inv, TypeOK, CompleteAnswer,
         HoldsHits, OnePlace, Unanswered, ReadLater
<1>9. FreshLoad'
  BY DataLoaderAssumption, <1>b, <1>c, <1>d DEF Inv, TypeOK, FreshLoad,
         ReadLater, OnePlace, Unanswered
<1> QED
  BY <1>1, <1>2, <1>3, <1>4, <1>5, <1>6, <1>7, <1>8, <1>9 DEF Inv

\* The invariant when the caller spawns the timer task.
LEMMA SpawnTimerInv ==
    ASSUME Inv, NEW c \in Calls, SpawnTimer(c)
    PROVE  Inv'
<1>1. TypeOK'
  BY DEF Inv, TypeOK, SpawnTimer, caller, BatchType
<1>2. KeysWanted'
  BY DEF Inv, TypeOK, SpawnTimer, caller, BatchType, KeysWanted, OnePlace,
         Unanswered
<1>3. TimerArmed'
  <2>1. /\ timers[TRUE] \in Nat /\ timers[FALSE] \in Nat
        /\ DOMAIN timers = BOOLEAN
    BY DEF Inv, TypeOK
  <2>2. CASE disableAll = TRUE
    <3>1. timers' = [timers EXCEPT ![TRUE] = timers[TRUE] + 1]
      BY <2>2, Zenon DEF SpawnTimer
    <3>2. /\ timers'[TRUE] = timers[TRUE] + 1
          /\ timers'[FALSE] = timers[FALSE]
      BY <3>1, <2>1, Zenon
    <3> QED
      BY <3>2, <2>1, OneMore, Zenon DEF TimerArmed
  <2>3. CASE disableAll = FALSE
    <3>1. timers' = [timers EXCEPT ![FALSE] = timers[FALSE] + 1]
      BY <2>3, Zenon DEF SpawnTimer
    <3>2. /\ timers'[FALSE] = timers[FALSE] + 1
          /\ timers'[TRUE] = timers[TRUE]
      BY <3>1, <2>1, Zenon
    <3> QED
      BY <3>2, <2>1, OneMore, Zenon DEF TimerArmed
  <2> QED
    BY <2>2, <2>3 DEF Inv, TypeOK
<1>4. OnePlace'
  BY DEF Inv, TypeOK, SpawnTimer, caller, BatchType, OnePlace, Unanswered,
         Holding, KeysWanted
<1>5. Holding'
  BY DEF Inv, TypeOK, SpawnTimer, caller, BatchType, Holding, OnePlace,
         Unanswered
<1>6. HoldsHits'
  BY DataLoaderAssumption DEF Inv, TypeOK, SpawnTimer, caller, BatchType,
         HoldsHits, OnePlace, Unanswered, ReadLater
<1>7. ReadLater'
  BY DEF Inv, TypeOK, SpawnTimer, caller, BatchType, ReadLater, OnePlace,
         Unanswered
<1>8. CompleteAnswer'
  BY DataLoaderAssumption DEF Inv, TypeOK, SpawnTimer, caller, BatchType,
         CompleteAnswer, HoldsHits, OnePlace, Unanswered, ReadLater
<1>9. FreshLoad'
  BY DataLoaderAssumption DEF Inv, TypeOK, SpawnTimer, caller, BatchType,
         FreshLoad, ReadLater, OnePlace, Unanswered
<1> QED
  BY <1>1, <1>2, <1>3, <1>4, <1>5, <1>6, <1>7, <1>8, <1>9 DEF Inv

\* The invariant when a caller takes its answer.
LEMMA ReceiveInv ==
    ASSUME Inv, NEW c \in Calls, Receive(c)
    PROVE  Inv'
<1>1. TypeOK'
  BY DEF Inv, TypeOK, Receive, caller, BatchType
<1>2. KeysWanted'
  BY DEF Inv, TypeOK, Receive, caller, BatchType, KeysWanted, OnePlace,
         Unanswered
<1>3. TimerArmed'
  BY DEF Inv, TypeOK, Receive, caller, BatchType, TimerArmed, KeysWanted,
         OnePlace, Unanswered
<1>4. OnePlace'
  BY DEF Inv, TypeOK, Receive, caller, BatchType, OnePlace, Unanswered,
         Holding, KeysWanted
<1>5. Holding'
  BY DEF Inv, TypeOK, Receive, caller, BatchType, Holding, OnePlace,
         Unanswered
<1>6. HoldsHits'
  BY DataLoaderAssumption DEF Inv, TypeOK, Receive, caller, BatchType,
         HoldsHits, OnePlace, Unanswered, ReadLater
<1>7. ReadLater'
  BY DEF Inv, TypeOK, Receive, caller, BatchType, ReadLater, OnePlace,
         Unanswered
<1>8. CompleteAnswer'
  BY DataLoaderAssumption DEF Inv, TypeOK, Receive, caller, BatchType,
         CompleteAnswer, HoldsHits, OnePlace, Unanswered, ReadLater
<1>9. FreshLoad'
  BY DataLoaderAssumption DEF Inv, TypeOK, Receive, caller, BatchType,
         FreshLoad, ReadLater, OnePlace, Unanswered
<1> QED
  BY <1>1, <1>2, <1>3, <1>4, <1>5, <1>6, <1>7, <1>8, <1>9 DEF Inv

\* The invariant when a caller is dropped.
LEMMA DropInv ==
    ASSUME Inv, NEW c \in Calls, Drop(c)
    PROVE  Inv'
<1>1. TypeOK'
  BY DEF Inv, TypeOK, Drop, caller, BatchType
<1>2. KeysWanted'
  BY DEF Inv, TypeOK, Drop, caller, BatchType, KeysWanted, OnePlace,
         Unanswered
<1>3. TimerArmed'
  BY DEF Inv, TypeOK, Drop, caller, BatchType, TimerArmed, KeysWanted,
         OnePlace, Unanswered
<1>4. OnePlace'
  BY DEF Inv, TypeOK, Drop, caller, BatchType, OnePlace, Unanswered,
         Holding, KeysWanted
<1>5. Holding'
  BY DEF Inv, TypeOK, Drop, caller, BatchType, Holding, OnePlace,
         Unanswered
<1>6. HoldsHits'
  BY DataLoaderAssumption DEF Inv, TypeOK, Drop, caller, BatchType,
         HoldsHits, OnePlace, Unanswered, ReadLater
<1>7. ReadLater'
  BY DEF Inv, TypeOK, Drop, caller, BatchType, ReadLater, OnePlace,
         Unanswered
<1>8. CompleteAnswer'
  BY DataLoaderAssumption DEF Inv, TypeOK, Drop, caller, BatchType,
         CompleteAnswer, HoldsHits, OnePlace, Unanswered, ReadLater
<1>9. FreshLoad'
  BY DataLoaderAssumption DEF Inv, TypeOK, Drop, caller, BatchType,
         FreshLoad, ReadLater, OnePlace, Unanswered
<1> QED
  BY <1>1, <1>2, <1>3, <1>4, <1>5, <1>6, <1>7, <1>8, <1>9 DEF Inv

\* The invariant when the timer fires.
LEMMA TimerFiresInv ==
    ASSUME Inv, NEW off \in BOOLEAN, TimerFires(off)
    PROVE  Inv'
<1> DEFINE n == Batch(keys, pending, "load", off)
<1>a. /\ n \in BatchType
      /\ n.keys = keys /\ n.calls = pending /\ n.stage = "load"
  BY DEF Inv, TypeOK, BatchType, Batch
<1>b. /\ batches' = batches \cup (IF keys = {} THEN {} ELSE {n})
      /\ keys' = {} /\ pending' = {}
  BY DEF TimerFires
<1>c. /\ timers' = [timers EXCEPT ![off] = @ - 1] /\ timers[off] > 0
      /\ UNCHANGED <<cache, disableOne, disableAll, pc, asked, want, answer,
                     since, sent, version>>
  BY DEF TimerFires, caller
<1> HIDE DEF n
<1>1. TypeOK'
  BY <1>a, <1>b, <1>c DEF Inv, TypeOK
<1>2. KeysWanted'
  BY <1>a, <1>b, <1>c DEF Inv, TypeOK, KeysWanted, OnePlace, Unanswered
<1>3. TimerArmed'
  BY <1>a, <1>b, <1>c DEF Inv, TypeOK, TimerArmed, KeysWanted, OnePlace,
         Unanswered
<1>4. OnePlace'
  BY <1>a, <1>b, <1>c DEF Inv, TypeOK, OnePlace, Unanswered, Holding,
         KeysWanted
<1>5. Holding'
  BY <1>a, <1>b, <1>c DEF Inv, TypeOK, Holding, OnePlace, Unanswered
<1>6. HoldsHits'
  BY DataLoaderAssumption, <1>a, <1>b, <1>c DEF Inv, TypeOK, HoldsHits,
         OnePlace, Unanswered, ReadLater
<1>7. ReadLater'
  BY <1>a, <1>b, <1>c DEF Inv, TypeOK, ReadLater, OnePlace, Unanswered
<1>8. CompleteAnswer'
  BY DataLoaderAssumption, <1>a, <1>b, <1>c DEF Inv, TypeOK, CompleteAnswer,
         HoldsHits, OnePlace, Unanswered, ReadLater
<1>9. FreshLoad'
  BY DataLoaderAssumption, <1>a, <1>b, <1>c DEF Inv, TypeOK, FreshLoad,
         ReadLater, OnePlace, Unanswered
<1> QED
  BY <1>1, <1>2, <1>3, <1>4, <1>5, <1>6, <1>7, <1>8, <1>9 DEF Inv

\* The invariant when the loader answers or fails.
LEMMA LoadInv ==
    ASSUME Inv, NEW b \in batches, Load(b)
    PROVE  Inv'
<1>a. PICK stage \in {"ok", "err"} :
        batches' = (batches \ {b})
            \cup {[b EXCEPT !.stage = stage, !.version = version]}
  BY DEF Load
<1> DEFINE n == [b EXCEPT !.stage = stage, !.version = version]
<1>b. /\ n \in BatchType
      /\ n.keys = b.keys /\ n.calls = b.calls
      /\ n.stage = stage /\ n.version = version
  BY DEF Inv, TypeOK, BatchType
<1>c. batches' = (batches \ {b}) \cup {n}
  BY <1>a
<1>d. /\ b.stage = "load"
      /\ UNCHANGED <<keys, pending, cache, disableOne, disableAll, timers, pc,
                     asked, want, answer, since, sent, version>>
  BY DEF Load, caller
<1> HIDE DEF n
<1>1. TypeOK'
  BY <1>b, <1>c, <1>d DEF Inv, TypeOK
<1>2. KeysWanted'
  BY <1>b, <1>c, <1>d DEF Inv, TypeOK, KeysWanted, OnePlace, Unanswered
<1>3. TimerArmed'
  BY <1>b, <1>c, <1>d DEF Inv, TypeOK, TimerArmed, KeysWanted, OnePlace,
         Unanswered
<1>4. OnePlace'
  BY <1>b, <1>c, <1>d DEF Inv, TypeOK, OnePlace, Unanswered, Holding,
         KeysWanted
<1>5. Holding'
  BY <1>b, <1>c, <1>d DEF Inv, TypeOK, Holding, OnePlace, Unanswered
<1>6. HoldsHits'
  BY DataLoaderAssumption, <1>b, <1>c, <1>d DEF Inv, TypeOK, HoldsHits,
         OnePlace, Unanswered, ReadLater
<1>7. ReadLater'
  <2>1. \A c \in Calls : since'[c] <= version'
    BY <1>d DEF Inv, ReadLater
  <2>2. \A c \in n.calls : since'[c] <= n.version
    BY <1>b, <1>d DEF Inv, TypeOK, BatchType, ReadLater
  <2>3. n.version > 0
    BY <1>b DEF Inv, HoldsHits
  <2> QED
    BY <1>c, <1>d, <2>1, <2>2, <2>3 DEF Inv, ReadLater
<1>8. CompleteAnswer'
  BY DataLoaderAssumption, <1>b, <1>c, <1>d DEF Inv, TypeOK, CompleteAnswer,
         HoldsHits, OnePlace, Unanswered, ReadLater
<1>9. FreshLoad'
  BY DataLoaderAssumption, <1>b, <1>c, <1>d DEF Inv, TypeOK, FreshLoad,
         ReadLater, OnePlace, Unanswered
<1> QED
  BY <1>1, <1>2, <1>3, <1>4, <1>5, <1>6, <1>7, <1>8, <1>9 DEF Inv

\* The invariant when do_load hands out the values.
LEMMA DeliverInv ==
    ASSUME Inv, NEW b \in batches, Deliver(b)
    PROVE  Inv'
<1>1. TypeOK'
  BY DEF Inv, TypeOK, Deliver, Values, caller, BatchType
<1>2. KeysWanted'
  BY DEF Inv, TypeOK, Deliver, Values, caller, BatchType, KeysWanted,
         OnePlace, Unanswered
<1>3. TimerArmed'
  BY DEF Inv, TypeOK, Deliver, Values, caller, BatchType, TimerArmed,
         KeysWanted, OnePlace, Unanswered
<1>4. OnePlace'
  BY DEF Inv, TypeOK, Deliver, Values, caller, BatchType, OnePlace,
         Unanswered, Holding, KeysWanted
<1>5. Holding'
  BY DEF Inv, TypeOK, Deliver, Values, caller, BatchType, Holding, OnePlace,
         Unanswered
<1>6. HoldsHits'
  BY DataLoaderAssumption DEF Inv, TypeOK, Deliver, Values, caller,
         BatchType, HoldsHits, OnePlace, Unanswered, ReadLater
<1>7. ReadLater'
  BY DEF Inv, TypeOK, Deliver, Values, caller, BatchType, ReadLater,
         OnePlace, Unanswered
<1>8. CompleteAnswer'
  BY DataLoaderAssumption DEF Inv, TypeOK, Deliver, Values, caller,
         BatchType, CompleteAnswer, HoldsHits, OnePlace, Unanswered,
         ReadLater
<1>9. FreshLoad'
  BY DataLoaderAssumption DEF Inv, TypeOK, Deliver, Values, caller,
         BatchType, FreshLoad, ReadLater, OnePlace, Unanswered
<1> QED
  BY <1>1, <1>2, <1>3, <1>4, <1>5, <1>6, <1>7, <1>8, <1>9 DEF Inv

\* The invariant when do_load hands out the error.
LEMMA DeliverErrInv ==
    ASSUME Inv, NEW b \in batches, DeliverErr(b)
    PROVE  Inv'
<1>1. TypeOK'
  BY DEF Inv, TypeOK, DeliverErr, caller, BatchType
<1>2. KeysWanted'
  BY DEF Inv, TypeOK, DeliverErr, caller, BatchType, KeysWanted, OnePlace,
         Unanswered
<1>3. TimerArmed'
  BY DEF Inv, TypeOK, DeliverErr, caller, BatchType, TimerArmed, KeysWanted,
         OnePlace, Unanswered
<1>4. OnePlace'
  BY DEF Inv, TypeOK, DeliverErr, caller, BatchType, OnePlace, Unanswered,
         Holding, KeysWanted
<1>5. Holding'
  BY DEF Inv, TypeOK, DeliverErr, caller, BatchType, Holding, OnePlace,
         Unanswered
<1>6. HoldsHits'
  BY DataLoaderAssumption DEF Inv, TypeOK, DeliverErr, caller, BatchType,
         HoldsHits, OnePlace, Unanswered, ReadLater
<1>7. ReadLater'
  BY DEF Inv, TypeOK, DeliverErr, caller, BatchType, ReadLater, OnePlace,
         Unanswered
<1>8. CompleteAnswer'
  BY DataLoaderAssumption DEF Inv, TypeOK, DeliverErr, caller, BatchType,
         CompleteAnswer, HoldsHits, OnePlace, Unanswered, ReadLater
<1>9. FreshLoad'
  BY DataLoaderAssumption DEF Inv, TypeOK, DeliverErr, caller, BatchType,
         FreshLoad, ReadLater, OnePlace, Unanswered
<1> QED
  BY <1>1, <1>2, <1>3, <1>4, <1>5, <1>6, <1>7, <1>8, <1>9 DEF Inv

\* The invariant when the loader panics and the batch's senders are dropped.
LEMMA LoadPanicsInv ==
    ASSUME Inv, NEW b \in batches, LoadPanics(b)
    PROVE  Inv'
<1>1. TypeOK'
  BY DEF Inv, TypeOK, LoadPanics, caller, BatchType
<1>2. KeysWanted'
  BY DEF Inv, TypeOK, LoadPanics, caller, BatchType, KeysWanted, OnePlace,
         Unanswered
<1>3. TimerArmed'
  BY DEF Inv, TypeOK, LoadPanics, caller, BatchType, TimerArmed, KeysWanted,
         OnePlace, Unanswered
<1>4. OnePlace'
  BY DEF Inv, TypeOK, LoadPanics, caller, BatchType, OnePlace, Unanswered,
         Holding, KeysWanted
<1>5. Holding'
  BY DEF Inv, TypeOK, LoadPanics, caller, BatchType, Holding, OnePlace,
         Unanswered
<1>6. HoldsHits'
  BY DataLoaderAssumption DEF Inv, TypeOK, LoadPanics, caller, BatchType,
         HoldsHits, OnePlace, Unanswered, ReadLater
<1>7. ReadLater'
  BY DEF Inv, TypeOK, LoadPanics, caller, BatchType, ReadLater, OnePlace,
         Unanswered
<1>8. CompleteAnswer'
  BY DataLoaderAssumption DEF Inv, TypeOK, LoadPanics, caller, BatchType,
         CompleteAnswer, HoldsHits, OnePlace, Unanswered, ReadLater
<1>9. FreshLoad'
  BY DataLoaderAssumption DEF Inv, TypeOK, LoadPanics, caller, BatchType,
         FreshLoad, ReadLater, OnePlace, Unanswered
<1> QED
  BY <1>1, <1>2, <1>3, <1>4, <1>5, <1>6, <1>7, <1>8, <1>9 DEF Inv

\* The invariant when the owner uses the cache, or the data source changes.
LEMMA OwnerInv ==
    ASSUME Inv,
           \/ \E on \in BOOLEAN : EnableCache(on) \/ EnableAllCache(on)
           \/ \E k \in Existing : FeedOne(k)
           \/ Clear
           \/ Change
    PROVE  Inv'
<1>1. UNCHANGED requests
  BY DEF EnableCache, EnableAllCache, FeedOne, Clear, Change
<1>2. /\ version' \in Nat /\ version' >= version
      /\ cache' \in [Keys -> Nat]
      /\ \A k \in Keys : cache'[k] # 0 => k \in Existing
  BY DataLoaderAssumption DEF Inv, TypeOK, HoldsHits, EnableCache,
     EnableAllCache, FeedOne, Clear, Change, NoValues
<1>3. disableOne' \in BOOLEAN /\ disableAll' \in BOOLEAN
  BY Zenon DEF Inv, TypeOK, EnableCache, EnableAllCache, FeedOne, Clear, Change
<1>4. TypeOK'
  BY <1>1, <1>2, <1>3 DEF Inv, TypeOK, requests, caller, BatchType
<1>5. KeysWanted' /\ OnePlace' /\ Holding'
  BY <1>1 DEF Inv, KeysWanted, OnePlace, Unanswered, Holding, requests, caller
<1>9. TimerArmed'
  BY <1>1 DEF Inv, TimerArmed, requests
<1>6. HoldsHits'
  BY <1>1, <1>2 DEF Inv, TypeOK, HoldsHits, requests, caller
<1>7. ReadLater'
  BY <1>1, <1>2 DEF Inv, TypeOK, ReadLater, requests, caller
<1>8. CompleteAnswer' /\ FreshLoad'
  BY <1>1 DEF Inv, CompleteAnswer, FreshLoad, requests, caller
<1> QED
  BY <1>4, <1>5, <1>6, <1>7, <1>8, <1>9 DEF Inv

\* Every step of the loader preserves the invariant.
LEMMA NextInv == Inv /\ [Next]_vars => Inv'
<1> SUFFICES ASSUME Inv, [Next]_vars PROVE Inv'
  OBVIOUS
<1>1. CASE UNCHANGED vars
  <2>1. TypeOK'
    BY <1>1 DEF vars, Inv, TypeOK, BatchType
  <2>2. KeysWanted' /\ OnePlace' /\ Holding' /\ ReadLater'
    BY <1>1 DEF vars, Inv, KeysWanted, OnePlace, Unanswered, Holding, ReadLater
  <2>3. TimerArmed'
    BY <1>1 DEF vars, Inv, TimerArmed
  <2>4. HoldsHits' /\ CompleteAnswer' /\ FreshLoad'
    BY <1>1 DEF vars, Inv, HoldsHits, CompleteAnswer, FreshLoad
  <2> QED
    BY <2>1, <2>2, <2>3, <2>4 DEF Inv
<1>2. ASSUME NEW c \in Calls, NEW K \in SUBSET Keys,
             ReturnCached(c, K) \/ JoinAndLoad(c, K) \/ JoinAndWait(c, K)
      PROVE  Inv'
  BY <1>2, ReturnCachedInv, JoinAndLoadInv, JoinAndWaitInv
<1>3. ASSUME NEW c \in Calls, Progress(c) \/ Drop(c) PROVE Inv'
  BY <1>3, SpawnLoadInv, SpawnTimerInv, ReceiveInv, DropInv DEF Progress
<1>4. ASSUME NEW off \in BOOLEAN, TimerFires(off) PROVE Inv'
  BY <1>4, TimerFiresInv
<1>5. ASSUME NEW b \in batches, Process(b) PROVE Inv'
  BY <1>5, LoadInv, DeliverInv, DeliverErrInv, LoadPanicsInv DEF Process
<1> QED
  BY <1>1, <1>2, <1>3, <1>4, <1>5, OwnerInv DEF Next

\* load_many, the timer task and do_load keep the batches and the callers
\* consistent in every state.
THEOREM Invariance == Spec => []Inv
<1> QED
  BY InitInv, NextInv, PTL DEF Spec

\* StartFetch / Delay: no batch is left without a timer.
THEOREM NobodyForgotten == Spec => []TimerArmed
<1>1. Inv => TimerArmed
  BY DEF Inv
<1> QED
  BY <1>1, Invariance, PTL

\* take(): a call without an answer has its sender in exactly one place.
THEOREM SendersKept == Spec => []OnePlace
<1>1. Inv => OnePlace
  BY DEF Inv
<1> QED
  BY <1>1, Invariance, PTL

\* do_load: every caller gets a value for each of its own keys that exists.
THEOREM AnswersComplete == Spec => []CompleteAnswer
<1>1. Inv => CompleteAnswer
  BY DEF Inv
<1> QED
  BY <1>1, Invariance, PTL

\* load_many: no caller gets a value older than its call unless it was cached.
THEOREM AnswersFresh == Spec => []FreshLoad
<1>1. Inv => FreshLoad
  BY DEF Inv
<1> QED
  BY <1>1, Invariance, PTL

(***************************************************************************)
(* The size of a batch needs an invariant of its own: what is being        *)
(* collected stays below max_batch_size.                                   *)
(***************************************************************************)
SizeInv ==
    /\ keys \subseteq Keys
    /\ keys = {} \/ Cardinality(keys) < MaxBatch
    /\ \A c \in Calls : pc[c] = "new" => asked[c] = {}
    /\ BatchBound

\* Adding the misses of one call adds at most the keys it asked for.
LEMMA JoinedSize ==
    ASSUME NEW S \in SUBSET Keys, NEW K \in SUBSET Keys, NEW M \in SUBSET K
    PROVE  /\ Cardinality(S \cup M) \in Nat
           /\ Cardinality(S) \in Nat
           /\ Cardinality(K) \in Nat
           /\ Cardinality(S \cup M) <= Cardinality(S) + Cardinality(K)
           /\ S = {} => Cardinality(S) = 0
<1>1. IsFiniteSet(S) /\ IsFiniteSet(K) /\ IsFiniteSet(M)
  BY DataLoaderAssumption, FS_Subset
<1>2. Cardinality(M) <= Cardinality(K) /\ Cardinality(M) \in Nat
      /\ Cardinality(K) \in Nat /\ Cardinality(S) \in Nat
  BY <1>1, FS_Subset, FS_CardinalityType
<1>3. IsFiniteSet(S \cup M)
      /\ Cardinality(S \cup M) = Cardinality(S) + Cardinality(M)
                                 - Cardinality(S \cap M)
  BY <1>1, FS_Union
<1>4. Cardinality(S \cap M) \in Nat /\ Cardinality(S \cup M) \in Nat
  BY <1>1, <1>3, FS_Intersection, FS_CardinalityType
<1>5. Cardinality(S \cup M) <= Cardinality(S) + Cardinality(K)
  BY <1>2, <1>3, <1>4
<1>6. S = {} => Cardinality(S) = 0
  BY <1>1, FS_EmptySet
<1> QED
  BY <1>2, <1>4, <1>5, <1>6

\* A call that enters asked for nothing before: the batches stay in bounds.
LEMMA EnterSize ==
    ASSUME SizeInv, TypeOK, NEW c \in Calls, NEW K \in SUBSET Keys, Enter(c, K)
    PROVE  \A b \in batches :
               \/ Cardinality(b.keys) < MaxBatch
               \/ \E d \in Calls :
                      \/ Cardinality(b.keys) < MaxBatch + Cardinality(asked'[d])
                      \/ Cardinality(b.keys) <= Cardinality(asked'[d])
<1>1. asked[c] = {} /\ asked' = [asked EXCEPT ![c] = K]
      /\ asked \in [Calls -> SUBSET Keys]
  BY DEF SizeInv, Enter, TypeOK
<1>2. Cardinality(asked[c]) = 0
  BY <1>1, FS_EmptySet
<1> SUFFICES ASSUME NEW b \in batches, ~(Cardinality(b.keys) < MaxBatch)
             PROVE  \E d \in Calls :
                        \/ Cardinality(b.keys) < MaxBatch + Cardinality(asked'[d])
                        \/ Cardinality(b.keys) <= Cardinality(asked'[d])
  OBVIOUS
<1>3. PICK d \in Calls : \/ Cardinality(b.keys) < MaxBatch + Cardinality(asked[d])
                         \/ Cardinality(b.keys) <= Cardinality(asked[d])
  BY DEF SizeInv, BatchBound
<1>4. CASE d = c
  <2>1. Cardinality(b.keys) <= 0
    BY <1>2, <1>3, <1>4, DataLoaderAssumption
  <2>2. Cardinality(asked'[c]) \in Nat /\ asked'[c] = K
    BY <1>1, DataLoaderAssumption, FS_Subset, FS_CardinalityType
  <2>3. b.keys \in SUBSET Keys
    BY DEF TypeOK, BatchType
  <2>4. Cardinality(b.keys) \in Nat
    BY <2>3, DataLoaderAssumption, FS_Subset, FS_CardinalityType
  <2> QED
    BY <2>1, <2>2, <2>4
<1>5. CASE d # c
  BY <1>1, <1>3, <1>5
<1> QED
  BY <1>4, <1>5

\* Every step keeps the batches within their bound.
LEMMA SizeStep == SizeInv /\ TypeOK /\ [Next]_vars => SizeInv'
<1> SUFFICES ASSUME SizeInv, TypeOK, [Next]_vars PROVE SizeInv'
  OBVIOUS
<1>1. ASSUME NEW c \in Calls, NEW K \in SUBSET Keys, ReturnCached(c, K)
      PROVE  SizeInv'
  <2>1. Enter(c, K) /\ UNCHANGED <<keys, batches>>
        /\ pc' = [pc EXCEPT ![c] = "done"]
    BY <1>1 DEF ReturnCached
  <2>2. asked' = [asked EXCEPT ![c] = K] /\ pc \in [Calls -> {pc[d] : d \in Calls}]
        /\ asked \in [Calls -> SUBSET Keys]
    BY <2>1 DEF Enter, TypeOK
  <2>3. BatchBound'
    BY <2>1, EnterSize DEF BatchBound
  <2> QED
    BY <2>1, <2>2, <2>3 DEF SizeInv
<1>2. ASSUME NEW c \in Calls, NEW K \in SUBSET Keys, JoinAndLoad(c, K)
      PROVE  SizeInv'
  <2>1. Enter(c, K) /\ Misses(K) \in SUBSET K
    BY <1>2 DEF JoinAndLoad, Misses
  <2>2. /\ Cardinality(keys \cup Misses(K)) \in Nat
        /\ Cardinality(keys) \in Nat
        /\ Cardinality(K) \in Nat
        /\ Cardinality(keys \cup Misses(K)) <= Cardinality(keys) + Cardinality(K)
        /\ keys = {} => Cardinality(keys) = 0
    BY <2>1, JoinedSize DEF SizeInv
  <2>3. keys' = {} /\ batches' = batches \cup {Taken(c, K)}
        /\ pc' = [pc EXCEPT ![c] = "immediate"]
    BY <1>2 DEF JoinAndLoad
  <2>4. Taken(c, K).keys = keys \cup Misses(K)
    BY DEF Taken, Batch
  <2>5. \/ Cardinality(Taken(c, K).keys) < MaxBatch + Cardinality(K)
        \/ Cardinality(Taken(c, K).keys) <= Cardinality(K)
    BY <2>2, <2>4, DataLoaderAssumption DEF SizeInv
  <2>6. asked' = [asked EXCEPT ![c] = K] /\ asked'[c] = K
        /\ pc \in [Calls -> {pc[d] : d \in Calls}]
        /\ asked \in [Calls -> SUBSET Keys]
    BY <2>1 DEF Enter, TypeOK
  <2>7. BatchBound'
    BY <2>1, <2>3, <2>5, <2>6, EnterSize DEF BatchBound
  <2> QED
    BY <2>3, <2>6, <2>7 DEF SizeInv
<1>3. ASSUME NEW c \in Calls, NEW K \in SUBSET Keys, JoinAndWait(c, K)
      PROVE  SizeInv'
  <2>1. Enter(c, K) /\ Misses(K) \in SUBSET K
    BY <1>3 DEF JoinAndWait, Misses
  <2>2. Cardinality(keys \cup Misses(K)) \in Nat
    BY <2>1, JoinedSize DEF SizeInv
  <2>3. /\ keys' = keys \cup Misses(K) /\ UNCHANGED batches
        /\ ~(Cardinality(keys \cup Misses(K)) >= MaxBatch)
        /\ pc' = [pc EXCEPT ![c] = Waiting] /\ Waiting # "new"
    BY <1>3 DEF JoinAndWait, Full, Waiting
  <2>4. asked' = [asked EXCEPT ![c] = K]
        /\ pc \in [Calls -> {pc[d] : d \in Calls}]
        /\ asked \in [Calls -> SUBSET Keys]
    BY <2>1 DEF Enter, TypeOK
  <2>5. BatchBound'
    BY <2>1, <2>3, EnterSize DEF BatchBound
  <2>6. keys' \subseteq Keys /\ Cardinality(keys') < MaxBatch
    BY <2>1, <2>2, <2>3, DataLoaderAssumption DEF SizeInv
  <2> QED
    BY <2>3, <2>4, <2>5, <2>6 DEF SizeInv
<1>4. ASSUME NEW c \in Calls, SpawnLoad(c) PROVE SizeInv'
  <2>1. PICK b \in batches : batches' = (batches \ {b})
            \cup {[b EXCEPT !.stage = "load", !.off = disableAll]}
    BY <1>4 DEF SpawnLoad
  <2>2. [b EXCEPT !.stage = "load", !.off = disableAll].keys = b.keys
    OBVIOUS
  <2>3. BatchBound'
    BY <1>4, <2>1, <2>2 DEF SizeInv, BatchBound, SpawnLoad, caller
  <2>4. UNCHANGED <<keys, asked>> /\ \A d \in Calls : pc'[d] = "new" => pc[d] = "new"
    BY <1>4 DEF SpawnLoad, TypeOK, caller
  <2> QED
    BY <2>3, <2>4 DEF SizeInv
<1>5. ASSUME NEW c \in Calls, SpawnTimer(c) \/ Receive(c) \/ Drop(c)
      PROVE  SizeInv'
  <2>1. UNCHANGED <<keys, asked, batches>>
        /\ \A d \in Calls : pc'[d] = "new" => pc[d] = "new"
    BY <1>5 DEF SpawnTimer, Receive, Drop, TypeOK, caller
  <2> QED
    BY <2>1 DEF SizeInv, BatchBound
<1>6. ASSUME NEW off \in BOOLEAN, TimerFires(off) PROVE SizeInv'
  <2>1. Batch(keys, pending, "load", off).keys = keys
    BY DEF Batch
  <2>2. keys # {} => Cardinality(keys) < MaxBatch
    BY DEF SizeInv
  <2> QED
    BY <1>6, <2>1, <2>2 DEF SizeInv, BatchBound, TimerFires, caller
<1>7. ASSUME NEW b \in batches, Load(b) PROVE SizeInv'
  <2>1. PICK stage : batches' = (batches \ {b})
            \cup {[b EXCEPT !.stage = stage, !.version = version]}
    BY <1>7 DEF Load
  <2>2. [b EXCEPT !.stage = stage, !.version = version].keys = b.keys
    OBVIOUS
  <2>3. BatchBound'
    BY <1>7, <2>1, <2>2 DEF SizeInv, BatchBound, Load, caller
  <2> QED
    BY <1>7, <2>3 DEF SizeInv, Load, caller
<1>8. ASSUME NEW b \in batches, Deliver(b) \/ DeliverErr(b) \/ LoadPanics(b)
      PROVE  SizeInv'
  BY <1>8 DEF SizeInv, BatchBound, Deliver, DeliverErr, LoadPanics, caller
<1>9. ASSUME \/ \E on \in BOOLEAN : EnableCache(on) \/ EnableAllCache(on)
             \/ \E k \in Existing : FeedOne(k)
             \/ Clear
             \/ Change
      PROVE  SizeInv'
  BY <1>9 DEF SizeInv, BatchBound, EnableCache, EnableAllCache, FeedOne, Clear,
              Change, requests, caller
<1>10. CASE UNCHANGED vars
  BY <1>10 DEF vars, SizeInv, BatchBound
<1> QED
  BY <1>1, <1>2, <1>3, <1>4, <1>5, <1>6, <1>7, <1>8, <1>9, <1>10
     DEF Next, Progress, Process

\* max_batch_size: a batch exceeds it by less than the keys of one call.
THEOREM BatchesBounded == Spec => []BatchBound
<1>1. Init => SizeInv
  BY DEF Init, SizeInv, BatchBound
<1>2. SizeInv => BatchBound
  BY DEF SizeInv
<1>3. Inv => TypeOK
  BY DEF Inv
<1> QED
  BY <1>1, <1>2, <1>3, SizeStep, Invariance, PTL DEF Spec

=============================================================================
