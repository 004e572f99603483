---------------------------- MODULE EvalIoProofs ----------------------------
(***************************************************************************)
(* EvalIo for any requests, fields, ios and versions.  First, both dedupes *)
(* are used as Dedupe says they may be (Composition), so that what is      *)
(* proved of Dedupe holds of each of them: of the request's as it is, of   *)
(* the process's through an instance of DedupeProofs.  Then the inductive  *)
(* invariant EvalInv, whose heart is DatedBack: an execution that has been *)
(* read and not published is no older than any first question for its io,  *)
(* so whoever still joins it is given nothing too old.                     *)
(***************************************************************************)
EXTENDS EvalIo, DedupeProofs, SequenceTheorems

GlobalProofs == INSTANCE DedupeProofs WITH
    Keys <- IOs, Persist <- FALSE,
    cache <- gcache, pc <- gpc, key <- gkey, chan <- gchan, inbox <- ginbox,
    result <- gresult, execs <- gexecs, calls <- gcalls, stale <- gstale

\* dedupe_handler's invariant is the one that DedupeProofs proves.
LEMMA SameInv ==
    /\ Global!FullInv <=> GlobalProofs!FullInv
    /\ Global!FullInv' <=> GlobalProofs!FullInv'
  BY DEF GlobalProofs!FullInv, Global!FullInv, GlobalProofs!Inv, Global!Inv,
     GlobalProofs!ResultPending, Global!ResultPending,
     GlobalProofs!HandedOutIsOver, Global!HandedOutIsOver,
     GlobalProofs!TypeOK, Global!TypeOK,
     GlobalProofs!ChannelsKnown, Global!ChannelsKnown,
     GlobalProofs!OneSender, Global!OneSender,
     GlobalProofs!LeaderOwnsEntry, Global!LeaderOwnsEntry,
     GlobalProofs!EntryOfLeader, Global!EntryOfLeader,
     GlobalProofs!ReceiverOfLeader, Global!ReceiverOfLeader,
     GlobalProofs!AnswerStored, Global!AnswerStored,
     GlobalProofs!StaleStaysOver, Global!StaleStaysOver,
     GlobalProofs!FreshResult, Global!FreshResult,
     GlobalProofs!OneResult, Global!OneResult,
     GlobalProofs!InFlight, Global!InFlight, GlobalProofs!Absent, Global!Absent,
     GlobalProofs!Ready, Global!Ready, GlobalProofs!Pending, Global!Pending,
     GlobalProofs!Leading, Global!Leading

\* So are its steps.
LEMMA SameNext == GlobalProofs!Next <=> Global!Next
  BY DEF GlobalProofs!Next, Global!Next, GlobalProofs!Call, Global!Call,
     GlobalProofs!Progress, Global!Progress, GlobalProofs!Cancel, Global!Cancel,
     GlobalProofs!StepReturn, Global!StepReturn,
     GlobalProofs!StepInit, Global!StepInit,
     GlobalProofs!StepAwait, Global!StepAwait,
     GlobalProofs!Recv, Global!Recv, GlobalProofs!RecvErr, Global!RecvErr,
     GlobalProofs!Execute, Global!Execute, GlobalProofs!Publish, Global!Publish,
     GlobalProofs!Return, Global!Return, GlobalProofs!Settled, Global!Settled,
     GlobalProofs!Joinable, Global!Joinable, GlobalProofs!Alive, Global!Alive,
     GlobalProofs!NewChannel, Global!NewChannel,
     GlobalProofs!InFlight, Global!InFlight, GlobalProofs!Absent, Global!Absent,
     GlobalProofs!Ready, Global!Ready, GlobalProofs!Pending, Global!Pending,
     GlobalProofs!Leading, Global!Leading

\* dedupe_handler's steps preserve its invariant.
LEMMA GlobalNext == Global!FullInv /\ [Global!Next]_(Global!vars) => Global!FullInv'
<1>1. GlobalProofs!FullInv /\ [GlobalProofs!Next]_(GlobalProofs!vars)
      => GlobalProofs!FullInv'
  BY DedupeAssumption, GlobalProofs!FullNext
<1> QED
  BY <1>1, SameInv, SameNext DEF GlobalProofs!vars, Global!vars

\* dedupe_handler starts with its invariant.
LEMMA GlobalInit == Global!Init => Global!FullInv
<1>1. GlobalProofs!Init => GlobalProofs!FullInv
  BY DedupeAssumption, GlobalProofs!InitInv, GlobalProofs!InitSettled
  DEF GlobalProofs!FullInv
<1>2. Global!Init => GlobalProofs!Init
  BY DEF GlobalProofs!Init, Global!Init, GlobalProofs!Absent, Global!Absent
<1> QED
  BY <1>1, <1>2, SameInv

-----------------------------------------------------------------------------
(* Each step of EvalIo is a step of each dedupe, or leaves it alone.        *)

Asked == asked \in [Tasks -> IOs]

\* eval() and eval_io() call the request's dedupe with keys of the request.
LEMMA StepsOfRequest == Asked /\ [EvalNext]_evalVars => [Next]_vars
<1> SUFFICES ASSUME Asked, [EvalNext]_evalVars PROVE [Next]_vars
  OBVIOUS
<1>1. ASSUME NEW t \in Tasks, CacheHit(t) \/ AskUpstream(t) \/ ReadDirect(t) \/ FinishDirect(t)
                 \/ Finish(t)
                 \/ GlobalLead(t) \/ GlobalRead(t) \/ GlobalStep(t)
      PROVE  UNCHANGED vars
  BY <1>1 DEF CacheHit, AskUpstream, ReadDirect, FinishDirect, Finish, Answer,
     GlobalLead, GlobalRead, GlobalStep
<1>2. ASSUME NEW t \in Tasks, AskDedupe(t) PROVE Next
  <2>1. RequestKey(t) \in Keys
    BY EvalIoAssumption DEF RequestKey, Asked
  <2> QED
    BY <1>2, <2>1 DEF AskDedupe, Next
<1>3. ASSUME NEW t \in Tasks, Lead(t) \/ RequestStep(t) \/ Land(t) PROVE Next
  BY <1>3 DEF Lead, RequestStep, Land, Next, Progress
<1>4. ASSUME NEW t \in Tasks, Drop(t) PROVE [Next]_vars
  BY <1>4 DEF Drop, Next
<1>5. ASSUME NEW io \in IOs, Expire(io) PROVE UNCHANGED vars
  BY <1>5 DEF Expire
<1>6. CASE Change
  BY <1>6 DEF Change
<1>7. CASE UNCHANGED evalVars
  BY <1>7 DEF evalVars
<1> QED
  BY <1>1, <1>2, <1>3, <1>4, <1>5, <1>6, <1>7 DEF EvalNext, Evaluation

\* They call the process's with the io.
LEMMA StepsOfGlobal == Asked /\ [EvalNext]_evalVars => [Global!Next]_(Global!vars)
<1> SUFFICES ASSUME Asked, [EvalNext]_evalVars PROVE [Global!Next]_(Global!vars)
  OBVIOUS
<1> USE DEF Global!vars, global
<1>1. ASSUME NEW t \in Tasks, CacheHit(t) \/ AskUpstream(t) \/ AskDedupe(t)
                 \/ ReadDirect(t) \/ FinishDirect(t) \/ Finish(t) \/ RequestStep(t) \/ Land(t)
      PROVE  UNCHANGED Global!vars
  BY <1>1 DEF CacheHit, AskUpstream, AskDedupe, Ask, ReadDirect, FinishDirect, Finish,
     Answer, RequestStep, Land
<1>2. ASSUME NEW t \in Tasks, Lead(t) PROVE Global!Next
  BY <1>2 DEF Lead, Asked, Global!Next
<1>3. ASSUME NEW t \in Tasks, GlobalLead(t) \/ GlobalRead(t) \/ GlobalStep(t)
      PROVE  Global!Next
  BY <1>3 DEF GlobalLead, GlobalRead, GlobalStep, Global!Next, Global!Progress
<1>4. ASSUME NEW t \in Tasks, Drop(t) PROVE [Global!Next]_(Global!vars)
  BY <1>4 DEF Drop, Global!Next
<1>5. ASSUME NEW io \in IOs, Expire(io) PROVE UNCHANGED Global!vars
  BY <1>5 DEF Expire
<1>6. CASE Change
  BY <1>6 DEF Change
<1>7. CASE UNCHANGED evalVars
  BY <1>7 DEF evalVars
<1> QED
  BY <1>1, <1>2, <1>3, <1>4, <1>5, <1>6, <1>7 DEF EvalNext, Evaluation

\* What a field asks for does not change.
LEMMA AskedStays == EvalSpec => []Asked
<1>1. EvalInit => Asked
  BY DEF EvalInit, Asked
<1>2. Asked /\ [EvalNext]_evalVars => Asked'
  BY DEF Asked, EvalNext, evalVars, eval, CacheHit, AskUpstream, AskDedupe, Ask,
     Evaluation, Lead, RequestStep, GlobalLead, GlobalRead, GlobalStep, Land, Finish,
     ReadDirect, FinishDirect, Answer, Expire, Change, Drop
<1> QED
  BY <1>1, <1>2, PTL DEF EvalSpec

\* eval_io(): the request's dedupe and the process's, nested as they are, cut off
\* together when a request is dropped, are each used as dedupe() allows; what is
\* proved of Dedupe holds of both.
THEOREM Composition == EvalSpec => Spec /\ Global!Spec
<1>1. EvalInit => Init /\ Global!Init
  BY DEF EvalInit
<1> QED
  BY <1>1, StepsOfRequest, StepsOfGlobal, AskedStays, PTL DEF EvalSpec, Spec, Global!Spec

\* The invariants of both dedupes.
LEMMA BothInvariant == EvalSpec => [](FullInv /\ Global!FullInv)
<1>1. EvalInit => FullInv /\ Global!FullInv
  BY InitInv, InitSettled, GlobalInit DEF EvalInit, FullInv
<1>2. FullInv /\ Global!FullInv /\ Asked /\ [EvalNext]_evalVars
      => FullInv' /\ Global!FullInv'
  BY FullNext, GlobalNext, StepsOfRequest, StepsOfGlobal
<1> QED
  BY <1>1, <1>2, AskedStays, PTL DEF EvalSpec

\* request_ctx.cache: the fields of a request see one flight per io, which
\* settles it, whatever the process shares below.
THEOREM RequestsFlights == EvalSpec => ImplementsSingleFlight
<1> QED
  BY Composition, Refinement, PTL

\* eval_io(): at most one request of all is at the upstream for an io.
THEOREM OneAtUpstream == EvalSpec => []OneUpstreamRead
<1>1. Global!FullInv => OneUpstreamRead
  <2> SUFFICES ASSUME Global!FullInv, NEW t \in Tasks, NEW u \in Tasks,
                      gpc[t] \in {"exec", "publish"},
                      gpc[u] \in {"exec", "publish"}, gkey[t] = gkey[u]
               PROVE  t = u
    BY DEF OneUpstreamRead
  <2> USE DEF Global!FullInv, Global!Inv
  <2>1. /\ gcache[gkey[t]] = Global!Pending(gchan[t])
        /\ gcache[gkey[t]] = Global!Pending(gchan[u])
    BY DEF Global!LeaderOwnsEntry
  <2>2. gchan[t] = gchan[u]
    BY <2>1 DEF Global!Pending
  <2> QED
    BY <2>2 DEF Global!OneSender, Global!Leading
<1> QED
  BY <1>1, BothInvariant, PTL

-----------------------------------------------------------------------------
(* What the proofs below need of the two dedupes' invariants.               *)

\* dedupe_handler's types.
GlobalTypes ==
    /\ gpc \in [Tasks -> {"idle", "step", "await", "exec", "publish",
                          "return", "done"}]
    /\ gkey \in [Tasks -> IOs]
    /\ gchan \in [Tasks -> Nat] /\ ginbox \in [Tasks -> Nat]
    /\ gresult \in [Tasks -> Nat] /\ gexecs \in Nat

\* Executions that callers of dedupe_handler hold or are promised.
GlobalKnown ==
    /\ \A t \in Tasks :
          /\ gpc[t] \in {"exec", "publish", "return"} => gchan[t] \in 1..gexecs
          /\ gpc[t] = "await" /\ ginbox[t] # 0 => ginbox[t] \in 1..gexecs
          /\ gpc[t] = "done" => gresult[t] \in 1..gexecs
    /\ \A t, u \in Tasks : gpc[t] \in {"exec", "publish"} =>
          /\ u # t /\ gpc[u] \in {"exec", "publish", "return"}
                => gchan[u] # gchan[t]
          /\ gpc[u] = "await" /\ ginbox[u] # 0 => ginbox[u] # gchan[t]
          /\ gpc[u] = "done" => gresult[u] # gchan[t]
          /\ gpc[u] = "await" /\ gchan[u] = gchan[t] => gkey[u] = gkey[t]
    /\ \A k \in IOs : gcache[k].state # "ready"

\* They follow from its invariant.
LEMMA GlobalFacts == Global!FullInv => GlobalTypes /\ GlobalKnown
<1> SUFFICES ASSUME Global!FullInv PROVE GlobalTypes /\ GlobalKnown
  OBVIOUS
<1> USE DEF Global!FullInv, Global!Inv, Global!TypeOK
<1>1. \A t \in Tasks :
         /\ gpc[t] \in {"exec", "publish", "return"} => gchan[t] \in 1..gexecs
         /\ gpc[t] = "await" /\ ginbox[t] # 0 => ginbox[t] \in 1..gexecs
         /\ gpc[t] = "done" => gresult[t] \in 1..gexecs
  BY DEF Global!ChannelsKnown, Global!HandedOutIsOver, Global!Leading
<1>2. \A t, u \in Tasks : gpc[t] \in {"exec", "publish"} =>
         /\ u # t /\ gpc[u] \in {"exec", "publish", "return"} => gchan[u] # gchan[t]
         /\ gpc[u] = "await" /\ gchan[u] = gchan[t] => gkey[u] = gkey[t]
  BY DEF Global!OneSender, Global!ReceiverOfLeader, Global!Leading
<1>3. \A t, u \in Tasks : gpc[t] \in {"exec", "publish"} =>
         /\ gpc[u] = "await" /\ ginbox[u] # 0 => ginbox[u] # gchan[t]
         /\ gpc[u] = "done" => gresult[u] # gchan[t]
  BY DEF Global!HandedOutIsOver, Global!InFlight
<1>4. \A k \in IOs : gcache[k].state # "ready"
  BY DEF Global!StaleStaysOver
<1> QED
  BY <1>1, <1>2, <1>3, <1>4 DEF GlobalTypes, GlobalKnown

\* The same of the request's dedupe, whose map keeps what is published.
RequestTypes ==
    /\ pc \in [Tasks -> {"idle", "step", "await", "exec", "publish",
                         "return", "done"}]
    /\ key \in [Tasks -> Keys]
    /\ chan \in [Tasks -> Nat] /\ result \in [Tasks -> Nat] /\ execs \in Nat

\* The executions its callers hold, and those its map keeps.
RequestKnown ==
    /\ \A t \in Tasks :
          /\ pc[t] \in {"exec", "publish"} => chan[t] \in 1..execs
          /\ pc[t] = "done" => /\ result[t] \in 1..execs
                               /\ cache[key[t]].state = "ready"
                               /\ cache[key[t]].exec = result[t]
    /\ \A k \in Keys : cache[k].state = "ready" => cache[k].exec \in 1..execs
    /\ \A t, u \in Tasks : pc[t] \in {"exec", "publish"} =>
          /\ u # t /\ pc[u] \in {"exec", "publish"} => chan[u] # chan[t]
          /\ pc[u] = "done" => result[u] # chan[t]
    /\ \A t \in Tasks, k \in Keys :
          pc[t] \in {"exec", "publish"} /\ cache[k].state = "ready"
          => cache[k].exec # chan[t]

\* They follow from its invariant.
LEMMA RequestFacts == FullInv => RequestTypes /\ RequestKnown
<1> SUFFICES ASSUME FullInv PROVE RequestTypes /\ RequestKnown
  OBVIOUS
<1> USE DEF FullInv, Inv, TypeOK
<1>1. \A t \in Tasks :
         /\ pc[t] \in {"exec", "publish"} => chan[t] \in 1..execs
         /\ pc[t] = "done" => result[t] \in 1..execs
  BY DEF ChannelsKnown, HandedOutIsOver, Leading
<1>2. \A t \in Tasks : pc[t] = "done" => /\ cache[key[t]].state = "ready"
                                         /\ cache[key[t]].exec = result[t]
  <2>1. \A t \in Tasks : pc[t] = "done" => cache[key[t]] = Ready(result[t])
    BY EvalIoAssumption DEF OneResult
  <2>2. \A e : Ready(e).state = "ready" /\ Ready(e).exec = e
    BY DEF Ready
  <2> QED
    BY <2>1, <2>2
<1>3. \A k \in Keys : cache[k].state = "ready" => cache[k].exec \in 1..execs
  BY DEF ChannelsKnown, Absent
<1>4. \A t, u \in Tasks : pc[t] \in {"exec", "publish"} =>
         /\ u # t /\ pc[u] \in {"exec", "publish"} => chan[u] # chan[t]
         /\ pc[u] = "done" => result[u] # chan[t]
  BY DEF OneSender, HandedOutIsOver, InFlight, Leading
<1>5. \A t \in Tasks, k \in Keys :
         pc[t] \in {"exec", "publish"} /\ cache[k].state = "ready"
         => cache[k].exec # chan[t]
  BY DEF HandedOutIsOver, InFlight
<1> QED
  BY <1>1, <1>2, <1>3, <1>4, <1>5 DEF RequestTypes, RequestKnown

\* What a request that asks now may be given is not later than the present, nor
\* than any execution for the io that has been read and is to be published.
LEMMA OldestIsLeast ==
    ASSUME EvalInv, NEW io \in IOs
    PROVE  /\ Oldest(io) \in Nat \ {0}
           /\ Oldest(io) <= version
           /\ \A u \in Tasks : gpc[u] = "publish" /\ gkey[u] = io
                 => Oldest(io) <= read[gchan[u]]
<1> DEFINE under == {read[gchan[t]] : t \in {u \in Tasks : gpc[u] = "publish" /\ gkey[u] = io}}
           Least(v) == v \in under \cup {version} /\ \A w \in under \cup {version} : v <= w
<1>1. version \in Nat \ {0}
  BY DEF EvalInv, EvalTypeOK
<1>2. \A w \in under : w \in Nat \ {0}
  BY GlobalFacts DEF EvalInv, EvalTypeOK, DatedBack, GlobalTypes, GlobalKnown
<1>3. \A v, w \in under : v = w
  <2>1. \A t, u \in Tasks : gpc[t] = "publish" /\ gpc[u] = "publish" /\ gkey[t] = gkey[u]
                            => gchan[t] = gchan[u]
    <3>1. \A t \in Tasks : gpc[t] = "publish" => gcache[gkey[t]] = Global!Pending(gchan[t])
      BY DEF EvalInv, Global!FullInv, Global!Inv, Global!LeaderOwnsEntry
    <3>2. \A e : Global!Pending(e).exec = e
      BY DEF Global!Pending
    <3> QED
      BY <3>1, <3>2
  <2> QED
    BY <2>1
<1>4. \E v : Least(v)
  <2>1. CASE \E w \in under : w <= version
    <3>1. PICK w \in under : w <= version
      BY <2>1
    <3>2. Least(w)
      BY <1>1, <1>2, <1>3, <3>1
    <3> QED
      BY <3>2
  <2>2. CASE \A w \in under : ~(w <= version)
    <3>1. Least(version)
      BY <1>1, <1>2, <2>2
    <3> QED
      BY <3>1
  <2> QED
    BY <2>1, <2>2
<1>5. Oldest(io) = CHOOSE v : Least(v)
  BY DEF Oldest
<1>6. Least(Oldest(io))
  BY <1>4, <1>5
<1> QED
  BY <1>1, <1>2, <1>6

\* The part of the invariant that is not one of the dedupes'.
EvalRest ==
    /\ EvalTypeOK
    /\ Nested
    /\ DatedBack
    /\ ReadRecently
    /\ MadeRecently
    /\ ValuesDated
    /\ NoOlderThanItsRequest
    /\ ValueIsResult

\* What the constants' assumption and the types give.
EvalTypes ==
    /\ Owner \in [Tasks -> Requests] /\ Keys = Requests \X IOs
    /\ Deduped \cup Cached \subseteq IOs /\ MaxVersion \in Nat /\ Persist
    /\ stage \in [Tasks -> {"new", "dedupe", "direct", "fetched", "done", "dropped"}]
    /\ asked \in [Tasks -> IOs]
    /\ value \in [Tasks -> Values]
    /\ store \in [IOs -> Values]
    /\ \A v \in Values : v.version \in Nat
    /\ version \in Nat \ {0}
    /\ since \in [Requests -> [IOs -> Nat]]
    /\ \A i \in 1..gexecs : read[i] \in Nat
    /\ \A i \in 1..execs : made[i] \in Nat
    /\ read \in [1..gexecs -> Nat]
    /\ made \in [1..execs -> Nat]

\* These and the facts about both dedupes follow from the invariant.
LEMMA EvalFacts ==
    EvalInv => EvalTypes /\ GlobalTypes /\ GlobalKnown /\ RequestTypes /\ RequestKnown
  BY EvalIoAssumption, GlobalFacts, RequestFacts DEF EvalInv, EvalTypeOK, EvalTypes, Values

\* Append adds one entry and keeps the others.
LEMMA AppendGrows ==
    ASSUME NEW n \in Nat, NEW s \in [1..n -> Nat], NEW v \in Nat
    PROVE  /\ Append(s, v) \in [1..n + 1 -> Nat]
           /\ \A i \in 1..n : Append(s, v)[i] = s[i]
<1>1. s \in Seq(Nat) /\ Len(s) = n
  OBVIOUS
<1> DEFINE a == Append(s, v)
<1>2. /\ a \in Seq(Nat) /\ Len(a) = Len(s) + 1
      /\ \A i \in 1..Len(s) : a[i] = s[i]
  BY <1>1, AppendProperties
<1>3. a \in [1..Len(a) -> Nat]
  BY <1>2, LenProperties
<1> QED
  BY <1>1, <1>2, <1>3

\* What a question leaves as it was: dates once given, and those that bound what
\* is still to be handed out.
SinceKept ==
    /\ since' \in [Requests -> [IOs -> Nat]]
    /\ \A r \in Requests, io \in IOs :
          /\ since[r][io] # 0 => since'[r][io] = since[r][io]
          /\ since'[r][io] <= version
    /\ \A u \in Tasks : gpc[u] = "publish" =>
          \A r \in Requests : since'[r][gkey[u]] <= read[gchan[u]]
    /\ \A u \in Tasks : stage'[u] # "new" => since'[Owner[u]][asked[u]] # 0
    /\ \A u \in Tasks : stage[u] # "new" =>
          since'[Owner[u]][asked[u]] = since[Owner[u]][asked[u]]

\* A first question for an io is dated so that all that is still to be handed out
\* for it is recent enough.
LEMMA AskDates ==
    ASSUME EvalInv, NEW t \in Tasks, Ask(t), \E s : Goto(t, s)
    PROVE  SinceKept
<1> DEFINE r == Owner[t]
           io == asked[t]
<1>1. EvalTypes /\ GlobalTypes /\ GlobalKnown /\ DatedBack
  BY EvalFacts DEF EvalInv
<1>2. r \in Requests /\ io \in IOs
  BY <1>1 DEF EvalTypes
<1>3. /\ Oldest(io) \in Nat \ {0} /\ Oldest(io) <= version
      /\ \A u \in Tasks : gpc[u] = "publish" /\ gkey[u] = io
            => Oldest(io) <= read[gchan[u]]
  BY <1>2, OldestIsLeast
<1>4. since' = [since EXCEPT ![r][io] = IF @ = 0 THEN Oldest(io) ELSE @]
  BY DEF Ask
<1>5. /\ since' \in [Requests -> [IOs -> Nat]]
      /\ since'[r][io] = IF since[r][io] = 0 THEN Oldest(io) ELSE since[r][io]
      /\ \A q \in Requests, j \in IOs : q # r \/ j # io => since'[q][j] = since[q][j]
  BY <1>1, <1>2, <1>3, <1>4 DEF EvalTypes
<1>6. \A q \in Requests, j \in IOs : /\ since[q][j] # 0 => since'[q][j] = since[q][j]
                                     /\ since'[q][j] <= version
  BY <1>1, <1>2, <1>3, <1>5 DEF EvalTypes, DatedBack
<1>7. ASSUME NEW u \in Tasks, gpc[u] = "publish", NEW q \in Requests
      PROVE  since'[q][gkey[u]] <= read[gchan[u]]
  <2>1. gkey[u] \in IOs /\ since[q][gkey[u]] <= read[gchan[u]]
    BY <1>1, <1>7 DEF GlobalTypes, DatedBack
  <2>2. CASE q = r /\ gkey[u] = io
    BY <1>3, <1>5, <1>7, <2>1, <2>2
  <2>3. CASE ~(q = r /\ gkey[u] = io)
    BY <1>5, <2>1, <2>3
  <2> QED
    BY <2>2, <2>3
<1>8. ASSUME NEW u \in Tasks, stage'[u] # "new" PROVE since'[Owner[u]][asked[u]] # 0
  BY <1>1, <1>2, <1>3, <1>5, <1>6, <1>8 DEF EvalTypes, DatedBack, Goto
<1>9. ASSUME NEW u \in Tasks, stage[u] # "new"
      PROVE  since'[Owner[u]][asked[u]] = since[Owner[u]][asked[u]]
  BY <1>1, <1>6, <1>9 DEF EvalTypes, DatedBack
<1> QED
  BY <1>5, <1>6, <1>7, <1>8, <1>9 DEF SinceKept

\* Becoming the leader of the request's dedupe opens an entry in its history.
LEMMA MadeGrows ==
    ASSUME EvalInv, made' = Append(made, 0)
    PROVE  /\ made' \in [1..execs + 1 -> Nat]
           /\ \A i \in 1..execs : made'[i] = made[i]
<1>1. execs \in Nat /\ made \in [1..execs -> Nat]
  BY EvalFacts DEF EvalTypes, RequestTypes
<1>2. /\ Append(made, 0) \in [1..execs + 1 -> Nat]
      /\ \A i \in 1..execs : Append(made, 0)[i] = made[i]
  BY <1>1, AppendGrows
<1> QED
  BY <1>2

\* Becoming the leader of dedupe_handler opens an entry in the other.
LEMMA ReadGrows ==
    ASSUME EvalInv, read' = Append(read, 0)
    PROVE  /\ read' \in [1..gexecs + 1 -> Nat]
           /\ \A i \in 1..gexecs : read'[i] = read[i]
<1>1. gexecs \in Nat /\ read \in [1..gexecs -> Nat]
  BY EvalFacts DEF EvalTypes, GlobalTypes
<1>2. /\ Append(read, 0) \in [1..gexecs + 1 -> Nat]
      /\ \A i \in 1..gexecs : Append(read, 0)[i] = read[i]
  BY <1>1, AppendGrows
<1> QED
  BY <1>2

\* Steps inside dedupe() touch no value a field has, nor the response cache.
LEMMA AnswersKept ==
    ASSUME EvalInv, UNCHANGED <<eval, env>>
    PROVE  ValuesDated' /\ NoOlderThanItsRequest'
  BY DEF EvalInv, ValuesDated, NoOlderThanItsRequest, Nothing, eval, env

\* Steps of the request's dedupe touch nothing of dedupe_handler's.
LEMMA DatesKept ==
    ASSUME EvalInv, UNCHANGED <<global, data, eval, env>>
    PROVE  DatedBack' /\ ReadRecently'
  BY DEF EvalInv, DatedBack, ReadRecently, global, data, eval, env

\* Steps of dedupe_handler touch nothing of the request's.
LEMMA ResultsKept ==
    ASSUME EvalInv, UNCHANGED <<vars, made, eval, env>>
    PROVE  MadeRecently' /\ ValueIsResult'
  BY DEF EvalInv, MadeRecently, ValueIsResult, ValueOf, vars, eval, env

\* The map of the request's dedupe has an entry for each request and io.
LEMMA RequestCache == EvalInv => DOMAIN cache = Keys
  BY DEF EvalInv, FullInv, Inv, TypeOK

\* A value that is recent enough may be given to the field and stored.
LEMMA Answered ==
    ASSUME EvalInv, NEW t \in Tasks, NEW v \in Values, Answer(t, v),
           v.by \in Requests, since[v.by][asked[t]] # 0,
           v.version >= since[v.by][asked[t]]
    PROVE  ValuesDated' /\ NoOlderThanItsRequest'
<1>1. EvalTypes
  BY EvalFacts
<1>2. value'[t] = v /\ \A u \in Tasks \ {t} : value'[u] = value[u] /\ stage'[u] = stage[u]
  BY <1>1 DEF EvalTypes, Answer, Goto
<1>3. \A io \in IOs : \/ store'[io] = store[io]
                      \/ /\ io = asked[t] /\ store'[io] = v
                         /\ <<io, v.version>> \notin Down
  BY <1>1 DEF Answer, Stored, EvalTypes
<1>4. since' = since /\ asked' = asked
  BY DEF Answer
<1>5. ValuesDated'
  BY <1>2, <1>3, <1>4 DEF ValuesDated, EvalInv, Nothing
<1>6. NoOlderThanItsRequest'
  BY <1>2, <1>3, <1>4 DEF NoOlderThanItsRequest, EvalInv, Nothing
<1> QED
  BY <1>5, <1>6

\* IR::Cache finds the value.
LEMMA CacheHitEval ==
    ASSUME EvalInv, NEW t \in Tasks, CacheHit(t)
    PROVE  EvalRest'
<1> USE EvalFacts DEF EvalInv, CacheHit, Hit, At, Goto,
    vars, global, data, eval, env
<1>1. Ask(t)
  BY DEF CacheHit, AskUpstream, AskDedupe
<1>2. SinceKept
  BY <1>1, AskDates DEF Goto
<1>3. UNCHANGED <<global, data, asked, store, version, gone>> /\ At(t, "new")
  BY <1>1 DEF Ask
<1>4. EvalTypeOK'
  BY <1>2, <1>3 DEF EvalTypeOK, EvalTypes, RequestTypes, SinceKept
<1>5. Nested'
  BY <1>2, <1>3 DEF Nested, EvalTypes, RequestTypes, GlobalTypes, RequestKey
<1>6. DatedBack'
  BY <1>2, <1>3 DEF DatedBack, SinceKept
<1>7. ReadRecently'
  BY <1>2, <1>3 DEF ReadRecently, Nested, SinceKept
<1>8. MadeRecently'
  BY <1>2, <1>3 DEF MadeRecently, Nested, SinceKept
<1>9. ValuesDated'
  <2>1. /\ asked' = asked /\ store' = store /\ asked[t] \in IOs /\ value'[t] = store[asked[t]]
        /\ store[asked[t]] # Nothing /\ asked \in [Tasks -> IOs]
        /\ \A u \in Tasks \ {t} : value'[u] = value[u] /\ stage'[u] = stage[u]
    BY <1>3 DEF EvalTypes
  <2>2. ValuesDated
    OBVIOUS
  <2> QED
    BY ONLY <1>2, <2>1, <2>2 DEF ValuesDated, SinceKept, Nothing
<1>10. NoOlderThanItsRequest'
  <2>1. /\ asked' = asked /\ store' = store /\ asked[t] \in IOs /\ value'[t] = store[asked[t]]
        /\ store[asked[t]] # Nothing /\ asked \in [Tasks -> IOs]
        /\ \A u \in Tasks \ {t} : value'[u] = value[u] /\ stage'[u] = stage[u]
    BY <1>3 DEF EvalTypes
  <2>2. ValuesDated /\ NoOlderThanItsRequest
    OBVIOUS
  <2>3. \A io \in IOs : store[io] # Nothing =>
           /\ store'[io].version >= since'[store'[io].by][io]
           /\ <<io, store'[io].version>> \notin Down
    BY ONLY <1>2, <2>1, <2>2 DEF ValuesDated, NoOlderThanItsRequest, SinceKept, Nothing
  <2>4. \A u \in Tasks \ {t} : stage'[u] \in {"fetched", "done"} =>
           value'[u].version >= since'[value'[u].by][asked'[u]]
    BY ONLY <1>2, <2>1, <2>2 DEF ValuesDated, NoOlderThanItsRequest, SinceKept
  <2> QED
    BY ONLY <2>1, <2>3, <2>4 DEF NoOlderThanItsRequest
<1>11. ValueIsResult'
  BY <1>2, <1>3 DEF ValueIsResult, Nested, EvalTypes, RequestTypes
<1> QED
  BY <1>4, <1>5, <1>6, <1>7, <1>8, <1>9, <1>10, <1>11 DEF EvalRest

\* A field that is not deduplicated goes to the upstream itself.
LEMMA AskUpstreamEval ==
    ASSUME EvalInv, NEW t \in Tasks, AskUpstream(t)
    PROVE  EvalRest'
<1> USE EvalFacts DEF EvalInv, AskUpstream, Hit, At, Goto,
    vars, global, data, eval, env
<1>1. Ask(t)
  BY DEF CacheHit, AskUpstream, AskDedupe
<1>2. SinceKept
  BY <1>1, AskDates DEF Goto
<1>3. UNCHANGED <<global, data, asked, store, version, gone>> /\ At(t, "new")
  BY <1>1 DEF Ask
<1>4. EvalTypeOK'
  BY <1>2, <1>3 DEF EvalTypeOK, EvalTypes, RequestTypes, SinceKept
<1>5. Nested'
  BY <1>2, <1>3 DEF Nested, EvalTypes, RequestTypes, GlobalTypes, RequestKey
<1>6. DatedBack'
  BY <1>2, <1>3 DEF DatedBack, SinceKept
<1>7. ReadRecently'
  BY <1>2, <1>3 DEF ReadRecently, Nested, SinceKept
<1>8. MadeRecently'
  BY <1>2, <1>3 DEF MadeRecently, Nested, SinceKept
<1>9. ValuesDated' /\ NoOlderThanItsRequest'
  <2>1. /\ asked' = asked /\ store' = store /\ value' = value /\ asked \in [Tasks -> IOs]
        /\ \A u \in Tasks : stage'[u] \in {"fetched", "done"} => stage'[u] = stage[u]
    BY <1>3 DEF EvalTypes
  <2>2. ValuesDated /\ NoOlderThanItsRequest
    OBVIOUS
  <2> QED
    BY ONLY <1>2, <2>1, <2>2 DEF ValuesDated, NoOlderThanItsRequest, SinceKept, Nothing
<1>10. ValueIsResult'
  BY <1>2, <1>3 DEF ValueIsResult, Nested, EvalTypes, RequestTypes
<1> QED
  BY <1>4, <1>5, <1>6, <1>7, <1>8, <1>9, <1>10 DEF EvalRest

\* A deduplicated one calls the request's dedupe.
LEMMA AskDedupeEval ==
    ASSUME EvalInv, NEW t \in Tasks, AskDedupe(t)
    PROVE  EvalRest'
<1> USE EvalFacts DEF EvalInv, AskDedupe, Hit, At, Goto, Call,
    vars, global, data, eval, env
<1>1. Ask(t)
  BY DEF CacheHit, AskUpstream, AskDedupe
<1>2. SinceKept
  BY <1>1, AskDates DEF Goto
<1>3. UNCHANGED <<global, data, asked, store, version, gone>> /\ At(t, "new")
  BY <1>1 DEF Ask
<1>4. EvalTypeOK'
  BY <1>2, <1>3 DEF EvalTypeOK, EvalTypes, RequestTypes, SinceKept
<1>5. Nested'
  <2>1. pc[t] \in {"idle", "done"} /\ stage[t] = "new" /\ gpc[t] = "idle"
    BY <1>3 DEF Nested
  <2>2. /\ stage'[t] = "dedupe" /\ pc'[t] = "step" /\ key'[t] = <<Owner[t], asked[t]>>
        /\ \A u \in Tasks \ {t} : stage'[u] = stage[u] /\ pc'[u] = pc[u] /\ key'[u] = key[u]
    BY <1>3 DEF EvalTypes, RequestTypes, RequestKey
  <2>3. asked' = asked /\ gpc' = gpc /\ gkey' = gkey /\ Nested
    BY <1>3
  <2> QED
    BY ONLY <2>1, <2>2, <2>3 DEF Nested, RequestKey
<1>6. DatedBack'
  BY <1>2, <1>3 DEF DatedBack, SinceKept
<1>7. ReadRecently'
  BY <1>2, <1>3 DEF ReadRecently, Nested, SinceKept
<1>8. MadeRecently'
  BY <1>2, <1>3 DEF MadeRecently, Nested, SinceKept
<1>9. ValuesDated' /\ NoOlderThanItsRequest'
  <2>1. /\ asked' = asked /\ store' = store /\ value' = value /\ asked \in [Tasks -> IOs]
        /\ \A u \in Tasks : stage'[u] \in {"fetched", "done"} => stage'[u] = stage[u]
    BY <1>3 DEF EvalTypes
  <2>2. ValuesDated /\ NoOlderThanItsRequest
    OBVIOUS
  <2> QED
    BY ONLY <1>2, <2>1, <2>2 DEF ValuesDated, NoOlderThanItsRequest, SinceKept, Nothing
<1>10. ValueIsResult'
  BY <1>2, <1>3 DEF ValueIsResult, Nested, EvalTypes, RequestTypes
<1> QED
  BY <1>4, <1>5, <1>6, <1>7, <1>8, <1>9, <1>10 DEF EvalRest

\* Its leader calls dedupe_handler.
LEMMA LeadEval ==
    ASSUME EvalInv, NEW t \in Tasks, Lead(t)
    PROVE  EvalRest'
<1> USE EvalFacts DEF EvalInv, Lead, At, StepInit, NewChannel, Pending, Global!Call,
    vars, global, data, eval, env
<1>1. /\ made' \in [1..execs + 1 -> Nat]
      /\ \A i \in 1..execs : made'[i] = made[i]
  BY MadeGrows, EvalFacts
<1>2. EvalTypeOK'
  BY <1>1 DEF EvalTypeOK, RequestTypes, RequestKnown, GlobalTypes, GlobalKnown
<1>3. Nested'
  <2>1. /\ stage' = stage /\ asked' = asked /\ key' = key /\ stage[t] = "dedupe" /\ pc[t] = "step"
        /\ pc' = [pc EXCEPT ![t] = "exec"] /\ gpc' = [gpc EXCEPT ![t] = "step"]
        /\ gkey' = [gkey EXCEPT ![t] = asked[t]]
    OBVIOUS
  <2>2. pc'[t] = "exec" /\ gpc'[t] = "step" /\ gkey'[t] = asked[t]
    BY <2>1 DEF RequestTypes, GlobalTypes
  <2>3. \A u \in Tasks \ {t} : pc'[u] = pc[u] /\ gpc'[u] = gpc[u] /\ gkey'[u] = gkey[u]
    BY <2>1 DEF RequestTypes, GlobalTypes
  <2>4. Nested
    OBVIOUS
  <2> QED
    BY ONLY <2>1, <2>2, <2>3, <2>4 DEF Nested, RequestKey
<1>4. DatedBack'
  BY DEF DatedBack, GlobalTypes
<1>5. ReadRecently'
  BY DEF ReadRecently, GlobalTypes
<1>6. MadeRecently'
  <2>1. \A u \in Tasks : pc'[u] = "publish" => /\ pc[u] = "publish"
                                                  /\ chan'[u] = chan[u]
                                                  /\ made'[chan'[u]] = made[chan[u]]
    BY <1>1 DEF RequestTypes, RequestKnown
  <2>2. \A k \in Keys : cache'[k].state = "ready" => /\ cache'[k] = cache[k]
                                                     /\ made'[cache'[k].exec] = made[cache[k].exec]
    BY <1>1 DEF RequestTypes, RequestKnown
  <2>3. \A r \in Requests, io \in IOs : cache'[<<r, io>>].state = "ready" =>
           /\ cache[<<r, io>>].state = "ready"
           /\ made'[cache'[<<r, io>>].exec] = made[cache[<<r, io>>].exec]
    BY <2>2 DEF EvalTypes
  <2>4. MadeRecently /\ since' = since /\ asked' = asked
    OBVIOUS
  <2> QED
    BY ONLY <2>1, <2>3, <2>4 DEF MadeRecently
<1>7. ValuesDated' /\ NoOlderThanItsRequest'
  BY AnswersKept
<1>8. ValueIsResult'
  BY <1>1 DEF ValueIsResult, RequestTypes, RequestKnown
<1> QED
  BY <1>2, <1>3, <1>4, <1>5, <1>6, <1>7, <1>8 DEF EvalRest

\* The request's dedupe returns what it keeps.
LEMMA StepReturnEval ==
    ASSUME EvalInv, NEW t \in Tasks, StepReturn(t), At(t, "dedupe"), UNCHANGED <<global, data, eval, env>>
    PROVE  EvalRest'
<1> USE EvalFacts DEF EvalInv, StepReturn,
    vars, global, data, eval, env
<1>1. EvalTypeOK'
  BY DEF EvalTypeOK, RequestTypes
<1>2. Nested'
  BY DEF Nested, EvalTypes, RequestKey, RequestTypes
<1>3. DatedBack' /\ ReadRecently'
  BY DatesKept
<1>4. MadeRecently'
  BY DEF MadeRecently, RequestTypes
<1>5. ValuesDated' /\ NoOlderThanItsRequest'
  BY AnswersKept
<1>6. ValueIsResult'
  BY DEF ValueIsResult, Nested, EvalTypes, RequestTypes
<1> QED
  BY <1>1, <1>2, <1>3, <1>4, <1>5, <1>6 DEF EvalRest

\* A field joins its request's execution,
LEMMA StepAwaitEval ==
    ASSUME EvalInv, NEW t \in Tasks, StepAwait(t), At(t, "dedupe"), UNCHANGED <<global, data, eval, env>>
    PROVE  EvalRest'
<1> USE EvalFacts DEF EvalInv, StepAwait,
    vars, global, data, eval, env
<1>1. EvalTypeOK'
  BY DEF EvalTypeOK, RequestTypes
<1>2. Nested'
  BY DEF Nested, EvalTypes, RequestKey, RequestTypes
<1>3. DatedBack' /\ ReadRecently'
  BY DatesKept
<1>4. MadeRecently'
  BY DEF MadeRecently, RequestTypes
<1>5. ValuesDated' /\ NoOlderThanItsRequest'
  BY AnswersKept
<1>6. ValueIsResult'
  BY DEF ValueIsResult, Nested, EvalTypes, RequestTypes
<1> QED
  BY <1>1, <1>2, <1>3, <1>4, <1>5, <1>6 DEF EvalRest

\* and is sent the result.
LEMMA RecvEval ==
    ASSUME EvalInv, NEW t \in Tasks, Recv(t), At(t, "dedupe"), UNCHANGED <<global, data, eval, env>>
    PROVE  EvalRest'
<1> USE EvalFacts DEF EvalInv, Recv,
    vars, global, data, eval, env
<1>1. EvalTypeOK'
  BY DEF EvalTypeOK, RequestTypes
<1>2. Nested'
  BY DEF Nested, EvalTypes, RequestKey, RequestTypes
<1>3. DatedBack' /\ ReadRecently'
  BY DatesKept
<1>4. MadeRecently'
  BY DEF MadeRecently, RequestTypes
<1>5. ValuesDated' /\ NoOlderThanItsRequest'
  BY AnswersKept
<1>6. ValueIsResult'
  BY DEF ValueIsResult, Nested, EvalTypes, RequestTypes
<1> QED
  BY <1>1, <1>2, <1>3, <1>4, <1>5, <1>6 DEF EvalRest

\* The leader stores and sends what dedupe_handler gave it,
LEMMA PublishEval ==
    ASSUME EvalInv, NEW t \in Tasks, Publish(t), At(t, "dedupe"), UNCHANGED <<global, data, eval, env>>
    PROVE  EvalRest'
<1> USE EvalFacts DEF EvalInv, Publish, Settled, Ready, Absent,
    vars, global, data, eval, env
<1>1. EvalTypeOK'
  BY DEF EvalTypeOK, RequestTypes
<1>2. Nested'
  BY DEF Nested, EvalTypes, RequestKey, RequestTypes
<1>3. DatedBack' /\ ReadRecently'
  BY DatesKept
<1>4. MadeRecently'
  <2>1. \A u \in Tasks : pc'[u] = "publish" => pc[u] = "publish"
    BY DEF RequestTypes
  <2>2. key[t] = <<Owner[t], asked[t]>> /\ since[Owner[t]][asked[t]] # 0
    BY DEF Nested, RequestKey, DatedBack, At
  <2>3. cache' = [cache EXCEPT ![key[t]] = Ready(chan[t])]
    BY DEF EvalTypes
  <2>4. \A r \in Requests, io \in IOs : cache'[<<r, io>>].state = "ready" =>
           \/ cache'[<<r, io>>] = cache[<<r, io>>]
           \/ r = Owner[t] /\ io = asked[t] /\ cache'[<<r, io>>].exec = chan[t]
    BY <2>2, <2>3, RequestCache DEF Ready, EvalTypes
  <2>5. made[chan[t]] >= since[Owner[t]][asked[t]]
    BY DEF MadeRecently
  <2>6. MadeRecently /\ since' = since /\ asked' = asked /\ made' = made /\ chan' = chan
    OBVIOUS
  <2> QED
    BY ONLY <2>1, <2>2, <2>4, <2>5, <2>6 DEF MadeRecently
<1>5. ValuesDated' /\ NoOlderThanItsRequest'
  BY AnswersKept
<1>6. ValueIsResult'
  BY DEF ValueIsResult, Nested, EvalTypes, RequestTypes
<1> QED
  BY <1>1, <1>2, <1>3, <1>4, <1>5, <1>6 DEF EvalRest

\* and returns.
LEMMA ReturnEval ==
    ASSUME EvalInv, NEW t \in Tasks, Return(t), At(t, "dedupe"), UNCHANGED <<global, data, eval, env>>
    PROVE  EvalRest'
<1> USE EvalFacts DEF EvalInv, Return,
    vars, global, data, eval, env
<1>1. EvalTypeOK'
  BY DEF EvalTypeOK, RequestTypes
<1>2. Nested'
  BY DEF Nested, EvalTypes, RequestKey, RequestTypes
<1>3. DatedBack' /\ ReadRecently'
  BY DatesKept
<1>4. MadeRecently'
  BY DEF MadeRecently, RequestTypes
<1>5. ValuesDated' /\ NoOlderThanItsRequest'
  BY AnswersKept
<1>6. ValueIsResult'
  BY DEF ValueIsResult, Nested, EvalTypes, RequestTypes
<1> QED
  BY <1>1, <1>2, <1>3, <1>4, <1>5, <1>6 DEF EvalRest

\* The first request to ask becomes the one that reads,
LEMMA GlobalLeadEval ==
    ASSUME EvalInv, NEW t \in Tasks, GlobalLead(t)
    PROVE  EvalRest'
<1> USE EvalFacts DEF EvalInv, GlobalLead, At, Global!StepInit, Global!NewChannel, Global!Pending,
    vars, global, data, eval, env
<1>1. /\ read' \in [1..gexecs + 1 -> Nat]
      /\ \A i \in 1..gexecs : read'[i] = read[i]
  BY ReadGrows, EvalFacts
<1>2. EvalTypeOK'
  BY <1>1 DEF EvalTypeOK, GlobalTypes
<1>3. Nested'
  BY DEF Nested, EvalTypes, RequestKey, GlobalTypes
<1>4. DatedBack'
  BY <1>1 DEF DatedBack, GlobalTypes, GlobalKnown
<1>5. ReadRecently'
  BY <1>1 DEF ReadRecently, GlobalTypes, GlobalKnown
<1>6. MadeRecently' /\ ValueIsResult'
  BY ResultsKept
<1>7. ValuesDated' /\ NoOlderThanItsRequest'
  BY AnswersKept
<1> QED
  BY <1>2, <1>3, <1>4, <1>5, <1>6, <1>7 DEF EvalRest

\* and reads the present version.
LEMMA GlobalReadEval ==
    ASSUME EvalInv, NEW t \in Tasks, GlobalRead(t)
    PROVE  EvalRest'
<1> USE EvalFacts DEF EvalInv, GlobalRead, At, Global!Execute,
    vars, global, data, eval, env
<1>1. EvalTypeOK'
  BY DEF EvalTypeOK, GlobalTypes
<1>2. Nested'
  BY DEF Nested, EvalTypes, RequestKey, GlobalTypes
<1>3. DatedBack'
  <2>1. \A u \in Tasks : gpc'[u] = "publish" =>
           \/ read'[gchan[u]] = version
           \/ gpc[u] = "publish" /\ read'[gchan[u]] = read[gchan[u]]
    BY DEF GlobalTypes, GlobalKnown, EvalTypes
  <2>2. /\ DatedBack /\ version # 0 /\ gkey \in [Tasks -> IOs]
        /\ UNCHANGED <<gchan, gkey, stage, asked, since, version>>
    BY DEF EvalTypes, GlobalTypes
  <2> QED
    BY ONLY <2>1, <2>2 DEF DatedBack
<1>4. ReadRecently'
  <2>1. \A u \in Tasks :
           /\ gpc'[u] = "return" => gpc[u] = "return" /\ read'[gchan[u]] = read[gchan[u]]
           /\ gpc'[u] = "await" /\ ginbox[u] # 0
                 => gpc[u] = "await" /\ read'[ginbox[u]] = read[ginbox[u]]
           /\ gpc'[u] = "done" => gpc[u] = "done" /\ read'[gresult[u]] = read[gresult[u]]
    BY DEF GlobalTypes, GlobalKnown, EvalTypes
  <2>2. ReadRecently /\ UNCHANGED <<gchan, ginbox, gresult, asked, since>>
    OBVIOUS
  <2> QED
    BY ONLY <2>1, <2>2 DEF ReadRecently
<1>5. MadeRecently' /\ ValueIsResult'
  BY ResultsKept
<1>6. ValuesDated' /\ NoOlderThanItsRequest'
  BY AnswersKept
<1> QED
  BY <1>1, <1>2, <1>3, <1>4, <1>5, <1>6 DEF EvalRest

\* Another request joins it,
LEMMA GStepAwaitEval ==
    ASSUME EvalInv, NEW t \in Tasks, Global!StepAwait(t), At(t, "dedupe"), pc[t] = "exec", UNCHANGED <<vars, data, eval, env>>
    PROVE  EvalRest'
<1> USE EvalFacts DEF EvalInv, Global!StepAwait,
    vars, global, data, eval, env
<1>1. EvalTypeOK'
  BY DEF EvalTypeOK, GlobalTypes
<1>2. Nested'
  BY DEF Nested, EvalTypes, RequestKey, GlobalTypes
<1>3. DatedBack'
  BY DEF DatedBack, GlobalTypes
<1>4. ReadRecently'
  BY DEF ReadRecently, GlobalTypes
<1>5. MadeRecently' /\ ValueIsResult'
  BY ResultsKept
<1>6. ValuesDated' /\ NoOlderThanItsRequest'
  BY AnswersKept
<1> QED
  BY <1>1, <1>2, <1>3, <1>4, <1>5, <1>6 DEF EvalRest

\* and is sent what it read,
LEMMA GRecvEval ==
    ASSUME EvalInv, NEW t \in Tasks, Global!Recv(t), At(t, "dedupe"), pc[t] = "exec", UNCHANGED <<vars, data, eval, env>>
    PROVE  EvalRest'
<1> USE EvalFacts DEF EvalInv, Global!Recv,
    vars, global, data, eval, env
<1>1. EvalTypeOK'
  BY DEF EvalTypeOK, GlobalTypes
<1>2. Nested'
  BY DEF Nested, EvalTypes, RequestKey, GlobalTypes
<1>3. DatedBack'
  BY DEF DatedBack, GlobalTypes
<1>4. ReadRecently'
  BY DEF ReadRecently, GlobalTypes
<1>5. MadeRecently' /\ ValueIsResult'
  BY ResultsKept
<1>6. ValuesDated' /\ NoOlderThanItsRequest'
  BY AnswersKept
<1> QED
  BY <1>1, <1>2, <1>3, <1>4, <1>5, <1>6 DEF EvalRest

\* or asks again because it was dropped.
LEMMA GRecvErrEval ==
    ASSUME EvalInv, NEW t \in Tasks, Global!RecvErr(t), At(t, "dedupe"), pc[t] = "exec", UNCHANGED <<vars, data, eval, env>>
    PROVE  EvalRest'
<1> USE EvalFacts DEF EvalInv, Global!RecvErr,
    vars, global, data, eval, env
<1>1. EvalTypeOK'
  BY DEF EvalTypeOK, GlobalTypes
<1>2. Nested'
  BY DEF Nested, EvalTypes, RequestKey, GlobalTypes
<1>3. DatedBack'
  BY DEF DatedBack, GlobalTypes
<1>4. ReadRecently'
  BY DEF ReadRecently, GlobalTypes
<1>5. MadeRecently' /\ ValueIsResult'
  BY ResultsKept
<1>6. ValuesDated' /\ NoOlderThanItsRequest'
  BY AnswersKept
<1> QED
  BY <1>1, <1>2, <1>3, <1>4, <1>5, <1>6 DEF EvalRest

\* What was read is sent to those who joined: all of them asked for the io the
\* leader asked for, none of them first asked later than it allows.
LEMMA GPublishEval ==
    ASSUME EvalInv, NEW t \in Tasks, Global!Publish(t), At(t, "dedupe"), pc[t] = "exec", UNCHANGED <<vars, data, eval, env>>
    PROVE  EvalRest'
<1> USE EvalFacts DEF EvalInv, Global!Publish, Global!Settled, Global!Absent,
    vars, global, data, eval, env
<1>1. EvalTypeOK'
  BY DEF EvalTypeOK, GlobalTypes
<1>2. Nested'
  BY DEF Nested, EvalTypes, RequestKey, GlobalTypes
<1>3. DatedBack'
  BY DEF DatedBack, GlobalTypes
<1>4. ReadRecently'
  <2>1. gkey[t] = asked[t] /\ Owner[t] \in Requests
    BY DEF Nested, EvalTypes
  <2>2. read[gchan[t]] >= since[Owner[t]][asked[t]]
    BY <2>1 DEF DatedBack, EvalTypes, GlobalKnown
  <2>3. ASSUME NEW u \in Tasks, gpc[u] = "await", gchan[u] = gchan[t]
        PROVE  read[gchan[t]] >= since[Owner[u]][asked[u]]
    <3>1. gkey[u] = gkey[t] /\ gkey[u] = asked[u] /\ Owner[u] \in Requests
      BY <2>3 DEF GlobalKnown, Nested, EvalTypes
    <3> QED
      BY <3>1 DEF DatedBack, EvalTypes, GlobalKnown
  <2>4. \A u \in Tasks :
           /\ gpc'[u] = "return" => u = t \/ gpc[u] = "return"
           /\ gpc'[u] = "await" /\ ginbox'[u] # 0 =>
                 /\ gpc[u] = "await"
                 /\ ginbox'[u] = ginbox[u] \/ (gchan[u] = gchan[t] /\ ginbox'[u] = gchan[t])
           /\ gpc'[u] = "done" => gpc[u] = "done"
    BY DEF GlobalTypes
  <2>5. ReadRecently /\ UNCHANGED <<gchan, gresult, asked, since, read>>
    OBVIOUS
  <2> QED
    BY ONLY <2>2, <2>3, <2>4, <2>5 DEF ReadRecently
<1>5. MadeRecently' /\ ValueIsResult'
  BY ResultsKept
<1>6. ValuesDated' /\ NoOlderThanItsRequest'
  BY AnswersKept
<1> QED
  BY <1>1, <1>2, <1>3, <1>4, <1>5, <1>6 DEF EvalRest

\* The one that read returns.
LEMMA GReturnEval ==
    ASSUME EvalInv, NEW t \in Tasks, Global!Return(t), At(t, "dedupe"), pc[t] = "exec", UNCHANGED <<vars, data, eval, env>>
    PROVE  EvalRest'
<1> USE EvalFacts DEF EvalInv, Global!Return,
    vars, global, data, eval, env
<1>1. EvalTypeOK'
  BY DEF EvalTypeOK, GlobalTypes
<1>2. Nested'
  BY DEF Nested, EvalTypes, RequestKey, GlobalTypes
<1>3. DatedBack'
  BY DEF DatedBack, GlobalTypes
<1>4. ReadRecently'
  BY DEF ReadRecently, GlobalTypes
<1>5. MadeRecently' /\ ValueIsResult'
  BY ResultsKept
<1>6. ValuesDated' /\ NoOlderThanItsRequest'
  BY AnswersKept
<1> QED
  BY <1>1, <1>2, <1>3, <1>4, <1>5, <1>6 DEF EvalRest

\* or_else of the request's dedupe returns with what dedupe_handler returned.
LEMMA LandEval ==
    ASSUME EvalInv, NEW t \in Tasks, Land(t)
    PROVE  EvalRest'
<1> USE EvalFacts DEF EvalInv, Land, At, Execute,
    vars, global, data, eval, env
<1>1. EvalTypeOK'
  BY DEF EvalTypeOK, RequestTypes, RequestKnown, GlobalTypes, GlobalKnown
<1>2. Nested'
  BY DEF Nested, EvalTypes, RequestTypes, GlobalTypes, RequestKey
<1>3. DatedBack'
  BY DEF DatedBack, EvalTypes
<1>4. ReadRecently'
  BY DEF ReadRecently, GlobalTypes
<1>5. MadeRecently'
  <2>1. chan[t] \in 1..execs /\ gresult[t] \in 1..gexecs
    BY DEF RequestKnown, GlobalKnown
  <2>2. read[gresult[t]] >= since[Owner[t]][asked[t]]
    BY DEF ReadRecently
  <2>3. \A u \in Tasks \ {t} : pc'[u] = "publish" => made'[chan'[u]] = made[chan[u]]
    BY <2>1 DEF RequestTypes, RequestKnown, EvalTypes
  <2>4. \A k \in Keys : cache'[k].state = "ready" => made'[cache'[k].exec] = made[cache[k].exec]
    BY <2>1 DEF RequestTypes, RequestKnown, EvalTypes
  <2>5. made'[chan'[t]] = read[gresult[t]]
    BY <2>1 DEF EvalTypes
  <2> QED
    BY <2>2, <2>3, <2>4, <2>5 DEF MadeRecently, RequestTypes, EvalTypes
<1>6. ValuesDated' /\ NoOlderThanItsRequest'
  BY AnswersKept
<1>7. ValueIsResult'
  <2>1. \A u \in Tasks : pc'[u] = "done" => pc[u] = "done" /\ made'[result[u]] = made[result[u]]
    BY DEF RequestTypes, RequestKnown, EvalTypes
  <2>2. \A u \in Tasks : pc[u] = "done" => pc'[u] = "done"
    BY DEF RequestTypes
  <2>3. ValueIsResult /\ UNCHANGED <<stage, asked, value, result>>
    OBVIOUS
  <2> QED
    BY ONLY <2>1, <2>2, <2>3 DEF ValueIsResult, ValueOf
<1> QED
  BY <1>1, <1>2, <1>3, <1>4, <1>5, <1>6, <1>7 DEF EvalRest

\* An answer keeps the types: it is a value, and may enter the response cache.
LEMMA AnswerTypeOK ==
    ASSUME EvalInv, NEW t \in Tasks, NEW v \in Values, Answer(t, v)
    PROVE  EvalTypeOK'
<1>1. EvalTypeOK /\ asked[t] \in IOs
  BY DEF EvalInv, EvalTypeOK
<1>2. /\ value' = [value EXCEPT ![t] = v]
      /\ store' = [store EXCEPT ![asked[t]] = Stored(asked[t], v)]
      /\ stage' = [stage EXCEPT ![t] = "done"]
      /\ UNCHANGED <<execs, gexecs, read, made, asked, version, since, gone>>
  BY DEF Answer, Goto, vars, global, data, env
<1>3. Stored(asked[t], v) \in Values
  BY <1>1 DEF EvalTypeOK, Stored
<1>4. value' \in [Tasks -> Values] /\ store' \in [IOs -> Values]
  BY <1>1, <1>2, <1>3 DEF EvalTypeOK
<1>5. stage' \in [Tasks -> {"new", "dedupe", "direct", "fetched", "done", "dropped"}]
  BY <1>1, <1>2 DEF EvalTypeOK
<1> QED
  BY ONLY <1>1, <1>2, <1>4, <1>5 DEF EvalTypeOK

\* A deduplicated field has its value,
LEMMA FinishEval ==
    ASSUME EvalInv, NEW t \in Tasks, Finish(t)
    PROVE  EvalRest'
<1> USE EvalFacts DEF EvalInv, Finish, At, Answer, Goto, Stored, ValueOf,
    vars, global, data, eval, env
<1>1. EvalTypeOK'
  <2>1. made[result[t]] \in Nat /\ Owner[t] \in Requests
    BY DEF EvalTypes, RequestKnown
  <2>2. ValueOf(made[result[t]], Owner[t]) \in Values
    BY <2>1 DEF Values
  <2> QED
    BY <2>2, AnswerTypeOK
<1>2. Nested'
  BY DEF Nested, EvalTypes, RequestKey
<1>3. DatedBack'
  BY DEF DatedBack, EvalTypes
<1>4. ReadRecently'
  BY DEF ReadRecently, GlobalTypes
<1>5. MadeRecently'
  BY DEF MadeRecently
<1>6. ValuesDated' /\ NoOlderThanItsRequest'
  <2>1. /\ made[result[t]] \in Nat /\ key[t] = <<Owner[t], asked[t]>>
        /\ Owner[t] \in Requests /\ asked[t] \in IOs
    BY DEF EvalTypes, RequestKnown, Nested, RequestKey
  <2>2. cache[key[t]].state = "ready" /\ cache[key[t]].exec = result[t]
    BY DEF RequestKnown
  <2>3. made[result[t]] >= since[Owner[t]][asked[t]] /\ since[Owner[t]][asked[t]] # 0
    BY <2>1, <2>2 DEF MadeRecently
  <2> DEFINE v == ValueOf(made[result[t]], Owner[t])
  <2>4. v \in Values /\ v.version = made[result[t]] /\ v.by = Owner[t]
    BY <2>1 DEF Values
  <2>5. Answer(t, v)
    OBVIOUS
  <2> QED
    BY <2>1, <2>3, <2>4, <2>5, Answered
<1>7. ValueIsResult'
  <2>1. /\ stage' = [stage EXCEPT ![t] = "done"] /\ pc[t] = "done"
        /\ UNCHANGED <<asked, pc, made, result>>
        /\ value'[t] = ValueOf(made[result[t]], Owner[t])
        /\ \A u \in Tasks \ {t} : value'[u] = value[u] /\ stage'[u] = stage[u]
    BY DEF EvalTypes
  <2>2. ValueIsResult
    OBVIOUS
  <2> QED
    BY ONLY <2>1, <2>2 DEF ValueIsResult, ValueOf
<1> QED
  BY <1>1, <1>2, <1>3, <1>4, <1>5, <1>6, <1>7 DEF EvalRest

\* one that is not reads the present version
LEMMA ReadDirectEval ==
    ASSUME EvalInv, NEW t \in Tasks, ReadDirect(t)
    PROVE  EvalRest'
<1> USE EvalFacts DEF EvalInv, ReadDirect, Goto, vars, global, data, env
<1>1. /\ stage[t] = "direct" /\ stage' = [stage EXCEPT ![t] = "fetched"]
      /\ value' = [value EXCEPT ![t] = ValueOf(version, Owner[t])]
      /\ ValueOf(version, Owner[t]) \in Values
  BY DEF EvalTypes, Values, ValueOf
<1>2. EvalTypeOK'
  BY <1>1 DEF EvalTypeOK
<1>3. Nested'
  BY <1>1 DEF Nested, EvalTypes, RequestKey
<1>4. DatedBack'
  BY DEF DatedBack, EvalTypes
<1>5. ReadRecently'
  BY DEF ReadRecently, GlobalTypes
<1>6. MadeRecently'
  BY DEF MadeRecently
<1>7. /\ value'[t].version = version /\ value'[t].by = Owner[t]
      /\ \A u \in Tasks \ {t} : value'[u] = value[u] /\ stage'[u] = stage[u]
  BY <1>1 DEF EvalTypes, ValueOf
<1>8. /\ Owner[t] \in Requests /\ since[Owner[t]][asked[t]] # 0
      /\ version >= since[Owner[t]][asked[t]]
  <2>1. /\ Owner[t] \in Requests /\ asked[t] \in IOs /\ version \in Nat
        /\ since \in [Requests -> [IOs -> Nat]]
    BY DEF EvalTypes
  <2>2. since[Owner[t]][asked[t]] <= version /\ since[Owner[t]][asked[t]] # 0
    BY <1>1, <2>1 DEF DatedBack
  <2> QED
    BY ONLY <2>1, <2>2
<1>9. ValuesDated' /\ NoOlderThanItsRequest'
  <2>1. UNCHANGED <<store, since, asked>> /\ ValuesDated /\ NoOlderThanItsRequest
    OBVIOUS
  <2> QED
    BY ONLY <1>7, <1>8, <2>1 DEF ValuesDated, NoOlderThanItsRequest, Nothing
<1>10. ValueIsResult'
  BY <1>1, <1>7 DEF ValueIsResult, EvalTypes, ValueOf
<1> QED
  BY <1>2, <1>3, <1>4, <1>5, <1>6, <1>9, <1>10 DEF EvalRest

\* and has it when the answer arrives, however much later.
LEMMA FinishDirectEval ==
    ASSUME EvalInv, NEW t \in Tasks, FinishDirect(t)
    PROVE  EvalRest'
<1> USE EvalFacts DEF EvalInv, FinishDirect, At, Answer, Goto, Stored,
    vars, global, data, eval, env
<1>1. EvalTypeOK'
  BY AnswerTypeOK DEF EvalTypes
<1>2. Nested'
  BY DEF Nested, EvalTypes, RequestKey
<1>3. DatedBack'
  BY DEF DatedBack, EvalTypes
<1>4. ReadRecently'
  BY DEF ReadRecently, GlobalTypes
<1>5. MadeRecently'
  BY DEF MadeRecently
<1>6. ValuesDated' /\ NoOlderThanItsRequest'
  <2>1. /\ value[t] \in Values /\ value[t].by \in Requests
        /\ since[value[t].by][asked[t]] # 0
        /\ value[t].version >= since[value[t].by][asked[t]]
    BY DEF EvalTypes, ValuesDated, NoOlderThanItsRequest
  <2>2. Answer(t, value[t])
    OBVIOUS
  <2> QED
    BY <2>1, <2>2, Answered
<1>7. ValueIsResult'
  <2>1. asked[t] \notin Deduped
    BY DEF Nested
  <2> QED
    BY <2>1 DEF ValueIsResult, EvalTypes
<1> QED
  BY <1>1, <1>2, <1>3, <1>4, <1>5, <1>6, <1>7 DEF EvalRest

\* An entry of the response cache expires.
LEMMA ExpireEval ==
    ASSUME EvalInv, NEW io \in IOs, Expire(io)
    PROVE  EvalRest'
<1> USE EvalFacts DEF EvalInv, Expire,
    vars, global, data, eval, env
<1>1. EvalTypeOK'
  <2>1. Nothing \in Values
    BY DEF Nothing, Values
  <2> QED
    BY <2>1 DEF EvalTypeOK
<1>2. Nested'
  BY DEF Nested, RequestKey
<1>3. DatedBack'
  BY DEF DatedBack
<1>4. ReadRecently'
  BY DEF ReadRecently
<1>5. MadeRecently'
  BY DEF MadeRecently
<1>6. ValuesDated'
  BY DEF ValuesDated, EvalTypes
<1>7. NoOlderThanItsRequest'
  BY DEF NoOlderThanItsRequest, EvalTypes
<1>8. ValueIsResult'
  BY DEF ValueIsResult
<1> QED
  BY <1>1, <1>2, <1>3, <1>4, <1>5, <1>6, <1>7, <1>8 DEF EvalRest

\* The upstream's data change.
LEMMA ChangeEval ==
    ASSUME EvalInv, Change
    PROVE  EvalRest'
<1> USE EvalFacts DEF EvalInv, Change,
    vars, global, data, eval, env
<1>1. EvalTypeOK'
  BY DEF EvalTypeOK
<1>2. Nested'
  BY DEF Nested, RequestKey
<1>3. DatedBack'
  BY DEF DatedBack, EvalTypes
<1>4. ReadRecently'
  BY DEF ReadRecently
<1>5. MadeRecently'
  BY DEF MadeRecently
<1>6. ValuesDated'
  BY DEF ValuesDated
<1>7. NoOlderThanItsRequest'
  BY DEF NoOlderThanItsRequest
<1>8. ValueIsResult'
  BY DEF ValueIsResult
<1> QED
  BY <1>1, <1>2, <1>3, <1>4, <1>5, <1>6, <1>7, <1>8 DEF EvalRest

\* A request is dropped, with both its dedupe() futures.
LEMMA DropEval ==
    ASSUME EvalInv, NEW t \in Tasks, Drop(t)
    PROVE  EvalRest'
<1>1. /\ EvalTypes /\ GlobalTypes /\ RequestTypes
      /\ EvalTypeOK /\ Nested /\ DatedBack /\ ReadRecently
      /\ MadeRecently /\ ValuesDated /\ NoOlderThanItsRequest /\ ValueIsResult
  BY EvalFacts DEF EvalInv
<1>2. /\ stage[t] \in {"dedupe", "direct", "fetched"} /\ stage' = [stage EXCEPT ![t] = "dropped"]
      /\ gone' = gone \cup {Owner[t]}
      /\ UNCHANGED <<read, made, asked, value, store, version, since>>
  BY DEF Drop, Goto, data
<1>3. /\ pc' = [pc EXCEPT ![t] = "idle"]
      /\ UNCHANGED <<cache, key, result, execs>>
      /\ \A u \in Tasks \ {t} : chan'[u] = chan[u]
  <2>1. CASE stage[t] = "dedupe"
    BY <1>1, <2>1 DEF Drop, Cancel, RequestTypes
  <2>2. CASE stage[t] # "dedupe"
    <3>1. pc[t] = "idle" /\ UNCHANGED vars
      BY <1>1, <1>2, <2>2 DEF Drop, Nested
    <3> QED
      BY <1>1, <3>1 DEF vars, RequestTypes
  <2> QED
    BY <2>1, <2>2
<1>4. /\ gpc' = [gpc EXCEPT ![t] = "idle"]
      /\ UNCHANGED <<gcache, gkey, gresult, gexecs>>
      /\ \A u \in Tasks \ {t} : gchan'[u] = gchan[u] /\ ginbox'[u] = ginbox[u]
  <2>1. CASE stage[t] = "dedupe" /\ pc[t] = "exec"
    BY <1>1, <2>1 DEF Drop, Global!Cancel, GlobalTypes
  <2>2. CASE ~(stage[t] = "dedupe" /\ pc[t] = "exec")
    <3>1. UNCHANGED global /\ pc[t] \in {"idle", "await"}
      BY <1>1, <1>2, <2>2 DEF Drop, Cancel, Nested
    <3>2. gpc[t] = "idle"
      BY <1>1, <3>1 DEF Nested
    <3> QED
      BY <1>1, <3>1, <3>2 DEF global, GlobalTypes
  <2> QED
    BY <2>1, <2>2
<1>5. EvalTypeOK'
  BY <1>1, <1>2, <1>3, <1>4 DEF EvalTypeOK, EvalTypes
<1>6. Nested'
  <2>1. pc'[t] = "idle" /\ gpc'[t] = "idle" /\ stage'[t] = "dropped"
    BY <1>1, <1>2, <1>3, <1>4 DEF EvalTypes, RequestTypes, GlobalTypes
  <2>2. \A u \in Tasks \ {t} : pc'[u] = pc[u] /\ gpc'[u] = gpc[u] /\ stage'[u] = stage[u]
    BY <1>1, <1>2, <1>3, <1>4 DEF EvalTypes, RequestTypes, GlobalTypes
  <2>3. Nested /\ asked' = asked /\ key' = key /\ gkey' = gkey
    BY <1>1, <1>2, <1>3, <1>4
  <2> QED
    BY ONLY <2>1, <2>2, <2>3 DEF Nested, RequestKey
<1>7. DatedBack'
  BY <1>1, <1>2, <1>4 DEF DatedBack, EvalTypes, GlobalTypes
<1>8. ReadRecently'
  BY <1>1, <1>2, <1>4 DEF ReadRecently, GlobalTypes
<1>9. MadeRecently'
  BY <1>1, <1>2, <1>3 DEF MadeRecently, RequestTypes
<1>10. ValuesDated' /\ NoOlderThanItsRequest'
  BY <1>1, <1>2 DEF ValuesDated, NoOlderThanItsRequest, EvalTypes, Nothing
<1>11. ValueIsResult'
  <2>1. \A u \in Tasks : stage'[u] = "done" => u # t /\ stage[u] = "done" /\ pc'[u] = pc[u]
    BY <1>1, <1>2, <1>3 DEF EvalTypes, RequestTypes
  <2> QED
    BY <1>1, <1>2, <1>3, <2>1 DEF ValueIsResult, ValueOf
<1> QED
  BY <1>5, <1>6, <1>7, <1>8, <1>9, <1>10, <1>11 DEF EvalRest

\* Every step of the composition keeps the invariant.
LEMMA EvalNextInv == EvalInv /\ [EvalNext]_evalVars => EvalInv'
<1> SUFFICES ASSUME EvalInv, [EvalNext]_evalVars PROVE EvalInv'
  OBVIOUS
<1>1. FullInv'
  <2>1. [Next]_vars
    BY StepsOfRequest DEF EvalInv, EvalTypeOK, Asked
  <2> QED
    BY <2>1, FullNext DEF EvalInv
<1>2. Global!FullInv'
  BY StepsOfGlobal, GlobalNext DEF EvalInv, EvalTypeOK, Asked
<1>3. EvalRest'
  <2>1. CASE UNCHANGED evalVars
    BY <2>1 DEF EvalInv, EvalRest, evalVars, vars, global, data, eval, env, EvalTypeOK, Nested,
                RequestKey, DatedBack, ReadRecently, MadeRecently, ValuesDated,
                NoOlderThanItsRequest, ValueIsResult, ValueOf, Nothing
  <2>2. CASE \E t \in Tasks : CacheHit(t) \/ AskUpstream(t) \/ AskDedupe(t)
    BY <2>2, CacheHitEval, AskUpstreamEval, AskDedupeEval
  <2>3. ASSUME NEW t \in Tasks, Evaluation(t) PROVE EvalRest'
    <3>1. CASE RequestStep(t)
      BY <3>1, StepReturnEval, StepAwaitEval, RecvEval, PublishEval, ReturnEval DEF RequestStep
    <3>2. CASE GlobalStep(t)
      BY <3>2, GStepAwaitEval, GRecvEval, GRecvErrEval, GPublishEval, GReturnEval DEF GlobalStep
    <3>3. CASE Lead(t) \/ GlobalLead(t) \/ GlobalRead(t) \/ Land(t)
      BY <3>3, LeadEval, GlobalLeadEval, GlobalReadEval, LandEval
    <3>4. CASE Finish(t) \/ ReadDirect(t) \/ FinishDirect(t)
      BY <3>4, FinishEval, ReadDirectEval, FinishDirectEval
    <3> QED
      BY <2>3, <3>1, <3>2, <3>3, <3>4 DEF Evaluation
  <2>4. CASE Change \/ (\E io \in IOs : Expire(io)) \/ \E t \in Tasks : Drop(t)
    BY <2>4, ChangeEval, ExpireEval, DropEval
  <2> QED
    BY <2>1, <2>2, <2>3, <2>4 DEF EvalNext
<1> QED
  BY <1>1, <1>2, <1>3 DEF EvalInv, EvalRest

\* Initially nobody has asked, and nothing is stored.
LEMMA EvalInitInv == EvalInit => EvalInv
<1> SUFFICES ASSUME EvalInit PROVE EvalInv
  OBVIOUS
<1>1. FullInv /\ Global!FullInv
  BY InitInv, InitSettled, GlobalInit DEF EvalInit, FullInv
<1>2. EvalTypeOK
  BY EvalIoAssumption DEF EvalInit, EvalTypeOK, Init, Global!Init, Values, Nothing
<1>3. /\ \A t \in Tasks : pc[t] = "idle" /\ gpc[t] = "idle" /\ stage[t] = "new"
      /\ \A k \in Keys : cache[k].state # "ready"
      /\ \A io \in IOs : store[io] = Nothing
  BY DEF EvalInit, Init, Global!Init, Absent
<1>4. Nested /\ DatedBack /\ ReadRecently
  BY <1>3 DEF Nested, DatedBack, ReadRecently, EvalInit
<1>5. MadeRecently
  BY <1>3, EvalIoAssumption DEF MadeRecently
<1>6. ValuesDated /\ NoOlderThanItsRequest /\ ValueIsResult
  BY <1>3 DEF ValuesDated, NoOlderThanItsRequest, ValueIsResult
<1> QED
  BY <1>1, <1>2, <1>4, <1>5, <1>6 DEF EvalInv

\* eval(), eval_io(): the two dedupes, the response cache and the fields' values
\* agree at all times with the moments at which the requests first asked.
THEOREM EvalInvariance == EvalSpec => []EvalInv
  BY EvalInitInv, EvalNextInv, PTL DEF EvalSpec

\* eval(), eval_io(): no field gets, and the response cache never keeps, what
\* was read and handed out before the request that obtained it first asked.
THEOREM Recent == EvalSpec => []NoOlderThanItsRequest
<1>1. EvalInv => NoOlderThanItsRequest
  BY DEF EvalInv
<1> QED
  BY <1>1, EvalInvariance, PTL

\* eval_io(): the fields of a request that share a deduplicated io, and take it
\* from no cache, get one and the same value.
THEOREM OneValue == EvalSpec => []OneValuePerRequest
<1>1. ASSUME EvalInv PROVE OneValuePerRequest
  <2> SUFFICES ASSUME NEW t \in Tasks, NEW u \in Tasks,
                      stage[t] = "done", stage[u] = "done",
                      Owner[t] = Owner[u], asked[t] = asked[u],
                      asked[t] \in Deduped \ Cached
               PROVE  value[t] = value[u]
    BY DEF OneValuePerRequest
  <2>1. /\ pc[t] = "done" /\ value[t] = ValueOf(made[result[t]], Owner[t])
        /\ pc[u] = "done" /\ value[u] = ValueOf(made[result[u]], Owner[u])
    BY <1>1 DEF EvalInv, ValueIsResult
  <2>2. key[t] = key[u]
    BY <1>1, <2>1 DEF EvalInv, Nested, RequestKey
  <2>3. result[t] = result[u]
    BY <1>1, <2>1, <2>2, EvalFacts DEF RequestKnown
  <2> QED
    BY <2>1, <2>3
<1> QED
  BY <1>1, EvalInvariance, PTL
=============================================================================
