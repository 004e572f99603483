---------------------------- MODULE DedupeProofs ----------------------------
(***************************************************************************)
(* Dedupe for any number of tasks, keys and calls: the inductive invariant *)
(* Inv and what follows from it.  One lemma per action; the argument rests *)
(* on OneSender (a sender has one strong reference) and EntryOfLeader (a   *)
(* weak pointer that can be upgraded belongs to a leader of that key that  *)
(* has not sent), which is why a caller never overwrites a live entry.     *)
(***************************************************************************)
EXTENDS Dedupe, TLAPS

\* Entries are equal when they name the same execution: State's constructors.
LEMMA EntryInjective ==
    ASSUME NEW c \in Nat, NEW d \in Nat
    PROVE  /\ Pending(c) = Pending(d) => c = d
           /\ Ready(c) = Ready(d) => c = d
           /\ Pending(c) # Ready(d)
           /\ Pending(c) # Absent
           /\ Ready(c) # Absent
<1>1. /\ Pending(c).exec = c /\ Pending(d).exec = d
      /\ Ready(c).exec = c /\ Ready(d).exec = d
  BY DEF Pending, Ready
<1>2. /\ Pending(c).state = "pending" /\ Ready(c).state = "ready"
      /\ Ready(d).state = "ready" /\ Absent.state = "absent"
  BY DEF Pending, Ready, Absent
<1> QED
  BY <1>1, <1>2

\* Dedupe::new() starts consistent.
LEMMA InitInv == Init => Inv
  BY DedupeAssumption DEF Init, Inv, TypeOK, ChannelsKnown, OneSender,
     LeaderOwnsEntry, EntryOfLeader, ReceiverOfLeader, AnswerStored,
     StaleStaysOver, FreshResult, OneResult, Leading, Absent, Pending, InFlight

\* The invariant when a task enters dedupe().
LEMMA CallInv ==
    ASSUME Inv, NEW t \in Tasks, NEW k \in Keys, Call(t, k)
    PROVE  Inv'
<1>1. TypeOK'
  BY DedupeAssumption DEF Inv, TypeOK, Call
<1>2. ChannelsKnown'
  BY DEF Inv, TypeOK, ChannelsKnown, Call, Ready, Pending, Absent, Leading,
         Alive
<1>3. OneSender'
  BY DEF Inv, TypeOK, OneSender, ChannelsKnown, Call, Ready, Pending,
         Absent, Leading, Alive
<1>4. LeaderOwnsEntry'
  BY DEF Inv, TypeOK, LeaderOwnsEntry, OneSender, Call, Ready, Pending,
         Absent, Leading, Alive
<1>5. EntryOfLeader'
  BY DEF Inv, TypeOK, EntryOfLeader, ChannelsKnown, OneSender,
         LeaderOwnsEntry, Call, Ready, Pending, Absent, Leading, Alive
<1>6. ReceiverOfLeader'
  BY DEF Inv, TypeOK, ReceiverOfLeader, ChannelsKnown, EntryOfLeader,
         OneSender, Call, Ready, Pending, Absent, Leading, Alive
<1>7. AnswerStored'
  BY DEF Inv, TypeOK, AnswerStored, LeaderOwnsEntry, ReceiverOfLeader, Call,
         Ready, Pending, Absent, Leading, Alive
<1>8. StaleStaysOver'
  BY DEF Inv, TypeOK, StaleStaysOver, ChannelsKnown, InFlight, OneSender,
         EntryOfLeader, Call, Ready, Pending, Absent, Leading, Alive
<1>9. FreshResult'
  BY DEF Inv, TypeOK, FreshResult, StaleStaysOver, Call, Ready, Pending,
         Absent, Leading, Alive
<1>10. OneResult'
  BY DEF Inv, TypeOK, OneResult, AnswerStored, LeaderOwnsEntry, Call, Ready,
         Pending, Absent, Leading, Alive
<1> QED
  BY <1>1, <1>2, <1>3, <1>4, <1>5, <1>6, <1>7, <1>8, <1>9, <1>10 DEF Inv

\* The invariant when step() finds a stored value.
LEMMA StepReturnInv ==
    ASSUME Inv, NEW t \in Tasks, StepReturn(t)
    PROVE  Inv'
<1>1. TypeOK'
  BY DEF Inv, TypeOK, ChannelsKnown, StepReturn, Ready, Pending, Absent,
         Leading, Alive
<1>2. ChannelsKnown'
  BY DEF Inv, TypeOK, ChannelsKnown, StepReturn, Ready, Pending, Absent,
         Leading, Alive
<1>3. OneSender'
  BY DEF Inv, TypeOK, OneSender, ChannelsKnown, StepReturn, Ready, Pending,
         Absent, Leading, Alive
<1>4. LeaderOwnsEntry'
  BY DEF Inv, TypeOK, LeaderOwnsEntry, OneSender, StepReturn, Ready,
         Pending, Absent, Leading, Alive
<1>5. EntryOfLeader'
  BY DEF Inv, TypeOK, EntryOfLeader, ChannelsKnown, OneSender,
         LeaderOwnsEntry, StepReturn, Ready, Pending, Absent, Leading,
         Alive
<1>6. ReceiverOfLeader'
  BY DEF Inv, TypeOK, ReceiverOfLeader, ChannelsKnown, EntryOfLeader,
         OneSender, StepReturn, Ready, Pending, Absent, Leading, Alive
<1>7. AnswerStored'
  BY DEF Inv, TypeOK, AnswerStored, LeaderOwnsEntry, ReceiverOfLeader,
         StepReturn, Ready, Pending, Absent, Leading, Alive
<1>8. StaleStaysOver'
  BY DEF Inv, TypeOK, StaleStaysOver, ChannelsKnown, InFlight, OneSender,
         EntryOfLeader, StepReturn, Ready, Pending, Absent, Leading, Alive
<1>9. FreshResult'
  BY DEF Inv, TypeOK, FreshResult, StaleStaysOver, StepReturn, Ready,
         Pending, Absent, Leading, Alive
<1>10. OneResult'
  BY DEF Inv, TypeOK, OneResult, AnswerStored, LeaderOwnsEntry, StepReturn,
         Ready, Pending, Absent, Leading, Alive
<1> QED
  BY <1>1, <1>2, <1>3, <1>4, <1>5, <1>6, <1>7, <1>8, <1>9, <1>10 DEF Inv

\* The invariant when step() subscribes to a live sender.
LEMMA StepAwaitInv ==
    ASSUME Inv, NEW t \in Tasks, StepAwait(t)
    PROVE  Inv'
<1>1. TypeOK'
  BY DEF Inv, TypeOK, ChannelsKnown, StepAwait, Joinable, Ready, Pending,
         Absent, Leading, Alive
<1>2. ChannelsKnown'
  BY DEF Inv, TypeOK, ChannelsKnown, StepAwait, Joinable, Ready, Pending,
         Absent, Leading, Alive
<1>3. OneSender'
  BY DEF Inv, TypeOK, OneSender, ChannelsKnown, StepAwait, Joinable, Ready,
         Pending, Absent, Leading, Alive
<1>4. LeaderOwnsEntry'
  BY DEF Inv, TypeOK, LeaderOwnsEntry, OneSender, StepAwait, Joinable,
         Ready, Pending, Absent, Leading, Alive
<1>5. EntryOfLeader'
  BY DEF Inv, TypeOK, EntryOfLeader, ChannelsKnown, OneSender,
         LeaderOwnsEntry, StepAwait, Joinable, Ready, Pending, Absent,
         Leading, Alive
<1>6. ReceiverOfLeader'
  BY DEF Inv, TypeOK, ReceiverOfLeader, ChannelsKnown, EntryOfLeader,
         OneSender, StepAwait, Joinable, Ready, Pending, Absent, Leading,
         Alive
<1>7. AnswerStored'
  BY DEF Inv, TypeOK, AnswerStored, LeaderOwnsEntry, ReceiverOfLeader,
         StepAwait, Joinable, Ready, Pending, Absent, Leading, Alive
<1>8. StaleStaysOver'
  BY DEF Inv, TypeOK, StaleStaysOver, ChannelsKnown, InFlight, OneSender,
         EntryOfLeader, StepAwait, Joinable, Ready, Pending, Absent,
         Leading, Alive
<1>9. FreshResult'
  BY DEF Inv, TypeOK, FreshResult, StaleStaysOver, StepAwait, Joinable,
         Ready, Pending, Absent, Leading, Alive
<1>10. OneResult'
  BY DEF Inv, TypeOK, OneResult, AnswerStored, LeaderOwnsEntry, StepAwait,
         Joinable, Ready, Pending, Absent, Leading, Alive
<1> QED
  BY <1>1, <1>2, <1>3, <1>4, <1>5, <1>6, <1>7, <1>8, <1>9, <1>10 DEF Inv

\* The invariant when step() files a new weak pointer.
LEMMA StepInitInv ==
    ASSUME Inv, NEW t \in Tasks, StepInit(t)
    PROVE  Inv'
<1>1. TypeOK'
  BY DEF Inv, TypeOK, ChannelsKnown, StepInit, Joinable, NewChannel, Ready,
         Pending, Absent, Leading, Alive
<1>2. ChannelsKnown'
  BY DEF Inv, TypeOK, ChannelsKnown, StepInit, Joinable, NewChannel, Ready,
         Pending, Absent, Leading, Alive
<1>3. OneSender'
  BY DEF Inv, TypeOK, OneSender, ChannelsKnown, StepInit, Joinable,
         NewChannel, Ready, Pending, Absent, Leading, Alive
<1>4. LeaderOwnsEntry'
  BY DEF Inv, TypeOK, LeaderOwnsEntry, OneSender, StepInit, Joinable,
         NewChannel, Ready, Pending, Absent, Leading, Alive
<1>5. EntryOfLeader'
  BY DEF Inv, TypeOK, EntryOfLeader, ChannelsKnown, OneSender,
         LeaderOwnsEntry, StepInit, Joinable, NewChannel, Ready, Pending,
         Absent, Leading, Alive
<1>6. ReceiverOfLeader'
  BY DEF Inv, TypeOK, ReceiverOfLeader, ChannelsKnown, EntryOfLeader,
         OneSender, StepInit, Joinable, NewChannel, Ready, Pending, Absent,
         Leading, Alive
<1>7. AnswerStored'
  <2> SUFFICES ASSUME Persist, NEW u \in Tasks
               PROVE  /\ pc'[u] = "await" /\ inbox'[u] # 0
                         => cache'[key'[u]] = Ready(inbox'[u])
                      /\ pc'[u] = "return" => cache'[key'[u]] = Ready(chan'[u])
    BY DEF AnswerStored
  <2>1. cache[key[t]].state # "ready" /\ \A e : Ready(e).state = "ready"
    BY DEF StepInit, Ready
  <2>2. u # t \/ pc'[u] = "exec"
    BY DEF StepInit, Inv, TypeOK
  <2>3. CASE u # t /\ key[u] # key[t]
    BY <2>3 DEF Inv, TypeOK, AnswerStored, StepInit
  <2>4. CASE u # t /\ key[u] = key[t]
    BY <2>1, <2>4 DEF Inv, TypeOK, AnswerStored, StepInit
  <2> QED
    BY <2>2, <2>3, <2>4
<1>8. StaleStaysOver'
  BY DEF Inv, TypeOK, StaleStaysOver, ChannelsKnown, InFlight, OneSender,
         EntryOfLeader, StepInit, Joinable, NewChannel, Ready, Pending,
         Absent, Leading, Alive
<1>9. FreshResult'
  BY DEF Inv, TypeOK, FreshResult, StaleStaysOver, StepInit, Joinable,
         NewChannel, Ready, Pending, Absent, Leading, Alive
<1>10. OneResult'
  BY DEF Inv, TypeOK, OneResult, AnswerStored, LeaderOwnsEntry, StepInit,
         Joinable, NewChannel, Ready, Pending, Absent, Leading, Alive
<1> QED
  BY <1>1, <1>2, <1>3, <1>4, <1>5, <1>6, <1>7, <1>8, <1>9, <1>10 DEF Inv

\* The invariant when a receiver gets the value.
LEMMA RecvInv ==
    ASSUME Inv, NEW t \in Tasks, Recv(t)
    PROVE  Inv'
<1>1. TypeOK'
  BY DEF Inv, TypeOK, ChannelsKnown, Recv, Ready, Pending, Absent, Leading,
         Alive
<1>2. ChannelsKnown'
  BY DEF Inv, TypeOK, ChannelsKnown, Recv, Ready, Pending, Absent, Leading,
         Alive
<1>3. OneSender'
  BY DEF Inv, TypeOK, OneSender, ChannelsKnown, Recv, Ready, Pending,
         Absent, Leading, Alive
<1>4. LeaderOwnsEntry'
  BY DEF Inv, TypeOK, LeaderOwnsEntry, OneSender, Recv, Ready, Pending,
         Absent, Leading, Alive
<1>5. EntryOfLeader'
  BY DEF Inv, TypeOK, EntryOfLeader, ChannelsKnown, OneSender,
         LeaderOwnsEntry, Recv, Ready, Pending, Absent, Leading, Alive
<1>6. ReceiverOfLeader'
  BY DEF Inv, TypeOK, ReceiverOfLeader, ChannelsKnown, EntryOfLeader,
         OneSender, Recv, Ready, Pending, Absent, Leading, Alive
<1>7. AnswerStored'
  BY DEF Inv, TypeOK, AnswerStored, LeaderOwnsEntry, ReceiverOfLeader, Recv,
         Ready, Pending, Absent, Leading, Alive
<1>8. StaleStaysOver'
  BY DEF Inv, TypeOK, StaleStaysOver, ChannelsKnown, InFlight, OneSender,
         EntryOfLeader, Recv, Ready, Pending, Absent, Leading, Alive
<1>9. FreshResult'
  BY DEF Inv, TypeOK, FreshResult, StaleStaysOver, Recv, Ready, Pending,
         Absent, Leading, Alive
<1>10. OneResult'
  BY DEF Inv, TypeOK, OneResult, AnswerStored, LeaderOwnsEntry, Recv, Ready,
         Pending, Absent, Leading, Alive
<1> QED
  BY <1>1, <1>2, <1>3, <1>4, <1>5, <1>6, <1>7, <1>8, <1>9, <1>10 DEF Inv

\* The invariant when a receiver learns that its leader is gone.
LEMMA RecvErrInv ==
    ASSUME Inv, NEW t \in Tasks, RecvErr(t)
    PROVE  Inv'
<1>1. TypeOK'
  BY DEF Inv, TypeOK, ChannelsKnown, RecvErr, Ready, Pending, Absent,
         Leading, Alive
<1>2. ChannelsKnown'
  BY DEF Inv, TypeOK, ChannelsKnown, RecvErr, Ready, Pending, Absent,
         Leading, Alive
<1>3. OneSender'
  BY DEF Inv, TypeOK, OneSender, ChannelsKnown, RecvErr, Ready, Pending,
         Absent, Leading, Alive
<1>4. LeaderOwnsEntry'
  BY DEF Inv, TypeOK, LeaderOwnsEntry, OneSender, RecvErr, Ready, Pending,
         Absent, Leading, Alive
<1>5. EntryOfLeader'
  BY DEF Inv, TypeOK, EntryOfLeader, ChannelsKnown, OneSender,
         LeaderOwnsEntry, RecvErr, Ready, Pending, Absent, Leading, Alive
<1>6. ReceiverOfLeader'
  BY DEF Inv, TypeOK, ReceiverOfLeader, ChannelsKnown, EntryOfLeader,
         OneSender, RecvErr, Ready, Pending, Absent, Leading, Alive
<1>7. AnswerStored'
  BY DEF Inv, TypeOK, AnswerStored, LeaderOwnsEntry, ReceiverOfLeader,
         RecvErr, Ready, Pending, Absent, Leading, Alive
<1>8. StaleStaysOver'
  BY DEF Inv, TypeOK, StaleStaysOver, ChannelsKnown, InFlight, OneSender,
         EntryOfLeader, RecvErr, Ready, Pending, Absent, Leading, Alive
<1>9. FreshResult'
  BY DEF Inv, TypeOK, FreshResult, StaleStaysOver, RecvErr, Ready, Pending,
         Absent, Leading, Alive
<1>10. OneResult'
  BY DEF Inv, TypeOK, OneResult, AnswerStored, LeaderOwnsEntry, RecvErr,
         Ready, Pending, Absent, Leading, Alive
<1> QED
  BY <1>1, <1>2, <1>3, <1>4, <1>5, <1>6, <1>7, <1>8, <1>9, <1>10 DEF Inv

\* The invariant when or_else finishes.
LEMMA ExecuteInv ==
    ASSUME Inv, NEW t \in Tasks, Execute(t)
    PROVE  Inv'
<1>1. TypeOK'
  BY DEF Inv, TypeOK, ChannelsKnown, Execute, Ready, Pending, Absent,
         Leading, Alive
<1>2. ChannelsKnown'
  BY DEF Inv, TypeOK, ChannelsKnown, Execute, Ready, Pending, Absent,
         Leading, Alive
<1>3. OneSender'
  BY DEF Inv, TypeOK, OneSender, ChannelsKnown, Execute, Ready, Pending,
         Absent, Leading, Alive
<1>4. LeaderOwnsEntry'
  BY DEF Inv, TypeOK, LeaderOwnsEntry, OneSender, Execute, Ready, Pending,
         Absent, Leading, Alive
<1>5. EntryOfLeader'
  BY DEF Inv, TypeOK, EntryOfLeader, ChannelsKnown, OneSender,
         LeaderOwnsEntry, Execute, Ready, Pending, Absent, Leading, Alive
<1>6. ReceiverOfLeader'
  BY DEF Inv, TypeOK, ReceiverOfLeader, ChannelsKnown, EntryOfLeader,
         OneSender, Execute, Ready, Pending, Absent, Leading, Alive
<1>7. AnswerStored'
  BY DEF Inv, TypeOK, AnswerStored, LeaderOwnsEntry, ReceiverOfLeader,
         Execute, Ready, Pending, Absent, Leading, Alive
<1>8. StaleStaysOver'
  BY DEF Inv, TypeOK, StaleStaysOver, ChannelsKnown, InFlight, OneSender,
         EntryOfLeader, Execute, Ready, Pending, Absent, Leading, Alive
<1>9. FreshResult'
  BY DEF Inv, TypeOK, FreshResult, StaleStaysOver, Execute, Ready, Pending,
         Absent, Leading, Alive
<1>10. OneResult'
  BY DEF Inv, TypeOK, OneResult, AnswerStored, LeaderOwnsEntry, Execute,
         Ready, Pending, Absent, Leading, Alive
<1> QED
  BY <1>1, <1>2, <1>3, <1>4, <1>5, <1>6, <1>7, <1>8, <1>9, <1>10 DEF Inv

\* The invariant when the leader updates the map and sends.
LEMMA PublishInv ==
    ASSUME Inv, NEW t \in Tasks, Publish(t)
    PROVE  Inv'
<1>1. /\ cache[key[t]] = Pending(chan[t])
      /\ chan[t] \in Nat \ {0}
      /\ key[t] \in Keys
  BY DEF Inv, TypeOK, LeaderOwnsEntry, ChannelsKnown, Publish, Leading
\* Nobody else runs or_else for this key, and nobody has received yet.
<1>2. \A u \in Tasks : pc[u] \in {"exec", "publish"} /\ key[u] = key[t] => u = t
  <2> SUFFICES ASSUME NEW u \in Tasks, pc[u] \in {"exec", "publish"},
                      key[u] = key[t]
               PROVE  u = t
    OBVIOUS
  <2>1. Pending(chan[u]) = Pending(chan[t]) /\ chan[u] \in Nat
    BY <1>1 DEF Inv, TypeOK, LeaderOwnsEntry
  <2>2. chan[u] = chan[t]
    BY <1>1, <2>1, EntryInjective
  <2> QED
    BY <2>2 DEF Inv, OneSender, Leading, Publish
<1>3. \A u \in Tasks : pc[u] = "await" /\ chan[u] = chan[t] => key[u] = key[t]
  BY DEF Inv, ReceiverOfLeader, Publish, Leading
<1>4. /\ cache' = [cache EXCEPT ![key[t]] = Settled(t)]
      /\ Persist => Settled(t) = Ready(chan[t])
      /\ ~Persist => Settled(t) = Absent
      /\ pc' = [pc EXCEPT ![t] = "return"]
      /\ inbox' = [u \in Tasks |-> IF pc[u] = "await" /\ chan[u] = chan[t]
                                   THEN chan[t] ELSE inbox[u]]
      /\ UNCHANGED <<key, chan, result, execs, calls, stale>>
  BY DEF Publish, Settled
<1>5. TypeOK'
  <2>1. Settled(t) \in [state : {"absent", "ready", "pending"}, exec : Nat]
    BY <1>1 DEF Settled, Ready, Absent
  <2>2. Settled(t) = Absent \/ Settled(t).exec # 0
    BY <1>1 DEF Settled, Ready
  <2>3. \A k \in Keys : cache'[k] = Absent \/ cache'[k].exec # 0
    BY <1>4, <2>2 DEF Inv, TypeOK
  <2>4. inbox' \in [Tasks -> Nat]
    BY <1>1, <1>4 DEF Inv, TypeOK
  <2> QED
    BY <1>4, <2>1, <2>3, <2>4 DEF Inv, TypeOK
<1>6. ChannelsKnown'
  BY DEF Inv, TypeOK, ChannelsKnown, Publish, Settled, Ready, Absent, Leading
<1>7. OneSender'
  BY DEF Inv, TypeOK, OneSender, Publish, Leading
<1>8. LeaderOwnsEntry'
  BY <1>2, <1>4 DEF Inv, TypeOK, LeaderOwnsEntry
<1>9. EntryOfLeader'
  BY DEF Inv, TypeOK, EntryOfLeader, OneSender, Publish, Settled, Leading,
         Ready, Pending, Absent
<1>10. ReceiverOfLeader'
  BY <1>1 DEF Inv, TypeOK, ReceiverOfLeader, OneSender, Publish, Leading
<1>11. ~Persist => StaleStaysOver'
  BY DEF Inv, TypeOK, StaleStaysOver, InFlight, OneSender, Publish, Settled,
         Leading, Absent, Ready
<1>12. Persist => StaleStaysOver'
  BY DEF Inv, TypeOK, StaleStaysOver, InFlight, Publish
\* Entries that are already Ready are of other keys.
<1>13. \A e : cache[key[t]] # Ready(e)
  BY <1>1 DEF Pending, Ready
<1>14. AnswerStored'
  <2> SUFFICES ASSUME Persist, NEW u \in Tasks
               PROVE  /\ pc'[u] = "await" /\ inbox'[u] # 0
                         => cache'[key'[u]] = Ready(inbox'[u])
                      /\ pc'[u] = "return" => cache'[key'[u]] = Ready(chan'[u])
    BY DEF AnswerStored
  <2>1. CASE key[u] # key[t]
    BY <1>3, <1>4, <2>1 DEF Inv, TypeOK, AnswerStored
  <2>2. CASE key[u] = key[t]
    <3>1. cache'[key[u]] = Ready(chan[t])
      BY <1>1, <1>4, <2>2 DEF Inv, TypeOK
    <3>2. pc[u] # "return"
      BY <1>13, <2>2 DEF Inv, AnswerStored
    <3>3. pc[u] = "await" => inbox[u] = 0
      BY <1>13, <2>2 DEF Inv, AnswerStored
    <3> QED
      BY <1>4, <3>1, <3>2, <3>3 DEF Inv, TypeOK
  <2> QED
    BY <2>1, <2>2
<1>15. FreshResult'
  BY DEF Inv, TypeOK, FreshResult, Publish
<1>16. OneResult'
  BY <1>4, <1>13 DEF Inv, TypeOK, OneResult
<1> QED
  BY <1>5, <1>6, <1>7, <1>8, <1>9, <1>10, <1>11, <1>12, <1>14, <1>15, <1>16
  DEF Inv

\* The invariant when the leader drops its sender.
LEMMA ReturnInv ==
    ASSUME Inv, NEW t \in Tasks, Return(t)
    PROVE  Inv'
<1>1. TypeOK'
  BY DEF Inv, TypeOK, ChannelsKnown, Return, Ready, Pending, Absent,
         Leading, Alive
<1>2. ChannelsKnown'
  BY DEF Inv, TypeOK, ChannelsKnown, Return, Ready, Pending, Absent,
         Leading, Alive
<1>3. OneSender'
  BY DEF Inv, TypeOK, OneSender, ChannelsKnown, Return, Ready, Pending,
         Absent, Leading, Alive
<1>4. LeaderOwnsEntry'
  BY DEF Inv, TypeOK, LeaderOwnsEntry, OneSender, Return, Ready, Pending,
         Absent, Leading, Alive
<1>5. EntryOfLeader'
  BY DEF Inv, TypeOK, EntryOfLeader, ChannelsKnown, OneSender,
         LeaderOwnsEntry, Return, Ready, Pending, Absent, Leading, Alive
<1>6. ReceiverOfLeader'
  BY DEF Inv, TypeOK, ReceiverOfLeader, ChannelsKnown, EntryOfLeader,
         OneSender, Return, Ready, Pending, Absent, Leading, Alive
<1>7. AnswerStored'
  BY DEF Inv, TypeOK, AnswerStored, LeaderOwnsEntry, ReceiverOfLeader,
         Return, Ready, Pending, Absent, Leading, Alive
<1>8. StaleStaysOver'
  BY DEF Inv, TypeOK, StaleStaysOver, ChannelsKnown, InFlight, OneSender,
         EntryOfLeader, Return, Ready, Pending, Absent, Leading, Alive
<1>9. FreshResult'
  BY DEF Inv, TypeOK, FreshResult, StaleStaysOver, Return, Ready, Pending,
         Absent, Leading, Alive
<1>10. OneResult'
  BY DEF Inv, TypeOK, OneResult, AnswerStored, LeaderOwnsEntry, Return,
         Ready, Pending, Absent, Leading, Alive
<1> QED
  BY <1>1, <1>2, <1>3, <1>4, <1>5, <1>6, <1>7, <1>8, <1>9, <1>10 DEF Inv

\* The invariant when a future is dropped at an await.
LEMMA CancelInv ==
    ASSUME Inv, NEW t \in Tasks, Cancel(t)
    PROVE  Inv'
<1>1. TypeOK'
  BY DEF Inv, TypeOK, ChannelsKnown, Cancel, Ready, Pending, Absent,
         Leading, Alive
<1>2. ChannelsKnown'
  BY DEF Inv, TypeOK, ChannelsKnown, Cancel, Ready, Pending, Absent,
         Leading, Alive
<1>3. OneSender'
  BY DEF Inv, TypeOK, OneSender, ChannelsKnown, Cancel, Ready, Pending,
         Absent, Leading, Alive
<1>4. LeaderOwnsEntry'
  BY DEF Inv, TypeOK, LeaderOwnsEntry, OneSender, Cancel, Ready, Pending,
         Absent, Leading, Alive
<1>5. EntryOfLeader'
  BY DEF Inv, TypeOK, EntryOfLeader, ChannelsKnown, OneSender,
         LeaderOwnsEntry, Cancel, Ready, Pending, Absent, Leading, Alive
<1>6. ReceiverOfLeader'
  BY DEF Inv, TypeOK, ReceiverOfLeader, ChannelsKnown, EntryOfLeader,
         OneSender, Cancel, Ready, Pending, Absent, Leading, Alive
<1>7. AnswerStored'
  BY DEF Inv, TypeOK, AnswerStored, LeaderOwnsEntry, ReceiverOfLeader,
         Cancel, Ready, Pending, Absent, Leading, Alive
<1>8. StaleStaysOver'
  BY DEF Inv, TypeOK, StaleStaysOver, ChannelsKnown, InFlight, OneSender,
         EntryOfLeader, Cancel, Ready, Pending, Absent, Leading, Alive
<1>9. FreshResult'
  BY DEF Inv, TypeOK, FreshResult, StaleStaysOver, Cancel, Ready, Pending,
         Absent, Leading, Alive
<1>10. OneResult'
  BY DEF Inv, TypeOK, OneResult, AnswerStored, LeaderOwnsEntry, Cancel,
         Ready, Pending, Absent, Leading, Alive
<1> QED
  BY <1>1, <1>2, <1>3, <1>4, <1>5, <1>6, <1>7, <1>8, <1>9, <1>10 DEF Inv

\* Every step of dedupe() preserves the invariant.
LEMMA NextInv == Inv /\ [Next]_vars => Inv'
<1> SUFFICES ASSUME Inv, [Next]_vars PROVE Inv'
  OBVIOUS
<1>1. CASE UNCHANGED vars
  BY <1>1 DEF vars, Inv, TypeOK, ChannelsKnown, OneSender, LeaderOwnsEntry,
     EntryOfLeader, ReceiverOfLeader, AnswerStored, StaleStaysOver,
     FreshResult, OneResult, InFlight
<1>2. ASSUME NEW t \in Tasks, NEW k \in Keys, Call(t, k) PROVE Inv'
  BY <1>2, CallInv
<1>3. ASSUME NEW t \in Tasks, Progress(t) PROVE Inv'
  BY <1>3, StepReturnInv, StepAwaitInv, StepInitInv, RecvInv, RecvErrInv,
     ExecuteInv, PublishInv, ReturnInv DEF Progress
<1>4. ASSUME NEW t \in Tasks, Cancel(t) PROVE Inv'
  BY <1>4, CancelInv
<1> QED
  BY <1>1, <1>2, <1>3, <1>4 DEF Next

\* dedupe(): the map, the channels and the callers agree in every state, for
\* any tasks, keys and calls.
THEOREM Invariance == Spec => []Inv
<1> QED
  BY InitInv, NextInv, PTL DEF Spec

\* The types of dedupe()'s state.
THEOREM TypeCorrect == Spec => []TypeOK
<1>1. Inv => TypeOK
  BY DEF Inv
<1> QED
  BY <1>1, Invariance, PTL

\* dedupe(): or_else never runs twice at a time for one key.
THEOREM NeverTwice == Spec => []SingleExecution
<1>1. Inv => SingleExecution
  <2> SUFFICES ASSUME Inv, NEW t \in Tasks, NEW u \in Tasks,
                      pc[t] \in {"exec", "publish"},
                      pc[u] \in {"exec", "publish"}, key[t] = key[u]
               PROVE  t = u
    BY DEF SingleExecution
  <2>1. Pending(chan[t]) = Pending(chan[u]) /\ chan[t] \in Nat /\ chan[u] \in Nat
    BY DEF Inv, TypeOK, LeaderOwnsEntry
  <2>2. chan[t] = chan[u]
    BY <2>1, EntryInjective
  <2> QED
    BY <2>2 DEF Inv, OneSender, Leading
<1> QED
  BY <1>1, Invariance, PTL

\* step(): whoever waits on an open, empty channel has a leader yet to send.
THEOREM WakeupKept == Spec => []NoLostWakeup
<1>1. Inv => NoLostWakeup
  BY DEF Inv, NoLostWakeup, ReceiverOfLeader, Alive, Leading
<1> QED
  BY <1>1, Invariance, PTL

\* dedupe(): without persist no leftover is returned.
THEOREM ResultsRight == Spec => []FreshResult
<1>1. Inv => FreshResult
  BY DEF Inv
<1> QED
  BY <1>1, Invariance, PTL

\* dedupe(): with persist everybody is given the stored value.
THEOREM ResultsEqual == Spec => []OneResult
<1>1. Inv => OneResult
  BY DEF Inv
<1> QED
  BY <1>1, Invariance, PTL

-----------------------------------------------------------------------------
(* What is handed out is settled: nothing a caller holds, and nothing the   *)
(* map keeps, is still being computed.                                      *)

\* Dedupe::new(): nobody holds anything.
LEMMA InitSettled == Init => ResultPending /\ HandedOutIsOver
  BY DEF Init, ResultPending, HandedOutIsOver, Absent

\* step() looks at a map of an earlier or of this moment: only Call clears, and
\* only a return sets, what a caller has been given.
LEMMA ResultPendingStep ==
    ASSUME Inv, ResultPending, Next
    PROVE  ResultPending'
<1>1. ASSUME NEW t \in Tasks, NEW k \in Keys, Call(t, k) PROVE ResultPending'
  BY <1>1 DEF Inv, TypeOK, ResultPending, Call
<1>2. ASSUME NEW t \in Tasks, Progress(t) PROVE ResultPending'
  BY <1>2 DEF Inv, TypeOK, ResultPending, Progress, StepReturn, StepAwait,
     StepInit, Recv, RecvErr, Execute, Publish, Return
<1>3. ASSUME NEW t \in Tasks, Cancel(t) PROVE ResultPending'
  BY <1>3 DEF Inv, TypeOK, ResultPending, Cancel
<1> QED
  BY <1>1, <1>2, <1>3 DEF Next

\* The critical section that hands a value out ends the execution it is of.
LEMMA HandedOutStep ==
    ASSUME Inv, HandedOutIsOver, Next
    PROVE  HandedOutIsOver'
<1> USE DEF Inv, TypeOK, HandedOutIsOver, InFlight
<1>1. ASSUME NEW t \in Tasks, NEW k \in Keys, Call(t, k) PROVE HandedOutIsOver'
  BY <1>1 DEF Call
<1>2. ASSUME NEW t \in Tasks, StepReturn(t) PROVE HandedOutIsOver'
  BY <1>2 DEF StepReturn, ChannelsKnown, Absent
<1>3. ASSUME NEW t \in Tasks, StepAwait(t) PROVE HandedOutIsOver'
  BY <1>3 DEF StepAwait
<1>4. ASSUME NEW t \in Tasks, StepInit(t) PROVE HandedOutIsOver'
  BY <1>4 DEF StepInit, NewChannel, ChannelsKnown, Pending
<1>5. ASSUME NEW t \in Tasks, Recv(t) PROVE HandedOutIsOver'
  BY <1>5 DEF Recv
<1>6. ASSUME NEW t \in Tasks, RecvErr(t) PROVE HandedOutIsOver'
  BY <1>6 DEF RecvErr
<1>7. ASSUME NEW t \in Tasks, Execute(t) PROVE HandedOutIsOver'
  BY <1>7 DEF Execute
<1>8. ASSUME NEW t \in Tasks, Publish(t) PROVE HandedOutIsOver'
  BY <1>8 DEF Publish, Settled, Ready, Absent, OneSender, ChannelsKnown, Leading
<1>9. ASSUME NEW t \in Tasks, Return(t) PROVE HandedOutIsOver'
  BY <1>9 DEF Return, OneSender, ChannelsKnown, Leading
<1>10. ASSUME NEW t \in Tasks, Cancel(t) PROVE HandedOutIsOver'
  BY <1>10 DEF Cancel
<1> QED
  BY <1>1, <1>2, <1>3, <1>4, <1>5, <1>6, <1>7, <1>8, <1>9, <1>10
  DEF Next, Progress

\* Every step of dedupe() preserves all of it.
LEMMA FullNext == FullInv /\ [Next]_vars => FullInv'
<1> SUFFICES ASSUME FullInv, [Next]_vars PROVE FullInv'
  OBVIOUS
<1>1. Inv'
  BY NextInv DEF FullInv
<1>2. CASE Next
  BY <1>1, <1>2, ResultPendingStep, HandedOutStep DEF FullInv
<1>3. CASE UNCHANGED vars
  BY <1>1, <1>3 DEF vars, FullInv, ResultPending, HandedOutIsOver, InFlight
<1> QED
  BY <1>2, <1>3

\* dedupe(): besides Inv, a call has no result before it returns, and what has
\* been handed out or stored was computed by an execution that is over.
THEOREM FullInvariance == Spec => []FullInv
<1>1. Init => FullInv
  BY InitInv, InitSettled DEF FullInv
<1> QED
  BY <1>1, FullNext, PTL DEF Spec

-----------------------------------------------------------------------------
(* The refinement.  Every step of dedupe() is a step of SingleFlight or     *)
(* changes nothing it knows of: Execute, and RecvErr, by which a receiver   *)
(* learns what phaseBar has already counted it for.                         *)

\* Dedupe::new() is SingleFlight with nobody in the air.
LEMMA InitFlights == Init => Flights!Init
  BY DEF Init, Flights!Init, phaseBar, ticketBar, answerBar, storedBar, Absent

\* Entering dedupe() is asking.
LEMMA CallFlights ==
    ASSUME FullInv, NEW t \in Tasks, NEW k \in Keys, Call(t, k)
    PROVE  Flights!Ask(t, k)
<1> USE DEF FullInv, Inv, TypeOK, Call
<1>1. \A c : Alive(c)' = Alive(c)
  BY DEF Alive, Leading
<1>2. phaseBar[t] = "out"
  BY DEF phaseBar
<1>3. phaseBar' = [phaseBar EXCEPT ![t] = "asking"]
  BY <1>1 DEF phaseBar
<1>4. answerBar' = [answerBar EXCEPT ![t] = 0]
  BY DEF answerBar
<1>5. ticketBar' = ticketBar /\ storedBar' = storedBar
  BY DEF ticketBar, storedBar
<1> QED
  BY <1>2, <1>3, <1>4, <1>5 DEF Flights!Ask

\* What step() may conclude from the map: a key is in the air exactly if its
\* entry can be joined.
LEMMA InTheAirJoinable ==
    ASSUME FullInv, NEW k \in Keys
    PROVE  Flights!InTheAir(k) <=> Joinable(k)
<1>1. Flights!InTheAir(k) <=> \E t \in Tasks : pc[t] \in {"exec", "publish"} /\ key[t] = k
  BY DEF Flights!InTheAir, phaseBar, FullInv, Inv, TypeOK
<1>2. ASSUME NEW t \in Tasks, pc[t] \in {"exec", "publish"}, key[t] = k
      PROVE  Joinable(k)
  <2>1. cache[k] = Pending(chan[t])
    BY <1>2 DEF FullInv, Inv, LeaderOwnsEntry
  <2>2. cache[k].state = "pending" /\ cache[k].exec = chan[t]
    BY <2>1 DEF Pending
  <2>3. pc[t] \in Leading
    BY <1>2 DEF Leading
  <2> QED
    BY <2>2, <2>3 DEF Joinable, Alive
<1>3. ASSUME Joinable(k)
      PROVE  \E t \in Tasks : pc[t] \in {"exec", "publish"} /\ key[t] = k
  <2>1. PICK t \in Tasks : pc[t] \in Leading /\ chan[t] = cache[k].exec
    BY <1>3 DEF Joinable, Alive
  <2>2. cache[k] = Pending(chan[t])
    BY <1>3, <2>1 DEF Joinable, FullInv, Inv, TypeOK, Pending
  <2> QED
    BY <2>1, <2>2 DEF FullInv, Inv, EntryOfLeader, Leading
<1> QED
  BY <1>1, <1>2, <1>3

\* step() with a value in the map.
LEMMA StepReturnFlights ==
    ASSUME FullInv, NEW t \in Tasks, StepReturn(t)
    PROVE  Flights!Recall(t)
<1> USE DEF FullInv, Inv, TypeOK, StepReturn
<1>1. \A c : Alive(c)' = Alive(c)
  BY DEF Alive, Leading
<1>2. phaseBar[t] = "asking"
  BY DEF phaseBar
<1>3. /\ key[t] \in Keys
      /\ storedBar[key[t]] = cache[key[t]].exec
      /\ cache[key[t]].exec # 0
  BY DEF storedBar, Absent
<1>4. phaseBar' = [phaseBar EXCEPT ![t] = "out"]
  BY <1>1 DEF phaseBar
<1>5. answerBar' = [answerBar EXCEPT ![t] = storedBar[key[t]]]
  BY <1>3 DEF answerBar
<1>6. ticketBar' = ticketBar /\ storedBar' = storedBar
  BY DEF ticketBar, storedBar
<1> QED
  BY <1>2, <1>3, <1>4, <1>5, <1>6 DEF Flights!Recall

\* step() with a live sender in the map.
LEMMA StepAwaitFlights ==
    ASSUME FullInv, NEW t \in Tasks, StepAwait(t)
    PROVE  Flights!Join(t)
<1> USE DEF FullInv, Inv, TypeOK, StepAwait
<1>1. \A c : Alive(c)' = Alive(c)
  BY DEF Alive, Leading
<1>2. phaseBar[t] = "asking"
  BY DEF phaseBar
<1>3. Flights!InTheAir(key[t])
  BY InTheAirJoinable
<1>4. phaseBar' = [phaseBar EXCEPT ![t] = "joined"]
  BY <1>1 DEF phaseBar, Joinable
<1>5. answerBar' = answerBar
  BY DEF answerBar, ResultPending
<1>6. ticketBar' = ticketBar /\ storedBar' = storedBar
  BY DEF ticketBar, storedBar
<1> QED
  BY <1>2, <1>3, <1>4, <1>5, <1>6 DEF Flights!Join

\* step() without either.
LEMMA StepInitFlights ==
    ASSUME FullInv, NEW t \in Tasks, StepInit(t)
    PROVE  Flights!Launch(t)
<1> USE DEF FullInv, Inv, TypeOK, StepInit, NewChannel
<1>1. \A u \in Tasks : Alive(chan[u])' = Alive(chan[u]) \/ u = t
  BY DEF Alive, Leading, ChannelsKnown
<1>2. phaseBar[t] = "asking"
  BY DEF phaseBar
<1>3. ~Flights!InTheAir(key[t])
  BY InTheAirJoinable
<1>4. storedBar[key[t]] = 0
  BY DEF storedBar
<1>5. phaseBar' = [phaseBar EXCEPT ![t] = "flying"]
  BY <1>1 DEF phaseBar
<1>6. answerBar' = answerBar
  BY DEF answerBar
<1>7. ticketBar' = [ticketBar EXCEPT ![t] = execs']
  BY DEF ticketBar
<1>8. storedBar' = storedBar
  BY DEF storedBar, Pending
<1> QED
  BY <1>2, <1>3, <1>4, <1>5, <1>6, <1>7, <1>8 DEF Flights!Launch

\* rx.recv() with a value.
LEMMA RecvFlights ==
    ASSUME FullInv, NEW t \in Tasks, Recv(t)
    PROVE  Flights!Take(t)
<1> USE DEF FullInv, Inv, TypeOK, Recv
<1>1. \A c : Alive(c)' = Alive(c)
  BY DEF Alive, Leading
<1>2. phaseBar[t] = "landed"
  BY DEF phaseBar
<1>3. phaseBar' = [phaseBar EXCEPT ![t] = "out"]
  BY <1>1 DEF phaseBar
<1>4. answerBar' = answerBar
  BY DEF answerBar
<1>5. ticketBar' = ticketBar /\ storedBar' = storedBar
  BY DEF ticketBar, storedBar
<1> QED
  BY <1>2, <1>3, <1>4, <1>5 DEF Flights!Take

\* rx.recv() once the sender is gone: nothing SingleFlight does not know.
LEMMA RecvErrFlights ==
    ASSUME FullInv, NEW t \in Tasks, RecvErr(t)
    PROVE  UNCHANGED Flights!vars
<1> USE DEF FullInv, Inv, TypeOK, RecvErr
<1>1. \A c : Alive(c)' = Alive(c)
  BY DEF Alive, Leading
<1>2. phaseBar' = phaseBar
  BY <1>1 DEF phaseBar
<1>3. answerBar' = answerBar
  BY DEF answerBar, ResultPending
<1>4. ticketBar' = ticketBar /\ storedBar' = storedBar
  BY DEF ticketBar, storedBar
<1> QED
  BY <1>2, <1>3, <1>4 DEF Flights!vars

\* or_else() returns to the leader; nobody is told yet.
LEMMA ExecuteFlights ==
    ASSUME FullInv, NEW t \in Tasks, Execute(t)
    PROVE  UNCHANGED Flights!vars
<1> USE DEF FullInv, Inv, TypeOK, Execute
<1>1. \A c : Alive(c)' = Alive(c)
  BY DEF Alive, Leading
<1>2. phaseBar' = phaseBar
  BY <1>1 DEF phaseBar
<1>3. answerBar' = answerBar
  BY DEF answerBar
<1>4. ticketBar' = ticketBar /\ storedBar' = storedBar
  BY DEF ticketBar, storedBar
<1> QED
  BY <1>2, <1>3, <1>4 DEF Flights!vars

\* Aboard the flight of a leader are the receivers of its channel, none of
\* which has been sent anything.
LEMMA AboardReceivers ==
    ASSUME FullInv, NEW t \in Tasks, pc[t] \in {"exec", "publish"}
    PROVE  /\ Flights!Aboard(t) = {u \in Tasks : pc[u] = "await" /\ chan[u] = chan[t]}
           /\ \A u \in Flights!Aboard(t) : inbox[u] = 0
<1> USE DEF FullInv, Inv, TypeOK
<1>1. \A u \in Tasks : phaseBar[u] = "joined"
                       <=> pc[u] = "await" /\ inbox[u] = 0 /\ Alive(chan[u])
  BY DEF phaseBar
<1>2. ASSUME NEW u \in Tasks, pc[u] = "await", chan[u] = chan[t]
      PROVE  inbox[u] = 0 /\ Alive(chan[u]) /\ key[u] = key[t]
  BY <1>2 DEF ReceiverOfLeader, Alive, Leading
<1>3. ASSUME NEW u \in Tasks, pc[u] = "await", inbox[u] = 0, Alive(chan[u]),
             key[u] = key[t]
      PROVE  chan[u] = chan[t]
  <2>1. PICK w \in Tasks : pc[w] \in Leading /\ chan[w] = chan[u]
    BY <1>3 DEF Alive
  <2>2. key[w] = key[u] /\ pc[w] # "return"
    BY <1>3, <2>1 DEF ReceiverOfLeader
  <2>3. pc[w] \in {"exec", "publish"}
    BY <2>1, <2>2 DEF Leading
  <2>4. Pending(chan[w]) = Pending(chan[t])
    BY <1>3, <2>2, <2>3 DEF LeaderOwnsEntry
  <2> QED
    BY <2>1, <2>4, EntryInjective
<1>4. Flights!Aboard(t) = {u \in Tasks : phaseBar[u] = "joined" /\ key[u] = key[t]}
  BY DEF Flights!Aboard
<1> QED
  BY <1>1, <1>2, <1>3, <1>4

\* The leader's critical section lands the flight for all aboard.
LEMMA PublishFlights ==
    ASSUME FullInv, NEW t \in Tasks, Publish(t)
    PROVE  Flights!Land(t)
<1> USE DEF FullInv, Inv, TypeOK, Publish
<1> DEFINE party == Flights!Aboard(t) \cup {t}
<1>1. \A c : Alive(c)' = Alive(c)
  BY DEF Alive, Leading
<1>2. /\ Flights!Aboard(t) = {u \in Tasks : pc[u] = "await" /\ chan[u] = chan[t]}
      /\ chan[t] \in Nat \ {0}
  BY AboardReceivers DEF ChannelsKnown, Leading
<1>3. phaseBar[t] = "flying"
  BY DEF phaseBar
<1>4. ticketBar[t] = chan[t] /\ ticketBar' = [ticketBar EXCEPT ![t] = 0]
  BY DEF ticketBar
<1>5. phaseBar' = [u \in Tasks |-> IF u \in party THEN "landed" ELSE phaseBar[u]]
  BY <1>1, <1>2 DEF phaseBar
<1>6. answerBar' = [u \in Tasks |-> IF u \in party THEN chan[t] ELSE answerBar[u]]
  BY <1>2 DEF answerBar
<1>7. key[t] \in Keys /\ cache[key[t]] = Pending(chan[t])
  BY DEF LeaderOwnsEntry
<1>8. storedBar[key[t]] = 0
  BY <1>7 DEF storedBar, Pending
<1>9. storedBar' = [storedBar EXCEPT ![key[t]] = IF Persist THEN chan[t] ELSE @]
  <2>1. \A k \in Keys : cache'[k] = IF k = key[t] THEN Settled(t) ELSE cache[k]
    OBVIOUS
  <2>2. storedBar'[key[t]] = IF Persist THEN chan[t] ELSE 0
    BY <1>7, <2>1 DEF storedBar, Settled, Ready, Absent
  <2>3. \A k \in Keys \ {key[t]} : storedBar'[k] = storedBar[k]
    BY <2>1 DEF storedBar
  <2>4. /\ storedBar = [k \in Keys |-> storedBar[k]]
        /\ storedBar' = [k \in Keys |-> storedBar'[k]]
    BY DEF storedBar
  <2> QED
    BY ONLY <1>7, <1>8, <2>2, <2>3, <2>4
<1> QED
  BY <1>3, <1>4, <1>5, <1>6, <1>9 DEF Flights!Land

\* The leader drops its sender and returns.
LEMMA ReturnFlights ==
    ASSUME FullInv, NEW t \in Tasks, Return(t)
    PROVE  Flights!Take(t)
<1> USE DEF FullInv, Inv, TypeOK, Return
<1>1. ASSUME NEW u \in Tasks, pc[u] = "await", inbox[u] = 0
      PROVE  Alive(chan[u])' = Alive(chan[u])
  BY <1>1 DEF Alive, Leading, ReceiverOfLeader
<1>2. phaseBar[t] = "landed"
  BY DEF phaseBar
<1>3. phaseBar' = [phaseBar EXCEPT ![t] = "out"]
  BY <1>1 DEF phaseBar
<1>4. answerBar' = answerBar
  BY DEF answerBar
<1>5. ticketBar' = ticketBar /\ storedBar' = storedBar
  BY DEF ticketBar, storedBar
<1> QED
  BY <1>2, <1>3, <1>4, <1>5 DEF Flights!Take

\* The future is dropped: a leader's flight is given up, a receiver leaves.
LEMMA CancelFlights ==
    ASSUME FullInv, NEW t \in Tasks, Cancel(t)
    PROVE  Flights!GiveUp(t) \/ Flights!Leave(t)
<1> USE DEF FullInv, Inv, TypeOK, Cancel
<1>1. storedBar' = storedBar /\ ticketBar' = [ticketBar EXCEPT ![t] = 0]
  BY DEF ticketBar, storedBar
<1>2. CASE pc[t] = "exec"
  <2>1. Flights!Aboard(t) = {u \in Tasks : pc[u] = "await" /\ chan[u] = chan[t]}
    BY <1>2, AboardReceivers
  <2>2. \A u \in Flights!Aboard(t) : inbox[u] = 0
    BY <1>2, AboardReceivers
  <2>3. ASSUME NEW u \in Tasks, pc[u] = "await", chan[u] # chan[t]
        PROVE  Alive(chan[u])' = Alive(chan[u])
    BY <1>2, <2>3 DEF Alive, Leading
  <2>4. ASSUME NEW u \in Tasks, pc[u] = "await", chan[u] = chan[t]
        PROVE  ~Alive(chan[u])'
    BY <1>2, <2>4 DEF Alive, Leading, OneSender, ChannelsKnown
  <2>5. phaseBar[t] = "flying"
    BY <1>2 DEF phaseBar
  <2>6. phaseBar' = [u \in Tasks |-> IF u = t THEN "out"
                                     ELSE IF u \in Flights!Aboard(t) THEN "asking"
                                     ELSE phaseBar[u]]
    <3>1. phaseBar'[t] = "out"
      BY <1>2 DEF phaseBar
    <3>2. ASSUME NEW u \in Flights!Aboard(t) PROVE u # t /\ phaseBar'[u] = "asking"
      <4>1. /\ u \in Tasks /\ u # t
            /\ pc'[u] = "await" /\ inbox'[u] = 0 /\ ~Alive(chan[u])'
        BY <1>2, <2>1, <2>2, <2>4, <3>2
      <4> QED
        BY <4>1 DEF phaseBar
    <3>3. ASSUME NEW u \in Tasks, u # t, u \notin Flights!Aboard(t)
          PROVE  phaseBar'[u] = phaseBar[u]
      <4>1. /\ pc'[u] = pc[u] /\ inbox'[u] = inbox[u] /\ chan'[u] = chan[u]
            /\ pc[u] = "await" => Alive(chan[u])' = Alive(chan[u])
        BY <2>1, <2>3, <3>3
      <4> QED
        BY <4>1 DEF phaseBar
    <3>4. phaseBar' = [u \in Tasks |-> phaseBar'[u]]
      BY DEF phaseBar
    <3> QED
      BY <3>1, <3>2, <3>3, <3>4
  <2>7. answerBar' = answerBar
    BY <1>2 DEF answerBar
  <2> QED
    BY <1>1, <2>5, <2>6, <2>7 DEF Flights!GiveUp
<1>3. CASE pc[t] = "await"
  <2>1. \A c : Alive(c)' = Alive(c)
    BY <1>3 DEF Alive, Leading
  <2>2. phaseBar[t] \in {"asking", "joined", "landed"}
    BY <1>3 DEF phaseBar
  <2>3. phaseBar' = [phaseBar EXCEPT ![t] = "out"]
    BY <1>3, <2>1 DEF phaseBar
  <2>4. answerBar' = [answerBar EXCEPT ![t] = 0]
    BY <1>3 DEF answerBar, ResultPending
  <2>5. ticketBar' = ticketBar
    BY <1>3 DEF ticketBar
  <2> QED
    BY <1>1, <2>2, <2>3, <2>4, <2>5 DEF Flights!Leave
<1> QED
  BY <1>2, <1>3

\* Every step maps to a step or to none.
LEMMA NextFlights == FullInv /\ [Next]_vars => [Flights!Next]_(Flights!vars)
<1> SUFFICES ASSUME FullInv, [Next]_vars PROVE [Flights!Next]_(Flights!vars)
  OBVIOUS
<1>1. ASSUME NEW t \in Tasks, NEW k \in Keys, Call(t, k) PROVE Flights!Next
  BY <1>1, CallFlights DEF Flights!Next
<1>2. ASSUME NEW t \in Tasks, StepReturn(t) PROVE Flights!Next
  BY <1>2, StepReturnFlights DEF Flights!Next
<1>3. ASSUME NEW t \in Tasks, StepAwait(t) PROVE Flights!Next
  BY <1>3, StepAwaitFlights DEF Flights!Next
<1>4. ASSUME NEW t \in Tasks, StepInit(t) PROVE Flights!Next
  BY <1>4, StepInitFlights DEF Flights!Next
<1>5. ASSUME NEW t \in Tasks, Recv(t) \/ Return(t) PROVE Flights!Next
  BY <1>5, RecvFlights, ReturnFlights DEF Flights!Next
<1>6. ASSUME NEW t \in Tasks, RecvErr(t) \/ Execute(t) PROVE UNCHANGED Flights!vars
  BY <1>6, RecvErrFlights, ExecuteFlights
<1>7. ASSUME NEW t \in Tasks, Publish(t) PROVE Flights!Next
  BY <1>7, PublishFlights DEF Flights!Next
<1>8. ASSUME NEW t \in Tasks, Cancel(t) PROVE Flights!Next
  BY <1>8, CancelFlights DEF Flights!Next
<1>9. CASE UNCHANGED vars
  BY <1>9 DEF vars, Flights!vars, phaseBar, answerBar, ticketBar, storedBar, Alive
<1> QED
  BY <1>1, <1>2, <1>3, <1>4, <1>5, <1>6, <1>7, <1>8, <1>9 DEF Next, Progress

\* dedupe() and step(): with weak pointers, broadcast channels and futures that
\* are dropped at any await, callers see one shared flight per key.
THEOREM Refinement == Spec => ImplementsSingleFlight
<1> QED
  BY InitFlights, NextFlights, FullInvariance, PTL
  DEF Spec, ImplementsSingleFlight, Flights!Spec
=============================================================================
