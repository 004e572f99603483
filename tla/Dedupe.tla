------------------------------- MODULE Dedupe -------------------------------
(***************************************************************************)
(* Dedupe<Key, Value> (src/core/data_loader/dedupe.rs): callers that ask   *)
(* for the same key while somebody is already computing it share the one   *)
(* computation.  The map holds, per key, either the final value (Ready) or *)
(* a weak pointer to the broadcast sender of the caller that computes it   *)
(* (Pending).  The sender's only strong reference lives in that caller's   *)
(* future, so dropping the future (cancellation, a panic of or_else) kills *)
(* the channel and makes the weak pointer dangle.                          *)
(*                                                                         *)
(* A value is abstracted to the execution of or_else that produced it: the *)
(* executions are numbered from 1, and execution e owns channel e.         *)
(***************************************************************************)
EXTENDS Naturals, FiniteSets

CONSTANTS
    Tasks,      \* the concurrently running futures that call dedupe()
    Keys,       \* the keys they ask for
    Persist,    \* the persist flag of Dedupe::new
    MaxCalls    \* bound: how many calls of dedupe() a behaviour makes

ASSUME DedupeAssumption ==
    /\ Persist \in BOOLEAN
    /\ MaxCalls \in Nat

VARIABLES
    cache,   \* the mutex-protected map: key -> absent, ready or pending
    pc,      \* where each task stands in dedupe()
    key,     \* the key each task asked for last
    chan,    \* the channel a task holds: as sender (leader) or as receiver
    inbox,   \* what a receiver has buffered, 0 if nothing
    result,  \* the value dedupe() returned, 0 if it has not
    execs,   \* how many executions of or_else were started
    calls,   \* how many calls of dedupe() were made
    stale    \* history: the executions that were over when the call began

vars == <<cache, pc, key, chan, inbox, result, execs, calls, stale>>

Absent     == [state |-> "absent",  exec |-> 0]
Ready(e)   == [state |-> "ready",   exec |-> e]
Pending(e) == [state |-> "pending", exec |-> e]

\* Leaders own the strong reference to the sender of their channel.
Leading == {"exec", "publish", "return"}

\* Weak::upgrade succeeds, and the channel is open.
Alive(c) == \E t \in Tasks : pc[t] \in Leading /\ chan[t] = c

\* Execution e has been started and its result is not published yet.
InFlight(e) == \E t \in Tasks : pc[t] \in {"exec", "publish"} /\ chan[t] = e

Init ==
    /\ cache = [k \in Keys |-> Absent]
    /\ pc = [t \in Tasks |-> "idle"]
    /\ key \in [Tasks -> Keys]
    /\ chan = [t \in Tasks |-> 0]
    /\ inbox = [t \in Tasks |-> 0]
    /\ result = [t \in Tasks |-> 0]
    /\ execs = 0
    /\ calls = 0
    /\ stale = [t \in Tasks |-> {}]

(***************************************************************************)
(* A task calls dedupe(k, or_else) and enters its loop.                    *)
(***************************************************************************)
Call(t, k) ==
    /\ pc[t] \in {"idle", "done"}
    /\ calls < MaxCalls
    /\ calls' = calls + 1
    /\ pc' = [pc EXCEPT ![t] = "step"]
    /\ key' = [key EXCEPT ![t] = k]
    /\ result' = [result EXCEPT ![t] = 0]
    /\ stale' = [stale EXCEPT ![t] = {e \in 1..execs : ~InFlight(e)}]
    /\ UNCHANGED <<cache, chan, inbox, execs>>

(***************************************************************************)
(* step(), under the lock, has three outcomes.                             *)
(***************************************************************************)
StepReturn(t) ==
    /\ pc[t] = "step"
    /\ cache[key[t]].state = "ready"
    /\ pc' = [pc EXCEPT ![t] = "done"]
    /\ result' = [result EXCEPT ![t] = cache[key[t]].exec]
    /\ UNCHANGED <<cache, key, chan, inbox, execs, calls, stale>>

\* Mutated forms: the weak pointer is never, or always, taken for alive.
Joinable_Never(k) == FALSE
Joinable_Dangling(k) == cache[k].state = "pending"

\* The entry's sender is still there: tx.subscribe().
Joinable(k) == cache[k].state = "pending" /\ Alive(cache[k].exec)

StepAwait(t) ==
    /\ pc[t] = "step"
    /\ Joinable(key[t])
    /\ pc' = [pc EXCEPT ![t] = "await"]
    /\ chan' = [chan EXCEPT ![t] = cache[key[t]].exec]
    /\ inbox' = [inbox EXCEPT ![t] = 0]
    /\ UNCHANGED <<cache, key, result, execs, calls, stale>>

\* Mutated form: no channel is created, the previous one is used again.
NewChannel_Reused == execs

\* broadcast::channel(size)
NewChannel == execs + 1

\* No entry, or the entry of a caller that is gone: become the leader.
StepInit(t) ==
    /\ pc[t] = "step"
    /\ cache[key[t]].state # "ready"
    /\ ~Joinable(key[t])
    /\ execs' = NewChannel
    /\ cache' = [cache EXCEPT ![key[t]] = Pending(execs')]
    /\ chan' = [chan EXCEPT ![t] = execs']
    /\ pc' = [pc EXCEPT ![t] = "exec"]
    /\ UNCHANGED <<key, inbox, result, calls, stale>>

(***************************************************************************)
(* A follower's rx.recv().await: the value, or an error once the sender is *)
(* gone without having sent, in which case the loop starts over.           *)
(***************************************************************************)
Recv(t) ==
    /\ pc[t] = "await"
    /\ inbox[t] # 0
    /\ pc' = [pc EXCEPT ![t] = "done"]
    /\ result' = [result EXCEPT ![t] = inbox[t]]
    /\ inbox' = [inbox EXCEPT ![t] = 0]
    /\ chan' = [chan EXCEPT ![t] = 0]
    /\ UNCHANGED <<cache, key, execs, calls, stale>>

RecvErr(t) ==
    /\ pc[t] = "await"
    /\ inbox[t] = 0
    /\ ~Alive(chan[t])
    /\ pc' = [pc EXCEPT ![t] = "step"]
    /\ chan' = [chan EXCEPT ![t] = 0]
    /\ UNCHANGED <<cache, key, inbox, result, execs, calls, stale>>

(***************************************************************************)
(* The leader: or_else().await finishes; then, in one critical section,    *)
(* the map is updated and the value sent to every receiver; the sender is  *)
(* dropped only after the lock is released.                                *)
(***************************************************************************)
Execute(t) ==
    /\ pc[t] = "exec"
    /\ pc' = [pc EXCEPT ![t] = "publish"]
    /\ UNCHANGED <<cache, key, chan, inbox, result, execs, calls, stale>>

\* Mutated forms: the entry is left alone, always stored, never stored.
Settled_Left(t) == Pending(chan[t])
Settled_Stored(t) == Ready(chan[t])
Settled_Removed(t) == Absent

\* guard.insert(key, Ready(value)) or guard.remove(key)
Settled(t) == IF Persist THEN Ready(chan[t]) ELSE Absent

Publish(t) ==
    /\ pc[t] = "publish"
    /\ cache' = [cache EXCEPT ![key[t]] = Settled(t)]
    /\ inbox' = [u \in Tasks |-> IF pc[u] = "await" /\ chan[u] = chan[t]
                                 THEN chan[t] ELSE inbox[u]]
    /\ pc' = [pc EXCEPT ![t] = "return"]
    /\ UNCHANGED <<key, chan, result, execs, calls, stale>>

Return(t) ==
    /\ pc[t] = "return"
    /\ pc' = [pc EXCEPT ![t] = "done"]
    /\ result' = [result EXCEPT ![t] = chan[t]]
    /\ chan' = [chan EXCEPT ![t] = 0]
    /\ UNCHANGED <<cache, key, inbox, execs, calls, stale>>

(***************************************************************************)
(* The future is dropped (or or_else panics) at one of its two await       *)
(* points.  Nothing is cleaned up in the map.                              *)
(***************************************************************************)
Cancel(t) ==
    /\ pc[t] \in {"exec", "await"}
    /\ pc' = [pc EXCEPT ![t] = "idle"]
    /\ chan' = [chan EXCEPT ![t] = 0]
    /\ inbox' = [inbox EXCEPT ![t] = 0]
    /\ UNCHANGED <<cache, key, result, execs, calls, stale>>

-----------------------------------------------------------------------------
\* What the async runtime runs by itself once the task is scheduled.
Progress(t) ==
    \/ StepReturn(t)
    \/ StepAwait(t)
    \/ StepInit(t)
    \/ Recv(t)
    \/ RecvErr(t)
    \/ Execute(t)
    \/ Publish(t)
    \/ Return(t)

Next ==
    \E t \in Tasks :
        \/ \E k \in Keys : Call(t, k)
        \/ Progress(t)
        \/ Cancel(t)

Spec == Init /\ [][Next]_vars

\* The runtime polls every woken task, and or_else terminates.
FairSpec == Spec /\ \A t \in Tasks : WF_vars(Progress(t))

-----------------------------------------------------------------------------
\* The types of the variables; an entry that is not absent names an execution.
TypeOK ==
    /\ cache \in [Keys -> [state : {"absent", "ready", "pending"}, exec : Nat]]
    /\ \A k \in Keys : cache[k] = Absent \/ cache[k].exec # 0
    /\ pc \in [Tasks -> {"idle", "step", "await", "exec", "publish",
                         "return", "done"}]
    /\ key \in [Tasks -> Keys]
    /\ chan \in [Tasks -> Nat]
    /\ inbox \in [Tasks -> Nat]
    /\ result \in [Tasks -> Nat]
    /\ execs \in Nat
    /\ calls \in 0..MaxCalls
    /\ stale \in [Tasks -> SUBSET Nat]

\* dedupe(): two tasks never run or_else for the same key at the same time,
\* whichever leaders were dropped before.
SingleExecution ==
    \A t, u \in Tasks :
        /\ pc[t] \in {"exec", "publish"}
        /\ pc[u] \in {"exec", "publish"}
        /\ key[t] = key[u]
        => t = u

\* step(): a receiver whose channel is open and that has nothing buffered
\* waits for a leader of its own key that has not sent yet; nobody subscribes
\* after the send and then waits for a value that was already handed out.
NoLostWakeup ==
    \A t \in Tasks :
        pc[t] = "await" /\ inbox[t] = 0 /\ Alive(chan[t])
        => \E u \in Tasks : /\ pc[u] \in {"exec", "publish"}
                            /\ chan[u] = chan[t]
                            /\ key[u] = key[t]

\* Without persist, a call returns the value of an execution that was still
\* running when the call began, or began later: never a leftover.
FreshResult ==
    ~Persist => \A t \in Tasks : pc[t] = "done" => result[t] \notin stale[t]

\* With persist, every call for a key returns the one value stored for it.
OneResult ==
    Persist =>
        \A t \in Tasks : pc[t] = "done" => cache[key[t]] = Ready(result[t])

\* Every call comes back, with a value or because it was dropped.
EveryCallEnds ==
    \A t \in Tasks : pc[t] = "step" ~> pc[t] \in {"done", "idle"}
-----------------------------------------------------------------------------
(* The inductive invariant behind the properties above.                     *)

\* Channel numbers in use were handed out; holding one means a positive one.
ChannelsKnown ==
    /\ \A t \in Tasks : chan[t] <= execs
    /\ \A k \in Keys : cache[k].exec <= execs
    /\ \A t \in Tasks : pc[t] \in Leading \cup {"await"} => chan[t] # 0

\* "Only single strong reference to tx should exist."
OneSender ==
    \A t, u \in Tasks :
        pc[t] \in Leading /\ pc[u] \in Leading /\ chan[t] = chan[u] => t = u

\* The map's entry of a key changes hands only when the previous leader is
\* gone: a leader's final insert or remove never hits another leader's entry.
LeaderOwnsEntry ==
    \A t \in Tasks : pc[t] \in {"exec", "publish"}
        => cache[key[t]] = Pending(chan[t])

\* A live weak pointer is filed under its leader's key, and leads to a sender
\* that has not sent yet.
EntryOfLeader ==
    \A t \in Tasks, k \in Keys :
        pc[t] \in Leading /\ cache[k] = Pending(chan[t])
        => key[t] = k /\ pc[t] # "return"

\* A receiver of a live channel asked for its leader's key, and has the value
\* exactly if the leader has sent it.
ReceiverOfLeader ==
    \A t, u \in Tasks :
        pc[t] = "await" /\ pc[u] \in Leading /\ chan[u] = chan[t]
        => /\ key[u] = key[t]
           /\ inbox[t] # 0 <=> pc[u] = "return"

\* What is on its way to a caller is what the map keeps, if it keeps it.
AnswerStored ==
    Persist => \A t \in Tasks :
        /\ pc[t] = "await" /\ inbox[t] # 0 => cache[key[t]] = Ready(inbox[t])
        /\ pc[t] = "return" => cache[key[t]] = Ready(chan[t])

\* A call in progress has nothing to return yet, not even what it returned last.
ResultPending == \A t \in Tasks : pc[t] # "done" => result[t] = 0

\* What was handed out, or stored, is over: its execution is not in flight.
HandedOutIsOver ==
    /\ \A t \in Tasks :
        /\ pc[t] = "done" => result[t] \in 1..execs /\ ~InFlight(result[t])
        /\ pc[t] = "await" /\ inbox[t] # 0
              => inbox[t] \in 1..execs /\ ~InFlight(inbox[t])
    /\ \A k \in Keys : cache[k].state = "ready" => ~InFlight(cache[k].exec)

\* What was over stays over, and no call in progress hopes for it.
StaleStaysOver ==
    /\ \A t \in Tasks : \A e \in stale[t] : e <= execs /\ ~InFlight(e)
    /\ ~Persist =>
        /\ \A k \in Keys : cache[k].state # "ready"
        /\ \A t \in Tasks :
            /\ pc[t] \in Leading \cup {"await"} => chan[t] \notin stale[t]
            /\ pc[t] = "await" /\ inbox[t] # 0 => inbox[t] = chan[t]

\* step() and the leader's critical section keep the map, the channels and the
\* callers' positions consistent with each other.
Inv ==
    /\ TypeOK
    /\ ChannelsKnown
    /\ OneSender
    /\ LeaderOwnsEntry
    /\ EntryOfLeader
    /\ ReceiverOfLeader
    /\ AnswerStored
    /\ StaleStaysOver
    /\ FreshResult
    /\ OneResult

\* The same, and what the refinement and the modules above Dedupe need of it.
FullInv == Inv /\ ResultPending /\ HandedOutIsOver

-----------------------------------------------------------------------------
(* Dedupe implements SingleFlight: a leader between Init and the send is   *)
(* the task that flies, a receiver with an open and empty channel is       *)
(* aboard, and a receiver whose leader was dropped is asking again even    *)
(* before it is polled and finds out.                                      *)
phaseBar == [t \in Tasks |->
    CASE pc[t] \in {"idle", "done"} -> "out"
      [] pc[t] = "step" -> "asking"
      [] pc[t] \in {"exec", "publish"} -> "flying"
      [] pc[t] = "return" -> "landed"
      [] pc[t] = "await" -> IF inbox[t] # 0 THEN "landed"
                            ELSE IF Alive(chan[t]) THEN "joined"
                            ELSE "asking"]

answerBar == [t \in Tasks |-> IF pc[t] = "return" THEN chan[t]
                              ELSE IF pc[t] = "await" THEN inbox[t]
                              ELSE result[t]]

ticketBar == [t \in Tasks |-> IF pc[t] \in {"exec", "publish"}
                              THEN chan[t] ELSE 0]

storedBar == [k \in Keys |-> IF cache[k].state = "ready"
                             THEN cache[k].exec ELSE 0]

Flights == INSTANCE SingleFlight WITH
    phase <- phaseBar, goal <- key, ticket <- ticketBar,
    answer <- answerBar, stored <- storedBar, launched <- execs

\* dedupe() and step() implement SingleFlight: the weak pointers and broadcast
\* channels amount to one shared flight per key.
ImplementsSingleFlight == Flights!Spec
=============================================================================
