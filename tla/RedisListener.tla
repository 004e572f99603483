---------------------------- MODULE RedisListener ----------------------------
(***************************************************************************)
(* RedisListener's Pub/Sub half (src/cli/redis/listener.rs): one driver    *)
(* task keeps a Pub/Sub connection to Redis and hands its write half, the  *)
(* sink, to the subscribe() calls; a map takes each channel name to the    *)
(* broadcast sender its subscribers' receivers hang on.  Dropping a        *)
(* subscription's guard removes the channel's sender when no receiver is   *)
(* left and spawns a task that issues UNSUBSCRIBE.                         *)
(*                                                                         *)
(* There is at most one connection at a time, so the sink is modelled by   *)
(* whether it is Some.  Issuing a command to Redis and awaiting the answer *)
(* happens under the sink's mutex and is one action.  Broadcast senders    *)
(* are numbered from 1 as they are created; a sender's receivers are the   *)
(* attached subscribers that hold its number.                              *)
(***************************************************************************)
EXTENDS Naturals, FiniteSets

CONSTANTS
    Subscribers,  \* the tasks that run subscribe() and poll its stream
    Channels,     \* the Redis channels they ask for
    MaxCalls,     \* bound: how many calls of subscribe() are made
    MaxLosses     \* bound: how many times the connection is lost

ASSUME RedisListenerAssumption == MaxCalls \in Nat /\ MaxLosses \in Nat

VARIABLES
    senders,   \* DashMap channel -> broadcast sender, 0 if there is no entry
    sink,      \* the sink is Some(_)
    live,      \* the connection the driver opened last is still up
    driver,    \* where run_driver stands
    backlog,   \* the channels its iteration over senders has not visited
    served,    \* what this connection is subscribed to on the Redis server
    cut,       \* history: channels UNSUBSCRIBEd since their last SUBSCRIBE
    pc,        \* where each subscriber stands
    channel,   \* the channel it asked for
    tx,        \* the broadcast sender it cloned, or whose receiver it holds
    unsubs,    \* how many spawned UNSUBSCRIBE tasks of a channel are pending
    created,   \* how many broadcast senders were created
    calls,     \* how many calls of subscribe() were made
    losses     \* how many times the connection was lost

driverVars == <<driver, backlog>>
taskVars == <<pc, channel, tx, calls>>
vars == <<senders, sink, live, driver, backlog, served, cut, pc, channel, tx,
          unsubs, created, calls, losses>>

\* A guard exists from register_subscriber() to the end of its Drop.
Guarding == {"registered", "subscribed", "attached", "dropping", "leaving"}

Receivers(id) == {s \in Subscribers : pc[s] = "attached" /\ tx[s] = id}

\* Clones of a sender outside the map: subscribe() calls that will use them.
Holders(id) == {s \in Subscribers : pc[s] \in {"registered", "subscribed"}
                                    /\ tx[s] = id}

Init ==
    /\ senders = [c \in Channels |-> 0]
    /\ sink = FALSE
    /\ live = FALSE
    /\ driver = "connect"
    /\ backlog = {}
    /\ served = {}
    /\ cut = {}
    /\ pc = [s \in Subscribers |-> "idle"]
    /\ channel \in [Subscribers -> Channels]
    /\ tx = [s \in Subscribers |-> 0]
    /\ unsubs = [c \in Channels |-> 0]
    /\ created = 0
    /\ calls = 0
    /\ losses = 0

-----------------------------------------------------------------------------
(* run_driver                                                               *)

\* get_async_pubsub() succeeds.  (A failed attempt only grows the backoff.)
Connect ==
    /\ driver = "connect"
    /\ live' = TRUE
    /\ served' = {}
    /\ cut' = {}
    /\ backlog' = Channels
    /\ driver' = "resubscribe"
    /\ UNCHANGED <<senders, sink, unsubs, created, losses, taskVars>>

\* Mutated form: a new connection starts without the old subscriptions.
Resubscribed_Forgotten(c) == served

\* The entry's channel is subscribed; over a dead connection that only logs.
Resubscribed(c) == IF senders[c] # 0 /\ live THEN served \cup {c} ELSE served

\* The iteration visits the map's entries in no particular order, and sees or
\* misses what is inserted while it runs.
Resubscribe(c) ==
    /\ driver = "resubscribe"
    /\ c \in backlog
    /\ backlog' = backlog \ {c}
    /\ served' = Resubscribed(c)
    /\ cut' = IF senders[c] # 0 THEN cut \ {c} ELSE cut
    /\ UNCHANGED <<senders, sink, live, driver, unsubs, created, losses, taskVars>>

PublishSink ==
    /\ driver = "resubscribe"
    /\ backlog = {}
    /\ sink' = TRUE
    /\ driver' = "listen"
    /\ UNCHANGED <<senders, live, backlog, served, cut, unsubs, created, losses,
                   taskVars>>

\* new_stream.next() returns None; the sink goes, and the loop starts over.
\* Mutated form: the task ends instead of reconnecting.
StreamClosed_Return ==
    /\ driver = "listen"
    /\ ~live
    /\ driver' = "stopped"
    /\ UNCHANGED <<senders, sink, live, backlog, served, cut, unsubs, created,
                   losses, taskVars>>

StreamClosed ==
    /\ driver = "listen"
    /\ ~live
    /\ driver' = "clear"
    /\ UNCHANGED <<senders, sink, live, backlog, served, cut, unsubs, created,
                   losses, taskVars>>

ClearSink ==
    /\ driver = "clear"
    /\ sink' = FALSE
    /\ driver' = "connect"
    /\ UNCHANGED <<senders, live, backlog, served, cut, unsubs, created, losses,
                   taskVars>>

\* The network or the server closes the connection.
ConnectionLost ==
    /\ live
    /\ losses < MaxLosses
    /\ losses' = losses + 1
    /\ live' = FALSE
    /\ served' = {}
    /\ UNCHANGED <<senders, sink, cut, unsubs, created, driverVars, taskVars>>

-----------------------------------------------------------------------------
(* subscribe()                                                              *)

Move(s, from, to) == pc[s] = from /\ pc' = [pc EXCEPT ![s] = to]

Call(s, c) ==
    /\ calls < MaxCalls
    /\ calls' = calls + 1
    /\ Move(s, "idle", "waiting")
    /\ channel' = [channel EXCEPT ![s] = c]
    /\ UNCHANGED <<senders, sink, live, served, cut, tx, unsubs, created,
                   losses, driverVars>>

\* wait_for_sink() sees a sink, or gives up after its 30 seconds.
SinkSeen(s) ==
    /\ sink
    /\ Move(s, "waiting", "ready")
    /\ UNCHANGED <<senders, sink, live, served, cut, channel, tx, unsubs,
                   created, calls, losses,
                   driverVars>>

\* Mutated form: there is no deadline.
SinkTimeout_Never(s) == FALSE /\ UNCHANGED vars

SinkTimeout(s) ==
    /\ Move(s, "waiting", "idle")
    /\ UNCHANGED <<senders, sink, live, served, cut, channel, tx, unsubs,
                   created, calls, losses,
                   driverVars>>

\* register_subscriber(): the sender is cloned or created under the entry's
\* lock; its receiver is created only in Attach.
Register(s) ==
    /\ Move(s, "ready", "registered")
    /\ LET c == channel[s] IN
        /\ created' = IF senders[c] = 0 THEN created + 1 ELSE created
        /\ senders' = IF senders[c] = 0 THEN [senders EXCEPT ![c] = created']
                      ELSE senders
        /\ tx' = [tx EXCEPT ![s] = senders'[c]]
    /\ UNCHANGED <<sink, live, served, cut, channel, unsubs, calls, losses,
                   driverVars>>

SubscribeCommand(s) ==
    /\ sink
    /\ live
    /\ Move(s, "registered", "subscribed")
    /\ served' = served \cup {channel[s]}
    /\ cut' = cut \ {channel[s]}
    /\ UNCHANGED <<senders, sink, live, channel, tx, unsubs, created, calls,
                   losses, driverVars>>

\* "not connected", "Failed to SUBSCRIBE", or the caller is cancelled at the
\* lock: the clone of the sender is dropped, the guard's Drop comes next.
SubscribeError(s) ==
    /\ Move(s, "registered", "leaving")
    /\ UNCHANGED <<senders, sink, live, served, cut, channel, tx, unsubs,
                   created, calls, losses,
                   driverVars>>

\* The caller is cancelled after Redis accepted the command.
SubscribeCancelled(s) ==
    /\ Move(s, "subscribed", "leaving")
    /\ UNCHANGED <<senders, sink, live, served, cut, channel, tx, unsubs,
                   created, calls, losses,
                   driverVars>>

\* tx.subscribe(), and the stream is returned.
Attach(s) ==
    /\ Move(s, "subscribed", "attached")
    /\ UNCHANGED <<senders, sink, live, served, cut, channel, tx, unsubs,
                   created, calls, losses,
                   driverVars>>

-----------------------------------------------------------------------------
(* The stream and its SubscriptionGuard                                     *)

\* Mutated form: every subscription keeps a clone of its sender.
Closed_ClonesKept(id) ==
    /\ \A s \in Subscribers : pc[s] \in Guarding => tx[s] # id
    /\ \A c \in Channels : senders[c] # id

\* Every clone of the sender is gone.
Closed(id) == Holders(id) = {} /\ \A c \in Channels : senders[c] # id

\* recv() finds the channel closed: the stream ends and drops its receiver.
StreamEnds(s) ==
    /\ Closed(tx[s])
    /\ Move(s, "attached", "dropping")
    /\ UNCHANGED <<senders, sink, live, served, cut, channel, tx, unsubs,
                   created, calls, losses,
                   driverVars>>

\* The client goes away: the receiver is dropped before the guard.
ClientLeaves(s) ==
    /\ Move(s, "attached", "dropping")
    /\ UNCHANGED <<senders, sink, live, served, cut, channel, tx, unsubs,
                   created, calls, losses,
                   driverVars>>

\* Mutated forms: the guard cleans up only what has receivers, or whatever it
\* finds.
Abandoned_Inverted(c) == senders[c] # 0 /\ Receivers(senders[c]) # {}
Abandoned_Any(c) == senders[c] # 0

\* remove_if's predicate, evaluated under the shard's lock.
Abandoned(c) == senders[c] # 0 /\ Receivers(senders[c]) = {}

GuardDrop(s) ==
    /\ pc[s] \in {"dropping", "leaving"}
    /\ pc' = [pc EXCEPT ![s] = "idle"]
    /\ tx' = [tx EXCEPT ![s] = 0]
    /\ LET c == channel[s] IN
        IF Abandoned(c)
        THEN /\ senders' = [senders EXCEPT ![c] = 0]
             /\ unsubs' = [unsubs EXCEPT ![c] = @ + 1]
        ELSE UNCHANGED <<senders, unsubs>>
    /\ UNCHANGED <<sink, live, served, cut, channel, created, calls, losses,
                   driverVars>>

\* A spawned task takes the sink's lock; without a sink, or over a dead
\* connection, it does nothing.
Unsubscribe(c) ==
    /\ unsubs[c] > 0
    /\ unsubs' = [unsubs EXCEPT ![c] = @ - 1]
    /\ served' = IF sink THEN served \ {c} ELSE served
    /\ cut' = IF sink /\ live THEN cut \cup {c} ELSE cut
    /\ UNCHANGED <<senders, sink, live, created, losses, driverVars, taskVars>>

-----------------------------------------------------------------------------
DriverStep ==
    \/ \E c \in Channels : Resubscribe(c)
    \/ PublishSink
    \/ StreamClosed
    \/ ClearSink

\* What subscribe() does by itself once it runs.
SubscribeStep(s) ==
    \/ SinkSeen(s)
    \/ SinkTimeout(s)
    \/ Register(s)
    \/ SubscribeCommand(s)
    \/ SubscribeError(s)
    \/ SubscribeCancelled(s)
    \/ Attach(s)

StreamStep(s) == StreamEnds(s) \/ GuardDrop(s)

Next ==
    \/ Connect
    \/ DriverStep
    \/ ConnectionLost
    \/ \E c \in Channels : Unsubscribe(c)
    \/ \E s \in Subscribers :
        \/ \E c \in Channels : Call(s, c)
        \/ SubscribeStep(s)
        \/ StreamStep(s)
        \/ ClientLeaves(s)

Spec == Init /\ [][Next]_vars

\* Tasks are polled when they are woken, wait_for_sink is bounded by a
\* deadline, and Redis answers a command or the connection breaks.
FairSpec ==
    /\ Spec
    /\ WF_vars(DriverStep)
    /\ \A s \in Subscribers : WF_vars(SubscribeStep(s)) /\ WF_vars(StreamStep(s))
    /\ \A c \in Channels : WF_vars(Unsubscribe(c))

\* Redis accepts a connection sooner or later.
Reachable == WF_vars(Connect)

-----------------------------------------------------------------------------
(* What the Pub/Sub half guarantees, and what its documentation says of it. *)

\* The types of the listener's state.
TypeOK ==
    /\ senders \in [Channels -> 0..created]
    /\ sink \in BOOLEAN
    /\ live \in BOOLEAN
    /\ driver \in {"connect", "resubscribe", "listen", "clear"}
    /\ backlog \in SUBSET Channels
    /\ served \in SUBSET Channels
    /\ cut \in SUBSET Channels
    /\ pc \in [Subscribers -> {"idle", "waiting", "ready"} \cup Guarding]
    /\ channel \in [Subscribers -> Channels]
    /\ tx \in [Subscribers -> 0..created]
    /\ unsubs \in [Channels -> Nat]
    /\ created \in Nat
    /\ calls \in Nat
    /\ losses \in Nat

\* SubscriptionGuard: an entry of the map always has a guard that will look at
\* it when it is dropped, so disposable channel names do not pile up.
EntryHasGuard ==
    \A c \in Channels : senders[c] # 0 =>
        \E s \in Subscribers : pc[s] \in Guarding /\ channel[s] = c

\* remove_if: an entry with a receiver is never removed, and no entry is
\* replaced by another in one step.
ReceiversKeepEntry ==
    [][\A c \in Channels :
        senders[c] # 0 /\ senders'[c] # senders[c]
        => Receivers(senders[c]) = {} /\ senders'[c] = 0]_vars

\* run_driver: while the listener is connected, an attached subscriber whose
\* sender the map still has is subscribed on the server, however subscriptions
\* and reconnections interleave; only a spawned UNSUBSCRIBE can undo it.
ReconnectKeepsSubscriptions ==
    driver = "listen" /\ live =>
        \A s \in Subscribers :
            pc[s] = "attached" /\ senders[channel[s]] = tx[s]
            => channel[s] \in served \cup cut

\* subscribe() always returns, whatever happens to the connection.
SubscribeReturns ==
    \A s \in Subscribers :
        pc[s] = "waiting" ~> pc[s] \in {"attached", "idle"}

\* redis.md:134, "GQLForge automatically reconnects": after the connection was
\* lost the listener gets a new one and hands out its sink, provided that Redis
\* can be reached and losses come to an end.
ListenerComesBack == Reachable => (~live ~> live /\ sink)

\* A receiver left on a sender the map has dropped does not hang: its stream
\* ends as soon as the last subscribe() call that cloned the sender is over.
StaleStreamEnds ==
    \A s \in Subscribers :
        pc[s] = "attached" /\ senders[channel[s]] # tx[s] ~> pc[s] # "attached"

-----------------------------------------------------------------------------
(* The inductive invariant behind EntryHasGuard and ReconnectKeeps-          *)
(* Subscriptions.                                                            *)

\* The driver only waits or tidies up when the connection is gone.
DriverKnows == driver \in {"connect", "clear"} => ~live

\* What a subscriber saw Redis accept is still subscribed, or its UNSUBSCRIBE
\* came later, or the driver has yet to visit it on the new connection.
AcceptedIsKept ==
    live => \A s \in Subscribers :
        /\ pc[s] \in {"subscribed", "attached"}
        /\ senders[channel[s]] = tx[s]
        => \/ channel[s] \in served \cup cut
           \/ driver = "resubscribe" /\ channel[s] \in backlog

\* A clone of a sender is a clone of one that was created.
ClonesExist == \A s \in Subscribers : pc[s] \in Guarding => tx[s] # 0

\* A sender serves the one channel it was created for.
OneChannelPerSender ==
    /\ \A c, d \in Channels : senders[c] # 0 /\ senders[c] = senders[d] => c = d
    /\ \A s \in Subscribers, c \in Channels :
        pc[s] \in Guarding /\ senders[c] = tx[s] => channel[s] = c

\* The map, the guards, the driver and the server's table fit together.
Inv ==
    /\ TypeOK
    /\ EntryHasGuard
    /\ DriverKnows
    /\ AcceptedIsKept
    /\ ClonesExist
    /\ OneChannelPerSender

-----------------------------------------------------------------------------
(* Statements of the code's comments and of its documentation.              *)

\* listener.rs:302-304: "A stale `Sender` from that brief handover window has
\* no receivers and is never looked up again once replaced, so it's harmless."
StaleSenderHasNoReceivers ==
    \A s \in Subscribers :
        pc[s] = "attached" => senders[channel[s]] = tx[s]

\* redis.md:183: "each Redis message/entry is delivered as one SSE event":
\* with the connection up and its sender in the map, an attached subscriber's
\* channel is subscribed on the server.
AttachedIsServed ==
    driver = "listen" /\ live =>
        \A s \in Subscribers :
            pc[s] = "attached" /\ senders[channel[s]] = tx[s]
            => channel[s] \in served
=============================================================================
