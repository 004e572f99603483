------------------------ MODULE RedisListenerProofs ------------------------
(***************************************************************************)
(* RedisListener for any subscribers, channels and bounds: the inductive   *)
(* invariant Inv, one lemma per action, and its consequences.  The step    *)
(* that needs thought is GuardDrop: a guard leaves an entry behind only if *)
(* the entry's sender has a receiver, and that receiver's own guard is for *)
(* the same channel because a sender never serves two channels.            *)
(***************************************************************************)
EXTENDS RedisListener, TLAPS

\* RedisListener::new() starts consistent.
LEMMA InitInv == Init => Inv
<1>1. Init => TypeOK
  <2> SUFFICES ASSUME Init PROVE TypeOK
    OBVIOUS
  <2>1. sink \in BOOLEAN /\ live \in BOOLEAN
    BY Zenon DEF Init
  <2>2. /\ senders \in [Channels -> 0..created]
        /\ tx \in [Subscribers -> 0..created]
        /\ unsubs \in [Channels -> Nat]
        /\ pc \in [Subscribers -> {"idle", "waiting", "ready"} \cup Guarding]
    BY DEF Init, Guarding
  <2> QED
    BY <2>1, <2>2, Zenon DEF Init, TypeOK
<1>2. Init => EntryHasGuard /\ DriverKnows /\ AcceptedIsKept
  BY DEF Init, EntryHasGuard, DriverKnows, AcceptedIsKept
<1>3. Init => ClonesExist /\ OneChannelPerSender
  BY DEF Init, ClonesExist, OneChannelPerSender, Guarding
<1> QED
  BY <1>1, <1>2, <1>3 DEF Inv

\* The invariant when the driver opens a connection.
LEMMA ConnectInv ==
    ASSUME Inv, Connect
    PROVE  Inv'
<1>1. TypeOK'
  BY DEF Inv, TypeOK, Connect, Guarding, driverVars, taskVars
<1>2. EntryHasGuard'
  BY DEF Inv, TypeOK, EntryHasGuard, Connect, Guarding, driverVars,
         taskVars
<1>3. DriverKnows'
  BY DEF Inv, TypeOK, DriverKnows, Connect, driverVars, taskVars
<1>4. AcceptedIsKept'
  BY DEF Inv, TypeOK, AcceptedIsKept, Connect, ClonesExist, DriverKnows,
         Guarding, driverVars, taskVars
<1>5. ClonesExist'
  BY DEF Inv, TypeOK, ClonesExist, Connect, Guarding, driverVars, taskVars
<1>6. OneChannelPerSender'
  BY DEF Inv, TypeOK, OneChannelPerSender, Connect, ClonesExist, Guarding,
         driverVars, taskVars
<1> QED
  BY <1>1, <1>2, <1>3, <1>4, <1>5, <1>6 DEF Inv

\* The invariant when the driver visits a channel of the backlog.
LEMMA ResubscribeInv ==
    ASSUME Inv, NEW c \in Channels, Resubscribe(c)
    PROVE  Inv'
<1>1. TypeOK'
  BY DEF Inv, TypeOK, Resubscribe, Resubscribed, Guarding, driverVars,
         taskVars
<1>2. EntryHasGuard'
  BY DEF Inv, TypeOK, EntryHasGuard, Resubscribe, Resubscribed, Guarding,
         driverVars, taskVars
<1>3. DriverKnows'
  BY DEF Inv, TypeOK, DriverKnows, Resubscribe, Resubscribed, driverVars,
         taskVars
<1>4. AcceptedIsKept'
  BY DEF Inv, TypeOK, AcceptedIsKept, Resubscribe, Resubscribed,
         ClonesExist, DriverKnows, Guarding, driverVars, taskVars
<1>5. ClonesExist'
  BY DEF Inv, TypeOK, ClonesExist, Resubscribe, Resubscribed, Guarding,
         driverVars, taskVars
<1>6. OneChannelPerSender'
  BY DEF Inv, TypeOK, OneChannelPerSender, Resubscribe, Resubscribed,
         ClonesExist, Guarding, driverVars, taskVars
<1> QED
  BY <1>1, <1>2, <1>3, <1>4, <1>5, <1>6 DEF Inv

\* The invariant when the driver hands out the sink.
LEMMA PublishSinkInv ==
    ASSUME Inv, PublishSink
    PROVE  Inv'
<1>1. TypeOK'
  BY DEF Inv, TypeOK, PublishSink, Guarding, driverVars, taskVars
<1>2. EntryHasGuard'
  BY DEF Inv, TypeOK, EntryHasGuard, PublishSink, Guarding, driverVars,
         taskVars
<1>3. DriverKnows'
  BY DEF Inv, TypeOK, DriverKnows, PublishSink, driverVars, taskVars
<1>4. AcceptedIsKept'
  BY DEF Inv, TypeOK, AcceptedIsKept, PublishSink, ClonesExist, DriverKnows,
         Guarding, driverVars, taskVars
<1>5. ClonesExist'
  BY DEF Inv, TypeOK, ClonesExist, PublishSink, Guarding, driverVars,
         taskVars
<1>6. OneChannelPerSender'
  BY DEF Inv, TypeOK, OneChannelPerSender, PublishSink, ClonesExist,
         Guarding, driverVars, taskVars
<1> QED
  BY <1>1, <1>2, <1>3, <1>4, <1>5, <1>6 DEF Inv

\* The invariant when the driver notices that the connection is gone.
LEMMA StreamClosedInv ==
    ASSUME Inv, StreamClosed
    PROVE  Inv'
<1>1. TypeOK'
  BY DEF Inv, TypeOK, StreamClosed, Guarding, driverVars, taskVars
<1>2. EntryHasGuard'
  BY DEF Inv, TypeOK, EntryHasGuard, StreamClosed, Guarding, driverVars,
         taskVars
<1>3. DriverKnows'
  BY DEF Inv, TypeOK, DriverKnows, StreamClosed, driverVars, taskVars
<1>4. AcceptedIsKept'
  BY DEF Inv, TypeOK, AcceptedIsKept, StreamClosed, ClonesExist,
         DriverKnows, Guarding, driverVars, taskVars
<1>5. ClonesExist'
  BY DEF Inv, TypeOK, ClonesExist, StreamClosed, Guarding, driverVars,
         taskVars
<1>6. OneChannelPerSender'
  BY DEF Inv, TypeOK, OneChannelPerSender, StreamClosed, ClonesExist,
         Guarding, driverVars, taskVars
<1> QED
  BY <1>1, <1>2, <1>3, <1>4, <1>5, <1>6 DEF Inv

\* The invariant when the driver takes the sink back.
LEMMA ClearSinkInv ==
    ASSUME Inv, ClearSink
    PROVE  Inv'
<1>1. TypeOK'
  BY DEF Inv, TypeOK, ClearSink, Guarding, driverVars, taskVars
<1>2. EntryHasGuard'
  BY DEF Inv, TypeOK, EntryHasGuard, ClearSink, Guarding, driverVars,
         taskVars
<1>3. DriverKnows'
  BY DEF Inv, TypeOK, DriverKnows, ClearSink, driverVars, taskVars
<1>4. AcceptedIsKept'
  BY DEF Inv, TypeOK, AcceptedIsKept, ClearSink, ClonesExist, DriverKnows,
         Guarding, driverVars, taskVars
<1>5. ClonesExist'
  BY DEF Inv, TypeOK, ClonesExist, ClearSink, Guarding, driverVars,
         taskVars
<1>6. OneChannelPerSender'
  BY DEF Inv, TypeOK, OneChannelPerSender, ClearSink, ClonesExist, Guarding,
         driverVars, taskVars
<1> QED
  BY <1>1, <1>2, <1>3, <1>4, <1>5, <1>6 DEF Inv

\* The invariant when the connection breaks.
LEMMA ConnectionLostInv ==
    ASSUME Inv, ConnectionLost
    PROVE  Inv'
<1>1. TypeOK'
  <2>1. live' \in BOOLEAN /\ sink' \in BOOLEAN
    BY Zenon DEF Inv, TypeOK, ConnectionLost
  <2>2. losses' \in Nat /\ served' \in SUBSET Channels
    BY DEF Inv, TypeOK, ConnectionLost
  <2> QED
    BY <2>1, <2>2, Zenon DEF Inv, TypeOK, ConnectionLost, driverVars, taskVars
<1>2. EntryHasGuard'
  BY DEF Inv, TypeOK, EntryHasGuard, ConnectionLost, Guarding, driverVars,
         taskVars
<1>3. DriverKnows'
  BY DEF Inv, TypeOK, DriverKnows, ConnectionLost, driverVars, taskVars
<1>4. AcceptedIsKept'
  BY DEF Inv, TypeOK, AcceptedIsKept, ConnectionLost, ClonesExist,
         DriverKnows, Guarding, driverVars, taskVars
<1>5. ClonesExist'
  BY DEF Inv, TypeOK, ClonesExist, ConnectionLost, Guarding, driverVars,
         taskVars
<1>6. OneChannelPerSender'
  BY DEF Inv, TypeOK, OneChannelPerSender, ConnectionLost, ClonesExist,
         Guarding, driverVars, taskVars
<1> QED
  BY <1>1, <1>2, <1>3, <1>4, <1>5, <1>6 DEF Inv

\* The invariant when a spawned UNSUBSCRIBE runs.
LEMMA UnsubscribeInv ==
    ASSUME Inv, NEW c \in Channels, Unsubscribe(c)
    PROVE  Inv'
<1>1. TypeOK'
  BY DEF Inv, TypeOK, Unsubscribe, Guarding, driverVars, taskVars
<1>2. EntryHasGuard'
  BY DEF Inv, TypeOK, EntryHasGuard, Unsubscribe, Guarding, driverVars,
         taskVars
<1>3. DriverKnows'
  BY DEF Inv, TypeOK, DriverKnows, Unsubscribe, driverVars, taskVars
<1>4. AcceptedIsKept'
  BY DEF Inv, TypeOK, AcceptedIsKept, Unsubscribe, ClonesExist, DriverKnows,
         Guarding, driverVars, taskVars
<1>5. ClonesExist'
  BY DEF Inv, TypeOK, ClonesExist, Unsubscribe, Guarding, driverVars,
         taskVars
<1>6. OneChannelPerSender'
  BY DEF Inv, TypeOK, OneChannelPerSender, Unsubscribe, ClonesExist,
         Guarding, driverVars, taskVars
<1> QED
  BY <1>1, <1>2, <1>3, <1>4, <1>5, <1>6 DEF Inv

\* The invariant when subscribe() is called.
LEMMA CallInv ==
    ASSUME Inv, NEW s \in Subscribers, NEW c \in Channels, Call(s, c)
    PROVE  Inv'
<1>1. TypeOK'
  BY DEF Inv, TypeOK, Call, Move, Guarding, driverVars, taskVars
<1>2. EntryHasGuard'
  BY DEF Inv, TypeOK, EntryHasGuard, Call, Move, Guarding, driverVars,
         taskVars
<1>3. DriverKnows'
  BY DEF Inv, TypeOK, DriverKnows, Call, Move, driverVars, taskVars
<1>4. AcceptedIsKept'
  BY DEF Inv, TypeOK, AcceptedIsKept, Call, Move, ClonesExist, DriverKnows,
         Guarding, driverVars, taskVars
<1>5. ClonesExist'
  BY DEF Inv, TypeOK, ClonesExist, Call, Move, Guarding, driverVars,
         taskVars
<1>6. OneChannelPerSender'
  BY DEF Inv, TypeOK, OneChannelPerSender, Call, Move, ClonesExist,
         Guarding, driverVars, taskVars
<1> QED
  BY <1>1, <1>2, <1>3, <1>4, <1>5, <1>6 DEF Inv

\* The invariant when wait_for_sink() succeeds.
LEMMA SinkSeenInv ==
    ASSUME Inv, NEW s \in Subscribers, SinkSeen(s)
    PROVE  Inv'
<1>1. TypeOK'
  BY DEF Inv, TypeOK, SinkSeen, Move, Guarding, driverVars, taskVars
<1>2. EntryHasGuard'
  BY DEF Inv, TypeOK, EntryHasGuard, SinkSeen, Move, Guarding, driverVars,
         taskVars
<1>3. DriverKnows'
  BY DEF Inv, TypeOK, DriverKnows, SinkSeen, Move, driverVars, taskVars
<1>4. AcceptedIsKept'
  BY DEF Inv, TypeOK, AcceptedIsKept, SinkSeen, Move, ClonesExist,
         DriverKnows, Guarding, driverVars, taskVars
<1>5. ClonesExist'
  BY DEF Inv, TypeOK, ClonesExist, SinkSeen, Move, Guarding, driverVars,
         taskVars
<1>6. OneChannelPerSender'
  BY DEF Inv, TypeOK, OneChannelPerSender, SinkSeen, Move, ClonesExist,
         Guarding, driverVars, taskVars
<1> QED
  BY <1>1, <1>2, <1>3, <1>4, <1>5, <1>6 DEF Inv

\* The invariant when wait_for_sink() gives up.
LEMMA SinkTimeoutInv ==
    ASSUME Inv, NEW s \in Subscribers, SinkTimeout(s)
    PROVE  Inv'
<1>1. TypeOK'
  BY DEF Inv, TypeOK, SinkTimeout, Move, Guarding, driverVars, taskVars
<1>2. EntryHasGuard'
  BY DEF Inv, TypeOK, EntryHasGuard, SinkTimeout, Move, Guarding,
         driverVars, taskVars
<1>3. DriverKnows'
  BY DEF Inv, TypeOK, DriverKnows, SinkTimeout, Move, driverVars, taskVars
<1>4. AcceptedIsKept'
  BY DEF Inv, TypeOK, AcceptedIsKept, SinkTimeout, Move, ClonesExist,
         DriverKnows, Guarding, driverVars, taskVars
<1>5. ClonesExist'
  BY DEF Inv, TypeOK, ClonesExist, SinkTimeout, Move, Guarding, driverVars,
         taskVars
<1>6. OneChannelPerSender'
  BY DEF Inv, TypeOK, OneChannelPerSender, SinkTimeout, Move, ClonesExist,
         Guarding, driverVars, taskVars
<1> QED
  BY <1>1, <1>2, <1>3, <1>4, <1>5, <1>6 DEF Inv

\* The invariant when register_subscriber() clones or creates a sender.
LEMMA RegisterInv ==
    ASSUME Inv, NEW s \in Subscribers, Register(s)
    PROVE  Inv'
<1>1. TypeOK'
  BY DEF Inv, TypeOK, Register, Move, Guarding, driverVars, taskVars
<1>2. EntryHasGuard'
  BY DEF Inv, TypeOK, EntryHasGuard, Register, Move, Guarding, driverVars,
         taskVars
<1>3. DriverKnows'
  BY DEF Inv, TypeOK, DriverKnows, Register, Move, driverVars, taskVars
<1>4. AcceptedIsKept'
  BY DEF Inv, TypeOK, AcceptedIsKept, Register, Move, ClonesExist,
         DriverKnows, Guarding, driverVars, taskVars
<1>5. ClonesExist'
  BY DEF Inv, TypeOK, ClonesExist, Register, Move, Guarding, driverVars,
         taskVars
<1>6. OneChannelPerSender'
  BY DEF Inv, TypeOK, OneChannelPerSender, Register, Move, ClonesExist,
         Guarding, driverVars, taskVars
<1> QED
  BY <1>1, <1>2, <1>3, <1>4, <1>5, <1>6 DEF Inv

\* The invariant when SUBSCRIBE succeeds.
LEMMA SubscribeCommandInv ==
    ASSUME Inv, NEW s \in Subscribers, SubscribeCommand(s)
    PROVE  Inv'
<1>1. TypeOK'
  BY DEF Inv, TypeOK, SubscribeCommand, Move, Guarding, driverVars,
         taskVars
<1>2. EntryHasGuard'
  BY DEF Inv, TypeOK, EntryHasGuard, SubscribeCommand, Move, Guarding,
         driverVars, taskVars
<1>3. DriverKnows'
  BY DEF Inv, TypeOK, DriverKnows, SubscribeCommand, Move, driverVars,
         taskVars
<1>4. AcceptedIsKept'
  BY DEF Inv, TypeOK, AcceptedIsKept, SubscribeCommand, Move, ClonesExist,
         DriverKnows, Guarding, driverVars, taskVars
<1>5. ClonesExist'
  BY DEF Inv, TypeOK, ClonesExist, SubscribeCommand, Move, Guarding,
         driverVars, taskVars
<1>6. OneChannelPerSender'
  BY DEF Inv, TypeOK, OneChannelPerSender, SubscribeCommand, Move,
         ClonesExist, Guarding, driverVars, taskVars
<1> QED
  BY <1>1, <1>2, <1>3, <1>4, <1>5, <1>6 DEF Inv

\* The invariant when SUBSCRIBE fails.
LEMMA SubscribeErrorInv ==
    ASSUME Inv, NEW s \in Subscribers, SubscribeError(s)
    PROVE  Inv'
<1>1. TypeOK'
  BY DEF Inv, TypeOK, SubscribeError, Move, Guarding, driverVars, taskVars
<1>2. EntryHasGuard'
  BY DEF Inv, TypeOK, EntryHasGuard, SubscribeError, Move, Guarding,
         driverVars, taskVars
<1>3. DriverKnows'
  BY DEF Inv, TypeOK, DriverKnows, SubscribeError, Move, driverVars,
         taskVars
<1>4. AcceptedIsKept'
  BY DEF Inv, TypeOK, AcceptedIsKept, SubscribeError, Move, ClonesExist,
         DriverKnows, Guarding, driverVars, taskVars
<1>5. ClonesExist'
  BY DEF Inv, TypeOK, ClonesExist, SubscribeError, Move, Guarding,
         driverVars, taskVars
<1>6. OneChannelPerSender'
  BY DEF Inv, TypeOK, OneChannelPerSender, SubscribeError, Move,
         ClonesExist, Guarding, driverVars, taskVars
<1> QED
  BY <1>1, <1>2, <1>3, <1>4, <1>5, <1>6 DEF Inv

\* The invariant when the caller is cancelled.
LEMMA SubscribeCancelledInv ==
    ASSUME Inv, NEW s \in Subscribers, SubscribeCancelled(s)
    PROVE  Inv'
<1>1. TypeOK'
  BY DEF Inv, TypeOK, SubscribeCancelled, Move, Guarding, driverVars,
         taskVars
<1>2. EntryHasGuard'
  BY DEF Inv, TypeOK, EntryHasGuard, SubscribeCancelled, Move, Guarding,
         driverVars, taskVars
<1>3. DriverKnows'
  BY DEF Inv, TypeOK, DriverKnows, SubscribeCancelled, Move, driverVars,
         taskVars
<1>4. AcceptedIsKept'
  BY DEF Inv, TypeOK, AcceptedIsKept, SubscribeCancelled, Move, ClonesExist,
         DriverKnows, Guarding, driverVars, taskVars
<1>5. ClonesExist'
  BY DEF Inv, TypeOK, ClonesExist, SubscribeCancelled, Move, Guarding,
         driverVars, taskVars
<1>6. OneChannelPerSender'
  BY DEF Inv, TypeOK, OneChannelPerSender, SubscribeCancelled, Move,
         ClonesExist, Guarding, driverVars, taskVars
<1> QED
  BY <1>1, <1>2, <1>3, <1>4, <1>5, <1>6 DEF Inv

\* The invariant when the receiver is created.
LEMMA AttachInv ==
    ASSUME Inv, NEW s \in Subscribers, Attach(s)
    PROVE  Inv'
<1>1. TypeOK'
  BY DEF Inv, TypeOK, Attach, Move, Guarding, driverVars, taskVars
<1>2. EntryHasGuard'
  BY DEF Inv, TypeOK, EntryHasGuard, Attach, Move, Guarding, driverVars,
         taskVars
<1>3. DriverKnows'
  BY DEF Inv, TypeOK, DriverKnows, Attach, Move, driverVars, taskVars
<1>4. AcceptedIsKept'
  BY DEF Inv, TypeOK, AcceptedIsKept, Attach, Move, ClonesExist,
         DriverKnows, Guarding, driverVars, taskVars
<1>5. ClonesExist'
  BY DEF Inv, TypeOK, ClonesExist, Attach, Move, Guarding, driverVars,
         taskVars
<1>6. OneChannelPerSender'
  BY DEF Inv, TypeOK, OneChannelPerSender, Attach, Move, ClonesExist,
         Guarding, driverVars, taskVars
<1> QED
  BY <1>1, <1>2, <1>3, <1>4, <1>5, <1>6 DEF Inv

\* The invariant when a stream ends.
LEMMA StreamEndsInv ==
    ASSUME Inv, NEW s \in Subscribers, StreamEnds(s)
    PROVE  Inv'
<1>1. TypeOK'
  BY DEF Inv, TypeOK, StreamEnds, Move, Guarding, driverVars, taskVars
<1>2. EntryHasGuard'
  BY DEF Inv, TypeOK, EntryHasGuard, StreamEnds, Move, Guarding, driverVars,
         taskVars
<1>3. DriverKnows'
  BY DEF Inv, TypeOK, DriverKnows, StreamEnds, Move, driverVars, taskVars
<1>4. AcceptedIsKept'
  BY DEF Inv, TypeOK, AcceptedIsKept, StreamEnds, Move, ClonesExist,
         DriverKnows, Guarding, driverVars, taskVars
<1>5. ClonesExist'
  BY DEF Inv, TypeOK, ClonesExist, StreamEnds, Move, Guarding, driverVars,
         taskVars
<1>6. OneChannelPerSender'
  BY DEF Inv, TypeOK, OneChannelPerSender, StreamEnds, Move, ClonesExist,
         Guarding, driverVars, taskVars
<1> QED
  BY <1>1, <1>2, <1>3, <1>4, <1>5, <1>6 DEF Inv

\* The invariant when a client goes away.
LEMMA ClientLeavesInv ==
    ASSUME Inv, NEW s \in Subscribers, ClientLeaves(s)
    PROVE  Inv'
<1>1. TypeOK'
  BY DEF Inv, TypeOK, ClientLeaves, Move, Guarding, driverVars, taskVars
<1>2. EntryHasGuard'
  BY DEF Inv, TypeOK, EntryHasGuard, ClientLeaves, Move, Guarding,
         driverVars, taskVars
<1>3. DriverKnows'
  BY DEF Inv, TypeOK, DriverKnows, ClientLeaves, Move, driverVars, taskVars
<1>4. AcceptedIsKept'
  BY DEF Inv, TypeOK, AcceptedIsKept, ClientLeaves, Move, ClonesExist,
         DriverKnows, Guarding, driverVars, taskVars
<1>5. ClonesExist'
  BY DEF Inv, TypeOK, ClonesExist, ClientLeaves, Move, Guarding, driverVars,
         taskVars
<1>6. OneChannelPerSender'
  BY DEF Inv, TypeOK, OneChannelPerSender, ClientLeaves, Move, ClonesExist,
         Guarding, driverVars, taskVars
<1> QED
  BY <1>1, <1>2, <1>3, <1>4, <1>5, <1>6 DEF Inv

\* The invariant when a guard is dropped.
LEMMA GuardDropInv ==
    ASSUME Inv, NEW s \in Subscribers, GuardDrop(s)
    PROVE  Inv'
<1>1. TypeOK'
  BY DEF Inv, TypeOK, GuardDrop, Abandoned, Receivers, Guarding, driverVars
<1>2. EntryHasGuard'
  <2> SUFFICES ASSUME NEW c \in Channels, senders'[c] # 0
               PROVE  \E u \in Subscribers : pc'[u] \in Guarding /\ channel'[u] = c
    BY DEF EntryHasGuard
  <2>1. senders[c] # 0 /\ channel' = channel
    BY DEF GuardDrop, Inv, TypeOK
  <2>2. CASE c = channel[s]
    <3>1. Receivers(senders[c]) # {}
      BY <2>1, <2>2 DEF GuardDrop, Abandoned, Inv, TypeOK
    <3>2. PICK u \in Subscribers : pc[u] = "attached" /\ tx[u] = senders[c]
      BY <3>1 DEF Receivers
    <3>3. channel[u] = c /\ u # s
      BY <3>2 DEF Inv, OneChannelPerSender, Guarding, GuardDrop
    <3> QED
      BY <2>1, <3>2, <3>3 DEF GuardDrop, Inv, TypeOK, Guarding
  <2>3. CASE c # channel[s]
    <3>1. PICK u \in Subscribers : pc[u] \in Guarding /\ channel[u] = c
      BY <2>1 DEF Inv, EntryHasGuard
    <3> QED
      BY <2>1, <2>3, <3>1 DEF GuardDrop, Inv, TypeOK, Guarding
  <2> QED
    BY <2>2, <2>3
<1>3. DriverKnows'
  BY DEF Inv, TypeOK, DriverKnows, GuardDrop, Abandoned, Receivers,
         driverVars
<1>4. AcceptedIsKept'
  BY DEF Inv, TypeOK, AcceptedIsKept, GuardDrop, Abandoned, Receivers,
         ClonesExist, DriverKnows, Guarding, driverVars
<1>5. ClonesExist'
  BY DEF Inv, TypeOK, ClonesExist, GuardDrop, Abandoned, Receivers,
         Guarding, driverVars
<1>6. OneChannelPerSender'
  BY DEF Inv, TypeOK, OneChannelPerSender, GuardDrop, Abandoned, Receivers,
         ClonesExist, Guarding, driverVars
<1> QED
  BY <1>1, <1>2, <1>3, <1>4, <1>5, <1>6 DEF Inv

\* Every step of the listener preserves the invariant.
LEMMA NextInv == Inv /\ [Next]_vars => Inv'
<1> SUFFICES ASSUME Inv, [Next]_vars PROVE Inv'
  OBVIOUS
<1>1. CASE UNCHANGED vars
  BY <1>1 DEF vars, Inv, TypeOK, EntryHasGuard, DriverKnows, AcceptedIsKept,
     ClonesExist, OneChannelPerSender
<1>2. CASE Connect \/ DriverStep
  BY <1>2, ConnectInv, ResubscribeInv, PublishSinkInv, StreamClosedInv,
     ClearSinkInv DEF DriverStep
<1>3. CASE ConnectionLost
  BY <1>3, ConnectionLostInv
<1>4. CASE \E c \in Channels : Unsubscribe(c)
  BY <1>4, UnsubscribeInv
<1>5. ASSUME NEW s \in Subscribers, NEW c \in Channels, Call(s, c) PROVE Inv'
  BY <1>5, CallInv
<1>6. ASSUME NEW s \in Subscribers, SubscribeStep(s) PROVE Inv'
  BY <1>6, SinkSeenInv, SinkTimeoutInv, RegisterInv, SubscribeCommandInv,
     SubscribeErrorInv, SubscribeCancelledInv, AttachInv DEF SubscribeStep
<1>7. ASSUME NEW s \in Subscribers, StreamStep(s) PROVE Inv'
  BY <1>7, StreamEndsInv, GuardDropInv DEF StreamStep
<1>8. ASSUME NEW s \in Subscribers, ClientLeaves(s) PROVE Inv'
  BY <1>8, ClientLeavesInv
<1> QED
  BY <1>1, <1>2, <1>3, <1>4, <1>5, <1>6, <1>7, <1>8 DEF Next

\* The listener's map, guards, driver and server table agree in every state.
THEOREM Invariance == Spec => []Inv
<1> QED
  BY InitInv, NextInv, PTL DEF Spec

\* SubscriptionGuard: no entry of the map is ever without a guard.
THEOREM NoLeakedEntry == Spec => []EntryHasGuard
<1>1. Inv => EntryHasGuard
  BY DEF Inv
<1> QED
  BY <1>1, Invariance, PTL

\* run_driver: reconnecting loses no accepted subscription that the map knows.
THEOREM SubscriptionsSurvive == Spec => []ReconnectKeepsSubscriptions
<1>1. Inv => ReconnectKeepsSubscriptions
  BY DEF Inv, AcceptedIsKept, ReconnectKeepsSubscriptions
<1> QED
  BY <1>1, Invariance, PTL

\* remove_if: entries with receivers stay, and no entry is swapped for another.
THEOREM EntriesStay == Spec => ReceiversKeepEntry
<1> DEFINE Kept == \A c \in Channels :
                     senders[c] # 0 /\ senders'[c] # senders[c]
                     => Receivers(senders[c]) = {} /\ senders'[c] = 0
<1>1. Inv /\ [Next]_vars => [Kept]_vars
  <2> SUFFICES ASSUME Inv, Next, NEW c \in Channels, senders[c] # 0,
                      senders'[c] # senders[c]
               PROVE  Receivers(senders[c]) = {} /\ senders'[c] = 0
    OBVIOUS
  <2>1. CASE \/ Connect \/ DriverStep \/ ConnectionLost
             \/ \E d \in Channels : Unsubscribe(d)
    BY <2>1 DEF DriverStep, Connect, Resubscribe, PublishSink, StreamClosed,
       ClearSink, ConnectionLost, Unsubscribe
  <2>2. ASSUME NEW s \in Subscribers,
               \/ \E d \in Channels : Call(s, d)
               \/ SubscribeStep(s)
               \/ StreamStep(s)
               \/ ClientLeaves(s)
        PROVE  Receivers(senders[c]) = {} /\ senders'[c] = 0
    <3>1. CASE Register(s)
      BY <3>1 DEF Register, Inv, TypeOK
    <3>2. CASE GuardDrop(s)
      BY <3>2 DEF GuardDrop, Abandoned, Inv, TypeOK
    <3>3. CASE ~Register(s) /\ ~GuardDrop(s)
      BY <2>2, <3>3 DEF Call, SubscribeStep, StreamStep, ClientLeaves, SinkSeen,
         SinkTimeout, SubscribeCommand, SubscribeError, SubscribeCancelled,
         Attach, StreamEnds
    <3> QED
      BY <3>1, <3>2, <3>3
  <2> QED
    BY <2>1, <2>2 DEF Next
<1> QED
  BY <1>1, Invariance, PTL DEF Spec, ReceiversKeepEntry
=============================================================================
