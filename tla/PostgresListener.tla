-------------------------- MODULE PostgresListener --------------------------
(***************************************************************************)
(* PostgresListener (src/cli/postgres/listener.rs): a driver task keeps a  *)
(* LISTEN connection; subscribe() files a broadcast sender under the       *)
(* channel, locks the client and awaits LISTEN.                            *)
(*                                                                         *)
(* The client only queues a request; it is sent, and answered, by whoever  *)
(* polls the connection.  That is the driver, and only inside its listen   *)
(* loop: it owns the connection before that, and drops it afterwards,      *)
(* which fails the requests still queued.  The client is never taken back, *)
(* so that a caller may find the client of a connection that is gone.      *)
(***************************************************************************)
EXTENDS Naturals, FiniteSets

CONSTANTS
    Subscribers,  \* the tasks that run subscribe() and poll its stream
    Channels,     \* the NOTIFY channels they ask for
    MaxCalls,     \* bound: how many calls of subscribe() are made
    MaxLosses     \* bound: how many times a connection is lost

CONSTANT Nobody   \* not a subscriber: the mutex is free

CONSTANT Driver   \* not a subscriber: the driver task

ASSUME PostgresListenerAssumption ==
    /\ MaxCalls \in Nat
    /\ MaxLosses \in Nat
    /\ Nobody \notin Subscribers
    /\ Driver \notin Subscribers
    /\ Driver # Nobody

VARIABLES
    senders,    \* the channels that have a broadcast sender; never removed
    lock,       \* who holds the client's mutex
    client,     \* the connection the stored client belongs to, 0 if None
    conn,       \* the connection the driver owns, 0 if none
    up,         \* that connection's socket is intact
    opened,     \* how many connections were opened
    driver,     \* where run_driver stands
    backlog,    \* the channels reissue_listen_all() has not visited
    listening,  \* what the connection LISTENs to on the server
    pc,         \* where each subscriber stands
    channel,    \* the channel it asked for
    calls,      \* how many calls of subscribe() were made
    losses      \* how many times a connection was lost

driverVars == <<client, conn, opened, driver, backlog>>
taskVars == <<pc, channel, calls>>
vars == <<senders, lock, client, conn, up, opened, driver, backlog, listening,
          pc, channel, calls, losses>>

Init ==
    /\ senders = {}
    /\ lock = Nobody
    /\ client = 0
    /\ conn = 0
    /\ up = FALSE
    /\ opened = 0
    /\ driver = "connect"
    /\ backlog = {}
    /\ listening = {}
    /\ pc = [s \in Subscribers |-> "idle"]
    /\ channel \in [Subscribers -> Channels]
    /\ calls = 0
    /\ losses = 0

\* Somebody polls the connection, so that requests travel and are answered.
Polled == driver = "listen"

\* A request of the stored client is answered, or fails.
Answers == client = conn /\ Polled /\ up
Fails == client # conn

-----------------------------------------------------------------------------
(* run_driver                                                               *)

\* tokio_postgres::connect() succeeds.  (A failed attempt is retried later.)
Connect ==
    /\ driver = "connect"
    /\ opened' = opened + 1
    /\ conn' = opened'
    /\ up' = TRUE
    /\ listening' = {}
    /\ driver' = "install"
    /\ UNCHANGED <<senders, lock, client, backlog, losses, taskVars>>

\* Mutated form: the client that is there is kept.
Installed_FirstKept == IF client = 0 THEN conn ELSE client

\* *client_guard = Some(new_client)
Installed == conn

\* Mutated form: the guard outlives its block.
InstallClient_KeepsLock ==
    /\ driver = "install"
    /\ lock = Nobody
    /\ lock' = Driver
    /\ client' = Installed
    /\ driver' = "reissue"
    /\ UNCHANGED <<senders, conn, up, opened, backlog, listening, losses,
                   taskVars>>

\* The new client replaces the old one under the lock, which is released.
InstallClient ==
    /\ driver = "install"
    /\ lock = Nobody
    /\ client' = Installed
    /\ driver' = "reissue"
    /\ UNCHANGED <<senders, lock, conn, up, opened, backlog, listening, losses,
                   taskVars>>

\* reissue_listen_all() takes the lock for its whole iteration.
ReissueBegin ==
    /\ driver = "reissue"
    /\ lock = Nobody
    /\ lock' = Driver
    /\ backlog' = Channels
    /\ driver' = "reissuing"
    /\ UNCHANGED <<senders, client, conn, up, opened, listening, losses,
                   taskVars>>

\* client.batch_execute(LISTEN c).await
Awaited(c) == c \in senders => Answers

ReissueVisit(c) ==
    /\ driver = "reissuing"
    /\ c \in backlog
    /\ Awaited(c)
    /\ backlog' = backlog \ {c}
    /\ listening' = listening \cup ({c} \cap senders)
    /\ UNCHANGED <<senders, lock, client, conn, up, opened, driver, losses,
                   taskVars>>

ReissueEnd ==
    /\ driver = "reissuing"
    /\ backlog = {}
    /\ lock' = Nobody
    /\ driver' = "listen"
    /\ UNCHANGED <<senders, client, conn, up, opened, backlog, listening,
                   losses, taskVars>>

\* poll_message() fails or ends: the connection is dropped, the client stays.
PollEnds ==
    /\ driver = "listen"
    /\ ~up
    /\ conn' = 0
    /\ driver' = "connect"
    /\ UNCHANGED <<senders, lock, client, up, opened, backlog, listening,
                   losses, taskVars>>

\* The network or the server closes the connection.
ConnectionLost ==
    /\ up
    /\ losses < MaxLosses
    /\ losses' = losses + 1
    /\ up' = FALSE
    /\ listening' = {}
    /\ UNCHANGED <<senders, lock, driverVars, taskVars>>

-----------------------------------------------------------------------------
(* subscribe()                                                              *)

Move(s, from, to) == pc[s] = from /\ pc' = [pc EXCEPT ![s] = to]

Call(s, c) ==
    /\ calls < MaxCalls
    /\ calls' = calls + 1
    /\ Move(s, "idle", "waiting")
    /\ channel' = [channel EXCEPT ![s] = c]
    /\ UNCHANGED <<senders, lock, up, listening, losses, driverVars>>

\* wait_for_client() looks under the lock; the deadline is checked after that.
ClientSeen(s) ==
    /\ lock = Nobody
    /\ client # 0
    /\ Move(s, "waiting", "ready")
    /\ UNCHANGED <<senders, lock, up, listening, channel, calls, losses,
                   driverVars>>

ClientTimeout(s) ==
    /\ lock = Nobody
    /\ client = 0
    /\ Move(s, "waiting", "idle")
    /\ UNCHANGED <<senders, lock, up, listening, channel, calls, losses,
                   driverVars>>

\* The sender is found or created in the map.
Register(s) ==
    /\ Move(s, "ready", "registered")
    /\ senders' = senders \cup {channel[s]}
    /\ UNCHANGED <<lock, up, listening, channel, calls, losses, driverVars>>

LockClient(s) ==
    /\ lock = Nobody
    /\ lock' = s
    /\ Move(s, "registered", "asking")
    /\ UNCHANGED <<senders, up, listening, channel, calls, losses, driverVars>>

\* Mutated form: whatever became of the request, the caller is told it is done.
ListenAnswered_Unsent(s) ==
    /\ Move(s, "asking", "attached")
    /\ lock' = Nobody
    /\ UNCHANGED <<senders, up, listening, channel, calls, losses, driverVars>>

\* LISTEN is answered: the lock is released, the receiver created.
ListenAnswered(s) ==
    /\ Answers
    /\ Move(s, "asking", "attached")
    /\ lock' = Nobody
    /\ listening' = listening \cup {channel[s]}
    /\ UNCHANGED <<senders, up, channel, calls, losses, driverVars>>

\* LISTEN fails: the client is of a connection that is gone.
ListenFails(s) ==
    /\ Fails
    /\ Move(s, "asking", "idle")
    /\ lock' = Nobody
    /\ UNCHANGED <<senders, up, listening, channel, calls, losses, driverVars>>

\* Mutated form: the mutex guard of a dropped caller is leaked.
Cancel_KeepsLock(s) ==
    /\ pc[s] \in {"waiting", "registered", "asking"}
    /\ pc' = [pc EXCEPT ![s] = "idle"]
    /\ UNCHANGED <<senders, lock, up, listening, channel, calls, losses,
                   driverVars>>

\* The caller is dropped while it waits for the client, its lock or LISTEN.
Cancel(s) ==
    /\ pc[s] \in {"waiting", "registered", "asking"}
    /\ pc' = [pc EXCEPT ![s] = "idle"]
    /\ lock' = IF lock = s THEN Nobody ELSE lock
    /\ UNCHANGED <<senders, up, listening, channel, calls, losses, driverVars>>

\* The stream is dropped; nobody takes the channel's sender out of the map.
Leave(s) ==
    /\ Move(s, "attached", "idle")
    /\ UNCHANGED <<senders, lock, up, listening, channel, calls, losses,
                   driverVars>>

-----------------------------------------------------------------------------
DriverStep ==
    \/ Connect
    \/ InstallClient
    \/ ReissueBegin
    \/ \E c \in Channels : ReissueVisit(c)
    \/ ReissueEnd
    \/ PollEnds

SubscribeStep(s) ==
    \/ ClientSeen(s)
    \/ ClientTimeout(s)
    \/ Register(s)
    \/ LockClient(s)
    \/ ListenAnswered(s)
    \/ ListenFails(s)

Next ==
    \/ DriverStep
    \/ ConnectionLost
    \/ \E s \in Subscribers :
        \/ \E c \in Channels : Call(s, c)
        \/ SubscribeStep(s)
        \/ Cancel(s)
        \/ Leave(s)

Spec == Init /\ [][Next]_vars

\* Tasks are polled when they are woken, the server accepts connections, and
\* the mutex is first come, first served.
FairSpec ==
    /\ Spec
    /\ SF_vars(DriverStep)
    /\ \A s \in Subscribers : SF_vars(SubscribeStep(s))

-----------------------------------------------------------------------------
\* The types of the listener's state.
TypeOK ==
    /\ senders \in SUBSET Channels
    /\ lock \in Subscribers \cup {Driver, Nobody}
    /\ client \in 0..opened
    /\ conn \in 0..opened
    /\ up \in BOOLEAN
    /\ opened \in Nat
    /\ driver \in {"connect", "install", "reissue", "reissuing", "listen"}
    /\ backlog \in SUBSET Channels
    /\ listening \in SUBSET Channels
    /\ pc \in [Subscribers -> {"idle", "waiting", "ready", "registered",
                               "asking", "attached"}]
    /\ channel \in [Subscribers -> Channels]
    /\ calls \in Nat
    /\ losses \in Nat

\* run_driver and subscribe(): when the driver is listening on an intact
\* connection, every attached subscriber's channel is LISTENed to on it.
AttachedIsListening ==
    driver = "listen" /\ up =>
        \A s \in Subscribers : pc[s] = "attached" => channel[s] \in listening

\* Whoever was attached when the iteration began is still to be visited.
AttachedIsVisited ==
    driver = "reissuing" =>
        \A s \in Subscribers : pc[s] = "attached" => channel[s] \in backlog

\* A registered or attached subscriber's channel has its sender in the map.
SenderKept ==
    \A s \in Subscribers :
        pc[s] \in {"registered", "asking", "attached"} => channel[s] \in senders

\* The driver has a connection, and the client of that one, when it listens.
DriverOwnsConn ==
    /\ driver # "connect" => conn # 0
    /\ driver \in {"reissue", "reissuing", "listen"} => client = conn
    /\ driver = "connect" => conn = 0 /\ ~up

\* One task at a time has the client's mutex, and only while it awaits a LISTEN.
LockHeld ==
    /\ lock = Driver <=> driver = "reissuing"
    /\ \A s \in Subscribers : pc[s] = "asking" <=> lock = s

\* The mutex, the connection, the map and the subscribers fit together.
Inv ==
    /\ TypeOK
    /\ LockHeld
    /\ DriverOwnsConn
    /\ SenderKept
    /\ AttachedIsVisited
    /\ AttachedIsListening

\* LISTEN fails for a caller only because its connection was dropped, and then
\* the driver is on its way to another one.
FailureMeansReconnecting ==
    \A s \in Subscribers :
        pc[s] = "asking" /\ Fails => driver \in {"connect", "install"}

\* The mutex is held across a LISTEN that only the driver can send, which is in
\* reissue_listen_all() with a channel to LISTEN to, or waits for the mutex.
WaitsForItself ==
    \/ driver = "reissuing" /\ backlog \cap senders # {}
    \/ driver = "reissue" /\ lock \in Subscribers

\* The driver reaches its listen loop after every connect unless it waits for
\* itself; and unless it does, every call of subscribe() ends, with a stream or
\* an error: the deadline of wait_for_client(), which is looked at only after
\* the mutex was got, is met by whoever waits for a client.
ComesBackOrStuck ==
    /\ driver = "connect" ~> driver = "listen" \/ WaitsForItself
    /\ \A s \in Subscribers :
          pc[s] = "waiting" ~> pc[s] \in {"idle", "attached"} \/ WaitsForItself

\* listener.rs:92 "PostgreSQL connection lost, will reconnect" and the LISTENs
\* re-issued at 66: from a lost connection the driver gets back to listening.
ListenerComesBack == driver = "connect" /\ losses > 0 ~> driver = "listen"
=============================================================================
