----------------------- MODULE PostgresListenerProofs -----------------------
(***************************************************************************)
(* PostgresListener for any subscribers, channels and bounds: who holds    *)
(* the client's mutex, which connection the client belongs to, and that    *)
(* attached subscribers are LISTENed for whenever the driver listens.      *)
(***************************************************************************)
EXTENDS PostgresListener, TLAPS

\* PostgresListener::new() starts consistent.
LEMMA InitInv == Init => Inv
<1> SUFFICES ASSUME Init PROVE Inv
  OBVIOUS
<1>1. TypeOK
  <2>1. up \in BOOLEAN
    BY Zenon DEF Init
  <2>2. /\ client \in 0..opened
        /\ conn \in 0..opened
        /\ calls \in Nat /\ losses \in Nat /\ opened \in Nat
    BY DEF Init
  <2>3. pc \in [Subscribers -> {"idle", "waiting", "ready", "registered",
                               "asking", "attached"}]
    BY DEF Init
  <2> QED
    BY <2>1, <2>2, <2>3, Zenon DEF Init, TypeOK
<1>2. LockHeld
  BY PostgresListenerAssumption DEF Init, LockHeld
<1>3. DriverOwnsConn /\ SenderKept /\ AttachedIsVisited /\ AttachedIsListening
  BY DEF Init, DriverOwnsConn, SenderKept, AttachedIsVisited,
         AttachedIsListening
<1> QED
  BY <1>1, <1>2, <1>3 DEF Inv

\* The invariant when the driver opens a connection.
LEMMA ConnectInv ==
    ASSUME Inv, Connect
    PROVE  Inv'
<1>1. TypeOK'
  <2>1. up' \in BOOLEAN
    BY Zenon DEF Connect
  <2>2. TypeOK!1' /\ TypeOK!2' /\ TypeOK!3' /\ TypeOK!4' /\ TypeOK!6' /\ TypeOK!7'
        /\ TypeOK!8' /\ TypeOK!9' /\ TypeOK!10' /\ TypeOK!11' /\ TypeOK!12' /\ TypeOK!13'
    BY DEF Inv, TypeOK, Connect, driverVars, taskVars
  <2> QED
    BY <2>1, <2>2, Zenon DEF TypeOK
<1>2. LockHeld'
  BY PostgresListenerAssumption
  DEF Inv, TypeOK, LockHeld, Connect, driverVars, taskVars
<1>3. DriverOwnsConn'
  BY DEF Inv, TypeOK, DriverOwnsConn, Connect, driverVars, taskVars
<1>4. SenderKept'
  BY DEF Inv, TypeOK, SenderKept, Connect, driverVars, taskVars
<1>5. AttachedIsVisited'
  BY DEF Inv, TypeOK, AttachedIsVisited, Connect, driverVars, taskVars,
         DriverOwnsConn, SenderKept
<1>6. AttachedIsListening'
  BY DEF Inv, TypeOK, AttachedIsListening, Connect, driverVars, taskVars,
         AttachedIsVisited, DriverOwnsConn, SenderKept
<1> QED
  BY <1>1, <1>2, <1>3, <1>4, <1>5, <1>6 DEF Inv

\* The invariant when the driver installs the new client.
LEMMA InstallClientInv ==
    ASSUME Inv, InstallClient
    PROVE  Inv'
<1>1. TypeOK'
  BY DEF Inv, TypeOK, InstallClient, Installed, driverVars, taskVars
<1>2. LockHeld'
  BY PostgresListenerAssumption
  DEF Inv, TypeOK, LockHeld, InstallClient, Installed, driverVars,
         taskVars
<1>3. DriverOwnsConn'
  BY DEF Inv, TypeOK, DriverOwnsConn, InstallClient, Installed, driverVars,
         taskVars
<1>4. SenderKept'
  BY DEF Inv, TypeOK, SenderKept, InstallClient, Installed, driverVars,
         taskVars
<1>5. AttachedIsVisited'
  BY DEF Inv, TypeOK, AttachedIsVisited, InstallClient, Installed,
         driverVars, taskVars, DriverOwnsConn, SenderKept
<1>6. AttachedIsListening'
  BY DEF Inv, TypeOK, AttachedIsListening, InstallClient, Installed,
         driverVars, taskVars, AttachedIsVisited, DriverOwnsConn,
         SenderKept
<1> QED
  BY <1>1, <1>2, <1>3, <1>4, <1>5, <1>6 DEF Inv

\* The invariant when reissue_listen_all() takes the mutex.
LEMMA ReissueBeginInv ==
    ASSUME Inv, ReissueBegin
    PROVE  Inv'
<1>1. TypeOK'
  BY DEF Inv, TypeOK, ReissueBegin, driverVars, taskVars
<1>2. LockHeld'
  BY PostgresListenerAssumption
  DEF Inv, TypeOK, LockHeld, ReissueBegin, driverVars, taskVars
<1>3. DriverOwnsConn'
  BY DEF Inv, TypeOK, DriverOwnsConn, ReissueBegin, driverVars, taskVars
<1>4. SenderKept'
  BY DEF Inv, TypeOK, SenderKept, ReissueBegin, driverVars, taskVars
<1>5. AttachedIsVisited'
  BY DEF Inv, TypeOK, AttachedIsVisited, ReissueBegin, driverVars, taskVars,
         DriverOwnsConn, SenderKept
<1>6. AttachedIsListening'
  BY DEF Inv, TypeOK, AttachedIsListening, ReissueBegin, driverVars,
         taskVars, AttachedIsVisited, DriverOwnsConn, SenderKept
<1> QED
  BY <1>1, <1>2, <1>3, <1>4, <1>5, <1>6 DEF Inv

\* The invariant when reissue_listen_all() visits a channel.
LEMMA ReissueVisitInv ==
    ASSUME Inv, NEW c \in Channels, ReissueVisit(c)
    PROVE  Inv'
<1>1. TypeOK'
  BY DEF Inv, TypeOK, ReissueVisit, Awaited, Answers, Polled, driverVars,
         taskVars
<1>2. LockHeld'
  BY PostgresListenerAssumption
  DEF Inv, TypeOK, LockHeld, ReissueVisit, Awaited, Answers, Polled,
         driverVars, taskVars
<1>3. DriverOwnsConn'
  BY DEF Inv, TypeOK, DriverOwnsConn, ReissueVisit, Awaited, Answers,
         Polled, driverVars, taskVars
<1>4. SenderKept'
  BY DEF Inv, TypeOK, SenderKept, ReissueVisit, Awaited, Answers, Polled,
         driverVars, taskVars
<1>5. AttachedIsVisited'
  BY DEF Inv, TypeOK, AttachedIsVisited, ReissueVisit, Awaited, Answers,
         Polled, driverVars, taskVars, DriverOwnsConn, SenderKept
<1>6. AttachedIsListening'
  BY DEF Inv, TypeOK, AttachedIsListening, ReissueVisit, Awaited, Answers,
         Polled, driverVars, taskVars, AttachedIsVisited, DriverOwnsConn,
         SenderKept
<1> QED
  BY <1>1, <1>2, <1>3, <1>4, <1>5, <1>6 DEF Inv

\* The invariant when reissue_listen_all() returns.
LEMMA ReissueEndInv ==
    ASSUME Inv, ReissueEnd
    PROVE  Inv'
<1>1. TypeOK'
  BY DEF Inv, TypeOK, ReissueEnd, driverVars, taskVars
<1>2. LockHeld'
  BY PostgresListenerAssumption
  DEF Inv, TypeOK, LockHeld, ReissueEnd, driverVars, taskVars
<1>3. DriverOwnsConn'
  BY DEF Inv, TypeOK, DriverOwnsConn, ReissueEnd, driverVars, taskVars
<1>4. SenderKept'
  BY DEF Inv, TypeOK, SenderKept, ReissueEnd, driverVars, taskVars
<1>5. AttachedIsVisited'
  BY DEF Inv, TypeOK, AttachedIsVisited, ReissueEnd, driverVars, taskVars,
         DriverOwnsConn, SenderKept
<1>6. AttachedIsListening'
  BY DEF Inv, TypeOK, AttachedIsListening, ReissueEnd, driverVars, taskVars,
         AttachedIsVisited, DriverOwnsConn, SenderKept
<1> QED
  BY <1>1, <1>2, <1>3, <1>4, <1>5, <1>6 DEF Inv

\* The invariant when the driver notices the loss.
LEMMA PollEndsInv ==
    ASSUME Inv, PollEnds
    PROVE  Inv'
<1>1. TypeOK'
  BY DEF Inv, TypeOK, PollEnds, driverVars, taskVars
<1>2. LockHeld'
  BY PostgresListenerAssumption
  DEF Inv, TypeOK, LockHeld, PollEnds, driverVars, taskVars
<1>3. DriverOwnsConn'
  BY DEF Inv, TypeOK, DriverOwnsConn, PollEnds, driverVars, taskVars
<1>4. SenderKept'
  BY DEF Inv, TypeOK, SenderKept, PollEnds, driverVars, taskVars
<1>5. AttachedIsVisited'
  BY DEF Inv, TypeOK, AttachedIsVisited, PollEnds, driverVars, taskVars,
         DriverOwnsConn, SenderKept
<1>6. AttachedIsListening'
  BY DEF Inv, TypeOK, AttachedIsListening, PollEnds, driverVars, taskVars,
         AttachedIsVisited, DriverOwnsConn, SenderKept
<1> QED
  BY <1>1, <1>2, <1>3, <1>4, <1>5, <1>6 DEF Inv

\* The invariant when the connection breaks.
LEMMA ConnectionLostInv ==
    ASSUME Inv, ConnectionLost
    PROVE  Inv'
<1>1. TypeOK'
  <2>1. up' \in BOOLEAN
    BY Zenon DEF ConnectionLost
  <2>2. TypeOK!1' /\ TypeOK!2' /\ TypeOK!3' /\ TypeOK!4' /\ TypeOK!6' /\ TypeOK!7'
        /\ TypeOK!8' /\ TypeOK!9' /\ TypeOK!10' /\ TypeOK!11' /\ TypeOK!12' /\ TypeOK!13'
    BY DEF Inv, TypeOK, ConnectionLost, driverVars, taskVars
  <2> QED
    BY <2>1, <2>2, Zenon DEF TypeOK
<1>2. LockHeld'
  BY PostgresListenerAssumption
  DEF Inv, TypeOK, LockHeld, ConnectionLost, driverVars, taskVars
<1>3. DriverOwnsConn'
  BY DEF Inv, TypeOK, DriverOwnsConn, ConnectionLost, driverVars, taskVars
<1>4. SenderKept'
  BY DEF Inv, TypeOK, SenderKept, ConnectionLost, driverVars, taskVars
<1>5. AttachedIsVisited'
  BY DEF Inv, TypeOK, AttachedIsVisited, ConnectionLost, driverVars,
         taskVars, DriverOwnsConn, SenderKept
<1>6. AttachedIsListening'
  BY DEF Inv, TypeOK, AttachedIsListening, ConnectionLost, driverVars,
         taskVars, AttachedIsVisited, DriverOwnsConn, SenderKept
<1> QED
  BY <1>1, <1>2, <1>3, <1>4, <1>5, <1>6 DEF Inv

\* The invariant when subscribe() is called.
LEMMA CallInv ==
    ASSUME Inv, NEW s \in Subscribers, NEW c \in Channels, Call(s, c)
    PROVE  Inv'
<1>1. TypeOK'
  BY DEF Inv, TypeOK, Call, Move, driverVars
<1>2. LockHeld'
  BY PostgresListenerAssumption
  DEF Inv, TypeOK, LockHeld, Call, Move, driverVars
<1>3. DriverOwnsConn'
  BY DEF Inv, TypeOK, DriverOwnsConn, Call, Move, driverVars
<1>4. SenderKept'
  BY DEF Inv, TypeOK, SenderKept, Call, Move, driverVars
<1>5. AttachedIsVisited'
  BY DEF Inv, TypeOK, AttachedIsVisited, Call, Move, driverVars,
         DriverOwnsConn, SenderKept
<1>6. AttachedIsListening'
  BY DEF Inv, TypeOK, AttachedIsListening, Call, Move, driverVars,
         AttachedIsVisited, DriverOwnsConn, SenderKept
<1> QED
  BY <1>1, <1>2, <1>3, <1>4, <1>5, <1>6 DEF Inv

\* The invariant when wait_for_client() finds a client.
LEMMA ClientSeenInv ==
    ASSUME Inv, NEW s \in Subscribers, ClientSeen(s)
    PROVE  Inv'
<1>1. TypeOK'
  BY DEF Inv, TypeOK, ClientSeen, Move, driverVars
<1>2. LockHeld'
  BY PostgresListenerAssumption
  DEF Inv, TypeOK, LockHeld, ClientSeen, Move, driverVars
<1>3. DriverOwnsConn'
  BY DEF Inv, TypeOK, DriverOwnsConn, ClientSeen, Move, driverVars
<1>4. SenderKept'
  BY DEF Inv, TypeOK, SenderKept, ClientSeen, Move, driverVars
<1>5. AttachedIsVisited'
  BY DEF Inv, TypeOK, AttachedIsVisited, ClientSeen, Move, driverVars,
         DriverOwnsConn, SenderKept
<1>6. AttachedIsListening'
  BY DEF Inv, TypeOK, AttachedIsListening, ClientSeen, Move, driverVars,
         AttachedIsVisited, DriverOwnsConn, SenderKept
<1> QED
  BY <1>1, <1>2, <1>3, <1>4, <1>5, <1>6 DEF Inv

\* The invariant when wait_for_client() gives up.
LEMMA ClientTimeoutInv ==
    ASSUME Inv, NEW s \in Subscribers, ClientTimeout(s)
    PROVE  Inv'
<1>1. TypeOK'
  BY DEF Inv, TypeOK, ClientTimeout, Move, driverVars
<1>2. LockHeld'
  BY PostgresListenerAssumption
  DEF Inv, TypeOK, LockHeld, ClientTimeout, Move, driverVars
<1>3. DriverOwnsConn'
  BY DEF Inv, TypeOK, DriverOwnsConn, ClientTimeout, Move, driverVars
<1>4. SenderKept'
  BY DEF Inv, TypeOK, SenderKept, ClientTimeout, Move, driverVars
<1>5. AttachedIsVisited'
  BY DEF Inv, TypeOK, AttachedIsVisited, ClientTimeout, Move, driverVars,
         DriverOwnsConn, SenderKept
<1>6. AttachedIsListening'
  BY DEF Inv, TypeOK, AttachedIsListening, ClientTimeout, Move, driverVars,
         AttachedIsVisited, DriverOwnsConn, SenderKept
<1> QED
  BY <1>1, <1>2, <1>3, <1>4, <1>5, <1>6 DEF Inv

\* The invariant when the sender is filed.
LEMMA RegisterInv ==
    ASSUME Inv, NEW s \in Subscribers, Register(s)
    PROVE  Inv'
<1>1. TypeOK'
  BY DEF Inv, TypeOK, Register, Move, driverVars
<1>2. LockHeld'
  BY PostgresListenerAssumption
  DEF Inv, TypeOK, LockHeld, Register, Move, driverVars
<1>3. DriverOwnsConn'
  BY DEF Inv, TypeOK, DriverOwnsConn, Register, Move, driverVars
<1>4. SenderKept'
  BY DEF Inv, TypeOK, SenderKept, Register, Move, driverVars
<1>5. AttachedIsVisited'
  BY DEF Inv, TypeOK, AttachedIsVisited, Register, Move, driverVars,
         DriverOwnsConn, SenderKept
<1>6. AttachedIsListening'
  BY DEF Inv, TypeOK, AttachedIsListening, Register, Move, driverVars,
         AttachedIsVisited, DriverOwnsConn, SenderKept
<1> QED
  BY <1>1, <1>2, <1>3, <1>4, <1>5, <1>6 DEF Inv

\* The invariant when the caller takes the mutex.
LEMMA LockClientInv ==
    ASSUME Inv, NEW s \in Subscribers, LockClient(s)
    PROVE  Inv'
<1>1. TypeOK'
  BY DEF Inv, TypeOK, LockClient, Move, driverVars
<1>2. LockHeld'
  BY PostgresListenerAssumption
  DEF Inv, TypeOK, LockHeld, LockClient, Move, driverVars
<1>3. DriverOwnsConn'
  BY DEF Inv, TypeOK, DriverOwnsConn, LockClient, Move, driverVars
<1>4. SenderKept'
  BY DEF Inv, TypeOK, SenderKept, LockClient, Move, driverVars
<1>5. AttachedIsVisited'
  BY DEF Inv, TypeOK, AttachedIsVisited, LockClient, Move, driverVars,
         DriverOwnsConn, SenderKept
<1>6. AttachedIsListening'
  BY DEF Inv, TypeOK, AttachedIsListening, LockClient, Move, driverVars,
         AttachedIsVisited, DriverOwnsConn, SenderKept
<1> QED
  BY <1>1, <1>2, <1>3, <1>4, <1>5, <1>6 DEF Inv

\* The invariant when LISTEN is answered.
LEMMA ListenAnsweredInv ==
    ASSUME Inv, NEW s \in Subscribers, ListenAnswered(s)
    PROVE  Inv'
<1>1. TypeOK'
  BY DEF Inv, TypeOK, ListenAnswered, Move, Answers, Polled, driverVars
<1>2. LockHeld'
  BY PostgresListenerAssumption
  DEF Inv, TypeOK, LockHeld, ListenAnswered, Move, Answers, Polled,
         driverVars
<1>3. DriverOwnsConn'
  BY DEF Inv, TypeOK, DriverOwnsConn, ListenAnswered, Move, Answers, Polled,
         driverVars
<1>4. SenderKept'
  BY DEF Inv, TypeOK, SenderKept, ListenAnswered, Move, Answers, Polled,
         driverVars
<1>5. AttachedIsVisited'
  BY DEF Inv, TypeOK, AttachedIsVisited, ListenAnswered, Move, Answers,
         Polled, driverVars, DriverOwnsConn, SenderKept
<1>6. AttachedIsListening'
  BY DEF Inv, TypeOK, AttachedIsListening, ListenAnswered, Move, Answers,
         Polled, driverVars, AttachedIsVisited, DriverOwnsConn, SenderKept
<1> QED
  BY <1>1, <1>2, <1>3, <1>4, <1>5, <1>6 DEF Inv

\* The invariant when LISTEN fails.
LEMMA ListenFailsInv ==
    ASSUME Inv, NEW s \in Subscribers, ListenFails(s)
    PROVE  Inv'
<1>1. TypeOK'
  BY DEF Inv, TypeOK, ListenFails, Move, Fails, driverVars
<1>2. LockHeld'
  BY PostgresListenerAssumption
  DEF Inv, TypeOK, LockHeld, ListenFails, Move, Fails, driverVars
<1>3. DriverOwnsConn'
  BY DEF Inv, TypeOK, DriverOwnsConn, ListenFails, Move, Fails, driverVars
<1>4. SenderKept'
  BY DEF Inv, TypeOK, SenderKept, ListenFails, Move, Fails, driverVars
<1>5. AttachedIsVisited'
  BY DEF Inv, TypeOK, AttachedIsVisited, ListenFails, Move, Fails,
         driverVars, DriverOwnsConn, SenderKept
<1>6. AttachedIsListening'
  BY DEF Inv, TypeOK, AttachedIsListening, ListenFails, Move, Fails,
         driverVars, AttachedIsVisited, DriverOwnsConn, SenderKept
<1> QED
  BY <1>1, <1>2, <1>3, <1>4, <1>5, <1>6 DEF Inv

\* The invariant when the caller is dropped.
LEMMA CancelInv ==
    ASSUME Inv, NEW s \in Subscribers, Cancel(s)
    PROVE  Inv'
<1>1. TypeOK'
  BY DEF Inv, TypeOK, Cancel, driverVars
<1>2. LockHeld'
  BY PostgresListenerAssumption
  DEF Inv, TypeOK, LockHeld, Cancel, driverVars
<1>3. DriverOwnsConn'
  BY DEF Inv, TypeOK, DriverOwnsConn, Cancel, driverVars
<1>4. SenderKept'
  BY DEF Inv, TypeOK, SenderKept, Cancel, driverVars
<1>5. AttachedIsVisited'
  BY DEF Inv, TypeOK, AttachedIsVisited, Cancel, driverVars, DriverOwnsConn,
         SenderKept
<1>6. AttachedIsListening'
  BY DEF Inv, TypeOK, AttachedIsListening, Cancel, driverVars,
         AttachedIsVisited, DriverOwnsConn, SenderKept
<1> QED
  BY <1>1, <1>2, <1>3, <1>4, <1>5, <1>6 DEF Inv

\* The invariant when the stream is dropped.
LEMMA LeaveInv ==
    ASSUME Inv, NEW s \in Subscribers, Leave(s)
    PROVE  Inv'
<1>1. TypeOK'
  BY DEF Inv, TypeOK, Leave, Move, driverVars
<1>2. LockHeld'
  BY PostgresListenerAssumption
  DEF Inv, TypeOK, LockHeld, Leave, Move, driverVars
<1>3. DriverOwnsConn'
  BY DEF Inv, TypeOK, DriverOwnsConn, Leave, Move, driverVars
<1>4. SenderKept'
  BY DEF Inv, TypeOK, SenderKept, Leave, Move, driverVars
<1>5. AttachedIsVisited'
  BY DEF Inv, TypeOK, AttachedIsVisited, Leave, Move, driverVars,
         DriverOwnsConn, SenderKept
<1>6. AttachedIsListening'
  BY DEF Inv, TypeOK, AttachedIsListening, Leave, Move, driverVars,
         AttachedIsVisited, DriverOwnsConn, SenderKept
<1> QED
  BY <1>1, <1>2, <1>3, <1>4, <1>5, <1>6 DEF Inv

\* Every step of the listener preserves the invariant.
LEMMA NextInv == Inv /\ [Next]_vars => Inv'
<1> SUFFICES ASSUME Inv, [Next]_vars PROVE Inv'
  OBVIOUS
<1>1. CASE UNCHANGED vars
  BY <1>1 DEF vars, Inv, TypeOK, LockHeld, DriverOwnsConn, SenderKept,
     AttachedIsVisited, AttachedIsListening
<1>2. CASE DriverStep
  BY <1>2, ConnectInv, InstallClientInv, ReissueBeginInv, ReissueVisitInv,
     ReissueEndInv, PollEndsInv DEF DriverStep
<1>3. CASE ConnectionLost
  BY <1>3, ConnectionLostInv
<1>4. ASSUME NEW s \in Subscribers, NEW c \in Channels, Call(s, c) PROVE Inv'
  BY <1>4, CallInv
<1>5. ASSUME NEW s \in Subscribers, SubscribeStep(s) PROVE Inv'
  BY <1>5, ClientSeenInv, ClientTimeoutInv, RegisterInv, LockClientInv,
     ListenAnsweredInv, ListenFailsInv DEF SubscribeStep
<1>6. ASSUME NEW s \in Subscribers, Cancel(s) \/ Leave(s) PROVE Inv'
  BY <1>6, CancelInv, LeaveInv
<1> QED
  BY <1>1, <1>2, <1>3, <1>4, <1>5, <1>6 DEF Next

\* The mutex, the connection and the subscribers agree in every state.
THEOREM Invariance == Spec => []Inv
<1> QED
  BY InitInv, NextInv, PTL DEF Spec

\* While the driver listens on an intact connection, every attached
\* subscriber's channel is LISTENed to.
THEOREM AttachedAreServed == Spec => []AttachedIsListening
<1>1. Inv => AttachedIsListening
  BY DEF Inv
<1> QED
  BY <1>1, Invariance, PTL

\* A caller's LISTEN fails only when the driver is about to replace the client.
THEOREM FailuresExplained == Spec => []FailureMeansReconnecting
<1>1. Inv => FailureMeansReconnecting
  BY DEF Inv, TypeOK, DriverOwnsConn, FailureMeansReconnecting, Fails
<1> QED
  BY <1>1, Invariance, PTL
=============================================================================
