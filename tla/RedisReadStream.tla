-------------------------- MODULE RedisReadStream --------------------------
(***************************************************************************)
(* RedisListener::read_stream (src/cli/redis/listener.rs): the stream      *)
(* behind @redis(operation: XREAD).  One task with a connection of its own *)
(* sends XREAD BLOCK in a loop, yields every entry of a reply, remembers   *)
(* the id of the last one, and after a transient error reconnects and goes *)
(* on from there.  The start id is an entry's id or "$", which Redis takes *)
(* to be the last entry at the moment it receives the command.             *)
(*                                                                         *)
(* Entry ids are 1, 2, ... in the order in which Redis adds the entries.   *)
(***************************************************************************)
EXTENDS Naturals, Sequences, TLAPS

CONSTANTS
    Starts,     \* the start ids a subscription may be made with
    Latest,     \* the start id "$"
    Count,      \* XREAD_COUNT
    MaxEntries, \* bound: entries added to the Redis stream
    MaxLosses   \* bound: transient errors

ASSUME RedisReadStreamAssumption ==
    /\ Starts \subseteq Nat \cup {Latest}
    /\ Latest \notin Nat
    /\ Count \in Nat \ {0}
    /\ MaxEntries \in Nat
    /\ MaxLosses \in Nat

VARIABLES
    start,     \* start_id
    lastId,    \* last_id
    phase,     \* where the generator stands
    from,      \* external: the id from which a blocked XREAD waits
    reply,     \* the ids of the reply that are still to be yielded
    delivered, \* what was yielded to the subscriber
    log,       \* external: the number of entries in the Redis stream
    losses,    \* how many transient errors happened
    base       \* history: the id after which the subscription began

vars == <<start, lastId, phase, from, reply, delivered, log, losses, base>>

\* An interval of ids, first to last; empty when first > last.
Ids(first, last) == [first |-> first, last |-> last]

NoIds == Ids(1, 0)

Init ==
    /\ start \in Starts
    /\ lastId = start
    /\ phase = "connect"
    /\ from = 0
    /\ reply = NoIds
    /\ delivered = <<>>
    /\ log = 0
    /\ losses = 0
    /\ base = Latest

(***************************************************************************)
(* The Redis stream.                                                       *)
(***************************************************************************)
\* XADD by anybody.
Add ==
    /\ log < MaxEntries
    /\ log' = log + 1
    /\ UNCHANGED <<start, lastId, phase, from, reply, delivered, losses, base>>

\* The entry after which Redis looks for new ones.
After(id) == IF id = Latest THEN log ELSE id

\* Mutated forms: the reply starts one late, or at the remembered entry.
Found_Late(id) == Ids(id + 2, IF log > id + Count THEN id + Count ELSE log)
Found_Again(id) == Ids(id, IF log > id + Count THEN id + Count ELSE log)

\* The entries after id, COUNT of them at most.
Found(id) == Ids(id + 1, IF log > id + Count THEN id + Count ELSE log)

(***************************************************************************)
(* The generator.                                                          *)
(***************************************************************************)
Connect ==
    /\ phase = "connect"
    /\ phase' = "send"
    /\ UNCHANGED <<start, lastId, from, reply, delivered, log, losses, base>>

\* XREAD ... last_id is sent and reaches Redis.
Send ==
    /\ phase = "send"
    /\ phase' = "blocked"
    /\ from' = After(lastId)
    /\ base' = IF base = Latest THEN After(lastId) ELSE base
    /\ UNCHANGED <<start, lastId, reply, delivered, log, losses>>

Reply ==
    /\ phase = "blocked"
    /\ log > from
    /\ reply' = Found(from)
    /\ phase' = "yield"
    /\ UNCHANGED <<start, lastId, from, delivered, log, losses, base>>

\* The BLOCK time is over: an empty reply, and the next XREAD.
BlockTimeout ==
    /\ phase = "blocked"
    /\ ~(log > from)
    /\ phase' = "send"
    /\ UNCHANGED <<start, lastId, from, reply, delivered, log, losses, base>>

\* Mutated form: the subscription always goes on from its start id.
Remembered_Start(id) == start

\* last_id = entry.id.clone()
Remembered(id) == id

\* The next entry of the reply is remembered and yielded, as a value or, if its
\* payload cannot be decoded, as an error.
Yield ==
    /\ phase = "yield"
    /\ reply.first <= reply.last
    /\ delivered' = Append(delivered, reply.first)
    /\ lastId' = Remembered(reply.first)
    /\ reply' = Ids(reply.first + 1, reply.last)
    /\ UNCHANGED <<start, phase, from, log, losses, base>>

ReplyDone ==
    /\ phase = "yield"
    /\ reply.first > reply.last
    /\ phase' = "send"
    /\ UNCHANGED <<start, lastId, from, reply, delivered, log, losses, base>>

\* A transient error: no connection, or none any more; a reply may be lost.
Transient ==
    /\ phase \in {"connect", "send", "blocked"}
    /\ losses < MaxLosses
    /\ losses' = losses + 1
    /\ phase' = "backoff"
    /\ UNCHANGED <<start, lastId, from, reply, delivered, log, base>>

Backoff ==
    /\ phase = "backoff"
    /\ phase' = "connect"
    /\ UNCHANGED <<start, lastId, from, reply, delivered, log, losses, base>>

\* A permanent error is yielded and ends the stream.
Permanent ==
    /\ phase = "blocked"
    /\ phase' = "ended"
    /\ UNCHANGED <<start, lastId, from, reply, delivered, log, losses, base>>

\* The subscriber drops the stream, whatever it is doing.
Leave ==
    /\ phase # "ended"
    /\ phase' = "ended"
    /\ UNCHANGED <<start, lastId, from, reply, delivered, log, losses, base>>

-----------------------------------------------------------------------------
Progress ==
    \/ Connect
    \/ Send
    \/ Reply
    \/ BlockTimeout
    \/ Yield
    \/ ReplyDone
    \/ Backoff

Next ==
    \/ Add
    \/ Progress
    \/ Transient
    \/ Permanent
    \/ Leave

Spec == Init /\ [][Next]_vars

\* The subscriber polls the stream, and Redis answers or the connection breaks.
FairSpec == Spec /\ WF_vars(Progress)

-----------------------------------------------------------------------------
\* The types of the generator's state.
TypeOK ==
    /\ start \in Starts
    /\ lastId \in Nat \cup {Latest}
    /\ phase \in {"connect", "send", "blocked", "yield", "backoff", "ended"}
    /\ from \in Nat
    /\ reply \in [first : Nat, last : Nat]
    /\ delivered \in Seq(Nat)
    /\ log \in Nat
    /\ losses \in Nat
    /\ base \in Nat \cup {Latest}

\* read_stream: whatever is lost in between, from the first entry on the
\* subscriber gets every entry once and in order.
NoGapNoRepeat ==
    \A i \in DOMAIN delivered :
        i > 1 => delivered[i] = delivered[i - 1] + 1

\* A subscription with an entry's id gets exactly the entries after it.
FromStart ==
    start # Latest => \A i \in DOMAIN delivered : delivered[i] = start + i

\* No entry is withheld: an entry after the start id, or after one that was
\* already yielded, comes sooner or later unless the stream ends.
EveryEntryYielded ==
    \A e \in 1..MaxEntries :
        /\ log >= e
        /\ lastId # Latest /\ lastId < e
        ~> (\E i \in DOMAIN delivered : delivered[i] = e) \/ phase = "ended"

\* redis.md:137, "resumes from the last entry id it successfully delivered
\* before the disconnect, rather than restarting from startId. This avoids
\* re-delivering the same entries on every reconnect while still catching
\* subscribers up on what they missed": nothing added after the subscription
\* began is skipped.
CatchesUp ==
    \A i \in DOMAIN delivered : delivered[i] = base + i

-----------------------------------------------------------------------------
(* The inductive invariant behind NoGapNoRepeat and FromStart.              *)

\* last_id is the last entry yielded, or the start id.
LastIsLast ==
    IF delivered = <<>> THEN lastId = start
                        ELSE lastId = delivered[Len(delivered)]

\* A waiting XREAD waits behind last_id.
WaitsAfterLast == phase = "blocked" /\ lastId # Latest => from = lastId

\* What is left of a reply follows what was yielded.
ReplyFollows ==
    phase = "yield" /\ lastId # Latest => reply.first = lastId + 1

\* The generator's position, the reply in hand and what was yielded agree.
Inv ==
    /\ TypeOK
    /\ LastIsLast
    /\ WaitsAfterLast
    /\ ReplyFollows
    /\ NoGapNoRepeat
    /\ FromStart
-----------------------------------------------------------------------------
(***************************************************************************)
(* For any start ids, counts and bounds: reconnecting neither skips nor    *)
(* repeats an entry once the position is an entry's id.                    *)
(***************************************************************************)

\* Appending one entry leaves the earlier ones in place: what a yield does.
LEMMA Appended ==
    ASSUME NEW s \in Seq(Nat), NEW e \in Nat
    PROVE  /\ Append(s, e) \in Seq(Nat)
           /\ Append(s, e) # <<>>
           /\ Len(Append(s, e)) = Len(s) + 1
           /\ DOMAIN Append(s, e) = 1..(Len(s) + 1)
           /\ DOMAIN s = 1..Len(s)
           /\ Len(s) \in Nat
           /\ Append(s, e)[Len(s) + 1] = e
           /\ \A i \in 1..Len(s) : Append(s, e)[i] = s[i]
           /\ \A i \in 1..Len(s) : s[i] \in Nat
           /\ s = <<>> <=> Len(s) = 0
  OBVIOUS

\* A subscription starts consistent.
LEMMA InitInv == Init => Inv
  BY RedisReadStreamAssumption DEF Init, Inv, TypeOK, LastIsLast,
     WaitsAfterLast, ReplyFollows, NoGapNoRepeat, FromStart, NoIds, Ids

\* The invariant when an entry is remembered and yielded.
LEMMA YieldInv ==
    ASSUME Inv, Yield
    PROVE  Inv'
<1> DEFINE e == reply.first
           s == delivered
<1>1. /\ e \in Nat /\ s \in Seq(Nat)
      /\ delivered' = Append(s, e) /\ lastId' = e
      /\ reply' = Ids(e + 1, reply.last)
      /\ phase = "yield"
      /\ UNCHANGED <<start, phase, from, log, losses, base>>
  BY DEF Inv, TypeOK, Yield, Remembered
<1>2. s # <<>> => e = s[Len(s)] + 1
  <2>1. s # <<>> => lastId = s[Len(s)] /\ s[Len(s)] \in Nat
    BY <1>1, Appended DEF Inv, LastIsLast
  <2> QED
    BY <1>1, <2>1, RedisReadStreamAssumption DEF Inv, ReplyFollows
<1>3. start # Latest => e = start + Len(s) + 1
  <2>1. CASE s = <<>>
    BY <1>1, <2>1, RedisReadStreamAssumption
    DEF Inv, TypeOK, LastIsLast, ReplyFollows
  <2>2. CASE s # <<>>
    <3>1. Len(s) \in DOMAIN s /\ Len(s) \in Nat
      BY <1>1, <2>2, Appended
    <3>2. start # Latest => s[Len(s)] = start + Len(s)
      BY <3>1 DEF Inv, FromStart
    <3> QED
      BY <1>2, <2>2, <3>1, <3>2, RedisReadStreamAssumption DEF Inv, TypeOK
  <2> QED
    BY <2>1, <2>2
<1> HIDE DEF e, s
<1>4. TypeOK'
  BY <1>1, Appended DEF Inv, TypeOK, Ids
<1>5. LastIsLast'
  BY <1>1, Appended DEF LastIsLast
<1>6. WaitsAfterLast' /\ ReplyFollows'
  BY <1>1 DEF WaitsAfterLast, ReplyFollows, Ids
<1>7. NoGapNoRepeat'
  <2> SUFFICES ASSUME NEW i \in DOMAIN delivered', i > 1
               PROVE  delivered'[i] = delivered'[i - 1] + 1
    BY DEF NoGapNoRepeat
  <2>1. i \in 1..(Len(s) + 1) /\ Len(s) \in Nat
    BY <1>1, Appended
  <2>2. CASE i = Len(s) + 1
    BY <1>1, <1>2, <2>1, <2>2, Appended
  <2>3. CASE i \in 1..Len(s)
    BY <1>1, <2>1, <2>3, Appended DEF Inv, NoGapNoRepeat, s
  <2> QED
    BY <2>1, <2>2, <2>3
<1>8. FromStart'
  <2> SUFFICES ASSUME start # Latest, NEW i \in DOMAIN delivered'
               PROVE  delivered'[i] = start + i
    BY <1>1 DEF FromStart
  <2>1. i \in 1..(Len(s) + 1) /\ Len(s) \in Nat /\ start \in Nat
    BY <1>1, Appended, RedisReadStreamAssumption DEF Inv, TypeOK
  <2>2. CASE i = Len(s) + 1
    BY <1>1, <1>3, <2>1, <2>2, Appended
  <2>3. CASE i \in 1..Len(s)
    BY <1>1, <2>1, <2>3, Appended DEF Inv, FromStart, s
  <2> QED
    BY <2>1, <2>2, <2>3
<1> QED
  BY <1>4, <1>5, <1>6, <1>7, <1>8 DEF Inv

\* Every step of read_stream preserves the invariant.
LEMMA NextInv == Inv /\ [Next]_vars => Inv'
<1> SUFFICES ASSUME Inv, [Next]_vars PROVE Inv'
  OBVIOUS
<1> USE RedisReadStreamAssumption DEF Inv, TypeOK, LastIsLast, WaitsAfterLast,
        ReplyFollows, NoGapNoRepeat, FromStart
<1>1. CASE UNCHANGED vars
  BY <1>1 DEF vars
<1>2. CASE Add
  BY <1>2 DEF Add
<1>3. CASE Connect \/ BlockTimeout \/ ReplyDone \/ Backoff
  BY <1>3 DEF Connect, BlockTimeout, ReplyDone, Backoff
<1>4. CASE Transient \/ Permanent \/ Leave
  <2>1. CASE Transient
    BY <2>1 DEF Transient
  <2>2. CASE Permanent
    BY <2>2 DEF Permanent
  <2>3. CASE Leave
    BY <2>3 DEF Leave
  <2> QED
    BY <1>4, <2>1, <2>2, <2>3
<1>5. CASE Send
  BY <1>5 DEF Send, After
<1>6. CASE Reply
  BY <1>6 DEF Reply, Found, Ids
<1>7. CASE Yield
  BY <1>7, YieldInv
<1> QED
  BY <1>1, <1>2, <1>3, <1>4, <1>5, <1>6, <1>7 DEF Next, Progress

\* read_stream: position, reply and yielded entries agree in every state.
THEOREM Invariance == Spec => []Inv
<1> QED
  BY InitInv, NextInv, PTL DEF Spec

\* read_stream: however often the connection breaks, entries are yielded in
\* order, without gap or repetition.
THEOREM ResumesExactly == Spec => []NoGapNoRepeat
<1>1. Inv => NoGapNoRepeat
  BY DEF Inv
<1> QED
  BY <1>1, Invariance, PTL

\* read_stream: a reader that starts at an entry's id gets all that follow it.
THEOREM StartsExactly == Spec => []FromStart
<1>1. Inv => FromStart
  BY DEF Inv
<1> QED
  BY <1>1, Invariance, PTL

=============================================================================
