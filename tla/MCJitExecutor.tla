--------------------------- MODULE MCJitExecutor ---------------------------
(* Small instances of JitExecutor: a query with a shared resolver, one that *)
(* is constant, one that is constant and protected, one that is neither     *)
(* constant nor shared, one document without the operation asked for, and   *)
(* one with two operations, of which one is shared.                         *)
EXTENDS JitExecutor, Functions

CONSTANTS NHttp, NPositions   \* HTTP requests, and GraphQL requests of each

MCTasks == (1..NHttp) \X (1..NPositions)

Op(q) == [query |-> q, name |-> "A"]
Second == [query |-> "two", name |-> "B"]
MCOperations == {Op("shared"), Op("other"), Op("const"), Op("guarded"),
                 Op("plain"), Op("two"), Second}
MCConst == {Op("const"), Op("guarded")}
MCProtected == {Op("guarded")}
MCDedupe == {Op("shared"), Op("other"), Op("two")}

Ask(q, v) == [query |-> q, name |-> "A", vars |-> v]
Http(h, rs) == [headers |-> h, requests |-> rs]

\* What is sent; the last five cannot be told apart from some other one.
Sendable ==
    <<Http("alice", <<Ask("shared", "v")>>),
      Http("alice", <<Ask("const", "none")>>),
      Http("alice", <<Ask("guarded", "none")>>),
      Http("bob",   <<Ask("guarded", "none")>>),
      Http("alice", <<Ask("unknown", "none")>>),
      Http("alice", <<Ask("plain", "v"), Ask("shared", "w")>>),
      Http("nobody", <<>>),
      Http("bob",   <<Ask("const", "x")>>),
      Http("alice", <<Ask("two", "v")>>),
      Http("bob",   <<[query |-> "two", name |-> "B", vars |-> "w"]>>),
      Http("alice", <<Ask("shared", "v"), Ask("other", "w")>>),
      Http("alice", <<Ask("const", "none"), Ask("shared", "v")>>)>>

HttpRequests == Range(Sendable)

\* Any two HTTP requests (which of them is the first makes no difference), three equal
\* ones, three for the protected constant, and the ones that are not told apart.
Meetings ==
    {<<i, j, 7>> : i, j \in 1..6} \cup {<<1, 1, 1>>, <<3, 3, 4>>}
    \cup {<<2, 8, 7>>, <<2, 8, 8>>, <<9, 10, 7>>, <<9, 9, 10>>, <<7, 11, 7>>, <<1, 11, 7>>,
          <<2, 12, 7>>, <<8, 12, 7>>}

MCInit ==
    /\ JitInit
    /\ \E m \in Meetings :
          /\ m[1] <= m[2]
          /\ \A h \in Https : http[h] = Sendable[m[h]]

MCSpec == MCInit /\ [][JitNext]_jitVars /\ Fairness

\* A batch with two queries whose resolvers are deduplicated.
TwoSharedInBatch ==
    {Http("alice", <<Ask("shared", "v"), Ask("other", "v")>>)}
=============================================================================
