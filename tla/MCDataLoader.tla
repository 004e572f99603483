---------------------------- MODULE MCDataLoader ----------------------------
(* Two small instances of DataLoader in one: three calls of load_one while  *)
(* nobody touches the cache, or two calls of load_many while its owner      *)
(* does, and while the data source changes.                                 *)
EXTENDS DataLoader, TLC

CONSTANTS c1, c2, c3, k1, k2, k3

VARIABLE scenario

MCInit == Init /\ scenario \in {"load_one", "load_many"}

\* The calls are made in order.
OneKeyEach ==
    /\ pc'[c1] = "new" => pc'[c2] = "new"
    /\ pc'[c2] = "new" => pc'[c3] = "new"
    /\ \A c \in Calls : Cardinality(asked'[c]) <= 1
    /\ UNCHANGED <<disableOne, disableAll, version>>
    /\ cache' = cache \/ batches' # batches

\* c1 is made before c2, k1 is among the first keys asked for, nobody is
\* dropped or panics, and the owner disables the cache in one way at a time.
TwoCalls ==
    /\ pc'[c3] = "new"
    /\ pc'[c1] = "new" => pc'[c2] = "new"
    /\ \A c \in Calls :
          /\ k3 \notin asked'[c]
          /\ pc'[c] # "dropped"
          /\ sent'[c] # "lost"
    /\ asked'[c1] # {k2}
    /\ ~(disableOne' /\ disableAll')

MCNext ==
    /\ Next
    /\ IF scenario = "load_one" THEN OneKeyEach ELSE TwoCalls
    /\ UNCHANGED scenario

MCVars == <<vars, scenario>>

MCSpec == MCInit /\ [][MCNext]_MCVars /\ Fairness
=============================================================================
