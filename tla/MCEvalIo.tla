------------------------------ MODULE MCEvalIo ------------------------------
(* A small instance of EvalIo: a request with two fields and one with one;  *)
(* an io that is deduplicated, one that is cached, and one that is both;    *)
(* and one that is cached and whose upstream fails at times, as does that   *)
(* of the one that is both.                                                 *)
EXTENDS EvalIo, TLC

CONSTANTS a1, a2, b1   \* the fields of request "a", and of request "b"

MCTasks == {a1, a2, b1}
MCRequests == {"a", "b"}
MCOwner == (a1 :> "a") @@ (a2 :> "a") @@ (b1 :> "b")
MCIOs == {"shared", "cached", "both", "failing"}
MCDown == {<<"both", 2>>, <<"failing", 2>>}
MCKeys == MCRequests \X MCIOs

\* All fields ask for the same io, whichever; the keys last asked for mean
\* nothing before the first call.
MCInit ==
    /\ EvalInit
    /\ \A t \in Tasks :
          /\ asked[t] = asked[a1]
          /\ gkey[t] = asked[t]
          /\ key[t] = <<Owner[t], asked[t]>>

MCSpec == MCInit /\ [][EvalNext]_evalVars /\ EvalFairness
=============================================================================
