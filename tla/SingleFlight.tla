---------------------------- MODULE SingleFlight ----------------------------
(***************************************************************************)
(* What deduplication promises, without maps, channels or weak pointers: a *)
(* task that asks for a key launches a flight when none is in the air for  *)
(* the key, and joins it otherwise; a flight that lands hands one and the  *)
(* same answer to everybody aboard; when the task that flies gives up,     *)
(* those aboard ask again.  With Persist the first landing settles a key   *)
(* for ever.                                                               *)
(***************************************************************************)
EXTENDS Naturals

CONSTANTS Tasks, Keys, Persist

VARIABLES
    phase,     \* "out", "asking", "flying", "joined" or "landed"
    goal,      \* the key a task asked for
    ticket,    \* the number of the flight a task flies, or 0
    answer,    \* the flight whose value a task has been given, or 0
    stored,    \* the flight that settled a key, or 0
    launched   \* how many flights took off

vars == <<phase, goal, ticket, answer, stored, launched>>

InTheAir(k) == \E t \in Tasks : phase[t] = "flying" /\ goal[t] = k

Init ==
    /\ phase = [t \in Tasks |-> "out"]
    /\ goal \in [Tasks -> Keys]
    /\ ticket = [t \in Tasks |-> 0]
    /\ answer = [t \in Tasks |-> 0]
    /\ stored = [k \in Keys |-> 0]
    /\ launched = 0

Ask(t, k) ==
    /\ phase[t] = "out"
    /\ phase' = [phase EXCEPT ![t] = "asking"]
    /\ goal' = [goal EXCEPT ![t] = k]
    /\ answer' = [answer EXCEPT ![t] = 0]
    /\ UNCHANGED <<ticket, stored, launched>>

Recall(t) ==
    /\ phase[t] = "asking"
    /\ stored[goal[t]] # 0
    /\ phase' = [phase EXCEPT ![t] = "out"]
    /\ answer' = [answer EXCEPT ![t] = stored[goal[t]]]
    /\ UNCHANGED <<goal, ticket, stored, launched>>

Launch(t) ==
    /\ phase[t] = "asking"
    /\ stored[goal[t]] = 0
    /\ ~InTheAir(goal[t])
    /\ launched' = launched + 1
    /\ phase' = [phase EXCEPT ![t] = "flying"]
    /\ ticket' = [ticket EXCEPT ![t] = launched']
    /\ UNCHANGED <<goal, answer, stored>>

Join(t) ==
    /\ phase[t] = "asking"
    /\ InTheAir(goal[t])
    /\ phase' = [phase EXCEPT ![t] = "joined"]
    /\ UNCHANGED <<goal, ticket, answer, stored, launched>>

Aboard(t) == {u \in Tasks : phase[u] = "joined" /\ goal[u] = goal[t]}

Land(t) ==
    /\ phase[t] = "flying"
    /\ LET party == Aboard(t) \cup {t} IN
        /\ phase' = [u \in Tasks |-> IF u \in party THEN "landed" ELSE phase[u]]
        /\ answer' = [u \in Tasks |-> IF u \in party THEN ticket[t]
                                      ELSE answer[u]]
    /\ ticket' = [ticket EXCEPT ![t] = 0]
    /\ stored' = [stored EXCEPT ![goal[t]] = IF Persist THEN ticket[t] ELSE @]
    /\ UNCHANGED <<goal, launched>>

GiveUp(t) ==
    /\ phase[t] = "flying"
    /\ phase' = [u \in Tasks |-> IF u = t THEN "out"
                                 ELSE IF u \in Aboard(t) THEN "asking"
                                 ELSE phase[u]]
    /\ ticket' = [ticket EXCEPT ![t] = 0]
    /\ UNCHANGED <<goal, answer, stored, launched>>

Leave(t) ==
    /\ phase[t] \in {"asking", "joined", "landed"}
    /\ phase' = [phase EXCEPT ![t] = "out"]
    /\ answer' = [answer EXCEPT ![t] = 0]
    /\ UNCHANGED <<goal, ticket, stored, launched>>

Take(t) ==
    /\ phase[t] = "landed"
    /\ phase' = [phase EXCEPT ![t] = "out"]
    /\ UNCHANGED <<goal, ticket, answer, stored, launched>>

Next ==
    \E t \in Tasks :
        \/ \E k \in Keys : Ask(t, k)
        \/ Recall(t)
        \/ Launch(t)
        \/ Join(t)
        \/ Land(t)
        \/ GiveUp(t)
        \/ Leave(t)
        \/ Take(t)

Spec == Init /\ [][Next]_vars
=============================================================================
