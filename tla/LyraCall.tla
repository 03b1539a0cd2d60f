------------------------------ MODULE LyraCall ------------------------------
(***************************************************************************)
(* What a call of LyraClient promises the controller that makes it: Lyra   *)
(* does what it was asked at most once, while the call is under way; the   *)
(* call ends as one of Calls, and what it says of Lyra's work is true.     *)
(***************************************************************************)
EXTENDS Lyra, Naturals

CONSTANT Callers    \* the workers that make calls, one at a time

VARIABLES
    calling,    \* the workers whose call is under way
    effects,    \* how often Lyra did the work of a worker's last call
    outcome     \* how it ended

NoOutcome == [how |-> "none", took |-> FALSE]

Init == /\ calling = {}
        /\ effects = [c \in Callers |-> 0]
        /\ outcome = [c \in Callers |-> NoOutcome]

Start(c) ==
    /\ c \notin calling
    /\ calling' = calling \cup {c}
    /\ effects' = [effects EXCEPT ![c] = 0]
    /\ outcome' = [outcome EXCEPT ![c] = NoOutcome]

Take(c) ==
    /\ c \in calling /\ effects[c] = 0
    /\ effects' = [effects EXCEPT ![c] = 1]
    /\ UNCHANGED <<calling, outcome>>

End(c) ==
    /\ c \in calling
    /\ calling' = calling \ {c}
    /\ \E call \in Calls :
          /\ call.took = (effects[c] = 1)
          /\ outcome' = [outcome EXCEPT ![c] = call]
    /\ UNCHANGED effects

Next == \E c \in Callers : Start(c) \/ Take(c) \/ End(c)

Spec == Init /\ [][Next]_<<calling, effects, outcome>>

=============================================================================
