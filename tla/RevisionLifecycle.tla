------------------------- MODULE RevisionLifecycle -------------------------
(***************************************************************************)
(* What the operator promises about each Revision, whichever of its        *)
(* controllers acts on it: it is created once, in service or bare of any   *)
(* status; it may be retired, and only the user puts it in service after   *)
(* that; it is deleted for good; and Lyra is told to forget it only then.  *)
(***************************************************************************)
EXTENDS Naturals

CONSTANTS RevIds, MaxSwitches

VARIABLES stage,     \* the stage of every Revision
          switches   \* activations the user may still make

Living == {"serving", "bare", "retired"}
Stages == Living \cup {"unborn", "gone", "forgotten"}

\* Some Revisions may be there from earlier rollouts.
Init == /\ stage \in [RevIds -> {"unborn", "serving", "retired"}]
        /\ switches = MaxSwitches

Move(r, from, to) == stage[r] \in from /\ stage' = [stage EXCEPT ![r] = to]

Create(r) == /\ Move(r, {"unborn"}, "serving") \/ Move(r, {"unborn"}, "bare")
             /\ UNCHANGED switches
Retire(r) == Move(r, {"serving", "bare"}, "retired") /\ UNCHANGED switches
Delete(r) == Move(r, Living, "gone") /\ UNCHANGED switches
Forget(r) == Move(r, {"gone"}, "forgotten") /\ UNCHANGED switches

\* The user's privilege.
Reactivate(r) == /\ switches > 0
                 /\ switches' = switches - 1
                 /\ Move(r, {"bare", "retired"}, "serving")

Next == \E r \in RevIds :
            Create(r) \/ Retire(r) \/ Delete(r) \/ Forget(r) \/ Reactivate(r)

Spec == Init /\ [][Next]_<<stage, switches>>

=============================================================================
