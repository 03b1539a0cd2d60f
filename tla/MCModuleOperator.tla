-------------------------- MODULE MCModuleOperator --------------------------
(***************************************************************************)
(* ModuleOperator as TLC checks it, after a first rollout that went well,  *)
(* with the AppModule taken over by its controller, or not yet.            *)
(***************************************************************************)
EXTENDS MCOperator, ModuleOperator

Claimed == [live |-> TRUE, gen |-> 1, obs |-> 1, origin |-> FALSE, rv |-> 1]

\* Its controller has not seen the AppModule yet.
Unclaimed == [Claimed EXCEPT !.obs = 0, !.origin = TRUE]

ModuleStart(m, copy, edits) ==
    /\ mod = m /\ modCache = copy
    /\ modQueue = [now |-> FALSE, later |-> FALSE]
    /\ modEdits = edits
    /\ told = 1
    /\ functions = {}
    /\ mj = ModIdle
    /\ AdInit /\ RevInit

\* The situation after a first rollout only, which Spec reaches (but for the
\* resource versions).
FirstRolledOut ==
    /\ ad = [live |-> TRUE, image |-> First, cur |-> 1, marker |-> FALSE, rv |-> 1]
    /\ dep = [live |-> TRUE, image |-> First, rv |-> 1]
    /\ rev = [NoRevisions EXCEPT
                ![1] = [live |-> TRUE, image |-> First, status |-> "Active",
                        phase |-> "Active", gen |-> 1, obs |-> 1,
                        origin |-> FALSE, rv |-> 1]]
    /\ objs = [module |-> TRUE, subdomain |-> TRUE, service |-> TRUE, secret |-> TRUE]
    /\ lyra = [minted |-> 1, active |-> 1, app |-> TRUE, forgotten |-> {}]
    /\ cache = [ad |-> ad, dep |-> dep, rev |-> rev]
    /\ queue = [ad |-> FALSE, rev |-> {}]

ClaimedInit == FirstRolledOut /\ ModuleStart(Claimed, Claimed, MaxModuleEdits) /\ budget = FullBudget

\* Bound: what is not taken over yet is not edited (an edit before that goes
\* unnoticed, and one after it is an edit of what was taken over).
UnclaimedInit == FirstRolledOut /\ ModuleStart(Unclaimed, NoModule, 0) /\ budget = FullBudget

\* Bound: an edit of the AppDeployment or of the AppModule, and a failed call or
\* a restart.
UpsetInit ==
    /\ FirstRolledOut
    /\ \E edits \in {0, MaxEdits}, faults \in {0, MaxFaults} :
          /\ ModuleStart(Claimed, Claimed, IF edits = 0 THEN MaxModuleEdits ELSE 0)
          /\ budget = [FullBudget EXCEPT !.edits = edits, !.faults = faults,
                                        !.restarts = IF faults = 0 THEN @ ELSE 0]

ClaimedSpec    == ClaimedInit /\ [][ModuleNext]_modVars
EitherSpec     == (ClaimedInit \/ UnclaimedInit) /\ [][ModuleNext]_modVars

\* Bound: as FewBehind.
ModuleLag == LET late == mod.rv - modCache.rv
             IN  InformerLag /\ late <= 1 /\ Behind + late <= 2

\* Bound: a step that would leave the informers further behind waits for them.
\* A liveness run states this in its steps: a constraint would cut off their ends.
InTime(step) == step /\ ModuleLag'

UpsetSpec ==
    /\ UpsetInit /\ [][InTime(ModuleNext)]_modVars
    /\ \A who \in Movers : WF_modVars(InTime(Turn(who)))

\* Bound: an id for each edit of the AppModule, but only one new id next to an
\* edit of the AppDeployment.
FewIds == budget.edits = MaxEdits \/ lyra.minted <= 2

\* Bound: a restart or resync goes with one edit of the AppModule, and none of
\* the AppDeployment.
FewEdits == budget.restarts = MaxRestarts \/ (budget.edits = MaxEdits /\ modEdits > 0)

\* The view of MCOperator, and the same for what the third worker holds.
ModuleView ==
    <<View, Aged(mod, mod), Aged(modCache, mod), modQueue, modEdits, told, functions,
      [mj EXCEPT !.own = Aged(@, mod),
                 !.ad = Aged(@, ad),
                 !.list = Listed(@),
                 !.new = IF mj.pc = "activate" THEN ToWrite(@, rev[mj.id], NoRevision)
                         ELSE NoRevision]>>

=============================================================================
