---------------------------- MODULE ModuleOperator ----------------------------
(***************************************************************************)
(* The operator with its third working controller: AppModules next to      *)
(* AppDeployments and Revisions, and a user who edits them.  It is the     *)
(* third writer of the AppDeployment and of the Revisions.                 *)
(***************************************************************************)
EXTENDS Operator, AppModuleController

modVars == <<vars, moduleVars, mj>>

ModuleInit == Init /\ ModInit

ModuleNext ==
    \/ Step /\ ModuleFollows
    \/ Restart /\ ModRestart
    \/ ModStep /\ UNCHANGED <<aj, rj>>
    \/ (EditModule \/ CollectFunctions \/ DeliverModule) /\ UNCHANGED vars

\* What runs on its own: the three workers, the informers' watches and the
\* garbage collector.
Movers == {"AppDeployment", "Revision", "AppModule", "watch", "collector", "module"}
Turn(who) ==
    CASE who = "AppDeployment" -> AdStep /\ UNCHANGED rj /\ ModuleFollows
      [] who = "Revision"      -> RevStep /\ UNCHANGED aj /\ ModuleFollows
      [] who = "AppModule"     -> ModStep /\ UNCHANGED <<aj, rj>>
      [] who = "watch"         -> Deliver /\ UNCHANGED <<aj, rj>> /\ ModuleFollows
      [] who = "collector"     -> Collect /\ UNCHANGED <<aj, rj>> /\ ModuleFollows
      [] who = "module"        -> (CollectFunctions \/ DeliverModule) /\ UNCHANGED vars

\* As in Operator, for each of them.
ModuleFairness == \A who \in Movers : WF_modVars(Turn(who))

ModuleSpec == ModuleInit /\ [][ModuleNext]_modVars
ModuleFairSpec == ModuleSpec /\ ModuleFairness

-----------------------------------------------------------------------------
(* What is claimed.                                                        *)

ThreeTypeOK == TypeOK /\ ModuleTypeOK /\ mod.live = objs.module

\* Nothing is left to do for anybody but the user.
AllQuiescent ==
    /\ Quiescent
    /\ mj.pc = "idle" /\ ~modQueue.now /\ ~modQueue.later /\ modCache = mod

\* Where no call fails, the AppDeployment exists and its controller's origin
\* annotation is off, every edit of the AppModule is observed and told to Lyra,
\* the ones made while an earlier one is being worked on included.
ModuleEditsArrive ==
    Unfailed /\ AllQuiescent /\ ad.live /\ mod.live => mod.obs = mod.gen /\ told = mod.gen

\* As long as only the AppModule is edited, the revision the AppDeployment
\* names exists, although it is named before it is created and old Revisions
\* are deleted from lists that may be old themselves.
CurrentExists ==
    AllQuiescent /\ Undisturbed /\ budget.edits = MaxEdits =>
        ad.cur # NoRev /\ rev[ad.cur].live

\* The image of the AppDeployment changes by the user's hand only, with three
\* controllers that write it back.
NoEditLostToModule == [][UserEditKept]_modVars

\* The controllers react to each other's writes, and to their own: a rollout
\* changes all that they watch.  Once the user, failures and restarts leave them
\* alone they come to rest.
AllConverge == <>[]AllQuiescent

\* Where no call fails and the operator is not restarted, Lyra is told of the
\* deletion of exactly the Revisions that are gone, once their controller is at
\* rest: the ones deleted as the oldest, the ones collected with their
\* AppDeployment, and the ones the AppModule controller, still at work for it,
\* creates after its deletion.
RevisionsForgotten ==
    Unfailed /\ budget.restarts = MaxRestarts
    /\ rj.pc = "idle" /\ queue.rev = {} /\ cache.rev = rev =>
        lyra.forgotten = {r \in RevIds : rev[r].rv > 0 /\ ~rev[r].live}

=============================================================================
