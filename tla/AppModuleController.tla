------------------------- MODULE AppModuleController -------------------------
(***************************************************************************)
(* AppModuleReconciler.Reconcile, moduleHandleRevisionChanges and          *)
(* moduleCreateFunction, as the one worker of the AppModule controller     *)
(* runs them, with the AppModule it works on.  objs.module of Cluster      *)
(* says whether the AppModule exists; its other fields are kept here.      *)
(***************************************************************************)
EXTENDS Cluster

CONSTANT MaxModuleEdits     \* bound: user edits of the AppModule

ASSUME ModuleEditsAssumption == MaxModuleEdits \in Nat

VARIABLES
    mod,        \* the AppModule
    modCache,   \* the informer's copy of it
    modQueue,   \* its key in the work queue: now, or later as a delayed retry
    modEdits,   \* how often the user may still edit it
    told,       \* the generation of the AppModule that Lyra was last told of
    functions,  \* the Functions, by the revision id they were created for
    mj          \* the worker's local state

moduleVars == <<mod, modCache, modQueue, modEdits, told, functions>>

\* gen and obs are metadata.generation and status.observedGeneration; origin
\* stands for the annotation origin = "app-deployment".
AppModule == [live : BOOLEAN, gen : Nat, obs : Nat, origin : BOOLEAN, rv : Nat]

NoModule == [live |-> FALSE, gen |-> 0, obs |-> 0, origin |-> FALSE, rv |-> 0]

\* pc     : the step the worker takes next
\* own    : appModule
\* ad     : appDeploy;  id : syncModuleResponse.ModuleRevision.ID
\* listed : the ids in revisionsList;  list : the copies not yet written back,
\* todo   : their ids;  new : newRevision
\* retry  : whether Reconcile will return an error, or panic
ModSteps == {"idle", "clear", "sync", "record", "list", "phase", "create",
             "activate", "prune", "function", "observe"}

ModWorker == [pc : ModSteps, own : AppModule, ad : AppDeployment, id : 0 .. MaxRevs,
              listed : SUBSET RevIds, list : [RevIds -> Revision],
              todo : SUBSET RevIds, new : Revision, retry : BOOLEAN]

ModIdle == [pc |-> "idle", own |-> NoModule, ad |-> NoAppDeployment, id |-> NoRev,
            listed |-> {}, list |-> NoRevisions, todo |-> {}, new |-> NoRevision,
            retry |-> FALSE]

ModuleTypeOK ==
    /\ mod \in AppModule /\ modCache \in AppModule
    /\ modQueue \in [now : BOOLEAN, later : BOOLEAN]
    /\ modEdits \in Nat /\ told \in Nat
    /\ functions \subseteq RevIds
    /\ mj \in ModWorker

ModInit ==
    /\ mod = NoModule /\ modCache = NoModule
    /\ modQueue = [now |-> FALSE, later |-> FALSE]
    /\ modEdits = MaxModuleEdits
    /\ told = 0
    /\ functions = {}
    /\ mj = ModIdle

-----------------------------------------------------------------------------
(* The AppModule in the cluster.                                           *)

\* What Reconcile of the AppDeployment creates: generation 1, told to Lyra by
\* SyncApp.
Created(old) == [live |-> TRUE, gen |-> 1, obs |-> 0, origin |-> TRUE, rv |-> old.rv + 1]

\* The AppModule comes and goes with objs.module.
ModuleFollows ==
    /\ mod' = IF objs'.module = mod.live THEN mod
              ELSE IF mod.live THEN Deleted(mod) ELSE Created(mod)
    /\ told' = IF mod'.live /\ ~mod.live THEN 1 ELSE told
    /\ UNCHANGED <<modCache, modQueue, modEdits, functions, mj>>

EditModule ==
    /\ mod.live
    /\ modEdits > 0
    /\ modEdits' = modEdits - 1
    /\ mod' = [mod EXCEPT !.gen = @ + 1, !.rv = @ + 1]
    /\ UNCHANGED <<modCache, modQueue, told, functions, mj>>

\* A Function's owner is the AppDeployment.
CollectFunctions ==
    /\ ~ad.live /\ functions # {}
    /\ functions' = {}
    /\ UNCHANGED <<mod, modCache, modQueue, modEdits, told, mj>>

\* GenerationChangedPredicate: creations, deletions and changes of the spec.
WatchedModule(old, new) == old.live # new.live \/ old.gen # new.gen

DeliverModule ==
    /\ modCache # mod
    /\ modCache' = mod
    /\ modQueue' = [modQueue EXCEPT !.now = @ \/ WatchedModule(modCache, mod)]
    /\ UNCHANGED <<mod, modEdits, told, functions, mj>>

\* The manager restarts, see Operator.
ModRestart ==
    /\ mj' = ModIdle
    /\ modCache' = mod
    /\ modQueue' = [now |-> mod.live, later |-> FALSE]
    /\ UNCHANGED <<mod, modEdits, told, functions>>

-----------------------------------------------------------------------------
(* Reconcile                                                               *)

\* What the worker still needs once only the deferred update is left.
ModObserving(retry) == [ModIdle EXCEPT !.pc = "observe", !.own = mj.own, !.retry = retry]

\* The worker takes a key, and reads the secret, the AppModule and, unless the
\* AppDeployment controller has just created it, the AppDeployment.
ModBegin ==
    LET own  == modCache
        read == [ModIdle EXCEPT !.own = own]
    IN
    /\ mj.pc = "idle"
    /\ \E when \in {"now", "later"} :
          modQueue[when] /\ modQueue' = [modQueue EXCEPT ![when] = FALSE]
    /\ mj' = IF ~objs.secret \/ ~own.live \/ own.gen = own.obs THEN ModIdle
             ELSE IF own.origin   THEN [read EXCEPT !.pc = "clear"]
             ELSE IF cache.ad.live THEN [read EXCEPT !.pc = "sync", !.ad = cache.ad]
             ELSE [read EXCEPT !.pc = "observe"]
    /\ UNCHANGED <<clusterVars, mod, modCache, modEdits, told, functions>>

\* As AdHeard, for this worker.
ModHeard(done, failed) ==
    \/ mj' = done /\ UNCHANGED budget
    \/ mj' = failed /\ Fault

\* Take the origin annotation off; nothing else is done for this generation.
ModClearOrigin ==
    LET held == [mj.own EXCEPT !.origin = FALSE]
    IN
    /\ mj.pc = "clear"
    /\ \/ /\ Accepts(held, mod)
          /\ mod' = Stored(mod, held)
          /\ ModHeard([ModObserving(FALSE) EXCEPT !.own = mod'],
                      [ModObserving(TRUE) EXCEPT !.own = held])
       \/ /\ Refused(held, mod)
          /\ mj' = [ModObserving(TRUE) EXCEPT !.own = held]
          /\ UNCHANGED mod
    /\ UNCHANGED <<ad, dep, rev, objs, lyra, cache, queue>>
    /\ UNCHANGED <<modCache, modQueue, modEdits, told, functions>>

\* The Lyra service: the revision stays the one named in the request, or a new
\* one is minted.
ModReplies == {lyra.minted + 1} \cup ({mj.ad.cur} \ {NoRev})

\* Which answers change the current revision.
AfterSync(id) ==
    IF id \in {NoRev, mj.ad.cur} THEN ModObserving(FALSE)
    ELSE [mj EXCEPT !.pc = "record", !.id = id]

\* LyraClient.SyncModule: an empty response names no revision.
SyncModule ==
    /\ mj.pc = "sync"
    /\ \E id \in ModReplies \cap RevIds, call \in Calls :     \* the bound MaxRevs
          /\ Asked(call, [lyra EXCEPT !.minted = IF id > @ THEN id ELSE @])
          /\ told' = IF call.took THEN mj.own.gen ELSE told
          /\ mj' = CASE call.how = "answered" -> AfterSync(id)
                     [] call.how = "empty"    -> AfterSync(NoRev)
                     [] OTHER                 -> ModObserving(TRUE)
    /\ UNCHANGED <<ad, dep, rev, objs, cache, queue>>
    /\ UNCHANGED <<mod, modCache, modQueue, modEdits, functions>>

\* Mutant: whatever was stored last counts as observed.
ModObservedLatest == [mod EXCEPT !.obs = mod.gen]

ModObserved == [mj.own EXCEPT !.obs = mj.own.gen]

\* The deferred status update, on every way out but the first returns.  Its
\* error is only printed; the error or panic of Reconcile puts the key back,
\* after a delay.
ModObserve ==
    /\ mj.pc = "observe"
    /\ \/ /\ Accepts(ModObserved, mod)
          /\ mod' = Stored(mod, [mod EXCEPT !.obs = ModObserved.obs])
          /\ UNCHANGED budget
       \/ Refused(ModObserved, mod) /\ UNCHANGED mod
    /\ modQueue' = [modQueue EXCEPT !.later = @ \/ mj.retry]
    /\ mj' = ModIdle
    /\ UNCHANGED <<ad, dep, rev, objs, lyra, cache, queue>>
    /\ UNCHANGED <<modCache, modEdits, told, functions>>

-----------------------------------------------------------------------------
(* moduleHandleRevisionChanges; Reconcile drops its result.                *)

\* Mutant: the update carries no version.
RecordedBlindly == [mj.ad EXCEPT !.cur = mj.id, !.image = Spelling(@), !.rv = ad.rv]

Recorded == [mj.ad EXCEPT !.cur = mj.id, !.image = Spelling(@)]

\* Make the id current in the AppDeployment read before Lyra was called; an
\* error ends the handler.
RecordRevisionId ==
    /\ mj.pc = "record"
    /\ \/ /\ Accepts(Recorded, ad)
          /\ ad' = Stored(ad, Recorded)
          /\ ModHeard([mj EXCEPT !.pc = "list"], ModObserving(FALSE))
       \/ /\ Refused(Recorded, ad)
          /\ mj' = ModObserving(FALSE)
          /\ UNCHANGED ad
    /\ UNCHANGED <<dep, rev, objs, lyra, cache, queue, moduleVars>>

\* List the Revisions of the AppDeployment from the cache.
ModListRevisions ==
    LET listed == LiveIn(cache.rev)
    IN
    /\ mj.pc = "list"
    /\ mj' = [mj EXCEPT !.listed = listed, !.list = cache.rev, !.todo = listed,
                        !.pc = IF listed = {} THEN "create" ELSE "phase"]
    /\ UNCHANGED <<clusterVars, moduleVars>>

\* Mutant: another spelling.
ModRetiredMisspelt(copy) == [copy EXCEPT !.phase = "Nonactive"]

ModRetired(copy) == [copy EXCEPT !.phase = "Non-active"]

\* status.phase = Non-active, and only that; the error is only printed.
ModRetire(r) ==
    LET held == ModRetired(mj.list[r])
        left == mj.todo \ {r}
    IN
    /\ mj.pc = "phase" /\ r \in mj.todo
    /\ \/ /\ Accepts(held, rev[r])
          /\ rev' = [rev EXCEPT ![r] = PutStatus(@, held)]
          /\ UNCHANGED budget
       \/ Refused(held, rev[r]) /\ UNCHANGED rev
    /\ mj' = [mj EXCEPT !.todo = left, !.list[r] = NoRevision,
                        !.pc = IF left = {} THEN "create" ELSE "phase"]
    /\ UNCHANGED <<ad, dep, objs, lyra, cache, queue, moduleVars>>

\* Mutant: the id comes from the spec that was read.
SpecId == mj.ad.cur

NewId == mj.id

\* A Revision without spec.status and without the origin annotation.
ModCreateRevision ==
    LET r   == NewId
        new == [rev[r] EXCEPT !.live = TRUE, !.image = Spelling(mj.ad.image), !.status = "",
                              !.phase = "", !.gen = 1, !.obs = 0, !.origin = FALSE]
    IN
    /\ mj.pc = "create"
    /\ \/ /\ ~rev[r].live
          /\ rev' = [rev EXCEPT ![r] = Stored(@, new)]
          /\ ModHeard([mj EXCEPT !.pc = "activate", !.new = rev'[r]], ModObserving(FALSE))
       \/ /\ (rev[r].live /\ UNCHANGED budget) \/ Fault
          /\ mj' = ModObserving(FALSE)
          /\ UNCHANGED rev
    /\ UNCHANGED <<ad, dep, objs, lyra, cache, queue, moduleVars>>

\* Mutant: off by one.
ModTooManyAfter == Cardinality(mj.listed) > HistoryLimit

ModTooMany == Cardinality(mj.listed) >= HistoryLimit

\* status.phase = Active, from the copy that was created: it conflicts when
\* the Revision controller has seen the new Revision first.
ModActivate ==
    LET held == [mj.new EXCEPT !.phase = "Active"]
        r    == NewId
    IN
    /\ mj.pc = "activate"
    /\ \/ /\ Accepts(held, rev[r])
          /\ rev' = [rev EXCEPT ![r] = PutStatus(@, held)]
          /\ ModHeard(IF ModTooMany THEN [mj EXCEPT !.pc = "prune", !.new = NoRevision]
                      ELSE ModObserving(FALSE),
                      ModObserving(FALSE))
       \/ /\ Refused(held, rev[r])
          /\ mj' = ModObserving(FALSE)
          /\ UNCHANGED rev
    /\ UNCHANGED <<ad, dep, objs, lyra, cache, queue, moduleVars>>

\* Delete the oldest Revision of the list; the error is only printed.
ModPrune ==
    LET oldest == CHOOSE r \in mj.listed : \A s \in mj.listed : r <= s
    IN
    /\ mj.pc = "prune"
    /\ \/ /\ rev[oldest].live
          /\ rev' = [rev EXCEPT ![oldest] = Deleted(@)]
          /\ UNCHANGED budget
       \/ /\ (~rev[oldest].live /\ UNCHANGED budget) \/ Fault
          /\ UNCHANGED rev
    /\ mj' = [mj EXCEPT !.pc = "function"]
    /\ UNCHANGED <<ad, dep, objs, lyra, cache, queue, moduleVars>>

\* moduleCreateFunction, reached from here only: an empty current id always
\* differs from the id Lyra answered.
CreateFunction ==
    /\ mj.pc = "function"
    /\ \/ functions' = functions \cup {mj.id} /\ UNCHANGED budget
       \/ Fault /\ UNCHANGED functions
    /\ mj' = ModObserving(FALSE)
    /\ UNCHANGED <<ad, dep, rev, objs, lyra, cache, queue>>
    /\ UNCHANGED <<mod, modCache, modQueue, modEdits, told>>

ModStep ==
    \/ ModBegin
    \/ ModClearOrigin
    \/ SyncModule
    \/ RecordRevisionId
    \/ ModListRevisions
    \/ \E r \in RevIds : ModRetire(r)
    \/ ModCreateRevision
    \/ ModActivate
    \/ ModPrune
    \/ CreateFunction
    \/ ModObserve

=============================================================================
