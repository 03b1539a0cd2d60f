----------------------------- MODULE ModuleProofs -----------------------------
(***************************************************************************)
(* Theorems about ModuleOperator, for any number of images, revisions,     *)
(* edits, failures and restarts: with the AppModule controller, too, every *)
(* variable keeps its type, and no write of the AppDeployment brings an    *)
(* image back that the user has replaced.                                  *)
(***************************************************************************)
EXTENDS ModuleOperator, OperatorProofs

\* The worker only writes back an AppModule that it found, and only makes a
\* Revision for an id.
OwnKnown == mj.pc = "clear" => mj.own.live
IdKnown  == mj.pc \in {"record", "list", "phase", "create", "activate", "prune", "function"}
               => mj.id \in RevIds

ThreeTyped == ThreeTypeOK /\ KeyKnown /\ OwnKnown /\ IdKnown

-----------------------------------------------------------------------------
(* Types.                                                                  *)

LEMMA NoModuleTyped == NoModule \in AppModule /\ ModIdle \in ModWorker
<1>1. NoModule \in AppModule
  BY DEF NoModule, AppModule
<1>2. ModIdle \in ModWorker
  BY <1>1, NothingTyped, RevsAssumption DEF ModIdle, ModWorker, ModSteps, NoRev
<1> QED  BY <1>1, <1>2

LEMMA StoredModule ==
    ASSUME NEW old \in AppModule, NEW new \in AppModule, new.live
    PROVE  Stored(old, new) \in AppModule /\ Stored(old, new).live
BY DEF Stored, AppModule

LEMMA ModObservingTyped ==
    ASSUME mj \in ModWorker, NEW retry \in BOOLEAN, NEW own \in AppModule
    PROVE  /\ ModObserving(retry) \in ModWorker
           /\ ModObserving(retry).pc = "observe"
           /\ [ModObserving(retry) EXCEPT !.own = own] \in ModWorker
           /\ [ModObserving(retry) EXCEPT !.own = own].pc = "observe"
BY NoModuleTyped DEF ModObserving, ModWorker, ModSteps

LEMMA ModHeardTyped ==
    ASSUME budget \in Budget, NEW done \in ModWorker, NEW failed \in ModWorker,
           ModHeard(done, failed)
    PROVE  mj' \in {done, failed} /\ mj' \in ModWorker /\ budget' \in Budget
BY FaultTyped DEF ModHeard

LEMMA ModuleInitTyped == ModuleInit => ThreeTyped
<1> SUFFICES ASSUME ModuleInit PROVE ThreeTyped
  OBVIOUS
<1>1. Typed
  BY InitTyped DEF ModuleInit
<1>2. ModuleTypeOK /\ OwnKnown /\ IdKnown
  BY NoModuleTyped, ModuleEditsAssumption
     DEF ModuleInit, ModInit, ModuleTypeOK, OwnKnown, IdKnown, ModIdle
<1>3. mod.live = objs.module
  BY DEF ModuleInit, ModInit, Init, ClusterInit, NoModule
<1> QED  BY <1>1, <1>2, <1>3 DEF ThreeTyped, ThreeTypeOK, Typed

\* The AppModule follows the steps of Operator.
LEMMA FollowsTyped ==
    ASSUME ThreeTyped, Typed', ModuleFollows
    PROVE  ThreeTyped'
<1> USE DEF ThreeTyped, ThreeTypeOK, ModuleTypeOK
<1>1. mod \in AppModule /\ objs'.module \in BOOLEAN
  BY DEF Typed, TypeOK, ClusterTypeOK, Objects
<1>2. mod' \in AppModule /\ mod'.live = objs'.module
  <2>1. mod.rv + 1 \in Nat /\ mod.live \in BOOLEAN
    BY <1>1 DEF AppModule
  <2>2. Deleted(mod) \in AppModule /\ Deleted(mod).live = FALSE
    BY <1>1, <2>1 DEF Deleted, AppModule
  <2>3. Created(mod) \in AppModule /\ Created(mod).live = TRUE
    BY <1>1, <2>1 DEF Created, AppModule
  <2>4. CASE objs'.module = mod.live
    BY <1>1, <2>4 DEF ModuleFollows
  <2>5. CASE objs'.module # mod.live /\ mod.live
    <3>1. objs'.module = FALSE
      BY Zenon, <1>1, <2>1, <2>5
    <3> QED  BY <2>2, <2>5, <3>1 DEF ModuleFollows
  <2>6. CASE objs'.module # mod.live /\ ~mod.live
    <3>1. objs'.module = TRUE
      BY Zenon, <1>1, <2>1, <2>6
    <3> QED  BY <2>3, <2>6, <3>1 DEF ModuleFollows
  <2> QED  BY <2>4, <2>5, <2>6
<1>3. told' \in Nat
  BY DEF ModuleFollows
<1>4. UNCHANGED <<modCache, modQueue, modEdits, functions, mj>>
  BY DEF ModuleFollows
<1> QED  BY <1>2, <1>3, <1>4 DEF Typed, OwnKnown, IdKnown

\* The user, the garbage collector and the informer of AppModules.
LEMMA ModuleEventsTyped ==
    ASSUME ThreeTyped, EditModule \/ CollectFunctions \/ DeliverModule, UNCHANGED vars
    PROVE  ThreeTyped'
<1> USE DEF ThreeTyped, ThreeTypeOK, ModuleTypeOK
<1>1. Typed'
  BY NextTyped DEF Typed
<1>2. CASE EditModule
  <2>1. mod' \in AppModule /\ mod'.live = mod.live
    <3>1. mod.gen + 1 \in Nat /\ mod.rv + 1 \in Nat
      BY DEF AppModule
    <3> QED  BY <1>2, <3>1 DEF EditModule, AppModule
  <2>2. modEdits' \in Nat
    BY <1>2 DEF EditModule
  <2> QED  BY <1>1, <1>2, <2>1, <2>2 DEF EditModule, vars, Typed, OwnKnown, IdKnown
<1>3. CASE CollectFunctions
  BY <1>1, <1>3 DEF CollectFunctions, vars, Typed, OwnKnown, IdKnown
<1>4. CASE DeliverModule
  <2>1. modQueue' \in [now : BOOLEAN, later : BOOLEAN]
    BY <1>4 DEF DeliverModule, WatchedModule
  <2> QED  BY <1>1, <1>4, <2>1 DEF DeliverModule, vars, Typed, OwnKnown, IdKnown
<1> QED  BY <1>2, <1>3, <1>4

LEMMA ModRestartTyped ==
    ASSUME ThreeTyped, Restart, ModRestart
    PROVE  ThreeTyped'
<1> USE DEF ThreeTyped, ThreeTypeOK, ModuleTypeOK
<1>1. Typed'
  BY RestartTyped DEF Typed
<1>2. modQueue' \in [now : BOOLEAN, later : BOOLEAN]
  BY DEF ModRestart, AppModule
<1>3. OwnKnown' /\ IdKnown'
  BY DEF ModRestart, ModIdle, OwnKnown, IdKnown
<1> QED  BY <1>1, <1>2, <1>3, NoModuleTyped DEF ModRestart, Restart, Typed

\* What each step of the AppModule worker has to show.
LEMMA ModStepParts ==
    ASSUME ThreeTyped, UNCHANGED <<dep, objs, cache, queue, aj, rj>>,
           ad' \in AppDeployment, rev' \in [RevIds -> Revision],
           lyra' \in LyraState, budget' \in Budget,
           mod' \in AppModule, mod'.live = mod.live,
           modQueue' \in [now : BOOLEAN, later : BOOLEAN],
           UNCHANGED <<modCache, modEdits>>,
           told' \in Nat, functions' \subseteq RevIds,
           mj' \in ModWorker, OwnKnown', IdKnown'
    PROVE  ThreeTyped'
BY DEF ThreeTyped, ThreeTypeOK, ModuleTypeOK, TypeOK, ClusterTypeOK, KeyKnown

LEMMA ModReconcileTyped ==
    ASSUME ThreeTyped, UNCHANGED <<aj, rj>>,
           ModBegin \/ ModClearOrigin \/ SyncModule \/ ModObserve
    PROVE  ThreeTyped'
<1> USE DEF ThreeTyped, ThreeTypeOK, ModuleTypeOK, TypeOK, ClusterTypeOK
<1>0. mj \in ModWorker /\ mj.own \in AppModule /\ mod \in AppModule
  BY DEF ModWorker
<1>1. CASE ModBegin
  <2>1. modQueue' \in [now : BOOLEAN, later : BOOLEAN]
    BY <1>1 DEF ModBegin
  <2>2. mj' \in ModWorker /\ OwnKnown' /\ IdKnown'
    <3>1. modCache \in AppModule /\ cache.ad \in AppDeployment
      BY DEF Cache
    <3>2. mj' \in {ModIdle,
                   [[ModIdle EXCEPT !.own = modCache] EXCEPT !.pc = "clear"],
                   [[ModIdle EXCEPT !.own = modCache] EXCEPT !.pc = "sync", !.ad = cache.ad],
                   [[ModIdle EXCEPT !.own = modCache] EXCEPT !.pc = "observe"]}
      BY <1>1 DEF ModBegin
    <3>3. mj' \in ModWorker
      BY ZenonT(60), <3>1, <3>2, NoModuleTyped DEF ModWorker, ModSteps
    <3>5. mj'.pc \in {"idle", "clear", "sync", "observe"}
      BY <1>1, NoModuleTyped DEF ModBegin, ModWorker, ModIdle
    <3>4. mj'.pc = "clear" => mj'.own.live
      BY <1>1, NoModuleTyped DEF ModBegin, ModWorker, ModIdle
    <3> QED  BY <3>3, <3>4, <3>5 DEF OwnKnown, IdKnown
  <2>3. UNCHANGED <<clusterVars, mod, modCache, modEdits, told, functions>>
    BY <1>1 DEF ModBegin
  <2> QED  BY <2>1, <2>2, <2>3, ModStepParts DEF clusterVars
<1>2. CASE ModClearOrigin
  <2> DEFINE held == [mj.own EXCEPT !.origin = FALSE]
  <2>1. held \in AppModule /\ held.live
    BY <1>0, <1>2 DEF ModClearOrigin, AppModule, OwnKnown
  <2> HIDE DEF held
  <2>2. mod' \in AppModule /\ mod'.live = mod.live
    <3>1. mod' = mod \/ (Accepts(held, mod) /\ mod' = Stored(mod, held))
      BY <1>2 DEF ModClearOrigin, held
    <3>2. CASE Accepts(held, mod) /\ mod' = Stored(mod, held)
      <4>1. mod' \in AppModule /\ mod'.live /\ mod.live
        BY <1>0, <2>1, <3>2, StoredModule DEF Accepts
      <4> QED  BY Zenon, <1>0, <4>1 DEF AppModule
    <3> QED  BY <1>0, <3>1, <3>2
  <2>3. mj' \in ModWorker /\ budget' \in Budget /\ mj'.pc = "observe"
    <3>1. \/ ModHeard([ModObserving(FALSE) EXCEPT !.own = mod'],
                      [ModObserving(TRUE) EXCEPT !.own = held])
          \/ Refused(held, mod) /\ mj' = [ModObserving(TRUE) EXCEPT !.own = held]
      BY <1>2 DEF ModClearOrigin, held
    <3>2. /\ [ModObserving(FALSE) EXCEPT !.own = mod'] \in ModWorker
          /\ [ModObserving(FALSE) EXCEPT !.own = mod'].pc = "observe"
          /\ [ModObserving(TRUE) EXCEPT !.own = held] \in ModWorker
          /\ [ModObserving(TRUE) EXCEPT !.own = held].pc = "observe"
      BY <1>0, <2>1, <2>2, ModObservingTyped
    <3>3. CASE ModHeard([ModObserving(FALSE) EXCEPT !.own = mod'],
                        [ModObserving(TRUE) EXCEPT !.own = held])
      <4>1. /\ mj' \in {[ModObserving(FALSE) EXCEPT !.own = mod'],
                        [ModObserving(TRUE) EXCEPT !.own = held]}
            /\ mj' \in ModWorker /\ budget' \in Budget
        BY <3>2, <3>3, ModHeardTyped
      <4> QED  BY <3>2, <4>1
    <3>4. CASE Refused(held, mod) /\ mj' = [ModObserving(TRUE) EXCEPT !.own = held]
      BY <3>2, <3>4, RefusedTyped
    <3> QED  BY <3>1, <3>3, <3>4
  <2>4. OwnKnown' /\ IdKnown'
    BY <2>3 DEF OwnKnown, IdKnown
  <2> QED  BY <1>2, <2>2, <2>3, <2>4, ModStepParts DEF ModClearOrigin
<1>3. CASE SyncModule
  <2>1. PICK id \in ModReplies \cap RevIds, call \in Calls :
            /\ Asked(call, [lyra EXCEPT !.minted = IF id > @ THEN id ELSE @])
            /\ told' = IF call.took THEN mj.own.gen ELSE told
            /\ mj' \in {AfterSync(id), AfterSync(NoRev), ModObserving(TRUE)}
    BY <1>3 DEF SyncModule
  <2>2. id \in RevIds /\ id \in 0 .. MaxRevs
    BY RevsAssumption DEF RevIds
  <2>3. [lyra EXCEPT !.minted = IF id > @ THEN id ELSE @] \in LyraState
    BY <2>2 DEF LyraState
  <2>4. lyra' \in LyraState /\ budget' \in Budget
    BY <2>1, <2>3, AskedTyped
  <2>5. told' \in Nat
    BY <1>0, <2>1 DEF AppModule
  <2>6. [mj EXCEPT !.pc = "record", !.id = id] \in ModWorker
    BY <1>0, <2>2 DEF ModWorker, ModSteps
  <2>7. mj' \in {[mj EXCEPT !.pc = "record", !.id = id], ModObserving(FALSE),
                 ModObserving(TRUE)}
    BY <2>1 DEF AfterSync
  <2>8. mj' \in ModWorker /\ OwnKnown' /\ IdKnown'
    <3>1. CASE mj' = [mj EXCEPT !.pc = "record", !.id = id]
      <4>1. mj'.pc = "record" /\ mj'.id = id
        BY <1>0, <3>1 DEF ModWorker
      <4> QED  BY <2>2, <2>6, <3>1, <4>1 DEF OwnKnown, IdKnown
    <3>2. CASE mj' \in {ModObserving(FALSE), ModObserving(TRUE)}
      <4>1. mj' \in ModWorker /\ mj'.pc = "observe"
        BY <1>0, <3>2, ModObservingTyped
      <4> QED  BY <4>1 DEF OwnKnown, IdKnown
    <3> QED  BY <2>7, <3>1, <3>2
  <2> QED  BY <1>3, <2>4, <2>5, <2>8, ModStepParts DEF SyncModule
<1>4. CASE ModObserve
  <2>1. ModObserved.obs \in Nat
    BY <1>0 DEF ModObserved, AppModule
  <2>2. [mod EXCEPT !.obs = ModObserved.obs] \in AppModule
        /\ [mod EXCEPT !.obs = ModObserved.obs].live = mod.live
    BY <1>0, <2>1 DEF AppModule
  <2>3. mod' \in AppModule /\ mod'.live = mod.live
    <3>1. \/ mod' = mod
          \/ mod.live /\ mod' = Stored(mod, [mod EXCEPT !.obs = ModObserved.obs])
      BY <1>4 DEF ModObserve, Accepts
    <3> QED  BY <1>0, <2>2, <3>1, StoredModule
  <2>4. modQueue' \in [now : BOOLEAN, later : BOOLEAN]
    BY <1>0, <1>4 DEF ModObserve, ModWorker
  <2>5. budget' \in Budget
    BY <1>4, RefusedTyped DEF ModObserve
  <2>6. mj' \in ModWorker /\ OwnKnown' /\ IdKnown'
    BY <1>4, NoModuleTyped DEF ModObserve, ModIdle, OwnKnown, IdKnown
  <2> QED  BY <1>4, <2>3, <2>4, <2>5, <2>6, ModStepParts DEF ModObserve
<1> QED  BY <1>1, <1>2, <1>3, <1>4

LEMMA ModHandleRevisionChangesTyped ==
    ASSUME ThreeTyped, UNCHANGED <<aj, rj>>,
           \/ RecordRevisionId \/ ModListRevisions \/ \E r \in RevIds : ModRetire(r)
           \/ ModCreateRevision \/ ModActivate \/ ModPrune \/ CreateFunction
    PROVE  ThreeTyped'
<1> USE DEF ThreeTyped, ThreeTypeOK, ModuleTypeOK, TypeOK, ClusterTypeOK
<1>0. /\ mj \in ModWorker /\ mj.ad \in AppDeployment /\ mj.new \in Revision
      /\ mj.own \in AppModule /\ \A r \in RevIds : mj.list[r] \in Revision
  BY DEF ModWorker
<1>1. CASE RecordRevisionId
  <2>1. Recorded \in AppDeployment
    BY <1>0, SpellingTyped DEF Recorded, ModWorker, AppDeployment
  <2>2. ad' \in AppDeployment
    BY <1>1, <2>1, StoredAppDeployment DEF RecordRevisionId
  <2>3. /\ [mj EXCEPT !.pc = "list"] \in ModWorker
        /\ [mj EXCEPT !.pc = "list"].pc = "list" /\ [mj EXCEPT !.pc = "list"].id = mj.id
    BY <1>0 DEF ModWorker, ModSteps
  <2>4. /\ mj' \in {[mj EXCEPT !.pc = "list"], ModObserving(FALSE)}
        /\ budget' \in Budget
    BY <1>0, <1>1, <2>3, ModObservingTyped, ModHeardTyped, RefusedTyped DEF RecordRevisionId
  <2>5. mj' \in ModWorker /\ OwnKnown' /\ IdKnown'
    BY <1>0, <1>1, <2>3, <2>4, ModObservingTyped DEF RecordRevisionId, OwnKnown, IdKnown
  <2> QED  BY <1>1, <2>2, <2>4, <2>5, ModStepParts DEF RecordRevisionId, moduleVars
<1>2. CASE ModListRevisions
  <2>1. mj' \in ModWorker /\ mj'.id = mj.id /\ mj'.pc \in {"create", "phase"}
    BY <1>0, <1>2 DEF ModListRevisions, ModWorker, ModSteps, Cache, LiveIn
  <2>2. OwnKnown' /\ IdKnown'
    BY <1>2, <2>1 DEF ModListRevisions, OwnKnown, IdKnown
  <2> QED  BY <1>2, <2>1, <2>2, ModStepParts DEF ModListRevisions, clusterVars, moduleVars
<1>3. CASE \E r \in RevIds : ModRetire(r)
  <2>1. PICK r \in RevIds : ModRetire(r)
    BY <1>3
  <2> DEFINE held == ModRetired(mj.list[r])
  <2>2. PutStatus(rev[r], held) \in Revision
    <3>1. mj.list[r] \in Revision
      BY <1>0 DEF ModWorker
    <3>2. held \in Revision
      BY <3>1 DEF ModRetired, Revision, Status
    <3> QED  BY <1>0, <3>2, PutStatusRevision
  <2>3. rev' \in [RevIds -> Revision]
    BY <2>1, <2>2 DEF ModRetire
  <2>4. mj' \in ModWorker /\ mj'.id = mj.id /\ mj'.pc \in {"create", "phase"}
    BY <1>0, <2>1, NothingTyped DEF ModRetire, ModWorker, ModSteps
  <2>5. OwnKnown' /\ IdKnown'
    BY <2>1, <2>4 DEF ModRetire, OwnKnown, IdKnown
  <2>6. budget' \in Budget
    BY <2>1, RefusedTyped DEF ModRetire
  <2> QED  BY <2>1, <2>3, <2>4, <2>5, <2>6, ModStepParts DEF ModRetire, moduleVars
<1>4. CASE ModCreateRevision
  <2> DEFINE new == [rev[mj.id] EXCEPT
                        !.live = TRUE, !.image = Spelling(mj.ad.image), !.status = "",
                        !.phase = "", !.gen = 1, !.obs = 0, !.origin = FALSE]
  <2>1. mj.id \in RevIds /\ mj.pc = "create"
    BY <1>4 DEF ModCreateRevision, IdKnown
  <2>2. new \in Revision
    <3>1. Spelling(mj.ad.image) \in OptImage
      BY <1>0, SpellingTyped DEF AppDeployment
    <3>2. rev[mj.id] \in Revision
      BY <2>1
    <3> QED  BY <3>1, <3>2 DEF Revision, Status
  <2> HIDE DEF new
  <2>3. Stored(rev[mj.id], new) \in Revision
    BY <2>1, <2>2, StoredRevision
  <2>4. rev' = rev \/ rev' = [rev EXCEPT ![mj.id] = Stored(rev[mj.id], new)]
    BY <1>4 DEF ModCreateRevision, NewId, new
  <2>5. rev' \in [RevIds -> Revision] /\ rev'[mj.id] \in Revision
    BY <2>1, <2>3, <2>4
  <2>6. /\ [mj EXCEPT !.pc = "activate", !.new = rev'[mj.id]] \in ModWorker
        /\ [mj EXCEPT !.pc = "activate", !.new = rev'[mj.id]].id = mj.id
        /\ [mj EXCEPT !.pc = "activate", !.new = rev'[mj.id]].pc = "activate"
    BY <1>0, <2>5 DEF ModWorker, ModSteps
  <2>7. /\ mj' \in {[mj EXCEPT !.pc = "activate", !.new = rev'[mj.id]], ModObserving(FALSE)}
        /\ budget' \in Budget
    <3>1. \/ ModHeard([mj EXCEPT !.pc = "activate", !.new = rev'[mj.id]], ModObserving(FALSE))
          \/ (UNCHANGED budget \/ Fault) /\ mj' = ModObserving(FALSE)
      BY <1>4 DEF ModCreateRevision, NewId
    <3> QED  BY <1>0, <2>6, <3>1, ModObservingTyped, ModHeardTyped, FaultTyped
  <2>8. mj' \in ModWorker /\ OwnKnown' /\ IdKnown'
    BY <1>0, <2>1, <2>6, <2>7, ModObservingTyped DEF OwnKnown, IdKnown
  <2> QED  BY <1>4, <2>5, <2>7, <2>8, ModStepParts DEF ModCreateRevision, moduleVars
<1>5. CASE ModActivate
  <2> DEFINE held == [mj.new EXCEPT !.phase = "Active"]
  <2>1. mj.id \in RevIds
    BY <1>5 DEF ModActivate, IdKnown
  <2>2. PutStatus(rev[mj.id], held) \in Revision
    <3>1. mj.new \in Revision
      BY <1>0 DEF ModWorker
    <3>2. held \in Revision
      BY <3>1 DEF Revision, Status
    <3> QED  BY <1>0, <2>1, <3>2, PutStatusRevision
  <2>3. rev' \in [RevIds -> Revision]
    BY <1>5, <2>2 DEF ModActivate, NewId
  <2>4. /\ [mj EXCEPT !.pc = "prune", !.new = NoRevision] \in ModWorker
        /\ [mj EXCEPT !.pc = "prune", !.new = NoRevision].id = mj.id
        /\ [mj EXCEPT !.pc = "prune", !.new = NoRevision].pc = "prune"
    BY <1>0, NothingTyped DEF ModWorker, ModSteps
  <2>5. /\ mj' \in {[mj EXCEPT !.pc = "prune", !.new = NoRevision], ModObserving(FALSE)}
        /\ budget' \in Budget
    <3>1. \/ ModHeard(IF ModTooMany THEN [mj EXCEPT !.pc = "prune", !.new = NoRevision]
                      ELSE ModObserving(FALSE), ModObserving(FALSE))
          \/ Refused(held, rev[mj.id]) /\ mj' = ModObserving(FALSE)
      BY <1>5 DEF ModActivate, NewId
    <3> QED  BY <1>0, <2>4, <3>1, ModObservingTyped, ModHeardTyped, RefusedTyped
  <2>6. mj' \in ModWorker /\ OwnKnown' /\ IdKnown'
    BY <1>0, <2>1, <2>4, <2>5, ModObservingTyped DEF OwnKnown, IdKnown
  <2> QED  BY <1>5, <2>3, <2>5, <2>6, ModStepParts DEF ModActivate, moduleVars
<1>6. CASE ModPrune
  <2>1. \E r : rev' = rev \/ rev' = [rev EXCEPT ![r] = Deleted(rev[r])]
    BY <1>6 DEF ModPrune
  <2>2. rev' \in [RevIds -> Revision]
    BY <2>1, DeletedRevision
  <2>3. mj' \in ModWorker /\ mj'.id = mj.id /\ mj'.pc = "function"
    BY <1>0, <1>6 DEF ModPrune, ModWorker, ModSteps
  <2>4. OwnKnown' /\ IdKnown'
    BY <1>6, <2>3 DEF ModPrune, OwnKnown, IdKnown
  <2>5. budget' \in Budget
    BY <1>6, FaultTyped DEF ModPrune
  <2> QED  BY <1>6, <2>2, <2>3, <2>4, <2>5, ModStepParts DEF ModPrune, moduleVars
<1>7. CASE CreateFunction
  <2>1. functions' \subseteq RevIds
    BY <1>7 DEF CreateFunction, IdKnown
  <2>2. mj' \in ModWorker /\ OwnKnown' /\ IdKnown'
    BY <1>0, <1>7, ModObservingTyped DEF CreateFunction, OwnKnown, IdKnown
  <2>3. budget' \in Budget
    BY <1>7, FaultTyped DEF CreateFunction
  <2> QED  BY <1>7, <2>1, <2>2, <2>3, ModStepParts DEF CreateFunction
<1> QED  BY <1>1, <1>2, <1>3, <1>4, <1>5, <1>6, <1>7

LEMMA ModuleNextTyped == ThreeTyped /\ [ModuleNext]_modVars => ThreeTyped'
<1> SUFFICES ASSUME ThreeTyped, [ModuleNext]_modVars PROVE ThreeTyped'
  OBVIOUS
<1>0. Typed
  BY DEF ThreeTyped, ThreeTypeOK, Typed
<1>1. CASE UNCHANGED modVars
  <2>1. Typed'
    BY <1>0, <1>1, NextTyped DEF modVars
  <2> QED  BY <1>1, <2>1 DEF modVars, vars, moduleVars, ThreeTyped, ThreeTypeOK, ModuleTypeOK,
                             Typed, OwnKnown, IdKnown
<1>2. CASE Step /\ ModuleFollows
  BY <1>0, <1>2, NextTyped, FollowsTyped DEF Next
<1>3. CASE Restart /\ ModRestart
  BY <1>3, ModRestartTyped
<1>4. CASE ModStep /\ UNCHANGED <<aj, rj>>
  BY <1>4, ModReconcileTyped, ModHandleRevisionChangesTyped DEF ModStep
<1>5. CASE (EditModule \/ CollectFunctions \/ DeliverModule) /\ UNCHANGED vars
  BY <1>5, ModuleEventsTyped
<1> QED  BY <1>1, <1>2, <1>3, <1>4, <1>5 DEF ModuleNext

\* A step of ModuleOperator is one of Operator, during which the AppModule worker
\* stands still or starts anew, or one of the AppModule worker.
LEMMA ModuleSteps ==
    ASSUME [ModuleNext]_modVars
    PROVE  \/ [Next]_vars /\ mj' \in {mj, ModIdle}
           \/ ModStep /\ UNCHANGED <<aj, rj>>
BY DEF ModuleNext, Next, ModuleFollows, ModRestart, EditModule, CollectFunctions,
       DeliverModule, modVars

\* With the third controller every variable keeps its type, and the AppModule
\* exists where the other controllers see it: its worker writes no Revision
\* and no Function for an empty id, and brings no deleted AppModule back
\* (Reconcile and moduleHandleRevisionChanges of the AppModule controller).
THEOREM ThreeTypesCorrect == ModuleSpec => []ThreeTypeOK
<1>1. ThreeTyped => ThreeTypeOK
  BY DEF ThreeTyped
<1> QED  BY ModuleInitTyped, ModuleNextTyped, <1>1, PTL DEF ModuleSpec

-----------------------------------------------------------------------------
(* No edit of the user is lost to the third writer of the AppDeployment:   *)
(* its copy, too, is older than the store or has its image.                *)

ThreeImagesKept == ImagesKept /\ CopyOf(mj.ad, ad)

LEMMA ModStepKeepsImage ==
    ASSUME ThreeTyped, ThreeImagesKept, ModStep
    PROVE  /\ Grown /\ Spelling(ad'.image) = Spelling(ad.image)
           /\ CopyOf(mj'.ad, ad) /\ cache' = cache
<1>0. /\ Typed /\ mj \in ModWorker /\ CopyOf(mj.ad, ad) /\ CopyOf(cache.ad, ad)
      /\ CopyOf(NoAppDeployment, ad) /\ ModIdle.ad = NoAppDeployment
  BY NothingCopied DEF ThreeTyped, ThreeTypeOK, ModuleTypeOK, Typed, ThreeImagesKept,
                       ImagesKept, ModIdle
<1>1. \A retry, own : /\ ModObserving(retry).ad = NoAppDeployment
                      /\ [ModObserving(retry) EXCEPT !.own = own].ad = NoAppDeployment
  BY <1>0 DEF ModObserving, ModIdle
<1>2. CASE ModBegin
  <2>1. mj'.ad \in {NoAppDeployment, cache.ad}
    BY <1>2 DEF ModBegin, ModIdle
  <2> QED  BY <1>0, <1>2, <2>1 DEF ModBegin, clusterVars, Grown
<1>3. CASE ModClearOrigin \/ ModObserve
  <2>1. mj'.ad = NoAppDeployment
    BY <1>0, <1>1, <1>3 DEF ModClearOrigin, ModObserve, ModHeard
  <2> QED  BY <1>0, <1>3, <2>1 DEF ModClearOrigin, ModObserve, Grown
<1>4. CASE SyncModule
  <2>1. \A id : AfterSync(id).ad \in {mj.ad, NoAppDeployment}
    BY <1>0, <1>1 DEF AfterSync, ModWorker
  <2>2. \/ \E id : mj' = AfterSync(id)
        \/ mj' = ModObserving(TRUE)
    BY <1>4 DEF SyncModule
  <2>3. mj'.ad \in {mj.ad, NoAppDeployment}
    BY <1>1, <2>1, <2>2
  <2> QED  BY <1>0, <1>4, <2>3 DEF SyncModule, Grown
<1>5. CASE RecordRevisionId
  <2>1. /\ Recorded \in AppDeployment /\ Recorded.rv = mj.ad.rv
        /\ Recorded.image = Spelling(mj.ad.image) /\ mj.ad \in AppDeployment
    BY <1>0, SpellingTyped DEF Recorded, ModWorker, AppDeployment
  <2>2. Accepts(Recorded, ad) => Accepts(mj.ad, ad)
    BY <2>1 DEF Accepts
  <2>3. ad' = ad \/ (Accepts(Recorded, ad) /\ ad' = Stored(ad, Recorded))
    BY <1>5 DEF RecordRevisionId
  <2>4. Grown /\ Spelling(ad'.image) = Spelling(ad.image)
    BY <1>0, <2>1, <2>2, <2>3, WriteKeepsImage DEF Grown
  <2>5. mj'.ad \in {mj.ad, NoAppDeployment}
    BY <1>0, <1>1, <1>5 DEF RecordRevisionId, ModHeard, ModWorker
  <2> QED  BY <1>0, <1>5, <2>4, <2>5 DEF RecordRevisionId
<1>6. CASE ModListRevisions \/ \E r \in RevIds : ModRetire(r)
  <2>1. mj'.ad = mj.ad
    BY <1>0, <1>6 DEF ModListRevisions, ModRetire, ModWorker
  <2> QED  BY <1>0, <1>6, <2>1 DEF ModListRevisions, clusterVars, ModRetire, Grown
<1>7. CASE ModCreateRevision \/ ModActivate \/ ModPrune \/ CreateFunction
  <2>1. mj'.ad \in {mj.ad, NoAppDeployment}
    BY <1>0, <1>1, <1>7
       DEF ModCreateRevision, ModActivate, ModPrune, CreateFunction, ModHeard, ModWorker
  <2> QED  BY <1>0, <1>7, <2>1
           DEF ModCreateRevision, ModActivate, ModPrune, CreateFunction, Grown
<1> QED  BY <1>2, <1>3, <1>4, <1>5, <1>6, <1>7 DEF ModStep

LEMMA ModuleNextImagesKept ==
    ASSUME ThreeTyped, ThreeImagesKept, [ModuleNext]_modVars
    PROVE  ThreeImagesKept' /\ UserEditKept
<1>0. /\ Typed /\ ImagesKept /\ CopyOf(mj.ad, ad)
      /\ Typed' /\ ad.rv \in Nat /\ ad'.rv \in Nat
      /\ mj.ad \in AppDeployment /\ mj'.ad \in AppDeployment
  <2>1. ThreeTyped'
    BY ModuleNextTyped
  <2>2. Typed /\ Typed' /\ mj \in ModWorker /\ mj' \in ModWorker
    BY <2>1 DEF ThreeTyped, ThreeTypeOK, ModuleTypeOK, Typed
  <2> QED  BY <2>2, AdsTyped DEF ThreeImagesKept, Typed, TypeOK, ClusterTypeOK,
                                 AppDeployment, ModWorker
<1>1. CASE [Next]_vars /\ mj' \in {mj, ModIdle}
  <2>1. ImagesKept' /\ UserEditKept /\ Grown
    BY <1>0, <1>1, NextImagesKept
  <2>2. CopyOf(mj'.ad, ad)
    BY <1>0, <1>1, NothingCopied DEF ModIdle
  <2>3. CopyOf(mj'.ad, ad')
    BY <1>0, <2>1, <2>2, CopiesGrowOld
  <2> QED  BY <2>1, <2>3 DEF ThreeImagesKept
<1>2. CASE ModStep /\ UNCHANGED <<aj, rj>>
  <2>1. /\ Grown /\ Spelling(ad'.image) = Spelling(ad.image)
        /\ CopyOf(mj'.ad, ad) /\ cache' = cache
    BY <1>2, ModStepKeepsImage
  <2>2. cache.ad \in AppDeployment /\ aj.ad \in AppDeployment /\ rj.ad \in AppDeployment
    BY <1>0, AdsTyped
  <2>3. CopyOf(mj'.ad, ad') /\ CopyOf(cache.ad, ad') /\ CopyOf(aj.ad, ad') /\ CopyOf(rj.ad, ad')
    BY <1>0, <2>1, <2>2, CopiesGrowOld DEF ImagesKept
  <2>4. ad'.rv > 0
    BY <1>0, <2>1 DEF Grown, ImagesKept
  <2> QED  BY <1>2, <2>1, <2>3, <2>4 DEF ThreeImagesKept, ImagesKept, UserEditKept
<1> QED  BY <1>1, <1>2, ModuleSteps

\* The image of the AppDeployment changes by the user's hand only, with the
\* AppModule controller as its third writer, which writes it back after a call
\* of Lyra from the copy it read before (moduleHandleRevisionChanges).
THEOREM ModuleEditsKept == ModuleSpec => NoEditLostToModule
<1>1. ModuleInit => ThreeTyped /\ ThreeImagesKept
  <2>1. ModuleInit => ImagesKept
    BY InitImagesKept DEF ModuleInit
  <2>2. ModuleInit => CopyOf(mj.ad, ad)
    BY DEF ModuleInit, ModInit, Init, ClusterInit, ModIdle, NoAppDeployment, CopyOf
  <2> QED  BY <2>1, <2>2, ModuleInitTyped DEF ThreeImagesKept
<1>2. ThreeTyped /\ ThreeImagesKept /\ [ModuleNext]_modVars
         => ThreeTyped' /\ ThreeImagesKept'
  BY ModuleNextTyped, ModuleNextImagesKept
<1>3. ThreeTyped /\ ThreeImagesKept /\ [ModuleNext]_modVars => [UserEditKept]_modVars
  BY ModuleNextImagesKept
<1> QED  BY <1>1, <1>2, <1>3, PTL DEF ModuleSpec, NoEditLostToModule

=============================================================================
