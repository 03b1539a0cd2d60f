---------------------------- MODULE OperatorProofs ----------------------------
(***************************************************************************)
(* Theorems about Operator, for any number of images, revisions, edits,    *)
(* failures and restarts: every variable keeps its type, and no write of   *)
(* the controllers brings an image back that the user has replaced.        *)
(***************************************************************************)
EXTENDS Operator, TLAPS

\* A worker that is busy with a Revision knows which.
KeyKnown == rj.pc # "idle" => rj.key \in RevIds

Typed == TypeOK /\ KeyKnown

-----------------------------------------------------------------------------
(* The API server keeps the types of what it stores.                       *)

LEMMA StoredRevision ==
    ASSUME NEW old \in Revision, NEW new \in Revision
    PROVE  Stored(old, new) \in Revision
BY DEF Stored, Revision

LEMMA PutSpecRevision ==
    ASSUME NEW old \in Revision, NEW held \in Revision
    PROVE  PutSpec(old, held) \in Revision
<1> DEFINE kept == [held EXCEPT !.phase = old.phase, !.obs = old.obs]
           next == [kept EXCEPT !.gen = old.gen + 1]
<1>1. kept \in Revision
  BY DEF Revision
<1>2. next \in Revision
  <2> HIDE DEF kept
  <2>1. old.gen + 1 \in Nat
    BY DEF Revision
  <2> QED  BY <1>1, <2>1 DEF Revision
<1>3. Stored(old, kept) \in Revision /\ Stored(old, next) \in Revision
  BY <1>1, <1>2, StoredRevision
<1>4. CASE held.status = old.status /\ held.image = old.image
  BY <1>3, <1>4 DEF PutSpec
<1>5. CASE ~(held.status = old.status /\ held.image = old.image)
  BY <1>3, <1>5 DEF PutSpec
<1> QED  BY <1>4, <1>5

LEMMA PutStatusRevision ==
    ASSUME NEW old \in Revision, NEW held \in Revision
    PROVE  PutStatus(old, held) \in Revision
<1>1. [old EXCEPT !.phase = held.phase, !.obs = held.obs] \in Revision
  BY DEF Revision
<1> QED  BY <1>1, StoredRevision DEF PutStatus

LEMMA DeletedRevision ==
    ASSUME NEW old \in Revision
    PROVE  Deleted(old) \in Revision
<1>1. old.rv + 1 \in Nat
  BY DEF Revision
<1> QED  BY <1>1 DEF Deleted, Revision

LEMMA StoredAppDeployment ==
    ASSUME NEW old \in AppDeployment, NEW new \in AppDeployment
    PROVE  Stored(old, new) \in AppDeployment
BY DEF Stored, AppDeployment

LEMMA StoredDeployment ==
    ASSUME NEW old \in Deployment, NEW new \in Deployment
    PROVE  Stored(old, new) \in Deployment
BY DEF Stored, Deployment

\* The values that stand for "nothing" are typed.
LEMMA NothingTyped ==
    /\ NoRevision \in Revision /\ NoRevisions \in [RevIds -> Revision]
    /\ NoDeployment \in Deployment /\ NoAppDeployment \in AppDeployment
    /\ AdIdle \in AdWorker /\ RevIdle \in RevWorker
<1>1. NoRevision \in Revision
  BY DEF NoRevision, Revision, Status, OptImage
<1>2. NoRevisions \in [RevIds -> Revision]
  BY <1>1 DEF NoRevisions
<1>3. NoDeployment \in Deployment
  BY DEF NoDeployment, Deployment, OptImage
<1>4. NoAppDeployment \in AppDeployment
  BY RevsAssumption DEF NoAppDeployment, AppDeployment, OptImage, NoRev
<1>5. AdIdle \in AdWorker
  BY <1>2, <1>4, RevsAssumption DEF AdIdle, AdWorker, AdSteps, NoRev
<1>6. RevIdle \in RevWorker
  BY <1>1, <1>2, <1>3, <1>4, RevsAssumption DEF RevIdle, RevWorker, RevSteps
<1> QED  BY <1>1, <1>2, <1>3, <1>4, <1>5, <1>6

LEMMA InitTyped == Init => Typed
<1> SUFFICES ASSUME Init PROVE Typed
  OBVIOUS
<1> USE DEF Init, ClusterInit, AdInit, RevInit
<1>1. ad \in AppDeployment
  <2>1. PICK i \in Images : ad = [live |-> TRUE, image |-> i, cur |-> NoRev,
                                  marker |-> FALSE, rv |-> 1]
    OBVIOUS
  <2>2. NoRev \in 0 .. MaxRevs
    BY RevsAssumption DEF NoRev
  <2> QED  BY <2>1, <2>2 DEF AppDeployment, OptImage
<1>2. dep \in Deployment /\ rev \in [RevIds -> Revision]
  BY NothingTyped
<1>3. objs \in Objects
  BY DEF Objects
<1>4. lyra \in LyraState
  BY RevsAssumption DEF LyraState, NoRev
<1>5. cache \in Cache
  BY NothingTyped DEF Cache
<1>6. queue \in Queue
  BY DEF Queue
<1>7. budget \in Budget
  BY BudgetAssumption DEF FullBudget, Budget
<1>8. aj \in AdWorker /\ rj \in RevWorker /\ rj.pc = "idle"
  BY NothingTyped DEF RevIdle
<1> QED  BY <1>1, <1>2, <1>3, <1>4, <1>5, <1>6, <1>7, <1>8
         DEF Typed, TypeOK, ClusterTypeOK, KeyKnown

-----------------------------------------------------------------------------
(* The steps of everybody but the controllers.                             *)

LEMMA FaultTyped ==
    ASSUME budget \in Budget, Fault
    PROVE  budget' \in Budget
<1>1. budget.faults - 1 \in Nat
  BY DEF Fault, Budget
<1> QED  BY <1>1 DEF Fault, Budget

LEMMA RefusedTyped ==
    ASSUME budget \in Budget, NEW held, NEW stored, Refused(held, stored)
    PROVE  budget' \in Budget
BY FaultTyped DEF Refused

\* However a call of LyraClient ends, Lyra's memory is the old or the new one.
LEMMA AskedTyped ==
    ASSUME budget \in Budget, lyra \in LyraState,
           NEW call, NEW done \in LyraState, Asked(call, done)
    PROVE  lyra' \in LyraState /\ budget' \in Budget
BY FaultTyped DEF Asked

\* An image stays an image however it is spelt, and is spelt so only once.
LEMMA SpellingTyped ==
    ASSUME NEW i \in OptImage
    PROVE  Spelling(i) \in OptImage /\ Spelling(Spelling(i)) = Spelling(i)
BY ImagesAssumption, CanonicalAssumption DEF Spelling, OptImage

LEMMA UserTyped ==
    ASSUME Typed, User, UNCHANGED <<aj, rj>>
    PROVE  Typed'
<1> USE DEF Typed, TypeOK, ClusterTypeOK, KeyKnown
<1>1. CASE \E i \in Images : EditImage(i)
  <2>1. PICK i \in Images : EditImage(i)
    BY <1>1
  <2>2. [ad EXCEPT !.image = i] \in AppDeployment
    BY DEF AppDeployment, OptImage
  <2>3. ad' \in AppDeployment
    BY <2>1, <2>2, StoredAppDeployment DEF EditImage
  <2>4. budget.edits - 1 \in Nat
    BY <2>1 DEF EditImage, Budget
  <2>5. budget' \in Budget
    BY <2>1, <2>4 DEF EditImage, Budget
  <2> QED  BY <2>1, <2>3, <2>5 DEF EditImage
<1>2. CASE \E r \in RevIds : Activate(r)
  <2>1. PICK r \in RevIds : Activate(r)
    BY <1>2
  <2>2. [rev[r] EXCEPT !.status = "Active"] \in Revision
    BY ZenonT(60) DEF Revision, Status
  <2>3. PutSpec(rev[r], [rev[r] EXCEPT !.status = "Active"]) \in Revision
    BY <2>2, PutSpecRevision
  <2>4. rev' \in [RevIds -> Revision]
    BY <2>1, <2>3 DEF Activate
  <2>5. budget.switches - 1 \in Nat
    BY <2>1 DEF Activate, Budget
  <2>6. budget' \in Budget
    BY <2>1, <2>5 DEF Activate, Budget
  <2> QED  BY <2>1, <2>4, <2>6 DEF Activate
<1>3. CASE DeleteAppDeployment
  <2>1. ad.rv + 1 \in Nat /\ budget.deletes - 1 \in Nat
    BY <1>3 DEF DeleteAppDeployment, AppDeployment, Budget
  <2>2. ad' \in AppDeployment
    BY <1>3, <2>1 DEF DeleteAppDeployment, Deleted, AppDeployment
  <2>3. budget' \in Budget
    BY <1>3, <2>1 DEF DeleteAppDeployment, Budget
  <2> QED  BY <1>3, <2>2, <2>3 DEF DeleteAppDeployment
<1>4. CASE ProvideSecret
  <2>1. budget.secret - 1 \in Nat
    BY <1>4 DEF ProvideSecret, Budget
  <2>2. budget' \in Budget /\ objs' \in Objects
    BY <1>4, <2>1 DEF ProvideSecret, Budget, Objects
  <2> QED  BY <1>4, <2>2 DEF ProvideSecret
<1> QED  BY <1>1, <1>2, <1>3, <1>4 DEF User

LEMMA KubernetesTyped ==
    ASSUME Typed, ReportStatus \/ Collect, UNCHANGED <<aj, rj>>
    PROVE  Typed'
<1> USE DEF Typed, TypeOK, ClusterTypeOK, KeyKnown
<1>1. CASE ReportStatus
  <2>1. dep.rv + 1 \in Nat /\ budget.status - 1 \in Nat
    BY <1>1 DEF ReportStatus, Deployment, Budget
  <2>2. dep' \in Deployment /\ budget' \in Budget
    BY <1>1, <2>1 DEF ReportStatus, Deployment, Budget
  <2> QED  BY <1>1, <2>2 DEF ReportStatus
<1>2. CASE CollectDeployment
  <2>1. dep.rv + 1 \in Nat
    BY DEF Deployment
  <2>2. dep' \in Deployment
    BY <1>2, <2>1 DEF CollectDeployment, Deleted, Deployment
  <2> QED  BY <1>2, <2>2 DEF CollectDeployment
<1>3. CASE \E r \in RevIds : CollectRevision(r)
  <2>1. PICK r \in RevIds : CollectRevision(r)
    BY <1>3
  <2>2. Deleted(rev[r]) \in Revision
    BY DeletedRevision
  <2>3. rev' \in [RevIds -> Revision]
    BY <2>1, <2>2 DEF CollectRevision
  <2> QED  BY <2>1, <2>3 DEF CollectRevision
<1>4. CASE CollectModule
  <2>1. objs' \in Objects
    BY <1>4 DEF CollectModule, Objects
  <2> QED  BY <1>4, <2>1 DEF CollectModule
<1> QED  BY <1>1, <1>2, <1>3, <1>4 DEF Collect

LEMMA DeliverTyped ==
    ASSUME Typed, Deliver, UNCHANGED <<aj, rj>>
    PROVE  Typed'
<1> USE DEF Typed, TypeOK, ClusterTypeOK, KeyKnown
<1>1. CASE DeliverAppDeployment
  <2>1. WatchedAd(cache.ad, ad) \in BOOLEAN
    BY DEF WatchedAd
  <2>2. cache' \in Cache /\ queue' \in Queue
    BY <1>1, <2>1 DEF DeliverAppDeployment, Cache, Queue
  <2> QED  BY <1>1, <2>2 DEF DeliverAppDeployment
<1>2. CASE DeliverDeployment
  <2>1. cache' \in Cache
    BY <1>2 DEF DeliverDeployment, Cache
  <2> QED  BY <1>2, <2>1 DEF DeliverDeployment
<1>3. CASE \E r \in RevIds : DeliverRevision(r)
  <2>1. PICK r \in RevIds : DeliverRevision(r)
    BY <1>3
  <2>2. cache' \in Cache
    BY <2>1 DEF DeliverRevision, Cache
  <2>3. queue' \in Queue
    BY <2>1 DEF DeliverRevision, Queue
  <2> QED  BY <2>1, <2>2, <2>3 DEF DeliverRevision
<1> QED  BY <1>1, <1>2, <1>3 DEF Deliver

LEMMA RestartTyped ==
    ASSUME Typed, Restart \/ Resync
    PROVE  Typed'
<1> USE DEF Typed, TypeOK, ClusterTypeOK, KeyKnown
<1>1. budget.restarts - 1 \in Nat /\ budget' \in Budget
  BY DEF Restart, Resync, Budget
<1>2. CASE Restart
  <2>1. cache' \in Cache
    BY <1>2 DEF Restart, Cache
  <2>2. queue' \in Queue
    BY <1>2 DEF Restart, Queue, LiveIn, AppDeployment
  <2>3. aj' \in AdWorker /\ rj' \in RevWorker /\ rj'.pc = "idle"
    BY <1>2, NothingTyped DEF Restart, RevIdle
  <2> QED  BY <1>1, <1>2, <2>1, <2>2, <2>3 DEF Restart
<1>3. CASE Resync
  <2>1. queue' \in Queue
    BY <1>3 DEF Resync, Queue, Cache, LiveIn, AppDeployment
  <2> QED  BY <1>1, <1>3, <2>1 DEF Resync
<1> QED  BY <1>2, <1>3

-----------------------------------------------------------------------------
(* The steps of the AppDeployment controller.                              *)

LEMMA AfterObjectsTyped ==
    ASSUME NEW j \in AdWorker
    PROVE  AfterObjects(j) \in AdWorker
BY NothingTyped DEF AfterObjects, AdWorker, AdSteps

LEMMA AfterModuleTyped ==
    ASSUME NEW j \in AdWorker
    PROVE  AfterModule(j) \in AdWorker
BY AfterObjectsTyped DEF AfterModule, AdWorker, AdSteps

LEMMA AdFailTyped ==
    ASSUME queue \in Queue, AdFail
    PROVE  aj' \in AdWorker /\ queue' \in Queue
BY NothingTyped DEF AdFail, Queue

LEMMA AdHeardTyped ==
    ASSUME budget \in Budget, NEW done \in AdWorker, NEW failed \in AdWorker,
           AdHeard(done, failed)
    PROVE  aj' \in AdWorker /\ budget' \in Budget
BY FaultTyped DEF AdHeard

LEMMA SyncedTyped ==
    ASSUME lyra \in LyraState, NEW cur \in 0 .. MaxRevs, Reply(cur) \in RevIds
    PROVE  Synced(cur) \in LyraState /\ Reply(cur) \in 0 .. MaxRevs
<1>1. Reply(cur) \in 0 .. MaxRevs
  BY RevsAssumption DEF RevIds
<1> HIDE DEF Reply
<1>2. (IF Reply(cur) > lyra.minted THEN Reply(cur) ELSE lyra.minted) \in 0 .. MaxRevs
  BY <1>1 DEF LyraState
<1> QED  BY <1>1, <1>2 DEF Synced, LyraState

LEMMA AdReconcileTyped ==
    ASSUME Typed, UNCHANGED rj,
           \/ AdBegin \/ HandleAppDeploymentChanges \/ SyncApp
           \/ CreateModule \/ CreateSubdomain \/ HandleServiceChanges
    PROVE  Typed'
<1> USE DEF Typed, TypeOK, ClusterTypeOK, KeyKnown
<1>1. CASE AdBegin
  <2>1. CASE Fault /\ AdFail
    BY <1>1, <2>1, FaultTyped, AdFailTyped DEF AdBegin
  <2>2. CASE ~(Fault /\ AdFail)
    <3>1. queue' \in Queue
      BY <1>1, <2>2 DEF AdBegin, Queue
    <3>2. aj' \in {AdIdle, [AdIdle EXCEPT !.pc = "apply", !.ad = cache.ad],
                   [AdIdle EXCEPT !.pc = "deleteApp"]}
      BY <1>1, <2>2, Zenon DEF AdBegin
    <3>3. aj' \in AdWorker
      BY ZenonT(60), <3>2, NothingTyped DEF AdWorker, AdSteps, Cache
    <3>4. UNCHANGED <<ad, dep, rev, objs, lyra, cache, budget>>
      BY <1>1, <2>2 DEF AdBegin
    <3> QED  BY <3>1, <3>3, <3>4
  <2> QED  BY <2>1, <2>2
<1>2. CASE HandleAppDeploymentChanges
  <2> DEFINE desired == [dep EXCEPT !.image = Spelling(aj.ad.image)]
  <2>1. desired \in Deployment /\ [desired EXCEPT !.live = TRUE] \in Deployment
    BY SpellingTyped DEF Deployment, AdWorker, AppDeployment
  <2>2. /\ Stored(dep, desired) \in Deployment
        /\ Stored(dep, [desired EXCEPT !.live = TRUE]) \in Deployment
    BY <2>1, StoredDeployment
  <2> HIDE DEF desired
  <2>3. dep' \in Deployment
    BY <1>2, <2>2 DEF HandleAppDeploymentChanges, desired
  <2>4. NoRev \in 0 .. MaxRevs /\ (~cache.dep.live) \in BOOLEAN
    BY RevsAssumption DEF NoRev, Cache, Deployment
  <2>5. Changed \in AdWorker /\ Same \in AdWorker
    BY <2>4 DEF Changed, Same, AdWorker, AdSteps, AppDeployment
  <2>6. \/ AdHeard(Changed, Same)
        \/ aj' = Same /\ (UNCHANGED budget \/ Fault \/ Refused(cache.dep, dep))
    BY <1>2 DEF HandleAppDeploymentChanges
  <2>7. aj' \in AdWorker /\ budget' \in Budget
    BY <2>5, <2>6, AdHeardTyped, FaultTyped, RefusedTyped
  <2> QED  BY <1>2, <2>3, <2>7 DEF HandleAppDeploymentChanges
<1>3. CASE SyncApp
  <2> DEFINE answer(id) == [aj EXCEPT !.id = id]
             answered(id) ==
                 IF answer(id).app THEN [answer(id) EXCEPT !.pc = "module"]
                 ELSE AfterModule(answer(id))
  <2>1. aj.ad.cur \in 0 .. MaxRevs
    BY DEF AdWorker, AppDeployment
  <2>2. ASSUME NEW id \in 0 .. MaxRevs
        PROVE  answered(id) \in AdWorker
    <3>1. answer(id) \in AdWorker
      BY <2>2 DEF AdWorker
    <3> HIDE DEF answer
    <3>2. [answer(id) EXCEPT !.pc = "module"] \in AdWorker
      BY <3>1 DEF AdWorker, AdSteps
    <3> QED  BY <3>1, <3>2, AfterModuleTyped
  <2>3. Reply(aj.ad.cur) \in RevIds
    BY <1>3 DEF SyncApp
  <2>4. Synced(aj.ad.cur) \in LyraState /\ Reply(aj.ad.cur) \in 0 .. MaxRevs
    BY <2>1, <2>3, SyncedTyped
  <2>5. NoRev \in 0 .. MaxRevs
    BY RevsAssumption DEF NoRev
  <2>6. answered(Reply(aj.ad.cur)) \in AdWorker /\ answered(NoRev) \in AdWorker
    BY <2>2, <2>4, <2>5
  <2>7. \E call \in Calls :
           /\ Asked(call, Synced(aj.ad.cur))
           /\ \/ /\ aj' \in {answered(Reply(aj.ad.cur)), answered(NoRev)}
                 /\ UNCHANGED queue
              \/ AdFail
    BY <1>3 DEF SyncApp
  <2> HIDE DEF answered
  <2>8. lyra' \in LyraState /\ aj' \in AdWorker /\ queue' \in Queue /\ budget' \in Budget
    BY <2>4, <2>6, <2>7, AskedTyped, AdFailTyped
  <2> QED  BY <1>3, <2>8 DEF SyncApp
<1>4. CASE CreateModule
  <2>1. [aj EXCEPT !.pc = "subdomain"] \in AdWorker
    BY DEF AdWorker, AdSteps
  <2>2. objs' \in Objects
    BY <1>4 DEF CreateModule, Objects
  <2>3. aj' \in AdWorker /\ queue' \in Queue /\ budget' \in Budget
    BY <1>4, <2>1, FaultTyped, AdFailTyped DEF CreateModule
  <2> QED  BY <1>4, <2>2, <2>3 DEF CreateModule
<1>5. CASE CreateSubdomain
  <2>1. objs' \in Objects
    BY <1>5 DEF CreateSubdomain, Objects
  <2>2. aj' \in AdWorker /\ queue' \in Queue /\ budget' \in Budget
    BY <1>5, AfterModuleTyped, FaultTyped, AdFailTyped DEF CreateSubdomain
  <2> QED  BY <1>5, <2>1, <2>2 DEF CreateSubdomain
<1>6. CASE HandleServiceChanges
  <2>1. objs' \in Objects
    BY <1>6 DEF HandleServiceChanges, Objects
  <2>2. aj' \in AdWorker /\ budget' \in Budget
    BY <1>6, AfterObjectsTyped, FaultTyped DEF HandleServiceChanges
  <2> QED  BY <1>6, <2>1, <2>2 DEF HandleServiceChanges
<1> QED  BY <1>1, <1>2, <1>3, <1>4, <1>5, <1>6

LEMMA HandleRevisionChangesTyped ==
    ASSUME Typed, UNCHANGED rj,
           \/ ConsumeMarker \/ ListRevisions \/ CreateRevision \/ Prune
           \/ \E r \in RevIds : RetirePhase(r) \/ RetireSpec(r)
    PROVE  Typed'
<1> USE DEF Typed, TypeOK, ClusterTypeOK, KeyKnown
<1>1. CASE ConsumeMarker
  <2>1. Unmarked \in AppDeployment
    BY SpellingTyped DEF Unmarked, AdWorker, AppDeployment
  <2>2. ad' \in AppDeployment
    BY <1>1, <2>1, StoredAppDeployment DEF ConsumeMarker
  <2>3. aj' \in AdWorker /\ budget' \in Budget
    BY <1>1, NothingTyped, RefusedTyped DEF ConsumeMarker
  <2> QED  BY <1>1, <2>2, <2>3 DEF ConsumeMarker
<1>2. CASE ListRevisions
  <2>1. aj' \in AdWorker
    BY <1>2 DEF ListRevisions, AdWorker, AdSteps, Cache, LiveIn
  <2> QED  BY <1>2, <2>1 DEF ListRevisions, clusterVars
<1>3. CASE \E r \in RevIds : RetirePhase(r)
  <2>1. PICK r \in RevIds : RetirePhase(r)
    BY <1>3
  <2> DEFINE held == [aj.list[r] EXCEPT !.phase = "Non-active"]
  <2>2. held \in Revision
    <3>1. aj.list[r] \in Revision
      BY DEF AdWorker
    <3> QED  BY <3>1 DEF Revision, Status
  <2> HIDE DEF held
  <2>3. PutStatus(rev[r], held) \in Revision
    BY <2>2, PutStatusRevision
  <2>4. rev' \in [RevIds -> Revision]
    BY <2>1, <2>3 DEF RetirePhase, held
  <2>5. r \in 0 .. MaxRevs
    BY RevsAssumption DEF RevIds
  <2>6. [aj EXCEPT !.pc = "spec", !.at = r] \in AdWorker
    BY <2>5 DEF AdWorker, AdSteps
  <2>7. [aj EXCEPT !.pc = "spec", !.at = r, !.list[r] = PutStatus(rev[r], held)]
            \in AdWorker
    BY <2>3, <2>5 DEF AdWorker, AdSteps
  <2>8. \/ AdHeard([aj EXCEPT !.pc = "spec", !.at = r,
                                !.list[r] = PutStatus(rev[r], held)],
                   [aj EXCEPT !.pc = "spec", !.at = r])
        \/ Refused(held, rev[r]) /\ aj' = [aj EXCEPT !.pc = "spec", !.at = r]
    BY <2>1 DEF RetirePhase, held
  <2>9. aj' \in AdWorker /\ budget' \in Budget
    BY <2>6, <2>7, <2>8, AdHeardTyped, RefusedTyped
  <2> QED  BY <2>1, <2>4, <2>9 DEF RetirePhase
<1>4. CASE \E r \in RevIds : RetireSpec(r)
  <2>1. PICK r \in RevIds : RetireSpec(r)
    BY <1>4
  <2> DEFINE held == [aj.list[r] EXCEPT !.status = "Non-active"]
  <2>2. held \in Revision
    <3>1. aj.list[r] \in Revision
      BY DEF AdWorker
    <3> QED  BY <3>1 DEF Revision, Status
  <2> HIDE DEF held
  <2>3. PutSpec(rev[r], held) \in Revision
    BY <2>2, PutSpecRevision
  <2>4. rev' \in [RevIds -> Revision]
    BY <2>1, <2>3 DEF RetireSpec, held
  <2>5. 0 \in 0 .. MaxRevs
    BY RevsAssumption
  <2>6. aj' \in AdWorker
    BY ZenonT(60), <2>1, <2>5, NothingTyped DEF RetireSpec, AdWorker, AdSteps
  <2>7. budget' \in Budget
    BY <2>1, RefusedTyped DEF RetireSpec
  <2> QED  BY <2>1, <2>4, <2>6, <2>7 DEF RetireSpec
<1>5. CASE CreateRevision
  <2> DEFINE new == [rev[aj.id] EXCEPT
                        !.live = TRUE, !.image = Spelling(aj.ad.image),
                        !.status = "Active",
                        !.phase = "", !.gen = 1, !.obs = 0, !.origin = TRUE]
  <2>1. aj.id \in RevIds => new \in Revision
    <3>1. Spelling(aj.ad.image) \in OptImage
      BY SpellingTyped DEF AdWorker, AppDeployment
    <3>2. aj.id \in RevIds => rev[aj.id] \in Revision
      OBVIOUS
    <3> QED  BY <3>1, <3>2 DEF Revision, Status
  <2> HIDE DEF new
  <2>2. aj.id \in RevIds => Stored(rev[aj.id], new) \in Revision
    BY <2>1, StoredRevision
  <2>3. rev' = rev \/ rev' = [rev EXCEPT ![aj.id] = Stored(rev[aj.id], new)]
    BY <1>5 DEF CreateRevision, new
  <2>4. rev' \in [RevIds -> Revision]
    BY <2>2, <2>3
  <2>5. [aj EXCEPT !.pc = "prune"] \in AdWorker
    BY DEF AdWorker, AdSteps
  <2>6. aj' \in AdWorker /\ budget' \in Budget
    BY <1>5, <2>5, NothingTyped, FaultTyped, AdHeardTyped DEF CreateRevision
  <2> QED  BY <1>5, <2>4, <2>6 DEF CreateRevision
<1>6. CASE Prune
  <2>1. \E r : rev' = rev \/ rev' = [rev EXCEPT ![r] = Deleted(rev[r])]
    BY <1>6 DEF Prune
  <2>2. rev' \in [RevIds -> Revision]
    BY <2>1, DeletedRevision
  <2>3. aj' \in AdWorker /\ budget' \in Budget
    BY <1>6, NothingTyped, FaultTyped DEF Prune
  <2> QED  BY <1>6, <2>2, <2>3 DEF Prune
<1> QED  BY <1>1, <1>2, <1>3, <1>4, <1>5, <1>6

LEMMA AdDeleteTyped ==
    ASSUME Typed, UNCHANGED rj, DeleteApp \/ DeleteService
    PROVE  Typed'
<1> USE DEF Typed, TypeOK, ClusterTypeOK, KeyKnown
<1>1. CASE DeleteApp
  <2>1. [lyra EXCEPT !.app = FALSE] \in LyraState
    BY DEF LyraState
  <2>2. [aj EXCEPT !.pc = "deleteService"] \in AdWorker
    BY DEF AdWorker, AdSteps
  <2>3. lyra' \in LyraState /\ budget' \in Budget
    BY <1>1, <2>1, AskedTyped DEF DeleteApp
  <2>4. aj' \in AdWorker /\ queue' \in Queue
    BY <1>1, <2>2, AdFailTyped DEF DeleteApp
  <2> QED  BY <1>1, <2>3, <2>4 DEF DeleteApp
<1>2. CASE DeleteService
  <2>1. objs' \in Objects
    BY <1>2 DEF DeleteService, Objects
  <2>2. aj' \in AdWorker /\ queue' \in Queue /\ budget' \in Budget
    BY <1>2, NothingTyped, FaultTyped, AdFailTyped DEF DeleteService
  <2> QED  BY <1>2, <2>1, <2>2 DEF DeleteService
<1> QED  BY <1>1, <1>2

-----------------------------------------------------------------------------
(* The steps of the Revision controller.                                   *)

LEMMA ObservingTyped ==
    ASSUME NEW j \in RevWorker, NEW retry \in BOOLEAN
    PROVE  /\ Observing(j, retry) \in RevWorker
           /\ Observing(j, retry).key = j.key
BY NothingTyped DEF Observing, RevWorker, RevSteps

LEMMA RevHeardTyped ==
    ASSUME budget \in Budget, NEW done \in RevWorker, NEW failed \in RevWorker,
           RevHeard(done, failed)
    PROVE  rj' \in RevWorker /\ budget' \in Budget
BY FaultTyped DEF RevHeard

LEMMA AfterOriginTyped ==
    ASSUME NEW own
    PROVE  AfterOrigin(own) \in RevSteps /\ AfterOrigin(own) # "idle"
BY DEF AfterOrigin, RevSteps

LEMMA RevReconcileTyped ==
    ASSUME Typed, UNCHANGED aj,
           \/ \E r \in RevIds : RevBegin(r)
           \/ ForgetRevision \/ ClearOrigin \/ ObserveGeneration
    PROVE  Typed'
<1> USE DEF Typed, TypeOK, ClusterTypeOK, KeyKnown
<1>1. CASE \E r \in RevIds : RevBegin(r)
  <2>1. PICK r \in RevIds : RevBegin(r)
    BY <1>1
  <2>2. queue' \in Queue
    BY <2>1 DEF RevBegin, Queue
  <2>3. cache.rev[r] \in Revision /\ r \in 0 .. MaxRevs
    BY RevsAssumption DEF Cache, RevIds
  <2>4. [RevIdle EXCEPT !.pc = "forget", !.key = r] \in RevWorker
    BY <2>3, NothingTyped DEF RevWorker, RevSteps
  <2>5. ASSUME NEW pc \in RevSteps
        PROVE  [RevIdle EXCEPT !.key = r, !.own = cache.rev[r], !.pc = pc] \in RevWorker
    BY <2>3, <2>5, NothingTyped DEF RevWorker
  <2>6. (IF cache.rev[r].origin THEN "clear" ELSE AfterOrigin(cache.rev[r])) \in RevSteps
    BY AfterOriginTyped DEF RevSteps
  <2>7. rj' \in RevWorker
    BY <2>1, <2>4, <2>5, <2>6, NothingTyped DEF RevBegin
  <2>8. rj'.pc = "idle" \/ rj'.key = r
    BY <2>1 DEF RevBegin, RevIdle
  <2> QED  BY <2>1, <2>2, <2>7, <2>8 DEF RevBegin
<1>2. CASE ForgetRevision
  <2>1. rj.key \in RevIds
    BY <1>2 DEF ForgetRevision
  <2>2. [lyra EXCEPT !.forgotten = @ \cup {rj.key}] \in LyraState
    BY <2>1 DEF LyraState
  <2>3. lyra' \in LyraState /\ budget' \in Budget
    BY <1>2, <2>2, AskedTyped DEF ForgetRevision
  <2>4. queue' \in Queue
    BY <1>2, <2>1 DEF ForgetRevision, Queue
  <2>5. rj' \in RevWorker /\ rj'.pc = "idle"
    BY <1>2, NothingTyped DEF ForgetRevision, RevIdle
  <2> QED  BY <1>2, <2>3, <2>4, <2>5 DEF ForgetRevision
<1>3. CASE ClearOrigin
  <2> DEFINE held == Cleared(rj.key)
             new  == PutSpec(rev[rj.key], held)
  <2>1. rj.key \in RevIds
    BY <1>3 DEF ClearOrigin
  <2>2. held \in Revision
    <3>1. cache.rev[rj.key] \in Revision
      BY <2>1 DEF Cache
    <3> QED  BY <3>1 DEF Cleared, Revision
  <2> HIDE DEF held
  <2>3. new \in Revision
    BY <2>1, <2>2, PutSpecRevision
  <2> HIDE DEF new
  <2>4. \/ /\ rev' = [rev EXCEPT ![rj.key] = new]
           /\ RevHeard([rj EXCEPT !.own = new, !.pc = AfterOrigin(new)],
                       Observing([rj EXCEPT !.own = held], TRUE))
        \/ /\ Refused(held, rev[rj.key])
           /\ rj' = Observing([rj EXCEPT !.own = held], TRUE)
           /\ UNCHANGED rev
    BY <1>3 DEF ClearOrigin, held, new
  <2>5. rev' \in [RevIds -> Revision]
    BY <2>3, <2>4
  <2>6. [rj EXCEPT !.own = new, !.pc = AfterOrigin(new)] \in RevWorker
    BY <2>3, AfterOriginTyped DEF RevWorker
  <2>7. [rj EXCEPT !.own = held] \in RevWorker
    BY <2>2 DEF RevWorker
  <2>8. Observing([rj EXCEPT !.own = held], TRUE) \in RevWorker
    BY <2>7, ObservingTyped
  <2>9. rj' \in RevWorker /\ budget' \in Budget
    BY <2>4, <2>6, <2>8, RevHeardTyped, RefusedTyped
  <2>10. rj'.key = rj.key
    BY <2>4, <2>7, ObservingTyped DEF RevWorker, RevHeard
  <2> QED  BY <1>3, <2>1, <2>5, <2>9, <2>10 DEF ClearOrigin
<1>4. CASE ObserveGeneration
  <2> DEFINE held == ObservedOwn
  <2>1. rj.key \in RevIds
    BY <1>4 DEF ObserveGeneration
  <2>2. held \in Revision
    BY DEF ObservedOwn, RevWorker, Revision
  <2> HIDE DEF held
  <2>3. PutStatus(rev[rj.key], held) \in Revision
    BY <2>1, <2>2, PutStatusRevision
  <2>4. rev' \in [RevIds -> Revision] /\ budget' \in Budget
    BY <1>4, <2>3, RefusedTyped DEF ObserveGeneration, held
  <2>5. queue' \in Queue
    BY <1>4, <2>1 DEF ObserveGeneration, Queue
  <2>6. rj' \in RevWorker /\ rj'.pc = "idle"
    BY <1>4, NothingTyped DEF ObserveGeneration, RevIdle
  <2> QED  BY <1>4, <2>4, <2>5, <2>6 DEF ObserveGeneration
<1> QED  BY <1>1, <1>2, <1>3, <1>4

LEMMA RetireOthersTyped ==
    ASSUME Typed, UNCHANGED aj,
           ReadAppDeployment \/ \E r \in RevIds : OtherPhase(r) \/ OtherSpec(r)
    PROVE  Typed'
<1> USE DEF Typed, TypeOK, ClusterTypeOK, KeyKnown
<1>1. CASE ReadAppDeployment
  <2>1. rj' \in RevWorker
    <3>1. ASSUME NEW pc \in RevSteps
          PROVE  [rj EXCEPT !.dep = cache.dep, !.ad = cache.ad, !.list = cache.rev,
                            !.todo = LiveIn(cache.rev) \ {rj.key}, !.pc = pc] \in RevWorker
      BY <3>1 DEF RevWorker, Cache, LiveIn
    <3>2. (IF LiveIn(cache.rev) \ {rj.key} = {} THEN "activate" ELSE "phase") \in RevSteps
      BY DEF RevSteps
    <3> QED  BY <1>1, <3>1, <3>2, ObservingTyped DEF ReadAppDeployment
  <2>2. rj'.key = rj.key /\ rj.pc = "read"
    BY <1>1, ObservingTyped DEF ReadAppDeployment, RevWorker
  <2> QED  BY <1>1, <2>1, <2>2 DEF ReadAppDeployment, clusterVars
<1>2. CASE \E r \in RevIds : OtherPhase(r)
  <2>1. PICK r \in RevIds : OtherPhase(r)
    BY <1>2
  <2> DEFINE held == Retired(rj.list[r])
  <2>2. held \in Revision
    <3>1. rj.list[r] \in Revision
      BY DEF RevWorker
    <3> QED  BY <3>1 DEF Retired, Revision, Status
  <2> HIDE DEF held
  <2>3. PutStatus(rev[r], held) \in Revision
    BY <2>2, PutStatusRevision
  <2>4. rev' \in [RevIds -> Revision]
    BY <2>1, <2>3 DEF OtherPhase, held
  <2>5. r \in 0 .. MaxRevs
    BY RevsAssumption DEF RevIds
  <2>6. [rj EXCEPT !.pc = "spec", !.at = r] \in RevWorker
    BY <2>5 DEF RevWorker, RevSteps
  <2>7. [rj EXCEPT !.pc = "spec", !.at = r, !.list[r] = PutStatus(rev[r], held)]
            \in RevWorker
    BY <2>3, <2>5 DEF RevWorker, RevSteps
  <2>8. \/ RevHeard([rj EXCEPT !.pc = "spec", !.at = r,
                                 !.list[r] = PutStatus(rev[r], held)],
                    [rj EXCEPT !.pc = "spec", !.at = r])
        \/ Refused(held, rev[r]) /\ rj' = [rj EXCEPT !.pc = "spec", !.at = r]
    BY <2>1 DEF OtherPhase, held
  <2>9. rj' \in RevWorker /\ budget' \in Budget
    BY <2>6, <2>7, <2>8, RevHeardTyped, RefusedTyped
  <2>10. rj'.key = rj.key /\ rj.pc # "idle"
    BY <2>1, <2>8 DEF OtherPhase, RevHeard, RevWorker
  <2> QED  BY <2>1, <2>4, <2>9, <2>10 DEF OtherPhase
<1>3. CASE \E r \in RevIds : OtherSpec(r)
  <2>1. PICK r \in RevIds : OtherSpec(r)
    BY <1>3
  <2> DEFINE held == [rj.list[r] EXCEPT !.status = "Non-active"]
  <2>2. held \in Revision
    <3>1. rj.list[r] \in Revision
      BY DEF RevWorker
    <3> QED  BY <3>1 DEF Revision, Status
  <2> HIDE DEF held
  <2>3. PutSpec(rev[r], held) \in Revision
    BY <2>2, PutSpecRevision
  <2>4. rev' \in [RevIds -> Revision]
    BY <2>1, <2>3 DEF OtherSpec, held
  <2>5. 0 \in 0 .. MaxRevs
    BY RevsAssumption
  <2>6. rj' \in RevWorker
    BY ZenonT(60), <2>1, <2>5, NothingTyped DEF OtherSpec, RevWorker, RevSteps
  <2>7. rj'.key = rj.key /\ rj.pc # "idle"
    BY <2>1 DEF OtherSpec, RevWorker
  <2>8. budget' \in Budget
    BY <2>1, RefusedTyped DEF OtherSpec
  <2> QED  BY <2>1, <2>4, <2>6, <2>7, <2>8 DEF OtherSpec
<1> QED  BY <1>1, <1>2, <1>3

LEMMA SwitchTyped ==
    ASSUME Typed, UNCHANGED aj,
           ActivatePhase \/ SwitchDeployment \/ SyncRevision \/ MarkAppDeployment
    PROVE  Typed'
<1> USE DEF Typed, TypeOK, ClusterTypeOK, KeyKnown
<1>1. CASE ActivatePhase
  <2> DEFINE held == Activated
  <2>1. rj.key \in RevIds
    BY <1>1 DEF ActivatePhase
  <2>2. held \in Revision
    BY DEF Activated, RevWorker, Revision, Status
  <2> HIDE DEF held
  <2>3. PutStatus(rev[rj.key], held) \in Revision
    BY <2>1, <2>2, PutStatusRevision
  <2>4. rev' \in [RevIds -> Revision]
    BY <1>1, <2>3 DEF ActivatePhase, held
  <2>5. /\ [rj EXCEPT !.pc = "switch"] \in RevWorker
        /\ [rj EXCEPT !.pc = "mark", !.dep = NoDeployment] \in RevWorker
    BY NothingTyped DEF RevWorker, RevSteps
  <2>6. rj' \in RevWorker /\ budget' \in Budget
    BY <1>1, <2>5, RevHeardTyped, RefusedTyped DEF ActivatePhase
  <2>7. rj'.key = rj.key
    BY <1>1 DEF ActivatePhase, RevHeard, RevWorker
  <2> QED  BY <1>1, <2>1, <2>4, <2>6, <2>7 DEF ActivatePhase
<1>2. CASE SwitchDeployment
  <2> DEFINE held == [rj.dep EXCEPT !.image = rj.own.image]
  <2>1. held \in Deployment
    BY DEF RevWorker, Revision, Deployment
  <2> HIDE DEF held
  <2>2. dep' \in Deployment
    BY <1>2, <2>1, StoredDeployment DEF SwitchDeployment, held
  <2>3. \A pc \in RevSteps : [rj EXCEPT !.pc = pc, !.dep = NoDeployment] \in RevWorker
    BY NothingTyped DEF RevWorker
  <2>4. rj' \in RevWorker /\ budget' \in Budget
    BY <1>2, <2>3, RevHeardTyped, RefusedTyped DEF SwitchDeployment, RevSteps
  <2>5. rj'.key = rj.key /\ rj.pc # "idle"
    BY <1>2 DEF SwitchDeployment, RevHeard, RevWorker
  <2> QED  BY <1>2, <2>2, <2>4, <2>5 DEF SwitchDeployment
<1>3. CASE SyncRevision
  <2>1. [lyra EXCEPT !.active = rj.key] \in LyraState
    BY DEF LyraState, RevWorker
  <2>2. lyra' \in LyraState /\ budget' \in Budget
    BY <1>3, <2>1, AskedTyped DEF SyncRevision
  <2>3. rj' \in RevWorker /\ rj'.key = rj.key /\ rj.pc # "idle"
    BY <1>3 DEF SyncRevision, RevWorker, RevSteps
  <2> QED  BY <1>3, <2>2, <2>3 DEF SyncRevision
<1>4. CASE MarkAppDeployment
  <2>1. Marked \in AppDeployment
    BY SpellingTyped DEF Marked, RevWorker, AppDeployment
  <2>2. ad' \in AppDeployment /\ budget' \in Budget
    BY <1>4, <2>1, StoredAppDeployment, RefusedTyped DEF MarkAppDeployment
  <2>3. rj.retry \in BOOLEAN
    BY DEF RevWorker
  <2>4. rj' \in RevWorker /\ rj'.key = rj.key /\ rj.pc # "idle"
    BY <1>4, <2>3, ObservingTyped DEF MarkAppDeployment
  <2> QED  BY <1>4, <2>2, <2>4 DEF MarkAppDeployment
<1> QED  BY <1>1, <1>2, <1>3, <1>4

-----------------------------------------------------------------------------

LEMMA NextTyped == Typed /\ [Next]_vars => Typed'
<1> SUFFICES ASSUME Typed, [Next]_vars PROVE Typed'
  OBVIOUS
<1>1. CASE UNCHANGED vars
  BY <1>1 DEF vars, Typed, TypeOK, ClusterTypeOK, KeyKnown
<1>2. CASE User /\ UNCHANGED <<aj, rj>>
  BY <1>2, UserTyped
<1>3. CASE (ReportStatus \/ Collect) /\ UNCHANGED <<aj, rj>>
  BY <1>3, KubernetesTyped
<1>4. CASE Deliver /\ UNCHANGED <<aj, rj>>
  BY <1>4, DeliverTyped
<1>5. CASE AdStep /\ UNCHANGED rj
  BY <1>5, AdReconcileTyped, HandleRevisionChangesTyped, AdDeleteTyped DEF AdStep
<1>6. CASE RevStep /\ UNCHANGED aj
  BY <1>6, RevReconcileTyped, RetireOthersTyped, SwitchTyped DEF RevStep
<1>7. CASE Restart \/ Resync
  BY <1>7, RestartTyped
<1> QED  BY <1>1, <1>2, <1>3, <1>4, <1>5, <1>6, <1>7 DEF Next, Step

\* Every variable of the cluster, of its caches and queues and of both workers
\* keeps its type: in particular a worker never writes an object that does not
\* fit its type, whatever copies it was made from (the handlers of both
\* controllers).
THEOREM TypeCorrect == Spec => []TypeOK
<1>1. Typed => TypeOK
  BY DEF Typed
<1> QED  BY InitTyped, NextTyped, <1>1, PTL DEF Spec

-----------------------------------------------------------------------------
(* No edit of the user is lost.  The invariant: a copy of the AppDeployment*)
(* is older than the store, or has its image; so the only writes that are  *)
(* accepted keep the image, though they send it.                           *)

CopyOf(copy, stored) ==
    copy.rv <= stored.rv /\ (copy.rv = stored.rv => copy.image = stored.image)

ImagesKept ==
    /\ ad.rv > 0
    /\ CopyOf(cache.ad, ad) /\ CopyOf(aj.ad, ad) /\ CopyOf(rj.ad, ad)

\* The AppDeployment is untouched or has a new version.
Grown == ad' = ad \/ ad'.rv > ad.rv

LEMMA AdsTyped ==
    ASSUME Typed
    PROVE  /\ ad \in AppDeployment /\ cache.ad \in AppDeployment
           /\ aj.ad \in AppDeployment /\ rj.ad \in AppDeployment
BY DEF Typed, TypeOK, ClusterTypeOK, Cache, AdWorker, RevWorker

LEMMA InitImagesKept == Init => ImagesKept
<1> SUFFICES ASSUME Init PROVE ImagesKept
  OBVIOUS
<1>1. ad.rv = 1
  BY DEF Init, ClusterInit
<1>2. cache.ad.rv = 0 /\ aj.ad.rv = 0 /\ rj.ad.rv = 0
  BY DEF Init, ClusterInit, AdInit, RevInit, AdIdle, RevIdle, NoAppDeployment
<1> QED  BY <1>1, <1>2 DEF ImagesKept, CopyOf

\* No copy is ever ahead of the store, so a new version leaves all behind.
LEMMA CopiesGrowOld ==
    ASSUME Typed, Grown, ad'.rv \in Nat,
           NEW copy \in AppDeployment, CopyOf(copy, ad)
    PROVE  CopyOf(copy, ad')
BY AdsTyped DEF Grown, CopyOf, AppDeployment

\* A write from a copy is accepted only when the copy has the stored image.
\* All it may change is the spelling.
LEMMA WriteKeepsImage ==
    ASSUME Typed, NEW copy \in AppDeployment, CopyOf(copy, ad),
           NEW held \in AppDeployment, held.rv = copy.rv,
           held.image = Spelling(copy.image),
           Accepts(copy, ad), ad' = Stored(ad, held)
    PROVE  Grown /\ Spelling(ad'.image) = Spelling(ad.image)
<1>1. Spelling(held.image) = Spelling(ad.image)
  BY SpellingTyped DEF Accepts, CopyOf, AppDeployment
<1>2. CASE held = ad
  BY <1>2 DEF Stored, Grown
<1>3. CASE held # ad
  <2>1. ad' = [held EXCEPT !.rv = ad.rv + 1]
    BY <1>3 DEF Stored
  <2>2. ad'.rv = ad.rv + 1 /\ ad'.image = held.image
    BY <2>1 DEF AppDeployment
  <2>3. ad.rv \in Nat
    BY AdsTyped DEF AppDeployment
  <2> QED  BY <1>1, <2>2, <2>3 DEF Grown
<1> QED  BY <1>2, <1>3

LEMMA NothingCopied ==
    ASSUME Typed, ImagesKept
    PROVE  CopyOf(NoAppDeployment, ad)
BY AdsTyped DEF ImagesKept, CopyOf, NoAppDeployment, AppDeployment

LEMMA AdStepKeepsImage ==
    ASSUME Typed, ImagesKept, AdStep
    PROVE  Grown /\ Spelling(ad'.image) = Spelling(ad.image) /\ CopyOf(aj'.ad, ad) /\ cache' = cache
<1>0. /\ CopyOf(NoAppDeployment, ad) /\ AdIdle.ad = NoAppDeployment
      /\ aj \in AdWorker /\ CopyOf(aj.ad, ad) /\ CopyOf(cache.ad, ad)
  BY NothingCopied DEF ImagesKept, AdIdle, Typed, TypeOK
<1>1. ASSUME NEW j \in AdWorker
      PROVE  AfterObjects(j).ad \in {j.ad, NoAppDeployment}
  BY <1>0 DEF AfterObjects, AdIdle
<1>2. ASSUME NEW j \in AdWorker
      PROVE  AfterModule(j).ad \in {j.ad, NoAppDeployment}
  BY <1>1 DEF AfterModule, AdWorker
<1>3. AdFail => aj'.ad = NoAppDeployment
  BY <1>0 DEF AdFail
<1>4. CASE AdBegin
  BY <1>0, <1>3, <1>4 DEF AdBegin, AdIdle, Grown
<1>5. CASE HandleAppDeploymentChanges
  <2>1. aj' \in {Changed, Same}
    BY <1>5 DEF HandleAppDeploymentChanges, AdHeard
  <2>2. aj'.ad.rv = aj.ad.rv /\ aj'.ad.image = aj.ad.image
    <3>1. aj.ad \in AppDeployment
      BY <1>0 DEF AdWorker
    <3>2. aj'.ad = aj.ad \/ aj'.ad = [aj.ad EXCEPT !.cur = NoRev]
      BY <1>0, <2>1 DEF Changed, Same, AdWorker
    <3> QED  BY <3>1, <3>2 DEF AppDeployment
  <2> QED  BY <1>0, <1>5, <2>2 DEF HandleAppDeploymentChanges, CopyOf, Grown
<1>6. CASE SyncApp
  <2>1. NoRev \in 0 .. MaxRevs
    BY RevsAssumption DEF NoRev
  <2>2. Reply(aj.ad.cur) \in 0 .. MaxRevs
    BY <1>6, RevsAssumption DEF SyncApp, RevIds
  <2>3. ASSUME NEW id \in 0 .. MaxRevs
        PROVE  /\ [aj EXCEPT !.id = id] \in AdWorker
               /\ [aj EXCEPT !.id = id].ad = aj.ad
               /\ [[aj EXCEPT !.id = id] EXCEPT !.pc = "module"].ad = aj.ad
    BY <1>0 DEF AdWorker
  <2>4. \/ AdFail
        \/ \E id \in 0 .. MaxRevs :
              aj' \in {[[aj EXCEPT !.id = id] EXCEPT !.pc = "module"],
                      AfterModule([aj EXCEPT !.id = id])}
    BY <1>6, <2>1, <2>2 DEF SyncApp
  <2>5. aj'.ad \in {aj.ad, NoAppDeployment}
    BY <1>2, <1>3, <2>3, <2>4
  <2> QED  BY <1>0, <1>6, <2>5 DEF SyncApp, Grown
<1>7. CASE CreateModule \/ CreateSubdomain \/ HandleServiceChanges
  <2>1. aj'.ad \in {aj.ad, NoAppDeployment}
    BY <1>0, <1>1, <1>2, <1>3, <1>7
       DEF CreateModule, CreateSubdomain, HandleServiceChanges, AdHeard, AdWorker
  <2> QED  BY <1>0, <1>7, <2>1
           DEF CreateModule, CreateSubdomain, HandleServiceChanges, Grown
<1>8. CASE ConsumeMarker
  <2>1. /\ Unmarked \in AppDeployment /\ Unmarked.rv = aj.ad.rv
        /\ Unmarked.image = Spelling(aj.ad.image) /\ aj.ad \in AppDeployment
    BY <1>0, SpellingTyped DEF Unmarked, AdWorker, AppDeployment
  <2>2. ad' = ad \/ (Accepts(aj.ad, ad) /\ ad' = Stored(ad, Unmarked))
    BY <1>8 DEF ConsumeMarker
  <2>3. Grown /\ Spelling(ad'.image) = Spelling(ad.image)
    BY <1>0, <2>1, <2>2, WriteKeepsImage DEF Grown
  <2> QED  BY <1>0, <1>8, <2>3 DEF ConsumeMarker
<1>9. CASE \E r \in RevIds : RetirePhase(r) \/ RetireSpec(r)
  BY ZenonT(60), <1>0, <1>9 DEF RetirePhase, RetireSpec, AdHeard, AdWorker, Grown
<1>10. CASE ListRevisions \/ CreateRevision \/ Prune
  BY <1>0, <1>10 DEF ListRevisions, clusterVars, CreateRevision, Prune, AdHeard,
                     AdWorker, Grown
<1>11. CASE DeleteApp \/ DeleteService
  BY <1>0, <1>3, <1>11 DEF DeleteApp, DeleteService, AdWorker, Grown
<1> QED  BY <1>4, <1>5, <1>6, <1>7, <1>8, <1>9, <1>10, <1>11 DEF AdStep

LEMMA RevStepKeepsImage ==
    ASSUME Typed, ImagesKept, RevStep
    PROVE  Grown /\ Spelling(ad'.image) = Spelling(ad.image) /\ CopyOf(rj'.ad, ad) /\ cache' = cache
<1>0. /\ CopyOf(NoAppDeployment, ad) /\ RevIdle.ad = NoAppDeployment
      /\ rj \in RevWorker /\ CopyOf(rj.ad, ad) /\ CopyOf(cache.ad, ad)
  BY NothingCopied DEF ImagesKept, RevIdle, Typed, TypeOK
<1>1. \A j, retry : Observing(j, retry).ad = NoAppDeployment
  BY <1>0 DEF Observing, RevIdle
<1>2. CASE \E r \in RevIds : RevBegin(r) \/ OtherPhase(r) \/ OtherSpec(r)
  <2>1. PICK r \in RevIds : RevBegin(r) \/ OtherPhase(r) \/ OtherSpec(r)
    BY <1>2
  <2>2. CASE RevBegin(r)
    BY <1>0, <2>2 DEF RevBegin, RevIdle, Grown
  <2>3. CASE OtherPhase(r)
    BY <1>0, <2>3 DEF OtherPhase, RevHeard, RevWorker, Grown
  <2>4. CASE OtherSpec(r)
    BY <1>0, <2>4 DEF OtherSpec, RevWorker, Grown
  <2> QED  BY <2>1, <2>2, <2>3, <2>4
<1>3. CASE ForgetRevision \/ ClearOrigin
  BY ZenonT(60), <1>0, <1>1, <1>3 DEF ForgetRevision, ClearOrigin, RevHeard, RevWorker, Grown
<1>4. CASE ReadAppDeployment
  BY <1>0, <1>1, <1>4 DEF ReadAppDeployment, clusterVars, RevWorker, Grown
<1>5. CASE ActivatePhase \/ SwitchDeployment \/ SyncRevision
  BY <1>0, <1>5 DEF ActivatePhase, SwitchDeployment, SyncRevision, RevHeard,
                    RevWorker, Grown
<1>6. CASE MarkAppDeployment
  <2>1. /\ Marked \in AppDeployment /\ Marked.rv = rj.ad.rv
        /\ Marked.image = Spelling(rj.ad.image) /\ rj.ad \in AppDeployment
    BY <1>0, SpellingTyped DEF Marked, RevWorker, AppDeployment
  <2>2. Accepts(Marked, ad) => Accepts(rj.ad, ad)
    BY <2>1 DEF Accepts
  <2>3. ad' = ad \/ (Accepts(Marked, ad) /\ ad' = Stored(ad, Marked))
    BY <1>6 DEF MarkAppDeployment
  <2>4. Grown /\ Spelling(ad'.image) = Spelling(ad.image)
    BY <1>0, <2>1, <2>2, <2>3, WriteKeepsImage DEF Grown
  <2>5. rj'.ad = NoAppDeployment
    BY <1>1, <1>6 DEF MarkAppDeployment
  <2> QED  BY <1>0, <1>6, <2>4, <2>5 DEF MarkAppDeployment
<1>7. CASE ObserveGeneration
  BY <1>0, <1>7 DEF ObserveGeneration, Grown
<1> QED  BY <1>2, <1>3, <1>4, <1>5, <1>6, <1>7 DEF RevStep

\* What everybody else does to the AppDeployment and its copies.
LEMMA OthersKeepCopies ==
    ASSUME Typed, ImagesKept,
           \/ (User \/ ReportStatus \/ Collect \/ Deliver) /\ UNCHANGED <<aj, rj>>
           \/ Restart \/ Resync
    PROVE  /\ Grown
           /\ UserEditKept
           /\ cache'.ad = cache.ad \/ cache'.ad = ad'
           /\ aj'.ad \in {aj.ad, NoAppDeployment} /\ rj'.ad \in {rj.ad, NoAppDeployment}
<1>0. /\ ad.rv \in Nat /\ ad \in AppDeployment /\ cache \in Cache
      /\ AdIdle.ad = NoAppDeployment /\ RevIdle.ad = NoAppDeployment
  BY AdsTyped DEF Typed, TypeOK, ClusterTypeOK, AppDeployment, AdIdle, RevIdle
<1>1. CASE User /\ UNCHANGED <<aj, rj>>
  <2>1. CASE \E i \in Images : EditImage(i)
    <3>1. PICK i \in Images : EditImage(i)
      BY <2>1
    <3>2. ad' = ad \/ ad'.rv = ad.rv + 1
      BY <1>0, <3>1 DEF EditImage, Stored, AppDeployment
    <3>3. budget'.edits < budget.edits
      BY <3>1 DEF EditImage, Typed, TypeOK, ClusterTypeOK, Budget
    <3> QED  BY <1>0, <1>1, <3>1, <3>2, <3>3 DEF EditImage, Grown, UserEditKept
  <2>2. CASE DeleteAppDeployment
    <3>1. ad'.rv = ad.rv + 1 /\ ad'.image = ad.image
      BY <1>0, <2>2 DEF DeleteAppDeployment, Deleted, AppDeployment
    <3> QED  BY <1>0, <1>1, <2>2, <3>1 DEF DeleteAppDeployment, Grown, UserEditKept
  <2>3. CASE ProvideSecret \/ \E r \in RevIds : Activate(r)
    BY <1>1, <2>3 DEF ProvideSecret, Activate, Grown, UserEditKept
  <2> QED  BY <1>1, <2>1, <2>2, <2>3 DEF User
<1>2. CASE (ReportStatus \/ Collect) /\ UNCHANGED <<aj, rj>>
  BY <1>2 DEF ReportStatus, Collect, CollectDeployment, CollectRevision, CollectModule,
              Grown, UserEditKept
<1>3. CASE Deliver /\ UNCHANGED <<aj, rj>>
  BY <1>0, <1>3 DEF Deliver, DeliverAppDeployment, DeliverDeployment, DeliverRevision,
                    Cache, Grown, UserEditKept
<1>4. CASE Restart \/ Resync
  BY <1>0, <1>4 DEF Restart, Resync, Grown, UserEditKept
<1> QED  BY <1>1, <1>2, <1>3, <1>4

LEMMA NextImagesKept ==
    ASSUME Typed, ImagesKept, [Next]_vars
    PROVE  ImagesKept' /\ UserEditKept /\ Grown
<1>0. /\ Typed' /\ ad.rv \in Nat /\ ad'.rv \in Nat /\ cache'.ad \in AppDeployment
      /\ aj'.ad \in AppDeployment /\ rj'.ad \in AppDeployment
  <2>1. Typed'
    BY NextTyped
  <2> QED  BY <2>1, AdsTyped
           DEF Typed, TypeOK, ClusterTypeOK, Cache, AdWorker, RevWorker, AppDeployment
<1>1. CopyOf(NoAppDeployment, ad) /\ CopyOf(ad', ad')
  BY <1>0, NothingCopied DEF CopyOf
<1>2. /\ Grown /\ UserEditKept
      /\ cache'.ad = ad' \/ CopyOf(cache'.ad, ad)
      /\ CopyOf(aj'.ad, ad) /\ CopyOf(rj'.ad, ad)
  <2>1. CASE UNCHANGED vars
    BY <2>1 DEF vars, Grown, UserEditKept, ImagesKept
  <2>2. CASE AdStep /\ UNCHANGED rj
    BY <2>2, AdStepKeepsImage DEF ImagesKept, UserEditKept
  <2>3. CASE RevStep /\ UNCHANGED aj
    BY <2>3, RevStepKeepsImage DEF ImagesKept, UserEditKept
  <2>4. CASE \/ (User \/ ReportStatus \/ Collect \/ Deliver) /\ UNCHANGED <<aj, rj>>
             \/ Restart \/ Resync
    <3>1. /\ Grown /\ UserEditKept
          /\ cache'.ad = cache.ad \/ cache'.ad = ad'
          /\ aj'.ad \in {aj.ad, NoAppDeployment} /\ rj'.ad \in {rj.ad, NoAppDeployment}
      BY <2>4, OthersKeepCopies
    <3> QED  BY <1>1, <3>1 DEF ImagesKept
  <2> QED  BY <2>1, <2>2, <2>3, <2>4 DEF Next, Step
<1>3. ad'.rv > 0
  BY <1>0, <1>2 DEF Grown, ImagesKept
<1>4. CopyOf(cache'.ad, ad') /\ CopyOf(aj'.ad, ad') /\ CopyOf(rj'.ad, ad')
  BY <1>0, <1>1, <1>2, CopiesGrowOld
<1> QED  BY <1>2, <1>3, <1>4 DEF ImagesKept

\* The image of the AppDeployment changes by the user's hand only, whatever
\* the copies the Revision controller's deferred update and the AppDeployment
\* controller's handleRevisionChanges send back, and whenever they were read.
THEOREM UserEditsKept == Spec => NoUserEditLost
<1>1. Typed /\ ImagesKept /\ [Next]_vars => Typed' /\ ImagesKept'
  BY NextTyped, NextImagesKept
<1>2. Typed /\ ImagesKept /\ [Next]_vars
         => [UserEditKept]_vars
  BY NextImagesKept
<1> QED  BY InitTyped, InitImagesKept, <1>1, <1>2, PTL DEF Spec, NoUserEditLost

=============================================================================
