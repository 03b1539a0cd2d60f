------------------------ MODULE ModuleLifecycleProofs ------------------------
(***************************************************************************)
(* ModuleOperator implements RevisionLifecycle: with the AppModule         *)
(* controller, too, which mints ids and creates Revisions of its own.      *)
(*                                                                         *)
(* The argument of LifecycleProofs, and one thing more: the ids that the   *)
(* AppDeployment worker and the AppModule worker have in hand at the same  *)
(* time are different ones, so neither creates the other's Revision.       *)
(***************************************************************************)
EXTENDS ModuleProofs, LifecycleProofs

\* The AppDeployment worker may still create a Revision with this id.
AdHolds(j, id) ==
    /\ j.id = id
    /\ \/ j.pc \in {"module", "subdomain", "service"} /\ j.id # j.ad.cur
       \/ j.pc \in {"list", "phase", "spec", "create"}

\* The id in the AppModule worker's hands is new, and nobody else's.
ModMinting ==
    mj.pc \in {"record", "list", "phase", "create"} => New(mj.id) /\ ~AdHolds(aj, mj.id)

ThreeLives == ThreeTyped /\ LifeInv /\ ModMinting

LEMMA ThreeLivesTyped ==
    ASSUME ThreeTyped
    PROVE  Typed /\ mj \in ModWorker /\ aj \in AdWorker /\ lyra \in LyraState /\ budget \in Budget
BY DEF ThreeTyped, ThreeTypeOK, ModuleTypeOK, Typed, TypeOK, ClusterTypeOK

-----------------------------------------------------------------------------
(* What the AppDeployment worker has in hand it had before, or was just    *)
(* given by Lyra.                                                          *)

LEMMA AfterObjectsHolds ==
    ASSUME NEW j \in AdWorker, NEW id
    PROVE  /\ AdHolds(AfterObjects(j), id) => j.id = id /\ j.id # j.ad.cur
           /\ AdHolds(AfterModule(j), id) => j.id = id /\ j.id # j.ad.cur
           /\ ~AdHolds(AdIdle, id)
<1>1. AdIdle.pc = "idle" /\ AdIdle \in AdWorker
  BY NothingTyped DEF AdIdle
<1>2. ~AdHolds(AdIdle, id)
  BY <1>1 DEF AdHolds
<1>3. AdHolds(AfterObjects(j), id) => j.id = id /\ j.id # j.ad.cur
  <2>1. CASE j.id = NoRev \/ (j.ad.cur = j.id /\ ~j.ad.marker)
    BY <1>2, <2>1 DEF AfterObjects
  <2>2. CASE ~(j.id = NoRev \/ (j.ad.cur = j.id /\ ~j.ad.marker))
    <3> DEFINE k == AfterObjects(j)
    <3>1. k = [AdIdle EXCEPT !.ad = j.ad, !.id = j.id,
                             !.pc = IF j.ad.marker THEN "mark" ELSE "list"]
      BY <2>2 DEF AfterObjects
    <3>2. k.id = j.id /\ k.pc = IF j.ad.marker THEN "mark" ELSE "list"
      BY <1>1, <3>1 DEF AdWorker
    <3> HIDE DEF k
    <3>3. AdHolds(k, id) => j.id = id /\ j.id # j.ad.cur
      BY <2>2, <3>2 DEF AdHolds
    <3> QED  BY <3>3 DEF k
  <2> QED  BY <2>1, <2>2
<1>4. AdHolds(AfterModule(j), id) => j.id = id /\ j.id # j.ad.cur
  <2>1. /\ [j EXCEPT !.pc = "service"].pc = "service" /\ [j EXCEPT !.pc = "service"].id = j.id
        /\ [j EXCEPT !.pc = "service"].ad = j.ad
    BY DEF AdWorker
  <2>2. AdHolds([j EXCEPT !.pc = "service"], id) => j.id = id /\ j.id # j.ad.cur
    BY <2>1 DEF AdHolds
  <2> QED  BY <1>3, <2>2 DEF AfterModule
<1> QED  BY <1>2, <1>3, <1>4

LEMMA AdHoldsFrom ==
    ASSUME Typed, [Next]_vars, NEW id \in RevIds, AdHolds(aj', id)
    PROVE  AdHolds(aj, id) \/ id > lyra.minted
<1>1. /\ aj \in AdWorker /\ lyra \in LyraState
      /\ AdIdle \in AdWorker /\ AdIdle.pc = "idle"
  BY NothingTyped DEF Typed, TypeOK, ClusterTypeOK, AdIdle
<1>2. ~AdHolds(AdIdle, id) /\ ~AdFail
  BY <1>1, AfterObjectsHolds DEF AdFail
<1>3. CASE aj' = aj
  BY <1>3
<1>4. CASE AdStep
  <2>1. CASE AdBegin \/ HandleAppDeploymentChanges
    <3>1. aj'.pc \in {"idle", "apply", "deleteApp", "sync"}
      BY <1>1, <2>1 DEF AdBegin, AdFail, HandleAppDeploymentChanges, AdHeard, Changed, Same,
                        AdWorker
    <3> QED  BY <3>1 DEF AdHolds
  <2>2. CASE SyncApp
    <3> DEFINE cur       == aj.ad.cur
               answer(i) == [aj EXCEPT !.id = i]
    <3>1. /\ cur \in 0 .. MaxRevs /\ Reply(cur) \in RevIds
          /\ NoRev \in 0 .. MaxRevs /\ Reply(cur) \in 0 .. MaxRevs
      BY <1>1, <2>2, RevsAssumption DEF SyncApp, AdWorker, AppDeployment, RevIds, NoRev
    <3>2. \E i \in {NoRev, Reply(cur)} :
             aj' \in {[answer(i) EXCEPT !.pc = "module"], AfterModule(answer(i))}
      BY <1>2, <2>2 DEF SyncApp
    <3>3. PICK i \in {NoRev, Reply(cur)} :
             aj' \in {[answer(i) EXCEPT !.pc = "module"], AfterModule(answer(i))}
      BY <3>2
    <3>4. /\ answer(i) \in AdWorker /\ answer(i).id = i /\ answer(i).ad.cur = cur
          /\ [answer(i) EXCEPT !.pc = "module"].id = i
          /\ [answer(i) EXCEPT !.pc = "module"].ad.cur = cur
          /\ [answer(i) EXCEPT !.pc = "module"].pc = "module"
      BY <1>1, <3>1, <3>3 DEF AdWorker
    <3> HIDE DEF answer, cur
    <3>5. id = i /\ i # cur
      <4>1. CASE aj' = [answer(i) EXCEPT !.pc = "module"]
        BY <3>4, <4>1 DEF AdHolds
      <4>2. CASE aj' = AfterModule(answer(i))
        BY <3>4, <4>2, AfterObjectsHolds
      <4> QED  BY <3>3, <4>1, <4>2
    <3>6. id = lyra.minted + 1
      BY <3>3, <3>5 DEF Reply, RevIds, NoRev
    <3> QED  BY <1>1, <3>6 DEF LyraState
  <2>3. CASE CreateModule \/ CreateSubdomain \/ HandleServiceChanges
    <3>1. aj' \in {AdIdle, [aj EXCEPT !.pc = "subdomain"], AfterModule(aj), AfterObjects(aj)}
      BY <1>2, <2>3 DEF CreateModule, CreateSubdomain, HandleServiceChanges
    <3>2. /\ [aj EXCEPT !.pc = "subdomain"].id = aj.id
          /\ [aj EXCEPT !.pc = "subdomain"].ad = aj.ad
          /\ [aj EXCEPT !.pc = "subdomain"].pc = "subdomain"
      BY <1>1 DEF AdWorker
    <3>3. AdHolds([aj EXCEPT !.pc = "subdomain"], id) => aj.id = id /\ aj.id # aj.ad.cur
      BY <3>2 DEF AdHolds
    <3>4. aj.id = id /\ aj.id # aj.ad.cur
      BY <1>1, <1>2, <3>1, <3>3, AfterObjectsHolds
    <3> QED  BY <2>3, <3>4
             DEF CreateModule, CreateSubdomain, HandleServiceChanges, AdHolds
  <2>4. CASE ListRevisions \/ \E r \in RevIds : RetirePhase(r) \/ RetireSpec(r)
    <3>1. aj'.id = aj.id /\ aj.pc \in {"list", "phase", "spec"}
      BY ZenonT(60), <1>1, <2>4 DEF ListRevisions, RetirePhase, RetireSpec, AdHeard, AdWorker
    <3> QED  BY <3>1 DEF AdHolds
  <2>5. CASE ConsumeMarker \/ CreateRevision \/ Prune \/ DeleteApp \/ DeleteService
    <3>1. aj'.pc \in {"idle", "prune", "deleteService"}
      BY <1>1, <2>5 DEF ConsumeMarker, CreateRevision, AdHeard, Prune, DeleteApp,
                        DeleteService, AdFail, AdWorker
    <3> QED  BY <3>1 DEF AdHolds
  <2> QED  BY <1>4, <2>1, <2>2, <2>3, <2>4, <2>5 DEF AdStep
<1>5. CASE Restart
  BY <1>2, <1>5 DEF Restart
<1> QED  BY <1>3, <1>4, <1>5 DEF Next, Step, Resync, vars

-----------------------------------------------------------------------------
(* What a step of the AppModule worker does to the Revisions.              *)

\* It creates a Revision without a status.
CreatesBare(r, x) ==
    /\ mj.pc = "create" /\ mj.id = r /\ mj'.pc \in {"activate", "observe"}
    /\ ~rev[r].live /\ rev' = [rev EXCEPT ![r] = x]
    /\ x.live /\ x.status = "" /\ x.rv = rev[r].rv + 1
    /\ lyra' = lyra /\ UNCHANGED budget.switches

WritesBare == \E r \in RevIds : \E x \in Revision : CreatesBare(r, x)

LEMMA ModHeardSwitches ==
    ASSUME budget \in Budget, NEW done, NEW failed, ModHeard(done, failed)
    PROVE  UNCHANGED budget.switches
BY SwitchesKept DEF ModHeard

LEMMA ModStepWrites ==
    ASSUME ThreeLives, ModStep
    PROVE  Writes \/ Keeps \/ WritesBare
<1>1. /\ Typed /\ budget \in Budget /\ lyra \in LyraState /\ mj \in ModWorker
      /\ lyra.minted <= lyra.minted
  BY ThreeLivesTyped DEF ThreeLives, LyraState
<1>2. \A r \in RevIds : rev[r] \in Revision /\ mj.list[r] \in Revision
  BY <1>1, RevsTyped DEF ModWorker
<1>3. CASE ModBegin \/ ModClearOrigin \/ RecordRevisionId \/ ModListRevisions
           \/ CreateFunction \/ ModObserve
  BY <1>1, <1>3, SwitchesKept, RefusedSwitches, ModHeardSwitches
     DEF ModBegin, ModClearOrigin, RecordRevisionId, ModListRevisions, CreateFunction,
         ModObserve, clusterVars, Keeps
<1>4. CASE SyncModule
  <2>1. PICK id \in RevIds, call \in Calls :
           Asked(call, [lyra EXCEPT !.minted = IF id > @ THEN id ELSE @])
    BY <1>4 DEF SyncModule
  <2>2. /\ [lyra EXCEPT !.minted = IF id > @ THEN id ELSE @].forgotten = lyra.forgotten
        /\ lyra.minted <= [lyra EXCEPT !.minted = IF id > @ THEN id ELSE @].minted
    BY <1>1 DEF LyraState, RevIds
  <2>3. /\ lyra' \in {lyra, [lyra EXCEPT !.minted = IF id > @ THEN id ELSE @]}
        /\ (UNCHANGED budget) \/ Fault
    BY <2>1 DEF Asked
  <2>4. rev' = rev
    BY <1>4 DEF SyncModule
  <2> QED  BY <1>1, <2>2, <2>3, <2>4, SwitchesKept DEF Keeps
<1>5. CASE \E r \in RevIds : ModRetire(r)
  <2>1. PICK r \in RevIds : ModRetire(r)
    BY <1>5
  <2> DEFINE held == ModRetired(mj.list[r])
  <2>2. held \in Revision
    BY <1>2 DEF ModRetired, Revision, Status
  <2> HIDE DEF held
  <2>3. UNCHANGED budget.switches /\ lyra' = lyra
    BY <1>1, <2>1, RefusedSwitches DEF ModRetire
  <2>4. \/ rev' = rev
        \/ Accepts(held, rev[r]) /\ rev' = [rev EXCEPT ![r] = PutStatus(rev[r], held)]
    BY <2>1 DEF ModRetire, held
  <2> QED  BY <1>1, <2>2, <2>3, <2>4, WritesStatus DEF Keeps, Accepts
<1>6. CASE ModCreateRevision
  <2> DEFINE r   == mj.id
             new == [rev[r] EXCEPT !.live = TRUE, !.image = Spelling(mj.ad.image),
                                   !.status = "",
                                   !.phase = "", !.gen = 1, !.obs = 0, !.origin = FALSE]
  <2>1. r \in RevIds /\ mj.pc = "create"
    BY <1>6 DEF ModCreateRevision, ThreeLives, ThreeTyped, IdKnown
  <2>2. Spelling(mj.ad.image) \in OptImage
    BY <1>1, SpellingTyped DEF ModWorker, AppDeployment
  <2>3. new \in Revision /\ new.live /\ new.status = ""
    <3>1. rev[r] \in Revision
      BY <1>2, <2>1
    <3> QED  BY <2>2, <3>1 DEF Revision, Status
  <2>4. UNCHANGED budget.switches /\ lyra' = lyra
    BY <1>1, <1>6, SwitchesKept, ModHeardSwitches DEF ModCreateRevision
  <2>5. rev' = rev \/ (~rev[r].live /\ rev' = [rev EXCEPT ![r] = Stored(rev[r], new)])
    BY <1>6 DEF ModCreateRevision, NewId
  <2> HIDE DEF new
  <2>6. ~rev[r].live => /\ Stored(rev[r], new).live /\ Stored(rev[r], new).status = ""
                        /\ Stored(rev[r], new).rv = rev[r].rv + 1
    BY <1>2, <2>1, <2>3 DEF Stored, Revision
  <2>7. Stored(rev[r], new) \in Revision
    BY <1>2, <2>1, <2>3, StoredRevision
  <2>8. mj'.pc \in {"activate", "observe"}
    <3>1. ModObserving(FALSE).pc = "observe"
      BY NoModuleTyped DEF ModObserving, ModWorker, ModIdle
    <3> QED  BY <1>1, <1>6, <3>1 DEF ModCreateRevision, ModHeard, ModWorker
  <2>9. CASE ~rev[r].live /\ rev' = [rev EXCEPT ![r] = Stored(rev[r], new)]
    <3>1. CreatesBare(r, Stored(rev[r], new))
      BY <2>1, <2>4, <2>6, <2>8, <2>9 DEF CreatesBare
    <3> QED  BY <2>1, <2>7, <3>1 DEF WritesBare
  <2> QED  BY <1>1, <2>4, <2>5, <2>9 DEF Keeps
<1>7. CASE ModActivate
  <2> DEFINE held == [mj.new EXCEPT !.phase = "Active"]
  <2>1. held \in Revision /\ mj.id \in RevIds
    BY <1>1, <1>7 DEF ModActivate, ModWorker, Revision, Status, ThreeLives, ThreeTyped, IdKnown
  <2> HIDE DEF held
  <2>2. UNCHANGED budget.switches /\ lyra' = lyra
    BY <1>1, <1>7, RefusedSwitches, ModHeardSwitches DEF ModActivate
  <2>3. \/ rev' = rev
        \/ /\ Accepts(held, rev[mj.id])
           /\ rev' = [rev EXCEPT ![mj.id] = PutStatus(rev[mj.id], held)]
    BY <1>7 DEF ModActivate, NewId, held
  <2> QED  BY <1>1, <2>1, <2>2, <2>3, WritesStatus DEF Keeps, Accepts
<1>8. CASE ModPrune
  <2>1. UNCHANGED budget.switches /\ lyra' = lyra
    BY <1>1, <1>8, SwitchesKept DEF ModPrune
  <2>2. \/ rev' = rev
        \/ \E r : rev[r].live /\ rev' = [rev EXCEPT ![r] = Deleted(rev[r])]
    BY <1>8 DEF ModPrune
  <2>3. \/ rev' = rev
        \/ \E r \in RevIds : rev[r].live /\ rev' = [rev EXCEPT ![r] = Deleted(rev[r])]
    BY <1>1, <2>2 DEF Typed, TypeOK, ClusterTypeOK
  <2> QED  BY <1>1, <2>1, <2>3, WritesDeleted DEF Keeps
<1> QED  BY <1>3, <1>4, <1>5, <1>6, <1>7, <1>8 DEF ModStep

\* A Revision's version grows with every write of the worker, and only its
\* creation makes it live.
ModEvolves(r) ==
    /\ rev'[r] = rev[r] \/ rev'[r].rv > rev[r].rv
    /\ rev'[r].live => rev[r].live \/ rev[r].rv = 0
    /\ rev[r].rv = 0 => rev'[r] = rev[r] \/ (mj.pc = "create" /\ mj.id = r)

LEMMA ModRevsEvolve ==
    ASSUME ThreeLives, ThreeTyped', ModStep, UNCHANGED <<aj, rj>>
    PROVE  /\ \A r \in RevIds : ModEvolves(r)
           /\ lyra.minted <= lyra'.minted
           /\ Born'
<1>1. /\ Typed /\ Typed' /\ LifeInv
      /\ rev \in [RevIds -> Revision] /\ \A r \in RevIds : rev[r].rv \in Nat
      /\ lyra.minted \in Nat /\ lyra.minted <= lyra.minted
  <2>1. Typed /\ Typed' /\ LifeInv
    BY ThreeLivesTyped DEF ThreeLives, ThreeTyped, ThreeTypeOK, Typed
  <2> QED  BY <2>1 DEF Typed, TypeOK, ClusterTypeOK, Revision, LyraState
<1>2. \A r : ~Creates(r)
  BY DEF Creates
<1>3. CASE Writes \/ Keeps
  BY <1>1, <1>2, <1>3, RevsEvolve DEF Evolves, ModEvolves
<1>4. CASE WritesBare
  <2>1. PICK r \in RevIds, x \in Revision : CreatesBare(r, x)
    BY <1>4 DEF WritesBare
  <2>2. /\ rev'[r] = x /\ \A s \in RevIds \ {r} : rev'[s] = rev[s]
        /\ lyra' = lyra /\ x.live /\ x.rv = rev[r].rv + 1
        /\ mj.pc = "create" /\ mj.id = r
    BY <1>1, <2>1 DEF CreatesBare
  <2>3. New(r)
    BY <2>2 DEF ThreeLives, ModMinting
  <2>4. \A s \in RevIds : ModEvolves(s)
    BY <1>1, <2>2, <2>3 DEF ModEvolves, New
  <2>5. x.rv > 0 /\ r \notin lyra.forgotten /\ r <= lyra.minted
    BY <1>1, <2>2, <2>3 DEF LifeInv, Born, New
  <2> QED  BY <1>1, <2>2, <2>4, <2>5 DEF LifeInv, Born
<1> QED  BY <1>3, <1>4, ModStepWrites

-----------------------------------------------------------------------------
(* The invariant is kept.                                                  *)

\* By a step of the AppModule worker: nobody's copies change, the Revisions
\* they are copies of only grow, and the other worker's new id stays new.
LEMMA ModStepKeepsLife ==
    ASSUME ThreeLives, ThreeTyped', ModStep, UNCHANGED <<aj, rj>>
    PROVE  LifeInv'
<1>1. /\ Typed /\ Typed' /\ LifeInv /\ lyra \in LyraState /\ lyra' \in LyraState
      /\ \A r \in RevIds : rev'[r] \in Revision
  <2>1. Typed /\ Typed' /\ LifeInv
    BY ThreeLivesTyped DEF ThreeLives, ThreeTyped, ThreeTypeOK, Typed
  <2> QED  BY <2>1 DEF Typed, TypeOK, ClusterTypeOK
<1>2. (\A r \in RevIds : ModEvolves(r)) /\ lyra.minted <= lyra'.minted /\ Born'
  BY ModRevsEvolve
<1>3. UNCHANGED <<cache, aj, rj>> /\ queue' = queue
  BY DEF ModStep, ModBegin, ModClearOrigin, SyncModule, RecordRevisionId, ModListRevisions,
         ModRetire, ModCreateRevision, ModActivate, ModPrune, CreateFunction, ModObserve,
         clusterVars
<1>4. RevCopies'
  <2> SUFFICES ASSUME NEW r \in RevIds
               PROVE  /\ RevCopy(cache.rev[r], rev'[r])
                      /\ RevCopy(aj.list[r], rev'[r])
                      /\ RevCopy(rj.list[r], rev'[r])
    BY <1>3 DEF RevCopies
  <2>1. /\ rev[r].rv \in Nat /\ rev'[r].rv \in Nat /\ cache.rev[r].rv \in Nat
        /\ aj.list[r].rv \in Nat /\ rj.list[r].rv \in Nat
    BY <1>1, RevsTyped DEF Revision
  <2>2. ASSUME NEW copy, copy.rv \in Nat, RevCopy(copy, rev[r])
        PROVE  RevCopy(copy, rev'[r])
    BY <1>2, <2>1, <2>2 DEF ModEvolves, RevCopy
  <2> QED  BY <1>1, <2>1, <2>2 DEF LifeInv, RevCopies
<1>5. Seen'
  BY <1>1, <1>3 DEF LifeInv, Seen
<1>6. Forgetting'
  <2>1. rj.pc = "forget" => rj.key \in RevIds
    BY <1>1 DEF Typed, KeyKnown
  <2>2. ASSUME NEW r \in RevIds, rev[r].rv > 0, ~rev[r].live
        PROVE  rev'[r].rv > 0 /\ ~rev'[r].live
    <3>1. rev[r].rv \in Nat /\ rev'[r].rv \in Nat
      BY <1>1, RevsTyped DEF Revision
    <3> QED  BY <1>2, <2>2, <3>1 DEF ModEvolves
  <2> QED  BY <1>1, <1>3, <2>1, <2>2 DEF LifeInv, Forgetting
<1>7. Minting'
  <2>1. ASSUME NEW id, New(id), AdHolds(aj, id)
        PROVE  NewNext(id)
    <3>1. mj.pc = "create" => mj.id # id
      BY <2>1 DEF ThreeLives, ModMinting
    <3> QED  BY <1>1, <1>2, <2>1, <3>1 DEF New, NewNext, ModEvolves, LyraState, RevIds
  <2>2. Minted(aj)
    BY <1>1, <2>1 DEF LifeInv, Minting, Minted, AdHolds
  <2> QED  BY <1>3, <2>2 DEF Minted, Minting, New, NewNext
<1> QED  BY <1>2, <1>4, <1>5, <1>6, <1>7 DEF LifeInv

\* By everybody else: the id that the AppModule worker has in hand stays new,
\* and what the AppDeployment worker is given is newer.
LEMMA NextKeepsMinting ==
    ASSUME ThreeLives, ThreeTyped', [Next]_vars, mj' \in {mj, ModIdle}
    PROVE  ModMinting'
<1>1. /\ Typed /\ Typed' /\ LifeInv /\ lyra \in LyraState /\ lyra' \in LyraState
  <2>1. Typed /\ Typed' /\ LifeInv
    BY ThreeLivesTyped DEF ThreeLives, ThreeTyped, ThreeTypeOK, Typed
  <2> QED  BY <2>1 DEF Typed, TypeOK, ClusterTypeOK
<1>2. CASE mj' = ModIdle
  BY <1>2 DEF ModMinting, ModIdle
<1>3. CASE mj' = mj
  <2> SUFFICES ASSUME mj.pc \in {"record", "list", "phase", "create"}
               PROVE  NewNext(mj.id) /\ ~AdHolds(aj', mj.id)
    BY <1>3 DEF ModMinting, New, NewNext
  <2>1. New(mj.id) /\ ~AdHolds(aj, mj.id) /\ mj.id \in RevIds
    BY DEF ThreeLives, ModMinting, New
  <2>2. Evolves(mj.id) /\ lyra.minted <= lyra'.minted
    BY <1>1, <2>1, StepWrites, RevsEvolve
  <2>3. ~Creates(mj.id)
    BY <2>1 DEF Creates, AdHolds
  <2>4. NewNext(mj.id)
    BY <1>1, <2>1, <2>2, <2>3 DEF New, NewNext, Evolves, LyraState, RevIds
  <2>5. ~(mj.id > lyra.minted)
    BY <1>1, <2>1 DEF New, LyraState, RevIds
  <2> QED  BY <1>1, <2>1, <2>4, <2>5, AdHoldsFrom
<1> QED  BY <1>2, <1>3

\* By the AppModule worker: Lyra gives it the current id, which ends its work,
\* or one it has not minted before.
LEMMA ModStepKeepsMinting ==
    ASSUME ThreeLives, ThreeTyped', ModStep, UNCHANGED <<aj, rj>>
    PROVE  ModMinting'
<1>1. /\ Typed /\ Typed' /\ LifeInv /\ lyra \in LyraState /\ lyra' \in LyraState
      /\ mj \in ModWorker
  <2>1. Typed /\ Typed' /\ LifeInv
    BY ThreeLivesTyped DEF ThreeLives, ThreeTyped, ThreeTypeOK, Typed
  <2> QED  BY <2>1, ThreeLivesTyped DEF Typed, TypeOK, ClusterTypeOK, ThreeLives
<1>2. (\A r \in RevIds : ModEvolves(r)) /\ lyra.minted <= lyra'.minted
  BY ModRevsEvolve
<1>3. \A retry, own : /\ ModObserving(retry).pc = "observe"
                      /\ [ModObserving(retry) EXCEPT !.own = own].pc = "observe"
  BY NoModuleTyped DEF ModObserving, ModWorker, ModIdle
<1>4. ASSUME mj'.pc \in {"record", "list", "phase", "create"}, mj'.id = mj.id,
             mj.pc \in {"record", "list", "phase"}
      PROVE  ModMinting'
  <2>1. New(mj.id) /\ ~AdHolds(aj, mj.id) /\ mj.id \in RevIds
    BY <1>4 DEF ThreeLives, ModMinting, New
  <2>2. NewNext(mj.id)
    BY <1>1, <1>2, <1>4, <2>1 DEF New, NewNext, ModEvolves, LyraState, RevIds
  <2> QED  BY <1>4, <2>1, <2>2 DEF ModMinting, New, NewNext
<1>5. CASE SyncModule
  <2>1. PICK id \in ModReplies \cap RevIds, call \in Calls :
            /\ Asked(call, [lyra EXCEPT !.minted = IF id > @ THEN id ELSE @])
            /\ mj' = CASE call.how = "answered" -> AfterSync(id)
                       [] call.how = "empty"    -> AfterSync(NoRev)
                       [] OTHER                 -> ModObserving(TRUE)
    BY <1>5 DEF SyncModule
  <2>2. CASE call.how = "answered" /\ id \notin {NoRev, mj.ad.cur}
    <3>1. id = lyra.minted + 1 /\ id \in RevIds
      BY <2>1, <2>2 DEF ModReplies
    <3>2. mj' = [mj EXCEPT !.pc = "record", !.id = id]
      BY <2>1, <2>2 DEF AfterSync
    <3>3. mj'.id = id
      BY <1>1, <3>2 DEF ModWorker
    <3>4. lyra'.minted = id
      <4>1. call.took
        BY <2>2 DEF Calls
      <4> QED  BY <1>1, <2>1, <3>1, <4>1 DEF Asked, LyraState
    <3>5. NewNext(id)
      <4>1. rev[id].rv = 0
        <5>1. rev[id].rv \in Nat
          BY <1>1, <3>1, RevsTyped DEF Revision
        <5> QED  BY <1>1, <3>1, <5>1 DEF LifeInv, Born, LyraState
      <4>2. rev' = rev
        BY <1>5 DEF SyncModule
      <4>3. id <= id
        BY <3>1 DEF RevIds
      <4> QED  BY <3>1, <3>4, <4>1, <4>2, <4>3 DEF NewNext
    <3>6. ~AdHolds(aj, id)
      <4>1. AdHolds(aj, id) => New(id)
        BY <3>1 DEF AdHolds, LifeInv, Minting, ThreeLives, NoRev, RevIds
      <4> QED  BY <1>1, <3>1, <4>1 DEF New, LyraState, RevIds
    <3> QED  BY <3>3, <3>5, <3>6 DEF ModMinting, New, NewNext
  <2>3. CASE ~(call.how = "answered" /\ id \notin {NoRev, mj.ad.cur})
    <3>1. mj' \in {ModObserving(FALSE), ModObserving(TRUE)}
      BY <2>1, <2>3 DEF AfterSync
    <3> QED  BY <1>3, <3>1 DEF ModMinting
  <2> QED  BY <2>2, <2>3
<1>6. CASE RecordRevisionId
  <2>1. mj' \in {[mj EXCEPT !.pc = "list"], ModObserving(FALSE)} /\ mj.pc = "record"
    BY <1>6 DEF RecordRevisionId, ModHeard
  <2>2. [mj EXCEPT !.pc = "list"].pc = "list" /\ [mj EXCEPT !.pc = "list"].id = mj.id
    BY <1>1 DEF ModWorker
  <2>3. CASE mj' = [mj EXCEPT !.pc = "list"]
    BY <1>4, <2>1, <2>2, <2>3
  <2>4. CASE mj' = ModObserving(FALSE)
    BY <1>3, <2>4 DEF ModMinting
  <2> QED  BY <2>1, <2>3, <2>4
<1>7. CASE ModListRevisions \/ \E r \in RevIds : ModRetire(r)
  <2>1. /\ mj.pc \in {"list", "phase"} /\ mj'.pc \in {"create", "phase"}
        /\ mj'.id = mj.id
    BY <1>1, <1>7 DEF ModListRevisions, ModRetire, ModWorker
  <2> QED  BY <1>4, <2>1
<1>8. CASE ModBegin \/ ModClearOrigin \/ ModCreateRevision \/ ModActivate \/ ModPrune
           \/ CreateFunction \/ ModObserve
  <2>1. CASE ModBegin
    <3>1. ModIdle \in ModWorker /\ ModIdle.pc = "idle"
      BY NoModuleTyped DEF ModIdle
    <3>2. mj'.pc \in {"idle", "clear", "sync", "observe"}
      BY <2>1, <3>1 DEF ModBegin, ModIdle
    <3> QED  BY <3>2 DEF ModMinting
  <2>2. CASE ModClearOrigin
    <3>1. mj'.pc = "observe"
      BY <1>3, <2>2 DEF ModClearOrigin, ModHeard
    <3> QED  BY <3>1 DEF ModMinting
  <2>3. CASE ModCreateRevision
    <3>1. PICK x : mj' \in {[mj EXCEPT !.pc = "activate", !.new = x], ModObserving(FALSE)}
      BY <2>3 DEF ModCreateRevision, ModHeard
    <3>2. mj'.pc \in {"activate", "observe"}
      BY <1>1, <1>3, <3>1 DEF ModWorker
    <3> QED  BY <3>2 DEF ModMinting
  <2>4. CASE ModActivate
    <3>1. mj' \in {[mj EXCEPT !.pc = "prune", !.new = NoRevision], ModObserving(FALSE)}
      BY <2>4 DEF ModActivate, ModHeard
    <3>2. mj'.pc \in {"prune", "observe"}
      BY <1>1, <1>3, <3>1 DEF ModWorker
    <3> QED  BY <3>2 DEF ModMinting
  <2>5. CASE ModPrune
    <3>1. mj'.pc = "function"
      BY <1>1, <2>5 DEF ModPrune, ModWorker
    <3> QED  BY <3>1 DEF ModMinting
  <2>6. CASE CreateFunction
    <3>1. mj'.pc = "observe"
      BY <1>3, <2>6 DEF CreateFunction
    <3> QED  BY <3>1 DEF ModMinting
  <2>7. CASE ModObserve
    <3>1. mj' = ModIdle
      BY <2>7 DEF ModObserve
    <3> QED  BY <3>1 DEF ModMinting, ModIdle
  <2> QED  BY <1>8, <2>1, <2>2, <2>3, <2>4, <2>5, <2>6, <2>7
<1> QED  BY <1>5, <1>6, <1>7, <1>8 DEF ModStep

LEMMA ThreeLivesKept == ThreeLives /\ [ModuleNext]_modVars => ThreeLives'
<1> SUFFICES ASSUME ThreeLives, [ModuleNext]_modVars PROVE ThreeLives'
  OBVIOUS
<1>1. ThreeTyped /\ ThreeTyped' /\ Typed /\ LifeInv
  BY ModuleNextTyped, ThreeLivesTyped DEF ThreeLives
<1>2. CASE [Next]_vars /\ mj' \in {mj, ModIdle}
  BY <1>1, <1>2, LifeKept, NextKeepsMinting DEF ThreeLives
<1>3. CASE ModStep /\ UNCHANGED <<aj, rj>>
  BY <1>1, <1>3, ModStepKeepsLife, ModStepKeepsMinting DEF ThreeLives
<1> QED  BY <1>2, <1>3, ModuleSteps

-----------------------------------------------------------------------------
(* The refinement.                                                         *)

LEMMA BareLifecycle ==
    ASSUME ThreeLives, WritesBare
    PROVE  Lifecycle!Next
<1>1. PICK r \in RevIds, x \in Revision : CreatesBare(r, x)
  BY DEF WritesBare
<1>2. Typed /\ LifeInv /\ New(r)
  BY <1>1, ThreeLivesTyped DEF ThreeLives, ModMinting, CreatesBare
<1>3. /\ rev[r] \in Revision /\ rev[r].rv = 0 /\ rev \in [RevIds -> Revision]
      /\ ~rev[r].live
  BY <1>1, <1>2, RevsTyped DEF New, CreatesBare, Typed, TypeOK, ClusterTypeOK
<1>4. (r \in lyra.forgotten) = FALSE
  BY <1>2, <1>3 DEF LifeInv, Born
<1>5. Stage[r] = "unborn"
  BY <1>3, <1>4, Stages, StageIs
<1>6. StageOf(x, FALSE) = "bare"
  BY <1>1, Stages DEF CreatesBare
<1>7. Stage' = [Stage EXCEPT ![r] = "bare"]
  <2>1. Stage' = [s \in RevIds |-> StageOf(rev'[s], s \in lyra'.forgotten)]
    BY DEF Stage, StageOf
  <2>2. lyra' = lyra /\ rev'[r] = x /\ \A s \in RevIds \ {r} : rev'[s] = rev[s]
    BY <1>1, <1>3 DEF CreatesBare
  <2>3. StageOf(rev'[r], r \in lyra'.forgotten) = "bare"
    BY <1>4, <1>6, <2>2
  <2> QED  BY <2>1, <2>2, <2>3, StageIs
<1>8. Lifecycle!Create(r)
  BY <1>1, <1>5, <1>7 DEF Lifecycle!Create, Lifecycle!Move, CreatesBare
<1> QED  BY <1>8 DEF Lifecycle!Next

\* With three controllers that create and retire Revisions, two of which mint
\* ids, the life of every Revision is still the one RevisionLifecycle promises
\* (moduleHandleRevisionChanges next to the handlers of the other two).
THEOREM ThreeImplementLifecycle == ModuleSpec => LifecycleSpec
<1>1. ModuleInit => ThreeLives /\ Lifecycle!Init
  <2>1. ModuleInit => LifeInv /\ Lifecycle!Init
    BY InitLife, InitStage DEF ModuleInit
  <2>2. ModuleInit => ModMinting
    BY DEF ModuleInit, ModInit, ModIdle, ModMinting
  <2> QED  BY <2>1, <2>2, ModuleInitTyped DEF ThreeLives
<1>2. ThreeLives /\ [ModuleNext]_modVars => [Lifecycle!Next]_<<Stage, budget.switches>>
  <2> SUFFICES ASSUME ThreeLives, [ModuleNext]_modVars
               PROVE  Lifecycle!Next \/ UNCHANGED <<Stage, budget.switches>>
    OBVIOUS
  <2>1. ThreeTyped' /\ Typed /\ Typed' /\ LifeInv
    <3>1. ThreeTyped'
      BY ModuleNextTyped DEF ThreeLives
    <3> QED  BY <3>1, ThreeLivesTyped DEF ThreeLives, ThreeTyped, ThreeTypeOK, Typed
  <2>2. CASE [Next]_vars
    BY <2>1, <2>2, StepWrites, KeepsLifecycle, WritesLifecycle
  <2>3. CASE ModStep
    BY <2>1, <2>3, ModStepWrites, KeepsLifecycle, WritesLifecycle, BareLifecycle
  <2> QED  BY <2>2, <2>3, ModuleSteps
<1> QED  BY <1>1, <1>2, ThreeLivesKept, PTL DEF ModuleSpec, LifecycleSpec, Lifecycle!Spec

=============================================================================
