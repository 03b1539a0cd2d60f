--------------------------- MODULE LifecycleProofs ---------------------------
(***************************************************************************)
(* Operator implements RevisionLifecycle, for any number of revisions,     *)
(* activations, failures and restarts.                                     *)
(*                                                                         *)
(* The argument: Lyra mints every id once, so a Revision is created once;  *)
(* a copy of a Revision has an older version or is what is stored, so a    *)
(* write that is accepted never brings an older status back; and Lyra is   *)
(* told to forget only what the informers saw and then saw deleted.        *)
(***************************************************************************)
EXTENDS OperatorProofs

\* What was never created has no version; what was has an id Lyra minted; what
\* Lyra forgot is gone.
Born ==
    \A r \in RevIds :
        /\ rev[r].rv = 0 => rev[r] = NoRevision
        /\ rev[r].rv > 0 => r <= lyra.minted
        /\ r \in lyra.forgotten => rev[r].rv > 0 /\ ~rev[r].live

\* A copy is older than what is stored, or the same; deletion is for good.
RevCopy(copy, stored) ==
    /\ copy.rv <= stored.rv
    /\ copy.rv = stored.rv => copy = stored
    /\ copy.rv > 0 /\ ~copy.live => ~stored.live
    /\ copy.live => copy.rv > 0

RevCopies ==
    \A r \in RevIds :
        /\ RevCopy(cache.rev[r], rev[r])
        /\ RevCopy(aj.list[r], rev[r])
        /\ RevCopy(rj.list[r], rev[r])

\* A key is queued, and worked on, after the informer saw its Revision.
Seen ==
    \A r \in RevIds :
        r \in queue.rev \/ (rj.pc # "idle" /\ rj.key = r) => cache.rev[r].rv > 0

Forgetting == rj.pc = "forget" => rev[rj.key].rv > 0 /\ ~rev[rj.key].live

\* The id in the AppDeployment worker's hands is new: no Revision has it yet.
New(id) == id \in RevIds /\ id <= lyra.minted /\ rev[id].rv = 0

Minting ==
    /\ aj.pc \in {"module", "subdomain", "service"}
          => aj.id \in {NoRev, aj.ad.cur} \/ New(aj.id)
    /\ aj.pc \in {"list", "phase", "spec", "create"} => New(aj.id)

LifeInv == Born /\ RevCopies /\ Seen /\ Forgetting /\ Minting

LEMMA RevsTyped ==
    ASSUME Typed
    PROVE  \A r \in RevIds :
              /\ rev[r] \in Revision /\ cache.rev[r] \in Revision
              /\ aj.list[r] \in Revision /\ rj.list[r] \in Revision
BY DEF Typed, TypeOK, ClusterTypeOK, Cache, AdWorker, RevWorker

LEMMA InitLife == Init => LifeInv
<1> SUFFICES ASSUME Init PROVE LifeInv
  OBVIOUS
<1>1. \A r \in RevIds : /\ rev[r] = NoRevision /\ cache.rev[r] = NoRevision
                        /\ aj.list[r] = NoRevision /\ rj.list[r] = NoRevision
  BY DEF Init, ClusterInit, AdInit, RevInit, AdIdle, RevIdle, NoRevisions
<1>2. NoRevision.rv = 0 /\ RevCopy(NoRevision, NoRevision)
  BY DEF NoRevision, RevCopy
<1>3. aj.pc = "idle" /\ rj.pc = "idle" /\ queue.rev = {} /\ lyra.forgotten = {}
  BY DEF Init, ClusterInit, AdInit, RevInit, AdIdle, RevIdle
<1>4. Born
  BY <1>1, <1>2, <1>3 DEF Born
<1>5. RevCopies
  BY <1>1, <1>2 DEF RevCopies
<1>6. Seen /\ Forgetting /\ Minting
  BY <1>3 DEF Seen, Forgetting, Minting
<1> QED  BY <1>4, <1>5, <1>6 DEF LifeInv

-----------------------------------------------------------------------------
(* What a step does to the Revisions.                                      *)

\* The status and life of what a write stores.
LEMMA StatusPut ==
    ASSUME NEW old \in Revision, NEW held \in Revision
    PROVE  /\ PutStatus(old, held).live = old.live
           /\ PutStatus(old, held).status = old.status
           /\ PutStatus(old, held) = old \/ PutStatus(old, held).rv = old.rv + 1
BY DEF PutStatus, Stored, Revision

LEMMA SpecPut ==
    ASSUME NEW old \in Revision, NEW held \in Revision
    PROVE  /\ PutSpec(old, held).live = held.live
           /\ PutSpec(old, held).status = held.status
           /\ PutSpec(old, held) = old \/ PutSpec(old, held).rv = old.rv + 1
<1> DEFINE kept == [held EXCEPT !.phase = old.phase, !.obs = old.obs]
           next == [kept EXCEPT !.gen = old.gen + 1]
<1>1. kept.live = held.live /\ kept.status = held.status
  BY DEF Revision
<1>2. next.live = held.live /\ next.status = held.status
  BY DEF Revision
<1>3. PutSpec(old, held) \in {Stored(old, kept), Stored(old, next)}
  BY DEF PutSpec
<1>4. /\ "rv" \in DOMAIN kept /\ "live" \in DOMAIN kept /\ "status" \in DOMAIN kept
      /\ DOMAIN next = DOMAIN kept
  BY DEF Revision
<1> HIDE DEF kept, next
<1>5. ASSUME NEW new \in {kept, next}
      PROVE  /\ Stored(old, new).live = new.live /\ Stored(old, new).status = new.status
             /\ Stored(old, new) = old \/ Stored(old, new).rv = old.rv + 1
  BY <1>4, <1>5 DEF Stored
<1> QED  BY <1>1, <1>2, <1>3, <1>5

\* One Revision is written: created, kept, retired, deleted or reactivated.
Switched == budget'.switches = budget.switches - 1 /\ budget.switches > 0

Creates(r) == aj.pc = "create" /\ aj.id = r /\ aj'.pc \in {"idle", "prune"}

Written(r, x) ==
    /\ rev' = [rev EXCEPT ![r] = x]
    /\ lyra' = lyra
    /\ x = rev[r] \/ x.rv = rev[r].rv + 1
    /\ \/ /\ New(r) /\ Creates(r)
          /\ x.live /\ x.status = "Active" /\ UNCHANGED budget.switches
       \/ /\ rev[r].live /\ (x.live => x.status \in {rev[r].status, "Non-active"})
          /\ UNCHANGED budget.switches
       \/ rev[r].live /\ rev[r].status # "Active" /\ x.live /\ x.status = "Active" /\ Switched

Writes == \E r \in RevIds : \E x \in Revision : Written(r, x)

\* Nothing is written; Lyra may mint, and may forget what is gone.
Keeps ==
    /\ rev' = rev /\ UNCHANGED budget.switches
    /\ lyra.minted <= lyra'.minted
    /\ \/ lyra'.forgotten = lyra.forgotten
       \/ \E r \in RevIds : /\ lyra'.forgotten = lyra.forgotten \cup {r}
                            /\ rev[r].rv > 0 /\ ~rev[r].live

LEMMA SwitchesKept ==
    ASSUME budget \in Budget, Fault
    PROVE  UNCHANGED budget.switches
BY DEF Fault, Budget

LEMMA RefusedSwitches ==
    ASSUME budget \in Budget, NEW held, NEW stored, Refused(held, stored)
    PROVE  UNCHANGED budget.switches
BY SwitchesKept DEF Refused

LEMMA HeardSwitches ==
    ASSUME budget \in Budget, NEW done, NEW failed,
           AdHeard(done, failed) \/ RevHeard(done, failed)
    PROVE  UNCHANGED budget.switches
BY SwitchesKept DEF AdHeard, RevHeard

\* A write of the status alone, and one of the spec from a copy that kept all
\* but the status.
LEMMA WritesStatus ==
    ASSUME Typed, NEW r \in RevIds, NEW held \in Revision, rev[r].live,
           rev' = [rev EXCEPT ![r] = PutStatus(rev[r], held)],
           lyra' = lyra, UNCHANGED budget.switches
    PROVE  Writes
<1> DEFINE x == PutStatus(rev[r], held)
<1>1. rev[r] \in Revision
  BY RevsTyped
<1>2. /\ x \in Revision /\ x.live = rev[r].live /\ x.status = rev[r].status
      /\ x = rev[r] \/ x.rv = rev[r].rv + 1
  BY <1>1, StatusPut, PutStatusRevision
<1>3. rev' = [rev EXCEPT ![r] = x]
  OBVIOUS
<1> HIDE DEF x
<1>4. Written(r, x)
  BY <1>2, <1>3 DEF Written
<1> QED  BY <1>2, <1>4 DEF Writes

LEMMA WritesSpec ==
    ASSUME Typed, NEW r \in RevIds, NEW copy \in Revision, RevCopy(copy, rev[r]),
           NEW held \in Revision, held.rv = copy.rv, held.live = copy.live,
           held.status \in {copy.status, "Non-active"}, Accepts(held, rev[r]),
           rev' = [rev EXCEPT ![r] = PutSpec(rev[r], held)],
           lyra' = lyra, UNCHANGED budget.switches
    PROVE  Writes
<1> DEFINE x == PutSpec(rev[r], held)
<1>1. rev[r] \in Revision
  BY RevsTyped
<1>2. copy = rev[r] /\ rev[r].live
  BY DEF Accepts, RevCopy
<1>3. /\ x \in Revision /\ x.live = held.live /\ x.status = held.status
      /\ x = rev[r] \/ x.rv = rev[r].rv + 1
  BY <1>1, SpecPut, PutSpecRevision
<1>4. rev' = [rev EXCEPT ![r] = x]
  OBVIOUS
<1> HIDE DEF x
<1>5. Written(r, x)
  BY <1>2, <1>3, <1>4 DEF Written
<1> QED  BY <1>3, <1>5 DEF Writes

LEMMA WritesDeleted ==
    ASSUME Typed, NEW r \in RevIds, rev[r].live,
           rev' = [rev EXCEPT ![r] = Deleted(rev[r])],
           lyra' = lyra, UNCHANGED budget.switches
    PROVE  Writes
<1>1. rev[r] \in Revision
  BY RevsTyped
<1>2. ~Deleted(rev[r]).live /\ Deleted(rev[r]).rv = rev[r].rv + 1
  BY <1>1 DEF Deleted, Revision
<1> QED  BY <1>1, <1>2, DeletedRevision DEF Writes, Written

LEMMA OthersWrite ==
    ASSUME Typed, LifeInv,
           User \/ ReportStatus \/ Collect \/ Deliver \/ Restart \/ Resync
    PROVE  Writes \/ Keeps
<1>1. budget \in Budget /\ lyra \in LyraState
  BY DEF Typed, TypeOK, ClusterTypeOK
<1>2. lyra.minted <= lyra.minted
  BY <1>1 DEF LyraState
<1>3. CASE \E r \in RevIds : Activate(r)
  <2>1. PICK r \in RevIds : Activate(r)
    BY <1>3
  <2> DEFINE held == [rev[r] EXCEPT !.status = "Active"]
  <2>2. rev[r] \in Revision
    BY RevsTyped
  <2>3. /\ held \in Revision /\ held.live = rev[r].live
        /\ held.status = "Active"
    BY <2>2 DEF Revision, Status
  <2> HIDE DEF held
  <2>4. rev' = [rev EXCEPT ![r] = PutSpec(rev[r], held)] /\ lyra' = lyra
    BY <2>1 DEF Activate, held
  <2>5. Switched /\ rev[r].live /\ rev[r].status # "Active"
    BY <1>1, <2>1 DEF Activate, Switched, Budget
  <2>6. Written(r, PutSpec(rev[r], held))
    BY <2>2, <2>3, <2>4, <2>5, SpecPut DEF Written
  <2> QED  BY <2>2, <2>3, <2>6, PutSpecRevision DEF Writes
<1>4. CASE \E r \in RevIds : CollectRevision(r)
  BY <1>4, WritesDeleted DEF CollectRevision
<1>5. CASE (\E i \in Images : EditImage(i)) \/ DeleteAppDeployment \/ ProvideSecret
  BY <1>1, <1>2, <1>5 DEF EditImage, DeleteAppDeployment, ProvideSecret, Budget, Keeps
<1>6. CASE ReportStatus \/ CollectDeployment \/ CollectModule
  BY <1>1, <1>2, <1>6 DEF ReportStatus, CollectDeployment, CollectModule, Budget, Keeps
<1>7. CASE Deliver
  BY <1>2, <1>7 DEF Deliver, DeliverAppDeployment, DeliverDeployment, DeliverRevision, Keeps
<1>8. CASE Restart \/ Resync
  BY <1>1, <1>2, <1>8 DEF Restart, Resync, Budget, Keeps
<1> QED  BY <1>3, <1>4, <1>5, <1>6, <1>7, <1>8 DEF User, Collect

LEMMA AdStepWrites ==
    ASSUME Typed, LifeInv, AdStep
    PROVE  Writes \/ Keeps
<1>1. /\ budget \in Budget /\ lyra \in LyraState /\ aj \in AdWorker
      /\ lyra.minted <= lyra.minted
  BY DEF Typed, TypeOK, ClusterTypeOK, LyraState
<1>2. CASE AdBegin \/ HandleAppDeploymentChanges
  BY <1>1, <1>2, SwitchesKept, RefusedSwitches, HeardSwitches
     DEF AdBegin, HandleAppDeploymentChanges, Keeps
<1>3. CASE SyncApp
  <2>1. Reply(aj.ad.cur) \in Nat
    BY <1>3 DEF SyncApp, RevIds
  <2>2. /\ Synced(aj.ad.cur).forgotten = lyra.forgotten
        /\ lyra.minted <= Synced(aj.ad.cur).minted
    BY <1>1, <2>1 DEF Synced, LyraState
  <2>3. /\ lyra' \in {lyra, Synced(aj.ad.cur)} /\ rev' = rev
        /\ (UNCHANGED budget) \/ Fault
    BY <1>3 DEF SyncApp, Asked
  <2> QED  BY <1>1, <2>2, <2>3, SwitchesKept DEF Keeps
<1>4. CASE CreateModule \/ CreateSubdomain \/ HandleServiceChanges \/ DeleteService
  BY <1>1, <1>4, SwitchesKept
     DEF CreateModule, CreateSubdomain, HandleServiceChanges, DeleteService, Keeps
<1>5. CASE ConsumeMarker \/ ListRevisions
  BY <1>1, <1>5, RefusedSwitches DEF ConsumeMarker, ListRevisions, clusterVars, Keeps
<1>6. CASE \E r \in RevIds : RetirePhase(r)
  <2>1. PICK r \in RevIds : RetirePhase(r)
    BY <1>6
  <2> DEFINE held == [aj.list[r] EXCEPT !.phase = "Non-active"]
  <2>2. held \in Revision
    BY ZenonT(60), RevsTyped DEF Revision, Status
  <2> HIDE DEF held
  <2>3. UNCHANGED budget.switches /\ lyra' = lyra
    BY <1>1, <2>1, RefusedSwitches, HeardSwitches DEF RetirePhase
  <2>4. \/ rev' = rev
        \/ Accepts(held, rev[r]) /\ rev' = [rev EXCEPT ![r] = PutStatus(rev[r], held)]
    BY <2>1 DEF RetirePhase, held
  <2> QED  BY <1>1, <2>2, <2>3, <2>4, WritesStatus DEF Keeps, Accepts
<1>7. CASE \E r \in RevIds : RetireSpec(r)
  <2>1. PICK r \in RevIds : RetireSpec(r)
    BY <1>7
  <2> DEFINE held == [aj.list[r] EXCEPT !.status = "Non-active"]
  <2>2. /\ held \in Revision /\ held.rv = aj.list[r].rv /\ held.live = aj.list[r].live
        /\ held.status = "Non-active" /\ aj.list[r] \in Revision
    BY ZenonT(60), RevsTyped DEF Revision, Status
  <2> HIDE DEF held
  <2>3. UNCHANGED budget.switches /\ lyra' = lyra
    BY <1>1, <2>1, RefusedSwitches DEF RetireSpec
  <2>4. \/ rev' = rev
        \/ Accepts(held, rev[r]) /\ rev' = [rev EXCEPT ![r] = PutSpec(rev[r], held)]
    BY <2>1 DEF RetireSpec, held
  <2>5. RevCopy(aj.list[r], rev[r])
    BY DEF LifeInv, RevCopies
  <2> QED  BY <1>1, <2>2, <2>3, <2>4, <2>5, WritesSpec DEF Keeps
<1>8. CASE CreateRevision
  <2> DEFINE r   == aj.id
             new == [rev[r] EXCEPT !.live = TRUE, !.image = Spelling(aj.ad.image),
                                   !.status = "Active",
                                   !.phase = "", !.gen = 1, !.obs = 0, !.origin = TRUE]
  <2>1. New(r)
    BY <1>8 DEF CreateRevision, LifeInv, Minting
  <2>2. Spelling(aj.ad.image) \in OptImage
    BY <1>1, SpellingTyped DEF AdWorker, AppDeployment
  <2>3. rev[r] \in Revision /\ r \in RevIds
    BY <2>1, RevsTyped DEF New
  <2>4. new \in Revision /\ new.live /\ new.status = "Active"
    BY <2>2, <2>3 DEF Revision, Status
  <2>5. UNCHANGED budget.switches /\ lyra' = lyra
    BY <1>1, <1>8, SwitchesKept, HeardSwitches DEF CreateRevision
  <2>6. /\ rev' = rev \/ (~rev[r].live /\ rev' = [rev EXCEPT ![r] = Stored(rev[r], new)])
        /\ Creates(r)
    BY <1>1, <1>8 DEF CreateRevision, Creates, AdHeard, AdIdle, AdWorker
  <2> HIDE DEF new
  <2>7. ~rev[r].live => /\ Stored(rev[r], new).live /\ Stored(rev[r], new).status = "Active"
                        /\ Stored(rev[r], new).rv = rev[r].rv + 1
    BY <2>3, <2>4 DEF Stored, Revision
  <2>8. Stored(rev[r], new) \in Revision
    BY <2>3, <2>4, StoredRevision
  <2>9. ~rev[r].live /\ rev' = [rev EXCEPT ![r] = Stored(rev[r], new)]
          => Written(r, Stored(rev[r], new))
    BY <2>1, <2>5, <2>6, <2>7 DEF Written
  <2> QED  BY <1>1, <2>3, <2>5, <2>6, <2>8, <2>9 DEF Writes, Keeps
<1>9. CASE Prune
  <2>1. UNCHANGED budget.switches /\ lyra' = lyra
    BY <1>1, <1>9, SwitchesKept DEF Prune
  <2>2. \/ rev' = rev
        \/ \E r : rev[r].live /\ rev' = [rev EXCEPT ![r] = Deleted(rev[r])]
    BY <1>9 DEF Prune
  <2>3. \/ rev' = rev
        \/ \E r \in RevIds : rev[r].live /\ rev' = [rev EXCEPT ![r] = Deleted(rev[r])]
    BY <2>2 DEF Typed, TypeOK, ClusterTypeOK
  <2> QED  BY <1>1, <2>1, <2>3, WritesDeleted DEF Keeps
<1>10. CASE DeleteApp
  <2>1. [lyra EXCEPT !.app = FALSE].forgotten = lyra.forgotten
        /\ [lyra EXCEPT !.app = FALSE].minted = lyra.minted
    BY <1>1 DEF LyraState
  <2>2. /\ lyra' \in {lyra, [lyra EXCEPT !.app = FALSE]} /\ rev' = rev
        /\ (UNCHANGED budget) \/ Fault
    BY <1>10 DEF DeleteApp, Asked
  <2> QED  BY <1>1, <2>1, <2>2, SwitchesKept DEF Keeps
<1> QED  BY <1>2, <1>3, <1>4, <1>5, <1>6, <1>7, <1>8, <1>9, <1>10 DEF AdStep

LEMMA RevStepWrites ==
    ASSUME Typed, LifeInv, RevStep
    PROVE  Writes \/ Keeps
<1>1. /\ budget \in Budget /\ lyra \in LyraState /\ rj \in RevWorker
      /\ lyra.minted <= lyra.minted
  BY DEF Typed, TypeOK, ClusterTypeOK, LyraState
<1>2. rj.pc # "idle" => rj.key \in RevIds
  BY DEF Typed, KeyKnown
<1>3. CASE (\E r \in RevIds : RevBegin(r)) \/ ReadAppDeployment
  BY <1>1, <1>3 DEF RevBegin, ReadAppDeployment, clusterVars, Keeps
<1>4. CASE ForgetRevision
  <2>1. /\ [lyra EXCEPT !.forgotten = @ \cup {rj.key}].forgotten
              = lyra.forgotten \cup {rj.key}
        /\ [lyra EXCEPT !.forgotten = @ \cup {rj.key}].minted = lyra.minted
    BY <1>1 DEF LyraState
  <2>2. /\ lyra' \in {lyra, [lyra EXCEPT !.forgotten = @ \cup {rj.key}]} /\ rev' = rev
        /\ (UNCHANGED budget) \/ Fault
    BY <1>4 DEF ForgetRevision, Asked
  <2>3. rj.key \in RevIds /\ rev[rj.key].rv > 0 /\ ~rev[rj.key].live
    BY <1>2, <1>4 DEF ForgetRevision, LifeInv, Forgetting
  <2> QED  BY <1>1, <2>1, <2>2, <2>3, SwitchesKept DEF Keeps
<1>5. CASE ClearOrigin
  <2> DEFINE r    == rj.key
             held == Cleared(r)
  <2>1. r \in RevIds /\ cache.rev[r] \in Revision /\ RevCopy(cache.rev[r], rev[r])
    BY <1>2, <1>5, RevsTyped DEF ClearOrigin, LifeInv, RevCopies
  <2>2. /\ held \in Revision /\ held.rv = cache.rev[r].rv
        /\ held.live = cache.rev[r].live /\ held.status = cache.rev[r].status
    BY <2>1 DEF Cleared, Revision
  <2> HIDE DEF held
  <2>3. UNCHANGED budget.switches /\ lyra' = lyra
    BY <1>1, <1>5, RefusedSwitches, HeardSwitches DEF ClearOrigin
  <2>4. \/ rev' = rev
        \/ Accepts(held, rev[r]) /\ rev' = [rev EXCEPT ![r] = PutSpec(rev[r], held)]
    BY <1>5 DEF ClearOrigin, held
  <2> QED  BY <1>1, <2>1, <2>2, <2>3, <2>4, WritesSpec DEF Keeps
<1>6. CASE \E r \in RevIds : OtherPhase(r)
  <2>1. PICK r \in RevIds : OtherPhase(r)
    BY <1>6
  <2> DEFINE held == Retired(rj.list[r])
  <2>2. held \in Revision
    BY ZenonT(60), RevsTyped DEF Retired, Revision, Status
  <2> HIDE DEF held
  <2>3. UNCHANGED budget.switches /\ lyra' = lyra
    BY <1>1, <2>1, RefusedSwitches, HeardSwitches DEF OtherPhase
  <2>4. \/ rev' = rev
        \/ Accepts(held, rev[r]) /\ rev' = [rev EXCEPT ![r] = PutStatus(rev[r], held)]
    BY <2>1 DEF OtherPhase, held
  <2> QED  BY <1>1, <2>2, <2>3, <2>4, WritesStatus DEF Keeps, Accepts
<1>7. CASE \E r \in RevIds : OtherSpec(r)
  <2>1. PICK r \in RevIds : OtherSpec(r)
    BY <1>7
  <2> DEFINE held == [rj.list[r] EXCEPT !.status = "Non-active"]
  <2>2. /\ held \in Revision /\ held.rv = rj.list[r].rv /\ held.live = rj.list[r].live
        /\ held.status = "Non-active" /\ rj.list[r] \in Revision
    BY RevsTyped DEF Revision, Status
  <2> HIDE DEF held
  <2>3. UNCHANGED budget.switches /\ lyra' = lyra
    BY <1>1, <2>1, RefusedSwitches DEF OtherSpec
  <2>4. \/ rev' = rev
        \/ Accepts(held, rev[r]) /\ rev' = [rev EXCEPT ![r] = PutSpec(rev[r], held)]
    BY <2>1 DEF OtherSpec, held
  <2>5. RevCopy(rj.list[r], rev[r])
    BY DEF LifeInv, RevCopies
  <2> QED  BY <1>1, <2>2, <2>3, <2>4, <2>5, WritesSpec DEF Keeps
<1>8. CASE ActivatePhase
  <2> DEFINE held == Activated
  <2>1. held \in Revision /\ rj.key \in RevIds
    BY <1>1, <1>2, <1>8 DEF ActivatePhase, Activated, RevWorker, Revision, Status
  <2> HIDE DEF held
  <2>2. UNCHANGED budget.switches /\ lyra' = lyra
    BY <1>1, <1>8, RefusedSwitches, HeardSwitches DEF ActivatePhase
  <2>3. \/ rev' = rev
        \/ /\ Accepts(held, rev[rj.key])
           /\ rev' = [rev EXCEPT ![rj.key] = PutStatus(rev[rj.key], held)]
    BY <1>8 DEF ActivatePhase, held
  <2> QED  BY <1>1, <2>1, <2>2, <2>3, WritesStatus DEF Keeps, Accepts
<1>9. CASE SwitchDeployment \/ MarkAppDeployment
  BY <1>1, <1>9, RefusedSwitches, HeardSwitches
     DEF SwitchDeployment, MarkAppDeployment, Keeps
<1>10. CASE SyncRevision
  <2>1. [lyra EXCEPT !.active = rj.key].forgotten = lyra.forgotten
        /\ [lyra EXCEPT !.active = rj.key].minted = lyra.minted
    BY <1>1 DEF LyraState
  <2>2. /\ lyra' \in {lyra, [lyra EXCEPT !.active = rj.key]} /\ rev' = rev
        /\ (UNCHANGED budget) \/ Fault
    BY <1>10 DEF SyncRevision, Asked
  <2> QED  BY <1>1, <2>1, <2>2, SwitchesKept DEF Keeps
<1>11. CASE ObserveGeneration
  <2> DEFINE held == ObservedOwn
  <2>1. held \in Revision /\ rj.key \in RevIds
    BY <1>1, <1>2, <1>11 DEF ObserveGeneration, ObservedOwn, RevWorker, Revision
  <2> HIDE DEF held
  <2>2. UNCHANGED budget.switches /\ lyra' = lyra
    BY <1>1, <1>11, RefusedSwitches DEF ObserveGeneration
  <2>3. \/ rev' = rev
        \/ /\ Accepts(held, rev[rj.key])
           /\ rev' = [rev EXCEPT ![rj.key] = PutStatus(rev[rj.key], held)]
    BY <1>11 DEF ObserveGeneration, held
  <2> QED  BY <1>1, <2>1, <2>2, <2>3, WritesStatus DEF Keeps, Accepts
<1> QED  BY <1>3, <1>4, <1>5, <1>6, <1>7, <1>8, <1>9, <1>10, <1>11 DEF RevStep

\* Every step of the operator and its cluster writes one Revision or none.
LEMMA StepWrites ==
    ASSUME Typed, LifeInv, [Next]_vars
    PROVE  Writes \/ Keeps
<1>1. CASE UNCHANGED vars
  <2>1. lyra.minted <= lyra.minted
    BY DEF Typed, TypeOK, ClusterTypeOK, LyraState
  <2> QED  BY <1>1, <2>1 DEF vars, Keeps
<1>2. CASE Next
  BY <1>2, OthersWrite, AdStepWrites, RevStepWrites DEF Next, Step
<1> QED  BY <1>1, <1>2

-----------------------------------------------------------------------------
(* The invariant is kept.                                                  *)

\* A Revision's version grows with every write, and only its creation makes
\* it live.
Evolves(r) ==
    /\ rev'[r] = rev[r] \/ rev'[r].rv > rev[r].rv
    /\ rev'[r].live => rev[r].live \/ rev[r].rv = 0
    /\ rev[r].rv = 0 => rev'[r] = rev[r] \/ (New(r) /\ Creates(r))

LEMMA RevsEvolve ==
    ASSUME Typed, Typed', LifeInv, Writes \/ Keeps
    PROVE  /\ \A r \in RevIds : Evolves(r)
           /\ lyra.minted <= lyra'.minted
           /\ Born'
<1>1. /\ rev \in [RevIds -> Revision] /\ \A r \in RevIds : rev[r].rv \in Nat
      /\ lyra.minted \in Nat
  BY DEF Typed, TypeOK, ClusterTypeOK, Revision, LyraState
<1>2. \A r \in RevIds : rev[r].rv = 0 => ~rev[r].live
  <2>1. ~NoRevision.live
    BY DEF NoRevision
  <2> QED  BY <2>1 DEF LifeInv, Born
<1>3. CASE Keeps
  <2>1. \A r \in RevIds : Evolves(r)
    BY <1>3 DEF Keeps, Evolves
  <2>2. lyra'.minted \in Nat
    BY DEF Typed, TypeOK, ClusterTypeOK, LyraState
  <2> QED  BY <1>1, <1>3, <2>1, <2>2 DEF Keeps, LifeInv, Born, RevIds
<1>4. CASE Writes
  <2>1. PICK r \in RevIds, x \in Revision : Written(r, x)
    BY <1>4 DEF Writes
  <2>2. /\ rev'[r] = x /\ \A s \in RevIds \ {r} : rev'[s] = rev[s]
        /\ lyra' = lyra
    BY <1>1, <2>1 DEF Written
  <2>3. x = rev[r] \/ x.rv > rev[r].rv
    BY <1>1, <2>1 DEF Written
  <2>4. rev[r].live \/ (New(r) /\ Creates(r))
    BY <2>1 DEF Written
  <2>5. \A s \in RevIds : Evolves(s)
    BY <1>2, <2>2, <2>3, <2>4 DEF Evolves, New
  <2>6. x.rv > 0 /\ r \notin lyra.forgotten /\ r <= lyra.minted
    BY <1>1, <1>2, <2>1, <2>3, <2>4 DEF LifeInv, Born, New, Written
  <2> QED  BY <1>1, <2>2, <2>5, <2>6 DEF LifeInv, Born
<1> QED  BY <1>3, <1>4

\* Nobody has another copy than he had, one of the cache or the store, or none.
LEMMA CopiesFrom ==
    ASSUME Typed, [Next]_vars, NEW r \in RevIds
    PROVE  /\ cache'.rev[r] \in {cache.rev[r], rev[r]}
           /\ cache'.rev[r] # cache.rev[r] => rev' = rev
           /\ aj'.list[r] \in {aj.list[r], cache.rev[r], NoRevision, rev'[r]}
           /\ rj'.list[r] \in {rj.list[r], cache.rev[r], NoRevision, rev'[r]}
<1>1. /\ aj \in AdWorker /\ rj \in RevWorker /\ cache \in Cache
      /\ rev \in [RevIds -> Revision]
  BY DEF Typed, TypeOK, ClusterTypeOK
<1>2. /\ AdIdle.list[r] = NoRevision /\ RevIdle.list[r] = NoRevision
      /\ AdIdle \in AdWorker /\ RevIdle \in RevWorker
  BY NothingTyped DEF AdIdle, RevIdle, NoRevisions
<1>3. \A j, retry : Observing(j, retry).list[r] = NoRevision
  BY <1>2 DEF Observing, RevWorker
<1>4. ASSUME NEW j \in AdWorker
      PROVE  AfterModule(j).list[r] \in {j.list[r], NoRevision}
  BY <1>2 DEF AfterModule, AfterObjects, AdWorker
<1>5. CASE AdStep /\ UNCHANGED rj
  <2>1. cache' = cache
    BY <1>5 DEF AdStep, AdBegin, HandleAppDeploymentChanges, SyncApp, CreateModule,
         CreateSubdomain, HandleServiceChanges, ConsumeMarker, ListRevisions,
         clusterVars, RetirePhase, RetireSpec, CreateRevision, Prune, DeleteApp,
         DeleteService
  <2>2. AdFail => aj'.list[r] = NoRevision
    BY <1>2 DEF AdFail
  <2>3. CASE AdBegin \/ HandleAppDeploymentChanges
    BY <1>1, <1>2, <1>5, <2>1, <2>2, <2>3
       DEF AdBegin, HandleAppDeploymentChanges, AdHeard, Changed, Same, AdWorker
  <2>4. CASE SyncApp
    <3>1. /\ NoRev \in 0 .. MaxRevs /\ Reply(aj.ad.cur) \in 0 .. MaxRevs
      BY <2>4, RevsAssumption DEF SyncApp, RevIds, NoRev
    <3>2. \A id \in 0 .. MaxRevs : [aj EXCEPT !.id = id] \in AdWorker
                                   /\ [aj EXCEPT !.id = id].list = aj.list
      BY <1>1 DEF AdWorker
    <3>3. \A id \in 0 .. MaxRevs :
             [[aj EXCEPT !.id = id] EXCEPT !.pc = "module"].list = aj.list
      BY <1>1 DEF AdWorker
    <3>4. \/ AdFail
          \/ \E id \in 0 .. MaxRevs :
                aj' \in {[[aj EXCEPT !.id = id] EXCEPT !.pc = "module"],
                         AfterModule([aj EXCEPT !.id = id])}
      BY <2>4, <3>1 DEF SyncApp
    <3> QED  BY <1>4, <1>5, <2>1, <2>2, <3>2, <3>3, <3>4
  <2>5. CASE CreateModule \/ CreateSubdomain \/ HandleServiceChanges
    <3>1. AfterObjects(aj).list[r] \in {aj.list[r], NoRevision}
      BY <1>1, <1>2 DEF AfterObjects, AdWorker
    <3> QED  BY <1>1, <1>2, <1>4, <1>5, <2>1, <2>2, <2>5, <3>1
             DEF CreateModule, CreateSubdomain, HandleServiceChanges, AdWorker
  <2>6. CASE ConsumeMarker \/ ListRevisions \/ CreateRevision \/ Prune
    BY ZenonT(60), <1>1, <1>2, <1>5, <2>1, <2>6
       DEF ConsumeMarker, ListRevisions, CreateRevision, Prune, AdHeard, AdWorker, Cache
  <2>7. CASE \E s \in RevIds : RetirePhase(s)
    <3>1. PICK s \in RevIds : RetirePhase(s)
      BY <2>7
    <3>2. \/ aj'.list = aj.list
          \/ \E x : aj'.list = [aj.list EXCEPT ![s] = x] /\ rev' = [rev EXCEPT ![s] = x]
      BY <1>1, <3>1 DEF RetirePhase, AdHeard, AdWorker
    <3> QED  BY <1>1, <1>5, <2>1, <3>2 DEF AdWorker
  <2>8. CASE \E s \in RevIds : RetireSpec(s)
    BY <1>1, <1>5, <2>1, <2>8 DEF RetireSpec, AdWorker
  <2>9. CASE DeleteApp \/ DeleteService
    BY <1>1, <1>2, <1>5, <2>1, <2>2, <2>9 DEF DeleteApp, DeleteService, AdWorker
  <2> QED  BY <1>5, <2>1, <2>3, <2>4, <2>5, <2>6, <2>7, <2>8, <2>9 DEF AdStep
<1>6. CASE RevStep /\ UNCHANGED aj
  <2>1. cache' = cache
    BY <1>6 DEF RevStep, RevBegin, ForgetRevision, ClearOrigin, ReadAppDeployment,
         clusterVars, OtherPhase, OtherSpec, ActivatePhase, SwitchDeployment,
         SyncRevision, MarkAppDeployment, ObserveGeneration
  <2>2. CASE (\E s \in RevIds : RevBegin(s)) \/ ForgetRevision \/ ObserveGeneration
    BY <1>1, <1>2, <1>6, <2>1, <2>2
       DEF RevBegin, ForgetRevision, ObserveGeneration, RevWorker
  <2>3. CASE ClearOrigin \/ ReadAppDeployment
    <3>1. CASE ClearOrigin
      <4>1. rj'.list[r] \in {rj.list[r], NoRevision}
        BY <1>1, <1>3, <3>1 DEF ClearOrigin, RevHeard, RevWorker
      <4> QED  BY <1>6, <2>1, <4>1
    <3>2. CASE ReadAppDeployment
      <4>1. rj'.list[r] \in {cache.rev[r], NoRevision}
        BY <1>1, <1>3, <3>2 DEF ReadAppDeployment, RevWorker
      <4> QED  BY <1>6, <2>1, <4>1
    <3> QED  BY <2>3, <3>1, <3>2
  <2>4. CASE \E s \in RevIds : OtherPhase(s)
    <3>1. PICK s \in RevIds : OtherPhase(s)
      BY <2>4
    <3>2. \/ rj'.list = rj.list
          \/ \E x : rj'.list = [rj.list EXCEPT ![s] = x] /\ rev' = [rev EXCEPT ![s] = x]
      BY <1>1, <3>1 DEF OtherPhase, RevHeard, RevWorker
    <3> QED  BY <1>1, <1>6, <2>1, <3>2 DEF RevWorker
  <2>5. CASE \E s \in RevIds : OtherSpec(s)
    BY <1>1, <1>6, <2>1, <2>5 DEF OtherSpec, RevWorker
  <2>6. CASE ActivatePhase \/ SwitchDeployment \/ SyncRevision
    BY <1>1, <1>6, <2>1, <2>6
       DEF ActivatePhase, SwitchDeployment, SyncRevision, RevHeard, RevWorker
  <2>7. CASE MarkAppDeployment
    BY <1>3, <1>6, <2>1, <2>7 DEF MarkAppDeployment
  <2> QED  BY <1>6, <2>2, <2>3, <2>4, <2>5, <2>6, <2>7 DEF RevStep
<1>7. CASE UNCHANGED vars \/ ((User \/ ReportStatus \/ Collect) /\ UNCHANGED <<aj, rj>>)
  BY <1>7 DEF vars, User, EditImage, Activate, DeleteAppDeployment, ProvideSecret,
              ReportStatus, Collect, CollectDeployment, CollectRevision, CollectModule
<1>8. CASE Deliver /\ UNCHANGED <<aj, rj>>
  BY <1>1, <1>8 DEF Deliver, DeliverAppDeployment, DeliverDeployment, DeliverRevision, Cache
<1>9. CASE Restart \/ Resync
  BY <1>2, <1>9 DEF Restart, Resync
<1> QED  BY <1>5, <1>6, <1>7, <1>8, <1>9 DEF Next, Step

LEMMA CopiesKept ==
    ASSUME Typed, Typed', LifeInv, [Next]_vars
    PROVE  RevCopies'
<1>1. Writes \/ Keeps
  BY StepWrites
<1>2. (\A r \in RevIds : Evolves(r)) /\ Born'
  BY <1>1, RevsEvolve
<1> SUFFICES ASSUME NEW r \in RevIds
             PROVE  /\ RevCopy(cache'.rev[r], rev'[r])
                    /\ RevCopy(aj'.list[r], rev'[r])
                    /\ RevCopy(rj'.list[r], rev'[r])
  BY DEF RevCopies
<1>3. /\ rev[r].rv \in Nat /\ rev'[r].rv \in Nat /\ cache.rev[r].rv \in Nat
      /\ aj.list[r].rv \in Nat /\ rj.list[r].rv \in Nat
  <2>1. rev'[r] \in Revision
    BY DEF Typed, TypeOK, ClusterTypeOK
  <2> QED  BY <2>1, RevsTyped DEF Revision
<1>4. NoRevision.rv = 0 /\ ~NoRevision.live
  BY DEF NoRevision
<1>5. RevCopy(NoRevision, rev'[r]) /\ RevCopy(rev'[r], rev'[r])
  BY <1>2, <1>3, <1>4 DEF Born, RevCopy
<1>6. ASSUME NEW copy, copy.rv \in Nat, RevCopy(copy, rev[r])
      PROVE  RevCopy(copy, rev'[r])
  BY <1>2, <1>3, <1>6 DEF Evolves, RevCopy
<1>7. /\ RevCopy(cache.rev[r], rev'[r]) /\ RevCopy(aj.list[r], rev'[r])
      /\ RevCopy(rj.list[r], rev'[r])
  BY <1>3, <1>6 DEF LifeInv, RevCopies
<1>8. /\ cache'.rev[r] \in {cache.rev[r], rev'[r]}
      /\ aj'.list[r] \in {aj.list[r], cache.rev[r], NoRevision, rev'[r]}
      /\ rj'.list[r] \in {rj.list[r], cache.rev[r], NoRevision, rev'[r]}
  BY CopiesFrom
<1> QED  BY <1>5, <1>7, <1>8

\* A key comes from the informer's event, or from a relist, a resync or a retry.
LEMMA KeysFrom ==
    ASSUME Typed, LifeInv, [Next]_vars, NEW r \in RevIds,
           r \in queue'.rev \/ (rj'.pc # "idle" /\ rj'.key = r)
    PROVE  \/ r \in queue.rev \/ (rj.pc # "idle" /\ rj.key = r)
           \/ cache'.rev[r].rv > 0
<1>1. /\ rj \in RevWorker /\ queue \in Queue /\ cache \in Cache
      /\ \A s \in RevIds : cache.rev[s].rv \in Nat /\ rev[s].rv \in Nat
  BY RevsTyped DEF Typed, TypeOK, ClusterTypeOK, Revision
<1>2. \A s \in RevIds : RevCopy(cache.rev[s], rev[s])
  BY DEF LifeInv, RevCopies
<1>3. RevIdle \in RevWorker /\ RevIdle.pc = "idle"
  BY NothingTyped DEF RevIdle
<1>4. CASE AdStep /\ UNCHANGED rj
  <2>1. queue'.rev = queue.rev
    BY <1>1, <1>4 DEF AdStep, AdBegin, AdFail, HandleAppDeploymentChanges, SyncApp,
         CreateModule, CreateSubdomain, HandleServiceChanges, ConsumeMarker,
         ListRevisions, clusterVars, RetirePhase, RetireSpec, CreateRevision, Prune,
         DeleteApp, DeleteService, Queue
  <2> QED  BY <1>4, <2>1
<1>5. CASE RevStep /\ UNCHANGED aj
  <2>1. CASE \E s \in RevIds : RevBegin(s)
    <3>1. PICK s \in RevIds : RevBegin(s)
      BY <2>1
    <3>2. queue'.rev = queue.rev \ {s} /\ s \in queue.rev
      BY <1>1, <3>1 DEF RevBegin, Queue
    <3>3. rj'.pc = "idle" \/ rj'.key = s
      BY <1>3, <3>1 DEF RevBegin, RevIdle
    <3> QED  BY <3>2, <3>3
  <2>2. CASE ForgetRevision \/ ObserveGeneration
    BY <1>1, <1>3, <2>2 DEF ForgetRevision, ObserveGeneration, Queue
  <2>3. CASE ClearOrigin \/ ReadAppDeployment \/ MarkAppDeployment
    <3>1. ASSUME NEW j \in RevWorker, NEW retry
          PROVE  Observing(j, retry).key = j.key
      BY DEF Observing, RevIdle, RevWorker
    <3>2. /\ \A own \in Revision : [rj EXCEPT !.own = own] \in RevWorker
          /\ \A own : [rj EXCEPT !.own = own].key = rj.key
      BY <1>1 DEF RevWorker
    <3>3. rj.pc # "idle" /\ queue' = queue
      BY <2>3 DEF ClearOrigin, ReadAppDeployment, MarkAppDeployment, clusterVars
    <3>4. rj.key \in RevIds
      BY <3>3 DEF Typed, KeyKnown
    <3>5. Cleared(rj.key) \in Revision
      BY <3>4, RevsTyped DEF Cleared, Revision
    <3>6. CASE ClearOrigin
      <4> DEFINE j == [rj EXCEPT !.own = Cleared(rj.key)]
      <4>1. j \in RevWorker /\ j.key = rj.key
        BY <3>2, <3>5
      <4>2. \/ rj' = Observing(j, TRUE)
            \/ \E new, pc : rj' = [rj EXCEPT !.own = new, !.pc = pc]
        BY <3>6 DEF ClearOrigin, RevHeard
      <4> HIDE DEF j
      <4>3. Observing(j, TRUE).key = rj.key
        BY <3>1, <4>1
      <4> QED  BY <1>1, <3>3, <4>2, <4>3 DEF RevWorker
    <3>7. CASE ReadAppDeployment \/ MarkAppDeployment
      <4>1. Observing(rj, FALSE).key = rj.key /\ Observing(rj, TRUE).key = rj.key
            /\ Observing(rj, rj.retry).key = rj.key
        BY <1>1, <3>1
      <4>2. CASE ReadAppDeployment
        BY <1>1, <3>3, <4>1, <4>2 DEF ReadAppDeployment, RevWorker
      <4>3. CASE MarkAppDeployment
        <5>1. rj' \in {Observing(rj, TRUE), Observing(rj, rj.retry)}
          BY <4>3 DEF MarkAppDeployment
        <5> QED  BY <3>3, <4>1, <5>1
      <4> QED  BY <3>7, <4>2, <4>3
    <3> QED  BY <2>3, <3>6, <3>7
  <2>4. CASE \E s \in RevIds : OtherPhase(s) \/ OtherSpec(s)
    BY ZenonT(60), <1>1, <2>4 DEF OtherPhase, OtherSpec, RevHeard, RevWorker
  <2>5. CASE ActivatePhase \/ SwitchDeployment \/ SyncRevision
    BY <1>1, <2>5 DEF ActivatePhase, SwitchDeployment, SyncRevision, RevHeard, RevWorker
  <2> QED  BY <1>5, <2>1, <2>2, <2>3, <2>4, <2>5 DEF RevStep
<1>6. CASE UNCHANGED vars \/ ((User \/ ReportStatus \/ Collect) /\ UNCHANGED <<aj, rj>>)
  BY <1>6 DEF vars, User, EditImage, Activate, DeleteAppDeployment, ProvideSecret,
              ReportStatus, Collect, CollectDeployment, CollectRevision, CollectModule
<1>7. CASE Deliver /\ UNCHANGED <<aj, rj>>
  <2>1. CASE DeliverAppDeployment \/ DeliverDeployment
    BY <1>1, <1>7, <2>1 DEF DeliverAppDeployment, DeliverDeployment, Queue
  <2>2. CASE \E s \in RevIds : DeliverRevision(s)
    <3>1. PICK s \in RevIds : DeliverRevision(s)
      BY <2>2
    <3>2. cache'.rev[s] = rev[s] /\ queue'.rev \subseteq queue.rev \cup {s}
      BY <1>1, <3>1 DEF DeliverRevision, Cache, Queue
    <3>3. rev[s].rv > 0
      BY <1>1, <1>2, <3>1 DEF DeliverRevision, RevCopy
    <3> QED  BY <1>7, <3>2, <3>3
  <2> QED  BY <1>7, <2>1, <2>2 DEF Deliver
<1>8. CASE Restart
  <2>1. rev[r].live => rev[r].rv > 0
    <3>1. ~NoRevision.live
      BY DEF NoRevision
    <3> QED  BY <1>1, <3>1 DEF LifeInv, Born
  <2>2. r \in LiveIn(rev) /\ cache'.rev = rev
    BY <1>3, <1>8 DEF Restart
  <2> QED  BY <2>1, <2>2 DEF LiveIn
<1>9. CASE Resync
  <2>1. r \in queue.rev \cup LiveIn(cache.rev) \/ (rj.pc # "idle" /\ rj.key = r)
    BY <1>9 DEF Resync
  <2>2. cache' = cache
    BY <1>9 DEF Resync
  <2> QED  BY <1>2, <2>1, <2>2 DEF LiveIn, RevCopy
<1> QED  BY <1>4, <1>5, <1>6, <1>7, <1>8, <1>9 DEF Next, Step

LEMMA SeenKept ==
    ASSUME Typed, Typed', LifeInv, [Next]_vars
    PROVE  Seen'
<1> SUFFICES ASSUME NEW r \in RevIds,
                    r \in queue'.rev \/ (rj'.pc # "idle" /\ rj'.key = r)
             PROVE  cache'.rev[r].rv > 0
  BY DEF Seen
<1>1. CASE cache'.rev[r].rv > 0
  BY <1>1
<1>2. CASE r \in queue.rev \/ (rj.pc # "idle" /\ rj.key = r)
  <2>1. cache.rev[r].rv > 0 /\ cache.rev[r].rv <= rev[r].rv
    BY <1>2 DEF LifeInv, Seen, RevCopies, RevCopy
  <2>2. cache'.rev[r] \in {cache.rev[r], rev[r]}
    BY CopiesFrom
  <2>3. cache.rev[r].rv \in Nat /\ rev[r].rv \in Nat
    BY RevsTyped DEF Revision
  <2> QED  BY <2>1, <2>2, <2>3
<1> QED  BY <1>1, <1>2, KeysFrom

LEMMA ForgettingKept ==
    ASSUME Typed, Typed', LifeInv, [Next]_vars
    PROVE  Forgetting'
<1> SUFFICES ASSUME rj'.pc = "forget"
             PROVE  rev'[rj'.key].rv > 0 /\ ~rev'[rj'.key].live
  BY DEF Forgetting
<1>1. /\ rj \in RevWorker /\ RevIdle.pc = "idle" /\ RevIdle \in RevWorker
      /\ rj'.key \in RevIds
  BY NothingTyped DEF Typed, TypeOK, KeyKnown, RevIdle
<1>2. \A r \in RevIds : Evolves(r)
  BY StepWrites, RevsEvolve
<1>3. ASSUME NEW r \in RevIds, rev[r].rv > 0, ~rev[r].live
      PROVE  rev'[r].rv > 0 /\ ~rev'[r].live
  <2>1. rev[r].rv \in Nat /\ rev'[r].rv \in Nat
    BY DEF Typed, TypeOK, ClusterTypeOK, Revision
  <2> QED  BY <1>2, <1>3, <2>1 DEF Evolves
<1>4. CASE \E r \in RevIds : RevBegin(r)
  <2>1. PICK r \in RevIds : RevBegin(r)
    BY <1>4
  <2>2. r \in queue.rev /\ ~cache.rev[r].live /\ rj'.key = r
    BY <1>1, <2>1 DEF RevBegin, Gone, AfterOrigin, RevIdle
  <2>3. rev[r].rv > 0 /\ ~rev[r].live
    <3>1. cache.rev[r].rv > 0 /\ RevCopy(cache.rev[r], rev[r])
      BY <2>2 DEF LifeInv, Seen, RevCopies
    <3>2. cache.rev[r].rv \in Nat /\ rev[r].rv \in Nat
      BY RevsTyped DEF Revision
    <3> QED  BY <2>2, <3>1, <3>2 DEF RevCopy
  <2> QED  BY <1>3, <2>2, <2>3
<1>5. CASE ~\E r \in RevIds : RevBegin(r)
  <2>1. rj' = rj
    <3>1. \A j, retry : Observing(j, retry).pc = "observe"
      BY <1>1 DEF Observing, RevIdle
    <3>2. \A own : AfterOrigin(own) # "forget"
      BY DEF AfterOrigin
    <3>3. ~RevStep
      <4>1. ~(ForgetRevision \/ ObserveGeneration)
        BY <1>1 DEF ForgetRevision, ObserveGeneration
      <4>2. ASSUME ClearOrigin PROVE FALSE
        <5>1. CASE \E j : rj' = Observing(j, TRUE)
          BY <3>1, <5>1
        <5>2. CASE \E new, own : rj' = [rj EXCEPT !.own = new, !.pc = AfterOrigin(own)]
          <6>1. PICK new, own : rj' = [rj EXCEPT !.own = new, !.pc = AfterOrigin(own)]
            BY <5>2
          <6>2. rj'.pc = AfterOrigin(own)
            BY <1>1, <6>1 DEF RevWorker
          <6> QED  BY <3>2, <6>2
        <5> QED  BY <4>2, <5>1, <5>2 DEF ClearOrigin, RevHeard
      <4>3. ~(ReadAppDeployment \/ MarkAppDeployment)
        <5>1. ~ReadAppDeployment
          BY <1>1, <3>1 DEF ReadAppDeployment, RevWorker
        <5>2. MarkAppDeployment => \E retry : rj' = Observing(rj, retry)
          BY DEF MarkAppDeployment
        <5> QED  BY <3>1, <5>1, <5>2
      <4>4. ~(\E s \in RevIds : OtherPhase(s) \/ OtherSpec(s))
        BY ZenonT(60), <1>1 DEF OtherPhase, OtherSpec, RevHeard, RevWorker
      <4>5. ~(ActivatePhase \/ SwitchDeployment \/ SyncRevision)
        BY <1>1 DEF ActivatePhase, SwitchDeployment, SyncRevision, RevHeard, RevWorker
      <4> QED  BY <1>5, <4>1, <4>2, <4>3, <4>4, <4>5 DEF RevStep
    <3>4. ~Restart
      BY <1>1 DEF Restart
    <3> QED  BY <3>3, <3>4 DEF Next, Step, Resync, vars
  <2>2. rj.key \in RevIds /\ rev[rj.key].rv > 0 /\ ~rev[rj.key].live
    BY <2>1, <1>1 DEF LifeInv, Forgetting
  <2> QED  BY <1>3, <2>1, <2>2
<1> QED  BY <1>4, <1>5

\* New(id) and Minting, of the next state.
NewNext(id) == id \in RevIds /\ id <= lyra'.minted /\ rev'[id].rv = 0

Minted(j) ==
    /\ j.pc \in {"module", "subdomain", "service"}
          => j.id \in {NoRev, j.ad.cur} \/ NewNext(j.id)
    /\ j.pc \in {"list", "phase", "spec", "create"} => NewNext(j.id)

\* handleRevisionChanges goes on only with an id that was just minted.
LEMMA AfterObjectsMinted ==
    ASSUME NEW j \in AdWorker, j.id \in {NoRev, j.ad.cur} \/ NewNext(j.id)
    PROVE  Minted(AfterObjects(j)) /\ Minted(AfterModule(j)) /\ Minted(AdIdle)
<1>1. AdIdle.pc = "idle" /\ AdIdle \in AdWorker
  BY NothingTyped DEF AdIdle
<1>2. Minted(AdIdle)
  BY <1>1 DEF Minted
<1>3. Minted(AfterObjects(j))
  <2>1. CASE j.id = NoRev \/ (j.ad.cur = j.id /\ ~j.ad.marker)
    BY <1>2, <2>1 DEF AfterObjects
  <2>2. CASE ~(j.id = NoRev \/ (j.ad.cur = j.id /\ ~j.ad.marker))
    <3> DEFINE k == AfterObjects(j)
    <3>1. k = [AdIdle EXCEPT !.ad = j.ad, !.id = j.id,
                             !.pc = IF j.ad.marker THEN "mark" ELSE "list"]
      BY <2>2 DEF AfterObjects
    <3>2. k.id = j.id /\ k.pc = IF j.ad.marker THEN "mark" ELSE "list"
      BY <1>1, <3>1 DEF AdWorker
    <3> HIDE DEF k
    <3>3. k.pc \in {"mark", "list"} /\ (k.pc = "list" => NewNext(k.id))
      BY <2>2, <3>2
    <3>4. Minted(k)
      BY <3>3 DEF Minted
    <3> QED  BY <3>4 DEF k
  <2> QED  BY <2>1, <2>2
<1>4. Minted(AfterModule(j))
  <2>1. [j EXCEPT !.pc = "service"].pc = "service" /\ [j EXCEPT !.pc = "service"].id = j.id
        /\ [j EXCEPT !.pc = "service"].ad = j.ad
    BY DEF AdWorker
  <2>2. Minted([j EXCEPT !.pc = "service"])
    BY <2>1 DEF Minted
  <2> QED  BY <1>3, <2>2 DEF AfterModule
<1> QED  BY <1>2, <1>3, <1>4

LEMMA MintingKept ==
    ASSUME Typed, Typed', LifeInv, [Next]_vars
    PROVE  Minting'
<1>1. /\ aj \in AdWorker /\ AdIdle.pc = "idle" /\ AdIdle \in AdWorker
      /\ lyra \in LyraState /\ lyra' \in LyraState
  BY NothingTyped DEF Typed, TypeOK, ClusterTypeOK, AdIdle
<1>2. (\A r \in RevIds : Evolves(r)) /\ lyra.minted <= lyra'.minted
  BY StepWrites, RevsEvolve
<1>3. ASSUME NEW id, New(id), ~Creates(id)
      PROVE  NewNext(id)
  BY <1>1, <1>2, <1>3 DEF New, NewNext, Evolves, LyraState, RevIds
<1>4. SUFFICES Minted(aj')
  BY DEF Minting, Minted, New, NewNext
<1>5. Minted(AdIdle)
  BY <1>1 DEF Minted
<1>6. AdFail => Minted(aj')
  BY <1>5 DEF AdFail
<1>7. CASE aj' = aj
  BY <1>3, <1>7 DEF Minted, Minting, LifeInv, Creates
<1>8. CASE AdStep
  <2>1. CASE AdBegin \/ HandleAppDeploymentChanges
    <3>1. aj'.pc \in {"idle", "apply", "deleteApp", "sync"}
      BY <1>1, <2>1 DEF AdBegin, AdFail, HandleAppDeploymentChanges, AdHeard, Changed, Same,
                        AdWorker
    <3> QED  BY <3>1 DEF Minted
  <2>2. CASE SyncApp
    <3> DEFINE cur        == aj.ad.cur
               answer(id) == [aj EXCEPT !.id = id]
    <3>1. /\ cur \in 0 .. MaxRevs /\ Reply(cur) \in RevIds
          /\ NoRev \in 0 .. MaxRevs /\ Reply(cur) \in 0 .. MaxRevs
      BY <1>1, <2>2, RevsAssumption DEF SyncApp, AdWorker, AppDeployment, RevIds, NoRev
    <3>2. ASSUME NEW id \in 0 .. MaxRevs, id \in {NoRev, cur} \/ NewNext(id)
          PROVE  /\ Minted(AfterModule(answer(id)))
                 /\ Minted([answer(id) EXCEPT !.pc = "module"])
      <4>1. /\ answer(id) \in AdWorker /\ answer(id).id = id /\ answer(id).ad = aj.ad
            /\ [answer(id) EXCEPT !.pc = "module"].id = id
            /\ [answer(id) EXCEPT !.pc = "module"].ad = aj.ad
            /\ [answer(id) EXCEPT !.pc = "module"].pc = "module"
        BY <1>1, <3>2 DEF AdWorker
      <4> HIDE DEF answer
      <4>2. Minted(AfterModule(answer(id)))
        BY <3>2, <4>1, AfterObjectsMinted
      <4>3. Minted([answer(id) EXCEPT !.pc = "module"])
        BY <3>2, <4>1 DEF Minted
      <4> QED  BY <4>2, <4>3
    <3>3. lyra' = Synced(cur) => Reply(cur) \in {NoRev, cur} \/ NewNext(Reply(cur))
      <4>1. CASE cur # NoRev
        BY <4>1 DEF Reply
      <4>2. CASE cur = NoRev
        <5>1. Reply(cur) = lyra.minted + 1
          BY <4>2 DEF Reply
        <5>2. rev' = rev
          BY <2>2 DEF SyncApp
        <5>3. rev[Reply(cur)].rv = 0
          <6>1. rev[Reply(cur)].rv \in Nat
            BY <3>1, RevsTyped DEF Revision
          <6> QED  BY <1>1, <3>1, <5>1, <6>1 DEF LifeInv, Born, LyraState
        <5>4. lyra' = Synced(cur) => Reply(cur) <= lyra'.minted
          <6>1. Reply(cur) > lyra.minted /\ Reply(cur) <= Reply(cur)
            BY <1>1, <5>1 DEF LyraState
          <6>2. Synced(cur).minted = Reply(cur)
            BY <1>1, <6>1 DEF Synced, LyraState
          <6> QED  BY <6>1, <6>2
        <5> QED  BY <3>1, <5>2, <5>3, <5>4 DEF NewNext
      <4> QED  BY <4>1, <4>2
    <3>4. \/ AdFail
          \/ aj' \in {[answer(NoRev) EXCEPT !.pc = "module"], AfterModule(answer(NoRev))}
          \/ /\ lyra' = Synced(cur)
             /\ aj' \in {[answer(Reply(cur)) EXCEPT !.pc = "module"],
                         AfterModule(answer(Reply(cur)))}
      <4>1. PICK call \in Calls :
               /\ Asked(call, Synced(cur))
               /\ \/ /\ call.how = "answered"
                     /\ aj' \in {[answer(Reply(cur)) EXCEPT !.pc = "module"],
                                 AfterModule(answer(Reply(cur)))}
                  \/ /\ call.how = "empty"
                     /\ aj' \in {[answer(NoRev) EXCEPT !.pc = "module"],
                                 AfterModule(answer(NoRev))}
                  \/ AdFail
        BY <2>2 DEF SyncApp
      <4>2. call.how = "answered" => call.took
        BY DEF Calls
      <4>3. call.took => lyra' = Synced(cur)
        BY <4>1 DEF Asked
      <4> QED  BY <4>1, <4>2, <4>3
    <3> HIDE DEF answer, cur
    <3> QED  BY <1>6, <3>1, <3>2, <3>3, <3>4
  <2>3. CASE CreateModule \/ CreateSubdomain \/ HandleServiceChanges
    <3>1. ~Creates(aj.id)
      BY <2>3 DEF CreateModule, CreateSubdomain, HandleServiceChanges, Creates
    <3>2. aj.id \in {NoRev, aj.ad.cur} \/ NewNext(aj.id)
      BY <1>3, <2>3, <3>1
         DEF CreateModule, CreateSubdomain, HandleServiceChanges, LifeInv, Minting
    <3>3. Minted(AfterObjects(aj)) /\ Minted(AfterModule(aj))
      BY <1>1, <3>2, AfterObjectsMinted
    <3>4. [aj EXCEPT !.pc = "subdomain"].id = aj.id /\ [aj EXCEPT !.pc = "subdomain"].ad = aj.ad
          /\ [aj EXCEPT !.pc = "subdomain"].pc = "subdomain"
      BY <1>1 DEF AdWorker
    <3>5. Minted([aj EXCEPT !.pc = "subdomain"])
      BY <3>2, <3>4 DEF Minted
    <3> QED  BY <1>6, <2>3, <3>3, <3>5
             DEF CreateModule, CreateSubdomain, HandleServiceChanges
  <2>4. CASE ListRevisions \/ \E r \in RevIds : RetirePhase(r) \/ RetireSpec(r)
    <3>1. /\ aj'.id = aj.id /\ aj'.pc \in {"phase", "spec", "create"}
          /\ aj.pc \in {"list", "phase", "spec"}
      BY ZenonT(60), <1>1, <2>4 DEF ListRevisions, RetirePhase, RetireSpec, AdHeard, AdWorker
    <3>2. New(aj.id) /\ ~Creates(aj.id)
      BY <3>1 DEF LifeInv, Minting, Creates
    <3> QED  BY <1>3, <3>1, <3>2 DEF Minted
  <2>5. CASE ConsumeMarker \/ CreateRevision \/ Prune \/ DeleteApp \/ DeleteService
    <3>1. aj'.pc \in {"idle", "prune", "deleteService"}
      BY <1>1, <2>5 DEF ConsumeMarker, CreateRevision, AdHeard, Prune, DeleteApp,
                        DeleteService, AdFail, AdWorker
    <3> QED  BY <3>1 DEF Minted
  <2> QED  BY <1>8, <2>1, <2>2, <2>3, <2>4, <2>5 DEF AdStep
<1>9. CASE Restart
  BY <1>5, <1>9 DEF Restart
<1> QED  BY <1>7, <1>8, <1>9 DEF Next, Step, Resync, vars

LEMMA LifeKept ==
    Typed /\ LifeInv /\ [Next]_vars => LifeInv'
<1> SUFFICES ASSUME Typed, LifeInv, [Next]_vars PROVE LifeInv'
  OBVIOUS
<1>1. Typed'
  BY NextTyped
<1>2. Born'
  BY <1>1, StepWrites, RevsEvolve
<1> QED  BY <1>1, <1>2, CopiesKept, SeenKept, ForgettingKept, MintingKept DEF LifeInv

-----------------------------------------------------------------------------
(* The refinement.                                                         *)

\* The stage of a Revision v that Lyra has forgotten or not.
StageOf(v, forgotten) ==
    CASE forgotten /\ v.live  -> "revived"
      [] forgotten /\ ~v.live -> "forgotten"
      [] ~forgotten /\ ~v.live -> IF v.rv = 0 THEN "unborn" ELSE "gone"
      [] ~forgotten /\ v.live ->
            CASE v.status = "Active"     -> "serving"
              [] v.status = "Non-active" -> "retired"
              [] v.status = ""           -> "bare"

LEMMA StageIs == Stage = [r \in RevIds |-> StageOf(rev[r], r \in lyra.forgotten)]
BY DEF Stage, StageOf

LEMMA Stages ==
    ASSUME NEW v \in Revision
    PROVE  /\ ~v.live => StageOf(v, TRUE) = "forgotten"
           /\ ~v.live /\ v.rv = 0 => StageOf(v, FALSE) = "unborn"
           /\ ~v.live /\ v.rv # 0 => StageOf(v, FALSE) = "gone"
           /\ v.live /\ v.status = "Active" => StageOf(v, FALSE) = "serving"
           /\ v.live /\ v.status = "Non-active" => StageOf(v, FALSE) = "retired"
           /\ v.live /\ v.status = "" => StageOf(v, FALSE) = "bare"
BY DEF StageOf, Revision

LEMMA InitStage == Init => Lifecycle!Init
<1> SUFFICES ASSUME Init PROVE Lifecycle!Init
  OBVIOUS
<1>1. /\ \A r \in RevIds : rev[r] = NoRevision
      /\ lyra.forgotten = {} /\ budget.switches = MaxSwitches
  BY DEF Init, ClusterInit, NoRevisions, FullBudget
<1>2. StageOf(NoRevision, FALSE) = "unborn"
  <2>1. NoRevision \in Revision /\ ~NoRevision.live /\ NoRevision.rv = 0
    BY NothingTyped DEF NoRevision
  <2> QED  BY <2>1, Stages
<1>3. \A r \in RevIds : StageOf(rev[r], r \in lyra.forgotten) = "unborn"
  <2> SUFFICES ASSUME NEW r \in RevIds
               PROVE  StageOf(rev[r], r \in lyra.forgotten) = "unborn"
    OBVIOUS
  <2>1. (r \in lyra.forgotten) = FALSE
    BY <1>1
  <2> QED  BY <1>1, <1>2, <2>1
<1> QED  BY <1>1, <1>3, StageIs DEF Lifecycle!Init

LEMMA KeepsLifecycle ==
    ASSUME Typed, Typed', LifeInv, Keeps
    PROVE  Lifecycle!Next \/ UNCHANGED <<Stage, budget.switches>>
<1>1. Stage' = [r \in RevIds |-> StageOf(rev'[r], r \in lyra'.forgotten)]
  BY DEF Stage, StageOf
<1>2. CASE lyra'.forgotten = lyra.forgotten
  BY <1>1, <1>2, StageIs DEF Keeps
<1>3. CASE \E r \in RevIds : /\ lyra'.forgotten = lyra.forgotten \cup {r}
                             /\ rev[r].rv > 0 /\ ~rev[r].live
  <2>1. PICK r \in RevIds : /\ lyra'.forgotten = lyra.forgotten \cup {r}
                            /\ rev[r].rv > 0 /\ ~rev[r].live
    BY <1>3
  <2>2. CASE r \in lyra.forgotten
    <3>1. lyra'.forgotten = lyra.forgotten
      BY <2>1, <2>2
    <3> QED  BY <1>2, <3>1
  <2>3. CASE r \notin lyra.forgotten
    <3>1. rev[r] \in Revision /\ rev[r].rv # 0
      BY <2>1, RevsTyped DEF Revision
    <3>2. Stage[r] = "gone"
      <4>1. (r \in lyra.forgotten) = FALSE
        BY <2>3
      <4> QED  BY <2>1, <3>1, <4>1, Stages, StageIs
    <3>3. Stage' = [Stage EXCEPT ![r] = "forgotten"]
      <4>1. StageOf(rev'[r], r \in lyra'.forgotten) = "forgotten"
        <5>1. (r \in lyra'.forgotten) = TRUE /\ rev'[r] = rev[r]
          BY <2>1 DEF Keeps
        <5> QED  BY <2>1, <3>1, <5>1, Stages
      <4>2. \A s \in RevIds \ {r} :
               StageOf(rev'[s], s \in lyra'.forgotten) = StageOf(rev[s], s \in lyra.forgotten)
        <5> SUFFICES ASSUME NEW s \in RevIds \ {r}
                     PROVE  StageOf(rev'[s], s \in lyra'.forgotten)
                              = StageOf(rev[s], s \in lyra.forgotten)
          OBVIOUS
        <5>1. (s \in lyra'.forgotten) = (s \in lyra.forgotten) /\ rev'[s] = rev[s]
          BY <2>1 DEF Keeps
        <5> QED  BY <5>1
      <4> QED  BY <1>1, <4>1, <4>2, StageIs
    <3>4. Lifecycle!Forget(r)
      BY <3>2, <3>3 DEF Lifecycle!Forget, Lifecycle!Move, Keeps
    <3> QED  BY <3>4 DEF Lifecycle!Next
  <2> QED  BY <2>2, <2>3
<1> QED  BY <1>2, <1>3 DEF Keeps

LEMMA WritesLifecycle ==
    ASSUME Typed, LifeInv, Writes
    PROVE  Lifecycle!Next \/ UNCHANGED <<Stage, budget.switches>>
<1>1. PICK r \in RevIds, x \in Revision : Written(r, x)
  BY DEF Writes
<1>2. rev[r] \in Revision /\ rev[r].rv \in Nat /\ rev \in [RevIds -> Revision]
  BY RevsTyped DEF Revision, Typed, TypeOK, ClusterTypeOK
<1>3. ~NoRevision.live
  BY DEF NoRevision
<1>4. (r \in lyra.forgotten) = FALSE
  BY <1>1, <1>2 DEF LifeInv, Born, Written, New
<1>5. Stage[r] = StageOf(rev[r], FALSE)
  BY <1>4, StageIs
<1>6. Stage' = [Stage EXCEPT ![r] = StageOf(x, FALSE)]
  <2>1. Stage' = [s \in RevIds |-> StageOf(rev'[s], s \in lyra'.forgotten)]
    BY DEF Stage, StageOf
  <2>2. lyra' = lyra /\ rev'[r] = x /\ \A s \in RevIds \ {r} : rev'[s] = rev[s]
    BY <1>1, <1>2 DEF Written
  <2>3. StageOf(rev'[r], r \in lyra'.forgotten) = StageOf(x, FALSE)
    BY <1>4, <2>2
  <2> QED  BY <2>1, <2>2, <2>3, StageIs
<1>7. x.rv # 0 \/ x = rev[r]
  BY <1>1, <1>2 DEF Written
<1>8. rev[r].live =>
         Stage[r] = CASE rev[r].status = "Active" -> "serving"
                      [] rev[r].status = "Non-active" -> "retired"
                      [] rev[r].status = "" -> "bare"
  BY <1>2, <1>5, Stages DEF Revision, Status
<1>9. x.status \in Status /\ rev[r].status \in Status
  BY <1>2 DEF Revision
<1>10. CASE /\ New(r) /\ x.live /\ x.status = "Active" /\ UNCHANGED budget.switches
  <2>1. ~rev[r].live /\ rev[r].rv = 0
    BY <1>3, <1>10 DEF New, LifeInv, Born
  <2>2. Stage[r] = "unborn" /\ StageOf(x, FALSE) = "serving"
    BY <1>2, <1>5, <1>10, <2>1, Stages
  <2>3. Lifecycle!Create(r)
    BY <1>6, <1>10, <2>2 DEF Lifecycle!Create, Lifecycle!Move
  <2> QED  BY <2>3 DEF Lifecycle!Next
<1>11. CASE rev[r].live /\ ~x.live /\ UNCHANGED budget.switches
  <2>1. Stage[r] \in {"serving", "retired", "bare"}
    BY <1>2, <1>5, <1>9, <1>11, Stages DEF Status
  <2>2. StageOf(x, FALSE) = "gone"
    BY <1>2, <1>7, <1>11, Stages
  <2>3. Lifecycle!Delete(r)
    BY <1>6, <1>11, <2>1, <2>2 DEF Lifecycle!Delete, Lifecycle!Move, Lifecycle!Living
  <2> QED  BY <2>3 DEF Lifecycle!Next
<1>12. CASE /\ rev[r].live /\ x.live /\ x.status = rev[r].status
            /\ UNCHANGED budget.switches
  <2>1. StageOf(x, FALSE) = Stage[r]
    BY <1>2, <1>5, <1>9, <1>12, Stages DEF Status
  <2>2. Stage' = Stage
    BY <1>6, <2>1, StageIs
  <2> QED  BY <1>12, <2>2
<1>13. CASE /\ rev[r].live /\ x.live /\ x.status = "Non-active" /\ rev[r].status # x.status
            /\ UNCHANGED budget.switches
  <2>1. Stage[r] \in {"serving", "bare"} /\ StageOf(x, FALSE) = "retired"
    BY <1>2, <1>5, <1>9, <1>13, Stages DEF Status
  <2>2. Lifecycle!Retire(r)
    BY <1>6, <1>13, <2>1 DEF Lifecycle!Retire, Lifecycle!Move
  <2> QED  BY <2>2 DEF Lifecycle!Next
<1>14. CASE rev[r].live /\ rev[r].status # "Active" /\ x.live /\ x.status = "Active" /\ Switched
  <2>1. Stage[r] \in {"retired", "bare"} /\ StageOf(x, FALSE) = "serving"
    BY <1>2, <1>5, <1>9, <1>14, Stages DEF Status
  <2>2. Lifecycle!Reactivate(r)
    BY <1>6, <1>14, <2>1 DEF Lifecycle!Reactivate, Lifecycle!Move, Switched
  <2> QED  BY <2>2 DEF Lifecycle!Next
<1> QED  BY <1>1, <1>10, <1>11, <1>12, <1>13, <1>14 DEF Written

\* The life of every Revision is the one RevisionLifecycle promises, whatever
\* stale copies the controllers write back, whatever fails and however often
\* the manager is restarted: it is created once, retired, put in service again
\* by the user only, deleted for good, and forgotten by Lyra only then.
THEOREM OperatorImplementsLifecycle == Spec => LifecycleSpec
<1>1. Typed /\ LifeInv /\ [Next]_vars => Typed' /\ LifeInv'
  BY NextTyped, LifeKept
<1>2. Typed /\ LifeInv /\ [Next]_vars => [Lifecycle!Next]_<<Stage, budget.switches>>
  BY NextTyped, StepWrites, KeepsLifecycle, WritesLifecycle
<1> QED  BY InitTyped, InitLife, InitStage, <1>1, <1>2, PTL
         DEF Spec, LifecycleSpec, Lifecycle!Spec

=============================================================================
