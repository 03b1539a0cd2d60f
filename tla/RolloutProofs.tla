---------------------------- MODULE RolloutProofs ----------------------------
(***************************************************************************)
(* What the edits of a settled application come to when its user waits      *)
(* for each to be rolled out: for any number of edits, images and          *)
(* Revisions, and any lag of the informers, the exchange of the two        *)
(* controllers ends with the one new Revision in service.                  *)
(*                                                                         *)
(* The argument follows the exchange through three chapters: before an id  *)
(* is asked for, while the AppDeployment controller retires what is there, *)
(* and after it created the new Revision, which only the Revision          *)
(* controller then makes current.                                          *)
(***************************************************************************)
EXTENDS QuiescenceProofs

\* The user edits the AppDeployment only when everybody is at rest.
Patient == budget'.edits # budget.edits => Quiescent

-----------------------------------------------------------------------------
(* The invariant.                                                          *)

\* A copy is older than what is stored, or the same.
Follows(copy, stored) == copy.rv <= stored.rv /\ (copy.rv = stored.rv => copy = stored)

\* The Revision worker has read the AppDeployment it will mark.
Rolling == {"phase", "spec", "activate", "switch", "sync", "mark"}

\* The copies the workers write back.
Held ==
    /\ Follows(cache.dep, dep) /\ OwnFollows
    /\ rj.pc \in Rolling => Follows(rj.ad, ad) /\ rj.ad.live
    /\ rj.pc \in Rolling \ {"sync", "mark"} => Follows(rj.dep, dep) /\ rj.dep.live
    /\ aj.pc \in {"apply", "sync", "module", "subdomain", "service", "mark"} => aj.ad.live

\* An application that runs, and whose user gave it annotations.
Standing ==
    /\ Annotated /\ objs.secret
    /\ ad.live /\ cache.ad.live /\ dep.live /\ cache.dep.live

\* All the others are dull.
DullBut(n) == \A r \in RevIds \ {n} : Dull(rev[r]) /\ Dull(cache.rev[r])

\* The Revision controller has nothing to do.
Still ==
    /\ rj.pc = "idle" /\ queue.rev = {} /\ cache.rev = rev
    /\ \A r \in LiveIn(rev) : rev[r].gen = rev[r].obs /\ ~rev[r].origin

\* Every id was made use of; the history is no longer than it may be.
AllUsed(n)   == lyra.minted = n /\ \A r \in 1 .. n : rev[r].rv > 0
ShortHistory == Cardinality(LiveIn(rev)) <= HistoryLimit

\* The first chapter: nobody has heard of an edit yet; the AppDeployment
\* controller hears of it; it is about to ask Lyra.
Asking == aj.pc = "sync" /\ ~queue.ad /\ cache.ad = ad /\ ~aj.app

Level ==
    /\ \/ aj.pc = "idle" /\ ~queue.ad /\ cache.ad = ad
       \/ Asking /\ ~aj.revision /\ aj.ad = ad
    /\ cache.dep = dep /\ dep.image = Spelling(ad.image) /\ rev[ad.cur].image = dep.image

Edited ==
    /\ \/ aj.pc = "idle" /\ ~queue.ad /\ cache.ad.rv # ad.rv
       \/ aj.pc = "idle" /\ queue.ad /\ cache.ad = ad
       \/ aj.pc = "apply" /\ ~queue.ad /\ cache.ad = ad /\ aj.ad = ad /\ ~aj.revision /\ ~aj.app
    /\ cache.dep = dep /\ rev[ad.cur].image = dep.image

Applied ==
    /\ Asking /\ aj.revision /\ aj.ad = [ad EXCEPT !.cur = NoRev]
    /\ dep.image = Spelling(ad.image)

Before ==
    /\ Still /\ ~ad.marker /\ InService = {ad.cur} /\ rev[ad.cur].phase = "Active"
    /\ AllUsed(lyra.minted) /\ ShortHistory /\ Spelling(dep.image) = dep.image
    /\ Level \/ Edited \/ Applied

\* The second chapter: the AppDeployment controller has the new id, and retires
\* the Revisions one by one; the Revision controller only observes that.
Untouched(r) ==
    /\ aj.list[r] = rev[r] /\ rev[r].gen = rev[r].obs
    /\ cache.rev[r].gen = cache.rev[r].obs /\ (rj.pc # "idle" => rj.key # r)

NewId ==
    /\ aj.pc \in {"service", "list", "phase", "spec", "create"}
    /\ lyra.minted \in RevIds /\ aj.id = lyra.minted /\ rev[aj.id].rv = 0
    /\ \A r \in 1 .. lyra.minted - 1 : rev[r].rv > 0
    /\ ad.cur # aj.id /\ aj.ad = [ad EXCEPT !.cur = NoRev] /\ ~ad.marker
    /\ cache.ad = ad /\ ~queue.ad /\ dep.image = Spelling(ad.image)

Retires ==
    /\ aj.listed = LiveIn(rev) /\ aj.todo \subseteq LiveIn(rev) /\ InService \subseteq aj.todo
    /\ \A r \in aj.todo : Untouched(r)
    /\ aj.pc = "spec" => aj.at \in aj.todo
    /\ aj.pc = "create" => aj.todo = {}

During ==
    /\ NewId /\ ShortHistory
    /\ rj.pc \in {"idle", "forget", "observe"} /\ DullBut(NoRev)
    /\ IF aj.pc \in {"service", "list"} THEN Still ELSE Retires

\* The third chapter: the new Revision is there, and is made current.
Newest(v) == v.live /\ v.status = "Active" /\ v.image = dep.image /\ v.gen = 1
Rolls(n)  == Working /\ rj.key = n

Serving(n) ==
    /\ InService = {n} /\ Newest(rev[n]) /\ (cache.rev[n].rv > 0 => Newest(cache.rev[n]))
    /\ DullBut(n)

\* The Revision worker rolls out no other Revision, and retires not this one.
Attending(n) ==
    /\ rj.pc \in {"idle", "forget", "observe"} \/ rj.key = n
    /\ rj.pc \in {"phase", "spec"} => n \notin rj.todo
    /\ rj.pc = "spec" => rj.at # n

Taking(n) ==
    /\ Rolls(n) => Newest(rj.own)
    /\ Rolls(n) /\ rj.own.rv = rev[n].rv =>
          /\ rj.pc \in {"switch", "sync", "mark", "observe"} => rev[n].phase = "Active"
          /\ rj.pc = "observe" => ad.cur = n
    /\ rev[n].obs = 0 => Pending(n) \/ Rolls(n)
    /\ rev[n].obs # 0 => rev[n].phase = "Active" /\ ad.cur = n

\* The AppDeployment controller does nothing before the Revision is current,
\* and nothing of its own after.
Following(n) ==
    /\ ad.cur # n => /\ aj.pc \in {"idle", "prune"} /\ ~queue.ad /\ cache.ad = ad
                     /\ rj.pc \in Rolling => rj.ad = ad
    /\ ad.cur = n => ad.image = dep.image
    /\ cache.ad.cur = n => cache.ad.image = dep.image
    /\ queue.ad => cache.ad.cur = n
    /\ aj.pc \in {"idle", "prune", "apply", "sync", "mark"}
    /\ aj.pc \in {"apply", "sync", "mark"} =>
          /\ aj.ad.cur = n /\ aj.ad.image = dep.image /\ Follows(aj.ad, ad)
          /\ ~aj.revision /\ ~aj.app
    /\ aj.pc = "mark" => aj.id = n

Pruning(n) ==
    IF aj.pc = "prune"
    THEN /\ aj.listed = LiveIn(rev) \ {n} /\ aj.listed # {}
         /\ Cardinality(aj.listed) <= HistoryLimit
    ELSE ShortHistory

After(n) ==
    /\ AllUsed(n) /\ dep.image = Spelling(ad.image)
    /\ Serving(n) /\ Attending(n) /\ Taking(n) /\ Following(n) /\ Pruning(n)

RollInv == Held /\ Standing /\ (Before \/ During \/ \E n \in RevIds : After(n))

\* A moment at which the application is rolled out and everybody is at rest.
AtPeace ==
    /\ Quiescent /\ RolledOut /\ Annotated /\ objs.secret
    /\ ad.live /\ ~ad.marker /\ ShortHistory
    /\ \A r \in LiveIn(rev) : rev[r].gen = rev[r].obs /\ ~rev[r].origin

-----------------------------------------------------------------------------
(* The copies in the workers' hands.                                       *)

\* A calm step, and what may be taken for granted when it is taken.
Calm ==
    /\ Typed /\ Typed' /\ ImagesKept /\ LifeInv /\ AdCopy
    /\ Held /\ Standing /\ CalmNext /\ [Next]_vars /\ ~Fault

LEMMA DepsTyped ==
    ASSUME Typed
    PROVE  /\ dep \in Deployment /\ cache.dep \in Deployment /\ rj.dep \in Deployment
           /\ dep.rv \in Nat /\ cache.dep.rv \in Nat /\ rj.dep.rv \in Nat
BY DEF Typed, TypeOK, ClusterTypeOK, Cache, RevWorker, Deployment

\* The Deployment is untouched or has a new version, and lives on.
LEMMA DepCopiesFrom ==
    ASSUME Typed, Held, Standing, CalmNext, ~Fault
    PROVE  /\ dep' = dep \/ dep'.rv = dep.rv + 1
           /\ dep'.live
           /\ cache'.dep = cache.dep \/ (cache'.dep = dep /\ dep' = dep)
<1>1. cache \in Cache /\ dep \in Deployment /\ dep.rv \in Nat
  BY DepsTyped DEF Typed, TypeOK, ClusterTypeOK
<1>2. CASE HandleAppDeploymentChanges
  <2>1. dep' = dep \/ dep' = Stored(dep, [dep EXCEPT !.image = Spelling(aj.ad.image)])
    BY <1>2 DEF HandleAppDeploymentChanges, Standing
  <2>2. dep.live /\ cache' = cache
    BY <1>2 DEF HandleAppDeploymentChanges, Standing
  <2> QED  BY <1>1, <2>1, <2>2 DEF Stored, Deployment
<1>3. CASE SwitchDeployment
  <2>1. dep' = dep \/ dep' = Stored(dep, [rj.dep EXCEPT !.image = rj.own.image])
    BY <1>3 DEF SwitchDeployment
  <2>2. rj.dep \in Deployment /\ rj.dep.live /\ dep.live /\ cache' = cache
    BY <1>3, DepsTyped DEF SwitchDeployment, Held, Standing, Rolling
  <2>3. [rj.dep EXCEPT !.image = rj.own.image].live
    BY <2>2 DEF Deployment
  <2> QED  BY <1>1, <2>1, <2>2, <2>3 DEF Stored, Deployment
<1>4. CASE Deliver
  BY <1>1, <1>4 DEF Deliver, DeliverAppDeployment, DeliverDeployment, DeliverRevision, Cache,
     Standing
<1>5. CASE /\ AdStep /\ ~HandleAppDeploymentChanges
  <2>1. UNCHANGED <<dep, cache>>
    BY <1>5 DEF AdStep, AdBegin, SyncApp, CreateModule, CreateSubdomain, HandleServiceChanges,
       ConsumeMarker, ListRevisions, clusterVars, RetirePhase, RetireSpec, CreateRevision,
       Prune, DeleteApp, DeleteService
  <2> QED  BY <2>1 DEF Standing
<1>6. CASE RevStep /\ ~SwitchDeployment
  <2>1. UNCHANGED <<dep, cache>>
    BY <1>6 DEF RevStep, RevBegin, ForgetRevision, ClearOrigin, ReadAppDeployment, clusterVars,
       OtherPhase, OtherSpec, ActivatePhase, SyncRevision, MarkAppDeployment,
       ObserveGeneration
  <2> QED  BY <2>1 DEF Standing
<1>7. CASE UNCHANGED vars \/ ProvideSecret \/ \E i \in Images : EditImage(i)
  BY <1>7 DEF vars, ProvideSecret, EditImage, Standing
<1> QED  BY <1>2, <1>3, <1>4, <1>5, <1>6, <1>7 DEF CalmNext

\* The AppDeployment worker keeps the copy it began with.
LEMMA AdInHand ==
    ASSUME Typed, Held, Standing, CalmNext, ~Fault,
           aj'.pc \in {"apply", "sync", "module", "subdomain", "service", "mark"}
    PROVE  aj'.ad.live
<1>1. /\ aj \in AdWorker /\ AdIdle.pc = "idle" /\ AdIdle \in AdWorker
      /\ aj.pc \in {"apply", "sync", "module", "subdomain", "service", "mark"} => aj.ad.live
      /\ aj.ad \in AppDeployment
  BY NothingTyped, AdsTyped DEF Typed, TypeOK, AdIdle, Held
<1>2. ASSUME NEW j \in AdWorker
      PROVE  /\ AfterObjects(j).pc = "mark" => AfterObjects(j).ad = j.ad
             /\ AfterObjects(j).pc \in {"idle", "mark", "list"}
             /\ [j EXCEPT !.pc = "service"].ad = j.ad
  BY <1>1 DEF AfterObjects, AdIdle, AdWorker
<1>3. CASE AdBegin
  BY <1>1, <1>3 DEF AdBegin, Standing, AdWorker
<1>4. CASE HandleAppDeploymentChanges
  <2>1. /\ Changed.ad.live = aj.ad.live /\ Same.ad = aj.ad /\ aj.ad.live
    BY <1>1, <1>4 DEF HandleAppDeploymentChanges, Changed, Same, AdWorker, AppDeployment
  <2> QED  BY <1>4, <2>1 DEF HandleAppDeploymentChanges, AdHeard
<1>5. CASE SyncApp
  <2>1. aj.ad.live
    BY <1>1, <1>5 DEF SyncApp
  <2>2. PICK j \in AdWorker : j.ad = aj.ad /\ (aj' = j \/ aj' = AfterModule(j))
    BY <1>5, SyncAnswered
  <2> QED  BY <1>2, <2>1, <2>2 DEF AfterModule
<1>6. CASE CreateModule
  BY <1>1, <1>6 DEF CreateModule, AdFail, AdWorker
<1>7. CASE CreateSubdomain \/ HandleServiceChanges
  BY <1>1, <1>2, <1>7 DEF CreateSubdomain, HandleServiceChanges, AdFail, AfterModule
<1>8. CASE ConsumeMarker \/ ListRevisions \/ CreateRevision \/ Prune
  BY <1>1, <1>8 DEF ConsumeMarker, ListRevisions, CreateRevision, Prune, AdHeard, AdWorker
<1>9. CASE \E r \in RevIds : RetirePhase(r) \/ RetireSpec(r)
  <2>1. aj'.pc \in {"phase", "spec", "create"}
    BY <1>1, <1>9 DEF RetirePhase, RetireSpec, AdHeard, AdWorker
  <2> QED  BY <2>1
<1>10. CASE DeleteApp \/ DeleteService
  BY <1>1, <1>10 DEF DeleteApp, DeleteService, AdFail, AdWorker
<1>11. CASE aj' = aj
  BY <1>1, <1>11
<1> QED  BY <1>3, <1>4, <1>5, <1>6, <1>7, <1>8, <1>9, <1>10, <1>11 DEF CalmNext, AdStep, vars

\* The Revision worker keeps the copies it read.
LEMMA RolledOn ==
    ASSUME Typed, [Next]_vars, rj'.pc \in Rolling
    PROVE  \/ /\ rj'.ad = cache.ad /\ rj'.dep = cache.dep /\ UNCHANGED <<ad, dep, cache>>
              /\ rj.pc \notin Rolling
           \/ /\ rj.pc \in Rolling /\ rj'.ad = rj.ad
              /\ rj'.pc \notin {"sync", "mark"} => rj.pc \notin {"sync", "mark"} /\ rj'.dep = rj.dep
<1>1. rj \in RevWorker
  BY DEF Typed, TypeOK
<1>2. CASE ReadAppDeployment
  BY <1>1, <1>2, ObservingIs DEF ReadAppDeployment, clusterVars, RevWorker, Rolling
<1>3. CASE \E r \in RevIds : OtherPhase(r) \/ OtherSpec(r)
  BY <1>1, <1>3 DEF OtherPhase, OtherSpec, RevHeard, RevWorker, Rolling
<1>4. CASE ActivatePhase \/ SwitchDeployment \/ SyncRevision
  BY <1>1, <1>4 DEF ActivatePhase, SwitchDeployment, SyncRevision, RevHeard, RevWorker, Rolling
<1>5. CASE MarkAppDeployment \/ ClearOrigin
  <2>1. AfterOrigin(PutSpec(rev[rj.key], Cleared(rj.key))) \notin Rolling
    BY DEF AfterOrigin, Rolling
  <2>2. CASE MarkAppDeployment
    BY <2>2, ObservingIs DEF MarkAppDeployment, Rolling
  <2>3. CASE ClearOrigin
    <3>1. rj'.pc \in {"observe", AfterOrigin(PutSpec(rev[rj.key], Cleared(rj.key)))}
      BY <1>1, <2>3, ObservingIs DEF ClearOrigin, RevHeard, RevWorker
    <3> QED  BY <2>1, <3>1 DEF Rolling
  <2> QED  BY <1>5, <2>2, <2>3
<1>6. CASE \E r \in RevIds : RevBegin(r)
  <2>1. PICK r \in RevIds : RevBegin(r)
    BY <1>6
  <2> DEFINE pc == IF cache.rev[r].origin THEN "clear" ELSE AfterOrigin(cache.rev[r])
  <2>2. pc \notin Rolling /\ RevIdle \in RevWorker /\ RevIdle.pc = "idle"
    BY NothingTyped DEF AfterOrigin, Rolling, RevIdle
  <2>3. \/ rj' = RevIdle \/ rj' = [RevIdle EXCEPT !.pc = "forget", !.key = r]
        \/ rj' = [RevIdle EXCEPT !.key = r, !.own = cache.rev[r], !.pc = pc]
    BY <2>1 DEF RevBegin
  <2> HIDE DEF pc
  <2> QED  BY <2>2, <2>3 DEF RevWorker, Rolling
<1>7. CASE ForgetRevision \/ ObserveGeneration \/ Restart
  BY <1>7, WorkerStops DEF Rolling
<1>8. CASE rj' = rj
  BY <1>8
<1> QED  BY <1>2, <1>3, <1>4, <1>5, <1>6, <1>7, <1>8 DEF Next, Step, RevStep, Resync, vars

LEMMA AdLives ==
    ASSUME Typed, Held, Standing, CalmNext
    PROVE  ad'.live
<1>1. /\ ad \in AppDeployment /\ aj.ad \in AppDeployment /\ rj.ad \in AppDeployment /\ ad.live
  BY AdsTyped DEF Standing
<1>2. CASE \E i \in Images : EditImage(i)
  BY <1>1, <1>2 DEF EditImage, Stored, AppDeployment
<1>3. CASE ConsumeMarker
  <2>1. Unmarked.live /\ "live" \in DOMAIN Unmarked
    BY <1>1, <1>3 DEF ConsumeMarker, Held, Unmarked, AppDeployment
  <2> QED  BY <1>1, <1>3, <2>1 DEF ConsumeMarker, Stored
<1>4. CASE MarkAppDeployment
  <2>1. Marked.live /\ "live" \in DOMAIN Marked
    BY <1>1, <1>4 DEF MarkAppDeployment, Held, Rolling, Marked, AppDeployment
  <2> QED  BY <1>1, <1>4, <2>1 DEF MarkAppDeployment, Stored
<1>5. CASE AdStep /\ ~ConsumeMarker
  BY <1>1, <1>5 DEF AdStep, AdBegin, HandleAppDeploymentChanges, SyncApp, CreateModule,
     CreateSubdomain, HandleServiceChanges, ListRevisions, clusterVars, RetirePhase,
     RetireSpec, CreateRevision, Prune, DeleteApp, DeleteService
<1>6. CASE RevStep /\ ~MarkAppDeployment
  BY <1>1, <1>6 DEF RevStep, RevBegin, ForgetRevision, ClearOrigin, ReadAppDeployment, clusterVars,
     OtherPhase, OtherSpec, ActivatePhase, SwitchDeployment, SyncRevision, ObserveGeneration
<1>7. CASE UNCHANGED vars \/ ProvideSecret \/ Deliver
  BY <1>1, <1>7 DEF vars, ProvideSecret, Deliver, DeliverAppDeployment, DeliverDeployment,
     DeliverRevision
<1> QED  BY <1>2, <1>3, <1>4, <1>5, <1>6, <1>7 DEF CalmNext

LEMMA HeldStays ==
    ASSUME Calm
    PROVE  Held' /\ Standing'
<1> USE DEF Calm
<1>1. /\ dep' = dep \/ dep'.rv = dep.rv + 1
      /\ dep'.live /\ ad'.live
      /\ cache'.dep = cache.dep \/ (cache'.dep = dep /\ dep' = dep)
      /\ dep.rv \in Nat /\ cache.dep.rv \in Nat /\ rj.dep.rv \in Nat
  BY DepCopiesFrom, DepsTyped, AdLives
<1>2. /\ Grown /\ ad.rv \in Nat /\ ad'.rv \in Nat
      /\ cache.ad.rv <= ad.rv
      /\ cache'.ad = cache.ad \/ (cache'.ad = ad /\ ad' = ad)
      /\ rj.ad.rv \in Nat /\ Follows(cache.ad, ad)
  BY AdCopiesFrom, AdsTyped DEF AppDeployment, AdCopy, Follows
<1>3. Standing'
  BY <1>1, <1>2, SecretStays DEF Standing
<1>4. Follows(cache.dep, dep)'
  BY <1>1 DEF Held, Follows
<1>5. OwnFollows'
  BY OwnFollowsKept DEF Held
<1>6. rj'.pc \in Rolling => Follows(rj.ad, ad)' /\ rj'.ad.live
  BY <1>2, RolledOn DEF Held, Standing, Follows, Grown
<1>7. rj'.pc \in Rolling \ {"sync", "mark"} => Follows(rj.dep, dep)' /\ rj'.dep.live
  BY <1>1, RolledOn DEF Held, Standing, Follows
<1>8. aj'.pc \in {"apply", "sync", "module", "subdomain", "service", "mark"} => aj'.ad.live
  BY AdInHand
<1> QED  BY <1>3, <1>4, <1>5, <1>6, <1>7, <1>8 DEF Held

-----------------------------------------------------------------------------
(* Retiring and observing puts nothing in service.                         *)

LEMMA SpecDulls ==
    ASSUME NEW old \in Revision, NEW held \in Revision,
           held = [old EXCEPT !.status = "Non-active"]
    PROVE  Dulled(old, PutSpec(old, held)) /\ PutSpec(old, held).status = "Non-active"
<1>1. held.live = old.live /\ held.origin = old.origin /\ held.status = "Non-active"
  BY DEF Revision
<1> QED  BY <1>1, SpecPut, SpecFields DEF Dulled

\* A copy of a Revision that is accepted is what is stored.
LEMMA CopyAccepted ==
    ASSUME Typed, LifeInv, NEW r \in RevIds
    PROVE  /\ rj.list[r].rv = rev[r].rv => rj.list[r] = rev[r]
           /\ cache.rev[r].rv = rev[r].rv => cache.rev[r] = rev[r]
           /\ rev[r].live => cache.rev[r].rv = 0 \/ cache.rev[r].live
           /\ ~rev[r].live => ~cache.rev[r].live \/ cache.rev[r].rv # rev[r].rv
           /\ rev[r] \in Revision /\ cache.rev[r] \in Revision /\ rj.list[r] \in Revision
           /\ rev \in [RevIds -> Revision] /\ rev[r].rv \in Nat /\ cache.rev[r].rv \in Nat
<1>1. /\ rev[r] \in Revision /\ cache.rev[r] \in Revision /\ rj.list[r] \in Revision
      /\ rev \in [RevIds -> Revision]
  BY RevsTyped DEF Typed, TypeOK, ClusterTypeOK
<1>2. RevCopy(rj.list[r], rev[r]) /\ RevCopy(cache.rev[r], rev[r])
  BY DEF LifeInv, RevCopies
<1>3. rev[r].rv \in Nat /\ cache.rev[r].rv \in Nat
  BY <1>1 DEF Revision
<1> QED  BY <1>1, <1>2, <1>3 DEF RevCopy

\* The Revision worker at n retires and observes the others, and goes on with n.
LEMMA BeginsDully ==
    ASSUME Calm, NEW n, Attending(n), DullBut(n), NEW r \in RevIds, RevBegin(r)
    PROVE  Attending(n)' /\ UNCHANGED <<rev, cache>>
<1> DEFINE pc == IF cache.rev[r].origin THEN "clear" ELSE AfterOrigin(cache.rev[r])
<1>1. /\ RevIdle \in RevWorker /\ RevIdle.pc = "idle" /\ RevIdle.todo = {}
      /\ UNCHANGED <<rev, cache>>
  BY NothingTyped DEF RevIdle, RevBegin
<1>2. \/ rj' = RevIdle \/ rj' = [RevIdle EXCEPT !.pc = "forget", !.key = r]
      \/ /\ rj' = [RevIdle EXCEPT !.key = r, !.own = cache.rev[r], !.pc = pc]
         /\ cache.rev[r].live /\ cache.rev[r].gen # cache.rev[r].obs
  BY DEF RevBegin, Gone, Unobserved
<1>3. cache.rev[r].live /\ cache.rev[r].gen # cache.rev[r].obs => r = n \/ pc = "observe"
  BY DEF DullBut, Dull, AfterOrigin
<1>4. pc # "spec"
  BY DEF AfterOrigin
<1> HIDE DEF pc
<1>5. rj'.pc \in {"idle", "forget", pc} /\ rj'.todo = {} /\ (rj'.pc = pc => rj'.key = r \/ pc = "idle")
  BY <1>1, <1>2 DEF RevWorker
<1>6. CASE rj' = [RevIdle EXCEPT !.key = r, !.own = cache.rev[r], !.pc = pc]
  BY <1>1, <1>2, <1>3, <1>4, <1>5, <1>6 DEF Attending, RevWorker, RevIdle
<1>7. CASE rj' = RevIdle \/ rj' = [RevIdle EXCEPT !.pc = "forget", !.key = r]
  BY <1>1, <1>5, <1>7 DEF Attending, RevWorker
<1> QED  BY <1>1, <1>2, <1>6, <1>7

LEMMA RevDulls ==
    ASSUME Calm, RevStep, NEW n, Attending(n), DullBut(n)
    PROVE  /\ \A r \in RevIds \ {n} : Dulled(rev[r], rev'[r])
           /\ cache' = cache /\ Attending(n)'
<1>1. /\ rj \in RevWorker /\ rev \in [RevIds -> Revision] /\ ~Fault
      /\ rj.pc # "idle" => rj.key \in RevIds
  BY DEF Calm, Typed, TypeOK, ClusterTypeOK, KeyKnown
<1>2. RevIdle.pc = "idle" /\ RevIdle.todo = {}
  BY DEF RevIdle
<1>3. \A j, retry : Observing(j, retry).pc = "observe" /\ Observing(j, retry).todo = {}
  BY NothingTyped, <1>2 DEF Observing, RevWorker
<1>4. CASE \E r \in RevIds : RevBegin(r)
  BY <1>4, BeginsDully DEF Dulled
<1>5. CASE \E r \in RevIds : OtherPhase(r)
  <2>1. PICK r \in RevIds : OtherPhase(r)
    BY <1>5
  <2> DEFINE held == Retired(rj.list[r])
  <2>2. /\ \/ Accepts(held, rev[r]) /\ rev' = [rev EXCEPT ![r] = PutStatus(rev[r], held)]
           \/ rev' = rev
        /\ rj.pc = "phase" /\ r \in rj.todo /\ cache' = cache
        /\ rj'.pc = "spec" /\ rj'.at = r /\ rj'.todo = rj.todo /\ rj'.key = rj.key
    BY <1>1, <2>1 DEF OtherPhase, RevHeard, RevWorker
  <2>3. rj.list[r] \in Revision /\ rev[r] \in Revision
    BY CopyAccepted DEF Calm
  <2>4. held \in Revision /\ held.rv = rj.list[r].rv /\ held.obs = rj.list[r].obs
    BY ZenonT(60), <2>3 DEF Retired, Revision, Status
  <2> HIDE DEF held
  <2>5. \A s \in RevIds : Dulled(rev[s], rev'[s])
    BY <1>1, <2>2, <2>3, <2>4, CopyAccepted, StatusDulls DEF Accepts, Dulled, Calm
  <2> QED  BY <2>2, <2>5 DEF Attending
<1>6. CASE \E r \in RevIds : OtherSpec(r)
  <2>1. PICK r \in RevIds : OtherSpec(r)
    BY <1>6
  <2> DEFINE held == [rj.list[r] EXCEPT !.status = "Non-active"]
  <2>2. /\ \/ Accepts(held, rev[r]) /\ rev' = [rev EXCEPT ![r] = PutSpec(rev[r], held)]
           \/ rev' = rev
        /\ rj.pc = "spec" /\ cache' = cache
        /\ rj'.pc \in {"activate", "phase"} /\ rj'.todo \subseteq rj.todo /\ rj'.key = rj.key
    BY <1>1, <2>1 DEF OtherSpec, RevWorker
  <2>3. rj.list[r] \in Revision /\ rev[r] \in Revision
    BY CopyAccepted DEF Calm
  <2>4. held \in Revision /\ held.rv = rj.list[r].rv
    BY ZenonT(60), <2>3 DEF Revision, Status
  <2>5. held.rv = rev[r].rv => held = [rev[r] EXCEPT !.status = "Non-active"]
    BY <2>4, CopyAccepted DEF Calm
  <2> HIDE DEF held
  <2>6. \A s \in RevIds : Dulled(rev[s], rev'[s])
    BY <1>1, <2>2, <2>3, <2>4, <2>5, SpecDulls DEF Accepts, Dulled
  <2> QED  BY <2>2, <2>6 DEF Attending
<1>7. CASE ClearOrigin
  <2>1. /\ cache' = cache /\ rj.key = n
        /\ rev' = rev \/ \E x : rev' = [rev EXCEPT ![n] = x]
    BY <1>7 DEF ClearOrigin, Attending
  <2>2. rj'.key = rj.key /\ rj'.pc \in {"read", "observe"}
    BY <1>7, ClearedOwn DEF Calm
  <2>3. rj'.todo \subseteq rj.todo
    BY <1>1, <1>3, <1>7 DEF ClearOrigin, RevHeard, RevWorker
  <2> QED  BY <1>1, <2>1, <2>2, <2>3 DEF Attending, Dulled
<1>8. CASE ReadAppDeployment
  <2>1. rj.key = n /\ UNCHANGED <<rev, cache>>
    BY <1>8 DEF ReadAppDeployment, clusterVars, Attending
  <2>2. rj'.key = n /\ n \notin rj'.todo /\ rj'.pc # "spec"
    BY <1>1, <1>3, <1>8, <2>1, ObservingIs DEF ReadAppDeployment, RevWorker
  <2> QED  BY <2>1, <2>2 DEF Attending, Dulled
<1>9. CASE ActivatePhase \/ SwitchDeployment \/ SyncRevision
  <2>1. /\ cache' = cache /\ rj.key = n
        /\ rev' = rev \/ \E x : rev' = [rev EXCEPT ![n] = x]
    BY <1>9 DEF ActivatePhase, SwitchDeployment, SyncRevision, Attending
  <2>2. rj'.key = n /\ rj'.todo = rj.todo /\ rj'.pc \in {"switch", "sync", "mark"}
    BY <1>1, <1>9, <2>1 DEF ActivatePhase, SwitchDeployment, SyncRevision, RevHeard, RevWorker
  <2> QED  BY <1>1, <2>1, <2>2 DEF Attending, Dulled
<1>10. CASE MarkAppDeployment
  <2>1. UNCHANGED <<rev, cache>> /\ \E retry : rj' = Observing(rj, retry)
    BY <1>10 DEF MarkAppDeployment
  <2> QED  BY <1>3, <2>1 DEF Attending, Dulled
<1>11. CASE ForgetRevision
  BY <1>2, <1>11 DEF ForgetRevision, Attending, Dulled
<1>12. CASE ObserveGeneration
  <2> DEFINE k == rj.key
             held == ObservedOwn
  <2>1. /\ \/ Accepts(held, rev[k]) /\ rev' = [rev EXCEPT ![k] = PutStatus(rev[k], held)]
           \/ rev' = rev
        /\ rj.pc = "observe" /\ cache' = cache /\ rj' = RevIdle
    BY <1>12 DEF ObserveGeneration
  <2>2. /\ k \in RevIds /\ rev[k] \in Revision /\ rj.own \in Revision
        /\ rj.own.rv = rev[k].rv /\ rev[k].live => rj.own = rev[k]
    BY <1>1, <2>1, RevsTyped DEF Calm, Held, OwnFollows, Working, RevWorker
  <2>3. held \in Revision /\ held.rv = rj.own.rv /\ held.obs = rj.own.gen
    BY <2>2 DEF ObservedOwn, Revision
  <2> HIDE DEF held
  <2>4. \A s \in RevIds : Dulled(rev[s], rev'[s])
    BY <1>1, <2>1, <2>2, <2>3, StatusDulls DEF Accepts, Dulled
  <2> QED  BY <1>2, <2>1, <2>4 DEF Attending
<1> QED  BY <1>4, <1>5, <1>6, <1>7, <1>8, <1>9, <1>10, <1>11, <1>12 DEF RevStep

-----------------------------------------------------------------------------
(* The first chapter.                                                      *)

\* What the chapter says of the Revisions stays true while nobody touches them.
LEMMA RevisionsRest ==
    ASSUME Before, UNCHANGED <<rev, lyra.minted, rj>>, cache'.rev = cache.rev, queue'.rev = queue.rev
    PROVE  Still' /\ InService' = InService /\ AllUsed(lyra.minted)' /\ ShortHistory'
BY DEF Before, Still, LiveIn, InService, AllUsed, ShortHistory

LEMMA EditInPeace ==
    ASSUME Typed, Before, Quiescent, NEW i \in Images, EditImage(i), UNCHANGED <<aj, rj>>
    PROVE  Before'
<1>1. ad \in AppDeployment /\ ad.rv \in Nat /\ cache.ad.rv \in Nat
  BY AdsTyped DEF AppDeployment
<1>2. /\ ad' = Stored(ad, [ad EXCEPT !.image = i]) /\ i # ad.image
      /\ UNCHANGED <<dep, rev, lyra, cache, queue>>
  BY DEF EditImage
<1>3. Level /\ aj.pc = "idle" /\ ~queue.ad /\ cache.ad = ad
  BY DEF Quiescent, Before, Level, Edited, Applied, Asking
<1>4. ad'.rv = ad.rv + 1 /\ ad'.cur = ad.cur /\ ad'.marker = ad.marker
  BY <1>1, <1>2 DEF Stored, AppDeployment
<1>5. Edited'
  BY <1>1, <1>2, <1>3, <1>4 DEF Edited, Level
<1> QED  BY <1>2, <1>4, <1>5, RevisionsRest DEF Before

LEMMA HearOfEdit ==
    ASSUME Calm, Before, Deliver, UNCHANGED <<aj, rj>>
    PROVE  Before'
<1>1. cache \in Cache /\ queue \in Queue
  BY DEF Calm, Typed, TypeOK, ClusterTypeOK
<1>2. ~\E r \in RevIds : DeliverRevision(r)
  BY DEF Before, Still, DeliverRevision
<1>3. CASE DeliverAppDeployment
  <2>1. /\ cache.ad # ad /\ cache'.ad = ad /\ queue'.ad
        /\ cache'.rev = cache.rev /\ cache'.dep = cache.dep /\ queue'.rev = queue.rev
        /\ UNCHANGED <<ad, dep, rev, lyra, budget>>
    BY <1>1, <1>3 DEF DeliverAppDeployment, WatchedAd, Cache, Queue
  <2>2. Edited /\ aj.pc = "idle"
    BY <2>1 DEF Before, Level, Edited, Applied, Asking
  <2>3. Edited'
    BY <2>1, <2>2 DEF Edited
  <2> QED  BY <2>1, <2>3, RevisionsRest DEF Before
<1>4. CASE DeliverDeployment
  <2>1. /\ cache.dep # dep /\ cache'.ad = cache.ad /\ cache'.rev = cache.rev
        /\ UNCHANGED <<ad, dep, rev, lyra, budget, queue>>
    BY <1>1, <1>4 DEF DeliverDeployment, Cache
  <2>2. Applied
    BY <2>1 DEF Before, Level, Edited
  <2>3. Applied'
    BY <2>1, <2>2 DEF Applied, Asking
  <2> QED  BY <2>1, <2>3, RevisionsRest DEF Before
<1> QED  BY <1>2, <1>3, <1>4 DEF Deliver

\* The Deployment is brought to the edited image, or has it already.
LEMMA ApplyEdit ==
    ASSUME Calm, Before, HandleAppDeploymentChanges, UNCHANGED rj
    PROVE  Before'
<1>1. /\ aj \in AdWorker /\ dep \in Deployment /\ ad \in AppDeployment
      /\ aj.ad \in AppDeployment /\ aj.ad.image \in OptImage
  BY AdsTyped DEF Calm, Typed, TypeOK, ClusterTypeOK, AppDeployment
<1>2. /\ Edited /\ aj.pc = "apply" /\ ~queue.ad /\ cache.ad = ad /\ aj.ad = ad
      /\ ~aj.revision /\ ~aj.app /\ cache.dep = dep /\ dep.live /\ ~Fault
  BY DEF HandleAppDeploymentChanges, Before, Level, Edited, Applied, Asking, Calm, Standing
<1>3. UNCHANGED <<ad, rev, lyra, cache, queue, budget>>
  BY <1>2 DEF HandleAppDeploymentChanges, AdHeard, Refused
<1>4. CASE dep.image = ad.image
  <2>1. aj' = Same /\ dep' = dep
    BY <1>2, <1>4 DEF HandleAppDeploymentChanges
  <2>2. /\ aj'.pc = "sync" /\ aj'.ad = aj.ad /\ aj'.app = aj.app /\ aj'.revision = aj.revision
    BY <1>1, <2>1 DEF Same, AdWorker
  <2>3. Level'
    BY <1>2, <1>3, <1>4, <2>1, <2>2 DEF Level, Asking, Before, Edited
  <2> QED  BY <1>3, <2>1, <2>3, RevisionsRest DEF Before
<1>5. CASE dep.image # ad.image
  <2>1. aj' = Changed /\ dep' = Stored(dep, [dep EXCEPT !.image = Spelling(aj.ad.image)])
    BY <1>2, <1>5 DEF HandleAppDeploymentChanges, AdHeard, Accepts, Refused
  <2>2. /\ aj'.pc = "sync" /\ aj'.revision /\ ~aj'.app
        /\ aj'.ad = [ad EXCEPT !.cur = NoRev]
    BY <1>1, <1>2, <2>1 DEF Changed, AdWorker
  <2>3. dep'.image = Spelling(ad.image)
    BY <1>1, <1>2, <2>1 DEF Stored, Deployment
  <2>4. Spelling(dep'.image) = dep'.image
    BY <1>1, <1>2, <2>3, SpellingTyped
  <2>5. Applied'
    BY <1>2, <1>3, <2>2, <2>3 DEF Applied, Asking, Edited
  <2> QED  BY <1>3, <2>4, <2>5, RevisionsRest DEF Before
<1> QED  BY <1>4, <1>5

\* The answer about an id that is confirmed, with nothing to create, is the end.
LEMMA Confirmed ==
    ASSUME Typed, LifeInv, SyncApp, ~Fault, ~aj.app, ~aj.revision,
           NEW n \in RevIds, aj.ad.cur = n, n <= lyra.minted
    PROVE  /\ IF aj.ad.marker
              THEN aj'.pc = "mark" /\ aj'.id = n /\ aj'.ad = aj.ad /\ ~aj'.revision /\ ~aj'.app
              ELSE aj' = AdIdle
           /\ UNCHANGED <<ad, dep, rev, objs, cache, queue, budget, lyra.minted>>
<1> DEFINE j == [aj EXCEPT !.id = Reply(aj.ad.cur)]
<1>1. /\ aj \in AdWorker /\ lyra \in LyraState /\ lyra.minted \in Nat /\ n # NoRev
      /\ AdIdle \in AdWorker /\ AdIdle.revision = FALSE /\ AdIdle.app = FALSE
  BY NothingTyped DEF Typed, TypeOK, ClusterTypeOK, LyraState, RevIds, NoRev, AdIdle
<1>2. Reply(aj.ad.cur) = n
  BY <1>1 DEF Reply
<1>3. j.app = FALSE /\ j.revision = FALSE /\ j.id = n /\ j.ad = aj.ad
  BY <1>1, <1>2 DEF AdWorker
<1>4. /\ aj' = (IF j.app THEN [j EXCEPT !.pc = "module"] ELSE AfterModule(j))
      /\ lyra' = Synced(aj.ad.cur)
      /\ UNCHANGED <<ad, dep, rev, objs, cache, queue, budget>>
  BY Answered
<1> HIDE DEF j
<1>5. aj' = IF ~aj.ad.marker THEN AdIdle
            ELSE [AdIdle EXCEPT !.ad = j.ad, !.id = j.id, !.pc = "mark"]
  BY <1>1, <1>3, <1>4 DEF AfterModule, AfterObjects
<1>6. lyra'.minted = lyra.minted
  <2>1. lyra' = [lyra EXCEPT !.app = TRUE, !.minted = IF n > @ THEN n ELSE @]
    BY <1>2, <1>4 DEF Synced
  <2> QED  BY <1>1, <2>1 DEF LyraState, RevIds
<1> QED  BY <1>1, <1>3, <1>4, <1>5, <1>6 DEF AdWorker

\* In the first chapter a Revision is current, and all are dull.
LEMMA CurrentServes ==
    ASSUME Calm, Before
    PROVE  /\ ad.cur \in RevIds /\ ad.cur <= lyra.minted
           /\ DullBut(NoRev) /\ lyra.minted \in Nat
           /\ \A r \in RevIds : r > lyra.minted => rev[r].rv = 0
<1>1. /\ lyra.minted \in Nat /\ ~NoRevision.live
      /\ \A r \in RevIds : rev[r].rv \in Nat /\ (rev[r].live => rev[r].rv > 0)
      /\ \A r \in RevIds : r \in Nat
  <2>1. \A r \in RevIds : rev[r].rv \in Nat
    BY CopyAccepted DEF Calm
  <2>2. lyra.minted \in Nat /\ ~NoRevision.live /\ \A r \in RevIds : r \in Nat
    BY RevsAssumption DEF Calm, Typed, TypeOK, ClusterTypeOK, LyraState, NoRevision, RevIds
  <2> QED  BY <2>1, <2>2 DEF Calm, LifeInv, Born
<1>2. ad.cur \in RevIds /\ rev[ad.cur].live
  BY DEF Before, InService, LiveIn
<1>3. DullBut(NoRev)
  BY DEF Before, Still, DullBut, Dull, LiveIn
<1> QED  BY <1>1, <1>2, <1>3 DEF Calm, LifeInv, Born

LEMMA AskLyra ==
    ASSUME Calm, Before, SyncApp, UNCHANGED rj
    PROVE  Before' \/ During'
<1>1. /\ Asking /\ (Level \/ Applied) /\ aj \in AdWorker /\ lyra \in LyraState
      /\ ad \in AppDeployment
  BY AdsTyped DEF SyncApp, Before, Level, Edited, Applied, Calm, Typed, TypeOK, ClusterTypeOK
<1>2. CASE Level
  <2>1. ~aj.revision /\ aj.ad = ad /\ ~aj.app /\ ~ad.marker
    BY <1>1, <1>2 DEF Level, Asking, Before
  <2>2. ad.cur \in RevIds /\ ad.cur <= lyra.minted /\ aj.ad.cur = ad.cur
    BY <2>1, CurrentServes
  <2>3. /\ aj' = AdIdle
        /\ UNCHANGED <<ad, dep, rev, objs, cache, queue, budget, lyra.minted>>
    BY <2>1, <2>2, Confirmed DEF Calm
  <2>4. Level'
    BY <1>1, <1>2, <2>1, <2>3 DEF Level, Asking, AdIdle
  <2> QED  BY <2>3, <2>4, RevisionsRest DEF Before
<1>3. CASE Applied
  <2> DEFINE j == [aj EXCEPT !.id = Reply(aj.ad.cur)]
  <2>1. aj.ad = [ad EXCEPT !.cur = NoRev] /\ aj.revision /\ ~aj.app /\ aj.ad.cur = NoRev
    BY <1>1, <1>3 DEF Applied, Asking, AppDeployment
  <2>2. /\ aj' = (IF j.app THEN [j EXCEPT !.pc = "module"] ELSE AfterModule(j))
        /\ lyra' = Synced(NoRev) /\ Reply(NoRev) = lyra.minted + 1 /\ lyra.minted + 1 \in RevIds
        /\ UNCHANGED <<ad, dep, rev, objs, cache, queue, budget>>
    BY <2>1, Answered DEF Calm, Reply
  <2>3. /\ j.app = aj.app /\ j.revision = aj.revision /\ j.id = lyra.minted + 1
        /\ j.ad = aj.ad /\ j \in AdWorker
    <3>1. lyra.minted + 1 \in 0 .. MaxRevs
      BY <2>2, RevsAssumption DEF RevIds
    <3> QED  BY <1>1, <2>1, <2>2, <3>1 DEF AdWorker
  <2> HIDE DEF j
  <2>4. aj'.pc = "service" /\ aj'.id = lyra.minted + 1 /\ aj'.ad = aj.ad
    BY <2>1, <2>2, <2>3 DEF AfterModule, AdWorker
  <2>5. lyra'.minted = lyra.minted + 1
    BY <1>1, <2>2, CurrentServes DEF Synced, LyraState
  <2>6. /\ rev[lyra.minted + 1].rv = 0 /\ ad.cur # lyra.minted + 1
        /\ \A r \in 1 .. lyra.minted : rev[r].rv > 0
        /\ lyra'.minted - 1 = lyra.minted /\ DullBut(NoRev)
    BY <2>2, <2>5, CurrentServes DEF Before, AllUsed, RevIds
  <2>7. DullBut(NoRev)' /\ Still' /\ ShortHistory'
    BY <2>2, <2>6 DEF DullBut, Before, Still, LiveIn, ShortHistory
  <2>8. /\ cache.ad = ad /\ ~queue.ad /\ dep.image = Spelling(ad.image)
        /\ ~ad.marker /\ rj.pc = "idle"
    BY <1>1, <1>3 DEF Applied, Asking, Before, Still
  <2> QED  BY <2>1, <2>2, <2>4, <2>5, <2>6, <2>7, <2>8 DEF During, NewId
<1> QED  BY <1>1, <1>2, <1>3

LEMMA FirstChapter ==
    ASSUME Calm, Before, ~\E i \in Images : EditImage(i)
    PROVE  Before' \/ During'
<1>1. /\ aj.pc \in {"idle", "apply", "sync"} /\ ~RevStep /\ CalmNext
  BY DEF Before, Still, Level, Edited, Applied, Asking, Calm, RevStep, RevBegin, ForgetRevision,
     ClearOrigin, ReadAppDeployment, OtherPhase, OtherSpec, ActivatePhase, SwitchDeployment,
     SyncRevision, MarkAppDeployment, ObserveGeneration
<1>2. CASE AdBegin /\ UNCHANGED rj
  <2>1. /\ Edited /\ aj.pc = "idle" /\ queue.ad /\ cache.ad = ad
    BY <1>2 DEF AdBegin, Before, Level, Edited, Applied, Asking
  <2>2. /\ aj' = [AdIdle EXCEPT !.pc = "apply", !.ad = cache.ad]
        /\ queue' = [queue EXCEPT !.ad = FALSE]
        /\ UNCHANGED <<ad, dep, rev, lyra, cache, budget>>
    BY <1>2 DEF AdBegin, Calm, Standing
  <2>3. aj'.pc = "apply" /\ aj'.ad = cache.ad /\ ~aj'.revision /\ ~aj'.app
    BY <2>2, NothingTyped DEF AdIdle
  <2>4. ~queue'.ad /\ queue'.rev = queue.rev
    BY <2>2 DEF Calm, Typed, TypeOK, ClusterTypeOK, Queue
  <2>5. Edited'
    BY <2>1, <2>2, <2>3, <2>4 DEF Edited
  <2> QED  BY <1>2, <2>2, <2>4, <2>5, RevisionsRest DEF Before
<1>3. CASE ProvideSecret /\ UNCHANGED <<aj, rj>>
  <2>1. UNCHANGED <<ad, dep, rev, lyra, cache, queue, aj>>
    BY <1>3 DEF ProvideSecret
  <2>2. Level' = Level /\ Edited' = Edited /\ Applied' = Applied
    BY <2>1 DEF Level, Edited, Applied, Asking
  <2> QED  BY <1>3, <2>1, <2>2, RevisionsRest DEF Before
<1>4. CASE UNCHANGED vars
  <2>1. Level' = Level /\ Edited' = Edited /\ Applied' = Applied
    BY <1>4 DEF vars, Level, Edited, Applied, Asking
  <2> QED  BY <1>4, <2>1, RevisionsRest DEF Before, vars
<1>5. AdStep => AdBegin \/ HandleAppDeploymentChanges \/ SyncApp
  BY <1>1 DEF AdStep, CreateModule, CreateSubdomain, HandleServiceChanges, ConsumeMarker,
     ListRevisions, RetirePhase, RetireSpec, CreateRevision, Prune, DeleteApp, DeleteService
<1> QED  BY <1>1, <1>2, <1>3, <1>4, <1>5, HearOfEdit, ApplyEdit, AskLyra DEF CalmNext


-----------------------------------------------------------------------------
(* The second chapter.                                                     *)

LEMMA SetsOfRevisions ==
    ASSUME NEW S \in SUBSET RevIds
    PROVE  IsFiniteSet(S) /\ Cardinality(S) \in Nat
<1>1. IsFiniteSet(RevIds)
  BY FS_Interval, RevsAssumption DEF RevIds
<1> QED  BY <1>1, FS_Subset, FS_CardinalityType

\* The new id stays new, as long as the worker has not created its Revision.
LEMMA NewIdKept ==
    ASSUME Calm, NewId, aj'.pc \in {"service", "list", "phase", "spec", "create"},
           aj.pc # "create" \/ aj' = aj,
           UNCHANGED <<ad, dep.image, lyra.minted, cache.ad, queue.ad, aj.ad, aj.id>>
    PROVE  NewId'
<1>1. \A r \in RevIds : /\ Evolves(r) /\ rev[r].rv \in Nat /\ rev'[r].rv \in Nat
                        /\ rev'[r] = rev[r] \/ rev'[r].rv > rev[r].rv
  BY WritesAreNewer DEF Calm
<1>2. rev'[aj.id].rv = 0
  BY <1>1 DEF NewId, Evolves, Creates
<1>3. \A r \in 1 .. lyra.minted - 1 : r \in RevIds
  BY RevsAssumption DEF NewId, RevIds
<1>4. \A r \in 1 .. lyra.minted - 1 : rev'[r].rv > 0
  <2> SUFFICES ASSUME NEW r \in 1 .. lyra.minted - 1 PROVE rev'[r].rv > 0
    OBVIOUS
  <2>1. r \in RevIds /\ rev[r].rv > 0
    BY <1>3 DEF NewId
  <2> QED  BY <1>1, <2>1
<1> QED  BY <1>2, <1>4 DEF NewId

\* The three steps of the Revision worker in this chapter.
LEMMA ObservesOnly ==
    ASSUME rj.pc \in {"idle", "forget", "observe"}, RevStep
    PROVE  \/ rj.pc = "idle" /\ \E r \in RevIds : RevBegin(r)
           \/ ForgetRevision \/ ObserveGeneration
BY DEF RevStep, RevBegin, ClearOrigin, ReadAppDeployment, OtherPhase, OtherSpec, ActivatePhase,
       SwitchDeployment, SyncRevision, MarkAppDeployment

\* Of a Revision yet to be retired the Revision worker has nothing to observe.
LEMMA LeavesUntouched ==
    ASSUME Calm, During, Retires, RevStep, UNCHANGED aj, NEW r \in aj.todo
    PROVE  Untouched(r)'
<1>1. /\ r \in RevIds /\ rev[r].live /\ rev \in [RevIds -> Revision]
      /\ aj.list[r] = rev[r] /\ rev[r].gen = rev[r].obs
      /\ cache.rev[r].gen = cache.rev[r].obs /\ (rj.pc # "idle" => rj.key # r)
      /\ rj.pc \in {"idle", "forget", "observe"} /\ RevIdle.pc = "idle"
  BY DEF During, Retires, LiveIn, Untouched, Calm, Typed, TypeOK, ClusterTypeOK, RevIdle
<1>2. CASE rj.pc = "idle" /\ \E s \in RevIds : RevBegin(s)
  <2>1. PICK s \in RevIds : RevBegin(s)
    BY <1>2
  <2>2. UNCHANGED <<rev, cache>> /\ s \in queue.rev
    BY <2>1 DEF RevBegin
  <2>3. s = r => cache.rev[r].live
    BY <1>1, <2>2, CopyAccepted DEF Calm, LifeInv, Seen
  <2>4. CASE s = r
    <3>1. rj' = RevIdle
      BY <1>1, <2>1, <2>3, <2>4 DEF RevBegin, Gone, Unobserved
    <3> QED  BY <1>1, <2>2, <3>1 DEF Untouched
  <2>5. CASE s # r
    <3>1. rj'.pc # "idle" => rj'.key = s
      BY <2>1, BegunOwn DEF Calm, Working
    <3> QED  BY <1>1, <2>2, <2>5, <3>1 DEF Untouched
  <2> QED  BY <2>4, <2>5
<1>3. CASE ForgetRevision
  BY <1>1, <1>3 DEF ForgetRevision, Untouched
<1>4. CASE ObserveGeneration
  <2>1. rj' = RevIdle /\ cache' = cache /\ rj.key # r
        /\ (rev' = rev \/ \E x : rev' = [rev EXCEPT ![rj.key] = x])
    BY <1>1, <1>4 DEF ObserveGeneration
  <2> QED  BY <1>1, <2>1 DEF Untouched
<1> QED  BY <1>1, <1>2, <1>3, <1>4, ObservesOnly

LEMMA RevisionsObserved ==
    ASSUME Calm, During, RevStep, UNCHANGED aj
    PROVE  During'
<1>1. Retires /\ NewId /\ ShortHistory /\ DullBut(NoRev) /\ aj.pc \in {"phase", "spec", "create"}
      /\ rj.pc \in {"idle", "forget", "observe"}
  BY ObservesOnly DEF During, Still, NewId, RevBegin, ForgetRevision, ObserveGeneration
<1>2. NoRev \notin RevIds
  BY DEF NoRev, RevIds
<1>3. Attending(NoRev)
  BY <1>1 DEF Attending
<1>4. /\ \A r \in RevIds : Dulled(rev[r], rev'[r])
      /\ cache' = cache /\ Attending(NoRev)'
  BY <1>1, <1>2, <1>3, RevDulls
<1>5. rj'.pc \in {"idle", "forget", "observe"}
  BY <1>2, <1>4 DEF Attending, Calm, Typed, KeyKnown
<1>6. DullBut(NoRev)'
  BY <1>1, <1>4 DEF DullBut, Dull, Dulled
<1>7. LiveIn(rev') = LiveIn(rev) /\ InService' \subseteq InService
  BY <1>4 DEF LiveIn, InService, Dulled
<1>8. UNCHANGED <<ad, dep, lyra.minted, queue.ad, budget>>
  <2>1. UNCHANGED <<ad, dep>> /\ queue \in Queue /\ lyra \in LyraState
    BY <1>1, ObservesOnly DEF RevBegin, ForgetRevision, ObserveGeneration, Calm, Typed, TypeOK,
       ClusterTypeOK
  <2>2. UNCHANGED <<lyra.minted, queue.ad>>
    BY <1>1, <2>1, ObservesOnly DEF RevBegin, ForgetRevision, ObserveGeneration, Asked, Queue,
       LyraState
  <2>3. UNCHANGED budget
    BY WorkersSpend DEF Calm
  <2> QED  BY <2>1, <2>2, <2>3
<1>9. NewId'
  BY <1>1, <1>4, <1>8, NewIdKept
<1>10. Retires'
  BY <1>1, <1>7, LeavesUntouched DEF Retires
<1> QED  BY <1>1, <1>5, <1>6, <1>7, <1>9, <1>10 DEF During, ShortHistory

\* The worker turns to the Revisions, and lists them while nothing is pending.
LEMMA TurnsToRevisions ==
    ASSUME Calm, During, HandleServiceChanges \/ ListRevisions, UNCHANGED rj
    PROVE  During'
<1>1. /\ Still /\ NewId /\ ShortHistory /\ DullBut(NoRev) /\ aj \in AdWorker
      /\ aj.id \in RevIds /\ aj.id # NoRev
  BY RevsAssumption
     DEF During, NewId, HandleServiceChanges, ListRevisions, Calm, Typed, TypeOK, RevIds, NoRev
<1>2. UNCHANGED <<ad, dep, rev, lyra, cache, queue, budget>>
  BY DEF HandleServiceChanges, ListRevisions, clusterVars, Calm
<1>3. /\ ShortHistory' /\ DullBut(NoRev)' /\ Still' /\ rj'.pc = "idle" /\ rj' = rj
  BY <1>1, <1>2 DEF ShortHistory, DullBut, Still, LiveIn
<1>4. CASE HandleServiceChanges
  <2>1. aj.ad.cur = NoRev /\ aj.ad.marker = ad.marker /\ ~ad.marker
    BY <1>1, AdsTyped DEF NewId, AppDeployment, Calm
  <2>2. aj' = [AdIdle EXCEPT !.ad = aj.ad, !.id = aj.id, !.pc = "list"]
    BY <1>1, <1>4, <2>1 DEF HandleServiceChanges, AfterObjects
  <2>3. aj'.pc = "list" /\ aj'.ad = aj.ad /\ aj'.id = aj.id
    BY <2>2 DEF AdIdle
  <2>4. NewId'
    BY <1>1, <1>2, <1>4, <2>3, NewIdKept DEF HandleServiceChanges
  <2> QED  BY <1>3, <2>3, <2>4 DEF During
<1>5. CASE ListRevisions
  <2>1. cache.rev = rev
    BY <1>1 DEF Still
  <2>2. /\ aj'.listed = LiveIn(rev) /\ aj'.list = rev /\ aj'.todo = LiveIn(rev)
        /\ aj'.pc = IF LiveIn(rev) = {} THEN "create" ELSE "phase"
        /\ aj'.ad = aj.ad /\ aj'.id = aj.id
    BY <1>1, <1>5, <2>1 DEF ListRevisions, AdWorker
  <2>3. NewId'
    BY <1>1, <1>2, <1>5, <2>2, NewIdKept DEF ListRevisions
  <2>4. \A r \in aj'.todo : Untouched(r)'
    BY <1>1, <1>2, <1>3, <2>1, <2>2 DEF Untouched, Still
  <2>5. Retires'
    BY <1>2, <2>2, <2>4 DEF Retires, InService
  <2> QED  BY <1>3, <2>2, <2>3, <2>5 DEF During
<1> QED  BY <1>4, <1>5

\* Retiring one Revision leaves the others as they are.
LEMMA RetiresOne ==
    ASSUME Calm, During, NEW r \in RevIds, RetirePhase(r) \/ RetireSpec(r), UNCHANGED rj
    PROVE  During'
<1>1. /\ Retires /\ NewId /\ ShortHistory /\ DullBut(NoRev) /\ aj \in AdWorker
      /\ rev \in [RevIds -> Revision] /\ rev[r] \in Revision /\ ~Fault
      /\ rj.pc \in {"idle", "forget", "observe"}
  BY RevsTyped DEF During, RetirePhase, RetireSpec, Calm, Typed, TypeOK, ClusterTypeOK
<1>2. /\ r \in aj.todo /\ rev[r].live /\ aj.list[r] = rev[r] /\ rev[r].gen = rev[r].obs
      /\ aj.list \in [RevIds -> Revision]
  BY <1>1 DEF Retires, RetirePhase, RetireSpec, Untouched, LiveIn, AdWorker
<1>3. UNCHANGED <<ad, dep, lyra, cache, queue>>
  BY DEF RetirePhase, RetireSpec
<1>4. UNCHANGED budget
  <2>1. AdStep
    BY DEF AdStep
  <2> QED  BY <1>1, <2>1, WorkersSpend
<1>5. ASSUME NEW x, rev' = [rev EXCEPT ![r] = x], Dulled(rev[r], x),
             aj'.pc \in {"phase", "spec", "create"},
             aj'.ad = aj.ad, aj'.id = aj.id, aj'.listed = aj.listed,
             aj'.todo \in {aj.todo, aj.todo \ {r}}, \A s \in aj'.todo \ {r} : aj'.list[s] = aj.list[s],
             r \in aj'.todo => aj'.list[r] = x /\ x.gen = x.obs,
             r \notin aj'.todo => x.status # "Active",
             aj'.pc = "spec" => aj'.at \in aj'.todo,
             aj'.pc = "create" => aj'.todo = {}
      PROVE  During'
  <2>1. \A s \in RevIds : Dulled(rev[s], rev'[s]) /\ (s # r => rev'[s] = rev[s])
    BY <1>1, <1>5 DEF Dulled
  <2>2. rev'[r] = x
    BY <1>1, <1>5
  <2>3. LiveIn(rev') = LiveIn(rev) /\ InService' \subseteq InService /\ ShortHistory'
    BY <1>1, <2>1 DEF LiveIn, InService, Dulled, ShortHistory
  <2>4. DullBut(NoRev)'
    BY <1>1, <1>3, <2>1 DEF DullBut, Dull, Dulled
  <2>5. NewId'
    <3>1. aj.pc # "create"
      BY DEF RetirePhase, RetireSpec
    <3> QED  BY <1>1, <1>3, <1>4, <1>5, <3>1, NewIdKept
  <2>6. InService' \subseteq aj'.todo
    <3>1. r \notin aj'.todo => r \notin InService'
      BY <1>5, <2>2 DEF InService
    <3> QED  BY <1>1, <1>5, <2>3, <3>1 DEF Retires
  <2>7. \A s \in aj'.todo : Untouched(s)'
    BY <1>1, <1>3, <1>5, <2>1, <2>2 DEF Retires, Untouched
  <2>8. Retires'
    BY <1>1, <1>5, <2>3, <2>6, <2>7 DEF Retires
  <2> QED  BY <1>1, <1>5, <2>3, <2>4, <2>5, <2>8 DEF During
<1>6. CASE RetirePhase(r)
  <2> DEFINE held == [aj.list[r] EXCEPT !.phase = "Non-active"]
             new  == PutStatus(rev[r], held)
  <2>1. held \in Revision /\ held.rv = rev[r].rv /\ held.obs = rev[r].obs
    BY ZenonT(60), <1>1, <1>2 DEF Revision, Status
  <2>2. Dulled(rev[r], new) /\ new.gen = new.obs
    <3>1. new.gen = rev[r].gen /\ new.obs = held.obs
      BY <1>1, <2>1 DEF PutStatus, Stored, Revision
    <3> QED  BY <1>1, <1>2, <2>1, <3>1, StatusDulls
  <2>3. rev' = [rev EXCEPT ![r] = new]
        /\ aj' = [aj EXCEPT !.pc = "spec", !.at = r, !.list[r] = new]
    BY <1>1, <1>2, <1>6, <2>1 DEF RetirePhase, AdHeard, Accepts, Refused
  <2> HIDE DEF new
  <2>4. /\ aj'.pc = "spec" /\ aj'.ad = aj.ad /\ aj'.id = aj.id /\ aj'.listed = aj.listed
        /\ aj'.todo = aj.todo /\ aj'.at = r /\ aj'.list = [aj.list EXCEPT ![r] = new]
    BY <1>1, <2>3 DEF AdWorker
  <2>5. aj'.list[r] = new /\ \A s \in aj.todo \ {r} : aj'.list[s] = aj.list[s]
    BY <1>1, <1>2, <2>4 DEF AdWorker
  <2>6. /\ aj'.todo \in {aj.todo, aj.todo \ {r}} /\ r \in aj'.todo
        /\ aj'.at \in aj'.todo /\ aj'.pc \in {"phase", "spec", "create"}
    BY <1>2, <2>4
  <2>7. \A s \in aj'.todo \ {r} : aj'.list[s] = aj.list[s]
    BY <2>4, <2>5
  <2> QED  BY <1>5, <2>2, <2>3, <2>4, <2>5, <2>6, <2>7
<1>7. CASE RetireSpec(r)
  <2> DEFINE held == [aj.list[r] EXCEPT !.status = "Non-active"]
             new  == PutSpec(rev[r], held)
  <2>1. held \in Revision /\ held.rv = rev[r].rv
    BY ZenonT(60), <1>1, <1>2 DEF Revision, Status
  <2>2. Dulled(rev[r], new) /\ new.status = "Non-active"
    BY <1>1, <1>2, <2>1, SpecDulls
  <2>3. rev' = [rev EXCEPT ![r] = new]
        /\ aj' = [aj EXCEPT !.pc = IF aj.todo \ {r} = {} THEN "create" ELSE "phase",
                            !.todo = aj.todo \ {r}, !.at = 0, !.list[r] = NoRevision]
    BY <1>1, <1>2, <1>7, <2>1 DEF RetireSpec, Accepts, Refused
  <2> HIDE DEF new
  <2>4. /\ aj'.pc = IF aj.todo \ {r} = {} THEN "create" ELSE "phase"
        /\ aj'.ad = aj.ad /\ aj'.id = aj.id /\ aj'.listed = aj.listed
        /\ aj'.todo = aj.todo \ {r} /\ aj'.list = [aj.list EXCEPT ![r] = NoRevision]
    BY <1>1, <2>3 DEF AdWorker
  <2>5. \A s \in aj.todo \ {r} : aj'.list[s] = aj.list[s]
    BY <1>1, <1>2, <2>4 DEF AdWorker
  <2>6. /\ aj'.todo \in {aj.todo, aj.todo \ {r}} /\ r \notin aj'.todo
        /\ aj'.pc \in {"phase", "create"} /\ (aj'.pc = "create" => aj'.todo = {})
    BY <2>4
  <2>7. \A s \in aj'.todo \ {r} : aj'.list[s] = aj.list[s]
    BY <2>4, <2>5
  <2> QED  BY <1>5, <2>2, <2>3, <2>4, <2>6, <2>7
<1> QED  BY <1>6, <1>7

LEMMA HearOfRetiring ==
    ASSUME Calm, During, Deliver, UNCHANGED <<aj, rj>>
    PROVE  During'
<1>1. /\ cache \in Cache /\ queue \in Queue /\ cache.ad = ad /\ NewId /\ DullBut(NoRev)
      /\ UNCHANGED <<ad, dep, rev, lyra, budget>> /\ NoRev \notin RevIds
  BY DEF During, NewId, Deliver, DeliverAppDeployment, DeliverDeployment, DeliverRevision,
     Calm, Typed, TypeOK, ClusterTypeOK, NoRev, RevIds
<1>2. cache'.ad = cache.ad /\ queue'.ad = queue.ad
  BY <1>1 DEF Deliver, DeliverAppDeployment, DeliverDeployment, DeliverRevision, Cache, Queue
<1>3. NewId'
  BY <1>1, <1>2, NewIdKept DEF NewId
<1>4. \A r \in RevIds : cache'.rev[r] = cache.rev[r] \/ cache'.rev[r] = rev[r]
  BY CopiesFrom DEF Calm
<1>5. DullBut(NoRev)'
  BY <1>1, <1>4 DEF DullBut, Dull
<1>6. Still => Still'
  <2> SUFFICES ASSUME Still PROVE Still'
    OBVIOUS
  <2>1. cache'.rev = cache.rev /\ queue'.rev = queue.rev
    BY <1>1 DEF Deliver, DeliverAppDeployment, DeliverDeployment, DeliverRevision, Cache, Queue,
       Still
  <2> QED  BY <1>1, <2>1 DEF Still, LiveIn
<1>7. Retires => Retires'
  <2> SUFFICES ASSUME Retires PROVE Retires'
    OBVIOUS
  <2>1. \A r \in aj.todo : r \in RevIds /\ Untouched(r)'
    BY <1>1, <1>4 DEF Retires, Untouched, LiveIn
  <2> QED  BY <1>1, <2>1 DEF Retires, InService
<1> QED  BY <1>1, <1>3, <1>5, <1>6, <1>7 DEF During, ShortHistory

\* The new Revision is created, and the chapter ends.
LEMMA CreatesNewest ==
    ASSUME Calm, During, CreateRevision, UNCHANGED rj, NEW n, n = aj.id
    PROVE  n \in RevIds /\ After(n)'
<1> DEFINE new == [rev[n] EXCEPT !.live = TRUE, !.image = Spelling(aj.ad.image),
                             !.status = "Active",
                             !.phase = "", !.gen = 1, !.obs = 0, !.origin = TRUE]
<1>1. /\ Retires /\ NewId /\ ShortHistory /\ DullBut(NoRev) /\ aj \in AdWorker
      /\ rev \in [RevIds -> Revision] /\ n \in RevIds /\ ~Fault /\ n \in Nat
      /\ rj.pc \in {"idle", "forget", "observe"} /\ NoRev \notin RevIds
      /\ \A r \in RevIds : cache.rev[r].rv \in Nat
  BY RevsTyped, RevsAssumption
     DEF During, CreateRevision, Calm, Typed, TypeOK, ClusterTypeOK, NewId, RevIds, NoRev, Revision
<1>2. rev[n] = NoRevision /\ ~rev[n].live /\ rev[n].rv = 0 /\ cache.rev[n].rv = 0
      /\ rev[n] \in Revision
  <2>1. rev[n].rv = 0 /\ rev[n] = NoRevision /\ cache.rev[n].rv <= rev[n].rv
    BY <1>1 DEF NewId, Calm, LifeInv, Born, RevCopies, RevCopy
  <2>2. ~NoRevision.live /\ cache.rev[n].rv \in Nat /\ rev[n] \in Revision
    BY <1>1 DEF NoRevision
  <2> QED  BY <2>1, <2>2
<1>3. /\ rev' = [rev EXCEPT ![n] = Stored(rev[n], new)]
      /\ aj' = IF TooMany THEN [aj EXCEPT !.pc = "prune"] ELSE AdIdle
      /\ UNCHANGED <<ad, dep, lyra, cache, queue, budget>>
  BY <1>1, <1>2 DEF CreateRevision, AdHeard
<1>4. /\ new.live /\ new.image = Spelling(ad.image) /\ new.status = "Active" /\ new.gen = 1
      /\ new.obs = 0
  <2>1. aj.ad.image = ad.image
    BY <1>1, AdsTyped DEF NewId, AppDeployment, Calm
  <2> QED  BY <1>2, <2>1 DEF Revision
<1>5. Stored(rev[n], new) = [new EXCEPT !.rv = 1]
  <2> HIDE DEF new
  <2>1. new # rev[n] /\ rev[n].rv + 1 = 1
    BY <1>2, <1>4
  <2> QED  BY <2>1 DEF Stored
<1>6. /\ rev'[n].live /\ rev'[n].image = Spelling(ad.image) /\ rev'[n].status = "Active"
      /\ rev'[n].gen = 1 /\ rev'[n].obs = 0 /\ rev'[n].rv = 1
      /\ \A r \in RevIds \ {n} : rev'[r] = rev[r]
  <2>1. rev'[n] = [new EXCEPT !.rv = 1] /\ \A r \in RevIds \ {n} : rev'[r] = rev[r]
    BY <1>1, <1>3, <1>5
  <2>2. {"live", "image", "status", "gen", "obs", "rv"} \subseteq DOMAIN new
    BY <1>2 DEF Revision
  <2> HIDE DEF new
  <2> QED  BY <1>4, <2>1, <2>2
<1> HIDE DEF new
<1>7. LiveIn(rev') = LiveIn(rev) \cup {n} /\ n \notin LiveIn(rev) /\ LiveIn(rev) \subseteq RevIds
  BY <1>1, <1>2, <1>6 DEF LiveIn
<1>8. InService' = {n}
  BY <1>1, <1>6, <1>7 DEF Retires, InService, LiveIn, CreateRevision
<1>9. AllUsed(n)'
  <2> SUFFICES ASSUME NEW r \in 1 .. n PROVE rev'[r].rv > 0
    BY <1>1, <1>3 DEF AllUsed, NewId
  <2>1. CASE r = n
    BY <1>6, <2>1
  <2>2. CASE r # n
    <3>1. r \in 1 .. lyra.minted - 1 /\ r \in RevIds \ {n}
      BY <1>1, <2>2, RevsAssumption DEF NewId, RevIds
    <3> QED  BY <1>1, <1>6, <3>1 DEF NewId
  <2> QED  BY <2>1, <2>2
<1>10. Serving(n)'
  <2>1. Newest(rev[n])' /\ ~(cache'.rev[n].rv > 0)
    BY <1>1, <1>2, <1>3, <1>6 DEF Newest, NewId
  <2>2. DullBut(n)'
    BY <1>1, <1>3, <1>6 DEF DullBut
  <2> QED  BY <1>8, <2>1, <2>2 DEF Serving
<1>11. ~(rj.pc # "idle" /\ rj.key = n)
  BY <1>1, <1>2 DEF Calm, LifeInv, Seen
<1>12. Attending(n)' /\ Taking(n)'
  BY <1>1, <1>2, <1>3, <1>6, <1>11 DEF Attending, Taking, Rolls, Working, Pending
<1>13. TooMany \in BOOLEAN /\ AdIdle.pc = "idle" /\ [aj EXCEPT !.pc = "prune"].pc = "prune"
       /\ [aj EXCEPT !.pc = "prune"].listed = aj.listed
  BY <1>1 DEF TooMany, AdIdle, AdWorker
<1>14. Following(n)'
  BY <1>1, <1>3, <1>13 DEF Following, NewId, Rolling
<1>15. Pruning(n)'
  <2>1. Cardinality(LiveIn(rev)) \in Nat /\ HistoryLimit \in Nat \ {0}
        /\ Cardinality(LiveIn(rev')) = Cardinality(LiveIn(rev)) + 1
        /\ aj.listed = LiveIn(rev) /\ Cardinality({}) = 0
    <3>1. IsFiniteSet(LiveIn(rev)) /\ Cardinality(LiveIn(rev)) \in Nat
      BY <1>7, SetsOfRevisions
    <3>2. Cardinality(LiveIn(rev) \cup {n}) = Cardinality(LiveIn(rev)) + 1
      BY <1>7, <3>1, FS_AddElement
    <3> QED  BY <1>1, <1>7, <3>1, <3>2, FS_EmptySet, RevsAssumption DEF Retires
  <2>2. CASE TooMany
    <3>1. aj'.pc = "prune" /\ aj'.listed = LiveIn(rev') \ {n}
      BY <1>3, <1>7, <1>13, <2>1, <2>2
    <3>2. aj.listed # {} /\ Cardinality(aj.listed) <= HistoryLimit
      BY <1>1, <2>1, <2>2 DEF TooMany, ShortHistory
    <3> QED  BY <1>3, <1>13, <2>2, <3>1, <3>2 DEF Pruning
  <2>3. CASE ~TooMany
    <3>1. aj'.pc = "idle" /\ ShortHistory'
      BY <1>3, <1>13, <2>1, <2>3 DEF TooMany, ShortHistory
    <3> QED  BY <3>1 DEF Pruning
  <2> QED  BY <2>2, <2>3
<1>16. dep'.image = Spelling(ad'.image)
  BY <1>1, <1>3 DEF NewId
<1> QED  BY <1>1, <1>9, <1>10, <1>12, <1>14, <1>15, <1>16 DEF After

LEMMA SecondChapter ==
    ASSUME Calm, During, ~\E i \in Images : EditImage(i)
    PROVE  During' \/ \E n \in RevIds : After(n)'
<1>1. /\ aj.pc \in {"service", "list", "phase", "spec", "create"} /\ CalmNext
  BY DEF During, NewId, Calm
<1>3. CASE (ProvideSecret /\ UNCHANGED <<aj, rj>>) \/ UNCHANGED vars
  <2>1. UNCHANGED <<ad, dep, rev, lyra, cache, queue, aj, rj>>
    BY <1>3 DEF ProvideSecret, vars
  <2> QED  BY <2>1 DEF During, NewId, ShortHistory, DullBut, Still, Retires, InService, Untouched,
              LiveIn
<1>4. AdStep => \/ HandleServiceChanges \/ ListRevisions \/ CreateRevision
                \/ \E r \in RevIds : RetirePhase(r) \/ RetireSpec(r)
  BY <1>1 DEF AdStep, AdBegin, HandleAppDeploymentChanges, SyncApp, CreateModule, CreateSubdomain,
     ConsumeMarker, Prune, DeleteApp, DeleteService
<1>5. CASE AdStep /\ UNCHANGED rj
  <2>1. CASE HandleServiceChanges \/ ListRevisions
    BY <1>5, <2>1, TurnsToRevisions
  <2>2. CASE \E r \in RevIds : RetirePhase(r) \/ RetireSpec(r)
    BY <1>5, <2>2, RetiresOne
  <2>3. CASE CreateRevision
    BY <1>5, <2>3, CreatesNewest
  <2> QED  BY <1>4, <1>5, <2>1, <2>2, <2>3
<1>6. CASE RevStep /\ UNCHANGED aj
  BY <1>6, RevisionsObserved
<1>7. CASE Deliver /\ UNCHANGED <<aj, rj>>
  BY <1>7, HearOfRetiring
<1> QED  BY <1>1, <1>3, <1>5, <1>6, <1>7 DEF CalmNext

-----------------------------------------------------------------------------
(* The third chapter: the Revision worker.                                 *)

LEMMA SwitchesInVain ==
    ASSUME Calm, NEW n \in RevIds, After(n), RevStep
    PROVE  /\ UNCHANGED <<dep, budget, cache, lyra.minted, queue.ad>>
           /\ MarkAppDeployment \/ ad' = ad
<1>1. /\ queue \in Queue /\ lyra \in LyraState /\ rj.dep \in Deployment
      /\ UNCHANGED budget /\ ~Fault
  BY WorkersSpend, DepsTyped DEF Calm, Typed, TypeOK, ClusterTypeOK
<1>2. CASE SwitchDeployment
  <2> DEFINE held == [rj.dep EXCEPT !.image = rj.own.image]
  <2>1. /\ dep' = dep \/ (Accepts(held, dep) /\ dep' = Stored(dep, held))
        /\ rj.pc = "switch" /\ UNCHANGED <<ad, lyra, cache, queue>>
    BY <1>2 DEF SwitchDeployment
  <2>2. rj.own.image = dep.image
    BY <2>1 DEF After, Attending, Taking, Rolls, Working, Newest
  <2>3. held.rv = rj.dep.rv
    BY <1>1 DEF Deployment
  <2>4. Accepts(held, dep) => rj.dep = dep
    BY <2>1, <2>3 DEF Accepts, Calm, Held, Rolling, Follows
  <2>5. Accepts(held, dep) => held = dep
    BY <1>1, <2>2, <2>4 DEF Deployment
  <2> HIDE DEF held
  <2> QED  BY <1>1, <2>1, <2>5 DEF Stored
<1>3. CASE RevStep /\ ~SwitchDeployment
  <2>1. UNCHANGED <<dep, cache>> /\ (MarkAppDeployment \/ ad' = ad)
    BY <1>3 DEF RevStep, RevBegin, ForgetRevision, ClearOrigin, ReadAppDeployment, clusterVars,
       OtherPhase, OtherSpec, ActivatePhase, SyncRevision, MarkAppDeployment, ObserveGeneration
  <2>2. UNCHANGED <<lyra.minted, queue.ad>>
    BY <1>1, <1>3 DEF RevStep, RevBegin, ForgetRevision, ClearOrigin, ReadAppDeployment,
       clusterVars, OtherPhase, OtherSpec, ActivatePhase, SyncRevision, MarkAppDeployment,
       ObserveGeneration, Asked, LyraState, Queue
  <2> QED  BY <1>1, <2>1, <2>2
<1> QED  BY <1>2, <1>3

\* What the worker knows of the new Revision when it takes it up.
LEMMA NewestHeard ==
    ASSUME Calm, NEW n \in RevIds, After(n), n \in queue.rev \/ (rj.pc # "idle" /\ rj.key = n)
    PROVE  Newest(cache.rev[n]) /\ (rj.key = n => rj.pc # "forget")
BY DEF Calm, LifeInv, Seen, Forgetting, After, Serving, Newest

\* The Revision is taken up, in the state the informer knows.
LEMMA BeginsNewest ==
    ASSUME Calm, NEW n \in RevIds, After(n), NEW r \in RevIds, RevBegin(r)
    PROVE  Newest(rev[n])' /\ Taking(n)'
<1>1. /\ rj.pc = "idle" /\ r \in queue.rev /\ UNCHANGED <<ad, dep, rev, cache>>
      /\ ~Rolls(n) /\ queue \in Queue /\ queue' = [queue EXCEPT !.rev = @ \ {r}]
  BY DEF RevBegin, Rolls, Working, Calm, Typed, TypeOK, ClusterTypeOK
<1>2. /\ InService = {n} /\ Newest(rev[n]) /\ Taking(n)
  BY DEF After, Serving
<1>3. Newest(rev[n])'
  BY <1>1, <1>2 DEF Newest
<1>4. rev'[n].obs # 0 => rev'[n].phase = "Active" /\ ad'.cur = n
  BY <1>1, <1>2 DEF Taking
<1>5. CASE r = n
  <2>1. Newest(cache.rev[n])
    BY <1>1, <1>5, NewestHeard
  <2>2. Rolls(n)' => rj'.own = cache.rev[n]
    BY <1>5, BegunOwn DEF Rolls, Working, Calm
  <2>3. rj'.pc \in {"idle", "clear", "read"}
    <3>1. \/ rj' = RevIdle
          \/ rj' = [RevIdle EXCEPT !.key = r, !.own = cache.rev[r],
                          !.pc = IF cache.rev[r].origin THEN "clear" ELSE "read"]
      BY <1>5, <2>1 DEF RevBegin, Gone, AfterOrigin, Newest
    <3>2. RevIdle \in RevWorker /\ RevIdle.pc = "idle"
      BY NothingTyped DEF RevIdle
    <3> QED  BY <3>1, <3>2 DEF RevWorker
  <2>4. rj'.pc = "idle" => cache.rev[n].gen = cache.rev[n].obs
    BY <1>5, <2>1, BegunOwn DEF Gone, Unobserved, Calm, Standing, Newest
  <2>5. rev'[n].obs = 0 => Pending(n)' \/ Rolls(n)'
    <3>1. CASE rj'.pc = "idle"
      <4>1. rev[n].obs = 0 => cache.rev[n].rv # rev[n].rv
        BY <2>1, <2>4, <3>1, CopyAccepted DEF Newest, Calm
      <4> QED  BY <1>1, <4>1 DEF Pending
    <3>2. CASE rj'.pc # "idle"
      <4>1. rj'.key = n /\ Working'
        BY <1>5, <2>3, <3>2, BegunOwn DEF Working, Calm
      <4> QED  BY <4>1 DEF Rolls
    <3> QED  BY <3>1, <3>2
  <2>6. Rolls(n)' => Newest(rj.own)'
    BY <1>1, <2>1, <2>2 DEF Newest
  <2> QED  BY <1>3, <1>4, <2>3, <2>5, <2>6 DEF Taking
<1>6. CASE r # n
  <2>1. ~Rolls(n)'
    BY <1>6, BegunOwn DEF Rolls, Working, Calm
  <2>2. rev'[n].obs = 0 => Pending(n)'
    <3>1. rev[n].obs = 0 => Pending(n)
      BY <1>1, <1>2 DEF Taking
    <3> QED  BY <1>1, <1>6, <3>1 DEF Pending, Queue
  <2> QED  BY <1>3, <1>4, <2>1, <2>2 DEF Taking
<1> QED  BY <1>5, <1>6

\* Its origin is taken off, or the worker's copy is known to be old.
LEMMA ClearsNewest ==
    ASSUME Calm, NEW n \in RevIds, After(n), ClearOrigin
    PROVE  Newest(rev[n])' /\ Taking(n)'
<1> DEFINE held == Cleared(n)
           new  == PutSpec(rev[n], held)
<1>1. /\ rj \in RevWorker /\ rev \in [RevIds -> Revision] /\ ~Fault
      /\ rev[n] \in Revision /\ cache.rev[n] \in Revision
      /\ rj.pc = "clear" /\ rj.key = n /\ UNCHANGED <<ad, dep, cache>>
  BY RevsTyped DEF Calm, Typed, TypeOK, ClusterTypeOK, ClearOrigin, After, Attending
<1>2. Newest(rev[n]) /\ Newest(cache.rev[n]) /\ Taking(n)
  BY <1>1, NewestHeard DEF After, Serving
<1>3. /\ held \in Revision /\ held.rv = cache.rev[n].rv /\ held.live = cache.rev[n].live
      /\ held.image = cache.rev[n].image /\ held.status = cache.rev[n].status
      /\ held.gen = cache.rev[n].gen
  BY <1>1 DEF Cleared, Revision
<1>4. \/ /\ Accepts(held, rev[n]) /\ rev' = [rev EXCEPT ![n] = new]
         /\ rj' = [rj EXCEPT !.own = new, !.pc = AfterOrigin(new)]
      \/ /\ ~Accepts(held, rev[n]) /\ rev' = rev
         /\ rj' = Observing([rj EXCEPT !.own = held], TRUE)
  BY <1>1 DEF ClearOrigin, RevHeard, Refused
<1>5. CASE /\ Accepts(held, rev[n]) /\ rev' = [rev EXCEPT ![n] = new]
           /\ rj' = [rj EXCEPT !.own = new, !.pc = AfterOrigin(new)]
  <2>1. cache.rev[n] = rev[n]
    BY <1>3, <1>5, CopyAccepted DEF Accepts, Calm
  <2>2. new.live /\ new.status = "Active" /\ new.image = dep.image /\ new.gen = 1
        /\ new.obs = rev[n].obs /\ new.phase = rev[n].phase
    <3> DEFINE kept == [held EXCEPT !.phase = rev[n].phase, !.obs = rev[n].obs]
    <3>1. new = Stored(rev[n], kept)
      BY <1>3, <2>1 DEF PutSpec
    <3>2. kept.live /\ kept.status = "Active" /\ kept.image = dep.image /\ kept.gen = 1
          /\ kept.obs = rev[n].obs /\ kept.phase = rev[n].phase /\ kept \in Revision
      BY <1>1, <1>2, <1>3 DEF Newest, Revision
    <3> HIDE DEF kept
    <3> QED  BY <1>1, <1>2, <3>1, <3>2 DEF Stored, Newest, Revision
  <2> HIDE DEF new
  <2>3. rev'[n] = new /\ rj'.own = new /\ rj'.pc = "read" /\ rj'.key = n
    BY <1>1, <1>5, <2>2 DEF RevWorker, AfterOrigin
  <2> QED  BY <1>1, <1>2, <2>2, <2>3 DEF Newest, Taking, Rolls, Working
<1>6. CASE /\ ~Accepts(held, rev[n]) /\ rev' = rev
           /\ rj' = Observing([rj EXCEPT !.own = held], TRUE)
  <2>1. [rj EXCEPT !.own = held].own = held /\ [rj EXCEPT !.own = held].key = n
    BY <1>1 DEF RevWorker
  <2>2. rj'.own = held /\ rj'.pc = "observe" /\ rj'.key = n
    BY <1>6, <2>1, ObservingIs
  <2>3. held.rv # rev[n].rv
    BY <1>2, <1>6 DEF Accepts, Newest
  <2> HIDE DEF held
  <2> QED  BY <1>1, <1>2, <1>3, <1>6, <2>2, <2>3 DEF Newest, Taking, Rolls, Working
<1> QED  BY <1>4, <1>5, <1>6

\* The other Revisions are retired, and the copies read, without touching it.
LEMMA GoesOnWithNewest ==
    ASSUME Calm, NEW n \in RevIds, After(n),
           \/ ReadAppDeployment \/ SwitchDeployment \/ SyncRevision \/ ForgetRevision
           \/ \E r \in RevIds : OtherPhase(r) \/ OtherSpec(r)
    PROVE  Newest(rev[n])' /\ Taking(n)'
<1>1. /\ rj \in RevWorker /\ rev \in [RevIds -> Revision] /\ ~Fault
      /\ UNCHANGED <<ad, cache>> /\ UNCHANGED dep /\ queue' = queue
  <2>1. RevStep
    BY DEF RevStep
  <2>2. UNCHANGED <<ad, cache>>
    BY DEF ReadAppDeployment, SwitchDeployment, SyncRevision, ForgetRevision, OtherPhase, OtherSpec,
       clusterVars
  <2>3. queue' = queue
    <3>1. ForgetRevision => queue' = queue
      <4>1. ASSUME NEW call \in Calls, Asked(call, [lyra EXCEPT !.forgotten = @ \cup {rj.key}])
            PROVE  call.how = "answered"
        BY <4>1 DEF Asked, Calm
      <4> QED  BY <4>1 DEF ForgetRevision
    <3> QED  BY <3>1 DEF ReadAppDeployment, SwitchDeployment, SyncRevision, OtherPhase, OtherSpec,
                clusterVars
  <2> QED  BY <2>1, <2>2, <2>3, SwitchesInVain DEF Calm, Typed, TypeOK, ClusterTypeOK
<1>2. /\ Newest(rev[n]) /\ Taking(n) /\ Attending(n)
  BY DEF After, Serving
<1>3. rev'[n] = rev[n]
  BY <1>1, <1>2 DEF ReadAppDeployment, SwitchDeployment, SyncRevision, ForgetRevision, OtherPhase,
     OtherSpec, clusterVars, Attending
<1>4. Newest(rev[n])'
  BY <1>1, <1>2, <1>3 DEF Newest
<1>5. Pending(n)' = Pending(n)
  BY <1>1, <1>3 DEF Pending
<1>6. CASE ForgetRevision
  <2>1. ~Rolls(n) /\ ~Rolls(n)'
    BY <1>6, WorkerStops DEF ForgetRevision, Rolls, Working
  <2> QED  BY <1>1, <1>2, <1>3, <1>4, <1>5, <2>1 DEF Taking
<1>7. CASE ~ForgetRevision
  <2>1. /\ rj.pc \in {"read", "phase", "spec", "switch", "sync"} /\ rj.key = n
        /\ rj'.key = rj.key /\ rj'.own = rj.own
        /\ \/ rj'.pc \in {"phase", "spec", "activate"}
           \/ rj.pc \in {"switch", "sync"} /\ rj'.pc \in {"sync", "mark"}
    <3>1. CASE ReadAppDeployment
      <4>1. rj.pc = "read" /\ cache.dep.live /\ cache.ad.live
        BY <3>1 DEF ReadAppDeployment, Calm, Standing
      <4>2. rj'.pc \in {"activate", "phase"} /\ rj'.key = rj.key /\ rj'.own = rj.own
        BY <1>1, <3>1, <4>1 DEF ReadAppDeployment, RevWorker
      <4>3. rj.key = n
        BY <1>2, <4>1 DEF Attending
      <4> QED  BY <4>1, <4>2, <4>3
    <3>2. CASE \E r \in RevIds : OtherPhase(r) \/ OtherSpec(r)
      <4>1. rj.pc \in {"phase", "spec"}
        BY <3>2 DEF OtherPhase, OtherSpec
      <4>2. rj'.pc \in {"activate", "phase", "spec"} /\ rj'.key = rj.key /\ rj'.own = rj.own
        BY <1>1, <3>2 DEF OtherPhase, OtherSpec, RevHeard, RevWorker
      <4>3. rj.key = n
        BY <1>2, <4>1 DEF Attending
      <4> QED  BY <4>1, <4>2, <4>3
    <3>3. CASE SwitchDeployment \/ SyncRevision
      BY <1>1, <1>2, <3>3 DEF SwitchDeployment, SyncRevision, RevHeard, RevWorker, Attending
    <3> QED  BY <1>7, <3>1, <3>2, <3>3
  <2>2. Rolls(n) /\ Rolls(n)'
    BY <2>1 DEF Rolls, Working
  <2> QED  BY <1>1, <1>2, <1>3, <1>4, <2>1, <2>2 DEF Taking, Newest
<1> QED  BY <1>6, <1>7

\* It is reported Active, or the worker's copy is known to be old.
LEMMA ActivatesNewest ==
    ASSUME Calm, NEW n \in RevIds, After(n), ActivatePhase
    PROVE  Newest(rev[n])' /\ Taking(n)'
<1> DEFINE held == Activated
           new  == PutStatus(rev[n], held)
<1>1. /\ rj \in RevWorker /\ rev \in [RevIds -> Revision] /\ ~Fault
      /\ rev[n] \in Revision /\ rj.own \in Revision
      /\ rj.pc = "activate" /\ rj.key = n /\ UNCHANGED <<ad, dep, cache>>
  BY RevsTyped DEF Calm, Typed, TypeOK, ClusterTypeOK, ActivatePhase, After, Attending, RevWorker
<1>2. Newest(rev[n]) /\ Taking(n) /\ Newest(rj.own)
  BY <1>1 DEF After, Serving, Taking, Rolls, Working
<1>3. held \in Revision /\ held.rv = rj.own.rv /\ held.phase = "Active" /\ held.obs = rj.own.obs
  BY <1>1 DEF Activated, Revision, Status
<1>4. \/ /\ Accepts(held, rev[n]) /\ rev' = [rev EXCEPT ![n] = new]
         /\ rj' = [rj EXCEPT !.pc = "switch"]
      \/ /\ ~Accepts(held, rev[n]) /\ rev' = rev
         /\ rj' = [rj EXCEPT !.pc = "mark", !.dep = NoDeployment]
  BY <1>1 DEF ActivatePhase, RevHeard, Refused
<1>5. /\ rj'.own = rj.own /\ rj'.key = n /\ rj'.pc \in {"switch", "mark"} /\ Rolls(n)'
  BY <1>1, <1>4 DEF RevWorker, Rolls, Working
<1>6. CASE /\ Accepts(held, rev[n]) /\ rev' = [rev EXCEPT ![n] = new]
           /\ rj' = [rj EXCEPT !.pc = "switch"]
  <2>1. rj.own = rev[n]
    BY <1>1, <1>2, <1>3, <1>6 DEF Accepts, Calm, Held, OwnFollows, Working
  <2>2. new.live /\ new.status = "Active" /\ new.image = dep.image /\ new.gen = 1
        /\ new.obs = rev[n].obs /\ new.phase = "Active"
    BY <1>1, <1>2, <1>3, <2>1 DEF PutStatus, Stored, Revision, Newest
  <2>3. rev'[n] = new /\ rj'.pc = "switch"
    BY <1>1, <1>6 DEF RevWorker
  <2> HIDE DEF new
  <2> QED  BY <1>1, <1>2, <1>5, <2>2, <2>3 DEF Newest, Taking
<1>7. CASE /\ ~Accepts(held, rev[n]) /\ rev' = rev
  <2>1. rj.own.rv # rev[n].rv
    BY <1>2, <1>3, <1>7 DEF Accepts, Newest
  <2> QED  BY <1>1, <1>2, <1>5, <1>7, <2>1 DEF Newest, Taking
<1> QED  BY <1>4, <1>6, <1>7

\* It is made current, or was already when the copy in hand is old.
LEMMA MarksNewest ==
    ASSUME Calm, NEW n \in RevIds, After(n), MarkAppDeployment
    PROVE  /\ Newest(rev[n])' /\ Taking(n)'
           /\ ad'.cur = n /\ ad'.image = dep.image /\ rj'.pc = "observe"
           /\ dep.image = Spelling(ad'.image) /\ UNCHANGED <<rev, dep, cache, queue>>
<1>1. /\ rj.pc = "mark" /\ rj.key = n /\ UNCHANGED <<rev, dep, cache, queue>> /\ ~Fault
      /\ ad \in AppDeployment /\ ad.image \in OptImage /\ rj.ad \in AppDeployment
      /\ Newest(rev[n]) /\ Taking(n) /\ Rolls(n) /\ n \in 0 .. MaxRevs
      /\ dep.image = Spelling(ad.image) /\ Following(n) /\ Follows(rj.ad, ad)
  BY AdsTyped DEF MarkAppDeployment, After, Serving, Attending, Rolls, Working, AppDeployment, Calm,
     Held, Rolling, RevIds
<1>2. \E retry : rj' = Observing(rj, retry)
  BY DEF MarkAppDeployment
<1>3. rj'.pc = "observe" /\ rj'.key = n /\ rj'.own = rj.own
  BY <1>1, <1>2, ObservingIs
<1>4. ad'.cur = n /\ ad'.image = dep.image /\ dep.image = Spelling(ad'.image)
  <2>1. Marked.rv = rj.ad.rv
    BY <1>1 DEF Marked, AppDeployment
  <2>2. CASE Accepts(Marked, ad) /\ ad' = Stored(ad, Marked)
    <3>1. rj.ad = ad
      BY <1>1, <2>1, <2>2 DEF Accepts, Follows
    <3>2. Marked.cur = n /\ Marked.image = Spelling(ad.image) /\ Marked \in AppDeployment
      BY <1>1, <3>1, SpellingTyped DEF Marked, AppDeployment
    <3>3. ad'.cur = n /\ ad'.image = Spelling(ad.image)
      BY <1>1, <2>2, <3>2 DEF Stored, AppDeployment
    <3> QED  BY <1>1, <3>3, SpellingTyped
  <2>3. CASE ~Accepts(Marked, ad) /\ ad' = ad
    <3>1. rj.ad # ad
      BY <2>1, <2>3 DEF Accepts, Calm, Standing
    <3> QED  BY <1>1, <2>3, <3>1 DEF Following, Rolling
  <2> QED  BY <1>1, <2>2, <2>3 DEF MarkAppDeployment, Refused, Calm, Standing
<1>5. Newest(rev[n])'
  BY <1>1 DEF Newest
<1>6. Rolls(n)' /\ Newest(rj.own)'
  BY <1>1, <1>3 DEF Rolls, Working, Taking, Newest
<1> QED  BY <1>1, <1>3, <1>4, <1>5, <1>6 DEF Taking

\* Its first generation is observed, when all is done, or it will be taken up again.
LEMMA ObservesNewest ==
    ASSUME Calm, NEW n \in RevIds, After(n), ObserveGeneration
    PROVE  Newest(rev[n])' /\ Taking(n)'
<1> DEFINE k    == rj.key
           held == ObservedOwn
<1>1. /\ rj \in RevWorker /\ rev \in [RevIds -> Revision] /\ ~Fault
      /\ rev[n] \in Revision /\ rj.own \in Revision /\ queue \in Queue
      /\ rj.pc = "observe" /\ UNCHANGED <<ad, dep, cache>> /\ rj' = RevIdle /\ ~Rolls(n)'
  BY RevsTyped
     DEF Calm, Typed, TypeOK, ClusterTypeOK, ObserveGeneration, RevWorker, Rolls, Working, RevIdle
<1>2. Newest(rev[n]) /\ Taking(n)
  BY DEF After, Serving
<1>3. held \in Revision /\ held.rv = rj.own.rv /\ held.phase = rj.own.phase /\ held.obs = rj.own.gen
  BY <1>1 DEF ObservedOwn, Revision
<1>4. \/ /\ Accepts(held, rev[k]) /\ rev' = [rev EXCEPT ![k] = PutStatus(rev[k], held)]
      \/ /\ ~Accepts(held, rev[k]) /\ rev' = rev
  BY <1>1 DEF ObserveGeneration, Refused
<1> HIDE DEF held
<1>5. n \in queue.rev => n \in queue'.rev
  BY <1>1 DEF ObserveGeneration, Queue
<1>6. CASE rev'[n] = rev[n] /\ (rev[n].obs = 0 => Pending(n))
  <2>1. rev'[n].obs = 0 => Pending(n)'
    BY <1>1, <1>5, <1>6 DEF Pending
  <2> QED  BY <1>1, <1>2, <1>6, <2>1 DEF Newest, Taking
<1>7. CASE k # n
  <2>1. rev'[n] = rev[n] /\ ~Rolls(n)
    BY <1>1, <1>4, <1>7 DEF Rolls
  <2> QED  BY <1>2, <1>6, <2>1 DEF Taking
<1>8. CASE k = n /\ ~Accepts(held, rev[k]) /\ rev' = rev
  <2>1. rj.own.rv # rev[n].rv /\ rev[n].live
    BY <1>2, <1>3, <1>8 DEF Accepts, Newest
  <2>2. Pending(n)
    BY <1>1, <1>8, <2>1 DEF Calm, Held, OwnFollows, Working
  <2> QED  BY <1>6, <1>8, <2>2
<1>9. CASE /\ k = n /\ Accepts(held, rev[k])
           /\ rev' = [rev EXCEPT ![k] = PutStatus(rev[k], held)]
  <2> DEFINE new == PutStatus(rev[n], held)
  <2>1. rj.own = rev[n]
    BY <1>1, <1>3, <1>9 DEF Accepts, Calm, Held, OwnFollows, Working
  <2>2. rev[n].phase = "Active" /\ ad.cur = n
    BY <1>1, <1>2, <1>9, <2>1 DEF Taking, Rolls, Working
  <2>3. new.live /\ new.status = "Active" /\ new.image = dep.image /\ new.gen = 1
        /\ new.obs = 1 /\ new.phase = "Active"
    <3>1. /\ new.live = rev[n].live /\ new.status = rev[n].status /\ new.image = rev[n].image
          /\ new.gen = rev[n].gen /\ new.obs = held.obs /\ new.phase = held.phase
      BY <1>1, <1>3 DEF PutStatus, Stored, Revision
    <3> HIDE DEF new
    <3> QED  BY <1>2, <1>3, <2>1, <2>2, <3>1 DEF Newest
  <2>4. rev'[n] = new
    BY <1>1, <1>9
  <2> HIDE DEF new
  <2> QED  BY <1>1, <2>2, <2>3, <2>4 DEF Newest, Taking
<1> QED  BY <1>4, <1>7, <1>8, <1>9

\* A step of the Revision worker keeps the chapter.
LEMMA RevisionCarriesOn ==
    ASSUME Calm, NEW n \in RevIds, After(n), RevStep, UNCHANGED aj
    PROVE  After(n)'
<1>1. /\ UNCHANGED <<dep, budget, cache, lyra.minted, queue.ad>>
      /\ MarkAppDeployment \/ ad' = ad
  BY SwitchesInVain
<1>2. /\ AllUsed(n) /\ dep.image = Spelling(ad.image)
      /\ Serving(n) /\ Attending(n) /\ Taking(n) /\ Following(n) /\ Pruning(n)
  BY DEF After
<1>3. Newest(rev[n])' /\ Taking(n)'
  BY BeginsNewest, ClearsNewest, GoesOnWithNewest, ActivatesNewest, MarksNewest, ObservesNewest
     DEF RevStep
<1>4. /\ \A r \in RevIds \ {n} : Dulled(rev[r], rev'[r])
      /\ Attending(n)'
  BY <1>2, RevDulls DEF Serving
<1>5. rev[n].live /\ rev'[n].live /\ rev'[n].status = "Active"
  BY <1>2, <1>3 DEF Serving, Newest
<1>6. LiveIn(rev') = LiveIn(rev) /\ InService' = {n}
  <2>1. LiveIn(rev') = LiveIn(rev)
    BY <1>4, <1>5 DEF LiveIn, Dulled
  <2>2. \A r \in RevIds \ {n} : rev'[r].status = "Active" => rev[r].status = "Active"
    BY <1>4 DEF Dulled
  <2>3. InService = {n}
    BY <1>2 DEF Serving
  <2>4. n \in InService'
    BY <1>5 DEF InService, LiveIn
  <2>5. \A r \in InService' : r = n
    BY <2>1, <2>2, <2>3 DEF InService, LiveIn
  <2> QED  BY <2>1, <2>4, <2>5
<1>7. Serving(n)'
  <2>1. DullBut(n)'
    BY <1>1, <1>2, <1>4 DEF Serving, DullBut, Dull, Dulled
  <2>2. (cache.rev[n].rv > 0 => Newest(cache.rev[n]))'
    BY <1>1, <1>2 DEF Serving, Newest
  <2> QED  BY <1>3, <1>6, <2>1, <2>2 DEF Serving
<1>8. AllUsed(n)'
  <2> SUFFICES ASSUME NEW r \in 1 .. n PROVE rev'[r].rv > 0
    BY <1>1, <1>2 DEF AllUsed
  <2>1. r \in RevIds /\ rev[r].rv > 0
    BY <1>2, RevsAssumption DEF AllUsed, RevIds
  <2> QED  BY <2>1, WritesAreNewer DEF Calm
<1>9. Pruning(n)'
  BY <1>2, <1>6 DEF Pruning, ShortHistory
<1>10. CASE MarkAppDeployment
  <2>1. ad'.cur = n /\ ad'.image = dep.image /\ dep.image = Spelling(ad'.image)
        /\ UNCHANGED <<dep, cache, queue>>
    BY <1>10, MarksNewest
  <2>2. Grown /\ ad.rv \in Nat /\ ad'.rv \in Nat /\ aj.ad.rv \in Nat
    BY AdCopiesFrom, AdsTyped DEF Calm, AppDeployment
  <2>3. Follows(aj.ad, ad) => Follows(aj.ad, ad')
    BY <2>2 DEF Follows, Grown
  <2>4. Following(n)'
    BY <1>2, <2>1, <2>3 DEF Following, Follows
  <2> QED  BY <1>1, <1>2, <1>3, <1>4, <1>7, <1>8, <1>9, <2>1, <2>4 DEF After
<1>11. CASE ad' = ad
  <2>1. ad.cur # n /\ rj'.pc \in Rolling => rj'.ad = ad
    BY <1>2, RolledOn DEF Following, Calm
  <2>2. Following(n)'
    BY <1>1, <1>2, <1>11, <2>1 DEF Following, Follows
  <2> QED  BY <1>1, <1>2, <1>3, <1>4, <1>7, <1>8, <1>9, <1>11, <2>2 DEF After
<1> QED  BY <1>1, <1>10, <1>11

-----------------------------------------------------------------------------
(* The third chapter: the AppDeployment worker and the informers.          *)

\* What it takes to keep the chapter while no Revision is written.
LEMMA RevisionsStand ==
    ASSUME NEW n \in RevIds, After(n), UNCHANGED <<rev, rj, dep.image, lyra.minted>>,
           ad'.cur = ad.cur, dep'.image = Spelling(ad'.image),
           \A r \in RevIds : cache'.rev[r] = cache.rev[r] \/ cache'.rev[r] = rev[r],
           rev[n].obs = 0 /\ Pending(n) => Pending(n)',
           Following(n)', Pruning(n)'
    PROVE  After(n)'
<1>1. AllUsed(n)' /\ Attending(n)'
  BY DEF After, AllUsed, Attending
<1>2. Serving(n)'
  <2>1. InService' = InService /\ Newest(rev[n])'
    BY DEF After, Serving, InService, LiveIn, Newest
  <2>2. (cache.rev[n].rv > 0 => Newest(cache.rev[n]))'
    BY DEF After, Serving, Newest
  <2>3. DullBut(n)'
    BY DEF After, Serving, DullBut, Dull
  <2> QED  BY <2>1, <2>2, <2>3 DEF After, Serving
<1>3. Taking(n)'
  BY DEF After, Taking, Rolls, Working, Newest
<1> QED  BY <1>1, <1>2, <1>3 DEF After

\* The oldest Revision goes, which is not the one in service.
LEMMA PrunesAnother ==
    ASSUME Calm, NEW n \in RevIds, After(n), Prune, UNCHANGED rj
    PROVE  After(n)'
<1> DEFINE oldest == CHOOSE r \in aj.listed : \A s \in aj.listed : r <= s
<1>1. /\ aj.listed = LiveIn(rev) \ {n} /\ aj.listed # {} /\ rev \in [RevIds -> Revision]
      /\ Cardinality(aj.listed) <= HistoryLimit /\ aj.pc = "prune" /\ ~Fault
      /\ LiveIn(rev) \in SUBSET RevIds /\ RevIds \subseteq Nat
  BY RevsAssumption
     DEF After, Pruning, Prune, Calm, Typed, TypeOK, ClusterTypeOK, LiveIn, RevIds
<1>2. oldest \in aj.listed
  BY <1>1, OldestIn
<1>3. /\ rev' = [rev EXCEPT ![oldest] = Deleted(rev[oldest])] /\ aj' = AdIdle
      /\ UNCHANGED <<ad, dep, objs, lyra, cache, queue, budget>>
  BY <1>1, <1>2 DEF Prune, LiveIn
<1> HIDE DEF oldest
<1>4. oldest \in RevIds \ {n} /\ rev[oldest] \in Revision
  BY <1>1, <1>2
<1>5. /\ \A r \in RevIds \ {oldest} : rev'[r] = rev[r]
      /\ rev'[n] = rev[n] /\ ~rev'[oldest].live /\ rev'[oldest].rv = rev[oldest].rv + 1
  BY <1>1, <1>3, <1>4 DEF Deleted, Revision
<1>6. /\ AllUsed(n) /\ dep.image = Spelling(ad.image)
      /\ Serving(n) /\ Attending(n) /\ Taking(n) /\ Following(n)
  BY DEF After
<1>7. n \in LiveIn(rev) /\ LiveIn(rev') = (aj.listed \ {oldest}) \cup {n}
  <2>1. n \in LiveIn(rev) /\ \A r \in RevIds : rev'[r].live <=> rev[r].live /\ r # oldest
    BY <1>4, <1>5, <1>6 DEF Serving, Newest, LiveIn
  <2> QED  BY <1>1, <1>4, <2>1 DEF LiveIn
<1>8. Serving(n)'
  <2>1. InService' = {n}
    <3>1. n \in InService' /\ InService = {n}
      BY <1>5, <1>6 DEF Serving, Newest, InService, LiveIn
    <3>2. \A r \in InService' : r \in InService
      BY <1>4, <1>5 DEF InService, LiveIn
    <3> QED  BY <3>1, <3>2
  <2>2. Newest(rev[n])' /\ (cache.rev[n].rv > 0 => Newest(cache.rev[n]))'
    BY <1>3, <1>5, <1>6 DEF Serving, Newest
  <2>3. DullBut(n)'
    BY <1>3, <1>5, <1>6 DEF Serving, DullBut, Dull
  <2> QED  BY <2>1, <2>2, <2>3 DEF Serving
<1>9. AllUsed(n)'
  <2>1. rev[oldest].rv \in Nat /\ \A r \in 1 .. n : r \in RevIds
    BY <1>4, RevsAssumption DEF Revision, RevIds
  <2>2. \A r \in 1 .. n : rev'[r].rv > 0
    BY <1>5, <1>6, <2>1 DEF AllUsed
  <2> QED  BY <1>3, <1>6, <2>2 DEF AllUsed
<1>10. Attending(n)' /\ Taking(n)'
  BY <1>3, <1>5, <1>6 DEF Attending, Taking, Rolls, Working, Newest, Pending
<1>11. AdIdle.pc = "idle"
  BY DEF AdIdle
<1>12. Following(n)'
  BY <1>3, <1>6, <1>11 DEF Following
<1>13. ShortHistory'
  <2>1. IsFiniteSet(aj.listed) /\ Cardinality(aj.listed) \in Nat
    BY <1>1, SetsOfRevisions
  <2>2. IsFiniteSet(aj.listed \ {oldest})
        /\ Cardinality(aj.listed \ {oldest}) = Cardinality(aj.listed) - 1
    BY <1>2, <2>1, FS_RemoveElement
  <2>3. Cardinality((aj.listed \ {oldest}) \cup {n}) = Cardinality(aj.listed \ {oldest}) + 1
    BY <1>1, <2>2, FS_AddElement
  <2> QED  BY <1>1, <1>7, <2>1, <2>2, <2>3 DEF ShortHistory
<1>14. Pruning(n)'
  BY <1>3, <1>11, <1>13 DEF Pruning
<1> QED  BY <1>3, <1>6, <1>8, <1>9, <1>10, <1>12, <1>14 DEF After

\* The worker hears of the mark, finds nothing to apply, and takes the mark off.
LEMMA NothingToApply ==
    ASSUME Calm, NEW n \in RevIds, After(n), UNCHANGED rj,
           AdBegin \/ HandleAppDeploymentChanges
    PROVE  After(n)'
<1>1. /\ Following(n) /\ Pruning(n) /\ dep.image = Spelling(ad.image) /\ aj \in AdWorker
      /\ queue \in Queue /\ ~Fault /\ cache.ad.live /\ objs.secret
      /\ ad.rv \in Nat /\ cache.ad.rv \in Nat
  BY AdsTyped DEF After, Calm, Typed, TypeOK, ClusterTypeOK, Standing, AppDeployment
<1>2. CASE AdBegin
  <2>1. /\ aj.pc = "idle" /\ queue.ad /\ UNCHANGED <<ad, dep, rev, lyra, cache, budget>>
        /\ aj' = [AdIdle EXCEPT !.pc = "apply", !.ad = cache.ad]
        /\ queue' = [queue EXCEPT !.ad = FALSE]
    BY <1>1, <1>2 DEF AdBegin
  <2>2. aj'.pc = "apply" /\ aj'.ad = cache.ad /\ ~aj'.revision /\ ~aj'.app
    BY <2>1 DEF AdIdle
  <2>3. ~queue'.ad /\ queue'.rev = queue.rev
    BY <1>1, <2>1 DEF Queue
  <2>4. cache.ad.cur = n /\ ad.cur = n /\ cache.ad.image = dep.image
    BY <1>1, <2>1 DEF Following
  <2>5. Follows(cache.ad, ad)
    BY <1>1 DEF Calm, AdCopy, ImagesKept, CopyOf, Follows
  <2>6. Following(n)'
    BY <1>1, <2>1, <2>2, <2>3, <2>4, <2>5 DEF Following, Follows
  <2>7. Pruning(n)'
    BY <1>1, <2>1, <2>2 DEF Pruning, ShortHistory
  <2>8. Pending(n)' = Pending(n)
    BY <2>1, <2>3 DEF Pending
  <2> QED  BY <1>1, <2>1, <2>6, <2>7, <2>8, RevisionsStand
<1>3. CASE HandleAppDeploymentChanges
  <2>1. /\ aj.pc = "apply" /\ aj.ad.cur = n /\ aj.ad.image = dep.image
        /\ UNCHANGED <<ad, rev, lyra, cache, queue>>
    BY <1>1, <1>3 DEF HandleAppDeploymentChanges, Following
  <2>2. cache.dep.live /\ (Accepts(cache.dep, dep) => cache.dep = dep)
    BY DEF Calm, Standing, Held, Follows, Accepts
  <2>3. dep' = dep /\ aj' = Same /\ UNCHANGED budget
    BY <1>1, <1>3, <2>1, <2>2 DEF HandleAppDeploymentChanges, Refused
  <2>4. /\ aj'.pc = "sync" /\ aj'.ad = aj.ad /\ aj'.app = aj.app /\ aj'.revision = aj.revision
    BY <1>1, <2>3 DEF Same, AdWorker
  <2>5. Following(n)'
    BY <1>1, <2>1, <2>3, <2>4 DEF Following, Follows
  <2>6. Pruning(n)'
    BY <1>1, <2>1, <2>4 DEF Pruning, ShortHistory
  <2>7. Pending(n)' = Pending(n)
    BY <2>1 DEF Pending
  <2> QED  BY <1>1, <2>1, <2>3, <2>5, <2>6, <2>7, RevisionsStand
<1> QED  BY <1>2, <1>3

LEMMA ConfirmsNewest ==
    ASSUME Calm, NEW n \in RevIds, After(n), UNCHANGED rj, SyncApp
    PROVE  After(n)'
<1>1. /\ Following(n) /\ Pruning(n) /\ dep.image = Spelling(ad.image) /\ aj.pc = "sync"
      /\ ad.cur = n /\ aj.ad.cur = n /\ ~aj.revision /\ ~aj.app /\ aj.ad.image = dep.image
      /\ Follows(aj.ad, ad) /\ lyra.minted = n /\ n <= lyra.minted
  BY RevsAssumption DEF After, SyncApp, Following, AllUsed, RevIds
<1>2. /\ IF aj.ad.marker
         THEN aj'.pc = "mark" /\ aj'.id = n /\ aj'.ad = aj.ad /\ ~aj'.revision /\ ~aj'.app
         ELSE aj' = AdIdle
      /\ UNCHANGED <<ad, dep, rev, objs, cache, queue, budget, lyra.minted>>
  BY <1>1, Confirmed DEF Calm
<1>3. AdIdle.pc = "idle"
  BY DEF AdIdle
<1>4. Following(n)'
  BY <1>1, <1>2, <1>3 DEF Following, Follows
<1>5. Pruning(n)'
  BY <1>1, <1>2, <1>3 DEF Pruning, ShortHistory
<1>6. Pending(n)' = Pending(n)
  BY <1>2 DEF Pending
<1> QED  BY <1>1, <1>2, <1>4, <1>5, <1>6, RevisionsStand

LEMMA TakesMarkOff ==
    ASSUME Calm, NEW n \in RevIds, After(n), UNCHANGED rj, ConsumeMarker
    PROVE  After(n)'
<1>1. /\ Following(n) /\ Pruning(n) /\ dep.image = Spelling(ad.image) /\ aj.pc = "mark"
      /\ ad.cur = n /\ aj.id = n /\ Follows(aj.ad, ad) /\ ad \in AppDeployment
      /\ ad.image \in OptImage /\ aj.ad \in AppDeployment /\ n \in 0 .. MaxRevs
  BY AdsTyped DEF After, ConsumeMarker, Following, Calm, AppDeployment, RevIds
<1>2. /\ ad' = ad \/ (Accepts(aj.ad, ad) /\ ad' = Stored(ad, Unmarked))
      /\ aj' = AdIdle /\ UNCHANGED <<dep, rev, lyra, cache, queue, budget>>
  BY DEF ConsumeMarker, Refused, Calm
<1>3. ad'.cur = n /\ ad'.image \in {ad.image, Spelling(ad.image)}
  <2>1. CASE Accepts(aj.ad, ad) /\ ad' = Stored(ad, Unmarked)
    <3>1. aj.ad = ad
      BY <1>1, <2>1 DEF Accepts, Follows
    <3>2. Unmarked.cur = n /\ Unmarked.image = Spelling(ad.image) /\ Unmarked \in AppDeployment
      BY <1>1, <3>1, SpellingTyped DEF Unmarked, AppDeployment
    <3> QED  BY <1>1, <2>1, <3>2 DEF Stored, AppDeployment
  <2> QED  BY <1>1, <1>2, <2>1
<1>4. ad'.image = dep.image /\ dep.image = Spelling(ad'.image)
  BY <1>1, <1>3, SpellingTyped DEF Following
<1>5. AdIdle.pc = "idle"
  BY DEF AdIdle
<1>6. Following(n)'
  BY <1>1, <1>2, <1>3, <1>4, <1>5 DEF Following
<1>7. Pruning(n)'
  BY <1>1, <1>2, <1>5 DEF Pruning, ShortHistory
<1>8. Pending(n)' = Pending(n)
  BY <1>2 DEF Pending
<1> QED  BY <1>1, <1>2, <1>3, <1>4, <1>6, <1>7, <1>8, RevisionsStand

LEMMA HearOfNewest ==
    ASSUME Calm, NEW n \in RevIds, After(n), UNCHANGED <<aj, rj>>, Deliver
    PROVE  After(n)'
<1>1. /\ Following(n) /\ Pruning(n) /\ dep.image = Spelling(ad.image)
      /\ cache \in Cache /\ queue \in Queue
      /\ UNCHANGED <<ad, dep, rev, lyra, budget>>
  BY DEF After, Deliver, DeliverAppDeployment, DeliverDeployment, DeliverRevision, Calm, Typed,
     TypeOK, ClusterTypeOK
<1>2. \A r \in RevIds : cache'.rev[r] = cache.rev[r] \/ cache'.rev[r] = rev[r]
  BY CopiesFrom DEF Calm
<1>3. Pending(n) => Pending(n)'
  BY <1>1 DEF Deliver, DeliverAppDeployment, DeliverDeployment, DeliverRevision, WatchedRevision,
     Pending, Cache, Queue
<1>4. Following(n)'
  <2>1. CASE DeliverAppDeployment
    <3>1. cache'.ad = ad /\ cache.ad # ad
      BY <1>1, <2>1 DEF DeliverAppDeployment, Cache
    <3> QED  BY <1>1, <3>1 DEF Following
  <2>2. CASE DeliverDeployment \/ \E r \in RevIds : DeliverRevision(r)
    <3>1. cache'.ad = cache.ad /\ queue'.ad = queue.ad
      BY <1>1, <2>2 DEF DeliverDeployment, DeliverRevision, Cache, Queue
    <3> QED  BY <1>1, <3>1 DEF Following
  <2> QED  BY <2>1, <2>2 DEF Deliver
<1>5. Pruning(n)'
  BY <1>1 DEF Pruning, ShortHistory
<1> QED  BY <1>1, <1>2, <1>3, <1>4, <1>5, RevisionsStand

LEMMA ThirdChapter ==
    ASSUME Calm, NEW n \in RevIds, After(n), ~\E i \in Images : EditImage(i)
    PROVE  After(n)'
<1>1. /\ aj.pc \in {"idle", "prune", "apply", "sync", "mark"} /\ CalmNext
  BY DEF After, Following, Calm
<1>3. CASE (ProvideSecret /\ UNCHANGED <<aj, rj>>) \/ UNCHANGED vars
  <2>1. UNCHANGED <<ad, dep, rev, lyra, cache, queue, aj, rj>>
    BY <1>3 DEF ProvideSecret, vars
  <2>2. Following(n)' /\ Pruning(n)' /\ Pending(n)' = Pending(n) /\ dep.image = Spelling(ad.image)
    BY <2>1 DEF After, Following, Pruning, ShortHistory, Pending, Follows
  <2> QED  BY <2>1, <2>2, RevisionsStand
<1>4. AdStep => \/ AdBegin \/ HandleAppDeploymentChanges \/ SyncApp \/ ConsumeMarker \/ Prune
  BY <1>1 DEF AdStep, CreateModule, CreateSubdomain, HandleServiceChanges, ListRevisions,
     RetirePhase, RetireSpec, CreateRevision, DeleteApp, DeleteService
<1>5. CASE AdStep /\ UNCHANGED rj
  BY <1>4, <1>5, NothingToApply, ConfirmsNewest, TakesMarkOff, PrunesAnother
<1>6. CASE RevStep /\ UNCHANGED aj
  BY <1>6, RevisionCarriesOn
<1>7. CASE Deliver /\ UNCHANGED <<aj, rj>>
  BY <1>7, HearOfNewest
<1> QED  BY <1>1, <1>3, <1>5, <1>6, <1>7 DEF CalmNext

-----------------------------------------------------------------------------
(* The theorems.                                                           *)

\* An application that is being edited is, whenever everybody is at rest, as
\* it was before its first edit.
LEMMA RestsAgain ==
    ASSUME Typed, QuietInv, Unfailed, RollInv, Quiescent
    PROVE  Before
<1>1. /\ aj.pc = "idle" /\ rj.pc = "idle" /\ ~queue.ad /\ queue.rev = {}
      /\ cache.ad = ad /\ cache.dep = dep /\ cache.rev = rev /\ ad.live
  BY DEF Quiescent, RollInv, Standing
<1>2. ~During
  BY <1>1 DEF During, NewId
<1>3. CASE \E n \in RevIds : After(n)
  <2>1. PICK n \in RevIds : After(n)
    BY <1>3
  <2>2. \A r \in RevIds : ~Pending(r) /\ ~Working
    BY <1>1 DEF Pending, Working
  <2>3. /\ rev[n].phase = "Active" /\ ad.cur = n /\ InService = {n} /\ rev[n].image = dep.image
        /\ AllUsed(n) /\ ShortHistory /\ dep.image = Spelling(ad.image)
    BY <1>1, <2>1, <2>2 DEF After, Taking, Rolls, Serving, Newest, Pruning
  <2>4. \A r \in LiveIn(rev) : rev[r].gen = rev[r].obs /\ ~rev[r].origin
    BY <2>2 DEF QuietInv, Noticed, Taken, LiveIn
  <2>5. ~ad.marker
    BY <1>1 DEF QuietInv, MarkerNoticed, AdPending, MarkerHeld
  <2>6. Spelling(dep.image) = dep.image
    BY <2>3, AdsTyped, SpellingTyped DEF AppDeployment
  <2>7. lyra.minted = n
    BY <2>3 DEF AllUsed
  <2> QED  BY <1>1, <2>3, <2>4, <2>5, <2>6, <2>7 DEF Before, Still, Level
<1> QED  BY <1>2, <1>3 DEF RollInv

LEMMA RollKept ==
    ASSUME Typed, ImagesKept, LifeInv, QuietInv, Unfailed, RollInv,
           [Next]_vars, Unspent, Patient
    PROVE  RollInv'
<1>1. Calm
  <2>1. Typed' /\ ~Fault /\ CalmNext
    BY NextTyped, CalmStep DEF RollInv, Standing
  <2> QED  BY <2>1 DEF Calm, QuietInv, RollInv
<1>2. CASE \E i \in Images : EditImage(i)
  <2>1. PICK i \in Images : EditImage(i)
    BY <1>2
  <2>2. Quiescent /\ UNCHANGED <<aj, rj>>
    <3>1. budget'.edits # budget.edits
      <4>1. budget \in Budget /\ budget.edits \in Nat
        BY DEF Typed, TypeOK, ClusterTypeOK, Budget
      <4> QED  BY <2>1, <4>1 DEF EditImage, Budget
    <3>2. ~Deliver /\ ~AdStep /\ ~RevStep
      BY <3>1, <1>1, WorkersSpend DEF Calm, Deliver, DeliverAppDeployment, DeliverDeployment,
         DeliverRevision
    <3>3. ~ProvideSecret /\ ~UNCHANGED vars
      BY <3>1 DEF ProvideSecret, vars, Typed, TypeOK, ClusterTypeOK, Budget
    <3> QED  BY <1>1, <3>1, <3>2, <3>3 DEF Calm, CalmNext, Patient
  <2> QED  BY <1>1, <2>1, <2>2, RestsAgain, EditInPeace, HeldStays DEF RollInv
<1> QED  BY <1>1, <1>2, HeldStays, FirstChapter, SecondChapter, ThirdChapter DEF RollInv

\* At peace the story begins, and at rest it is before an edit or at its end.
LEMMA RollBegins ==
    ASSUME Typed, ImagesKept, LifeInv, QuietInv, AtPeace
    PROVE  RollInv
<1>1. /\ aj.pc = "idle" /\ rj.pc = "idle" /\ ~queue.ad /\ queue.rev = {}
      /\ cache.ad = ad /\ cache.dep = dep /\ cache.rev = rev
  BY DEF AtPeace, Quiescent
<1>2. /\ ad.cur \in RevIds /\ rev[ad.cur].image = Spelling(ad.image)
      /\ dep.image = Spelling(ad.image) /\ InService = {ad.cur} /\ dep.live
  BY DEF AtPeace, RolledOut, InService, LiveIn
<1>3. Held
  BY <1>1, DepsTyped DEF Held, Follows, OwnFollows, Working, Rolling
<1>4. Standing
  BY <1>1, <1>2 DEF Standing, AtPeace
<1>5. Level
  BY <1>1, <1>2 DEF Level
<1>6. Spelling(dep.image) = dep.image
  BY <1>2, AdsTyped, SpellingTyped DEF AppDeployment
<1>7. Before
  BY <1>1, <1>2, <1>5, <1>6 DEF Before, Still, AtPeace, RolledOut, AllUsed
<1> QED  BY <1>3, <1>4, <1>7 DEF RollInv

LEMMA RollEnds ==
    ASSUME Typed, QuietInv, Unfailed, RollInv, Quiescent
    PROVE  RolledOut /\ ShortHistory
<1>1. Before /\ dep.live
  BY RestsAgain DEF RollInv, Standing
<1>2. Level
  BY <1>1 DEF Quiescent, Before, Edited, Applied, Asking
<1> QED  BY <1>1, <1>2 DEF Before, Level, RolledOut, AllUsed

\* As long as nothing but patient edits has happened, the story goes on.
LEMMA RollInvariant ==
    Spec => [](AtPeace /\ [][Patient]_vars => [](Undisturbed => RollInv))
<1> DEFINE Inv == Typed /\ ImagesKept /\ LifeInv /\ QuietInv
           Goes == Undisturbed => RollInv
<1>1. Inv /\ AtPeace => Goes
  BY RollBegins
<1>2. Inv /\ BudgetKept /\ Goes /\ [Next]_vars /\ [Patient]_vars => Goes'
  <2>1. UNCHANGED vars => Patient
    BY DEF vars, Patient
  <2> QED  BY <2>1, RollKept, OnlySpent DEF Undisturbed
<1>3. Typed /\ BudgetKept /\ [Next]_vars => BudgetKept'
  BY OnlySpent
<1>4. Init => BudgetKept
  <2>1. Init => budget = FullBudget
    BY DEF Init, ClusterInit
  <2> QED  BY <2>1, BudgetAssumption DEF FullBudget, BudgetKept
<1>5. Inv => Typed
  OBVIOUS
<1>6. Spec => []Inv
  BY QuietInvariant
<1> HIDE DEF Inv, Goes
<1>7. Spec => [](AtPeace /\ [][Patient]_vars => []Goes)
  BY <1>1, <1>2, <1>3, <1>4, <1>5, <1>6, PTL DEF Spec
<1> QED  BY <1>7 DEF Goes

\* From a moment at which an application is rolled out and everybody at rest,
\* and as long as its user edits it only when everybody is at rest again, no
\* call fails, nothing is activated or deleted, the manager goes on and
\* Kubernetes reports nothing: every edit is rolled out whenever everybody is
\* at rest, with no revision id minted in vain.  handleAppDeploymentChanges
\* brings the Deployment to the edited image, handleRevisionChanges retires what
\* was in service and creates one Revision, and
\* revisionHandleAppDeploymentChanges makes that one Active and current; however
\* their steps, the informers' lag and each other's writes interleave.
THEOREM RolloutCompletes ==
    Spec => [](AtPeace /\ [][Patient]_vars => []RolloutComplete)
<1>1. Typed /\ QuietInv /\ (Undisturbed => RollInv) => RolloutComplete
  BY RollEnds DEF RolloutComplete, Undisturbed
<1> QED  BY <1>1, RollInvariant, QuietInvariant, PTL

\* So does the history keep within its limit: the CreateRevision of an edit is
\* followed by the Prune of one that was listed before, in the same reconcile.
THEOREM HistoryKept ==
    Spec => [](AtPeace /\ [][Patient]_vars => [](Undisturbed => HistoryBounded))
<1>1. ASSUME Typed, QuietInv, Undisturbed => RollInv
      PROVE  Undisturbed => HistoryBounded
  <2> SUFFICES ASSUME Undisturbed, Quiescent
               PROVE  Cardinality(LiveIn(rev)) <= HistoryLimit + MaxRestarts - budget.restarts
    BY DEF HistoryBounded
  <2>1. Cardinality(LiveIn(rev)) <= HistoryLimit
    BY <1>1, RollEnds DEF ShortHistory, Undisturbed
  <2>2. budget.restarts = MaxRestarts /\ MaxRestarts \in Nat /\ HistoryLimit \in Nat
    BY BudgetAssumption, RevsAssumption DEF Undisturbed
  <2> QED  BY <2>1, <2>2
<1>2. Typed /\ QuietInv /\ (Undisturbed => RollInv) => (Undisturbed => HistoryBounded)
  BY <1>1
<1> QED  BY <1>2, RollInvariant, QuietInvariant, PTL
=============================================================================
