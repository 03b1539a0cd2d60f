----------------------- MODULE AppDeploymentController -----------------------
(***************************************************************************)
(* AppDeploymentReconciler.Reconcile and the handlers it calls, as the one *)
(* worker of its controller runs them.  Every call that reaches the API    *)
(* server or Lyra is a step of its own, so that everything else in the     *)
(* cluster happens between them; the reads from the informer cache that    *)
(* directly precede a write are part of its step.                          *)
(***************************************************************************)
EXTENDS Cluster

VARIABLE aj     \* the worker's local state

\* pc   : the step the worker takes next
\* ad   : appDeploy, the copy read at the start of the reconcile
\* app, revision : isCreateNewAppModule, isCreateNewRevision
\* id   : syncAppResponse.ModuleRevision.ID
\* listed : the ids in revisionsList, listed from the cache
\* list : the copies of those that are not retired yet
\* todo : the ids of the copies in list; at: the one being retired
AdSteps == {"idle", "apply", "sync", "module", "subdomain", "service", "mark",
            "list", "phase", "spec", "create", "prune", "deleteApp", "deleteService"}

AdWorker == [pc : AdSteps, ad : AppDeployment, app : BOOLEAN, revision : BOOLEAN,
             id : 0 .. MaxRevs, listed : SUBSET RevIds, list : [RevIds -> Revision],
             todo : SUBSET RevIds, at : 0 .. MaxRevs]

AdIdle == [pc |-> "idle", ad |-> NoAppDeployment, app |-> FALSE, revision |-> FALSE,
           id |-> NoRev, listed |-> {}, list |-> NoRevisions, todo |-> {}, at |-> 0]

AdInit == aj = AdIdle

\* Mutant: the error is only logged.
AdFailSilently == aj' = AdIdle /\ UNCHANGED queue

\* Reconcile returned an error: the key goes back to the queue.
AdFail == aj' = AdIdle /\ queue' = [queue EXCEPT !.ad = TRUE]

\* A write took effect: the worker goes on with done or, when the answer is
\* lost and it takes the write for failed, with failed.
AdHeard(done, failed) ==
    \/ aj' = done /\ UNCHANGED budget
    \/ aj' = failed /\ Fault

\* What is left to do once the module, subdomain and service are dealt with:
\* handleRevisionChanges was deferred only for a non-empty revision id.
AfterObjects(j) ==
    IF j.id = NoRev \/ (j.ad.cur = j.id /\ ~j.ad.marker) THEN AdIdle
    ELSE [AdIdle EXCEPT !.ad = j.ad, !.id = j.id,
                        !.pc = IF j.ad.marker THEN "mark" ELSE "list"]

AfterModule(j) ==
    IF j.revision THEN [j EXCEPT !.pc = "service"] ELSE AfterObjects(j)

-----------------------------------------------------------------------------

\* The worker takes the key, and reads the secret and the AppDeployment; or a
\* read fails, or LyraClient's constructor panics.
AdBegin ==
    /\ aj.pc = "idle" /\ queue.ad
    /\ \/ /\ queue' = [queue EXCEPT !.ad = FALSE]
          /\ aj' = IF ~objs.secret THEN AdIdle
                   ELSE IF cache.ad.live
                        THEN [AdIdle EXCEPT !.pc = "apply", !.ad = cache.ad]
                        ELSE [AdIdle EXCEPT !.pc = "deleteApp"]
          /\ UNCHANGED budget
       \/ Fault /\ AdFail
    /\ UNCHANGED <<ad, dep, rev, objs, lyra, cache>>

\* Mutants: the current id is kept; it is emptied by every reconcile.
ChangedKeepingId == [aj EXCEPT !.pc = "sync", !.revision = TRUE, !.app = ~cache.dep.live]
SameAsNew        == [aj EXCEPT !.pc = "sync", !.ad.cur = NoRev]

\* The Deployment was created or changed: the local revision id is emptied, to
\* ask Lyra for a new one.  Or it was not, or could not be.
Changed == [aj EXCEPT !.pc = "sync", !.revision = TRUE, !.ad.cur = NoRev,
                      !.app = ~cache.dep.live]
Same    == [aj EXCEPT !.pc = "sync"]

\* handleAppDeploymentChanges: create the Deployment, or bring the cached
\* one to the desired state.  The caller drops its error.
HandleAppDeploymentChanges ==
    LET desired == [dep EXCEPT !.image = Spelling(aj.ad.image)]
    IN
    /\ aj.pc = "apply"
    /\ \/ /\ ~cache.dep.live /\ ~dep.live
          /\ dep' = Stored(dep, [desired EXCEPT !.live = TRUE])
          /\ AdHeard(Changed, Same)
       \/ /\ ~cache.dep.live
          /\ (dep.live /\ UNCHANGED budget) \/ Fault
          /\ aj' = Same
          /\ UNCHANGED dep
       \/ /\ cache.dep.live /\ cache.dep.image = aj.ad.image
          /\ aj' = Same
          /\ UNCHANGED <<dep, budget>>
       \/ /\ cache.dep.live /\ cache.dep.image # aj.ad.image
          /\ Accepts(cache.dep, dep)
          /\ dep' = Stored(dep, desired)
          /\ AdHeard(Changed, Same)
       \/ /\ cache.dep.live /\ cache.dep.image # aj.ad.image
          /\ Refused(cache.dep, dep)
          /\ aj' = Same
          /\ UNCHANGED dep
    /\ UNCHANGED <<ad, rev, objs, lyra, cache, queue>>

\* The Lyra service: an empty ActiveRevisionId asks for a new revision, any
\* other is confirmed.
Reply(cur)  == IF cur # NoRev THEN cur ELSE lyra.minted + 1
Synced(cur) ==
    [lyra EXCEPT !.app = TRUE, !.minted = IF Reply(cur) > @ THEN Reply(cur) ELSE @]

\* LyraClient.SyncApp: an empty response names no revision.
SyncApp ==
    LET answered(id) ==
            LET j == [aj EXCEPT !.id = id]
            IN  IF j.app THEN [j EXCEPT !.pc = "module"] ELSE AfterModule(j)
    IN
    /\ aj.pc = "sync"
    /\ Reply(aj.ad.cur) \in RevIds      \* the bound MaxRevs
    /\ \E call \in Calls :
          /\ Asked(call, Synced(aj.ad.cur))
          /\ \/ /\ call.how = "answered"
                /\ aj' = answered(Reply(aj.ad.cur))
                /\ UNCHANGED queue
             \/ /\ call.how = "empty"
                /\ aj' = answered(NoRev)
                /\ UNCHANGED queue
             \/ call.how \in {"error", "panic"} /\ AdFail
    /\ UNCHANGED <<ad, dep, rev, objs, cache>>

\* Create the AppModule: AlreadyExists is an error like any other.
CreateModule ==
    /\ aj.pc = "module"
    /\ \/ /\ ~objs.module
          /\ objs' = [objs EXCEPT !.module = TRUE]
          /\ \/ aj' = [aj EXCEPT !.pc = "subdomain"] /\ UNCHANGED <<queue, budget>>
             \/ Fault /\ AdFail
       \/ /\ (objs.module /\ UNCHANGED budget) \/ Fault
          /\ AdFail
          /\ UNCHANGED objs
    /\ UNCHANGED <<ad, dep, rev, lyra, cache>>

\* Create the Subdomain under the name Lyra gave it: an empty response names
\* nothing, and the API server rejects an object without a name.
CreateSubdomain ==
    /\ aj.pc = "subdomain"
    /\ \/ /\ ~objs.subdomain /\ aj.id # NoRev
          /\ objs' = [objs EXCEPT !.subdomain = TRUE]
          /\ \/ aj' = AfterModule(aj) /\ UNCHANGED <<queue, budget>>
             \/ Fault /\ AdFail
       \/ /\ ((objs.subdomain \/ aj.id = NoRev) /\ UNCHANGED budget) \/ Fault
          /\ AdFail
          /\ UNCHANGED objs
    /\ UNCHANGED <<ad, dep, rev, lyra, cache>>

\* handleServiceChanges: a live read, then an update or a creation without a
\* version; its error is dropped.
HandleServiceChanges ==
    /\ aj.pc = "service"
    /\ \/ objs' = [objs EXCEPT !.service = TRUE] /\ UNCHANGED budget
       \/ Fault /\ UNCHANGED objs
    /\ aj' = AfterObjects(aj)
    /\ UNCHANGED <<ad, dep, rev, lyra, cache, queue>>

-----------------------------------------------------------------------------
(* handleRevisionChanges                                                   *)

\* Mutant: the annotation is not emptied.
UnmarkedInVain == [aj.ad EXCEPT !.cur = aj.id, !.image = Spelling(@)]

Unmarked == [aj.ad EXCEPT !.cur = aj.id, !.marker = FALSE, !.image = Spelling(@)]

\* The Revision controller has set the marker: take it off and store the id
\* Lyra answered.  The error is only logged, and no revision is created.
ConsumeMarker ==
    /\ aj.pc = "mark"
    /\ \/ /\ Accepts(aj.ad, ad)
          /\ ad' = Stored(ad, Unmarked)
          /\ UNCHANGED budget
       \/ Refused(aj.ad, ad) /\ UNCHANGED ad
    /\ aj' = AdIdle
    /\ UNCHANGED <<dep, rev, objs, lyra, cache, queue>>

\* List the Revisions of the AppDeployment from the cache.
ListRevisions ==
    /\ aj.pc = "list"
    /\ aj' = [aj EXCEPT !.listed = LiveIn(cache.rev), !.list = cache.rev,
                        !.todo = LiveIn(cache.rev),
                        !.pc = IF LiveIn(cache.rev) = {} THEN "create" ELSE "phase"]
    /\ UNCHANGED clusterVars

\* status.phase = Non-active; the error is only logged.  An accepted write
\* refreshes the copy in the list.
RetirePhase(r) ==
    LET held == [aj.list[r] EXCEPT !.phase = "Non-active"]
        new  == PutStatus(rev[r], held)
    IN
    /\ aj.pc = "phase" /\ r \in aj.todo
    /\ \/ /\ Accepts(held, rev[r])
          /\ rev' = [rev EXCEPT ![r] = new]
          /\ AdHeard([aj EXCEPT !.pc = "spec", !.at = r, !.list[r] = new],
                     [aj EXCEPT !.pc = "spec", !.at = r])
       \/ /\ Refused(held, rev[r])
          /\ aj' = [aj EXCEPT !.pc = "spec", !.at = r]
          /\ UNCHANGED rev
    /\ UNCHANGED <<ad, dep, objs, lyra, cache, queue>>

\* spec.status = Non-active, from the same copy.
RetireSpec(r) ==
    LET held == [aj.list[r] EXCEPT !.status = "Non-active"]
        left == aj.todo \ {r}
    IN
    /\ aj.pc = "spec" /\ aj.at = r
    /\ \/ /\ Accepts(held, rev[r])
          /\ rev' = [rev EXCEPT ![r] = PutSpec(@, held)]
          /\ UNCHANGED budget
       \/ Refused(held, rev[r]) /\ UNCHANGED rev
    /\ aj' = [aj EXCEPT !.pc = IF left = {} THEN "create" ELSE "phase",
                        !.todo = left, !.at = 0, !.list[r] = NoRevision]
    /\ UNCHANGED <<ad, dep, objs, lyra, cache, queue>>

\* Mutant: off by one.
TooManyAfter == Cardinality(aj.listed) > HistoryLimit

TooMany == Cardinality(aj.listed) >= HistoryLimit

\* The Revision that records what runs now.  An error ends the handler, and
\* Reconcile never sees it.
CreateRevision ==
    LET r   == aj.id
        new == [rev[r] EXCEPT !.live = TRUE, !.image = Spelling(aj.ad.image),
                              !.status = "Active",
                              !.phase = "", !.gen = 1, !.obs = 0, !.origin = TRUE]
    IN
    /\ aj.pc = "create"
    /\ \/ /\ ~rev[r].live
          /\ rev' = [rev EXCEPT ![r] = Stored(@, new)]
          /\ AdHeard(IF TooMany THEN [aj EXCEPT !.pc = "prune"] ELSE AdIdle, AdIdle)
       \/ /\ (rev[r].live /\ UNCHANGED budget) \/ Fault
          /\ aj' = AdIdle
          /\ UNCHANGED rev
    /\ UNCHANGED <<ad, dep, objs, lyra, cache, queue>>

\* Delete the oldest Revision of the list; ids are minted in order of creation.
\* Delete carries no version, and its error is only logged.
Prune ==
    LET oldest == CHOOSE r \in aj.listed : \A s \in aj.listed : r <= s
    IN
    /\ aj.pc = "prune"
    /\ \/ /\ rev[oldest].live
          /\ rev' = [rev EXCEPT ![oldest] = Deleted(@)]
          /\ UNCHANGED budget
       \/ /\ (~rev[oldest].live /\ UNCHANGED budget) \/ Fault
          /\ UNCHANGED rev
    /\ aj' = AdIdle
    /\ UNCHANGED <<ad, dep, objs, lyra, cache, queue>>

-----------------------------------------------------------------------------
(* The AppDeployment is gone from the cache.                               *)

\* LyraClient.DeleteApp; an empty response is taken for success.
DeleteApp ==
    /\ aj.pc = "deleteApp"
    /\ \E call \in Calls :
          /\ Asked(call, [lyra EXCEPT !.app = FALSE])
          /\ \/ /\ call.how \in {"answered", "empty"}
                /\ aj' = [aj EXCEPT !.pc = "deleteService"]
                /\ UNCHANGED queue
             \/ call.how \in {"error", "panic"} /\ AdFail
    /\ UNCHANGED <<ad, dep, rev, objs, cache>>

\* NotFound is an error like any other: the key is retried.
DeleteService ==
    /\ aj.pc = "deleteService"
    /\ \/ /\ objs.service
          /\ objs' = [objs EXCEPT !.service = FALSE]
          /\ \/ aj' = AdIdle /\ UNCHANGED <<queue, budget>>
             \/ Fault /\ AdFail
       \/ /\ (~objs.service /\ UNCHANGED budget) \/ Fault
          /\ AdFail
          /\ UNCHANGED objs
    /\ UNCHANGED <<ad, dep, rev, lyra, cache>>

AdStep ==
    \/ AdBegin
    \/ HandleAppDeploymentChanges
    \/ SyncApp
    \/ CreateModule
    \/ CreateSubdomain
    \/ HandleServiceChanges
    \/ ConsumeMarker
    \/ ListRevisions
    \/ \E r \in RevIds : RetirePhase(r) \/ RetireSpec(r)
    \/ CreateRevision
    \/ Prune
    \/ DeleteApp
    \/ DeleteService

=============================================================================
