------------------------- MODULE RevisionController -------------------------
(***************************************************************************)
(* RevisionReconciler.Reconcile and revisionHandleAppDeploymentChanges, as *)
(* the one worker of the Revision controller runs them.                    *)
(***************************************************************************)
EXTENDS Cluster

VARIABLE rj     \* the worker's local state

\* pc   : the step the worker takes next
\* key  : the Revision of the request
\* own  : revision, the Reconcile's copy of it
\* dep, ad, list : found, appDeploy and revisionsList, read from the cache
\* todo : the other Revisions not retired yet; at: the one being retired
\* (a copy is reset when the code does not use it again)
\* retry: whether Reconcile will return an error, or panic
RevSteps == {"idle", "forget", "clear", "read", "phase", "spec", "activate",
             "switch", "sync", "mark", "observe"}

RevWorker == [pc : RevSteps, key : 0 .. MaxRevs, own : Revision, dep : Deployment,
              ad : AppDeployment, list : [RevIds -> Revision], todo : SUBSET RevIds,
              at : 0 .. MaxRevs, retry : BOOLEAN]

RevIdle == [pc |-> "idle", key |-> 0, own |-> NoRevision, dep |-> NoDeployment,
            ad |-> NoAppDeployment, list |-> NoRevisions, todo |-> {}, at |-> 0,
            retry |-> FALSE]

RevInit == rj = RevIdle

\* As AdHeard, for this worker.
RevHeard(done, failed) ==
    \/ rj' = done /\ UNCHANGED budget
    \/ rj' = failed /\ Fault

\* What the worker still needs once the AppDeployment is dealt with.
Observing(j, retry) ==
    [RevIdle EXCEPT !.pc = "observe", !.key = j.key, !.own = j.own, !.retry = retry]

-----------------------------------------------------------------------------

\* Only a Revision marked Active is rolled out.
AfterOrigin(own) == IF own.status = "Active" THEN "read" ELSE "observe"

\* Mutant: a Revision is rolled out once.
FirstGeneration(own) == own.obs = 0

Unobserved(own) == own.gen # own.obs

\* Mutant: a Revision counts as gone as soon as its AppDeployment is.
GoneWithOwner(r) == ~cache.rev[r].live \/ ~cache.ad.live

Gone(r) == ~cache.rev[r].live

\* The worker takes a key, and reads the secret and the Revision.  It is done
\* when the Revision's current generation was observed.
RevBegin(r) ==
    LET own == cache.rev[r]
    IN
    /\ rj.pc = "idle" /\ r \in queue.rev
    /\ queue' = [queue EXCEPT !.rev = @ \ {r}]
    /\ rj' = IF ~objs.secret THEN RevIdle
             ELSE IF Gone(r) THEN [RevIdle EXCEPT !.pc = "forget", !.key = r]
             ELSE IF ~Unobserved(own) THEN RevIdle
             ELSE [RevIdle EXCEPT !.key = r, !.own = own,
                        !.pc = IF own.origin THEN "clear" ELSE AfterOrigin(own)]
    /\ UNCHANGED <<ad, dep, rev, objs, lyra, cache, budget>>

\* The Revision is gone: LyraClient.DeleteRevision.  An empty response is taken
\* for success; an error, or the recovered panic, puts the key back.
ForgetRevision ==
    /\ rj.pc = "forget"
    /\ rj' = RevIdle
    /\ \E call \in Calls :
          /\ Asked(call, [lyra EXCEPT !.forgotten = @ \cup {rj.key}])
          /\ queue' = IF call.how \in {"error", "panic"}
                      THEN [queue EXCEPT !.rev = @ \cup {rj.key}] ELSE queue
    /\ UNCHANGED <<ad, dep, rev, objs, cache>>

Cleared(r) == [cache.rev[r] EXCEPT !.origin = FALSE]

\* Take the origin annotation off, on a copy read again from the cache; a
\* conflict is retried five times, and a retry that fails changes nothing.
ClearOrigin ==
    LET r    == rj.key
        held == Cleared(r)
        new  == PutSpec(rev[r], held)
    IN
    /\ rj.pc = "clear"
    /\ \/ /\ Accepts(held, rev[r])
          /\ rev' = [rev EXCEPT ![r] = new]
          /\ RevHeard([rj EXCEPT !.own = new, !.pc = AfterOrigin(new)],
                      Observing([rj EXCEPT !.own = held], TRUE))
       \/ /\ Refused(held, rev[r])
          /\ rj' = Observing([rj EXCEPT !.own = held], TRUE)
          /\ UNCHANGED rev
    /\ UNCHANGED <<ad, dep, objs, lyra, cache, queue>>

-----------------------------------------------------------------------------
(* revisionHandleAppDeploymentChanges; its caller drops the result.        *)

\* Read the Deployment, the AppDeployment and the other Revisions from the cache.
ReadAppDeployment ==
    LET others == LiveIn(cache.rev) \ {rj.key}
    IN
    /\ rj.pc = "read"
    /\ rj' = IF cache.dep.live /\ cache.ad.live
             THEN [rj EXCEPT !.dep = cache.dep, !.ad = cache.ad,
                             !.list = cache.rev, !.todo = others,
                             !.pc = IF others = {} THEN "activate" ELSE "phase"]
             ELSE Observing(rj, FALSE)
    /\ UNCHANGED clusterVars

\* Mutant: another spelling.
RetiredMisspelt(copy) == [copy EXCEPT !.phase = "Nonactive"]

Retired(copy) == [copy EXCEPT !.phase = "Non-active"]

\* status.phase = Non-active on another Revision; the error is only logged.
OtherPhase(r) ==
    LET held == Retired(rj.list[r])
        new  == PutStatus(rev[r], held)
    IN
    /\ rj.pc = "phase" /\ r \in rj.todo
    /\ \/ /\ Accepts(held, rev[r])
          /\ rev' = [rev EXCEPT ![r] = new]
          /\ RevHeard([rj EXCEPT !.pc = "spec", !.at = r, !.list[r] = new],
                      [rj EXCEPT !.pc = "spec", !.at = r])
       \/ /\ Refused(held, rev[r])
          /\ rj' = [rj EXCEPT !.pc = "spec", !.at = r]
          /\ UNCHANGED rev
    /\ UNCHANGED <<ad, dep, objs, lyra, cache, queue>>

\* spec.status = Non-active, from the same copy.
OtherSpec(r) ==
    LET held == [rj.list[r] EXCEPT !.status = "Non-active"]
        left == rj.todo \ {r}
    IN
    /\ rj.pc = "spec" /\ rj.at = r
    /\ \/ /\ Accepts(held, rev[r])
          /\ rev' = [rev EXCEPT ![r] = PutSpec(@, held)]
          /\ UNCHANGED budget
       \/ Refused(held, rev[r]) /\ UNCHANGED rev
    /\ rj' = [rj EXCEPT !.pc = IF left = {} THEN "activate" ELSE "phase",
                        !.todo = left, !.at = 0, !.list[r] = NoRevision]
    /\ UNCHANGED <<ad, dep, objs, lyra, cache, queue>>

\* Mutant: the retry reads the Revision again.
ActivatedAgain == [cache.rev[rj.key] EXCEPT !.phase = "Active"]

Activated == [rj.own EXCEPT !.phase = "Active"]

\* status.phase = Active.  The retry sends the same copy each time, so a
\* conflict never goes away; and the write goes through a copy of own, whose
\* version therefore grows stale.
ActivatePhase ==
    /\ rj.pc = "activate"
    /\ \/ /\ Accepts(Activated, rev[rj.key])
          /\ rev' = [rev EXCEPT ![rj.key] = PutStatus(@, Activated)]
          /\ RevHeard([rj EXCEPT !.pc = "switch"],
                      [rj EXCEPT !.pc = "mark", !.dep = NoDeployment])
       \/ /\ Refused(Activated, rev[rj.key])
          /\ rj' = [rj EXCEPT !.pc = "mark", !.dep = NoDeployment]
          /\ UNCHANGED rev
    /\ UNCHANGED <<ad, dep, objs, lyra, cache, queue>>

\* Bring the Deployment to the image of the Revision.
SwitchDeployment ==
    LET held == [rj.dep EXCEPT !.image = rj.own.image]
    IN
    /\ rj.pc = "switch"
    /\ \/ /\ Accepts(held, dep)
          /\ dep' = Stored(dep, held)
          /\ RevHeard([rj EXCEPT !.pc = "sync", !.dep = NoDeployment],
                      [rj EXCEPT !.pc = "mark", !.dep = NoDeployment])
       \/ /\ Refused(held, dep)
          /\ rj' = [rj EXCEPT !.pc = "mark", !.dep = NoDeployment]
          /\ UNCHANGED dep
    /\ UNCHANGED <<ad, rev, objs, lyra, cache, queue>>

\* LyraClient.SyncRevision.  Its error is dropped; its panic is not.
SyncRevision ==
    /\ rj.pc = "sync"
    /\ \E call \in Calls :
          /\ Asked(call, [lyra EXCEPT !.active = rj.key])
          /\ rj' = [rj EXCEPT !.pc = "mark", !.retry = (call.how = "panic")]
    /\ UNCHANGED <<ad, dep, rev, objs, cache, queue>>

\* Mutant: the update carries no version.
MarkedBlindly ==
    [rj.ad EXCEPT !.marker = TRUE, !.cur = rj.key, !.image = Spelling(@), !.rv = ad.rv]

Marked == [rj.ad EXCEPT !.marker = TRUE, !.cur = rj.key, !.image = Spelling(@)]

\* The deferred update of the AppDeployment, on every way out: set the marker
\* and the current revision.  The annotations of an object the user gave none
\* are a nil map, and the assignment panics.  An error is only printed.
MarkAppDeployment ==
    /\ rj.pc = "mark"
    /\ \/ /\ Annotated /\ Accepts(Marked, ad)
          /\ ad' = Stored(ad, Marked)
          /\ rj' = Observing(rj, rj.retry)
          /\ UNCHANGED budget
       \/ /\ Annotated /\ Refused(Marked, ad)
          /\ rj' = Observing(rj, rj.retry)
          /\ UNCHANGED ad
       \/ /\ ~Annotated
          /\ rj' = Observing(rj, TRUE)
          /\ UNCHANGED <<ad, budget>>
    /\ UNCHANGED <<dep, rev, objs, lyra, cache, queue>>

\* Mutant: the status is patched, whatever its version.
ObservedByPatch == [rev[rj.key] EXCEPT !.obs = rj.own.gen]

ObservedOwn == [rj.own EXCEPT !.obs = rj.own.gen]

\* The deferred status update of Reconcile: the generation it read was
\* observed.  An error is only printed.  An error of Reconcile, or a panic,
\* which the controller recovers from, puts the key back.
ObserveGeneration ==
    /\ rj.pc = "observe"
    /\ \/ /\ Accepts(ObservedOwn, rev[rj.key])
          /\ rev' = [rev EXCEPT ![rj.key] = PutStatus(@, ObservedOwn)]
          /\ UNCHANGED budget
       \/ Refused(ObservedOwn, rev[rj.key]) /\ UNCHANGED rev
    /\ queue' = IF rj.retry THEN [queue EXCEPT !.rev = @ \cup {rj.key}] ELSE queue
    /\ rj' = RevIdle
    /\ UNCHANGED <<ad, dep, objs, lyra, cache>>

RevStep ==
    \/ \E r \in RevIds : RevBegin(r) \/ OtherPhase(r) \/ OtherSpec(r)
    \/ ForgetRevision
    \/ ClearOrigin
    \/ ReadAppDeployment
    \/ ActivatePhase
    \/ SwitchDeployment
    \/ SyncRevision
    \/ MarkAppDeployment
    \/ ObserveGeneration

=============================================================================
