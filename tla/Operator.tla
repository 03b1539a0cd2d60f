------------------------------ MODULE Operator ------------------------------
(***************************************************************************)
(* The operator in its cluster: the AppDeployment controller and the       *)
(* Revision controller of one manager, their informers and queues, the     *)
(* user and Kubernetes, all interleaved; and what must hold of them.       *)
(***************************************************************************)
EXTENDS AppDeploymentController, RevisionController

vars == <<ad, dep, rev, objs, lyra, cache, queue, budget, aj, rj>>

\* The manager restarts (crash, eviction, lost leader election): the workers
\* forget what they were doing, the informers list the store again and queue
\* what exists.  What was deleted meanwhile is never heard of.
Restart ==
    /\ budget.restarts > 0
    /\ budget' = [budget EXCEPT !.restarts = @ - 1]
    /\ aj' = AdIdle /\ rj' = RevIdle
    /\ cache' = [ad |-> ad, dep |-> dep, rev |-> rev]
    /\ queue' = [ad |-> ad.live, rev |-> LiveIn(rev)]
    /\ UNCHANGED <<ad, dep, rev, objs, lyra>>

\* The informers' periodic resync queues every cached object again.
Resync ==
    /\ budget.restarts > 0
    /\ budget' = [budget EXCEPT !.restarts = @ - 1]
    /\ queue' = [ad |-> queue.ad \/ cache.ad.live,
                 rev |-> queue.rev \cup LiveIn(cache.rev)]
    /\ UNCHANGED <<ad, dep, rev, objs, lyra, cache, aj, rj>>

Init == ClusterInit /\ AdInit /\ RevInit

\* What happens while the manager runs.
Step ==
    \/ User /\ UNCHANGED <<aj, rj>>
    \/ ReportStatus /\ UNCHANGED <<aj, rj>>
    \/ Collect /\ UNCHANGED <<aj, rj>>
    \/ Deliver /\ UNCHANGED <<aj, rj>>
    \/ AdStep /\ UNCHANGED rj
    \/ RevStep /\ UNCHANGED aj
    \/ Resync

Next == Step \/ Restart

\* The manager runs both workers and the informers' watches, and Kubernetes
\* its garbage collector, as long as there is something to do; nothing is
\* assumed of the user, of failures or of restarts.
Fairness ==
    /\ WF_vars(AdStep /\ UNCHANGED rj)
    /\ WF_vars(RevStep /\ UNCHANGED aj)
    /\ WF_vars(Deliver /\ UNCHANGED <<aj, rj>>)
    /\ WF_vars(Collect /\ UNCHANGED <<aj, rj>>)

Spec == Init /\ [][Next]_vars
FairSpec == Spec /\ Fairness

-----------------------------------------------------------------------------
(* What is claimed.                                                        *)

TypeOK == ClusterTypeOK /\ aj \in AdWorker /\ rj \in RevWorker

\* No call has failed so far.
Unfailed == budget.faults = MaxFaults

\* Nothing is left to do for anybody but the user: the workers are idle, the
\* queues empty and the caches up to date.
Quiescent ==
    /\ aj.pc = "idle" /\ rj.pc = "idle"
    /\ ~queue.ad /\ queue.rev = {}
    /\ cache = [ad |-> ad, dep |-> dep, rev |-> rev]

\* The image of the AppDeployment changes by the user's hand only: both
\* controllers write the AppDeployment back from copies they read earlier,
\* image included, and none of these writes may bring an older image back.
\* All they may change is its spelling.
UserEditKept ==
    Spelling(ad'.image) # Spelling(ad.image) => budget'.edits < budget.edits
NoUserEditLost == [][UserEditKept]_vars

\* Where no call fails, a Revision reported Active is one whose spec says
\* Active.  Both controllers retire a Revision in two writes, status before
\* spec, while the other may be activating it.
PhaseFollowsSpec ==
    Unfailed => \A r \in LiveIn(rev) : rev[r].phase = "Active" => rev[r].status = "Active"

\* The life of every Revision is the one RevisionLifecycle promises: stale
\* copies that the controllers write back, deletions, restarts and retries of
\* failed calls never revive one, and Lyra never forgets one that exists.
Stage ==
    [r \in RevIds |->
        CASE r \in lyra.forgotten /\ rev[r].live  -> "revived"
          [] r \in lyra.forgotten /\ ~rev[r].live -> "forgotten"
          [] r \notin lyra.forgotten /\ ~rev[r].live ->
                IF rev[r].rv = 0 THEN "unborn" ELSE "gone"
          [] r \notin lyra.forgotten /\ rev[r].live ->
                CASE rev[r].status = "Active"     -> "serving"
                  [] rev[r].status = "Non-active" -> "retired"
                  [] rev[r].status = ""           -> "bare"]

Lifecycle == INSTANCE RevisionLifecycle WITH stage <- Stage, switches <- budget.switches
LifecycleSpec == Lifecycle!Spec

\* Where no call fails, no change of a Revision's spec is left unobserved: the
\* controller's own writes make its final status update conflict, and the
\* event of the conflicting write must bring it back.
GenerationsObserved ==
    Unfailed /\ Quiescent => \A r \in LiveIn(rev) : rev[r].gen = rev[r].obs

\* Where no call fails, every Revision the AppDeployment controller created
\* was taken over by the Revision controller, which clears its origin.
OriginsCleared == Unfailed /\ Quiescent => \A r \in LiveIn(rev) : ~rev[r].origin

\* Where no call fails, the marker by which the Revision controller tells the
\* AppDeployment controller about its change never stays behind: it would
\* keep the next edit from getting its Revision.
MarkerConsumed == Unfailed /\ Quiescent /\ ad.live => ~ad.marker

\* Nothing but edits has happened: no failed call, no activation or deletion by
\* the user, no restart or resync, no status write of Kubernetes.
Undisturbed ==
    /\ Unfailed
    /\ budget.switches = MaxSwitches /\ budget.deletes = MaxDeletes
    /\ budget.restarts = MaxRestarts /\ budget.status = MaxStatus

\* The Revisions whose spec puts them in service.
InService == {r \in LiveIn(rev) : rev[r].status = "Active"}

\* The Deployment is at the user's image and exactly one Revision in service,
\* which is the current one, has that image and is reported Active; and no
\* revision id was minted in vain.
RolledOut ==
    /\ dep.live /\ dep.image = Spelling(ad.image)
    /\ InService = {ad.cur}
    /\ rev[ad.cur].image = Spelling(ad.image) /\ rev[ad.cur].phase = "Active"
    /\ \A r \in 1 .. lyra.minted : rev[r].rv > 0

\* An edit of a settled application is rolled out once everybody is at rest,
\* and an application that is not edited stays as it was.
RolloutComplete == Quiescent /\ Undisturbed => RolledOut

\* The history keeps within its limit: a new Revision costs the oldest one,
\* except when a restart comes between the two.  (A resync spends the same budget
\* and is granted the same.)
HistoryBounded ==
    Quiescent =>
        Cardinality(LiveIn(rev)) <= HistoryLimit + MaxRestarts - budget.restarts

\* A deleted AppDeployment takes everything with it, unless the operator is
\* restarted meanwhile; and Lyra forgets all of it when no call failed.
TornDown ==
    /\ ~dep.live /\ LiveIn(rev) = {}
    /\ objs = [objs EXCEPT !.module = FALSE, !.subdomain = FALSE, !.service = FALSE]
    /\ Unfailed =>
          ~lyra.app /\ lyra.forgotten = {r \in RevIds : rev[r].rv > 0}
TeardownCompletes == []<>(ad.live \/ TornDown)

-----------------------------------------------------------------------------
(* What the comments of the code say, and the code does not do.            *)

\* "move the current state of the cluster closer to the desired state": at
\* rest, the Deployment runs the image the AppDeployment asks for.
DeploymentFollows == Quiescent /\ ad.live => dep.image = Spelling(ad.image)

\* "this assume we switch up the active revision": after the user put a
\* Revision in service, the Deployment is at rest with its image.
RollbackSticks ==
    Quiescent /\ budget.switches < MaxSwitches =>
        \E r \in LiveIn(rev) : rev[r].status = "Active" /\ dep.image = rev[r].image

\* "set another revision to be inactive": at rest, at most one Revision is
\* in service.
OneInService == Quiescent => Cardinality(InService) <= 1

\* "Update the existing Deployment if necessary", and only then "trigger new
\* revision creation": a new Revision is not a copy of the last one.
RevisionsDiffer ==
    \A r \in RevIds \ {1} :
        rev[r].rv > 0 /\ rev[r - 1].rv > 0 => rev[r].image # rev[r - 1].image

\* "Create the instance if it does not exist": at rest, an application that
\* runs has its AppModule and its Subdomain.
ModuleMade == Quiescent /\ ad.live /\ dep.live => objs.module /\ objs.subdomain

=============================================================================
