------------------------------ MODULE Cluster ------------------------------
(***************************************************************************)
(* What the controllers share and everything that happens to it without    *)
(* them: the objects of one AppDeployment in the API server, the           *)
(* manager's informer caches and work queues, the Lyra service, the user,  *)
(* the garbage collector and the kubelet side of the Deployment.           *)
(*                                                                         *)
(* One AppDeployment, its Deployment, its Service and its Revisions are    *)
(* modelled.  A Revision is named by the number of the id Lyra minted for  *)
(* it: Lyra mints 1, 2, 3 ... and 0 stands for the empty revision id "".   *)
(***************************************************************************)
EXTENDS Kube, Lyra, FiniteSets

CONSTANTS
    Images,         \* values of (spec.image, replicas, cpu and memory), as spelt
    NoImage,        \* the image of an object that does not exist
    Canonical,      \* the spelling in which the operator writes an image back
    MaxRevs,        \* bound: revision ids Lyra mints
    HistoryLimit,   \* revisions listed from which the oldest is deleted: 3
    Annotated,      \* whether the user's AppDeployment carries annotations
    MaxEdits,       \* bound: user edits of the AppDeployment's image
    MaxSwitches,    \* bound: user activations of a retired Revision
    MaxDeletes,     \* bound: user deletions of the AppDeployment
    MaxFaults,      \* bound: failed API or HTTP calls
    MaxRestarts,    \* bound: operator restarts and informer resyncs
    MaxStatus,      \* bound: status writes of Kubernetes' own Deployment controller
    SecretLate      \* 1 when the account secret is created after the AppDeployment

ASSUME ImagesAssumption == NoImage \notin Images /\ Images # {}
ASSUME CanonicalAssumption ==
    /\ Canonical \in [Images -> Images]
    /\ \A i \in Images : Canonical[Canonical[i]] = Canonical[i]
ASSUME RevsAssumption == MaxRevs \in Nat \ {0} /\ HistoryLimit \in Nat \ {0}
ASSUME AnnotatedAssumption == Annotated \in BOOLEAN
ASSUME BudgetAssumption ==
    /\ MaxEdits \in Nat /\ MaxSwitches \in Nat /\ MaxDeletes \in Nat
    /\ MaxFaults \in Nat /\ MaxRestarts \in Nat /\ MaxStatus \in Nat
    /\ SecretLate \in {0, 1}

RevIds == 1 .. MaxRevs
NoRev  == 0                     \* the empty revision id

VARIABLES
    ad,      \* the AppDeployment
    dep,     \* the Deployment of the same name
    rev,     \* the Revisions, by id
    objs,    \* which of the module, subdomain, service and secret exist
    lyra,    \* what the Lyra service remembers of the app
    cache,   \* the informers' copies of ad, dep and rev
    queue,   \* work queues: the AppDeployment's key, and the Revisions' keys
    budget   \* what the environment may still do

clusterVars == <<ad, dep, rev, objs, lyra, cache, queue, budget>>

-----------------------------------------------------------------------------
(* The objects.                                                            *)

OptImage == Images \cup {NoImage}

\* The user may spell a quantity as he likes ("0.5"); an object the operator
\* writes carries the canonical spelling ("500m"), which is another value to
\* the code, as it compares quantities field by field.
Spelling(i) == IF i \in Images THEN Canonical[i] ELSE i

Status   == {"Active", "Non-active", ""}

\* AppDeployment: cur is spec.currentRevisionId; marker stands for the
\* annotation changes = "revision-reconciler".
AppDeployment ==
    [live : BOOLEAN, image : OptImage, cur : 0 .. MaxRevs, marker : BOOLEAN, rv : Nat]

Deployment == [live : BOOLEAN, image : OptImage, rv : Nat]

\* Revision: status is spec.status, phase is status.phase, gen and obs are
\* metadata.generation and status.observedGeneration; origin stands for the
\* annotation origin = "app-deployment".
Revision ==
    [live : BOOLEAN, image : OptImage, status : Status, phase : Status,
     gen : Nat, obs : Nat, origin : BOOLEAN, rv : Nat]

Objects == [module : BOOLEAN, subdomain : BOOLEAN, service : BOOLEAN, secret : BOOLEAN]

\* Lyra: how many revision ids it minted, the revision it was last told is
\* active, whether it holds the app, and the revisions it was told to delete.
LyraState == [minted : 0 .. MaxRevs, active : 0 .. MaxRevs, app : BOOLEAN,
              forgotten : SUBSET RevIds]

Cache  == [ad : AppDeployment, dep : Deployment, rev : [RevIds -> Revision]]
Queue  == [ad : BOOLEAN, rev : SUBSET RevIds]
Budget == [edits : Nat, switches : Nat, deletes : Nat, faults : Nat,
           restarts : Nat, status : Nat, secret : Nat]

FullBudget ==
    [edits |-> MaxEdits, switches |-> MaxSwitches, deletes |-> MaxDeletes,
     faults |-> MaxFaults, restarts |-> MaxRestarts, status |-> MaxStatus,
     secret |-> SecretLate]

NoDeployment == [live |-> FALSE, image |-> NoImage, rv |-> 0]
NoRevision ==
    [live |-> FALSE, image |-> NoImage, status |-> "", phase |-> "",
     gen |-> 0, obs |-> 0, origin |-> FALSE, rv |-> 0]
NoRevisions == [r \in RevIds |-> NoRevision]
NoAppDeployment ==
    [live |-> FALSE, image |-> NoImage, cur |-> NoRev, marker |-> FALSE, rv |-> 0]

LiveIn(revs) == {r \in RevIds : revs[r].live}

ClusterTypeOK ==
    /\ ad \in AppDeployment
    /\ dep \in Deployment
    /\ rev \in [RevIds -> Revision]
    /\ objs \in Objects
    /\ lyra \in LyraState
    /\ cache \in Cache
    /\ queue \in Queue
    /\ budget \in Budget

\* The user has just applied an AppDeployment; the operator is running and
\* has seen nothing of it.
ClusterInit ==
    /\ ad \in {[live |-> TRUE, image |-> i, cur |-> NoRev, marker |-> FALSE, rv |-> 1] :
                    i \in Images}
    /\ dep = NoDeployment
    /\ rev = NoRevisions
    /\ objs = [module |-> FALSE, subdomain |-> FALSE, service |-> FALSE,
               secret |-> (SecretLate = 0)]
    /\ lyra = [minted |-> 0, active |-> NoRev, app |-> FALSE, forgotten |-> {}]
    /\ cache = [ad |-> NoAppDeployment, dep |-> NoDeployment, rev |-> NoRevisions]
    /\ queue = [ad |-> FALSE, rev |-> {}]
    /\ budget = FullBudget

-----------------------------------------------------------------------------
(* Calls that fail.                                                        *)

\* An API or HTTP call fails for a reason of its own (timeout, refused
\* connection, 5xx).
Fault == /\ budget.faults > 0
         /\ budget' = [budget EXCEPT !.faults = @ - 1]

\* The API server refuses a write from held, or the call fails.
Refused(held, stored) ==
    \/ ~Accepts(held, stored) /\ UNCHANGED budget
    \/ Fault

\* A call of LyraClient ends as one of Calls: Lyra has done what it was asked,
\* with the result done, or not.
Asked(call, done) ==
    /\ lyra' = IF call.took THEN done ELSE lyra
    /\ IF call.how = "answered" THEN UNCHANGED budget ELSE Fault

-----------------------------------------------------------------------------
(* The user.                                                               *)

EditImage(i) ==
    /\ ad.live /\ i # ad.image
    /\ budget.edits > 0
    /\ budget' = [budget EXCEPT !.edits = @ - 1]
    /\ ad' = Stored(ad, [ad EXCEPT !.image = i])
    /\ UNCHANGED <<dep, rev, objs, lyra, cache, queue>>

\* Rolling back: the user sets spec.status of a retired Revision to Active.
Activate(r) ==
    /\ rev[r].live /\ rev[r].status # "Active"
    /\ budget.switches > 0
    /\ budget' = [budget EXCEPT !.switches = @ - 1]
    /\ rev' = [rev EXCEPT ![r] = PutSpec(@, [@ EXCEPT !.status = "Active"])]
    /\ UNCHANGED <<ad, dep, objs, lyra, cache, queue>>

DeleteAppDeployment ==
    /\ ad.live
    /\ budget.deletes > 0
    /\ budget' = [budget EXCEPT !.deletes = @ - 1]
    /\ ad' = Deleted(ad)
    /\ UNCHANGED <<dep, rev, objs, lyra, cache, queue>>

ProvideSecret ==
    /\ budget.secret > 0
    /\ budget' = [budget EXCEPT !.secret = @ - 1]
    /\ objs' = [objs EXCEPT !.secret = TRUE]
    /\ UNCHANGED <<ad, dep, rev, lyra, cache, queue>>

-----------------------------------------------------------------------------
(* Kubernetes itself.                                                      *)

\* The Deployment controller of Kubernetes reports progress in the
\* Deployment's status: a new version with the same spec.
ReportStatus ==
    /\ dep.live
    /\ budget.status > 0
    /\ budget' = [budget EXCEPT !.status = @ - 1]
    /\ dep' = [dep EXCEPT !.rv = @ + 1]
    /\ UNCHANGED <<ad, rev, objs, lyra, cache, queue>>

\* Objects that name the deleted AppDeployment as their controller are
\* collected; the Service names no owner.
CollectDeployment ==
    /\ ~ad.live /\ dep.live
    /\ dep' = Deleted(dep)
    /\ UNCHANGED <<ad, rev, objs, lyra, cache, queue, budget>>

CollectRevision(r) ==
    /\ ~ad.live /\ rev[r].live
    /\ rev' = [rev EXCEPT ![r] = Deleted(@)]
    /\ UNCHANGED <<ad, dep, objs, lyra, cache, queue, budget>>

CollectModule ==
    /\ ~ad.live /\ (objs.module \/ objs.subdomain)
    /\ objs' = [objs EXCEPT !.module = FALSE, !.subdomain = FALSE]
    /\ UNCHANGED <<ad, dep, rev, lyra, cache, queue, budget>>

\* Which events the controllers were set up to react to: the AppDeployment
\* controller's filter lets every event pass, the Revision controller has none.
\* (The mutants filter as the AppModule controller does, on the generation.)
WatchedAdByGeneration(old, new) ==
    old.live # new.live \/ old.image # new.image \/ old.cur # new.cur
WatchedRevisionByGeneration(old, new) == old.live # new.live \/ old.gen # new.gen

WatchedAd(old, new)       == old # new
WatchedRevision(old, new) == old # new

\* Informers catch up with the store.  An event puts the object's key in its
\* controller's queue; Deployments are cached but nobody watches them.
DeliverAppDeployment ==
    /\ cache.ad # ad
    /\ cache' = [cache EXCEPT !.ad = ad]
    /\ queue' = [queue EXCEPT !.ad = @ \/ WatchedAd(cache.ad, ad)]
    /\ UNCHANGED <<ad, dep, rev, objs, lyra, budget>>

DeliverDeployment ==
    /\ cache.dep # dep
    /\ cache' = [cache EXCEPT !.dep = dep]
    /\ UNCHANGED <<ad, dep, rev, objs, lyra, queue, budget>>

DeliverRevision(r) ==
    /\ cache.rev[r] # rev[r]
    /\ cache' = [cache EXCEPT !.rev[r] = rev[r]]
    /\ queue' = IF WatchedRevision(cache.rev[r], rev[r])
                THEN [queue EXCEPT !.rev = @ \cup {r}] ELSE queue
    /\ UNCHANGED <<ad, dep, rev, objs, lyra, budget>>

Deliver ==
    \/ DeliverAppDeployment
    \/ DeliverDeployment
    \/ \E r \in RevIds : DeliverRevision(r)

Collect ==
    \/ CollectDeployment
    \/ \E r \in RevIds : CollectRevision(r)
    \/ CollectModule

User ==
    \/ \E i \in Images : EditImage(i)
    \/ \E r \in RevIds : Activate(r)
    \/ DeleteAppDeployment
    \/ ProvideSecret

=============================================================================
