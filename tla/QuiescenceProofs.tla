-------------------------- MODULE QuiescenceProofs --------------------------
(***************************************************************************)
(* Where no call fails, nothing is left undone: what the operator at rest  *)
(* has observed, taken over and consumed, for any number of revisions,     *)
(* edits, activations, deletions and restarts.                             *)
(*                                                                         *)
(* The argument: whatever is written gets a version that the informer has  *)
(* not delivered yet, so it is pending; what is pending ends up in the     *)
(* hands of a worker; and a worker lets go of it only when it is done, or  *)
(* when somebody else has written meanwhile, which is pending again.       *)
(***************************************************************************)
EXTENDS LifecycleProofs, FiniteSetTheorems

\* The Revision worker is at work for a Revision that exists, as far as it knows.
Working == rj.pc \notin {"idle", "forget"}

\* The Revision controller has yet to hear of what is stored, or to take it up.
Pending(r) == cache.rev[r].rv # rev[r].rv \/ r \in queue.rev

\* The budget of failures and restarts is only spent.
BudgetBounded == budget.faults <= MaxFaults /\ budget.restarts <= MaxRestarts

\* Without the account secret nobody has done anything.
SecretFirst ==
    ~objs.secret => /\ aj.pc = "idle" /\ rj.pc = "idle" /\ ~ad.marker
                    /\ \A r \in RevIds : rev[r].rv = 0

\* The worker's own copy is older than what is stored, or the same; when it is
\* older, the Revision is pending.
OwnFollows ==
    Working =>
        /\ rj.own.rv <= rev[rj.key].rv
        /\ rj.own.rv = rev[rj.key].rv /\ rev[rj.key].live => rj.own = rev[rj.key]
        /\ rj.own.rv # rev[rj.key].rv /\ rev[rj.key].live => Pending(rj.key)

OwnCopy == Unfailed => OwnFollows

\* Past its first step the worker's copy has no origin, and it rolls out only
\* what is marked Active.
RollingOut == {"read", "phase", "spec", "activate"}

OwnState ==
    /\ Working /\ rj.pc # "clear" => ~rj.own.origin
    /\ rj.pc \in RollingOut => rj.own.status = "Active"

\* A Revision that still has its origin was never observed, and one that was
\* not observed is pending, or being worked on.
Taken ==
    Unfailed => \A r \in LiveIn(rev) : rev[r].origin => rev[r].obs = 0 /\ rev[r].gen > 0

Noticed ==
    Unfailed => \A r \in LiveIn(rev) :
                   rev[r].gen # rev[r].obs => Pending(r) \/ (Working /\ rj.key = r)

\* Unless the manager restarts, so is one that was deleted, until Lyra forgot it.
Unrestarted == budget.restarts = MaxRestarts

DeletionNoticed ==
    Unfailed /\ Unrestarted =>
        \A r \in RevIds :
            rev[r].rv > 0 /\ ~rev[r].live =>
                r \in lyra.forgotten \/ Pending(r) \/ (rj.pc = "forget" /\ rj.key = r)

\* The informer's copy of the AppDeployment is what is stored, or has another
\* version; and the worker that needs an answer of Lyra has one.
AdCopy == cache.ad.rv = ad.rv => cache.ad = ad

IdAnswered == Unfailed /\ aj.pc \in {"module", "subdomain", "service"} => aj.id # NoRev

\* The AppDeployment's marker is pending, or in the hands of its worker.
AdPending == cache.ad.rv # ad.rv \/ queue.ad

MarkerHeld ==
    /\ aj.pc \in {"apply", "sync", "module", "subdomain", "service", "mark"}
    /\ aj.ad.rv = ad.rv /\ aj.ad.marker

MarkerNoticed == Unfailed /\ ad.live /\ ad.marker => AdPending \/ MarkerHeld

\* Whoever is about to retire a Revision's spec has retired its status before:
\* his copy is older, or it says so.
RetiringBy(j) ==
    \A r \in RevIds :
        j.pc = "spec" /\ j.at = r /\ rev[r].live /\ j.list[r].rv = rev[r].rv
            => rev[r].phase # "Active"

Retiring == Unfailed => RetiringBy(aj) /\ RetiringBy(rj)

QuietInv ==
    /\ BudgetBounded /\ SecretFirst /\ OwnCopy /\ OwnState /\ Retiring
    /\ Taken /\ Noticed /\ DeletionNoticed
    /\ AdCopy /\ IdAnswered /\ MarkerNoticed

-----------------------------------------------------------------------------
(* What a step spends.                                                     *)

\* A step that is not a failed call nor a restart spends neither.
Spares == budget'.faults = budget.faults /\ budget'.restarts = budget.restarts

LEMMA OthersSpend ==
    ASSUME budget \in Budget,
           (User \/ ReportStatus \/ Collect \/ Deliver) \/ UNCHANGED vars
    PROVE  Spares
BY DEF User, EditImage, Activate, DeleteAppDeployment, ProvideSecret, ReportStatus, Collect,
       CollectDeployment, CollectRevision, CollectModule, Deliver, DeliverAppDeployment,
       DeliverDeployment, DeliverRevision, vars, Budget, Spares

LEMMA WorkersSpend ==
    ASSUME AdStep \/ RevStep
    PROVE  Fault \/ UNCHANGED budget
<1>1. CASE AdStep
  BY <1>1 DEF AdStep, AdBegin, HandleAppDeploymentChanges, SyncApp, Asked, CreateModule,
       CreateSubdomain, HandleServiceChanges, ConsumeMarker, Refused, AdHeard, ListRevisions,
       clusterVars, RetirePhase, RetireSpec, CreateRevision, Prune, DeleteApp, DeleteService
<1>2. CASE RevStep
  BY <1>2 DEF RevStep, RevBegin, ForgetRevision, Asked, ClearOrigin, ReadAppDeployment,
       clusterVars, OtherPhase, OtherSpec, ActivatePhase, SwitchDeployment, SyncRevision,
       MarkAppDeployment, ObserveGeneration, Refused, RevHeard
<1> QED  BY <1>1, <1>2

LEMMA FaultSpends ==
    ASSUME budget \in Budget, BudgetBounded, Fault
    PROVE  BudgetBounded' /\ ~Unfailed' /\ budget'.restarts = budget.restarts
<1>1. budget'.faults = budget.faults - 1 /\ budget'.restarts = budget.restarts
  BY DEF Fault, Budget
<1>2. budget.faults \in Nat /\ budget.restarts \in Nat /\ MaxFaults \in Nat
  BY BudgetAssumption DEF Budget
<1> QED  BY <1>1, <1>2 DEF BudgetBounded, Unfailed

LEMMA RestartSpends ==
    ASSUME budget \in Budget, BudgetBounded, Restart \/ Resync
    PROVE  BudgetBounded' /\ ~Unrestarted' /\ budget'.faults = budget.faults
<1>1. budget'.restarts = budget.restarts - 1 /\ budget'.faults = budget.faults
  BY DEF Restart, Resync, Budget
<1>2. budget.faults \in Nat /\ budget.restarts \in Nat /\ MaxRestarts \in Nat
  BY BudgetAssumption DEF Budget
<1> QED  BY <1>1, <1>2 DEF BudgetBounded, Unrestarted

\* As long as no call has failed none fails now; as long as the manager has not
\* restarted it does not now.
LEMMA BudgetSpent ==
    ASSUME Typed, BudgetBounded, [Next]_vars
    PROVE  /\ BudgetBounded'
           /\ Unfailed' => Unfailed /\ ~Fault
           /\ Unrestarted' => Unrestarted /\ ~Restart /\ ~Resync
<1>1. budget \in Budget
  BY DEF Typed, TypeOK, ClusterTypeOK
<1>2. Fault => BudgetBounded' /\ ~Unfailed' /\ budget'.restarts = budget.restarts
  BY <1>1, FaultSpends
<1>3. Restart \/ Resync => BudgetBounded' /\ ~Unrestarted' /\ budget'.faults = budget.faults
  BY <1>1, RestartSpends
<1>4. Spares \/ Fault \/ Restart \/ Resync
  <2>1. UNCHANGED budget => Spares
    BY DEF Spares
  <2> QED  BY <1>1, <2>1, OthersSpend, WorkersSpend DEF Next, Step
<1>5. Spares => BudgetBounded' /\ (Unfailed' => Unfailed) /\ (Unrestarted' => Unrestarted)
  BY DEF Spares, BudgetBounded, Unfailed, Unrestarted
<1> QED  BY <1>2, <1>3, <1>4, <1>5 DEF Unfailed, Unrestarted

-----------------------------------------------------------------------------
(* What is pending stays so until the worker takes it up.                  *)

LEMMA KeysKept ==
    ASSUME Typed, [Next]_vars, NEW r \in RevIds
    PROVE  /\ r \in queue.rev => r \in queue'.rev \/ RevBegin(r) \/ Restart
           /\ cache'.rev[r] # cache.rev[r] => r \in queue'.rev \/ Restart
<1>1. queue \in Queue /\ cache \in Cache
  BY DEF Typed, TypeOK, ClusterTypeOK
<1>2. CASE AdStep
  BY <1>1, <1>2 DEF AdStep, AdBegin, AdFail, HandleAppDeploymentChanges, SyncApp,
       CreateModule, CreateSubdomain, HandleServiceChanges, ConsumeMarker,
       ListRevisions, clusterVars, RetirePhase, RetireSpec, CreateRevision, Prune,
       DeleteApp, DeleteService, Queue
<1>3. CASE RevStep
  <2>1. CASE \E s \in RevIds : RevBegin(s)
    BY <1>1, <2>1 DEF RevBegin, Queue
  <2>2. CASE ForgetRevision \/ ObserveGeneration
    BY <1>1, <2>2 DEF ForgetRevision, ObserveGeneration, Queue
  <2>3. CASE ~(\E s \in RevIds : RevBegin(s)) /\ ~ForgetRevision /\ ~ObserveGeneration
    BY <1>3, <2>3 DEF RevStep, ClearOrigin, ReadAppDeployment, clusterVars, OtherPhase,
         OtherSpec, ActivatePhase, SwitchDeployment, SyncRevision, MarkAppDeployment
  <2> QED  BY <2>1, <2>2, <2>3
<1>4. CASE UNCHANGED vars \/ User \/ ReportStatus \/ Collect
  BY <1>4 DEF vars, User, EditImage, Activate, DeleteAppDeployment, ProvideSecret,
              ReportStatus, Collect, CollectDeployment, CollectRevision, CollectModule
<1>5. CASE Deliver
  BY <1>1, <1>5 DEF Deliver, DeliverAppDeployment, DeliverDeployment, DeliverRevision,
       WatchedRevision, Cache, Queue
<1>6. CASE Restart \/ Resync
  BY <1>1, <1>6 DEF Resync, Queue
<1> QED  BY <1>2, <1>3, <1>4, <1>5, <1>6 DEF Next, Step

\* A write leaves the Revision untouched or gives it a newer version.
LEMMA WritesAreNewer ==
    ASSUME Typed, Typed', LifeInv, [Next]_vars, NEW r \in RevIds
    PROVE  /\ Evolves(r)
           /\ rev'[r] = rev[r] \/ rev'[r].rv > rev[r].rv
           /\ rev[r].rv \in Nat /\ rev'[r].rv \in Nat
           /\ RevCopy(cache.rev[r], rev[r]) /\ cache.rev[r].rv \in Nat
<1>1. Evolves(r)
  BY StepWrites, RevsEvolve
<1>2. rev[r].rv \in Nat /\ cache.rev[r].rv \in Nat
  BY RevsTyped DEF Revision
<1>3. rev'[r].rv \in Nat
  <2>1. rev'[r] \in Revision
    BY DEF Typed, TypeOK, ClusterTypeOK
  <2> QED  BY <2>1 DEF Revision
<1> QED  BY <1>1, <1>2, <1>3 DEF Evolves, LifeInv, RevCopies

LEMMA PendingKept ==
    ASSUME Typed, Typed', LifeInv, [Next]_vars, NEW r \in RevIds
    PROVE  /\ rev'[r] # rev[r] => Pending(r)'
           /\ Pending(r) => \/ Pending(r)' \/ Restart
                            \/ RevBegin(r) /\ cache.rev[r] = rev[r]
<1>1. /\ cache'.rev[r] \in {cache.rev[r], rev[r]}
      /\ cache'.rev[r] # cache.rev[r] => rev' = rev
  BY CopiesFrom
<1>2. /\ r \in queue.rev => r \in queue'.rev \/ RevBegin(r) \/ Restart
      /\ cache'.rev[r] # cache.rev[r] => r \in queue'.rev \/ Restart
  BY KeysKept
<1>3. ASSUME rev'[r] # rev[r] PROVE Pending(r)'
  BY <1>1, <1>3, WritesAreNewer DEF Pending, RevCopy
<1>4. RevBegin(r) => UNCHANGED <<rev, cache>>
  BY DEF RevBegin
<1>5. ASSUME Pending(r), rev'[r] = rev[r]
      PROVE  Pending(r)' \/ Restart \/ (RevBegin(r) /\ cache.rev[r] = rev[r])
  BY <1>2, <1>4, <1>5, WritesAreNewer DEF Pending, RevCopy
<1> QED  BY <1>3, <1>5

-----------------------------------------------------------------------------
(* What the Revision worker goes on with.                                  *)

\* It goes on with the same Revision and the same copy of it.
Continues ==
    /\ Working /\ rj.pc # "clear"
    /\ rj'.pc \notin {"idle", "forget", "clear"}
    /\ rj'.key = rj.key /\ rj'.own = rj.own
    /\ rj'.pc \in RollingOut => rj.pc \in RollingOut

LEMMA ObservingIs ==
    ASSUME NEW j, NEW retry
    PROVE  /\ Observing(j, retry).pc = "observe" /\ Observing(j, retry).key = j.key
           /\ Observing(j, retry).own = j.own
<1>1. /\ {"pc", "key", "own", "retry"} \subseteq DOMAIN RevIdle
  BY DEF RevIdle
<1> QED  BY <1>1 DEF Observing

LEMMA WorkerMoves ==
    ASSUME Typed, [Next]_vars
    PROVE  \/ rj' = rj \/ Continues
           \/ (\E r \in RevIds : RevBegin(r)) \/ ForgetRevision \/ ClearOrigin
           \/ ObserveGeneration \/ Restart
<1>1. rj \in RevWorker
  BY DEF Typed, TypeOK
<1>2. CASE ReadAppDeployment
  <2>1. rj'.pc \in {"activate", "phase", "observe"} /\ rj'.key = rj.key /\ rj'.own = rj.own
    BY <1>1, <1>2, ObservingIs DEF ReadAppDeployment, RevWorker
  <2> QED  BY <1>2, <2>1 DEF ReadAppDeployment, Continues, Working, RollingOut
<1>3. CASE \E r \in RevIds : OtherPhase(r)
  <2>1. /\ rj'.pc = "spec" /\ rj'.key = rj.key /\ rj'.own = rj.own
        /\ rj.pc = "phase"
    BY <1>1, <1>3 DEF OtherPhase, RevHeard, RevWorker
  <2> QED  BY <2>1 DEF Continues, Working, RollingOut
<1>4. CASE \E r \in RevIds : OtherSpec(r)
  <2>1. /\ rj'.pc \in {"activate", "phase"} /\ rj'.key = rj.key /\ rj'.own = rj.own
        /\ rj.pc = "spec"
    BY <1>1, <1>4 DEF OtherSpec, RevWorker
  <2> QED  BY <2>1 DEF Continues, Working, RollingOut
<1>5. CASE ActivatePhase \/ SwitchDeployment \/ SyncRevision
  <2>1. /\ rj'.pc \in {"switch", "sync", "mark"} /\ rj'.key = rj.key /\ rj'.own = rj.own
        /\ rj.pc \in {"activate", "switch", "sync"}
    BY <1>1, <1>5 DEF ActivatePhase, SwitchDeployment, SyncRevision, RevHeard, RevWorker
  <2> QED  BY <2>1 DEF Continues, Working, RollingOut
<1>6. CASE MarkAppDeployment
  <2>1. rj.pc = "mark" /\ \E retry : rj' = Observing(rj, retry)
    BY <1>6 DEF MarkAppDeployment
  <2>2. rj'.pc = "observe" /\ rj'.key = rj.key /\ rj'.own = rj.own
    BY <2>1, ObservingIs
  <2> QED  BY <2>1, <2>2 DEF Continues, Working, RollingOut
<1> QED  BY <1>2, <1>3, <1>4, <1>5, <1>6 DEF Next, Step, RevStep, Resync, vars

-----------------------------------------------------------------------------
(* What is written to a Revision where no call has failed.                 *)

\* The generation moves on or is observed, and the origin only goes.
Observes(old, new) ==
    \/ new.obs = old.obs /\ new.gen >= old.gen /\ (new.origin => old.origin)
    \/ new.obs = new.gen /\ ~new.origin

BooksKept(r) ==
    \/ rev'[r] = rev[r] \/ ~rev'[r].live
    \/ rev'[r].gen = 1 /\ rev'[r].obs = 0
    \/ rev[r].live /\ Observes(rev[r], rev'[r])

\* The phase follows the status.
PhaseKept(r) ==
    \/ rev'[r] = rev[r] \/ ~rev'[r].live
    \/ rev'[r].phase = "Active" =>
          \/ rev'[r].status = "Active"
          \/ rev[r].live /\ rev[r].phase = "Active" /\ rev'[r].status = rev[r].status

LEMMA StatusBooks ==
    ASSUME Typed, NEW r \in RevIds, NEW held \in Revision, rev[r].live,
           rev' = [rev EXCEPT ![r] = PutStatus(rev[r], held)],
           held.obs = rev[r].obs \/ (held.obs = rev[r].gen /\ ~rev[r].origin)
    PROVE  \A s \in RevIds : BooksKept(s)
<1>1. rev[r] \in Revision /\ rev \in [RevIds -> Revision]
  BY RevsTyped DEF Typed, TypeOK, ClusterTypeOK
<1>2. /\ PutStatus(rev[r], held).gen = rev[r].gen
      /\ PutStatus(rev[r], held).origin = rev[r].origin
      /\ PutStatus(rev[r], held).obs = held.obs
  BY <1>1 DEF PutStatus, Stored, Revision
<1>3. rev'[r] = PutStatus(rev[r], held) /\ \A s \in RevIds \ {r} : rev'[s] = rev[s]
  BY <1>1
<1>4. rev[r].gen >= rev[r].gen
  BY <1>1 DEF Revision
<1> QED  BY <1>2, <1>3, <1>4 DEF BooksKept, Observes

LEMMA StatusPhase ==
    ASSUME Typed, NEW r \in RevIds, NEW held \in Revision, rev[r].live,
           rev' = [rev EXCEPT ![r] = PutStatus(rev[r], held)],
           held.phase = "Active" => rev[r].status = "Active" \/ rev[r].phase = "Active"
    PROVE  \A s \in RevIds : PhaseKept(s)
<1>1. rev[r] \in Revision /\ rev \in [RevIds -> Revision]
  BY RevsTyped DEF Typed, TypeOK, ClusterTypeOK
<1>2. /\ PutStatus(rev[r], held).status = rev[r].status
      /\ PutStatus(rev[r], held).phase = held.phase
  BY <1>1 DEF PutStatus, Stored, Revision
<1>3. rev'[r] = PutStatus(rev[r], held) /\ \A s \in RevIds \ {r} : rev'[s] = rev[s]
  BY <1>1
<1> QED  BY <1>2, <1>3 DEF PhaseKept

LEMMA SpecFields ==
    ASSUME NEW old \in Revision, NEW held \in Revision
    PROVE  /\ PutSpec(old, held).obs = old.obs /\ PutSpec(old, held).phase = old.phase
           /\ PutSpec(old, held).origin = held.origin
           /\ PutSpec(old, held).status = held.status
           /\ PutSpec(old, held).gen \in {held.gen, old.gen + 1}
<1> DEFINE kept == [held EXCEPT !.phase = old.phase, !.obs = old.obs]
           next == [kept EXCEPT !.gen = old.gen + 1]
<1>1. /\ kept.obs = old.obs /\ kept.phase = old.phase /\ kept.origin = held.origin
      /\ kept.gen = held.gen /\ kept \in Revision
  BY DEF Revision
<1>2. /\ next.obs = old.obs /\ next.phase = old.phase /\ next.origin = held.origin
      /\ next.gen = old.gen + 1 /\ next \in Revision
  <2>1. old.gen + 1 \in Nat
    BY DEF Revision
  <2> QED  BY <1>1, <2>1 DEF Revision
<1>3. PutSpec(old, held) \in {Stored(old, kept), Stored(old, next)}
  BY DEF PutSpec
<1> HIDE DEF kept, next
<1>4. ASSUME NEW new \in Revision
      PROVE  /\ Stored(old, new).obs = new.obs /\ Stored(old, new).phase = new.phase
             /\ Stored(old, new).origin = new.origin /\ Stored(old, new).gen = new.gen
  BY DEF Stored, Revision
<1> QED  BY <1>1, <1>2, <1>3, <1>4, SpecPut

LEMMA SpecBooks ==
    ASSUME Typed, NEW r \in RevIds, NEW held \in Revision, rev[r].live,
           rev' = [rev EXCEPT ![r] = PutSpec(rev[r], held)],
           held.gen = rev[r].gen, held.origin => rev[r].origin
    PROVE  \A s \in RevIds : BooksKept(s)
<1>1. rev[r] \in Revision /\ rev \in [RevIds -> Revision] /\ rev[r].gen \in Nat
  BY RevsTyped DEF Typed, TypeOK, ClusterTypeOK, Revision
<1>2. rev'[r] = PutSpec(rev[r], held) /\ \A s \in RevIds \ {r} : rev'[s] = rev[s]
  BY <1>1
<1>3. rev'[r].gen >= rev[r].gen
  BY <1>1, <1>2, SpecFields
<1> QED  BY <1>1, <1>2, <1>3, SpecFields DEF BooksKept, Observes

LEMMA SpecPhase ==
    ASSUME Typed, NEW r \in RevIds, NEW held \in Revision, rev[r].live,
           rev' = [rev EXCEPT ![r] = PutSpec(rev[r], held)],
           held.status \in {rev[r].status, "Active"} \/ rev[r].phase # "Active"
    PROVE  \A s \in RevIds : PhaseKept(s)
<1>1. rev[r] \in Revision /\ rev \in [RevIds -> Revision]
  BY RevsTyped DEF Typed, TypeOK, ClusterTypeOK
<1>2. rev'[r] = PutSpec(rev[r], held) /\ \A s \in RevIds \ {r} : rev'[s] = rev[s]
  BY <1>1
<1> QED  BY <1>1, <1>2, SpecFields DEF PhaseKept

LEMMA DeletedKept ==
    ASSUME Typed, NEW r, rev' = [rev EXCEPT ![r] = Deleted(rev[r])]
    PROVE  \A s \in RevIds : BooksKept(s) /\ PhaseKept(s)
<1>1. rev \in [RevIds -> Revision] /\ \A s \in RevIds : rev[s] \in Revision
  BY RevsTyped DEF Typed, TypeOK, ClusterTypeOK
<1>2. \A s \in RevIds : rev'[s] = rev[s] \/ rev'[s] = Deleted(rev[s])
  BY <1>1
<1>3. \A s \in RevIds : ~Deleted(rev[s]).live
  BY <1>1 DEF Deleted, Revision
<1> QED  BY <1>2, <1>3 DEF BooksKept, PhaseKept

LEMMA OthersBooks ==
    ASSUME Typed, User \/ ReportStatus \/ Collect \/ Deliver \/ Restart \/ Resync
    PROVE  \A s \in RevIds : BooksKept(s) /\ PhaseKept(s)
<1>1. CASE \E r \in RevIds : Activate(r)
  <2>1. PICK r \in RevIds : Activate(r)
    BY <1>1
  <2> DEFINE held == [rev[r] EXCEPT !.status = "Active"]
  <2>2. rev[r] \in Revision
    BY RevsTyped
  <2>3. /\ held \in Revision /\ held.gen = rev[r].gen /\ held.origin = rev[r].origin
        /\ held.status = "Active"
    BY <2>2 DEF Revision, Status
  <2> HIDE DEF held
  <2>4. rev' = [rev EXCEPT ![r] = PutSpec(rev[r], held)] /\ rev[r].live
    BY <2>1 DEF Activate, held
  <2> QED  BY <2>3, <2>4, SpecBooks, SpecPhase
<1>2. CASE \E r \in RevIds : CollectRevision(r)
  BY <1>2, DeletedKept DEF CollectRevision
<1>3. CASE /\ ~(\E r \in RevIds : Activate(r)) /\ ~(\E r \in RevIds : CollectRevision(r))
  <2>1. rev' = rev
    BY <1>3 DEF User, EditImage, DeleteAppDeployment, ProvideSecret, ReportStatus, Collect,
         CollectDeployment, CollectModule, Deliver, DeliverAppDeployment, DeliverDeployment,
         DeliverRevision, Restart, Resync
  <2> QED  BY <2>1 DEF BooksKept, PhaseKept
<1> QED  BY <1>1, <1>2, <1>3

LEMMA AdStepBooks ==
    ASSUME Typed, LifeInv, Unfailed, QuietInv, AdStep
    PROVE  \A s \in RevIds : BooksKept(s) /\ PhaseKept(s)
<1>1. \A r \in RevIds : /\ rev[r] \in Revision /\ aj.list[r] \in Revision
                        /\ RevCopy(aj.list[r], rev[r])
  BY RevsTyped DEF LifeInv, RevCopies
<1>2. CASE \E r \in RevIds : RetirePhase(r)
  <2>1. PICK r \in RevIds : RetirePhase(r)
    BY <1>2
  <2> DEFINE held == [aj.list[r] EXCEPT !.phase = "Non-active"]
  <2>2. /\ held \in Revision /\ held.rv = aj.list[r].rv /\ held.obs = aj.list[r].obs
        /\ held.phase = "Non-active"
    BY ZenonT(60), <1>1 DEF Revision, Status
  <2> HIDE DEF held
  <2>3. \/ rev' = rev
        \/ Accepts(held, rev[r]) /\ rev' = [rev EXCEPT ![r] = PutStatus(rev[r], held)]
    BY <2>1 DEF RetirePhase, held
  <2>4. Accepts(held, rev[r]) => rev[r].live /\ held.obs = rev[r].obs
    BY <1>1, <2>2 DEF Accepts, RevCopy
  <2> QED  BY <2>2, <2>3, <2>4, StatusBooks, StatusPhase DEF BooksKept, PhaseKept
<1>3. CASE \E r \in RevIds : RetireSpec(r)
  <2>1. PICK r \in RevIds : RetireSpec(r)
    BY <1>3
  <2> DEFINE held == [aj.list[r] EXCEPT !.status = "Non-active"]
  <2>2. /\ held \in Revision /\ held.rv = aj.list[r].rv /\ held.gen = aj.list[r].gen
        /\ held.origin = aj.list[r].origin
    BY ZenonT(60), <1>1 DEF Revision, Status
  <2> HIDE DEF held
  <2>3. \/ rev' = rev
        \/ Accepts(held, rev[r]) /\ rev' = [rev EXCEPT ![r] = PutSpec(rev[r], held)]
    BY <2>1 DEF RetireSpec, held
  <2>4. Accepts(held, rev[r]) => /\ rev[r].live /\ held.gen = rev[r].gen
                                 /\ held.origin = rev[r].origin
    BY <1>1, <2>2 DEF Accepts, RevCopy
  <2>5. Accepts(held, rev[r]) => rev[r].phase # "Active"
    BY <2>1, <2>2 DEF Accepts, QuietInv, Retiring, RetiringBy, RetireSpec
  <2> QED  BY <2>2, <2>3, <2>4, <2>5, SpecBooks, SpecPhase DEF BooksKept, PhaseKept
<1>4. CASE CreateRevision
  <2> DEFINE r   == aj.id
             new == [rev[r] EXCEPT !.live = TRUE, !.image = Spelling(aj.ad.image),
                                   !.status = "Active",
                                   !.phase = "", !.gen = 1, !.obs = 0, !.origin = TRUE]
  <2>1. r \in RevIds
    BY <1>4 DEF CreateRevision, LifeInv, Minting, New
  <2>2. new.gen = 1 /\ new.obs = 0 /\ new.phase = ""
    BY <1>1, <2>1 DEF Revision
  <2>3. Stored(rev[r], new).gen = 1 /\ Stored(rev[r], new).obs = 0
        /\ Stored(rev[r], new).phase = ""
    <3>1. DOMAIN new = DOMAIN rev[r] /\ {"gen", "obs", "phase"} \subseteq DOMAIN rev[r]
      BY <1>1, <2>1 DEF Revision
    <3> HIDE DEF new
    <3> QED  BY <2>2, <3>1 DEF Stored
  <2>4. rev' = rev \/ rev' = [rev EXCEPT ![r] = Stored(rev[r], new)]
    BY <1>4 DEF CreateRevision
  <2> HIDE DEF new
  <2>5. rev \in [RevIds -> Revision]
    BY DEF Typed, TypeOK, ClusterTypeOK
  <2> QED  BY <2>1, <2>3, <2>4, <2>5 DEF BooksKept, PhaseKept
<1>5. CASE Prune
  <2>1. rev' = rev \/ \E r : rev' = [rev EXCEPT ![r] = Deleted(rev[r])]
    BY <1>5 DEF Prune
  <2> QED  BY <2>1, DeletedKept DEF BooksKept, PhaseKept
<1>6. CASE /\ ~(\E r \in RevIds : RetirePhase(r) \/ RetireSpec(r))
           /\ ~CreateRevision /\ ~Prune
  <2>1. rev' = rev
    BY <1>6 DEF AdStep, AdBegin, HandleAppDeploymentChanges, SyncApp, CreateModule,
         CreateSubdomain, HandleServiceChanges, ConsumeMarker, ListRevisions, clusterVars,
         DeleteApp, DeleteService
  <2> QED  BY <2>1 DEF BooksKept, PhaseKept
<1> QED  BY <1>2, <1>3, <1>4, <1>5, <1>6

LEMMA RevStepBooks ==
    ASSUME Typed, LifeInv, Unfailed, QuietInv, RevStep
    PROVE  \A s \in RevIds : BooksKept(s) /\ PhaseKept(s)
<1>1. /\ \A r \in RevIds : /\ rev[r] \in Revision /\ rj.list[r] \in Revision
                           /\ RevCopy(rj.list[r], rev[r])
                           /\ cache.rev[r] \in Revision /\ RevCopy(cache.rev[r], rev[r])
      /\ rj.own \in Revision
  BY RevsTyped DEF LifeInv, RevCopies, Typed, TypeOK, RevWorker
<1>2. CASE ClearOrigin
  <2> DEFINE r == rj.key
             held == Cleared(r)
  <2>1. r \in RevIds
    BY <1>2 DEF ClearOrigin, Typed, KeyKnown
  <2>2. /\ held \in Revision /\ held.rv = cache.rev[r].rv /\ held.gen = cache.rev[r].gen
        /\ ~held.origin /\ held.status = cache.rev[r].status
    BY <1>1, <2>1 DEF Cleared, Revision
  <2>3. \/ rev' = rev
        \/ Accepts(held, rev[r]) /\ rev' = [rev EXCEPT ![r] = PutSpec(rev[r], held)]
    BY <1>2 DEF ClearOrigin
  <2> HIDE DEF held
  <2>4. Accepts(held, rev[r]) => /\ rev[r].live /\ held.gen = rev[r].gen
                                 /\ held.status = rev[r].status
    BY <1>1, <2>1, <2>2 DEF Accepts, RevCopy
  <2> QED  BY <2>1, <2>2, <2>3, <2>4, SpecBooks, SpecPhase DEF BooksKept, PhaseKept
<1>3. CASE \E r \in RevIds : OtherPhase(r)
  <2>1. PICK r \in RevIds : OtherPhase(r)
    BY <1>3
  <2> DEFINE held == Retired(rj.list[r])
  <2>2. /\ held \in Revision /\ held.rv = rj.list[r].rv /\ held.obs = rj.list[r].obs
        /\ held.phase = "Non-active"
    BY ZenonT(60), <1>1 DEF Retired, Revision, Status
  <2> HIDE DEF held
  <2>3. \/ rev' = rev
        \/ Accepts(held, rev[r]) /\ rev' = [rev EXCEPT ![r] = PutStatus(rev[r], held)]
    BY <2>1 DEF OtherPhase, held
  <2>4. Accepts(held, rev[r]) => rev[r].live /\ held.obs = rev[r].obs
    BY <1>1, <2>2 DEF Accepts, RevCopy
  <2> QED  BY <2>2, <2>3, <2>4, StatusBooks, StatusPhase DEF BooksKept, PhaseKept
<1>4. CASE \E r \in RevIds : OtherSpec(r)
  <2>1. PICK r \in RevIds : OtherSpec(r)
    BY <1>4
  <2> DEFINE held == [rj.list[r] EXCEPT !.status = "Non-active"]
  <2>2. /\ held \in Revision /\ held.rv = rj.list[r].rv /\ held.gen = rj.list[r].gen
        /\ held.origin = rj.list[r].origin
    BY ZenonT(60), <1>1 DEF Revision, Status
  <2> HIDE DEF held
  <2>3. \/ rev' = rev
        \/ Accepts(held, rev[r]) /\ rev' = [rev EXCEPT ![r] = PutSpec(rev[r], held)]
    BY <2>1 DEF OtherSpec, held
  <2>4. Accepts(held, rev[r]) => /\ rev[r].live /\ held.gen = rev[r].gen
                                 /\ held.origin = rev[r].origin
    BY <1>1, <2>2 DEF Accepts, RevCopy
  <2>5. Accepts(held, rev[r]) => rev[r].phase # "Active"
    BY <2>1, <2>2 DEF Accepts, QuietInv, Retiring, RetiringBy, OtherSpec
  <2> QED  BY <2>2, <2>3, <2>4, <2>5, SpecBooks, SpecPhase DEF BooksKept, PhaseKept
<1>5. CASE ActivatePhase
  <2> DEFINE held == Activated
  <2>1. rj.key \in RevIds /\ Working /\ rj.own.status = "Active"
    BY <1>5 DEF ActivatePhase, Typed, KeyKnown, Working, QuietInv, OwnState, RollingOut
  <2>2. held \in Revision /\ held.rv = rj.own.rv /\ held.obs = rj.own.obs
    BY <1>1 DEF Activated, Revision, Status
  <2>3. \/ rev' = rev
        \/ /\ Accepts(held, rev[rj.key])
           /\ rev' = [rev EXCEPT ![rj.key] = PutStatus(rev[rj.key], held)]
    BY <1>5 DEF ActivatePhase
  <2> HIDE DEF held
  <2>4. Accepts(held, rev[rj.key]) => rev[rj.key].live /\ rj.own = rev[rj.key]
    BY <2>1, <2>2 DEF Accepts, QuietInv, OwnCopy, OwnFollows
  <2> QED  BY <2>1, <2>2, <2>3, <2>4, StatusBooks, StatusPhase DEF BooksKept, PhaseKept
<1>6. CASE ObserveGeneration
  <2> DEFINE held == ObservedOwn
  <2>1. rj.key \in RevIds /\ Working /\ ~rj.own.origin
    BY <1>6 DEF ObserveGeneration, Typed, KeyKnown, Working, QuietInv, OwnState
  <2>2. /\ held \in Revision /\ held.rv = rj.own.rv /\ held.obs = rj.own.gen
        /\ held.phase = rj.own.phase
    BY <1>1 DEF ObservedOwn, Revision
  <2>3. \/ rev' = rev
        \/ /\ Accepts(held, rev[rj.key])
           /\ rev' = [rev EXCEPT ![rj.key] = PutStatus(rev[rj.key], held)]
    BY <1>6 DEF ObserveGeneration
  <2> HIDE DEF held
  <2>4. Accepts(held, rev[rj.key]) => rev[rj.key].live /\ rj.own = rev[rj.key]
    BY <2>1, <2>2 DEF Accepts, QuietInv, OwnCopy, OwnFollows
  <2> QED  BY <2>1, <2>2, <2>3, <2>4, StatusBooks, StatusPhase DEF BooksKept, PhaseKept
<1>7. CASE /\ ~(\E r \in RevIds : OtherPhase(r) \/ OtherSpec(r))
           /\ ~ClearOrigin /\ ~ActivatePhase /\ ~ObserveGeneration
  <2>1. rev' = rev
    BY <1>7 DEF RevStep, RevBegin, ForgetRevision, ReadAppDeployment, clusterVars,
         SwitchDeployment, SyncRevision, MarkAppDeployment
  <2> QED  BY <2>1 DEF BooksKept, PhaseKept
<1> QED  BY <1>2, <1>3, <1>4, <1>5, <1>6, <1>7

LEMMA StepBooks ==
    ASSUME Typed, LifeInv, Unfailed, QuietInv, [Next]_vars
    PROVE  \A s \in RevIds : BooksKept(s) /\ PhaseKept(s)
<1>1. UNCHANGED vars => \A s \in RevIds : BooksKept(s) /\ PhaseKept(s)
  BY DEF vars, BooksKept, PhaseKept
<1> QED  BY <1>1, OthersBooks, AdStepBooks, RevStepBooks DEF Next, Step

-----------------------------------------------------------------------------
(* The invariant is kept, part by part.                                    *)

LEMMA InitQuiet == Init => QuietInv
<1> SUFFICES ASSUME Init PROVE QuietInv
  OBVIOUS
<1>1. /\ budget.faults = MaxFaults /\ budget.restarts = MaxRestarts
      /\ aj.pc = "idle" /\ rj.pc = "idle" /\ ~ad.marker /\ ad.rv = 1 /\ cache.ad.rv = 0
      /\ \A r \in RevIds : rev[r] = NoRevision
  BY DEF Init, ClusterInit, AdInit, RevInit, AdIdle, RevIdle, FullBudget, NoRevisions,
         NoAppDeployment
<1>2. NoRevision.rv = 0 /\ ~NoRevision.live
  BY DEF NoRevision
<1>3. BudgetBounded
  BY <1>1, BudgetAssumption DEF BudgetBounded
<1>4. SecretFirst /\ OwnCopy /\ OwnState /\ Retiring
  BY <1>1, <1>2 DEF SecretFirst, OwnCopy, OwnFollows, OwnState, Working, RollingOut, Retiring, RetiringBy
<1>5. /\ Taken /\ Noticed /\ DeletionNoticed
      /\ AdCopy /\ IdAnswered /\ MarkerNoticed
  BY <1>1, <1>2 DEF Taken, Noticed, LiveIn, DeletionNoticed, AdCopy, IdAnswered, MarkerNoticed
<1> QED  BY <1>3, <1>4, <1>5 DEF QuietInv

\* The secret, once provided, stays.
LEMMA SecretStays ==
    ASSUME Typed, [Next]_vars
    PROVE  objs.secret => objs'.secret
<1>0. objs \in Objects
  BY DEF Typed, TypeOK, ClusterTypeOK
<1>1. CASE AdStep
  BY <1>0, <1>1 DEF AdStep, AdBegin, HandleAppDeploymentChanges, SyncApp, CreateModule,
       CreateSubdomain, HandleServiceChanges, ConsumeMarker, ListRevisions, clusterVars,
       RetirePhase, RetireSpec, CreateRevision, Prune, DeleteApp, DeleteService, Objects
<1>2. CASE RevStep
  BY <1>2 DEF RevStep, RevBegin, ForgetRevision, ClearOrigin, ReadAppDeployment, clusterVars,
       OtherPhase, OtherSpec, ActivatePhase, SwitchDeployment, SyncRevision,
       MarkAppDeployment, ObserveGeneration
<1>3. CASE User \/ ReportStatus \/ Collect
  BY <1>0, <1>3 DEF User, EditImage, Activate, DeleteAppDeployment, ProvideSecret,
       ReportStatus, Collect, CollectDeployment, CollectRevision, CollectModule, Objects
<1>4. CASE Deliver \/ Restart \/ Resync \/ UNCHANGED vars
  BY <1>4 DEF Deliver, DeliverAppDeployment, DeliverDeployment, DeliverRevision, Restart,
       Resync, vars
<1> QED  BY <1>1, <1>2, <1>3, <1>4 DEF Next, Step

LEMMA SecretKept ==
    ASSUME Typed, Typed', LifeInv, SecretFirst, [Next]_vars
    PROVE  SecretFirst'
<1> SUFFICES ASSUME ~objs'.secret
             PROVE  /\ aj'.pc = "idle" /\ rj'.pc = "idle" /\ ~ad'.marker
                    /\ \A r \in RevIds : rev'[r].rv = 0
  BY DEF SecretFirst
<1>1. objs \in Objects /\ ad \in AppDeployment /\ AdIdle.pc = "idle" /\ RevIdle.pc = "idle"
  BY DEF Typed, TypeOK, ClusterTypeOK, AdIdle, RevIdle
<1>2. ~objs.secret
  BY SecretStays
<1>3. /\ aj.pc = "idle" /\ rj.pc = "idle" /\ ~ad.marker
      /\ \A r \in RevIds : rev[r].rv = 0
  BY <1>2 DEF SecretFirst
<1>4. \A r \in RevIds : rev'[r].rv = 0
  BY <1>3, WritesAreNewer DEF Evolves, Creates
<1>5. CASE AdStep /\ UNCHANGED rj
  <2>1. AdBegin
    BY <1>3, <1>5 DEF AdStep, HandleAppDeploymentChanges, SyncApp, CreateModule,
         CreateSubdomain, HandleServiceChanges, ConsumeMarker, ListRevisions,
         RetirePhase, RetireSpec, CreateRevision, Prune, DeleteApp, DeleteService
  <2> QED  BY <1>1, <1>2, <1>3, <1>4, <1>5, <2>1 DEF AdBegin, AdFail
<1>6. CASE RevStep /\ UNCHANGED aj
  <2>1. \E r \in RevIds : RevBegin(r)
    BY <1>3, <1>6 DEF RevStep, ForgetRevision, ClearOrigin, ReadAppDeployment,
         OtherPhase, OtherSpec, ActivatePhase, SwitchDeployment, SyncRevision,
         MarkAppDeployment, ObserveGeneration
  <2> QED  BY <1>1, <1>2, <1>3, <1>4, <1>6, <2>1 DEF RevBegin
<1>7. CASE User /\ UNCHANGED <<aj, rj>>
  <2>1. \A i \in Images : EditImage(i) => ad'.marker = ad.marker
    BY <1>1 DEF EditImage, Stored, AppDeployment
  <2>2. DeleteAppDeployment => ad'.marker = ad.marker
    BY <1>1 DEF DeleteAppDeployment, Deleted, AppDeployment
  <2> QED  BY <1>3, <1>4, <1>7, <2>1, <2>2 DEF User, Activate, ProvideSecret
<1>8. CASE (ReportStatus \/ Collect \/ Deliver) /\ UNCHANGED <<aj, rj>>
  BY <1>3, <1>4, <1>8 DEF ReportStatus, Collect, CollectDeployment, CollectRevision,
       CollectModule, Deliver, DeliverAppDeployment, DeliverDeployment, DeliverRevision
<1>9. CASE Restart \/ Resync \/ UNCHANGED vars
  BY <1>1, <1>3, <1>4, <1>9 DEF Restart, Resync, vars
<1> QED  BY <1>5, <1>6, <1>7, <1>8, <1>9 DEF Next, Step

\* What ClearOrigin leaves the worker with.
LEMMA ClearedOwn ==
    ASSUME Typed, LifeInv, ClearOrigin
    PROVE  /\ rj.key \in RevIds /\ rj'.key = rj.key /\ ~rj'.own.origin
           /\ rj'.pc \in RollingOut => rj'.own.status = "Active"
           /\ rj'.pc \in {"read", "observe"}
           /\ \/ rj'.own = rev'[rj.key]
              \/ rj'.own.rv = cache.rev[rj.key].rv /\ (Fault \/ ~Accepts(rj'.own, rev[rj.key]))
           /\ UNCHANGED cache
<1> DEFINE r    == rj.key
           held == Cleared(r)
           new  == PutSpec(rev[r], held)
<1>1. /\ r \in RevIds /\ rj \in RevWorker /\ rev[r] \in Revision /\ cache.rev[r] \in Revision
      /\ rev \in [RevIds -> Revision]
  BY RevsTyped DEF ClearOrigin, Typed, KeyKnown, TypeOK, ClusterTypeOK
<1>2. held \in Revision /\ held.rv = cache.rev[r].rv /\ ~held.origin
  BY <1>1 DEF Cleared, Revision
<1>3. new.origin = held.origin
  BY <1>1, <1>2, SpecFields
<1>4. /\ \/ Accepts(held, rev[r]) /\ rev' = [rev EXCEPT ![r] = new]
            /\ RevHeard([rj EXCEPT !.own = new, !.pc = AfterOrigin(new)],
                        Observing([rj EXCEPT !.own = held], TRUE))
         \/ Refused(held, rev[r]) /\ rj' = Observing([rj EXCEPT !.own = held], TRUE)
      /\ UNCHANGED cache
  BY DEF ClearOrigin
<1> HIDE DEF held, new
<1>5. CASE rj' = [rj EXCEPT !.own = new, !.pc = AfterOrigin(new)] /\ rev' = [rev EXCEPT ![r] = new]
  <2>1. rj'.own = new /\ rj'.pc = AfterOrigin(new) /\ rj'.key = r
    BY <1>1, <1>5 DEF RevWorker
  <2> QED  BY <1>1, <1>2, <1>3, <1>4, <1>5, <2>1 DEF AfterOrigin, RollingOut
<1>6. CASE /\ rj' = Observing([rj EXCEPT !.own = held], TRUE)
           /\ Fault \/ ~Accepts(held, rev[r])
  <2>1. [rj EXCEPT !.own = held].own = held /\ [rj EXCEPT !.own = held].key = r
    BY <1>1 DEF RevWorker
  <2>2. rj'.own = held /\ rj'.pc = "observe" /\ rj'.key = r
    BY <1>6, <2>1, ObservingIs
  <2> QED  BY <1>1, <1>2, <1>4, <1>6, <2>2 DEF RollingOut
<1> QED  BY <1>4, <1>5, <1>6 DEF RevHeard, Refused

\* What RevBegin gives the worker.
LEMMA BegunOwn ==
    ASSUME Typed, NEW r \in RevIds, RevBegin(r)
    PROVE  /\ UNCHANGED <<rev, cache, lyra, objs, budget>>
           /\ rj'.pc = "idle" => ~objs.secret \/ (~Gone(r) /\ ~Unobserved(cache.rev[r]))
           /\ rj'.pc = "forget" => Gone(r) /\ rj'.key = r
           /\ Working' => /\ rj'.key = r /\ rj'.own = cache.rev[r] /\ ~Gone(r)
                          /\ rj'.pc # "clear" => ~rj'.own.origin
                          /\ rj'.pc \in RollingOut => rj'.own.status = "Active"
<1> DEFINE own == cache.rev[r]
           pc  == IF own.origin THEN "clear" ELSE AfterOrigin(own)
<1>1. RevIdle \in RevWorker /\ RevIdle.pc = "idle" /\ "idle" \notin RollingOut
      /\ "forget" \notin RollingOut /\ "clear" \notin RollingOut
  BY NothingTyped DEF RevIdle, RollingOut
<1>2. /\ UNCHANGED <<rev, cache, lyra, objs, budget>>
      /\ \/ rj' = RevIdle /\ (~objs.secret \/ (~Gone(r) /\ ~Unobserved(own)))
         \/ rj' = [RevIdle EXCEPT !.pc = "forget", !.key = r] /\ Gone(r)
         \/ rj' = [RevIdle EXCEPT !.key = r, !.own = own, !.pc = pc] /\ ~Gone(r)
  BY DEF RevBegin
<1>3. /\ pc \in {"clear", "read", "observe"} /\ (pc # "clear" => ~own.origin)
      /\ pc \in RollingOut => own.status = "Active"
  BY DEF AfterOrigin, RollingOut
<1> HIDE DEF own, pc
<1>4. CASE rj' = RevIdle /\ (~objs.secret \/ (~Gone(r) /\ ~Unobserved(own)))
  BY <1>1, <1>2, <1>4 DEF Working, own
<1>5. CASE rj' = [RevIdle EXCEPT !.pc = "forget", !.key = r] /\ Gone(r)
  <2>1. rj'.pc = "forget" /\ rj'.key = r
    BY <1>1, <1>5 DEF RevWorker
  <2> QED  BY <1>1, <1>2, <1>5, <2>1 DEF Working
<1>6. CASE rj' = [RevIdle EXCEPT !.key = r, !.own = own, !.pc = pc] /\ ~Gone(r)
  <2>1. rj'.pc = pc /\ rj'.key = r /\ rj'.own = own
    BY <1>1, <1>6 DEF RevWorker
  <2> QED  BY <1>2, <1>3, <1>6, <2>1 DEF own
<1> QED  BY <1>2, <1>4, <1>5, <1>6

LEMMA WorkerStops ==
    ASSUME ForgetRevision \/ ObserveGeneration \/ Restart
    PROVE  rj'.pc = "idle"
BY DEF ForgetRevision, ObserveGeneration, Restart, RevIdle

LEMMA OwnFollowsKept ==
    ASSUME Typed, Typed', LifeInv, OwnFollows, [Next]_vars, ~Fault
    PROVE  OwnFollows'
<1> SUFFICES ASSUME Working', NEW r \in RevIds, rj'.key = r
             PROVE  /\ rj'.own.rv <= rev'[r].rv
                    /\ rj'.own.rv = rev'[r].rv /\ rev'[r].live => rj'.own = rev'[r]
                    /\ rj'.own.rv # rev'[r].rv /\ rev'[r].live => Pending(r)'
  <2>1. Working' => rj'.key \in RevIds
    BY DEF Typed, KeyKnown, Working
  <2> QED  BY <2>1 DEF OwnFollows, Pending
<1>2. rj.own.rv \in Nat /\ rj'.own.rv \in Nat
  BY DEF Typed, TypeOK, RevWorker, Revision
<1>3. ~Restart /\ ~ForgetRevision /\ ~ObserveGeneration
  BY WorkerStops DEF Working
<1>4. CASE Working /\ rj'.key = rj.key /\ rj'.own = rj.own
  <2>1. ~RevBegin(r)
    BY <1>4 DEF RevBegin, Working
  <2>2. /\ rj.own.rv <= rev[r].rv
        /\ rj.own.rv = rev[r].rv /\ rev[r].live => rj.own = rev[r]
        /\ rj.own.rv # rev[r].rv /\ rev[r].live => Pending(r)
    BY <1>4 DEF OwnFollows
  <2>3. CASE rev'[r] = rev[r]
    BY <1>3, <1>4, <2>1, <2>2, <2>3, PendingKept
  <2>4. CASE rev'[r] # rev[r]
    <3>1. rev'[r].rv > rev[r].rv /\ rev[r].rv \in Nat /\ rev'[r].rv \in Nat /\ Pending(r)'
      BY <2>4, PendingKept, WritesAreNewer
    <3> QED  BY <1>2, <1>4, <2>2, <3>1
  <2> QED  BY <2>3, <2>4
<1>5. CASE \E s \in RevIds : RevBegin(s)
  <2>1. RevBegin(r)
    BY <1>5, BegunOwn
  <2>2. rj'.own = cache.rev[r] /\ UNCHANGED <<rev, cache>>
    BY <2>1, BegunOwn
  <2>3. rj'.own.rv # rev'[r].rv => Pending(r)'
    BY <2>2 DEF Pending
  <2> QED  BY <2>2, <2>3, WritesAreNewer DEF RevCopy
<1>6. CASE ClearOrigin
  <2>1. /\ rj.key = r
        /\ \/ rj'.own = rev'[r]
           \/ rj'.own.rv = cache.rev[r].rv /\ ~Accepts(rj'.own, rev[r])
        /\ UNCHANGED cache
    BY <1>6, ClearedOwn
  <2>2. CASE rj'.own = rev'[r]
    <3>1. rev'[r].rv \in Nat
      BY WritesAreNewer
    <3> QED  BY <2>2, <3>1
  <2>3. CASE rj'.own.rv = cache.rev[r].rv /\ ~Accepts(rj'.own, rev[r])
    <3>1. rev'[r].rv >= rev[r].rv /\ rj'.own.rv <= rev[r].rv
      BY <2>1, <2>3, WritesAreNewer DEF RevCopy
    <3>2. rev'[r] = rev[r] => (rev'[r].live => rj'.own.rv # rev'[r].rv)
      BY <2>3 DEF Accepts
    <3>3. rev'[r] # rev[r] => rj'.own.rv # rev'[r].rv
      BY <1>2, <2>1, <3>1, WritesAreNewer
    <3>4. rj'.own.rv # rev'[r].rv => Pending(r)'
      BY <2>1, <2>3 DEF Pending
    <3>5. rj'.own.rv <= rev'[r].rv
      BY <1>2, <2>1, <3>1, WritesAreNewer
    <3> QED  BY <3>2, <3>3, <3>4, <3>5
  <2> QED  BY <2>1, <2>2, <2>3
<1> QED  BY <1>3, <1>4, <1>5, <1>6, WorkerMoves DEF Continues, Working

LEMMA OwnCopyKept ==
    ASSUME Typed, Typed', LifeInv, BudgetBounded, OwnCopy, [Next]_vars
    PROVE  OwnCopy'
BY BudgetSpent, OwnFollowsKept DEF OwnCopy

LEMMA OwnStateKept ==
    ASSUME Typed, LifeInv, OwnState, [Next]_vars
    PROVE  OwnState'
<1>1. CASE rj' = rj
  BY <1>1 DEF OwnState, Working
<1>2. CASE Continues
  BY <1>2 DEF OwnState, Continues, Working
<1>3. CASE \E r \in RevIds : RevBegin(r)
  <2>1. PICK r \in RevIds : RevBegin(r)
    BY <1>3
  <2>2. rj'.pc \in RollingOut => Working'
    BY DEF RollingOut, Working
  <2> QED  BY <2>1, <2>2, BegunOwn DEF OwnState
<1>4. CASE ClearOrigin
  BY <1>4, ClearedOwn DEF OwnState
<1>5. CASE ForgetRevision \/ ObserveGeneration \/ Restart
  BY <1>5, WorkerStops DEF OwnState, Working, RollingOut
<1> QED  BY <1>1, <1>2, <1>3, <1>4, <1>5, WorkerMoves

LEMMA TakenKept ==
    ASSUME Typed, LifeInv, QuietInv, [Next]_vars
    PROVE  Taken'
<1> SUFFICES ASSUME Unfailed', NEW r \in RevIds, rev'[r].live, rev'[r].origin
             PROVE  rev'[r].obs = 0 /\ rev'[r].gen > 0
  BY DEF Taken, LiveIn
<1>1. Unfailed
  BY BudgetSpent DEF QuietInv
<1>2. BooksKept(r)
  BY <1>1, StepBooks
<1>3. rev[r].live /\ rev[r].origin => rev[r].obs = 0 /\ rev[r].gen > 0
  BY <1>1 DEF QuietInv, Taken, LiveIn
<1>4. rev[r].gen \in Nat /\ rev'[r].gen \in Nat
  <2>1. Typed'
    BY NextTyped
  <2>2. rev'[r] \in Revision
    BY <2>1 DEF Typed, TypeOK, ClusterTypeOK
  <2> QED  BY <2>2, RevsTyped DEF Revision
<1> QED  BY <1>2, <1>3, <1>4 DEF BooksKept, Observes

\* Whoever is about to retire a spec was so before, or has just sent the status.
LEMMA AboutToRetire ==
    ASSUME Typed, LifeInv, [Next]_vars
    PROVE  /\ aj'.pc = "spec" => aj' = aj \/ \E r \in RevIds : RetirePhase(r)
           /\ rj'.pc = "spec" => rj' = rj \/ \E r \in RevIds : OtherPhase(r)
<1>1. aj \in AdWorker /\ rj \in RevWorker /\ AdIdle.pc = "idle" /\ RevIdle.pc = "idle"
  BY DEF Typed, TypeOK, AdIdle, RevIdle
<1>2. CASE AdStep /\ UNCHANGED rj
  <2>1. \A j \in AdWorker : AfterObjects(j).pc \in {"idle", "mark", "list"}
    BY DEF AfterObjects, AdIdle
  <2>2. \A j \in AdWorker : AfterModule(j).pc # "spec"
    BY <2>1 DEF AfterModule, AdWorker
  <2>3. CASE AdBegin
    BY <1>1, <1>2, <2>3 DEF AdBegin, AdFail, AdIdle
  <2>4. CASE HandleAppDeploymentChanges
    BY <1>1, <1>2, <2>4 DEF HandleAppDeploymentChanges, AdHeard, Changed, Same, AdWorker
  <2>5. CASE SyncApp
    <3>1. ASSUME NEW id \in 0 .. MaxRevs
          PROVE  /\ [aj EXCEPT !.id = id] \in AdWorker
                 /\ [[aj EXCEPT !.id = id] EXCEPT !.pc = "module"].pc = "module"
      BY <1>1 DEF AdWorker
    <3>2. Reply(aj.ad.cur) \in 0 .. MaxRevs /\ NoRev \in 0 .. MaxRevs
      BY <2>5, RevsAssumption DEF SyncApp, RevIds, NoRev
    <3> QED  BY <1>1, <1>2, <2>2, <2>5, <3>1, <3>2 DEF SyncApp, AdFail
  <2>6. CASE CreateModule \/ CreateSubdomain \/ HandleServiceChanges
    BY <1>1, <1>2, <2>1, <2>2, <2>6 DEF CreateModule, CreateSubdomain, HandleServiceChanges, AdFail,
         AdWorker
  <2>7. CASE ConsumeMarker \/ ListRevisions \/ CreateRevision \/ Prune
    BY <1>1, <1>2, <2>7 DEF ConsumeMarker, ListRevisions, CreateRevision, Prune, AdHeard,
         AdWorker
  <2>8. CASE \E r \in RevIds : RetireSpec(r)
    BY <1>1, <1>2, <2>8 DEF RetireSpec, AdWorker
  <2>9. CASE DeleteApp \/ DeleteService
    BY <1>1, <1>2, <2>9 DEF DeleteApp, DeleteService, AdFail, AdWorker
  <2> QED  BY <1>2, <2>3, <2>4, <2>5, <2>6, <2>7, <2>8, <2>9 DEF AdStep
<1>3. CASE RevStep /\ UNCHANGED aj
  <2>1. CASE \E r \in RevIds : RevBegin(r)
    <3>1. PICK r \in RevIds : RevBegin(r)
      BY <2>1
    <3> DEFINE own == cache.rev[r]
               pc  == IF own.origin THEN "clear" ELSE AfterOrigin(own)
    <3>2. pc # "spec" /\ RevIdle \in RevWorker
      BY NothingTyped DEF AfterOrigin
    <3>3. \/ rj' = RevIdle
          \/ rj' = [RevIdle EXCEPT !.pc = "forget", !.key = r]
          \/ rj' = [RevIdle EXCEPT !.key = r, !.own = own, !.pc = pc]
      BY <3>1 DEF RevBegin
    <3> HIDE DEF own, pc
    <3> QED  BY <1>1, <1>3, <3>2, <3>3 DEF RevWorker
  <2>2. CASE ClearOrigin
    BY <1>3, <2>2, ClearedOwn
  <2>3. CASE ReadAppDeployment
    BY <1>1, <1>3, <2>3, ObservingIs DEF ReadAppDeployment, RevWorker
  <2>4. CASE \E r \in RevIds : OtherSpec(r)
    BY <1>1, <1>3, <2>4 DEF OtherSpec, RevWorker
  <2>5. CASE ActivatePhase \/ SwitchDeployment \/ SyncRevision
    BY <1>1, <1>3, <2>5 DEF ActivatePhase, SwitchDeployment, SyncRevision, RevHeard, RevWorker
  <2>6. CASE MarkAppDeployment
    BY <1>3, <2>6, ObservingIs DEF MarkAppDeployment
  <2>7. CASE ForgetRevision \/ ObserveGeneration
    BY <1>3, <2>7, WorkerStops
  <2> QED  BY <1>3, <2>1, <2>2, <2>3, <2>4, <2>5, <2>6, <2>7 DEF RevStep
<1>4. CASE UNCHANGED <<aj, rj>> \/ Restart
  BY <1>1, <1>4 DEF Restart
<1> QED  BY <1>2, <1>3, <1>4 DEF Next, Step, Resync, vars

\* What the worker holds once it has sent the status.
LEMMA PhaseSent ==
    ASSUME Typed, NEW r \in RevIds, RetirePhase(r), ~Fault
    PROVE  /\ aj'.at = r
           /\ \/ aj'.list[r] = rev'[r] /\ rev'[r].phase = "Non-active"
              \/ aj'.list = aj.list /\ rev' = rev
                 /\ (aj.list[r].rv # rev[r].rv \/ ~rev[r].live)
<1> DEFINE held == [aj.list[r] EXCEPT !.phase = "Non-active"]
           new  == PutStatus(rev[r], held)
<1>1. /\ aj \in AdWorker /\ aj.list \in [RevIds -> Revision] /\ aj.list[r] \in Revision
      /\ rev \in [RevIds -> Revision] /\ rev[r] \in Revision
  BY RevsTyped DEF Typed, TypeOK, ClusterTypeOK, AdWorker
<1>2. held \in Revision /\ held.rv = aj.list[r].rv /\ held.phase = "Non-active"
  BY ZenonT(60), <1>1 DEF Revision, Status
<1>3. new.phase = held.phase
  BY <1>1 DEF PutStatus, Stored, Revision
<1>4. \/ rev' = [rev EXCEPT ![r] = new] /\ aj' = [aj EXCEPT !.pc = "spec", !.at = r, !.list[r] = new]
      \/ ~Accepts(held, rev[r]) /\ rev' = rev /\ aj' = [aj EXCEPT !.pc = "spec", !.at = r]
  BY DEF RetirePhase, AdHeard, Refused
<1> HIDE DEF held, new
<1>5. CASE rev' = [rev EXCEPT ![r] = new] /\ aj' = [aj EXCEPT !.pc = "spec", !.at = r, !.list[r] = new]
  BY <1>1, <1>2, <1>3, <1>5 DEF AdWorker
<1>6. CASE ~Accepts(held, rev[r]) /\ rev' = rev /\ aj' = [aj EXCEPT !.pc = "spec", !.at = r]
  BY <1>1, <1>2, <1>6 DEF AdWorker, Accepts
<1> QED  BY <1>4, <1>5, <1>6

LEMMA OtherPhaseSent ==
    ASSUME Typed, NEW r \in RevIds, OtherPhase(r), ~Fault
    PROVE  /\ rj'.at = r
           /\ \/ rj'.list[r] = rev'[r] /\ rev'[r].phase = "Non-active"
              \/ rj'.list = rj.list /\ rev' = rev
                 /\ (rj.list[r].rv # rev[r].rv \/ ~rev[r].live)
<1> DEFINE held == Retired(rj.list[r])
           new  == PutStatus(rev[r], held)
<1>1. /\ rj \in RevWorker /\ rj.list \in [RevIds -> Revision] /\ rj.list[r] \in Revision
      /\ rev \in [RevIds -> Revision] /\ rev[r] \in Revision
  BY RevsTyped DEF Typed, TypeOK, ClusterTypeOK, RevWorker
<1>2. held \in Revision /\ held.rv = rj.list[r].rv /\ held.phase = "Non-active"
  BY ZenonT(60), <1>1 DEF Retired, Revision, Status
<1>3. new.phase = held.phase
  BY <1>1 DEF PutStatus, Stored, Revision
<1>4. \/ rev' = [rev EXCEPT ![r] = new] /\ rj' = [rj EXCEPT !.pc = "spec", !.at = r, !.list[r] = new]
      \/ ~Accepts(held, rev[r]) /\ rev' = rev /\ rj' = [rj EXCEPT !.pc = "spec", !.at = r]
  BY DEF OtherPhase, RevHeard, Refused
<1> HIDE DEF held, new
<1>5. CASE rev' = [rev EXCEPT ![r] = new] /\ rj' = [rj EXCEPT !.pc = "spec", !.at = r, !.list[r] = new]
  BY <1>1, <1>2, <1>3, <1>5 DEF RevWorker
<1>6. CASE ~Accepts(held, rev[r]) /\ rev' = rev /\ rj' = [rj EXCEPT !.pc = "spec", !.at = r]
  BY <1>1, <1>2, <1>6 DEF RevWorker, Accepts
<1> QED  BY <1>4, <1>5, <1>6

LEMMA RetiringKept ==
    ASSUME Typed, Typed', LifeInv, BudgetBounded, Retiring, [Next]_vars
    PROVE  Retiring'
<1> SUFFICES ASSUME Unfailed', NEW r \in RevIds, rev'[r].live
             PROVE  /\ aj'.pc = "spec" /\ aj'.at = r /\ aj'.list[r].rv = rev'[r].rv
                          => rev'[r].phase # "Active"
                    /\ rj'.pc = "spec" /\ rj'.at = r /\ rj'.list[r].rv = rev'[r].rv
                          => rev'[r].phase # "Active"
  BY DEF Retiring, RetiringBy
<1>1. Unfailed /\ ~Fault
  BY BudgetSpent
<1>2. /\ rev'[r] = rev[r] \/ rev'[r].rv > rev[r].rv
      /\ rev[r].rv \in Nat /\ rev'[r].rv \in Nat
      /\ aj.list[r].rv \in Nat /\ aj.list[r].rv <= rev[r].rv
      /\ rj.list[r].rv \in Nat /\ rj.list[r].rv <= rev[r].rv
  BY WritesAreNewer, RevsTyped DEF LifeInv, RevCopies, RevCopy, Revision
<1>3. ASSUME aj' = aj, aj'.pc = "spec", aj'.at = r, aj'.list[r].rv = rev'[r].rv
      PROVE  rev'[r].phase # "Active"
  <2>1. aj.pc = "spec" /\ aj.at = r /\ aj.list[r].rv = rev'[r].rv => rev'[r] = rev[r]
    BY <1>2
  <2> QED  BY <1>1, <1>3, <2>1 DEF Retiring, RetiringBy
<1>4. ASSUME rj' = rj, rj'.pc = "spec", rj'.at = r, rj'.list[r].rv = rev'[r].rv
      PROVE  rev'[r].phase # "Active"
  <2>1. rj.pc = "spec" /\ rj.at = r /\ rj.list[r].rv = rev'[r].rv => rev'[r] = rev[r]
    BY <1>2
  <2> QED  BY <1>1, <1>4, <2>1 DEF Retiring, RetiringBy
<1>5. ASSUME NEW s \in RevIds, RetirePhase(s), aj'.at = r, aj'.list[r].rv = rev'[r].rv
      PROVE  rev'[r].phase # "Active"
  BY <1>1, <1>5, PhaseSent
<1>6. ASSUME NEW s \in RevIds, OtherPhase(s), rj'.at = r, rj'.list[r].rv = rev'[r].rv
      PROVE  rev'[r].phase # "Active"
  BY <1>1, <1>6, OtherPhaseSent
<1> QED  BY <1>3, <1>4, <1>5, <1>6, AboutToRetire

\* What is live, or has been, has a version; and it got it with the secret.
LEMMA LiveIsBorn ==
    ASSUME Typed, LifeInv, SecretFirst, NEW r \in RevIds, rev[r].live \/ rev[r].rv > 0
    PROVE  rev[r].rv > 0 /\ objs.secret
<1>1. rev[r].rv \in Nat /\ ~NoRevision.live
  BY RevsTyped DEF Revision, NoRevision
<1> QED  BY <1>1 DEF LifeInv, Born, SecretFirst

\* The worker does not take up in vain what it heard of and did not observe.
LEMMA TakenUp ==
    ASSUME Typed, LifeInv, SecretFirst, NEW r \in RevIds, RevBegin(r), cache.rev[r] = rev[r]
    PROVE  /\ rev[r].live /\ rev[r].gen # rev[r].obs => Working' /\ rj'.key = r
           /\ ~rev[r].live /\ rev[r].rv > 0 => rj'.pc = "forget" /\ rj'.key = r
BY LiveIsBorn, BegunOwn DEF Working, Gone, Unobserved

\* With a write that is accepted the generation is observed.
LEMMA ObservedOrRefused ==
    ASSUME Typed, LifeInv, OwnCopy, Unfailed, ~Fault, ObserveGeneration,
           NEW r \in RevIds, rj.key = r, rev[r].live
    PROVE  rev'[r].gen = rev'[r].obs \/ Pending(r)
<1> DEFINE held == ObservedOwn
<1>1. rj.own \in Revision /\ rev[r] \in Revision /\ rev \in [RevIds -> Revision] /\ Working
  BY RevsTyped DEF Typed, TypeOK, ClusterTypeOK, RevWorker, ObserveGeneration, Working
<1>2. held \in Revision /\ held.rv = rj.own.rv /\ held.obs = rj.own.gen
  BY <1>1 DEF ObservedOwn, Revision
<1>3. \/ Accepts(held, rev[r]) /\ rev' = [rev EXCEPT ![r] = PutStatus(rev[r], held)]
      \/ ~Accepts(held, rev[r])
  BY DEF ObserveGeneration, Refused
<1> HIDE DEF held
<1>4. CASE ~Accepts(held, rev[r])
  BY <1>1, <1>2, <1>4 DEF Accepts, OwnCopy, OwnFollows
<1>5. CASE Accepts(held, rev[r]) /\ rev' = [rev EXCEPT ![r] = PutStatus(rev[r], held)]
  <2>1. rj.own = rev[r]
    BY <1>1, <1>2, <1>5 DEF Accepts, OwnCopy, OwnFollows
  <2>2. PutStatus(rev[r], held).obs = held.obs /\ PutStatus(rev[r], held).gen = rev[r].gen
    BY <1>1 DEF PutStatus, Stored, Revision
  <2> QED  BY <1>1, <1>2, <1>5, <2>1, <2>2
<1> QED  BY <1>3, <1>4, <1>5

LEMMA NoticedKept ==
    ASSUME Typed, Typed', LifeInv, QuietInv, [Next]_vars
    PROVE  Noticed'
<1> SUFFICES ASSUME Unfailed', NEW r \in RevIds, rev'[r].live, rev'[r].gen # rev'[r].obs
             PROVE  Pending(r)' \/ (Working' /\ rj'.key = r)
  BY DEF Noticed, LiveIn, Pending
<1>1. Unfailed /\ ~Fault
  BY BudgetSpent DEF QuietInv
<1>2. rev'[r] # rev[r] => Pending(r)'
  BY PendingKept
<1>3. CASE rev'[r] = rev[r] /\ Pending(r)
  <2>1. Restart => Pending(r)'
    BY <1>3 DEF Restart, LiveIn, Pending
  <2>2. RevBegin(r) /\ cache.rev[r] = rev[r] => Working' /\ rj'.key = r
    BY <1>3, TakenUp DEF QuietInv
  <2> QED  BY <1>3, <2>1, <2>2, PendingKept
<1>4. CASE rev'[r] = rev[r] /\ ~Pending(r)
  <2>1. Working /\ rj.key = r
    BY <1>1, <1>4 DEF QuietInv, Noticed, LiveIn
  <2>2. ~ForgetRevision /\ ~(\E s \in RevIds : RevBegin(s))
    BY <2>1 DEF Working, ForgetRevision, RevBegin
  <2>3. ClearOrigin => Working' /\ rj'.key = r
    BY <2>1, ClearedOwn DEF Working
  <2>4. Restart => Pending(r)'
    BY <1>4 DEF Restart, LiveIn, Pending
  <2>5. ~ObserveGeneration
    BY <1>1, <1>4, <2>1, ObservedOrRefused DEF QuietInv
  <2> QED  BY <2>1, <2>2, <2>3, <2>4, <2>5, WorkerMoves DEF Working, Continues
<1> QED  BY <1>2, <1>3, <1>4

\* Lyra does not remember what it was told to forget, and it was told when the
\* call did not fail.
LEMMA ForgottenGrows ==
    ASSUME Typed, LifeInv, [Next]_vars
    PROVE  /\ lyra.forgotten \subseteq lyra'.forgotten
           /\ ForgetRevision /\ ~Fault => rj.key \in lyra'.forgotten
<1>1. lyra.forgotten \subseteq lyra'.forgotten
  BY StepWrites DEF Writes, Written, Keeps
<1>2. ASSUME ForgetRevision, ~Fault
      PROVE  rj.key \in lyra'.forgotten
  <2>1. PICK call \in Calls : Asked(call, [lyra EXCEPT !.forgotten = @ \cup {rj.key}])
    BY <1>2 DEF ForgetRevision
  <2>2. call.how = "answered"
    BY <1>2, <2>1 DEF Asked
  <2>3. call.took
    BY <2>2 DEF Calls
  <2>4. lyra' = [lyra EXCEPT !.forgotten = @ \cup {rj.key}]
    BY <2>1, <2>3 DEF Asked
  <2> QED  BY <2>4 DEF Typed, TypeOK, ClusterTypeOK, LyraState
<1> QED  BY <1>1, <1>2

LEMMA DeletionKept ==
    ASSUME Typed, Typed', LifeInv, QuietInv, [Next]_vars
    PROVE  DeletionNoticed'
<1> SUFFICES ASSUME Unfailed', Unrestarted', NEW r \in RevIds, rev'[r].rv > 0, ~rev'[r].live
             PROVE  r \in lyra'.forgotten \/ Pending(r)' \/ (rj'.pc = "forget" /\ rj'.key = r)
  BY DEF DeletionNoticed, Pending
<1>1. Unfailed /\ ~Fault /\ Unrestarted /\ ~Restart
  BY BudgetSpent DEF QuietInv
<1>2. rev'[r] # rev[r] => Pending(r)'
  BY PendingKept
<1>3. CASE rev'[r] = rev[r] /\ Pending(r)
  <2>1. RevBegin(r) /\ cache.rev[r] = rev[r] => rj'.pc = "forget" /\ rj'.key = r
    BY <1>3, TakenUp DEF QuietInv
  <2> QED  BY <1>1, <1>3, <2>1, PendingKept
<1>4. CASE rev'[r] = rev[r] /\ r \in lyra.forgotten
  BY <1>4, ForgottenGrows
<1>5. CASE rev'[r] = rev[r] /\ rj.pc = "forget" /\ rj.key = r
  <2>1. ~Continues /\ ~(\E s \in RevIds : RevBegin(s)) /\ ~ClearOrigin /\ ~ObserveGeneration
    BY <1>5 DEF Continues, Working, RevBegin, ClearOrigin, ObserveGeneration
  <2>2. ForgetRevision => r \in lyra'.forgotten
    BY <1>1, <1>5, ForgottenGrows
  <2> QED  BY <1>1, <1>5, <2>1, <2>2, WorkerMoves
<1> QED  BY <1>1, <1>2, <1>3, <1>4, <1>5 DEF QuietInv, DeletionNoticed

-----------------------------------------------------------------------------
(* The marker.                                                             *)

\* The informer's copy is the old one, or what is stored.
LEMMA AdCopiesFrom ==
    ASSUME Typed, ImagesKept, [Next]_vars
    PROVE  /\ Grown /\ ad.rv \in Nat /\ ad'.rv \in Nat
           /\ cache.ad.rv \in Nat /\ cache.ad.rv <= ad.rv
           /\ cache'.ad = cache.ad \/ (cache'.ad = ad /\ ad' = ad)
           /\ cache'.ad # cache.ad => queue'.ad \/ Restart
<1>1. Grown /\ ad.rv \in Nat /\ ad'.rv \in Nat
  <2>1. Typed'
    BY NextTyped
  <2> QED  BY <2>1, NextImagesKept DEF Typed, TypeOK, ClusterTypeOK, AppDeployment
<1>2. cache.ad.rv \in Nat /\ cache.ad.rv <= ad.rv /\ cache \in Cache /\ queue \in Queue
  BY AdsTyped DEF AppDeployment, ImagesKept, CopyOf, Typed, TypeOK, ClusterTypeOK
<1>3. CASE AdStep \/ RevStep
  BY <1>1, <1>2, <1>3, AdStepKeepsImage, RevStepKeepsImage
<1>4. CASE Deliver
  BY <1>1, <1>2, <1>4 DEF Deliver, DeliverAppDeployment, DeliverDeployment, DeliverRevision,
       WatchedAd, Cache, Queue
<1>5. CASE Restart
  <2>1. cache'.ad = ad /\ ad' = ad
    BY <1>5 DEF Restart
  <2> QED  BY <1>1, <1>2, <1>5, <2>1
<1>6. CASE Resync \/ User \/ ReportStatus \/ Collect \/ UNCHANGED vars
  <2>1. cache' = cache
    BY <1>6 DEF Resync, vars, User, EditImage, Activate, DeleteAppDeployment, ProvideSecret,
         ReportStatus, Collect, CollectDeployment, CollectRevision, CollectModule
  <2> QED  BY <1>1, <1>2, <2>1
<1> QED  BY <1>3, <1>4, <1>5, <1>6 DEF Next, Step

LEMMA AdCopyKept ==
    ASSUME Typed, ImagesKept, AdCopy, [Next]_vars
    PROVE  AdCopy'
<1>1. CASE cache'.ad = ad /\ ad' = ad
  BY <1>1 DEF AdCopy
<1>2. CASE cache'.ad = cache.ad
  BY <1>2, AdCopiesFrom DEF AdCopy, Grown
<1> QED  BY <1>1, <1>2, AdCopiesFrom

\* What an answer, and the marker, make the worker do next.
LEMMA AnsweredNext ==
    ASSUME NEW j \in AdWorker, j.id # NoRev
    PROVE  /\ AfterObjects(j).pc \in {"idle", "mark", "list"}
           /\ AfterModule(j).pc \in {"idle", "mark", "list"} \/ AfterModule(j).id # NoRev
           /\ j.ad.marker => /\ AfterObjects(j).pc = "mark" /\ AfterObjects(j).ad = j.ad
                             /\ AfterModule(j).pc \in {"service", "mark"}
                             /\ AfterModule(j).ad = j.ad
<1>1. AfterObjects(j).pc \in {"idle", "mark", "list"}
  BY DEF AfterObjects, AdIdle
<1>2. j.ad.marker => AfterObjects(j).pc = "mark" /\ AfterObjects(j).ad = j.ad
  BY DEF AfterObjects, AdIdle
<1>3. /\ [j EXCEPT !.pc = "service"].pc = "service" /\ [j EXCEPT !.pc = "service"].id = j.id
      /\ [j EXCEPT !.pc = "service"].ad = j.ad
  BY DEF AdWorker
<1> QED  BY <1>1, <1>2, <1>3 DEF AfterModule

\* Where no call fails, Lyra's answer is the id it was asked to confirm, or a new one.
LEMMA SyncAnswered ==
    ASSUME Typed, SyncApp, ~Fault
    PROVE  \E j \in AdWorker : /\ j.id # NoRev /\ j.ad = aj.ad
                               /\ \/ aj' = j /\ j.pc = "module"
                                  \/ aj' = AfterModule(j)
<1>1. PICK call \in Calls : /\ Asked(call, Synced(aj.ad.cur))
                            /\ call.how = "answered"
                                  => LET j == [aj EXCEPT !.id = Reply(aj.ad.cur)]
                                     IN  aj' = IF j.app THEN [j EXCEPT !.pc = "module"]
                                               ELSE AfterModule(j)
  BY DEF SyncApp
<1>2. call.how = "answered"
  BY <1>1 DEF Asked
<1> DEFINE j == [aj EXCEPT !.id = Reply(aj.ad.cur)]
<1>3. Reply(aj.ad.cur) \in RevIds
  BY DEF SyncApp
<1>4. Reply(aj.ad.cur) \in 0 .. MaxRevs /\ Reply(aj.ad.cur) # NoRev
  BY <1>3, RevsAssumption DEF RevIds, NoRev
<1>5. j \in AdWorker /\ j.id # NoRev /\ j.ad = aj.ad
  BY <1>4 DEF Typed, TypeOK, AdWorker
<1>6. aj' = [j EXCEPT !.pc = "module"] \/ aj' = AfterModule(j)
  BY <1>1, <1>2
<1> HIDE DEF j
<1>7. /\ [j EXCEPT !.pc = "module"] \in AdWorker /\ [j EXCEPT !.pc = "module"].id = j.id
      /\ [j EXCEPT !.pc = "module"].ad = j.ad /\ [j EXCEPT !.pc = "module"].pc = "module"
  BY <1>5 DEF AdWorker, AdSteps
<1> QED  BY <1>5, <1>6, <1>7

LEMMA IdAnsweredKept ==
    ASSUME Typed, BudgetBounded, IdAnswered, [Next]_vars
    PROVE  IdAnswered'
<1> SUFFICES ASSUME Unfailed', aj'.pc \in {"module", "subdomain", "service"}
             PROVE  aj'.id # NoRev
  BY DEF IdAnswered
<1>1. Unfailed /\ ~Fault
  BY BudgetSpent
<1>2. /\ aj \in AdWorker /\ AdIdle.pc = "idle"
      /\ aj.pc \in {"module", "subdomain", "service"} => aj.id # NoRev
  BY <1>1 DEF Typed, TypeOK, AdIdle, IdAnswered
<1>3. CASE AdBegin \/ HandleAppDeploymentChanges
  <2>1. AdIdle \in AdWorker
    BY NothingTyped
  <2>2. ~HandleAppDeploymentChanges
    BY <1>2 DEF HandleAppDeploymentChanges, AdHeard, Changed, Same, AdWorker
  <2>3. ~AdBegin
    BY <1>2, <2>1 DEF AdBegin, AdFail, AdWorker
  <2> QED  BY <1>3, <2>2, <2>3
<1>4. CASE SyncApp
  BY <1>1, <1>4, SyncAnswered, AnsweredNext
<1>5. CASE CreateModule
  BY <1>2, <1>5 DEF CreateModule, AdFail, AdWorker
<1>6. CASE CreateSubdomain \/ HandleServiceChanges
  BY <1>2, <1>6, AnsweredNext DEF CreateSubdomain, HandleServiceChanges, AdFail
<1>7. CASE ConsumeMarker \/ ListRevisions \/ CreateRevision \/ Prune
  BY <1>2, <1>7 DEF ConsumeMarker, ListRevisions, CreateRevision, Prune, AdHeard, AdWorker
<1>8. CASE \E r \in RevIds : RetirePhase(r) \/ RetireSpec(r)
  BY <1>2, <1>8 DEF RetirePhase, RetireSpec, AdHeard, AdWorker
<1>9. CASE DeleteApp \/ DeleteService
  BY <1>2, <1>9 DEF DeleteApp, DeleteService, AdFail, AdWorker
<1>10. CASE ~AdStep
  BY <1>2, <1>10 DEF Next, Step, Restart, Resync, vars
<1> QED  BY <1>3, <1>4, <1>5, <1>6, <1>7, <1>8, <1>9, <1>10 DEF AdStep

\* The worker keeps the marker in its hands, puts the key back, or takes the
\* marker off.
LEMMA HeldKept ==
    ASSUME Typed, BudgetBounded, IdAnswered, Unfailed, ~Fault, AdStep,
           MarkerHeld, ad.live, ad.marker
    PROVE  \/ aj'.pc \in {"sync", "module", "subdomain", "service", "mark"}
              /\ aj'.ad.rv = aj.ad.rv /\ aj'.ad.marker
           \/ queue'.ad
           \/ ~ad'.marker
<1>1. /\ aj \in AdWorker /\ aj.ad.rv = ad.rv /\ aj.ad.marker /\ queue \in Queue
      /\ aj.pc \in {"apply", "sync", "module", "subdomain", "service", "mark"}
      /\ aj.pc \in {"module", "subdomain", "service"} => aj.id # NoRev
      /\ ad \in AppDeployment /\ aj.ad \in AppDeployment
  BY AdsTyped DEF MarkerHeld, IdAnswered, Typed, TypeOK, ClusterTypeOK
<1>2. CASE HandleAppDeploymentChanges
  <2>1. aj' \in {Changed, Same}
    BY <1>2 DEF HandleAppDeploymentChanges, AdHeard
  <2>2. /\ Changed.pc = "sync" /\ Changed.ad.rv = aj.ad.rv /\ Changed.ad.marker = aj.ad.marker
        /\ Same.pc = "sync" /\ Same.ad = aj.ad
    BY <1>1 DEF Changed, Same, AdWorker, AppDeployment
  <2> QED  BY <1>1, <2>1, <2>2
<1>3. CASE SyncApp
  BY <1>1, <1>3, SyncAnswered, AnsweredNext
<1>4. CASE CreateModule
  BY <1>1, <1>4 DEF CreateModule, AdFail, AdWorker, Queue
<1>5. CASE CreateSubdomain \/ HandleServiceChanges
  BY <1>1, <1>5, AnsweredNext DEF CreateSubdomain, HandleServiceChanges, AdFail, Queue
<1>6. CASE ConsumeMarker
  <2>1. Accepts(aj.ad, ad)
    BY <1>1 DEF Accepts
  <2>2. ad' = Stored(ad, Unmarked)
    BY <1>6, <2>1 DEF ConsumeMarker, Refused
  <2>3. Unmarked \in AppDeployment /\ ~Unmarked.marker
    <3>1. Spelling(aj.ad.image) \in OptImage
      BY <1>1, SpellingTyped DEF AppDeployment
    <3> QED  BY <1>1, <3>1 DEF Unmarked, AppDeployment, AdWorker
  <2>4. ad' = ad => Unmarked = ad \/ ad' = [Unmarked EXCEPT !.rv = ad.rv + 1]
    BY <2>2 DEF Stored
  <2>5. ~ad'.marker
    BY <1>1, <2>2, <2>3 DEF Stored, AppDeployment
  <2> QED  BY <2>5
<1>7. CASE AdBegin \/ ListRevisions \/ CreateRevision \/ Prune \/ DeleteApp \/ DeleteService
  BY <1>1, <1>7 DEF AdBegin, ListRevisions, CreateRevision, Prune, DeleteApp, DeleteService
<1>8. CASE \E r \in RevIds : RetirePhase(r) \/ RetireSpec(r)
  BY <1>1, <1>8 DEF RetirePhase, RetireSpec
<1> QED  BY <1>2, <1>3, <1>4, <1>5, <1>6, <1>7, <1>8 DEF AdStep

\* The key leaves the queue only for the worker's hands.
LEMMA AdKeyKept ==
    ASSUME Typed, [Next]_vars
    PROVE  queue.ad => queue'.ad \/ AdBegin \/ Restart
<1>1. queue \in Queue /\ cache \in Cache
  BY DEF Typed, TypeOK, ClusterTypeOK
<1>2. CASE AdStep
  BY <1>1, <1>2 DEF AdStep, AdFail, HandleAppDeploymentChanges, SyncApp,
       CreateModule, CreateSubdomain, HandleServiceChanges, ConsumeMarker,
       ListRevisions, clusterVars, RetirePhase, RetireSpec, CreateRevision, Prune,
       DeleteApp, DeleteService, Queue
<1>3. CASE RevStep
  BY <1>1, <1>3 DEF RevStep, RevBegin, ForgetRevision, ClearOrigin, ReadAppDeployment,
       clusterVars, OtherPhase, OtherSpec, ActivatePhase, SwitchDeployment, SyncRevision,
       MarkAppDeployment, ObserveGeneration, Queue
<1>4. CASE User \/ ReportStatus \/ Collect \/ UNCHANGED vars
  BY <1>4 DEF vars, User, EditImage, Activate, DeleteAppDeployment, ProvideSecret,
       ReportStatus, Collect, CollectDeployment, CollectRevision, CollectModule
<1>5. CASE Deliver \/ Resync
  BY <1>1, <1>5 DEF Deliver, DeliverAppDeployment, DeliverDeployment, DeliverRevision,
       Resync, Queue
<1> QED  BY <1>2, <1>3, <1>4, <1>5 DEF Next, Step

LEMMA MarkerKept ==
    ASSUME Typed, ImagesKept, QuietInv, [Next]_vars
    PROVE  MarkerNoticed'
<1> SUFFICES ASSUME Unfailed', ad'.live, ad'.marker
             PROVE  AdPending' \/ MarkerHeld'
  BY DEF MarkerNoticed
<1>1. /\ Unfailed /\ ~Fault /\ aj \in AdWorker /\ queue \in Queue
      /\ Restart => queue'.ad = ad.live /\ ad' = ad
  BY BudgetSpent DEF QuietInv, Typed, TypeOK, ClusterTypeOK, Restart
<1>2. CASE ad' # ad
  BY <1>2, AdCopiesFrom DEF Grown, AdPending
<1>3. CASE ad' = ad /\ cache.ad.rv # ad.rv
  BY <1>1, <1>3, AdCopiesFrom DEF AdPending
<1>4. CASE ad' = ad /\ cache.ad.rv = ad.rv /\ queue.ad
  <2>1. CASE AdBegin
    <3>1. cache.ad = ad /\ objs.secret
      BY <1>4 DEF QuietInv, AdCopy, SecretFirst
    <3>2. aj' = [AdIdle EXCEPT !.pc = "apply", !.ad = cache.ad]
      BY <1>1, <1>4, <2>1, <3>1 DEF AdBegin
    <3>3. aj'.pc = "apply" /\ aj'.ad = cache.ad
      BY <3>2, NothingTyped DEF AdWorker
    <3> QED  BY <1>4, <3>1, <3>3 DEF MarkerHeld
  <2> QED  BY <1>1, <1>4, <2>1, AdKeyKept DEF AdPending
<1>5. CASE ad' = ad /\ MarkerHeld
  <2>1. AdStep => AdPending' \/ MarkerHeld'
    BY <1>1, <1>5, HeldKept DEF QuietInv, AdPending, MarkerHeld
  <2>2. aj' = aj => MarkerHeld'
    BY <1>5 DEF MarkerHeld
  <2> QED  BY <1>1, <1>5, <2>1, <2>2 DEF Next, Step, Resync, vars, AdPending
<1> QED  BY <1>1, <1>2, <1>3, <1>4, <1>5 DEF QuietInv, MarkerNoticed, AdPending

\* The whole invariant, step by step.
LEMMA QuietKept ==
    Typed /\ ImagesKept /\ LifeInv /\ QuietInv /\ [Next]_vars => QuietInv'
<1> SUFFICES ASSUME Typed, ImagesKept, LifeInv, QuietInv, [Next]_vars
             PROVE  QuietInv'
  OBVIOUS
<1>1. /\ BudgetBounded /\ SecretFirst /\ OwnCopy /\ OwnState /\ Retiring
      /\ AdCopy /\ IdAnswered
  BY DEF QuietInv
<1>2. Typed'
  BY NextTyped
<1>3. BudgetBounded' /\ SecretFirst' /\ OwnCopy' /\ OwnState' /\ Retiring'
  BY <1>1, <1>2, BudgetSpent, SecretKept, OwnCopyKept, OwnStateKept, RetiringKept
<1>4. Taken' /\ Noticed' /\ DeletionNoticed'
  BY <1>2, TakenKept, NoticedKept, DeletionKept
<1>5. AdCopy' /\ IdAnswered' /\ MarkerNoticed'
  BY <1>1, AdCopyKept, IdAnsweredKept, MarkerKept
<1> QED  BY <1>3, <1>4, <1>5 DEF QuietInv

\* Where no call fails, Phase follows spec.status, and goes on doing so.
LEMMA PhaseFollowsKept ==
    ASSUME Typed, LifeInv, QuietInv, PhaseFollowsSpec, [Next]_vars
    PROVE  PhaseFollowsSpec'
<1> SUFFICES ASSUME Unfailed', NEW r \in RevIds, rev'[r].live, rev'[r].phase = "Active"
             PROVE  rev'[r].status = "Active"
  BY DEF PhaseFollowsSpec, LiveIn
<1>1. Unfailed
  BY BudgetSpent DEF QuietInv
<1>2. PhaseKept(r)
  BY <1>1, StepBooks
<1> QED  BY <1>1, <1>2 DEF PhaseKept, PhaseFollowsSpec, LiveIn

-----------------------------------------------------------------------------
(* Steps at which nothing goes wrong.                                      *)

\* A step at which no call fails, the user neither activates nor deletes, the
\* manager goes on, and Kubernetes reports nothing.
Unspent == UNCHANGED <<budget.faults, budget.switches, budget.deletes,
                       budget.restarts, budget.status>>

\* What such a step of an application that exists can be.
CalmNext ==
    \/ UNCHANGED vars
    \/ (\E i \in Images : EditImage(i)) /\ UNCHANGED <<aj, rj>>
    \/ ProvideSecret /\ UNCHANGED <<aj, rj>>
    \/ Deliver /\ UNCHANGED <<aj, rj>>
    \/ AdStep /\ UNCHANGED rj
    \/ RevStep /\ UNCHANGED aj

LEMMA CalmStep ==
    ASSUME Typed, ad.live, [Next]_vars, Unspent
    PROVE  ~Fault /\ CalmNext
<1>1. /\ budget.faults \in Nat /\ budget.switches \in Nat /\ budget.deletes \in Nat
      /\ budget.restarts \in Nat /\ budget.status \in Nat /\ budget \in Budget
  BY DEF Typed, TypeOK, ClusterTypeOK, Budget
<1>2. ~Fault
  <2>1. Fault => budget'.faults = budget.faults - 1
    BY <1>1 DEF Fault, Budget
  <2> QED  BY <1>1, <2>1 DEF Unspent
<1>3. ~Restart /\ ~Resync
  <2>1. Restart \/ Resync => budget'.restarts = budget.restarts - 1
    BY <1>1 DEF Restart, Resync, Budget
  <2> QED  BY <1>1, <2>1 DEF Unspent
<1>4. ~ReportStatus
  <2>1. ReportStatus => budget'.status = budget.status - 1
    BY <1>1 DEF ReportStatus, Budget
  <2> QED  BY <1>1, <2>1 DEF Unspent
<1>5. ~DeleteAppDeployment
  <2>1. DeleteAppDeployment => budget'.deletes = budget.deletes - 1
    BY <1>1 DEF DeleteAppDeployment, Budget
  <2> QED  BY <1>1, <2>1 DEF Unspent
<1>6. ~\E r \in RevIds : Activate(r)
  <2>1. ASSUME NEW r \in RevIds, Activate(r) PROVE budget'.switches = budget.switches - 1
    BY <1>1, <2>1 DEF Activate, Budget
  <2> QED  BY <1>1, <2>1 DEF Unspent
<1>7. ~Collect
  BY DEF Collect, CollectDeployment, CollectRevision, CollectModule
<1> QED  BY <1>2, <1>3, <1>4, <1>5, <1>6, <1>7 DEF CalmNext, Next, Step, User

\* What the environment may do never grows.
BudgetKept ==
    /\ budget.faults <= MaxFaults /\ budget.switches <= MaxSwitches
    /\ budget.deletes <= MaxDeletes /\ budget.restarts <= MaxRestarts
    /\ budget.status <= MaxStatus /\ budget.edits <= MaxEdits

LEMMA OnlySpent ==
    ASSUME Typed, BudgetKept, [Next]_vars
    PROVE  /\ BudgetKept' /\ (Undisturbed' => Undisturbed /\ Unspent)
           /\ budget'.edits = MaxEdits =>
                 budget.edits = MaxEdits /\ ~\E i \in Images : EditImage(i)
<1>1. /\ budget \in Budget /\ MaxFaults \in Nat /\ MaxSwitches \in Nat /\ MaxDeletes \in Nat
      /\ MaxRestarts \in Nat /\ MaxStatus \in Nat /\ MaxEdits \in Nat
      /\ budget.faults \in Nat /\ budget.switches \in Nat /\ budget.deletes \in Nat
      /\ budget.restarts \in Nat /\ budget.status \in Nat /\ budget.edits \in Nat
  BY BudgetAssumption DEF Typed, TypeOK, ClusterTypeOK, Budget
<1> DEFINE Spends ==
             /\ budget'.faults <= budget.faults /\ budget'.switches <= budget.switches
             /\ budget'.deletes <= budget.deletes /\ budget'.restarts <= budget.restarts
             /\ budget'.status <= budget.status /\ budget'.edits <= budget.edits
             /\ budget'.faults \in Nat /\ budget'.switches \in Nat /\ budget'.deletes \in Nat
             /\ budget'.restarts \in Nat /\ budget'.status \in Nat /\ budget'.edits \in Nat
<1>2. budget' = budget => Spends
  BY <1>1
<1>3. Fault => Spends
  BY <1>1 DEF Fault, Budget
<1>4. AdStep \/ RevStep => Spends
  <2> HIDE DEF Spends
  <2> QED  BY <1>2, <1>3, WorkersSpend
<1>5. Restart \/ Resync \/ ReportStatus => Spends
  BY <1>1 DEF Restart, Resync, ReportStatus, Budget
<1>6. User => Spends
  <2>1. (\E i \in Images : EditImage(i)) => Spends
    BY <1>1 DEF EditImage, Budget
  <2>2. (\E r \in RevIds : Activate(r)) => Spends
    BY <1>1 DEF Activate, Budget
  <2>3. DeleteAppDeployment => Spends
    BY <1>1 DEF DeleteAppDeployment, Budget
  <2>4. ProvideSecret => Spends
    BY <1>1 DEF ProvideSecret, Budget
  <2> HIDE DEF Spends
  <2> QED  BY <2>1, <2>2, <2>3, <2>4 DEF User
<1>7. Deliver \/ Collect \/ UNCHANGED vars => budget' = budget
  BY DEF Deliver, DeliverAppDeployment, DeliverDeployment, DeliverRevision, Collect,
     CollectDeployment, CollectRevision, CollectModule, vars
<1>8. Spends
  <2> HIDE DEF Spends
  <2> QED  BY <1>2, <1>4, <1>5, <1>6, <1>7 DEF Next, Step
<1>9. (\E i \in Images : EditImage(i)) => budget'.edits = budget.edits - 1
  BY <1>1 DEF EditImage, Budget
<1> QED  BY <1>1, <1>8, <1>9 DEF BudgetKept, Undisturbed, Unfailed, Unspent

\* Nobody will put in service what is dull.
Dull(v) == v.live => ~v.origin /\ (v.gen # v.obs => v.status # "Active")

\* Retiring and observing puts nothing in service.
Dulled(old, new) ==
    \/ new = old
    \/ /\ new.live = old.live /\ new.origin = old.origin
       /\ new.status = "Active" => old.status = "Active"
       /\ \/ new.gen = new.obs \/ new.status # "Active"
          \/ new.gen = old.gen /\ new.obs = old.obs /\ new.status = old.status

LEMMA StatusDulls ==
    ASSUME NEW old \in Revision, NEW held \in Revision, held.obs \in {old.obs, old.gen}
    PROVE  Dulled(old, PutStatus(old, held))
<1>1. /\ PutStatus(old, held).gen = old.gen /\ PutStatus(old, held).obs = held.obs
      /\ PutStatus(old, held).origin = old.origin /\ PutStatus(old, held).status = old.status
      /\ PutStatus(old, held).live = old.live
  BY DEF PutStatus, Stored, Revision
<1> QED  BY <1>1 DEF Dulled

\* Lyra's answer: the id that is current, or the next one.
LEMMA Answered ==
    ASSUME Typed, SyncApp, ~Fault
    PROVE  LET j == [aj EXCEPT !.id = Reply(aj.ad.cur)]
           IN  /\ aj' = IF j.app THEN [j EXCEPT !.pc = "module"] ELSE AfterModule(j)
               /\ lyra' = Synced(aj.ad.cur) /\ Reply(aj.ad.cur) \in RevIds
               /\ UNCHANGED <<ad, dep, rev, objs, cache, queue, budget>>
<1>1. PICK call \in Calls :
         /\ Asked(call, Synced(aj.ad.cur))
         /\ call.how = "answered" =>
               LET j == [aj EXCEPT !.id = Reply(aj.ad.cur)]
               IN  /\ aj' = IF j.app THEN [j EXCEPT !.pc = "module"] ELSE AfterModule(j)
                   /\ UNCHANGED queue
  BY DEF SyncApp
<1>2. call.how = "answered"
  BY <1>1 DEF Asked
<1>3. call.took
  BY <1>2 DEF Calls
<1>4. lyra' = Synced(aj.ad.cur) /\ UNCHANGED budget
  BY <1>1, <1>2, <1>3 DEF Asked
<1> QED  BY <1>1, <1>2, <1>4 DEF SyncApp

\* The oldest Revision of a list is one of the list.
LEMMA OldestIn ==
    ASSUME NEW S \in SUBSET Nat, S # {}
    PROVE  (CHOOSE r \in S : \A s \in S : r <= s) \in S
<1>1. IsWellFoundedOn({ss \in Nat \X Nat : ss[1] < ss[2]}, Nat)
  BY NatLessThanWellFounded DEF OpToRel
<1>2. PICK r \in S : \A s \in S : ~(<<s, r>> \in {ss \in Nat \X Nat : ss[1] < ss[2]})
  BY <1>1, WFMin
<1>3. \A s \in S : ~(s < r)
  BY <1>2
<1>4. \A s \in S : r <= s
  BY <1>3
<1> QED  BY <1>4

-----------------------------------------------------------------------------
(* The theorems.                                                           *)

LEMMA QuietInvariant == Spec => [](Typed /\ ImagesKept /\ LifeInv /\ QuietInv)
<1>1. Typed /\ ImagesKept /\ LifeInv /\ QuietInv /\ [Next]_vars
         => (Typed /\ ImagesKept /\ LifeInv /\ QuietInv)'
  BY NextTyped, NextImagesKept, LifeKept, QuietKept
<1> QED  BY InitTyped, InitImagesKept, InitLife, InitQuiet, <1>1, PTL DEF Spec

\* Where no call fails, a Revision reported Active is one whose spec says
\* Active, although revisionHandleAppDeploymentChanges and
\* handleRevisionChanges retire a Revision in two writes, status before spec,
\* while the other may be activating it.
THEOREM PhaseFollows == Spec => []PhaseFollowsSpec
<1>1. Init => PhaseFollowsSpec
  <2>1. Init => \A r \in RevIds : rev[r] = NoRevision
    BY DEF Init, ClusterInit, NoRevisions
  <2>2. ~NoRevision.live
    BY DEF NoRevision
  <2> QED  BY <2>1, <2>2 DEF PhaseFollowsSpec, LiveIn
<1>2. Typed /\ ImagesKept /\ LifeInv /\ QuietInv /\ PhaseFollowsSpec /\ [Next]_vars
         => PhaseFollowsSpec'
  BY PhaseFollowsKept
<1> QED  BY <1>1, <1>2, QuietInvariant, PTL DEF Spec

\* Where no call fails, no generation of a Revision is left unobserved at rest:
\* the deferred status update of RevisionReconciler.Reconcile is refused only
\* when there has been a write whose event brings the Revision back.
THEOREM GenerationsAreObserved == Spec => []GenerationsObserved
<1>1. QuietInv => GenerationsObserved
  BY DEF QuietInv, Noticed, Pending, Working, GenerationsObserved, Quiescent
<1> QED  BY <1>1, QuietInvariant, PTL

\* Where no call fails, every Revision that the AppDeployment controller created
\* is at rest without its origin: RevisionReconciler.Reconcile took it over.
THEOREM OriginsAreCleared == Spec => []OriginsCleared
<1>1. QuietInv => OriginsCleared
  <2>1. QuietInv => GenerationsObserved
    BY DEF QuietInv, Noticed, Pending, Working, GenerationsObserved, Quiescent
  <2> QED  BY <2>1 DEF QuietInv, Taken, GenerationsObserved, OriginsCleared
<1> QED  BY <1>1, QuietInvariant, PTL

\* Where no call fails, the marker revisionHandleAppDeploymentChanges sets on
\* the AppDeployment is at rest taken off: it would keep the next edit from
\* getting its Revision.
THEOREM MarkersAreConsumed == Spec => []MarkerConsumed
<1>1. QuietInv => MarkerConsumed
  BY DEF QuietInv, MarkerNoticed, AdPending, MarkerHeld, MarkerConsumed, Quiescent
<1> QED  BY <1>1, QuietInvariant, PTL

=============================================================================
