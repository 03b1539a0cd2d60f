# Verification of the Lyrid operator

TLA+ modules, model-checking configurations and machine-checked proofs for the
Kubernetes operator of this repository: the controllers that keep an
`AppDeployment`, its `Deployment` and its `Revision`s, and the Lyra service in
step. Source paths below are relative to the repository.

## The system

| Part | State | Operations | Modelled |
|---|---|---|---|
| AppDeployment controller, `internal/controller/appdeployment_controller.go` | one work queue, one worker; everything else is in the API server | `Reconcile`, `handleAppDeploymentChanges`, `handleServiceChanges`, `handleRevisionChanges` | `AppDeploymentController` |
| Revision controller, `internal/controller/revision_controller.go` | one work queue, one worker | `Reconcile`, `revisionHandleAppDeploymentChanges`, two deferred updates | `RevisionController` |
| AppModule controller, `internal/controller/appmodule_controller.go` | one work queue, one worker, filtered on the generation | `Reconcile`, `moduleHandleRevisionChanges`, `moduleCreateFunction` | `AppModuleController` |
| Lyra client, `pkg/lyra/lyra.go` | token map, made anew in every reconcile | `NewLyraClient`, `Authenticate`, `SyncApp`, `SyncModule`, `SyncRevision`, `DeleteApp`, `DeleteRevision` | `LyraClient`; what the calls make Lyra do: the controllers' modules |
| Manager, `cmd/main.go` | informers and queues | registers the controllers, starts them | start, restart, resync: `Operator`, `ModuleOperator` |
| API types, `api/v1alpha1` | AppDeployment, Revision, AppModule, Subdomain, Function, ... | none | the fields the controllers decide on: `Cluster`, `AppModuleController` |
| Function, FunctionCode, DeploymentEndpoint and Subdomain controllers | none | return at once | no: they do nothing |
| `pkg/elk`, generated deep copies, manifests, Helm chart, tests | | | no: output, generated code, configuration, scaffolds |

**How the parts interact.** The user applies an AppDeployment. Its controller
creates the Deployment, asks Lyra for a revision id (`SyncApp` with an empty
`ActiveRevisionId`), creates AppModule, Subdomain and Service, and a Revision
that records what runs. The Revision's event wakes the Revision controller,
which takes the `origin` annotation off, retires the other Revisions, reports
this one Active, brings the Deployment to its image, tells Lyra, and sets the
`changes` annotation and `currentRevisionId` of the AppDeployment. That wakes
the AppDeployment controller, which takes the marker off again. A rollback is
the same from the middle: the user sets `spec.status` of a retired Revision.
Both controllers retire Revisions, both write the AppDeployment, both write the
Deployment, and neither knows what the other is doing. The AppModule controller
takes the `origin` annotation off the new AppModule; when the user edits the
AppModule it asks Lyra (`SyncModule`) whether that makes a new revision, and if so
writes its id into the AppDeployment, reports all Revisions Non-active, creates
one for the id and reports that Active: a third writer of both.

**What is hard.**
- Every read comes from an informer cache that lags the store, and every update
  sends a whole object back from such a copy; the API server's version check is
  the only thing between a stale copy and the user's data.
- Most errors are logged and dropped; some are retried from the beginning, with
  the Deployment already changed.
- Two updates (status, then spec) retire a Revision, and the other controller
  may be between them.
- Each controller is woken by the other's writes and by its own.
- The operator may stop between any two writes and recognises what is left from
  the objects alone; there is no finalizer.
- Lyra may act on a request whose answer is lost, and an error body counts as
  an answer; the API server may do the same.
- Quantities are compared field by field: the same amount in another spelling
  is another value.
- The account's key is rotated at Lyra before it is updated in the secret, and
  the client does not look at `isValid`.

**What makes each part correct.** *AppDeployment controller*: the image the
user asked for is never overwritten; an edit ends with the Deployment at that
image and one Revision in service; no revision id is minted in vain; the
history is bounded; a deleted application is taken down. *Revision controller*:
each change of a Revision's spec is observed; a Revision reported Active is
Active by its spec; no retired Revision comes back without the user. *AppModule
controller*: every edit of the AppModule is observed and told to Lyra; the id it
makes current has a Revision. *Lyra client*: a call makes Lyra do its work at most
once and does not misstate whether it did; one that is not upset is answered.
*Together*:
the markers they leave for each other are consumed, and they come to rest.
`PROJECT.json` lists, under `hazards`, every line where one of these is at
stake.

## The modules

| Module | Lines of the source | What it is |
|---|---|---|
| `Kube` | external | what an accepted write does to a stored object: versions, generations, status subresource |
| `Lyra` | `lyra.go` 68-99 | the outcomes of a call of the client |
| `Cluster` | types, `SetupWithManager` of the first two controllers, `compareResources`; the rest external | the store, the caches, the queues, Lyra; user, garbage collector, informers, failures |
| `AppDeploymentController` | `appdeployment_controller.go` 66-460, `SyncApp`, `DeleteApp` | the worker `aj` |
| `RevisionController` | `revision_controller.go` 56-244, `SyncRevision`, `DeleteRevision` | the worker `rj` |
| `Operator` | `main.go` 139-153, 202-205 | both in one manager, restart, resync, fairness; all properties |
| `AppModuleController` | `appmodule_controller.go` 64-295, `SyncModule` | the worker `mj`, and the AppModule with its cache and queue |
| `ModuleOperator` | `main.go` 139-161 | `Operator` with the third controller; its properties |
| `RevisionLifecycle` | - | abstract: what is promised about each Revision |
| `LyraClient` | `lyra.go` 29-139, 186-207 | the client's calls, step by step, next to each other |
| `LyraCall` | - | abstract: what a call promises its caller |
| `MCOperator`, `MCModuleOperator` | - | initial situations, view and constraint for TLC |
| `OperatorProofs`, `LifecycleProofs`, `QuiescenceProofs`, `RolloutProofs` | - | theorems about `Operator` |
| `ModuleProofs`, `ModuleLifecycleProofs`, `ModuleQuiescenceProofs` | - | theorems about `ModuleOperator` |
| `LyraClientProofs` | - | theorems about `LyraClient` |

**State.** `ad`, `dep`, `rev[id]` are the stored objects; `cache` the informers'
copies; `queue` the keys; `lyra` what the service knows; `objs` which of
AppModule, Subdomain, Service and secret exist; `budget` what the environment
may still do. `aj` and `rj` hold the local variables of the two `Reconcile`s
(`aj.ad` is `appDeploy`, `aj.list` is `revisionsList`, `rj.own` is `revision`,
`rj.dep` is `found`), and `pc`, the next call. `mod` is the stored AppModule,
`mj.own` the `appModule` of its `Reconcile`, `told` the generation Lyra was last
told of; `functions` are the Functions, which no controller reads.

**Composition.** `Operator` EXTENDS the two controllers that every rollout needs.
`ModuleOperator` adds the third: each `Step` of `Operator` takes the AppModule along
(`ModuleFollows`: it comes and goes with `objs.module`), and each step of the AppModule
controller leaves the other workers alone. Where the AppModule is never edited, the
AppModule controller writes nothing but its AppModule and `ModuleOperator` is
`Operator`, with one exception: when the operator is restarted, or the answer to the
write is lost, between taking the origin off (`ModClearOrigin`) and marking the first
generation observed (`ModObserve`), the next reconcile takes that generation for an
edit, calls `SyncModule` and may make a new Revision. The controllers' modules and
`LyraClient` meet in `Lyra`: `Calls` is the set of ways a call may end. The controllers'
steps (`SyncApp`, `DeleteApp`, `SyncRevision`, `ForgetRevision`, `SyncModule`) take any
of them, and `LyraClient`, which has the token map, the authentication and the requests,
is shown to end its calls in one of them only.

**Actions.** One per call that reaches the API server or Lyra, so that anything
else may happen between two calls; cached reads that directly precede a write
belong to its action, and the reads at the head of `Reconcile` to `AdBegin` and
`RevBegin`. Each action has one disjunct per outcome of its call: accepted,
refused, failed, or accepted with its answer lost (`AdHeard`, `RevHeard`,
`ModHeard`; where the code goes on in the same way whatever the answer, as it does
after the writes whose error is only logged, there is nothing to tell apart). A deferred function is the last action on every path that
leads to it: `AfterObjects` decides whether `handleRevisionChanges` runs, every
way out of `revisionHandleAppDeploymentChanges` leads to `MarkAppDeployment`,
every way out of `Reconcile` to `ObserveGeneration`.

**Abstractions.**
- One AppDeployment in one namespace. Work on different AppDeployments shares
  nothing but the worker.
- `image` stands for all that `handleAppDeploymentChanges` compares: image,
  replicas, CPU and memory, as they are spelt. `Spelling(i)` is `i` as the API
  machinery writes it back: `500m` for the user's `0.5`. Whatever the operator
  writes has that spelling, and `compareResources` tells the two apart.
- A Revision is named by the number of its id: Lyra mints 1, 2, 3, ..., and 0 is
  the empty id. A Revision's name (`ModuleRevision.Title`) is as unique as its
  id, and creation timestamps follow the ids; Revisions created within the same
  second are deleted in the order of their ids.
- `marker` is `changes = "revision-reconciler"`; `origin` is
  `origin = "app-deployment"`.
- Lyra confirms a non-empty `ActiveRevisionId` and mints an id for an empty one
  (the comment at `appdeployment_controller.go:111`). A call ends as `Calls` says:
  answered; with an empty response, since `DoLyraHttpRequest` fails on 404 only;
  with an error before or after Lyra did its work; or with the panic of a nil
  client, when there is no `vega-init` ConfigMap. controller-runtime 0.19 recovers
  from panics and retries.
- `LyraClient` has one operation, since the five differ in path and body only, and
  tells apart no requests beyond who makes them, with which token. A token is
  named by the key it was issued for, and Lyra does the work of requests that
  carry one of the valid key. The account's id may or may not be the namespace's
  name (`SameName`), under which the token is looked up. Lyra has handled a request,
  or never will, when its answer or failure reaches the client.
- A read at the head of `Reconcile` that fails puts the key back: `AdBegin` has it
  for the AppDeployment controller, whose client may panic there; for the others it
  changes nothing but the budget of failures and has no disjunct.
- `SyncModule` is answered with the current id or a new one: the code handles both
  (`appmodule_controller.go:143`), and Lyra decides. A retry of the AppModule
  controller waits beside the keys that events bring (`modQueue.later`): a delayed
  retry may come after them.
- An informer that is behind jumps to the stored version. Events between two
  versions put the same key in the same queue, so nothing is lost by this.
- A conflict inside `RetryOnConflict` is final for the step (five attempts within
  half a second, all on the same cache or the same copy).
- Garbage collection and a Kubernetes status write of the Deployment are single
  external steps; the Service is read and written live and has no owner.

## The properties

The first ten are defined in `Operator`, the next six in `ModuleOperator`, the last
two, and a `TypeOK` of its own, in `LyraClient`.
`Quiescent` means: workers idle, queues empty, caches up to date, so nothing
happens unless the user acts; `AllQuiescent` includes the third worker. "If no call
fails" is `Unfailed`: none of the budget of failures has been spent, so the claim
is about the behaviours of any specification up to their first failure, and the
runs that check it have `MaxFaults = 0`.

| Property | Kind | Meaning |
|---|---|---|
| `TypeOK` | invariant | types of all variables |
| `NoUserEditLost` | action property | the AppDeployment's image changes by the user's hand only (its spelling apart) |
| `PhaseFollowsSpec` | invariant | phase Active implies spec Active, if no call fails |
| `GenerationsObserved` | invariant | at rest every spec change was observed, if no call fails |
| `OriginsCleared` | invariant | at rest every Revision was taken over, if no call fails |
| `MarkerConsumed` | invariant | at rest no marker is left, if no call fails |
| `LifecycleSpec` | refinement | the operator implements `RevisionLifecycle` |
| `RolloutComplete` | invariant | at rest the Deployment has the user's image and one Revision, the current one, is in service, and no id was minted in vain, if only edits happen (`Undisturbed`) |
| `HistoryBounded` | invariant | at rest there are at most `HistoryLimit` Revisions, and one more per restart or resync (they share a budget) |
| `TeardownCompletes` | liveness | a deleted application is taken down |
| `ThreeTypeOK` | invariant | types, and the AppModule exists where the other controllers see it |
| `ModuleEditsArrive` | invariant | at rest every edit of an AppModule that was taken over was observed and told to Lyra, if no call fails and the AppDeployment exists |
| `CurrentExists` | invariant | at rest the revision the AppDeployment names exists, if only edits of the AppModule happen |
| `NoEditLostToModule` | action property | `NoUserEditLost` with three writers |
| `RevisionsForgotten` | invariant | once the Revision controller rests, Lyra was told of the deletion of exactly the Revisions that are gone, if no call fails and the operator is not restarted |
| `AllConverge` | liveness | the controllers come to rest after an edit of the AppDeployment or of the AppModule |
| `CallsKeepPromise` | refinement | `LyraClient` implements `LyraCall`: work done at most once, and never misstated |
| `CalmCallsAnswered` | invariant | a call that begins in order and is not upset is answered |

`RevisionLifecycle` has one stage per Revision: unborn, serving, bare (without
`spec.status`, as the AppModule controller makes them), retired, gone, forgotten
(by Lyra), and the user's privilege to put one in service. The refinement mapping
is `Stage`, computed from the stored Revision and from what Lyra was told; a state
that fits no stage maps to `"revived"`, which the abstract specification never
reaches. `LyraCall` has three actions per caller: a call starts, Lyra does its work
once, the call ends as one of `Calls` with the truth about that work; the mapping
reads `calling` off the program counters.

## The runs

All but `lyra_client` use two Images, spelt as the operator spells them. "Fresh"
starts with an AppDeployment just applied, "settled" after one complete rollout and
one complete edit, a state that the fresh specification reaches (checked by asking
TLC for it), "rolled out" after the rollout only.

| Run | Start | Environment | Properties | Distinct states |
|---|---|---|---|---|
| `edit_race` | fresh | 1 edit | `TypeOK` `PhaseFollowsSpec` `GenerationsObserved` `OriginsCleared` `MarkerConsumed` `NoUserEditLost` | 240 000 |
| `settled` | settled | two of: 1 edit, 1 rollback, 1 status write, 1 restart or resync | `RolloutComplete` `HistoryBounded` `GenerationsObserved` `MarkerConsumed` | 220 000 |
| `faults` | fresh, no annotations, late secret, fair | 1 deletion, 1 failure | `LifecycleSpec` `TeardownCompletes` | 200 000 |
| `module_edits` | rolled out | 2 AppModule edits and 1 edit, or 1 AppModule edit and 1 restart or resync | `ThreeTypeOK` `ModuleEditsArrive` `CurrentExists` `NoEditLostToModule` | 450 000 |
| `module_deletes` | rolled out, AppModule taken over or not | 1 AppModule edit, 1 deletion | `RevisionsForgotten` `LifecycleSpec` | 210 000 |
| `converge` | rolled out, fair | 1 edit or 1 AppModule edit, and 1 failure or 1 restart or resync | `AllConverge` | 290 000 |
| `lyra_client` | any ConfigMap, any keys | 3 of: rotation, edit of the ConfigMap, failed request | `TypeOK` `CalmCallsAnswered` `CallsKeepPromise` | 137 000 |

`module_edits`, `module_deletes` and `converge` are about the three controllers of
`ModuleOperator`.

**Bounds.** `MaxRevs` (2 or 3) ids: enough for a Revision that is replaced and its
successor, and in `settled` for the third that makes the oldest one go; `HistoryLimit`
is 3 in the code and 1 or 2 here, so that pruning happens with so few. `SyncApp` and
`SyncModule` wait when the ids are used up. With two ids only one of the controllers
that mint ids gets one, and the other confirms the current id or waits; a worker that
waits is not at rest. No run has both minting at once, which goes beyond what TLC can
search; the theorems about `ModuleOperator` hold of it. `module_edits` has three, so
that each edit of the AppModule may replace the current Revision and the second
deletes the oldest one; next to an edit of the AppDeployment it has two (`FewIds`),
and a restart or resync comes with one edit of the AppModule only (`FewEdits`).
`MaxEdits`, `MaxSwitches`, `MaxDeletes`, `MaxFaults`, `MaxRestarts`, `MaxStatus`,
`MaxModuleEdits` and `MaxUpsets` bound the environment: one of each kind, at any
moment, meets every step of the controllers; two edits of the AppModule so that one
may come while the other is worked on; three upsets so that a key can be rotated, and
a request fail, in both calls or in one after the other. `settled` allows two events
of its four kinds (`TwoEvents`), and after a rollback no more new ids: undoing the
rollback mints one, as `rollback_undone` shows, and the exchange about that one is cut
off. `converge` has an edit of either object, not both, and a failure or a restart,
not both (`UpsetInit`); three ids let a `SyncApp` whose answer was lost mint a second
one. It has no rollback: the controllers then undo each other's work, one rollback can
mint three ids, and the exchange was too long to be searched to its end. `InformerLag`
(a CONSTRAINT of the runs that expect a violation) keeps each cached object at most
one version behind the store; `FewBehind`, `TwoEvents` and `ModuleLag` (the safety
runs) allow in addition no more than two objects to be behind at once: two are what a
worker needs to read one object of before and one of after a change. The liveness runs
have no constraint, which would cut behaviours off: `faults` has no bound on the lag,
and in `converge` a step that would exceed `ModuleLag` waits until an informer has
caught up (`InTime`), of which fairness is assumed. In `module_deletes` an AppModule
that its controller has not taken over yet is not edited before that. Two Images tell
"same" from "different", which is all the code does with them; `respelt` has three, of
which two are the same.

**View.** The safety runs use `View` (`ModuleView` with three workers): a resource
version only decides whether a copy is the stored one, and one that is not never will be
again, so the view keeps that bit instead of the number, drops the contents of copies
that can only be sent and refused, and keeps of a generation whether it was observed.
`CHECK_DEADLOCK FALSE` for all but `lyra_client`: the system stops when nobody has
anything to do.

**Fairness.** Weak fairness of each worker's next step, of the informers and of
the garbage collector. controller-runtime runs a worker whenever its queue has a
key and retries a failed one with a growing but bounded delay; watches and the
collector run on their own. A worker's calls are assumed to end: the API client
has timeouts, the Lyra client (`lyra.go:84`) has none, so a Lyra that accepts a
connection and never answers is outside of what `faults` and `converge` show.
Nothing is assumed of the user, of failures or of restarts. `AdStep`, `RevStep` and
`ModStep` are one process each, so weak fairness of the disjunction is the fairness
of that process. `Turn` names these processes for `ModuleOperator`.

## Where the code and its comments disagree

Each of these runs expects TLC to find a violation; `PROJECT.json` quotes the
lines.

| Run | Property | What happens |
|---|---|---|
| `lost_update` | `DeploymentFollows` | the update of the Deployment conflicts, its error is dropped, and the user's image is never rolled out |
| `rollback_undone` | `RollbackSticks` | the AppDeployment controller reverts the Deployment after a rollback |
| `two_in_service` | `OneInService` | an edit during the first rollout leaves two Revisions Active |
| `respelt` | `RevisionsDiffer` | an edit of the spelling of a quantity gets a Revision that is a copy of the last |
| `half_made` | `ModuleMade` | `SyncApp` fails in the first reconcile, and AppModule and Subdomain are never created |

`OneInService` is why `RolloutComplete` is claimed of a settled application only;
`DeploymentFollows` why it is claimed without status writes of Kubernetes. A rollback
that is undone also mints an id that becomes current and gets no Revision, which is
why it is claimed without rollbacks.

Other weaknesses the models have, of which nothing in the repository says the
contrary, are in the notes of the `hazards`: an edit of an AppModule that still has
its origin annotation, or whose `SyncModule` failed, is marked observed and lost; a
restart between the new current id and its Revision leaves the id without one; a
Service that does not exist keeps the deletion of its application from ever ending.

## What is proved

Eight modules hold proofs; all are for every value of the constants (any number of
images, revisions, edits, rollbacks, deletions, failures, restarts; annotations or
none; any spelling; any set of callers and keys), from the named assumptions of
`Cluster` and `LyraClient` (the bounds are naturals, `NoImage` is no image,
`Canonical` is idempotent, `NoKey` is no key), and for informers that lag by any
number of versions, which the runs bound.

`OperatorProofs`, about `Operator`:

- `TypeCorrect == Spec => []TypeOK`. `TypeOK` is not inductive: a worker that is
  busy with a Revision writes to `rev[rj.key]` and to Lyra, so its key must be an
  id. `Typed` adds `KeyKnown`. One lemma per group of actions, one step per
  action and one under it per variable it changes.
- `UserEditsKept == Spec => NoUserEditLost`. The invariant is `ImagesKept`: each
  of the three copies of the AppDeployment that can be written back or be copied
  from (`cache.ad`, `aj.ad`, `rj.ad`) is older than the stored version or has the
  stored image (`CopyOf`). A write is accepted only from a copy of the stored
  version, hence keeps the image but for its spelling (`WriteKeepsImage`), and gives
  a new version that leaves the other copies behind (`CopiesGrowOld`).

`LifecycleProofs`, about `Operator`:

- `OperatorImplementsLifecycle == Spec => LifecycleSpec`, every step of the two
  controllers, the cluster and the user is a step of `RevisionLifecycle` or a
  stutter. Nothing in a single step says so: the workers write Revisions from copies
  of any age, delete by name, and tell Lyra to forget what their cache does not have.
  The invariant `LifeInv` has five parts. `Born`: a Revision with a version has a
  minted id, one without is none at all, and a forgotten one is gone. `RevCopies`:
  each copy in the cache and in the two lists is older than the store or the stored
  Revision itself, and none of a Revision that is gone for good is newer, so that an
  accepted write changes the status the way its controller means to. `Seen`: a key in
  the queue, or in the Revision worker's hands, names a Revision the informer saw.
  `Forgetting`: when the worker is about to tell Lyra, the Revision was created and is
  gone. `Minting`: the id for which the AppDeployment worker is about to create a
  Revision has none yet. `StepWrites` says that each step writes at
  most one Revision, and how; `WritesLifecycle` and `KeepsLifecycle` turn that into
  lifecycle steps.

`QuiescenceProofs`, about `Operator`: what is true at rest, up to the first failed
call.

- `PhaseFollows == Spec => []PhaseFollowsSpec`,
  `GenerationsAreObserved == Spec => []GenerationsObserved`,
  `OriginsAreCleared == Spec => []OriginsCleared`,
  `MarkersAreConsumed == Spec => []MarkerConsumed`.
  A property at rest says nothing of the way there. The invariant `QuietInv` says at
  every moment who will see to what is not done yet. A write gives the object a
  version that its informer has not delivered, so it is pending (`Pending`,
  `AdPending`) until a worker takes the key. `Noticed`: a generation that was not
  observed is pending or in the hands of the Revision worker. `Taken`: so is a Revision
  with its origin, because that one was never observed. `DeletionNoticed`: so is a
  deletion, until Lyra has forgotten the Revision or the manager restarts.
  `MarkerNoticed`: the marker is pending, or held by an AppDeployment worker that is on
  its way to take it off. A worker lets go of what it holds in two cases: its write was
  accepted, or it was refused, which means (`OwnCopy`) that somebody else has written
  since, and that write is pending. The remaining parts are what this needs of the
  workers' states: `OwnState` (past its first step the Revision worker's copy has no
  origin), `IdAnswered` (an answered `SyncApp` has named an id), `AdCopy`,
  `SecretFirst` (nobody drops a key for want of the secret once anything was done)
  and `BudgetBounded`. `PhaseFollowsSpec` is about the middle of the work: `Retiring`
  says that whoever is about to send a Revision's retired spec has either an old copy
  or one whose phase is retired in the store, so the accepted write leaves no Active
  phase behind; and a phase is set Active from a copy whose status is Active and that
  is the stored one, if accepted.

`RolloutProofs`, about `Operator`: what the edits of a user come to who waits for each
to be rolled out.

- `RolloutCompletes ==
  Spec => [](AtPeace /\ [][Patient]_vars => []RolloutComplete)` and
  `HistoryKept ==
  Spec => [](AtPeace /\ [][Patient]_vars => [](Undisturbed => HistoryBounded))`.
  `AtPeace` is a moment of rest at which the application is rolled out, such as the one
  at which `settled` starts (`Spec` reaches it from a fresh one, by TLC), `Patient` says
  that the AppDeployment is edited only when everybody is at rest, and `Undisturbed` that
  nothing but edits has happened so far. There may be any number of edits and ids, and
  the informers lag as they like. The invariant `RollInv` is the whole exchange of the
  two controllers, in three chapters. `Before`: the edit is made, heard of, applied to
  the Deployment, and nobody has an id yet; one Revision is in service, the others are
  `Dull` (retired in the store and in the cache). `During`: the AppDeployment worker has
  the new id, and retires what its list has, which is every Revision in service, each in
  a copy that is the stored one, because the Revision controller was still when the list
  was read and only observes what is retired after that (`Untouched`). `After(n)`: the Revision with the new id exists; only the Revision
  controller can make it current, and until it does so the new Revision is pending or
  in its hands; the AppDeployment worker deletes the oldest, which is not it.
  `Held` says of each copy in the workers' hands that it is older than the stored object
  or the same, so that a write is refused or does what the chapter says; a refused one
  of the Revision worker leaves its Revision pending, because somebody has written since. The last
  chapter ends at rest, which is `RolledOut`, and the next edit opens the first again.

`ModuleProofs`, about `ModuleOperator`. A step of it is a step of `Operator` that the
AppModule follows, for which the lemmas of `OperatorProofs` are cited, or a step of
the third worker (`ModuleSteps`), for which there are new ones.

- `ThreeTypesCorrect == ModuleSpec => []ThreeTypeOK`. The strengthening adds
  `OwnKnown` and `IdKnown`: the worker writes back only an AppModule it found, and
  makes a Revision and a Function only for an id.
- `ModuleEditsKept == ModuleSpec => NoEditLostToModule`: `ImagesKept` with the AppModule
  worker's copy `mj.ad` as a fourth.

`ModuleLifecycleProofs`, about `ModuleOperator`:

- `ThreeImplementLifecycle == ModuleSpec => LifecycleSpec`: `LifeInv`, and
  `ModMinting`. Two workers now mint ids and create Revisions; the id the AppModule
  worker has in hand is new and is not the one the AppDeployment worker has, so
  neither creates the other's Revision. Lyra answers a call either with the current
  id, which ends the work, or with an id it has not given before.

`ModuleQuiescenceProofs`, about `ModuleOperator`:

- `ExactlyGoneForgotten == ModuleSpec => []RevisionsForgotten`,
  `ThreeObserveGenerations == ModuleSpec => []GenerationsObserved`,
  `ThreeConsumeMarkers == ModuleSpec => []MarkerConsumed`: `QuietInv` goes on to hold
  with the third worker, because what it writes is pending as well, and because its
  copies (`ModCopies`) are old or the stored ones, so that an accepted write of its
  status gives back the observed generation it found. One half of `RevisionsForgotten`
  is `Born`, nothing is forgotten that is not gone; the other is `DeletionNoticed`.
- `ModuleEditsObserved`: no generation of the AppModule is unobserved at rest, while no
  call fails and the AppDeployment exists; and
  `EditsReachLyra == ModuleSpec => [](InStep => []ModuleEditsArrive)`, where `InStep`
  is a moment of rest at which Lyra knows the AppModule as it is, such as the one at
  which `module_edits` starts. Without it the claim is false: an edit made before the
  origin is off is observed and not told. The invariant `Attended` has the argument of
  `QuietInv` for a queue of another kind, which gets no event when only the status or
  an annotation changes, and retries late: a copy of a generation that was not observed
  is what is stored (`SameGeneration`), so the update that marks it observed cannot
  conflict unless there is a newer generation, which is an event. `Told`, which holds
  from `InStep` on, adds that a generation that was observed is the one Lyra was told
  of last, and that nobody has an older one in hand.
- `CurrentIsThere == ModuleSpec => [](ModulePeace => []CurrentExists)`, where
  `ModulePeace` is a moment of rest at which the application runs what its user asks for
  and its current Revision exists. From then on there may be any number of edits of the
  AppModule, at any moment. The invariant is `Replaced`: the other two workers find
  nothing to apply, and Lyra confirms what they name (`AdRests`, `RevRests`), so only the
  AppModule worker changes the current id; between naming it and creating its
  Revision it is the one that is busy (`Replacing`); and the Revisions it may delete are
  those of a list read before that creation, which does not have the current one.

`LyraClientProofs`, about `LyraClient`:

- `ClientTypeCorrect == Spec => []TypeOK`.
- `PromiseKept == Spec => CallsKeepPromise`. The invariant `WorkAnswered` ties the
  number of times Lyra did the work to the step of the call: none before the
  request is sent, and one for an answer with content, none or one for any other.
- `CalmAnswered == Spec => []CalmCallsAnswered`. The invariant `CalmUndisturbed`
  says what calm means at each step: the client is there, the key is the valid one,
  the token found or issued is of that key, the answer has content.

Only model-checked:

- `TeardownCompletes` and `AllConverge`: liveness under fairness is out of the
  prover's reach. The theorems about rest say what is true whenever everybody is at rest,
  not that they get there; `AllConverge` is what `converge` shows of that.
- Every property of the runs that is not liveness has a theorem. Three of them are
  proved under a hypothesis on what the user does, because without it they are false:
  - `RolloutComplete`, of edits close to each other. A second edit that meets the marker
    of the first gets an id that becomes current and has no Revision. And the Revision
    controller, still at work for the Revision of the first edit, may list the Revision of
    the second and retire it, while the AppDeployment controller retires that of the
    first: none is in service at rest. Nor is it claimed of a fresh application: a
    Revision worker that reads before the informer has delivered the Deployment marks
    the generation of its Revision observed, and never rolls it out.
  - `HistoryBounded`, of the same: the list from which the oldest Revision is deleted
    misses one, and the limit is exceeded. The theorem has no restarts; that each costs
    at most one more Revision is checked by `settled` only.
  - `CurrentExists`, next to edits of the AppDeployment: the Revision controller makes
    a Revision current that the AppModule controller has just deleted as the oldest. And
    after a restart or a failure: the AppModule worker had made an id current, and its
    Revision is never created.

## Plan

Order of work; what is done is marked.

1. (done) `Cluster`, both controllers, `Operator`; safety, refinement and
   liveness runs; `TypeCorrect`, `UserEditsKept`.
2. (done) `AppModuleController`, `ModuleOperator` and their runs.
3. (done) The Lyra client's own state: `LyraClient` implements `LyraCall`, and the
   controllers rely on its outcomes. Spellings. Lost answers of the API server. The
   lifecycle with bare Revisions.
4. (done) Proofs: `OperatorImplementsLifecycle`, `PromiseKept`, `CalmAnswered`.
5. (done) Proofs about `ModuleOperator`: `ThreeTypesCorrect`, `ModuleEditsKept`,
   `ThreeImplementLifecycle`.
6. (done) Proofs: `PhaseFollows` and what is true at rest, with two controllers and
   with three; `EditsReachLyra`.
7. (done) Proofs: `RolloutCompletes` and `HistoryKept`, for edits each made at rest;
   `CurrentIsThere`.

Not planned: the four scaffold controllers, the log sink, manifests and
generated code, for the reasons in the table above.
