------------------------ MODULE ModuleQuiescenceProofs ------------------------
(***************************************************************************)
(* Where no call fails, nothing is left undone with the AppModule          *)
(* controller, too, which retires and creates Revisions of its own: what   *)
(* QuietInv of QuiescenceProofs says goes on to hold, and Lyra is told of  *)
(* exactly the Revisions that are gone.                                    *)
(*                                                                         *)
(* The argument: what the AppModule worker writes gets a version that the  *)
(* informers have not delivered, so it is pending like any other write;    *)
(* and its copies, too, are older than what is stored or the same, so no   *)
(* write of its status takes an observed generation back.                  *)
(*                                                                         *)
(* The AppModule itself has a queue of another kind: its informer passes   *)
(* on changes of the generation only, and a retry comes late.  There the   *)
(* argument is that a copy of a generation that was not observed is what   *)
(* is stored, so the update that marks it observed is accepted.            *)
(*                                                                         *)
(* And as long as only the AppModule is edited, what the AppDeployment     *)
(* names exists: the other two controllers have nothing to apply or to put *)
(* in service then, so the AppModule worker is alone in naming a Revision. *)
(***************************************************************************)
EXTENDS ModuleLifecycleProofs, QuiescenceProofs

\* The worker's copies of Revisions are copies, and without the secret it has
\* done nothing.
ModCopies ==
    /\ \A r \in RevIds : RevCopy(mj.list[r], rev[r])
    /\ mj.pc = "activate" => RevCopy(mj.new, rev[mj.id])

ModSecret == ~objs.secret => mj.pc = "idle"

ThreeQuiet == ThreeLives /\ ThreeImagesKept /\ QuietInv /\ ModCopies /\ ModSecret

-----------------------------------------------------------------------------
(* The AppModule worker's copies.                                          *)

LEMMA CopyGrowsOld ==
    ASSUME NEW copy \in Revision, NEW old \in Revision, NEW new \in Revision,
           RevCopy(copy, old), new = old \/ new.rv > old.rv,
           new.live => old.live \/ old.rv = 0
    PROVE  RevCopy(copy, new)
<1>1. copy.rv \in Nat /\ old.rv \in Nat /\ new.rv \in Nat
  BY DEF Revision
<1> QED  BY <1>1 DEF RevCopy

\* Nothing is a copy of anything.
LEMMA NothingIsCopy ==
    ASSUME Typed, Born, NEW r \in RevIds
    PROVE  RevCopy(NoRevision, rev[r])
<1>1. rev[r].rv \in Nat /\ NoRevision.rv = 0 /\ ~NoRevision.live
  BY RevsTyped DEF Revision, NoRevision
<1> QED  BY <1>1 DEF RevCopy, Born

\* By everybody else's steps.
LEMMA NextKeepsModCopies ==
    ASSUME ThreeLives, ThreeTyped', ModCopies, [Next]_vars, mj' \in {mj, ModIdle}
    PROVE  ModCopies'
<1>1. /\ Typed /\ Typed' /\ LifeInv /\ LifeInv' /\ mj \in ModWorker
      /\ \A r \in RevIds : /\ rev[r] \in Revision /\ rev'[r] \in Revision
                           /\ mj.list[r] \in Revision
      /\ mj.new \in Revision
  <2>1. Typed /\ Typed' /\ LifeInv /\ mj \in ModWorker
    BY ThreeLivesTyped DEF ThreeLives, ThreeTyped, ThreeTypeOK, Typed
  <2>2. LifeInv'
    BY <2>1, LifeKept
  <2> QED  BY <2>1, <2>2 DEF Typed, TypeOK, ClusterTypeOK, ModWorker
<1>2. \A r \in RevIds : Evolves(r)
  BY <1>1, StepWrites, RevsEvolve
<1>3. ASSUME NEW copy \in Revision, NEW r \in RevIds, RevCopy(copy, rev[r])
      PROVE  RevCopy(copy, rev'[r])
  BY <1>1, <1>2, <1>3, CopyGrowsOld DEF Evolves
<1>4. CASE mj' = mj
  <2>1. mj.pc = "activate" => mj.id \in RevIds
    BY DEF ThreeLives, ThreeTyped, IdKnown
  <2> QED  BY <1>1, <1>3, <1>4, <2>1 DEF ModCopies
<1>5. CASE mj' = ModIdle
  <2>1. mj'.pc = "idle" /\ \A r \in RevIds : mj'.list[r] = NoRevision
    BY <1>5 DEF ModIdle, NoRevisions
  <2>2. \A r \in RevIds : RevCopy(NoRevision, rev'[r])
    <3>1. \A r \in RevIds : rev'[r].rv \in Nat /\ (rev'[r].rv = 0 => rev'[r] = NoRevision)
      BY <1>1 DEF Revision, LifeInv, Born
    <3>2. NoRevision.rv = 0 /\ ~NoRevision.live
      BY DEF NoRevision
    <3> QED  BY <3>1, <3>2 DEF RevCopy
  <2> QED  BY <2>1, <2>2 DEF ModCopies
<1> QED  BY <1>4, <1>5

\* Where the worker's copies come from.
LEMMA ModCopiesFrom ==
    ASSUME ThreeLives, ThreeTyped', ModStep
    PROVE  /\ \A r \in RevIds : \/ mj'.list[r] \in {mj.list[r], NoRevision}
                                \/ mj'.list[r] = cache.rev[r]
           /\ mj'.pc = "activate" =>
                 mj'.id \in RevIds /\ mj'.new = rev'[mj'.id]
<1>1. /\ mj \in ModWorker /\ mj.list \in [RevIds -> Revision]
      /\ \A r \in RevIds : ModIdle.list[r] = NoRevision
      /\ ModIdle.pc = "idle" /\ ModIdle \in ModWorker
  BY NoModuleTyped, ThreeLivesTyped DEF ThreeLives, ModWorker, ModIdle, NoRevisions
<1>2. \A retry, own : /\ ModObserving(retry).pc = "observe"
                      /\ [ModObserving(retry) EXCEPT !.own = own].pc = "observe"
                      /\ ModObserving(retry).list = ModIdle.list
                      /\ [ModObserving(retry) EXCEPT !.own = own].list = ModIdle.list
  BY <1>1 DEF ModObserving, ModWorker, ModIdle
<1>3. CASE ModBegin
  <2>1. mj'.list = ModIdle.list /\ mj'.pc \in {"idle", "clear", "sync", "observe"}
    BY <1>3 DEF ModBegin, ModIdle
  <2> QED  BY <1>1, <2>1
<1>4. CASE ModClearOrigin
  <2>1. mj'.list = ModIdle.list /\ mj'.pc = "observe"
    BY <1>2, <1>4 DEF ModClearOrigin, ModHeard
  <2> QED  BY <1>1, <2>1
<1>5. CASE SyncModule
  <2>1. \/ \E retry : mj' = ModObserving(retry)
        \/ \E id : mj' = [mj EXCEPT !.pc = "record", !.id = id]
    BY <1>5 DEF SyncModule, AfterSync
  <2>2. CASE \E retry : mj' = ModObserving(retry)
    BY <1>1, <1>2, <2>2
  <2>3. CASE \E id : mj' = [mj EXCEPT !.pc = "record", !.id = id]
    BY <1>1, <2>3 DEF ModWorker
  <2> QED  BY <2>1, <2>2, <2>3
<1>6. CASE RecordRevisionId
  <2>1. mj' \in {[mj EXCEPT !.pc = "list"], ModObserving(FALSE)}
    BY <1>6 DEF RecordRevisionId, ModHeard
  <2>2. /\ [mj EXCEPT !.pc = "list"].list = mj.list
        /\ [mj EXCEPT !.pc = "list"].pc = "list"
    BY <1>1 DEF ModWorker
  <2>3. mj'.list \in {mj.list, ModIdle.list} /\ mj'.pc \in {"list", "observe"}
    BY <1>2, <2>1, <2>2
  <2> QED  BY <1>1, <2>3
<1>7. CASE ModListRevisions
  BY <1>1, <1>7 DEF ModListRevisions, ModWorker
<1>8. CASE \E r \in RevIds : ModRetire(r)
  BY <1>1, <1>8 DEF ModRetire, ModWorker
<1>9. CASE ModCreateRevision
  <2>1. \/ mj' = [mj EXCEPT !.pc = "activate", !.new = rev'[mj.id]]
        \/ mj' = ModObserving(FALSE)
    BY <1>9 DEF ModCreateRevision, ModHeard, NewId
  <2>2. mj.id \in RevIds
    BY <1>9 DEF ModCreateRevision, ThreeLives, ThreeTyped, IdKnown
  <2>3. CASE mj' = [mj EXCEPT !.pc = "activate", !.new = rev'[mj.id]]
    <3>1. mj'.list = mj.list /\ mj'.id = mj.id /\ mj'.new = rev'[mj.id]
      BY <1>1, <2>3 DEF ModWorker
    <3> QED  BY <2>2, <3>1
  <2>4. CASE mj' = ModObserving(FALSE)
    BY <1>1, <1>2, <2>4
  <2> QED  BY <2>1, <2>3, <2>4
<1>10. CASE ModActivate
  <2>1. mj' \in {[mj EXCEPT !.pc = "prune", !.new = NoRevision], ModObserving(FALSE)}
    BY <1>10 DEF ModActivate, ModHeard
  <2>2. /\ [mj EXCEPT !.pc = "prune", !.new = NoRevision].list = mj.list
        /\ [mj EXCEPT !.pc = "prune", !.new = NoRevision].pc = "prune"
    BY <1>1 DEF ModWorker
  <2>3. mj'.list \in {mj.list, ModIdle.list} /\ mj'.pc \in {"prune", "observe"}
    BY <1>2, <2>1, <2>2
  <2> QED  BY <1>1, <2>3
<1>11. CASE ModPrune
  BY <1>1, <1>11 DEF ModPrune, ModWorker
<1>12. CASE CreateFunction
  BY <1>1, <1>2, <1>12 DEF CreateFunction
<1>13. CASE ModObserve
  BY <1>1, <1>13 DEF ModObserve
<1> QED  BY <1>3, <1>4, <1>5, <1>6, <1>7, <1>8, <1>9, <1>10, <1>11, <1>12, <1>13 DEF ModStep

\* By the worker's own steps.
LEMMA ModStepKeepsCopies ==
    ASSUME ThreeLives, ThreeTyped', ModCopies, ModStep, UNCHANGED <<aj, rj>>
    PROVE  ModCopies'
<1>1. /\ Typed /\ Typed' /\ LifeInv /\ mj \in ModWorker
      /\ \A r \in RevIds : /\ rev[r] \in Revision /\ rev'[r] \in Revision
                           /\ mj.list[r] \in Revision /\ cache.rev[r] \in Revision
  <2>1. Typed /\ Typed' /\ LifeInv /\ mj \in ModWorker
    BY ThreeLivesTyped DEF ThreeLives, ThreeTyped, ThreeTypeOK, Typed
  <2> QED  BY <2>1, RevsTyped DEF Typed, TypeOK, ClusterTypeOK, ModWorker
<1>2. (\A r \in RevIds : ModEvolves(r)) /\ Born'
  BY ModRevsEvolve
<1>3. ASSUME NEW copy \in Revision, NEW r \in RevIds, RevCopy(copy, rev[r])
      PROVE  RevCopy(copy, rev'[r])
  BY <1>1, <1>2, <1>3, CopyGrowsOld DEF ModEvolves
<1>4. ASSUME NEW r \in RevIds
      PROVE  RevCopy(mj'.list[r], rev'[r])
  <2>1. RevCopy(mj.list[r], rev[r]) /\ RevCopy(cache.rev[r], rev[r])
    BY <1>1 DEF ModCopies, LifeInv, RevCopies
  <2>2. RevCopy(NoRevision, rev'[r])
    <3>1. rev'[r].rv \in Nat /\ (rev'[r].rv = 0 => rev'[r] = NoRevision)
      BY <1>1, <1>2 DEF Revision, Born
    <3>2. NoRevision.rv = 0 /\ ~NoRevision.live
      BY DEF NoRevision
    <3> QED  BY <3>1, <3>2 DEF RevCopy
  <2> QED  BY <1>1, <1>3, <2>1, <2>2, ModCopiesFrom
<1>5. mj'.pc = "activate" => RevCopy(mj'.new, rev'[mj'.id])
  <2>1. ASSUME NEW r \in RevIds
        PROVE  RevCopy(rev'[r], rev'[r])
    <3>1. rev'[r].rv \in Nat /\ (rev'[r].rv = 0 => rev'[r] = NoRevision) /\ ~NoRevision.live
      BY <1>1, <1>2 DEF Revision, Born, NoRevision
    <3> QED  BY <3>1 DEF RevCopy
  <2> QED  BY <2>1, ModCopiesFrom
<1> QED  BY <1>4, <1>5 DEF ModCopies

-----------------------------------------------------------------------------
(* What the AppModule worker's steps leave of the invariant.               *)

LEMMA ModSpends ==
    ASSUME ModStep
    PROVE  Fault \/ UNCHANGED budget
BY DEF ModStep, ModBegin, ModClearOrigin, SyncModule, Asked, RecordRevisionId, ModHeard,
       ModListRevisions, ModRetire, ModCreateRevision, ModActivate, ModPrune, CreateFunction,
       ModObserve, Refused, clusterVars

LEMMA ModBudgetSpent ==
    ASSUME ThreeTyped, BudgetBounded, ModStep
    PROVE  /\ BudgetBounded'
           /\ Unfailed' => Unfailed /\ ~Fault
           /\ Unrestarted' => Unrestarted
<1>1. budget \in Budget
  BY ThreeLivesTyped
<1>2. CASE Fault
  BY <1>1, <1>2, FaultSpends DEF Unrestarted
<1>3. CASE UNCHANGED budget /\ ~Fault
  BY <1>3 DEF BudgetBounded, Unfailed, Unrestarted
<1> QED  BY <1>2, <1>3, ModSpends

LEMMA ModStepLeaves ==
    ASSUME ModStep
    PROVE  cache' = cache /\ queue' = queue /\ objs' = objs
BY DEF ModStep, ModBegin, ModClearOrigin, SyncModule, RecordRevisionId, ModListRevisions,
       ModRetire, ModCreateRevision, ModActivate, ModPrune, CreateFunction, ModObserve,
       clusterVars

\* What it writes is pending, and what was pending stays so.
LEMMA ModPending ==
    ASSUME ThreeLives, ThreeTyped', ModStep, UNCHANGED <<aj, rj>>, NEW r \in RevIds
    PROVE  /\ rev'[r] # rev[r] => Pending(r)' /\ rev'[r].rv > rev[r].rv
           /\ Pending(r) => Pending(r)'
           /\ rev[r].rv \in Nat /\ rev'[r].rv \in Nat /\ cache.rev[r].rv \in Nat
           /\ RevCopy(cache.rev[r], rev[r])
<1>1. /\ Typed /\ Typed' /\ LifeInv /\ ModEvolves(r)
  BY ThreeLivesTyped, ModRevsEvolve DEF ThreeLives, ThreeTyped, ThreeTypeOK, Typed
<1>2. /\ rev[r].rv \in Nat /\ rev'[r].rv \in Nat /\ cache.rev[r].rv \in Nat
      /\ RevCopy(cache.rev[r], rev[r])
  <2>1. rev'[r] \in Revision
    BY <1>1 DEF Typed, TypeOK, ClusterTypeOK
  <2> QED  BY <1>1, <2>1, RevsTyped DEF Revision, LifeInv, RevCopies
<1>3. cache' = cache /\ queue' = queue
  BY ModStepLeaves
<1>4. ASSUME rev'[r] # rev[r] PROVE Pending(r)' /\ rev'[r].rv > rev[r].rv
  BY <1>1, <1>2, <1>3, <1>4 DEF ModEvolves, RevCopy, Pending
<1>5. ASSUME Pending(r), rev'[r] = rev[r] PROVE Pending(r)'
  BY <1>3, <1>5 DEF Pending
<1> QED  BY <1>2, <1>4, <1>5

\* Its writes of a status keep what was observed.
LEMMA ModBooks ==
    ASSUME ThreeLives, ModCopies, ModStep
    PROVE  \A s \in RevIds : BooksKept(s)
<1>1. /\ Typed /\ mj \in ModWorker /\ rev \in [RevIds -> Revision]
      /\ \A r \in RevIds : rev[r] \in Revision /\ mj.list[r] \in Revision
      /\ mj.new \in Revision
  <2>1. Typed /\ mj \in ModWorker
    BY ThreeLivesTyped DEF ThreeLives
  <2> QED  BY <2>1, RevsTyped DEF Typed, TypeOK, ClusterTypeOK, ModWorker
<1>2. CASE \E r \in RevIds : ModRetire(r)
  <2>1. PICK r \in RevIds : ModRetire(r)
    BY <1>2
  <2> DEFINE held == ModRetired(mj.list[r])
  <2>2. held \in Revision /\ held.rv = mj.list[r].rv /\ held.obs = mj.list[r].obs
    BY ZenonT(60), <1>1 DEF ModRetired, Revision, Status
  <2>3. \/ rev' = rev
        \/ Accepts(held, rev[r]) /\ rev' = [rev EXCEPT ![r] = PutStatus(rev[r], held)]
    BY <2>1 DEF ModRetire
  <2> HIDE DEF held
  <2>4. Accepts(held, rev[r]) => rev[r].live /\ held.obs = rev[r].obs
    BY <2>2 DEF Accepts, ModCopies, RevCopy
  <2> QED  BY <1>1, <2>2, <2>3, <2>4, StatusBooks DEF BooksKept
<1>3. CASE ModActivate
  <2> DEFINE held == [mj.new EXCEPT !.phase = "Active"]
  <2>1. mj.id \in RevIds /\ mj.pc = "activate"
    BY <1>3 DEF ModActivate, ThreeLives, ThreeTyped, IdKnown
  <2>2. held \in Revision /\ held.rv = mj.new.rv /\ held.obs = mj.new.obs
    BY ZenonT(60), <1>1 DEF Revision, Status
  <2>3. \/ rev' = rev
        \/ /\ Accepts(held, rev[mj.id])
           /\ rev' = [rev EXCEPT ![mj.id] = PutStatus(rev[mj.id], held)]
    BY <1>3 DEF ModActivate, NewId
  <2> HIDE DEF held
  <2>4. Accepts(held, rev[mj.id]) => rev[mj.id].live /\ held.obs = rev[mj.id].obs
    BY <2>1, <2>2 DEF Accepts, ModCopies, RevCopy
  <2> QED  BY <1>1, <2>1, <2>2, <2>3, <2>4, StatusBooks DEF BooksKept
<1>4. CASE ModCreateRevision
  <2> DEFINE r   == mj.id
             new == [rev[r] EXCEPT !.live = TRUE, !.image = Spelling(mj.ad.image),
                                   !.status = "",
                                   !.phase = "", !.gen = 1, !.obs = 0, !.origin = FALSE]
  <2>1. r \in RevIds
    BY <1>4 DEF ModCreateRevision, ThreeLives, ThreeTyped, IdKnown
  <2>2. /\ new.gen = 1 /\ new.obs = 0
        /\ DOMAIN new = DOMAIN rev[r] /\ {"gen", "obs"} \subseteq DOMAIN rev[r]
    BY <1>1, <2>1 DEF Revision
  <2>3. rev' = rev \/ rev' = [rev EXCEPT ![r] = Stored(rev[r], new)]
    BY <1>4 DEF ModCreateRevision, NewId
  <2> HIDE DEF new
  <2>4. Stored(rev[r], new).gen = 1 /\ Stored(rev[r], new).obs = 0
    BY <2>2 DEF Stored
  <2> QED  BY <1>1, <2>1, <2>3, <2>4 DEF BooksKept
<1>5. CASE ModPrune
  <2>1. rev' = rev \/ \E r : rev' = [rev EXCEPT ![r] = Deleted(rev[r])]
    BY <1>5 DEF ModPrune
  <2> QED  BY <1>1, <2>1, DeletedKept DEF BooksKept
<1>6. CASE /\ ~(\E r \in RevIds : ModRetire(r))
           /\ ~ModActivate /\ ~ModCreateRevision /\ ~ModPrune
  <2>1. rev' = rev
    BY <1>6 DEF ModStep, ModBegin, ModClearOrigin, SyncModule, RecordRevisionId,
         ModListRevisions, CreateFunction, ModObserve, clusterVars
  <2> QED  BY <2>1 DEF BooksKept
<1> QED  BY <1>2, <1>3, <1>4, <1>5, <1>6

\* The part of the invariant that is about the Revisions.
LEMMA ModKeepsRevisions ==
    ASSUME ThreeLives, ThreeTyped', QuietInv, ModCopies, ModStep, UNCHANGED <<aj, rj>>
    PROVE  OwnCopy' /\ OwnState' /\ Retiring' /\ Taken' /\ Noticed' /\ DeletionNoticed'
<1>1. /\ Typed /\ Typed' /\ LifeInv
      /\ Unfailed' => Unfailed
      /\ Unrestarted' => Unrestarted
      /\ \A r \in RevIds : BooksKept(r)
  BY ThreeLivesTyped, ModBudgetSpent, ModBooks
     DEF ThreeLives, ThreeTyped, ThreeTypeOK, Typed, QuietInv
<1>2. \A r \in RevIds : /\ rev'[r] # rev[r] => Pending(r)' /\ rev'[r].rv > rev[r].rv
                        /\ Pending(r) => Pending(r)'
                        /\ rev[r].rv \in Nat /\ rev'[r].rv \in Nat
                        /\ RevCopy(aj.list[r], rev[r]) /\ aj.list[r].rv \in Nat
                        /\ RevCopy(rj.list[r], rev[r]) /\ rj.list[r].rv \in Nat
  BY <1>1, ModPending, RevsTyped DEF LifeInv, RevCopies, Revision
<1>3. OwnCopy'
  <2> SUFFICES ASSUME Unfailed', Working, NEW r \in RevIds, rj.key = r
               PROVE  /\ rj.own.rv <= rev'[r].rv
                      /\ rj.own.rv = rev'[r].rv /\ rev'[r].live => rj.own = rev'[r]
                      /\ rj.own.rv # rev'[r].rv /\ rev'[r].live => Pending(r)'
    <3>1. Working => rj.key \in RevIds
      BY <1>1 DEF Typed, KeyKnown, Working
    <3> QED  BY <3>1 DEF OwnCopy, OwnFollows, Pending, Working
  <2>1. /\ rj.own.rv <= rev[r].rv
        /\ rj.own.rv = rev[r].rv /\ rev[r].live => rj.own = rev[r]
        /\ rj.own.rv # rev[r].rv /\ rev[r].live => Pending(r)
    BY <1>1 DEF QuietInv, OwnCopy, OwnFollows
  <2>2. rj.own.rv \in Nat
    BY <1>1 DEF Typed, TypeOK, RevWorker, Revision
  <2> QED  BY <1>2, <2>1, <2>2
<1>4. OwnState'
  BY DEF QuietInv, OwnState, Working
<1>5. Retiring'
  <2> SUFFICES ASSUME Unfailed', NEW r \in RevIds, rev'[r].live
               PROVE  /\ aj.pc = "spec" /\ aj.at = r /\ aj.list[r].rv = rev'[r].rv
                            => rev'[r].phase # "Active"
                      /\ rj.pc = "spec" /\ rj.at = r /\ rj.list[r].rv = rev'[r].rv
                            => rev'[r].phase # "Active"
    BY DEF Retiring, RetiringBy
  <2>1. /\ aj.list[r].rv = rev'[r].rv => rev'[r] = rev[r]
        /\ rj.list[r].rv = rev'[r].rv => rev'[r] = rev[r]
    BY <1>2 DEF RevCopy
  <2> QED  BY <1>1, <2>1 DEF QuietInv, Retiring, RetiringBy
<1>6. Taken'
  <2> SUFFICES ASSUME Unfailed', NEW r \in RevIds, rev'[r].live, rev'[r].origin
               PROVE  rev'[r].obs = 0 /\ rev'[r].gen > 0
    BY DEF Taken, LiveIn
  <2>1. rev[r].live /\ rev[r].origin => rev[r].obs = 0 /\ rev[r].gen > 0
    BY <1>1 DEF QuietInv, Taken, LiveIn
  <2>2. rev[r].gen \in Nat /\ rev'[r].gen \in Nat
    <3>1. rev[r] \in Revision /\ rev'[r] \in Revision
      BY <1>1 DEF Typed, TypeOK, ClusterTypeOK
    <3> QED  BY <3>1 DEF Revision
  <2> QED  BY <1>1, <2>1, <2>2 DEF BooksKept, Observes
<1>7. Noticed'
  <2> SUFFICES ASSUME Unfailed', NEW r \in RevIds, rev'[r].live, rev'[r].gen # rev'[r].obs
               PROVE  Pending(r)' \/ (Working /\ rj.key = r)
    BY DEF Noticed, LiveIn, Pending, Working
  <2>1. rev'[r] = rev[r] => Pending(r) \/ (Working /\ rj.key = r)
    BY <1>1 DEF QuietInv, Noticed, LiveIn
  <2> QED  BY <1>2, <2>1
<1>8. DeletionNoticed'
  <2> SUFFICES ASSUME Unfailed', Unrestarted', NEW r \in RevIds, rev'[r].rv > 0, ~rev'[r].live
               PROVE  r \in lyra'.forgotten \/ Pending(r)' \/ (rj.pc = "forget" /\ rj.key = r)
    BY DEF DeletionNoticed, Pending
  <2>1. rev'[r] = rev[r] =>
           r \in lyra.forgotten \/ Pending(r) \/ (rj.pc = "forget" /\ rj.key = r)
    BY <1>1 DEF QuietInv, DeletionNoticed
  <2>2. lyra.forgotten \subseteq lyra'.forgotten
    BY ModStepWrites DEF Writes, Written, Keeps, WritesBare, CreatesBare
  <2> QED  BY <1>2, <2>1, <2>2
<1> QED  BY <1>3, <1>4, <1>5, <1>6, <1>7, <1>8

\* And the part that is about the AppDeployment.
LEMMA ModKeepsMarker ==
    ASSUME ThreeLives, ThreeTyped', ThreeImagesKept, QuietInv, ModSecret,
           ModStep, UNCHANGED <<aj, rj>>
    PROVE  SecretFirst' /\ AdCopy' /\ IdAnswered' /\ MarkerNoticed'
<1>1. /\ Grown /\ cache' = cache /\ queue' = queue /\ objs' = objs
      /\ Unfailed' => Unfailed
      /\ ad.rv \in Nat /\ ad'.rv \in Nat /\ cache.ad.rv \in Nat /\ cache.ad.rv <= ad.rv
  <2>1. Typed /\ Typed'
    BY ThreeLivesTyped DEF ThreeLives, ThreeTyped, ThreeTypeOK, Typed
  <2>2. ad'.rv \in Nat
    BY <2>1 DEF Typed, TypeOK, ClusterTypeOK, AppDeployment
  <2>3. ad.rv \in Nat /\ cache.ad.rv \in Nat /\ cache.ad.rv <= ad.rv
    BY <2>1, AdsTyped DEF AppDeployment, ThreeImagesKept, ImagesKept, CopyOf
  <2>4. Unfailed' => Unfailed
    BY ModBudgetSpent DEF ThreeLives, QuietInv
  <2> QED  BY <2>2, <2>3, <2>4, ModStepKeepsImage, ModStepLeaves DEF ThreeLives
<1>2. SecretFirst'
  <2>1. ASSUME ~objs.secret
        PROVE  ModBegin
    BY <2>1 DEF ModSecret, ModStep, ModClearOrigin, SyncModule, RecordRevisionId,
         ModListRevisions, ModRetire, ModCreateRevision, ModActivate, ModPrune, CreateFunction,
         ModObserve
  <2>2. ModBegin => ad' = ad /\ rev' = rev
    BY DEF ModBegin, clusterVars
  <2> QED  BY <1>1, <2>1, <2>2 DEF QuietInv, SecretFirst
<1>3. AdCopy'
  BY <1>1 DEF Grown, QuietInv, AdCopy
<1>4. IdAnswered'
  BY <1>1 DEF QuietInv, IdAnswered
<1>5. MarkerNoticed'
  <2>1. ad' # ad => AdPending'
    BY <1>1 DEF Grown, AdPending
  <2>2. ad' = ad => MarkerNoticed'
    BY <1>1 DEF QuietInv, MarkerNoticed, AdPending, MarkerHeld
  <2> QED  BY <1>1, <2>1, <2>2 DEF MarkerNoticed
<1> QED  BY <1>2, <1>3, <1>4, <1>5

LEMMA ModSecretKept ==
    ASSUME ThreeTyped, ModSecret, [ModuleNext]_modVars
    PROVE  ModSecret'
<1>1. CASE [Next]_vars /\ mj' \in {mj, ModIdle}
  BY <1>1, SecretStays, ThreeLivesTyped DEF ModSecret, ModIdle
<1>2. CASE ModStep
  <2>1. ASSUME ~objs.secret
        PROVE  ModBegin
    BY <1>2, <2>1 DEF ModSecret, ModStep, ModClearOrigin, SyncModule, RecordRevisionId,
         ModListRevisions, ModRetire, ModCreateRevision, ModActivate, ModPrune, CreateFunction,
         ModObserve
  <2>2. ModBegin /\ ~objs.secret => mj'.pc = "idle"
    BY DEF ModBegin, ModIdle
  <2> QED  BY <1>2, <2>1, <2>2, ModStepLeaves DEF ModSecret
<1> QED  BY <1>1, <1>2, ModuleSteps

-----------------------------------------------------------------------------
(* The theorems.                                                           *)

LEMMA ThreeQuietKept == ThreeQuiet /\ [ModuleNext]_modVars => ThreeQuiet'
<1> SUFFICES ASSUME ThreeQuiet, [ModuleNext]_modVars PROVE ThreeQuiet'
  OBVIOUS
<1>1. /\ ThreeLives /\ ThreeTyped /\ ThreeTyped' /\ ThreeImagesKept
      /\ Typed /\ LifeInv /\ ImagesKept /\ QuietInv /\ ModCopies /\ ModSecret
  BY ModuleNextTyped, ThreeLivesTyped DEF ThreeQuiet, ThreeLives, ThreeImagesKept
<1>2. ThreeLives' /\ ThreeImagesKept' /\ ModSecret'
  BY <1>1, ThreeLivesKept, ModuleNextImagesKept, ModSecretKept
<1>3. CASE [Next]_vars /\ mj' \in {mj, ModIdle}
  BY <1>1, <1>2, <1>3, QuietKept, NextKeepsModCopies DEF ThreeQuiet
<1>4. CASE ModStep /\ UNCHANGED <<aj, rj>>
  <2>1. BudgetBounded'
    BY <1>1, <1>4, ModBudgetSpent DEF QuietInv
  <2>2. QuietInv'
    BY <1>1, <1>4, <2>1, ModKeepsRevisions, ModKeepsMarker DEF QuietInv
  <2> QED  BY <1>1, <1>2, <1>4, <2>2, ModStepKeepsCopies DEF ThreeQuiet
<1> QED  BY <1>3, <1>4, ModuleSteps

LEMMA ThreeQuietInvariant == ModuleSpec => []ThreeQuiet
<1>1. ModuleInit => ThreeQuiet
  <2> SUFFICES ASSUME ModuleInit PROVE ThreeQuiet
    OBVIOUS
  <2>1. ThreeTyped /\ LifeInv /\ ImagesKept /\ QuietInv /\ Typed
    BY ModuleInitTyped, InitLife, InitImagesKept, InitQuiet, ThreeLivesTyped DEF ModuleInit
  <2>2. /\ mj.pc = "idle" /\ mj.ad = NoAppDeployment
        /\ \A r \in RevIds : mj.list[r] = NoRevision
    BY DEF ModuleInit, ModInit, ModIdle, NoRevisions
  <2>3. ThreeImagesKept /\ ModMinting /\ ModSecret
    BY <2>1, <2>2, NothingCopied DEF ThreeImagesKept, ModMinting, ModSecret
  <2>4. ModCopies
    BY <2>1, <2>2, NothingIsCopy DEF LifeInv, ModCopies
  <2> QED  BY <2>1, <2>3, <2>4 DEF ThreeQuiet, ThreeLives
<1> QED  BY <1>1, ThreeQuietKept, PTL DEF ModuleSpec

\* Where no call fails and the operator is not restarted, Lyra was told at rest
\* of the deletion of exactly the Revisions that are gone, however the two
\* controllers that prune them, the garbage collector and the AppModule
\* controller's late creations interleave.
THEOREM ExactlyGoneForgotten == ModuleSpec => []RevisionsForgotten
<1>1. ThreeQuiet => RevisionsForgotten
  <2> SUFFICES ASSUME ThreeQuiet, Unfailed, Unrestarted, rj.pc = "idle", queue.rev = {},
                      cache.rev = rev
               PROVE  lyra.forgotten = {r \in RevIds : rev[r].rv > 0 /\ ~rev[r].live}
    BY DEF RevisionsForgotten, Unrestarted
  <2>1. lyra.forgotten \subseteq RevIds
    BY ThreeLivesTyped DEF ThreeQuiet, ThreeLives, LyraState
  <2>2. \A r \in RevIds : r \in lyra.forgotten => rev[r].rv > 0 /\ ~rev[r].live
    BY DEF ThreeQuiet, ThreeLives, LifeInv, Born
  <2>3. \A r \in RevIds : rev[r].rv > 0 /\ ~rev[r].live => r \in lyra.forgotten
    BY DEF ThreeQuiet, QuietInv, DeletionNoticed, Pending
  <2> QED  BY <2>1, <2>2, <2>3
<1> QED  BY <1>1, ThreeQuietInvariant, PTL

\* With the AppModule controller at work, too, no generation of a Revision is
\* left unobserved at rest where no call fails: its status writes, which the
\* Revision controller's final update may conflict with, bring it back.
THEOREM ThreeObserveGenerations == ModuleSpec => []GenerationsObserved
<1>1. ThreeQuiet => GenerationsObserved
  BY DEF ThreeQuiet, QuietInv, Noticed, Pending, Working, GenerationsObserved, Quiescent
<1> QED  BY <1>1, ThreeQuietInvariant, PTL

\* And the marker is consumed at rest, although RecordRevisionId, the AppModule
\* controller's update of the AppDeployment, may come between the two
\* controllers that set it and take it off.
THEOREM ThreeConsumeMarkers == ModuleSpec => []MarkerConsumed
<1>1. ThreeQuiet => MarkerConsumed
  BY DEF ThreeQuiet, QuietInv, MarkerNoticed, AdPending, MarkerHeld, MarkerConsumed, Quiescent
<1> QED  BY <1>1, ThreeQuietInvariant, PTL

-----------------------------------------------------------------------------
(* No edit of the AppModule is left unobserved.                            *)

\* No call has failed, and the AppDeployment, which owns the AppModule, exists.
Untroubled == Unfailed /\ ad.live

ModBusy == mj.pc # "idle"

\* Before it is created nobody has heard of it.
ModuleFirst ==
    ~mod.live => /\ mod = NoModule /\ modCache = NoModule /\ ~ModBusy
                 /\ ~modQueue.now /\ ~modQueue.later

\* The informer's copy and the worker's are older than what is stored, or the same.
ModuleVersions ==
    /\ modCache.rv <= mod.rv /\ (modCache.rv = mod.rv => modCache = mod)
    /\ ModBusy => mj.own.rv <= mod.rv /\ (mj.own.rv = mod.rv => mj.own = mod)

\* The generations the informer and the worker have seen.
Generations ==
    /\ mod.obs <= mod.gen /\ modCache.gen <= mod.gen /\ (mod.live => mod.gen > 0)
    /\ ModBusy => mj.own.live /\ mj.own.gen <= modCache.gen

\* A copy of a generation that was not observed is what is stored, unless the
\* worker has just taken the origin off.
SameGeneration ==
    mod.gen # mod.obs =>
        /\ ModBusy /\ mj.own.gen = mod.gen => mj.own = mod
        /\ modCache.gen = mod.gen => modCache = mod \/ (mj.pc = "observe" /\ mj.own = mod)

\* Such a generation is about to reach the queue, in the queue, or in the
\* worker's hands.
ModNoticed ==
    mod.live /\ mod.gen # mod.obs =>
        \/ modCache.gen # mod.gen \/ modQueue.now \/ modQueue.later
        \/ ModBusy /\ mj.own.gen = mod.gen

\* The origin goes before anything is observed.
OriginFirst ==
    /\ mod.obs = 0 \/ ~mod.origin
    /\ ModBusy /\ mj.pc # "clear" => ~mj.own.origin

ModuleSecret == mod.live => objs.secret

Attended ==
    /\ ModuleFirst /\ ModuleVersions /\ Generations /\ SameGeneration
    /\ ModNoticed /\ OriginFirst /\ ModuleSecret

ModuleAttended == Untroubled => Attended

\* The AppDeployment, once deleted, stays so.
LEMMA AdStaysGone ==
    ASSUME Typed, [Next]_vars \/ ModStep, ad'.live
    PROVE  ad.live
<1>1. CASE AdStep
  BY <1>1 DEF AdStep, AdBegin, HandleAppDeploymentChanges, SyncApp, CreateModule,
       CreateSubdomain, HandleServiceChanges, ConsumeMarker, ListRevisions, clusterVars,
       RetirePhase, RetireSpec, CreateRevision, Prune, DeleteApp, DeleteService, Accepts
<1>2. CASE RevStep
  BY <1>2 DEF RevStep, RevBegin, ForgetRevision, ClearOrigin, ReadAppDeployment, clusterVars,
       OtherPhase, OtherSpec, ActivatePhase, SwitchDeployment, SyncRevision,
       MarkAppDeployment, ObserveGeneration, Accepts
<1>3. CASE User \/ ReportStatus \/ Collect
  BY <1>3 DEF User, EditImage, Activate, DeleteAppDeployment, ProvideSecret,
       ReportStatus, Collect, CollectDeployment, CollectRevision, CollectModule
<1>4. CASE Deliver \/ Restart \/ Resync \/ UNCHANGED vars
  BY <1>4 DEF Deliver, DeliverAppDeployment, DeliverDeployment, DeliverRevision, Restart,
       Resync, vars
<1>5. CASE ModStep
  BY <1>5 DEF ModStep, ModBegin, ModClearOrigin, SyncModule, RecordRevisionId, Accepts,
       ModListRevisions, ModRetire, ModCreateRevision, ModActivate, ModPrune, CreateFunction,
       ModObserve, clusterVars
<1> QED  BY <1>1, <1>2, <1>3, <1>4, <1>5 DEF Next, Step

LEMMA StaysUntroubled ==
    ASSUME ThreeQuiet, [ModuleNext]_modVars, Untroubled'
    PROVE  Untroubled /\ (Fault => FALSE)
<1>1. Typed /\ ThreeTyped /\ BudgetBounded
  BY ThreeLivesTyped DEF ThreeQuiet, ThreeLives, QuietInv
<1>2. CASE [Next]_vars
  BY <1>1, <1>2, BudgetSpent, AdStaysGone DEF Untroubled
<1>3. CASE ModStep
  BY <1>1, <1>3, ModBudgetSpent, AdStaysGone DEF Untroubled
<1> QED  BY <1>2, <1>3, ModuleSteps

\* While the AppDeployment exists, the other controllers' steps at most create
\* the AppModule, and they do so with the secret at hand.
LEMMA ModuleCreated ==
    ASSUME ThreeTyped, SecretFirst, Step, ModuleFollows, ad.live
    PROVE  \/ mod' = mod
           \/ ~mod.live /\ mod' = Created(mod) /\ objs.secret
<1>0. objs \in Objects /\ mod.live = objs.module
  BY DEF ThreeTyped, ThreeTypeOK, TypeOK, ClusterTypeOK
<1>1. CASE AdStep
  <2>1. aj.pc # "idle" => objs.secret
    BY DEF SecretFirst
  <2>2. \/ objs'.module = objs.module
        \/ aj.pc = "module" /\ ~objs.module /\ objs'.module
    BY <1>0, <1>1 DEF AdStep, AdBegin, HandleAppDeploymentChanges, SyncApp, CreateModule,
       CreateSubdomain, HandleServiceChanges, ConsumeMarker, ListRevisions, clusterVars,
       RetirePhase, RetireSpec, CreateRevision, Prune, DeleteApp, DeleteService, Objects
  <2> QED  BY <1>0, <2>1, <2>2 DEF ModuleFollows
<1>2. CASE RevStep
  <2>1. objs' = objs
    BY <1>2 DEF RevStep, RevBegin, ForgetRevision, ClearOrigin, ReadAppDeployment, clusterVars,
       OtherPhase, OtherSpec, ActivatePhase, SwitchDeployment, SyncRevision,
       MarkAppDeployment, ObserveGeneration
  <2> QED  BY <1>0, <2>1 DEF ModuleFollows
<1>3. CASE User \/ ReportStatus \/ Collect \/ Deliver \/ Resync
  <2>1. objs'.module = objs.module
    BY <1>0, <1>3 DEF User, EditImage, Activate, DeleteAppDeployment, ProvideSecret, Objects,
       ReportStatus, Collect, CollectDeployment, CollectRevision, CollectModule,
       Deliver, DeliverAppDeployment, DeliverDeployment, DeliverRevision, Resync
  <2> QED  BY <1>0, <2>1 DEF ModuleFollows
<1> QED  BY <1>1, <1>2, <1>3 DEF Step

LEMMA FollowAttends ==
    ASSUME ThreeTyped, SecretFirst, Attended, Step, ModuleFollows, ad.live
    PROVE  Attended'
<1>1. /\ modCache' = modCache /\ modQueue' = modQueue /\ mj' = mj
      /\ objs.secret => objs'.secret
  BY SecretStays, ThreeLivesTyped DEF ModuleFollows, Next
<1>2. CASE mod' = mod
  BY <1>1, <1>2 DEF Attended, ModuleFirst, ModBusy, ModuleVersions, Generations, SameGeneration, ModNoticed,
       OriginFirst, ModuleSecret
<1>3. CASE ~mod.live /\ mod' = Created(mod) /\ objs.secret
  <2>1. /\ mod'.live /\ mod'.gen = 1 /\ mod'.obs = 0
        /\ mod'.rv = 1 /\ modCache.rv = 0
        /\ modCache.gen = 0 /\ mj.pc = "idle"
    BY <1>3 DEF Created, Attended, ModuleFirst, ModBusy, NoModule
  <2> QED  BY <1>1, <1>3, <2>1 DEF Attended, ModuleFirst, ModBusy, ModuleVersions, Generations,
         SameGeneration, ModNoticed, OriginFirst, ModuleSecret
<1> QED  BY <1>2, <1>3, ModuleCreated

LEMMA RestartAttends ==
    ASSUME ThreeTyped, Attended, Restart, ModRestart
    PROVE  Attended'
<1>1. /\ mj'.pc = "idle" /\ modCache' = mod /\ mod' = mod /\ objs' = objs
      /\ modQueue'.now = mod.live /\ modQueue'.later = FALSE
      /\ mod.gen \in Nat /\ mod.rv \in Nat
  BY DEF Restart, ModRestart, ModIdle, ThreeTyped, ThreeTypeOK, ModuleTypeOK, AppModule
<1> QED  BY <1>1 DEF Attended, ModuleFirst, ModBusy, ModuleVersions, Generations, SameGeneration,
       ModNoticed, OriginFirst, ModuleSecret

LEMMA EventsAttend ==
    ASSUME ThreeTyped, Attended, EditModule \/ CollectFunctions \/ DeliverModule,
           UNCHANGED vars
    PROVE  Attended'
<1>0. /\ mod \in AppModule /\ modCache \in AppModule /\ mj.own \in AppModule
      /\ modQueue \in [now : BOOLEAN, later : BOOLEAN]
      /\ mod.gen \in Nat /\ mod.obs \in Nat /\ modCache.gen \in Nat /\ mj.own.gen \in Nat
      /\ mod.rv \in Nat /\ modCache.rv \in Nat /\ mj.own.rv \in Nat
      /\ mj' = mj /\ objs' = objs
  BY DEF ThreeTyped, ThreeTypeOK, ModuleTypeOK, ModWorker, AppModule, EditModule,
       CollectFunctions, DeliverModule, vars
<1>1. CASE EditModule
  <2>1. /\ mod.live /\ mod'.live /\ mod'.gen = mod.gen + 1 /\ mod'.obs = mod.obs
        /\ mod'.origin = mod.origin /\ modCache' = modCache /\ modQueue' = modQueue
        /\ mod'.rv = mod.rv + 1
    BY <1>0, <1>1 DEF EditModule, AppModule
  <2>2. modCache.gen # mod.gen + 1 /\ (ModBusy => mj.own.gen # mod.gen + 1)
    BY <1>0 DEF Attended, Generations
  <2> QED  BY <1>0, <2>1, <2>2 DEF Attended, ModuleFirst, ModBusy, ModuleVersions, Generations,
         SameGeneration, ModNoticed, OriginFirst, ModuleSecret
<1>2. CASE CollectFunctions
  BY <1>0, <1>2 DEF CollectFunctions, Attended, ModuleFirst, ModBusy, ModuleVersions, Generations,
       SameGeneration, ModNoticed, OriginFirst, ModuleSecret
<1>3. CASE DeliverModule
  <2>1. /\ modCache' = mod /\ mod' = mod /\ modQueue'.later = modQueue.later
        /\ modQueue'.now = (modQueue.now \/ WatchedModule(modCache, mod))
        /\ modCache # mod
    BY <1>0, <1>3 DEF DeliverModule
  <2>2. mod.live
    BY <2>1 DEF Attended, ModuleFirst
  <2>3. modCache.gen # mod.gen => modQueue'.now
    BY <2>1 DEF WatchedModule
  <2> QED  BY <1>0, <2>1, <2>2, <2>3 DEF Attended, ModuleFirst, ModBusy, ModuleVersions, Generations,
         SameGeneration, ModNoticed, OriginFirst, ModuleSecret
<1> QED  BY <1>1, <1>2, <1>3

\* The steps of moduleHandleRevisionChanges and moduleCreateFunction, and the
\* one to Lyra, keep the worker's AppModule.
LEMMA HandlingKeepsOwn ==
    ASSUME ThreeTyped, ModStep, mj.pc \notin {"idle", "clear", "observe"}
    PROVE  /\ mj'.own = mj.own /\ mj'.pc \notin {"idle", "clear", "sync"}
           /\ UNCHANGED <<mod, modCache, modQueue, modEdits>>
           /\ mj.pc # "sync" => UNCHANGED told
<1>1. mj \in ModWorker
  BY ThreeLivesTyped
<1>2. \A retry : ModObserving(retry).own = mj.own /\ ModObserving(retry).pc = "observe"
  BY <1>1, NoModuleTyped DEF ModObserving, ModWorker
<1>3. CASE SyncModule
  <2>1. \/ \E retry : mj' = ModObserving(retry)
        \/ \E id : mj' = [mj EXCEPT !.pc = "record", !.id = id]
    BY <1>3 DEF SyncModule, AfterSync
  <2>2. \A id : LET j == [mj EXCEPT !.pc = "record", !.id = id]
                IN  j.own = mj.own /\ j.pc = "record"
    BY <1>1 DEF ModWorker
  <2>3. mj'.own = mj.own /\ mj'.pc \in {"record", "observe"}
    BY <1>2, <2>1, <2>2
  <2>4. UNCHANGED <<mod, modCache, modQueue, modEdits>> /\ mj.pc = "sync"
    BY <1>3 DEF SyncModule
  <2> QED  BY <2>3, <2>4
<1>4. CASE RecordRevisionId
  <2>1. mj' \in {[mj EXCEPT !.pc = "list"], ModObserving(FALSE)}
    BY <1>4 DEF RecordRevisionId, ModHeard
  <2>2. [mj EXCEPT !.pc = "list"].own = mj.own /\ [mj EXCEPT !.pc = "list"].pc = "list"
    BY <1>1 DEF ModWorker
  <2>3. mj'.own = mj.own /\ mj'.pc \in {"list", "observe"}
    BY <1>2, <2>1, <2>2
  <2>4. UNCHANGED moduleVars
    BY <1>4 DEF RecordRevisionId
  <2> QED  BY <2>3, <2>4 DEF moduleVars
<1>5. CASE ModListRevisions \/ (\E r \in RevIds : ModRetire(r)) \/ ModPrune
  <2>1. mj'.own = mj.own /\ mj'.pc \in {"create", "phase", "function"}
    BY <1>1, <1>5 DEF ModListRevisions, ModRetire, ModPrune, ModWorker
  <2> QED  BY <1>5, <2>1 DEF ModListRevisions, ModRetire, ModPrune, moduleVars
<1>6. CASE ModCreateRevision
  <2>1. \/ \E new : mj' = [mj EXCEPT !.pc = "activate", !.new = new]
        \/ mj' = ModObserving(FALSE)
    BY <1>6 DEF ModCreateRevision, ModHeard
  <2>2. \A new : LET j == [mj EXCEPT !.pc = "activate", !.new = new]
                 IN  j.own = mj.own /\ j.pc = "activate"
    BY <1>1 DEF ModWorker
  <2>3. mj'.own = mj.own /\ mj'.pc \in {"activate", "observe"}
    BY <1>2, <2>1, <2>2
  <2> QED  BY <1>6, <2>3 DEF ModCreateRevision, moduleVars
<1>7. CASE ModActivate
  <2>1. mj' \in {[mj EXCEPT !.pc = "prune", !.new = NoRevision], ModObserving(FALSE)}
    BY <1>7 DEF ModActivate, ModHeard
  <2>2. LET j == [mj EXCEPT !.pc = "prune", !.new = NoRevision]
        IN  j.own = mj.own /\ j.pc = "prune"
    BY <1>1 DEF ModWorker
  <2>3. mj'.own = mj.own /\ mj'.pc \in {"prune", "observe"}
    BY <1>2, <2>1, <2>2
  <2> QED  BY <1>7, <2>3 DEF ModActivate, moduleVars
<1>8. CASE CreateFunction
  BY <1>2, <1>8 DEF CreateFunction
<1>9. CASE ModBegin \/ ModClearOrigin \/ ModObserve
  BY <1>9 DEF ModBegin, ModClearOrigin, ModObserve
<1> QED  BY <1>3, <1>4, <1>5, <1>6, <1>7, <1>8, <1>9 DEF ModStep

\* What the worker begins with.
LEMMA ModBegun ==
    ASSUME ThreeTyped, ModBegin
    PROVE  /\ UNCHANGED <<mod, modCache, told>>
           /\ mj.pc = "idle"
           /\ \/ /\ mj'.pc = "idle"
                 /\ ~objs.secret \/ ~modCache.live \/ modCache.gen = modCache.obs
              \/ /\ mj'.own = modCache /\ modCache.live
                 /\ \/ mj'.pc = "clear" /\ modCache.origin
                    \/ mj'.pc = "sync" /\ ~modCache.origin
                    \/ mj'.pc = "observe" /\ ~modCache.origin /\ ~cache.ad.live
<1>1. /\ ModIdle.pc = "idle"
      /\ \A own, pc, a : /\ [ModIdle EXCEPT !.own = own, !.pc = pc].own = own
                         /\ [ModIdle EXCEPT !.own = own, !.pc = pc].pc = pc
                         /\ [ModIdle EXCEPT !.own = own, !.pc = pc, !.ad = a].own = own
                         /\ [ModIdle EXCEPT !.own = own, !.pc = pc, !.ad = a].pc = pc
  BY DEF ModIdle
<1>2. \/ /\ mj' = ModIdle
         /\ ~objs.secret \/ ~modCache.live \/ modCache.gen = modCache.obs
      \/ /\ modCache.live
         /\ \/ modCache.origin /\ mj' = [ModIdle EXCEPT !.own = modCache, !.pc = "clear"]
            \/ /\ ~modCache.origin
               /\ mj' = [ModIdle EXCEPT !.own = modCache, !.pc = "sync", !.ad = cache.ad]
            \/ /\ ~modCache.origin /\ ~cache.ad.live
               /\ mj' = [ModIdle EXCEPT !.own = modCache, !.pc = "observe"]
  BY DEF ModBegin
<1> QED  BY <1>1, <1>2 DEF ModBegin

\* How it takes the origin off, where the call does not fail.
LEMMA ModCleared ==
    ASSUME ThreeTyped, ModClearOrigin, ~Fault
    PROVE  /\ mj.pc = "clear" /\ mj'.pc = "observe" /\ UNCHANGED <<modCache, modQueue, told>>
           /\ ~mj'.own.origin
           /\ \/ /\ Accepts(mj.own, mod) /\ mj'.own = mod'
                 /\ mod' = Stored(mod, [mj.own EXCEPT !.origin = FALSE])
              \/ /\ ~Accepts(mj.own, mod) /\ mod' = mod
                 /\ mj'.own = [mj.own EXCEPT !.origin = FALSE]
<1> DEFINE held == [mj.own EXCEPT !.origin = FALSE]
<1>1. mj \in ModWorker /\ mj.own \in AppModule /\ mod \in AppModule
  BY ThreeLivesTyped DEF ThreeTyped, ThreeTypeOK, ModuleTypeOK, ModWorker
<1>2. held \in AppModule /\ held.rv = mj.own.rv /\ ~held.origin
  BY <1>1 DEF AppModule
<1>3. /\ [ModObserving(FALSE) EXCEPT !.own = mod'].own = mod'
      /\ [ModObserving(FALSE) EXCEPT !.own = mod'].pc = "observe"
      /\ [ModObserving(TRUE) EXCEPT !.own = held].own = held
      /\ [ModObserving(TRUE) EXCEPT !.own = held].pc = "observe"
  BY <1>1, NoModuleTyped DEF ModObserving, ModIdle
<1>4. mj.pc = "clear" /\ UNCHANGED <<modCache, modQueue, told>>
  BY DEF ModClearOrigin
<1>5. \/ /\ Accepts(held, mod) /\ mod' = Stored(mod, held)
         /\ mj' = [ModObserving(FALSE) EXCEPT !.own = mod']
      \/ /\ ~Accepts(held, mod) /\ mod' = mod
         /\ mj' = [ModObserving(TRUE) EXCEPT !.own = held]
  BY DEF ModClearOrigin, ModHeard, Refused
<1>6. Accepts(held, mod) <=> Accepts(mj.own, mod)
  BY <1>2 DEF Accepts
<1>7. ~Stored(mod, held).origin
  BY <1>1, <1>2 DEF Stored, AppModule
<1> HIDE DEF held
<1>8. CASE Accepts(held, mod)
  <2>0. mod' = Stored(mod, held) /\ mj' = [ModObserving(FALSE) EXCEPT !.own = mod']
    BY <1>5, <1>8
  <2>1. mod' = Stored(mod, held) /\ mj'.own = mod' /\ mj'.pc = "observe"
    BY <1>3, <2>0
  <2> QED  BY <1>4, <1>6, <1>7, <1>8, <2>1 DEF held
<1>9. CASE ~Accepts(held, mod)
  <2>0. mod' = mod /\ mj' = [ModObserving(TRUE) EXCEPT !.own = held]
    BY <1>5, <1>9
  <2>1. mod' = mod /\ mj'.own = held /\ mj'.pc = "observe"
    BY <1>3, <2>0
  <2> QED  BY <1>2, <1>4, <1>6, <1>9, <2>1 DEF held
<1> QED  BY <1>8, <1>9

\* How it marks the generation observed.
LEMMA ModMarked ==
    ASSUME ThreeTyped, ModObserve, ~Fault
    PROVE  /\ mj.pc = "observe" /\ mj'.pc = "idle" /\ UNCHANGED <<modCache, told>>
           /\ modQueue'.now = modQueue.now /\ (modQueue.later => modQueue'.later)
           /\ \/ /\ Accepts(mj.own, mod)
                 /\ mod' = Stored(mod, [mod EXCEPT !.obs = mj.own.gen])
              \/ ~Accepts(mj.own, mod) /\ mod' = mod
<1>1. /\ mj.own \in AppModule /\ modQueue \in [now : BOOLEAN, later : BOOLEAN]
      /\ mj.retry \in BOOLEAN
  BY ThreeLivesTyped DEF ThreeTyped, ThreeTypeOK, ModuleTypeOK, ModWorker
<1>2. ModObserved.rv = mj.own.rv /\ ModObserved.obs = mj.own.gen
  BY <1>1 DEF ModObserved, AppModule
<1>3. Accepts(ModObserved, mod) <=> Accepts(mj.own, mod)
  BY <1>2 DEF Accepts
<1>4. mj'.pc = "idle"
  BY DEF ModObserve, ModIdle
<1>5. modQueue'.now = modQueue.now /\ (modQueue.later => modQueue'.later)
  BY <1>1 DEF ModObserve
<1>6. \/ /\ Accepts(mj.own, mod) /\ mod' = Stored(mod, [mod EXCEPT !.obs = ModObserved.obs])
      \/ ~Accepts(mj.own, mod) /\ mod' = mod
  BY <1>3 DEF ModObserve, Refused
<1> QED  BY <1>2, <1>4, <1>5, <1>6 DEF ModObserve

LEMMA ModStepAttends ==
    ASSUME ThreeTyped, Attended, ModStep, ~Fault
    PROVE  Attended'
<1> USE DEF Attended, ModuleFirst, ModBusy, ModuleVersions, Generations, SameGeneration,
            ModNoticed, OriginFirst, ModuleSecret
<1>0. /\ mod \in AppModule /\ modCache \in AppModule /\ mj.own \in AppModule
      /\ modQueue \in [now : BOOLEAN, later : BOOLEAN]
      /\ mod.gen \in Nat /\ mod.obs \in Nat /\ modCache.gen \in Nat /\ mj.own.gen \in Nat
      /\ mod.rv \in Nat /\ modCache.rv \in Nat /\ mj.own.rv \in Nat
      /\ objs' = objs
  BY ModStepLeaves, ThreeLivesTyped DEF ThreeTyped, ThreeTypeOK, ModuleTypeOK, ModWorker, AppModule
<1>1. CASE ModBegin
  <2>1. ModNoticed'
    <3> SUFFICES ASSUME mod.live, mod.gen # mod.obs, modCache.gen = mod.gen
                 PROVE  mj'.pc # "idle" /\ mj'.own.gen = mod.gen
      BY <1>1, ModBegun
    <3>1. modCache = mod /\ objs.secret
      BY <1>1, ModBegun
    <3> QED  BY <1>1, <3>1, ModBegun
  <2>2. SameGeneration' /\ ModuleVersions' /\ Generations'
    BY <1>0, <1>1, ModBegun
  <2>3. ModuleFirst'
    <3>1. mod.live
      BY <1>1 DEF ModBegin
    <3> QED  BY <1>1, <3>1, ModBegun
  <2>4. OriginFirst' /\ ModuleSecret'
    BY <1>0, <1>1, ModBegun
  <2> QED  BY <2>1, <2>2, <2>3, <2>4
<1>2. CASE ModClearOrigin
  <2>1. mod.live /\ mj.pc = "clear" /\ mj'.pc = "observe"
        /\ UNCHANGED <<modCache, modQueue>> /\ ~mj'.own.origin
    BY <1>2, ModCleared
  <2>2. CASE Accepts(mj.own, mod)
    <3>1. mj.own = mod /\ mj'.own = mod' /\ mod' = Stored(mod, [mod EXCEPT !.origin = FALSE])
      BY <1>2, <2>1, <2>2, ModCleared DEF Accepts
    <3>2. /\ mod'.live /\ mod'.gen = mod.gen /\ mod'.obs = mod.obs /\ ~mod'.origin
          /\ mod' = mod \/ mod'.rv = mod.rv + 1
      BY <1>0, <2>1, <3>1 DEF Stored, AppModule
    <3> QED  BY <1>0, <2>1, <3>1, <3>2
  <2>3. CASE ~Accepts(mj.own, mod)
    <3>1. /\ mod' = mod /\ mj'.own = [mj.own EXCEPT !.origin = FALSE]
          /\ mj.own.rv # mod.rv
      BY <1>2, <2>1, <2>3, ModCleared DEF Accepts
    <3>2. mj'.own.live = mj.own.live /\ mj'.own.gen = mj.own.gen /\ mj'.own.rv = mj.own.rv
      BY <1>0, <3>1 DEF AppModule
    <3> QED  BY <1>0, <2>1, <3>1, <3>2
  <2> QED  BY <2>2, <2>3
<1>3. CASE ModObserve
  <2>1. /\ mod.live /\ mj.pc = "observe" /\ mj'.pc = "idle" /\ modCache' = modCache
        /\ modQueue'.now = modQueue.now /\ (modQueue.later => modQueue'.later)
    BY <1>3, ModMarked
  <2>2. CASE Accepts(mj.own, mod)
    <3>1. mj.own = mod /\ mod' = Stored(mod, [mod EXCEPT !.obs = mod.gen])
      BY <1>3, <2>1, <2>2, ModMarked DEF Accepts
    <3>2. /\ mod'.live /\ mod'.gen = mod.gen /\ mod'.obs = mod.gen
          /\ mod'.origin = mod.origin /\ (mod' = mod \/ mod'.rv = mod.rv + 1)
      BY <1>0, <2>1, <3>1 DEF Stored, AppModule
    <3> QED  BY <1>0, <2>1, <3>1, <3>2
  <2>3. CASE ~Accepts(mj.own, mod)
    <3>1. mod' = mod /\ mj.own.rv # mod.rv
      BY <1>3, <2>1, <2>3, ModMarked DEF Accepts
    <3> QED  BY <1>0, <2>1, <3>1
  <2> QED  BY <2>2, <2>3
<1>4. CASE mj.pc \notin {"idle", "clear", "observe"}
  <2>1. mod.live
    BY <1>4
  <2> QED  BY <1>0, <1>4, <2>1, HandlingKeepsOwn
<1> QED  BY <1>1, <1>2, <1>3, <1>4 DEF ModStep, ModBegin, ModClearOrigin, ModObserve,
       SyncModule, RecordRevisionId, ModListRevisions, ModRetire, ModCreateRevision,
       ModActivate, ModPrune, CreateFunction

-----------------------------------------------------------------------------
(* What Lyra was told.                                                     *)

\* From a moment of rest at which Lyra knows the AppModule as it is ...
InStep == AllQuiescent /\ mod.live /\ told = mod.gen

\* ... what was observed is what Lyra was last told of, and nobody has an older
\* generation of that in hand.
Told ==
    /\ mod.live /\ ~mod.origin /\ modCache.live /\ ~modCache.origin /\ cache.ad.live
    /\ mod.gen = mod.obs => /\ told = mod.gen /\ modCache.gen = mod.gen
                            /\ ModBusy => mj.own.gen = mod.gen
    /\ ModBusy => ~mj.own.origin /\ mj.pc # "clear"
    /\ mj.pc \notin {"idle", "sync"} => told = mj.own.gen

ModuleTold == Untroubled => Told

LEMMA NextKeepsTold ==
    ASSUME ThreeTyped, ImagesKept, SecretFirst, Attended, Told, ad.live,
           \/ Step /\ ModuleFollows
           \/ Restart /\ ModRestart
           \/ (EditModule \/ CollectFunctions \/ DeliverModule) /\ UNCHANGED vars
    PROVE  ad'.live => Told'
<1> SUFFICES ASSUME ad'.live PROVE Told'
  OBVIOUS
<1> USE DEF Told, ModBusy
<1>0. /\ mod \in AppModule /\ modCache \in AppModule
      /\ mod.gen \in Nat /\ mod.obs \in Nat /\ mod.obs <= mod.gen
  BY DEF ThreeTyped, ThreeTypeOK, ModuleTypeOK, AppModule, Attended, Generations
<1>1. cache'.ad.live
  <2>1. [Next]_vars
    BY DEF Next
  <2> QED  BY <2>1, AdCopiesFrom, ThreeLivesTyped
<1>2. CASE Step /\ ModuleFollows
  <2>1. mod' = mod
    BY <1>2, ModuleCreated
  <2> QED  BY <1>1, <1>2, <2>1 DEF ModuleFollows
<1>3. CASE Restart /\ ModRestart
  <2>1. mj'.pc = "idle" /\ modCache' = mod /\ mod' = mod /\ told' = told
    BY <1>3 DEF ModRestart, ModIdle
  <2> QED  BY <1>1, <2>1
<1>4. CASE EditModule /\ UNCHANGED vars
  <2>1. /\ mod'.live /\ mod'.gen = mod.gen + 1 /\ mod'.obs = mod.obs
        /\ mod'.origin = mod.origin /\ mj' = mj /\ modCache' = modCache /\ told' = told
    BY <1>0, <1>4 DEF EditModule, AppModule
  <2>2. mod'.gen # mod'.obs
    BY <1>0, <2>1
  <2> QED  BY <1>1, <2>1, <2>2
<1>5. CASE (CollectFunctions \/ DeliverModule) /\ UNCHANGED vars
  BY <1>1, <1>5 DEF CollectFunctions, DeliverModule
<1> QED  BY <1>2, <1>3, <1>4, <1>5

LEMMA ModStepKeepsTold ==
    ASSUME ThreeTyped, Attended, Told, ModStep, ~Fault
    PROVE  Told'
<1> USE DEF Told, ModBusy
<1>0. /\ mod \in AppModule /\ mod.gen \in Nat /\ modCache.gen \in Nat /\ mj.own.gen \in Nat
      /\ modCache.gen <= mod.gen /\ (mj.pc # "idle" => mj.own.gen <= modCache.gen)
      /\ cache' = cache
  BY ModStepLeaves, ThreeLivesTyped
     DEF ThreeTyped, ThreeTypeOK, ModuleTypeOK, ModWorker, AppModule, Attended, Generations
<1>1. CASE ModBegin
  <2>1. mj'.pc \in {"idle", "sync"} /\ (mj'.pc = "sync" => mj'.own = modCache)
        /\ UNCHANGED <<mod, modCache, told>>
    BY <1>1, ModBegun
  <2> QED  BY <1>0, <2>1
<1>2. CASE ModObserve
  <2>1. mj.pc = "observe" /\ mj'.pc = "idle" /\ UNCHANGED <<modCache, told>>
    BY <1>2, ModMarked
  <2>2. CASE Accepts(mj.own, mod)
    <3>1. mj.own = mod /\ mod' = Stored(mod, [mod EXCEPT !.obs = mod.gen])
      BY <1>2, <2>1, <2>2, ModMarked DEF Accepts, Attended, ModuleVersions
    <3>2. mod'.live /\ mod'.gen = mod.gen /\ mod'.origin = mod.origin
      BY <1>0, <3>1 DEF Stored, AppModule
    <3>3. modCache.gen = mod.gen /\ told = mod.gen
      BY <1>0, <2>1, <3>1
    <3> QED  BY <1>0, <2>1, <3>2, <3>3
  <2>3. CASE ~Accepts(mj.own, mod)
    BY <1>0, <1>2, <2>1, <2>3, ModMarked
  <2> QED  BY <2>2, <2>3
<1>3. CASE SyncModule
  <2>1. told' = mj.own.gen
    <3>1. PICK call \in Calls : /\ ~Fault /\ call.how # "answered" => Fault
                                /\ told' = IF call.took THEN mj.own.gen ELSE told
      BY <1>3 DEF SyncModule, Asked
    <3> QED  BY <3>1 DEF Calls
  <2>2. mj.pc = "sync"
    BY <1>3 DEF SyncModule
  <2> QED  BY <1>0, <2>1, <2>2, HandlingKeepsOwn
<1>4. CASE mj.pc \notin {"idle", "clear", "observe", "sync"}
  BY <1>0, <1>4, HandlingKeepsOwn
<1> QED  BY <1>1, <1>2, <1>3, <1>4 DEF ModStep, ModBegin, ModClearOrigin, ModObserve,
       SyncModule, RecordRevisionId, ModListRevisions, ModRetire, ModCreateRevision,
       ModActivate, ModPrune, CreateFunction

LEMMA AttendedKept ==
    ASSUME ThreeQuiet, ModuleAttended, [ModuleNext]_modVars
    PROVE  ModuleAttended' /\ (ModuleTold => ModuleTold')
<1> SUFFICES ASSUME Untroubled' PROVE Attended' /\ (ModuleTold => Told')
  BY DEF ModuleAttended, ModuleTold
<1>1. /\ ThreeTyped /\ ImagesKept /\ SecretFirst /\ Attended /\ (ModuleTold => Told)
      /\ ad.live /\ ad'.live /\ ~Fault
  BY StaysUntroubled DEF ModuleAttended, ModuleTold, Untroubled, ThreeQuiet, ThreeLives,
     ThreeImagesKept, QuietInv
<1>2. CASE Step /\ ModuleFollows
  BY <1>1, <1>2, FollowAttends, NextKeepsTold
<1>3. CASE Restart /\ ModRestart
  BY <1>1, <1>3, RestartAttends, NextKeepsTold
<1>4. CASE ModStep
  BY <1>1, <1>4, ModStepAttends, ModStepKeepsTold
<1>5. CASE (EditModule \/ CollectFunctions \/ DeliverModule) /\ UNCHANGED vars
  BY <1>1, <1>5, EventsAttend, NextKeepsTold
<1>6. CASE UNCHANGED modVars
  BY <1>1, <1>6 DEF modVars, vars, moduleVars, Attended, ModuleFirst, ModBusy, ModuleVersions,
     Generations, SameGeneration, ModNoticed, OriginFirst, ModuleSecret, Told
<1> QED  BY <1>2, <1>3, <1>4, <1>5, <1>6 DEF ModuleNext

LEMMA AttendedAlways == ModuleSpec => []ModuleAttended
<1>1. ModuleInit => ModuleAttended
  BY DEF ModuleInit, ModInit, NoModule, ModIdle, ModuleAttended, Attended, ModuleFirst,
     ModBusy, ModuleVersions, Generations, SameGeneration, ModNoticed, OriginFirst,
     ModuleSecret
<1>2. ThreeQuiet /\ ModuleAttended /\ [ModuleNext]_modVars => ModuleAttended'
  BY AttendedKept
<1> QED  BY <1>1, <1>2, ThreeQuietInvariant, PTL DEF ModuleSpec

\* Where no call fails and the AppDeployment exists, no edit of the AppModule is
\* left unobserved at rest, although its controller is not woken by changes of
\* the status and drops the error of its status update.
THEOREM ModuleEditsObserved ==
    ModuleSpec =>
        [](Unfailed /\ AllQuiescent /\ ad.live /\ mod.live => mod.obs = mod.gen)
<1>1. ModuleAttended =>
        (Unfailed /\ AllQuiescent /\ ad.live /\ mod.live => mod.obs = mod.gen)
  BY DEF ModuleAttended, Attended, AllQuiescent, Untroubled, ModNoticed, ModBusy
<1> QED  BY <1>1, AttendedAlways, PTL

\* From any moment of rest at which Lyra knows the AppModule as it is, and as
\* long as no call fails and the AppDeployment exists, every later edit of the
\* AppModule is observed and told to Lyra.
THEOREM EditsReachLyra == ModuleSpec => [](InStep => []ModuleEditsArrive)
<1>1. ThreeQuiet /\ ModuleAttended /\ InStep => ModuleTold
  <2> SUFFICES ASSUME ThreeQuiet, ModuleAttended, InStep, Untroubled PROVE Told
    BY DEF ModuleTold
  <2>1. /\ modCache = mod /\ mod.live /\ told = mod.gen /\ mj.pc = "idle" /\ cache.ad = ad
        /\ ~modQueue.now /\ ~modQueue.later
    BY DEF InStep, AllQuiescent, Quiescent
  <2>2. mod.gen = mod.obs /\ ~mod.origin
    <3>1. mod.gen = mod.obs
      BY <2>1 DEF ModuleAttended, Attended, ModNoticed, ModBusy
    <3>2. mod.gen > 0
      BY <2>1 DEF ModuleAttended, Attended, Generations
    <3> QED  BY <3>1, <3>2 DEF ModuleAttended, Attended, OriginFirst
  <2> QED  BY <2>1, <2>2 DEF Told, ModBusy, Untroubled
<1>2. ThreeQuiet /\ ModuleAttended /\ ModuleTold /\ [ModuleNext]_modVars => ModuleTold'
  BY AttendedKept
<1>3. ModuleAttended /\ ModuleTold => ModuleEditsArrive
  BY DEF ModuleTold, ModuleAttended, Attended, Told, ModuleEditsArrive, AllQuiescent, Untroubled,
     ModNoticed, ModBusy
<1> QED  BY <1>1, <1>2, <1>3, ThreeQuietInvariant, AttendedAlways, PTL DEF ModuleSpec

-----------------------------------------------------------------------------
(* The edits of the AppModule of a settled application.                    *)

\* A copy of its AppDeployment names a Revision, and asks for nothing that does
\* not run.
Fits(a) == a.live /\ ~a.marker /\ a.cur # NoRev /\ Spelling(a.image) = dep.image

\* The AppDeployment controller finds nothing to apply, and Lyra confirms.
AdRests ==
    /\ aj.pc \in {"idle", "apply", "sync"}
    /\ aj.pc # "idle" => Fits(aj.ad) /\ aj.ad.image = dep.image /\ ~aj.app /\ ~aj.revision
    /\ queue.ad => cache.ad.image = dep.image
    /\ ad.image = dep.image \/ (cache.ad = ad /\ ~queue.ad /\ aj.pc = "idle")

\* The Revision controller observes, and has nothing to put in service.
RevRests ==
    /\ rj.pc \in {"idle", "forget", "observe"}
    /\ \A r \in RevIds : Dull(rev[r]) /\ Dull(cache.rev[r])

\* The AppModule controller makes current what exists or what it will create,
\* and deletes neither.
Replacing ==
    /\ mj.pc \in {"sync", "record"} => Fits(mj.ad)
    /\ mj.pc \in {"list", "phase", "create", "activate", "prune"} => ad.cur = mj.id
    /\ mj.pc \notin {"list", "phase", "create"} => rev[ad.cur].live
    /\ mj.pc \in {"phase", "create", "activate", "prune"} => mj.id \notin mj.listed
    /\ mj.pc = "prune" => mj.listed # {}

Replaced ==
    /\ dep.live /\ cache.dep = dep /\ objs.secret /\ Fits(ad) /\ Fits(cache.ad)
    /\ AdRests /\ RevRests /\ Replacing

\* A moment of rest at which the application runs what its user asks for and the
\* Revision it names exists.
ModulePeace ==
    /\ AllQuiescent /\ ad.live /\ dep.live /\ dep.image = Spelling(ad.image)
    /\ ad.cur # NoRev /\ rev[ad.cur].live

\* What holds of every state from there on, at a step at which nothing goes wrong.
Serene == ThreeQuiet /\ ThreeLives' /\ Replaced /\ Unfailed /\ ~Fault

LEMMA SereneTyped ==
    ASSUME Serene
    PROVE  /\ Typed /\ Typed' /\ LifeInv /\ LifeInv' /\ ThreeTyped /\ ThreeTyped'
           /\ aj \in AdWorker /\ mj \in ModWorker /\ rev \in [RevIds -> Revision]
           /\ cache \in Cache /\ queue \in Queue /\ budget \in Budget
           /\ ad \in AppDeployment /\ ad.cur \in RevIds
           /\ \A r \in RevIds : rev[r] \in Revision
           /\ Spelling(dep.image) = dep.image
<1>1. /\ ThreeTyped /\ ThreeTyped' /\ LifeInv /\ LifeInv' /\ Typed /\ aj \in AdWorker
      /\ mj \in ModWorker
  BY ThreeLivesTyped DEF Serene, ThreeQuiet, ThreeLives
<1>2. Typed'
  BY <1>1 DEF ThreeTyped, ThreeTypeOK, Typed
<1>3. /\ rev \in [RevIds -> Revision] /\ cache \in Cache /\ queue \in Queue /\ ad \in AppDeployment
      /\ budget \in Budget
  BY <1>1 DEF Typed, TypeOK, ClusterTypeOK
<1>4. ad.cur \in RevIds
  BY <1>3 DEF Serene, Replaced, Fits, AppDeployment, RevIds, NoRev
<1>5. Spelling(dep.image) = dep.image
  BY <1>3, SpellingTyped DEF Serene, Replaced, Fits, AppDeployment
<1> QED  BY <1>1, <1>2, <1>3, <1>4, <1>5

\* The AppDeployment worker reads what runs, and asks Lyra to confirm it.
LEMMA AdConfirms ==
    ASSUME Serene, AdStep
    PROVE  AdRests' /\ UNCHANGED <<ad, dep, rev, objs.secret, cache>>
<1>1. /\ aj \in AdWorker /\ queue \in Queue /\ ~Fault /\ objs.secret /\ dep.live /\ cache.dep = dep
      /\ Fits(cache.ad) /\ AdRests /\ Typed /\ AdIdle.pc = "idle"
      /\ ~AdIdle.revision /\ ~AdIdle.app
  BY SereneTyped DEF Serene, Replaced, AdIdle
<1>2. CASE AdBegin
  <2>1. /\ aj.pc = "idle" /\ queue.ad /\ UNCHANGED <<ad, dep, rev, objs, cache>>
        /\ aj' = [AdIdle EXCEPT !.pc = "apply", !.ad = cache.ad]
        /\ queue' = [queue EXCEPT !.ad = FALSE]
    BY <1>1, <1>2 DEF AdBegin, Fits
  <2>2. aj'.pc = "apply" /\ aj'.ad = cache.ad /\ ~aj'.revision /\ ~aj'.app
    BY <2>1 DEF AdIdle
  <2>3. ~queue'.ad
    BY <1>1, <2>1 DEF Queue
  <2> QED  BY <1>1, <2>1, <2>2, <2>3 DEF AdRests, Fits
<1>3. CASE HandleAppDeploymentChanges
  <2>1. /\ aj.pc = "apply" /\ UNCHANGED <<ad, dep, rev, objs, cache, queue>> /\ aj' = Same
    BY <1>1, <1>3 DEF HandleAppDeploymentChanges, AdRests
  <2>2. aj'.pc = "sync" /\ aj'.ad = aj.ad /\ aj'.app = aj.app /\ aj'.revision = aj.revision
    BY <1>1, <2>1 DEF Same, AdWorker
  <2> QED  BY <1>1, <2>1, <2>2 DEF AdRests, Fits
<1>4. CASE SyncApp
  <2> DEFINE j == [aj EXCEPT !.id = Reply(aj.ad.cur)]
  <2>1. aj.pc = "sync" /\ aj.ad.cur # NoRev /\ ~aj.ad.marker /\ ~aj.app /\ ~aj.revision
    BY <1>1, <1>4 DEF SyncApp, AdRests, Fits
  <2>2. Reply(aj.ad.cur) = aj.ad.cur
    BY <2>1 DEF Reply
  <2>3. j.app = aj.app /\ j.revision = aj.revision /\ j.id = aj.ad.cur /\ j.ad = aj.ad
    BY <1>1, <2>2 DEF AdWorker
  <2>4. /\ aj' = (IF j.app THEN [j EXCEPT !.pc = "module"] ELSE AfterModule(j))
        /\ UNCHANGED <<ad, dep, rev, objs, cache, queue>>
    BY <1>1, <1>4, Answered
  <2> HIDE DEF j
  <2>5. aj' = AdIdle
    BY <2>1, <2>3, <2>4 DEF AfterModule, AfterObjects
  <2> QED  BY <1>1, <2>1, <2>4, <2>5 DEF AdRests, Fits
<1>5. AdBegin \/ HandleAppDeploymentChanges \/ SyncApp
  BY <1>1 DEF AdRests, AdStep, CreateModule, CreateSubdomain, HandleServiceChanges,
     ConsumeMarker, ListRevisions, RetirePhase, RetireSpec, CreateRevision, Prune, DeleteApp,
     DeleteService
<1> QED  BY <1>2, <1>3, <1>4, <1>5

\* The Revision worker observes.
LEMMA RevObserves ==
    ASSUME Serene, RevStep
    PROVE  /\ rj'.pc \in {"idle", "forget", "observe"}
           /\ \A r \in RevIds : Dulled(rev[r], rev'[r])
           /\ UNCHANGED <<ad, dep, objs.secret, cache, queue.ad>>
<1>1. /\ rj.pc \in {"idle", "forget", "observe"} /\ RevIdle.pc = "idle" /\ queue \in Queue
      /\ RevIdle \in RevWorker /\ Typed /\ rev \in [RevIds -> Revision]
      /\ \A r \in RevIds : rev[r] \in Revision
  BY NothingTyped, SereneTyped DEF Serene, Replaced, RevRests, RevIdle
<1>2. CASE \E r \in RevIds : RevBegin(r)
  <2>1. PICK r \in RevIds : RevBegin(r)
    BY <1>2
  <2> DEFINE pc == IF cache.rev[r].origin THEN "clear" ELSE AfterOrigin(cache.rev[r])
  <2>2. /\ UNCHANGED <<ad, dep, rev, objs, cache>> /\ queue' = [queue EXCEPT !.rev = @ \ {r}]
        /\ \/ rj' = RevIdle \/ rj' = [RevIdle EXCEPT !.pc = "forget", !.key = r]
           \/ /\ rj' = [RevIdle EXCEPT !.key = r, !.own = cache.rev[r], !.pc = pc]
              /\ cache.rev[r].live /\ cache.rev[r].gen # cache.rev[r].obs
    BY <2>1 DEF RevBegin, Gone, Unobserved
  <2>3. cache.rev[r].live /\ cache.rev[r].gen # cache.rev[r].obs => pc = "observe"
    BY DEF Serene, Replaced, RevRests, Dull, AfterOrigin
  <2>4. queue'.ad = queue.ad
    BY <1>1, <2>2 DEF Queue
  <2> HIDE DEF pc
  <2>5. rj'.pc \in {"idle", "forget", "observe"}
    BY <1>1, <2>2, <2>3 DEF RevWorker
  <2> QED  BY <2>2, <2>4, <2>5 DEF Dulled
<1>3. CASE ForgetRevision
  BY <1>1, <1>3 DEF ForgetRevision, Dulled, Queue
<1>4. CASE ObserveGeneration
  <2> DEFINE k == rj.key
             held == ObservedOwn
  <2>1. /\ \/ Accepts(held, rev[k]) /\ rev' = [rev EXCEPT ![k] = PutStatus(rev[k], held)]
           \/ rev' = rev
        /\ rj.pc = "observe" /\ rj' = RevIdle /\ UNCHANGED <<ad, dep, objs, cache>>
        /\ queue'.ad = queue.ad
    BY <1>1, <1>4 DEF ObserveGeneration, Queue
  <2>2. /\ k \in RevIds /\ rev[k] \in Revision /\ rj.own \in Revision
        /\ rj.own.rv = rev[k].rv /\ rev[k].live => rj.own = rev[k]
    BY <1>1, <2>1 DEF Serene, ThreeQuiet, QuietInv, OwnCopy, OwnFollows, Working, RevWorker,
       Typed, TypeOK, KeyKnown
  <2>3. held \in Revision /\ held.rv = rj.own.rv /\ held.obs = rj.own.gen
    BY <2>2 DEF ObservedOwn, Revision
  <2> HIDE DEF held
  <2>4. \A s \in RevIds : Dulled(rev[s], rev'[s])
    BY <1>1, <2>1, <2>2, <2>3, StatusDulls DEF Accepts, Dulled
  <2> QED  BY <1>1, <2>1, <2>4
<1>5. (\E r \in RevIds : RevBegin(r)) \/ ForgetRevision \/ ObserveGeneration
  BY <1>1 DEF RevStep, ClearOrigin, ReadAppDeployment, OtherPhase, OtherSpec, ActivatePhase,
     SwitchDeployment, SyncRevision, MarkAppDeployment
<1> QED  BY <1>2, <1>3, <1>4, <1>5

\* The informers tell nobody of anything to be done.
LEMMA DeliverRests ==
    ASSUME Serene, Deliver, UNCHANGED <<aj, rj>>
    PROVE  /\ AdRests' /\ RevRests' /\ UNCHANGED <<ad, dep, rev, objs.secret, cache.dep>>
           /\ Fits(cache.ad)'
<1>1. /\ cache \in Cache /\ queue \in Queue /\ AdRests /\ RevRests
      /\ cache.dep = dep /\ Fits(ad) /\ Fits(cache.ad)
  BY SereneTyped DEF Serene, Replaced
<1>2. CASE DeliverAppDeployment
  <2>1. /\ UNCHANGED <<ad, dep, rev, objs, cache.dep, cache.rev>>
        /\ cache'.ad = ad /\ cache.ad # ad
    BY <1>1, <1>2 DEF DeliverAppDeployment, Cache
  <2> QED  BY <1>1, <2>1 DEF AdRests, RevRests, Fits, Dull
<1>3. CASE DeliverDeployment
  BY <1>1, <1>3 DEF DeliverDeployment
<1>4. CASE \E r \in RevIds : DeliverRevision(r)
  <2>1. /\ UNCHANGED <<ad, dep, rev, objs, cache.dep, cache.ad, queue.ad>>
        /\ \A r \in RevIds : cache'.rev[r] \in {cache.rev[r], rev[r]}
    BY <1>1, <1>4 DEF DeliverRevision, Cache, Queue
  <2> QED  BY <1>1, <2>1 DEF AdRests, RevRests, Fits, Dull
<1> QED  BY <1>2, <1>3, <1>4 DEF Deliver

\* The steps that are not the AppModule worker's.
LEMMA NextReplaces ==
    ASSUME Serene, CalmNext, ~\E i \in Images : EditImage(i), mj' = mj
    PROVE  Replaced'
<1>1. CASE UNCHANGED vars \/ (ProvideSecret /\ UNCHANGED <<aj, rj>>)
  <2>1. UNCHANGED <<ad, dep, rev, cache, queue, aj, rj, mj>> /\ objs'.secret
    <3>1. objs \in Objects
      BY SereneTyped DEF Typed, TypeOK, ClusterTypeOK
    <3> QED  BY <1>1, <3>1 DEF vars, ProvideSecret, Serene, Replaced, Objects
  <2> QED  BY <2>1 DEF Serene, Replaced, AdRests, RevRests, Replacing, Fits, Dull
<1>2. CASE Deliver /\ UNCHANGED <<aj, rj>>
  BY <1>2, DeliverRests DEF Serene, Replaced, Replacing, Fits
<1>3. CASE AdStep /\ UNCHANGED rj
  BY <1>3, AdConfirms DEF Serene, Replaced, RevRests, Replacing, Fits, Dull
<1>4. CASE RevStep /\ UNCHANGED aj
  <2>1. RevRests'
    BY <1>4, RevObserves DEF Serene, Replaced, RevRests, Dull, Dulled
  <2>2. AdRests'
    BY <1>4, RevObserves DEF Serene, Replaced, AdRests, Fits
  <2>3. Replacing'
    <3>1. \A r \in RevIds : rev'[r].live = rev[r].live
      BY <1>4, RevObserves DEF Dulled
    <3> QED  BY <1>4, <3>1, RevObserves, SereneTyped DEF Serene, Replaced, Replacing, Fits
  <2> QED  BY <1>4, <2>1, <2>2, <2>3, RevObserves DEF Serene, Replaced, Fits
<1> QED  BY <1>1, <1>2, <1>3, <1>4 DEF CalmNext

\* The AppModule worker touches nothing but the AppDeployment and the Revisions.
LEMMA ModReplaces ==
    ASSUME Serene, ModStep, UNCHANGED <<aj, rj>>,
           ad' = ad \/ (Fits(ad)' /\ ad'.image = dep.image),
           \A r \in RevIds : rev'[r] = rev[r] \/ Dull(rev'[r]),
           Replacing'
    PROVE  Replaced'
<1>1. UNCHANGED <<dep, cache, queue, objs>>
  <2>1. dep' = dep
    BY DEF ModStep, ModBegin, ModClearOrigin, SyncModule, RecordRevisionId, ModListRevisions,
       ModRetire, ModCreateRevision, ModActivate, ModPrune, CreateFunction, ModObserve,
       clusterVars
  <2> QED  BY <2>1, ModStepLeaves
<1>2. Fits(ad)' /\ Fits(cache.ad)'
  BY <1>1 DEF Serene, Replaced, Fits
<1>3. AdRests'
  BY <1>1 DEF Serene, Replaced, AdRests, Fits
<1>4. RevRests'
  BY <1>1 DEF Serene, Replaced, RevRests, Dull
<1> QED  BY <1>1, <1>2, <1>3, <1>4 DEF Serene, Replaced

\* It takes up an AppModule, asks Lyra, and makes the id it got current.
LEMMA ModNames ==
    ASSUME Serene, UNCHANGED <<aj, rj>>,
           ModBegin \/ ModClearOrigin \/ SyncModule \/ RecordRevisionId
    PROVE  Replaced'
<1>1. /\ mj \in ModWorker /\ ModIdle.pc = "idle" /\ ModIdle \in ModWorker /\ ~Fault /\ ModStep
      /\ Replacing /\ Fits(ad) /\ Fits(cache.ad) /\ Spelling(dep.image) = dep.image
      /\ ad \in AppDeployment
  BY SereneTyped, NoModuleTyped DEF Serene, Replaced, ModStep, ModIdle
<1>2. /\ \A retry : ModObserving(retry).pc = "observe"
      /\ \A retry, own : [ModObserving(retry) EXCEPT !.own = own].pc = "observe"
  BY <1>1 DEF ModObserving, ModWorker
<1>3. CASE ModBegin
  <2>1. /\ mj.pc = "idle" /\ UNCHANGED <<ad, dep, rev>>
        /\ \/ mj'.pc \in {"idle", "clear", "observe"}
           \/ mj'.pc = "sync" /\ mj'.ad = cache.ad
    BY <1>3 DEF ModBegin, ModIdle, clusterVars
  <2>2. Replacing'
    BY <1>1, <2>1 DEF Replacing, Fits
  <2> QED  BY <1>1, <2>1, <2>2, ModReplaces
<1>4. CASE ModClearOrigin
  <2>1. mj.pc = "clear" /\ UNCHANGED <<ad, dep, rev>> /\ mj'.pc = "observe"
    BY <1>2, <1>4 DEF ModClearOrigin, ModHeard
  <2>2. Replacing'
    BY <1>1, <2>1 DEF Replacing, Fits
  <2> QED  BY <1>1, <2>1, <2>2, ModReplaces
<1>5. CASE SyncModule
  <2>1. /\ mj.pc = "sync" /\ UNCHANGED <<ad, dep, rev>>
        /\ \/ \E retry : mj' = ModObserving(retry)
           \/ \E id : mj' = [mj EXCEPT !.pc = "record", !.id = id]
    BY <1>5 DEF SyncModule, AfterSync
  <2>2. mj'.pc = "observe" \/ (mj'.pc = "record" /\ mj'.ad = mj.ad)
    BY <1>1, <1>2, <2>1 DEF ModWorker
  <2>3. Replacing'
    BY <1>1, <2>1, <2>2 DEF Replacing, Fits
  <2> QED  BY <1>1, <2>1, <2>3, ModReplaces
<1>6. CASE RecordRevisionId
  <2>1. mj.pc = "record" /\ UNCHANGED <<dep, rev>> /\ Fits(mj.ad) /\ mj.ad \in AppDeployment
        /\ mj.id \in RevIds
    BY <1>1, <1>6, SereneTyped
       DEF RecordRevisionId, Replacing, ModWorker, ThreeTyped, IdKnown
  <2>2. CASE ~Accepts(Recorded, ad)
    <3>1. UNCHANGED ad /\ mj'.pc = "observe"
      BY <1>1, <1>2, <1>6, <2>2 DEF RecordRevisionId, Refused
    <3>2. Replacing'
      BY <1>1, <2>1, <3>1 DEF Replacing, Fits
    <3> QED  BY <1>1, <2>1, <3>1, <3>2, ModReplaces
  <2>3. CASE Accepts(Recorded, ad)
    <3>1. ad' = Stored(ad, Recorded) /\ mj' = [mj EXCEPT !.pc = "list"]
      BY <1>1, <1>6, <2>3 DEF RecordRevisionId, ModHeard, Refused
    <3>2. mj'.pc = "list" /\ mj'.id = mj.id
      BY <1>1, <3>1 DEF ModWorker
    <3>3. /\ Recorded.live /\ ~Recorded.marker /\ Recorded.cur = mj.id
          /\ Recorded.image = dep.image
      BY <2>1 DEF Recorded, AppDeployment, Fits
    <3>4. ad'.live /\ ~ad'.marker /\ ad'.cur = mj.id /\ ad'.image = dep.image
      <4>1. Recorded \in AppDeployment
        <5>1. dep.image \in OptImage
          BY SereneTyped DEF Typed, TypeOK, ClusterTypeOK, Deployment
        <5> QED  BY <1>1, <2>1, <3>3, <5>1 DEF Recorded, AppDeployment, Fits, ModWorker
      <4> QED  BY <3>1, <3>3, <4>1 DEF Stored, AppDeployment
    <3>5. mj.id # NoRev
      BY <2>1 DEF RevIds, NoRev
    <3>6. Fits(ad)' /\ Replacing'
      BY <1>1, <2>1, <3>2, <3>4, <3>5 DEF Replacing, Fits
    <3> QED  BY <1>1, <2>1, <3>4, <3>6, ModReplaces
  <2> QED  BY <2>2, <2>3
<1> QED  BY <1>3, <1>4, <1>5, <1>6

\* It lists the Revisions, among which is not the one to be created, and
\* retires them.
LEMMA ModRetires ==
    ASSUME Serene, UNCHANGED <<aj, rj>>, ModListRevisions \/ \E r \in RevIds : ModRetire(r)
    PROVE  Replaced'
<1>1. /\ mj \in ModWorker /\ ~Fault /\ ModStep /\ Replacing /\ Typed /\ LifeInv
      /\ rev \in [RevIds -> Revision]
  BY SereneTyped DEF Serene, Replaced, ModStep
<1>2. CASE ModListRevisions
  <2>1. /\ mj.pc = "list" /\ UNCHANGED <<ad, rev>>
        /\ mj'.pc \in {"phase", "create"} /\ mj'.id = mj.id /\ mj'.listed = LiveIn(cache.rev)
    BY <1>1, <1>2 DEF ModListRevisions, ModWorker, clusterVars
  <2>2. mj.id \notin LiveIn(cache.rev)
    <3>1. mj.id \in RevIds /\ rev[mj.id].rv = 0
      BY <2>1 DEF Serene, ThreeQuiet, ThreeLives, ModMinting, New
    <3>2. RevCopy(cache.rev[mj.id], rev[mj.id]) /\ cache.rev[mj.id].rv \in Nat
      BY <1>1, <3>1, RevsTyped DEF LifeInv, RevCopies, Revision
    <3> QED  BY <3>1, <3>2 DEF RevCopy, LiveIn
  <2>3. Replacing'
    BY <1>1, <2>1, <2>2 DEF Replacing
  <2> QED  BY <1>1, <2>1, <2>3, ModReplaces
<1>3. CASE \E r \in RevIds : ModRetire(r)
  <2>1. PICK r \in RevIds : ModRetire(r)
    BY <1>3
  <2> DEFINE held == ModRetired(mj.list[r])
  <2>2. /\ mj.pc = "phase" /\ UNCHANGED ad
        /\ mj'.pc \in {"phase", "create"} /\ mj'.id = mj.id /\ mj'.listed = mj.listed
        /\ \/ rev' = rev
           \/ Accepts(held, rev[r]) /\ rev' = [rev EXCEPT ![r] = PutStatus(rev[r], held)]
    BY <1>1, <2>1 DEF ModRetire, ModWorker
  <2>3. rev[r] \in Revision /\ mj.list[r] \in Revision
    BY <1>1 DEF ModWorker
  <2>4. held \in Revision /\ held.rv = mj.list[r].rv /\ held.obs = mj.list[r].obs
    BY ZenonT(60), <2>3 DEF ModRetired, Revision, Status
  <2> HIDE DEF held
  <2>5. Accepts(held, rev[r]) => held.obs = rev[r].obs
    BY <2>4 DEF Accepts, Serene, ThreeQuiet, ModCopies, RevCopy
  <2>6. \A s \in RevIds : Dulled(rev[s], rev'[s])
    BY <1>1, <2>2, <2>3, <2>4, <2>5, StatusDulls DEF Dulled
  <2>7. \A s \in RevIds : Dull(rev'[s])
    BY <2>6 DEF Dulled, Dull, Serene, Replaced, RevRests
  <2>8. Replacing'
    BY <1>1, <2>2 DEF Replacing
  <2> QED  BY <1>1, <2>2, <2>7, <2>8, ModReplaces
<1> QED  BY <1>2, <1>3

\* It creates the Revision that is current by now.
LEMMA ModCreates ==
    ASSUME Serene, UNCHANGED <<aj, rj>>, ModCreateRevision
    PROVE  Replaced'
<1> DEFINE r   == mj.id
           new == [rev[r] EXCEPT !.live = TRUE, !.image = Spelling(mj.ad.image), !.status = "",
                                 !.phase = "", !.gen = 1, !.obs = 0, !.origin = FALSE]
<1>1. /\ mj \in ModWorker /\ ~Fault /\ ModStep /\ Replacing /\ Typed /\ LifeInv
      /\ rev \in [RevIds -> Revision] /\ mj.pc = "create"
  BY SereneTyped DEF Serene, Replaced, ModStep, ModCreateRevision
<1>2. r \in RevIds /\ ~rev[r].live
  <2>1. r \in RevIds /\ rev[r].rv = 0
    BY <1>1 DEF Serene, ThreeQuiet, ThreeLives, ModMinting, New
  <2>2. rev[r] = NoRevision
    BY <1>1, <2>1 DEF LifeInv, Born
  <2>3. ~NoRevision.live
    BY DEF NoRevision
  <2> QED  BY <2>1, <2>2, <2>3
<1>3. /\ UNCHANGED ad /\ rev' = [rev EXCEPT ![r] = Stored(rev[r], new)]
      /\ mj' = [mj EXCEPT !.pc = "activate", !.new = rev'[r]]
  BY <1>1, <1>2 DEF ModCreateRevision, ModHeard, NewId
<1>4. /\ DOMAIN new = DOMAIN rev[r]
      /\ {"live", "origin", "status", "rv"} \subseteq DOMAIN rev[r]
  BY <1>1, <1>2 DEF Revision
<1>5. new.live /\ ~new.origin /\ new.status = ""
  BY <1>4
<1> HIDE DEF new
<1>6. Stored(rev[r], new).live /\ ~Stored(rev[r], new).origin /\ Stored(rev[r], new).status = ""
  BY <1>4, <1>5 DEF Stored
<1>7. \A s \in RevIds : s # r => rev'[s] = rev[s]
  BY <1>1, <1>3
<1>8. rev'[r].live /\ Dull(rev'[r])
  BY <1>1, <1>2, <1>3, <1>6 DEF Dull
<1>9. mj'.pc = "activate" /\ mj'.id = mj.id /\ mj'.listed = mj.listed
  BY <1>1, <1>3 DEF ModWorker
<1>10. Replacing'
  BY <1>1, <1>3, <1>8, <1>9 DEF Replacing
<1> QED  BY <1>1, <1>3, <1>7, <1>8, <1>10, ModReplaces

\* It reports the new Revision Active, and deletes another one.
LEMMA ModDeletesAnother ==
    ASSUME Serene, UNCHANGED <<aj, rj>>, ModActivate \/ ModPrune
    PROVE  Replaced'
<1>1. /\ mj \in ModWorker /\ ~Fault /\ ModStep /\ Replacing /\ Typed /\ LifeInv
      /\ rev \in [RevIds -> Revision] /\ ad.cur \in RevIds
      /\ \A retry : ModObserving(retry).pc = "observe"
  BY SereneTyped, NoModuleTyped DEF Serene, Replaced, ModStep, ModObserving, ModWorker
<1>2. CASE ModActivate
  <2> DEFINE r    == mj.id
             held == [mj.new EXCEPT !.phase = "Active"]
  <2>1. /\ mj.pc = "activate" /\ UNCHANGED ad
        /\ \/ mj' = [mj EXCEPT !.pc = "prune", !.new = NoRevision] /\ ModTooMany
           \/ mj' = ModObserving(FALSE)
        /\ \/ rev' = rev
           \/ Accepts(held, rev[r]) /\ rev' = [rev EXCEPT ![r] = PutStatus(rev[r], held)]
    BY <1>1, <1>2 DEF ModActivate, ModHeard, NewId
  <2>2. r \in RevIds /\ rev[r] \in Revision /\ mj.new \in Revision
    BY <1>1, <2>1 DEF Replacing, ModWorker
  <2>3. held \in Revision /\ held.rv = mj.new.rv /\ held.obs = mj.new.obs
    BY ZenonT(60), <2>2 DEF Revision, Status
  <2> HIDE DEF held
  <2>4. Accepts(held, rev[r]) => held.obs = rev[r].obs
    BY <2>1, <2>3 DEF Accepts, Serene, ThreeQuiet, ModCopies, RevCopy
  <2>5. \A s \in RevIds : Dulled(rev[s], rev'[s])
    BY <1>1, <2>1, <2>2, <2>3, <2>4, StatusDulls DEF Dulled
  <2>6. \A s \in RevIds : Dull(rev'[s]) /\ rev'[s].live = rev[s].live
    BY <2>5 DEF Dulled, Dull, Serene, Replaced, RevRests
  <2>7. mj'.pc = "observe" \/ /\ mj'.pc = "prune" /\ mj'.id = mj.id /\ mj'.listed = mj.listed
                              /\ ModTooMany
    BY <1>1, <2>1 DEF ModWorker
  <2>8. ModTooMany => mj.listed # {}
    BY FS_EmptySet, RevsAssumption DEF ModTooMany
  <2>9. Replacing'
    BY <1>1, <2>1, <2>6, <2>7, <2>8 DEF Replacing
  <2> QED  BY <1>1, <2>1, <2>6, <2>9, ModReplaces
<1>3. CASE ModPrune
  <2> DEFINE oldest == CHOOSE r \in mj.listed : \A s \in mj.listed : r <= s
  <2>1. /\ mj.pc = "prune" /\ UNCHANGED ad
        /\ rev' = rev \/ rev' = [rev EXCEPT ![oldest] = Deleted(rev[oldest])]
        /\ mj' = [mj EXCEPT !.pc = "function"]
    BY <1>3 DEF ModPrune
  <2>2. oldest \in mj.listed
    <3>1. mj.listed \in SUBSET Nat
      BY <1>1 DEF ModWorker, RevIds
    <3> QED  BY <1>1, <2>1, <3>1, OldestIn DEF Replacing
  <2> HIDE DEF oldest
  <2>3. oldest \in RevIds /\ oldest # ad.cur
    BY <1>1, <2>1, <2>2 DEF ModWorker, Replacing
  <2>4. /\ \A r \in RevIds : rev'[r] = rev[r] \/ ~rev'[r].live
        /\ rev'[ad.cur] = rev[ad.cur]
    BY <1>1, <2>1, <2>3 DEF Deleted, Revision
  <2>5. mj'.pc = "function"
    BY <1>1, <2>1 DEF ModWorker
  <2>6. Replacing'
    BY <1>1, <2>1, <2>4, <2>5 DEF Replacing
  <2> QED  BY <1>1, <2>1, <2>4, <2>6, ModReplaces DEF Dull
<1> QED  BY <1>2, <1>3

LEMMA ModStepReplaces ==
    ASSUME Serene, ModStep, UNCHANGED <<aj, rj>>
    PROVE  Replaced'
<1>1. CASE CreateFunction \/ ModObserve
  <2>1. mj.pc \in {"function", "observe"} /\ UNCHANGED <<ad, rev>>
        /\ mj'.pc \in {"idle", "observe"}
    <3>1. ModIdle.pc = "idle" /\ ModObserving(FALSE).pc = "observe"
      BY NoModuleTyped DEF ModObserving, ModIdle, ModWorker
    <3> QED  BY <1>1, <3>1 DEF CreateFunction, ModObserve
  <2>2. Replacing'
    BY <2>1 DEF Serene, Replaced, Replacing
  <2> QED  BY <2>1, <2>2, ModReplaces
<1> QED  BY <1>1, ModNames, ModRetires, ModCreates, ModDeletesAnother DEF ModStep

\* Everybody's steps, as long as nothing but edits of the AppModule happens.
LEMMA ReplacedKept ==
    ASSUME ThreeQuiet, BudgetKept, Undisturbed', budget'.edits = MaxEdits,
           Undisturbed /\ budget.edits = MaxEdits => Replaced,
           [ModuleNext]_modVars
    PROVE  Replaced'
<1>1. ThreeLives /\ ThreeLives' /\ Typed /\ budget \in Budget
  BY ThreeLivesKept, ThreeLivesTyped DEF ThreeQuiet, ThreeLives
<1>2. CASE ModStep /\ UNCHANGED <<aj, rj>>
  <2>1. ~Fault /\ UNCHANGED budget
    <3>1. Fault => budget'.faults = budget.faults - 1 /\ budget.faults \in Nat
      BY <1>1 DEF Fault, Budget
    <3>2. budget.faults <= MaxFaults /\ budget'.faults = MaxFaults /\ MaxFaults \in Nat
      BY BudgetAssumption DEF BudgetKept, Undisturbed, Unfailed
    <3> QED  BY <1>2, <3>1, <3>2, ModSpends
  <2>2. Serene
    BY <1>1, <2>1 DEF Serene, Undisturbed, Unfailed
  <2> QED  BY <1>2, <2>2, ModStepReplaces
<1>3. CASE /\ [Next]_vars /\ ~Restart /\ mj' = mj
  <2>1. Undisturbed /\ Unspent /\ budget.edits = MaxEdits /\ ~\E i \in Images : EditImage(i)
    BY <1>1, <1>3, OnlySpent
  <2>2. Replaced /\ ad.live
    BY <2>1 DEF Replaced, Fits
  <2>3. ~Fault /\ CalmNext
    BY <1>1, <1>3, <2>1, <2>2, CalmStep
  <2>4. Serene
    BY <1>1, <2>1, <2>2, <2>3 DEF Serene, Undisturbed
  <2> QED  BY <1>3, <2>1, <2>3, <2>4, NextReplaces
<1>4. ~Restart
  <2> SUFFICES ASSUME Restart PROVE FALSE
    OBVIOUS
  <2>1. budget'.restarts = budget.restarts - 1 /\ budget.restarts \in Nat
    BY <1>1 DEF Restart, Budget
  <2>2. budget.restarts <= MaxRestarts /\ budget'.restarts = MaxRestarts /\ MaxRestarts \in Nat
    BY BudgetAssumption DEF BudgetKept, Undisturbed
  <2> QED  BY <2>1, <2>2
<1>5. \/ ModStep /\ UNCHANGED <<aj, rj>>
      \/ [Next]_vars /\ mj' = mj
  <2>1. CASE Step /\ ModuleFollows
    BY <2>1 DEF Next, ModuleFollows
  <2>2. CASE (EditModule \/ CollectFunctions \/ DeliverModule) /\ UNCHANGED vars
    BY <2>2 DEF EditModule, CollectFunctions, DeliverModule
  <2>3. CASE UNCHANGED modVars
    BY <2>3 DEF modVars, vars
  <2> QED  BY <1>4, <2>1, <2>2, <2>3 DEF ModuleNext
<1> QED  BY <1>2, <1>3, <1>4, <1>5

LEMMA BudgetAlwaysKept == ModuleSpec => []BudgetKept
<1>1. ModuleInit => BudgetKept
  <2>1. ModuleInit => budget = FullBudget
    BY DEF ModuleInit, Init, ClusterInit
  <2> QED  BY <2>1, BudgetAssumption DEF FullBudget, BudgetKept
<1>2. ThreeQuiet /\ BudgetKept /\ [ModuleNext]_modVars => BudgetKept'
  <2> SUFFICES ASSUME ThreeQuiet, BudgetKept, [ModuleNext]_modVars PROVE BudgetKept'
    OBVIOUS
  <2>1. Typed /\ budget \in Budget
    BY ThreeLivesTyped DEF ThreeQuiet, ThreeLives
  <2>2. CASE [Next]_vars
    BY <2>1, <2>2, OnlySpent
  <2>3. CASE ModStep
    <3>1. CASE UNCHANGED budget
      BY <3>1 DEF BudgetKept
    <3>2. CASE Fault
      <4>1. /\ budget' = [budget EXCEPT !.faults = @ - 1] /\ budget.faults \in Nat
            /\ MaxFaults \in Nat
        BY <2>1, <3>2, BudgetAssumption DEF Fault, Budget
      <4> QED  BY <2>1, <4>1 DEF BudgetKept, Budget
    <3> QED  BY <2>3, <3>1, <3>2, ModSpends
  <2> QED  BY <2>2, <2>3, ModuleSteps
<1> QED  BY <1>1, <1>2, ThreeQuietInvariant, PTL DEF ModuleSpec

\* From any moment of rest at which the application runs what its user asks for
\* and its current Revision exists, and as long as its user edits the AppModule
\* only, no call fails, nothing is activated or deleted, the manager goes on and
\* Kubernetes reports nothing: the current Revision exists whenever everybody is
\* at rest, although moduleHandleRevisionChanges makes an id current before it
\* creates its Revision, and deletes the oldest one from a list it read before.
THEOREM CurrentIsThere == ModuleSpec => [](ModulePeace => []CurrentExists)
<1> DEFINE Goes == Undisturbed /\ budget.edits = MaxEdits => Replaced
<1>1. ThreeQuiet /\ ModulePeace => Goes
  <2> SUFFICES ASSUME ThreeQuiet, ModulePeace, Undisturbed PROVE Replaced
    OBVIOUS
  <2>1. /\ aj.pc = "idle" /\ rj.pc = "idle" /\ mj.pc = "idle" /\ ~queue.ad /\ queue.rev = {}
        /\ cache.ad = ad /\ cache.dep = dep /\ cache.rev = rev
    BY DEF ModulePeace, AllQuiescent, Quiescent
  <2>2. \A r \in LiveIn(rev) : rev[r].gen = rev[r].obs
    BY <2>1 DEF ThreeQuiet, QuietInv, Noticed, Pending, Working, Undisturbed
  <2>3. \A r \in RevIds : Dull(rev[r])
    BY <2>2 DEF ThreeQuiet, QuietInv, Taken, Undisturbed, LiveIn, Dull
  <2>4. ~ad.marker
    BY <2>1 DEF ThreeQuiet, QuietInv, MarkerNoticed, AdPending, MarkerHeld, Undisturbed,
       ModulePeace
  <2>5. objs.secret
    <3>1. Typed /\ Born /\ ad.cur \in RevIds
      BY ThreeLivesTyped DEF ThreeQuiet, ThreeLives, LifeInv, ModulePeace, Typed, TypeOK,
         ClusterTypeOK, AppDeployment, RevIds, NoRev
    <3>2. ~NoRevision.live
      BY DEF NoRevision
    <3> QED  BY <3>1, <3>2 DEF Born, ThreeQuiet, QuietInv, SecretFirst, ModulePeace
  <2> QED  BY <2>1, <2>3, <2>4, <2>5 DEF ModulePeace, Replaced, AdRests, RevRests, Replacing, Fits
<1>2. ThreeQuiet /\ BudgetKept /\ Goes /\ [ModuleNext]_modVars => Goes'
  BY ReplacedKept
<1>3. Goes => CurrentExists
  BY DEF Replaced, Replacing, Fits, CurrentExists, AllQuiescent
<1> HIDE DEF Goes
<1> QED  BY <1>1, <1>2, <1>3, ThreeQuietInvariant, BudgetAlwaysKept, PTL DEF ModuleSpec

=============================================================================
