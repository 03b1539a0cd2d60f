----------------------------- MODULE MCOperator -----------------------------
(***************************************************************************)
(* Operator as TLC checks it: two initial situations, and the reductions   *)
(* that keep its state space small.                                        *)
(***************************************************************************)
EXTENDS Operator

\* Images are only ever compared, so it does not matter which comes first.
First == CHOOSE i \in Images : TRUE

\* Values for Canonical: every image is spelt as the operator spells it, or
\* the ones but First are all spellings of Second.
Second  == CHOOSE i \in Images : i # First
AsSpelt == [i \in Images |-> i]
Respelt == [i \in Images |-> IF i = First THEN First ELSE Second]

FreshInit     == Init /\ ad.image = First
FreshSpec     == FreshInit /\ [][Next]_vars
FreshFairSpec == FreshSpec /\ Fairness

\* The situation after a first rollout and one edit that went well: the first
\* Revision is retired, the second in service, everything is observed.  Spec
\* reaches it (but for the resource versions) with two Images, MaxRevs = 2 and
\* MaxEdits = 1.
Settled(old, new) ==
    /\ ad = [live |-> TRUE, image |-> new, cur |-> 2, marker |-> FALSE, rv |-> 1]
    /\ dep = [live |-> TRUE, image |-> new, rv |-> 1]
    /\ rev = [NoRevisions EXCEPT
                ![1] = [live |-> TRUE, image |-> old, status |-> "Non-active",
                        phase |-> "Non-active", gen |-> 2, obs |-> 2,
                        origin |-> FALSE, rv |-> 1],
                ![2] = [live |-> TRUE, image |-> new, status |-> "Active",
                        phase |-> "Active", gen |-> 1, obs |-> 1,
                        origin |-> FALSE, rv |-> 1]]
    /\ objs = [module |-> TRUE, subdomain |-> TRUE, service |-> TRUE, secret |-> TRUE]
    /\ lyra = [minted |-> 2, active |-> 2, app |-> TRUE, forgotten |-> {}]
    /\ cache = [ad |-> ad, dep |-> dep, rev |-> rev]
    /\ queue = [ad |-> FALSE, rev |-> {}]

SettledInit ==
    /\ Settled(First, Second)
    /\ budget = FullBudget
    /\ AdInit /\ RevInit

SettledSpec == SettledInit /\ [][Next]_vars

\* Bound: no informer is more than one version behind the store.
InformerLag ==
    /\ ad.rv - cache.ad.rv <= 1
    /\ dep.rv - cache.dep.rv <= 1
    /\ \A r \in RevIds : rev[r].rv - cache.rev[r].rv <= 1

\* Bound: InformerLag, and at most two of the informers' copies are behind.
Behind == (ad.rv - cache.ad.rv) + (dep.rv - cache.dep.rv)
          + Cardinality({r \in RevIds : cache.rev[r].rv # rev[r].rv})
FewBehind == InformerLag /\ Behind <= 2

\* Bound: FewBehind; at most two of the user's edit or activation, the restart
\* and the status write happen; and after an activation no more ids are minted.
Edits    == MaxEdits - budget.edits
Switches == MaxSwitches - budget.switches
TwoEvents ==
    /\ FewBehind
    /\ Edits + Switches + MaxRestarts - budget.restarts + MaxStatus - budget.status <= 2
    /\ Switches > 0 => Edits = 0 /\ lyra.minted = 2

\* A version only ever decides whether a copy is the stored version, and a
\* copy that is not will never be again; a generation only whether it was
\* observed.  The view leaves out the rest of both, what a copy holds that can
\* only be sent and will be refused, and what is not read any more.
Aged(copy, stored) == [copy EXCEPT !.rv = IF @ = stored.rv THEN 0 ELSE 1]
ToWrite(copy, stored, none) ==
    IF copy.rv = stored.rv THEN [copy EXCEPT !.rv = 0] ELSE [none EXCEPT !.rv = 1]
Observed(r) == [r EXCEPT !.gen = IF r.gen = r.obs THEN 0 ELSE 1, !.obs = 0]
Listed(list) == [r \in RevIds |-> ToWrite(list[r], rev[r], NoRevision)]
Own == IF rj.key = 0 THEN rj.own
       ELSE [ToWrite(rj.own, rev[rj.key], NoRevision)
               EXCEPT !.image = IF rj.pc = "switch" THEN rj.own.image ELSE @]

View ==
    <<Aged(ad, ad), Aged(dep, dep),
      [r \in RevIds |-> <<Observed(Aged(rev[r], rev[r])), rev[r].rv = 0>>],
      objs, [lyra EXCEPT !.active = NoRev], queue, budget,
      Aged(cache.ad, ad), Aged(cache.dep, dep),
      [r \in RevIds |-> Observed(Aged(cache.rev[r], rev[r]))],
      [aj EXCEPT !.ad = IF aj.pc = "mark" THEN ToWrite(@, ad, NoAppDeployment)
                        ELSE Aged(@, ad),
                 !.list = Listed(@)],
      [rj EXCEPT !.ad = ToWrite(@, ad, NoAppDeployment),
                 !.dep = ToWrite(@, dep, NoDeployment),
                 !.list = Listed(@), !.own = Own]>>

=============================================================================
