-------------------------------- MODULE Kube --------------------------------
(***************************************************************************)
(* What the Kubernetes API server does to one stored object, as far as     *)
(* the operator relies on it (external: k8s.io/apiserver is not part of    *)
(* this repository; src/ uses it through controller-runtime's              *)
(* client.Client).  An object is a record with at least                    *)
(*   live : whether the object exists,                                     *)
(*   rv   : metadata.resourceVersion, the version of the last write.       *)
(* A client holds a copy of the object it read from its informer cache; a  *)
(* write sends the whole copy back and is accepted only when the copy      *)
(* carries the version that is stored (optimistic locking).                *)
(***************************************************************************)
EXTENDS Naturals

\* An Update is accepted only from a copy of the stored version: otherwise
\* the answer is Conflict, or NotFound when the object was deleted.
Accepts(held, stored) == stored.live /\ held.rv = stored.rv

\* A write that changes nothing does not produce a new version (and hence no
\* watch event); every other write does.
Stored(old, new) == IF new = old THEN old ELSE [new EXCEPT !.rv = old.rv + 1]

\* The main resource ignores the status subresource of the copy it is sent,
\* and counts a new generation when the spec differs.
PutSpec(old, held) ==
    LET kept == [held EXCEPT !.phase = old.phase, !.obs = old.obs]
    IN  Stored(old, IF held.status = old.status /\ held.image = old.image
                    THEN kept
                    ELSE [kept EXCEPT !.gen = old.gen + 1])

\* The status subresource replaces the whole status and nothing else.
PutStatus(old, held) ==
    Stored(old, [old EXCEPT !.phase = held.phase, !.obs = held.obs])

\* A deleted object; the version goes on, so that a later object of the same
\* name is never mistaken for this one.
Deleted(old) == [old EXCEPT !.live = FALSE, !.rv = old.rv + 1]

=============================================================================
