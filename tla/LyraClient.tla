----------------------------- MODULE LyraClient -----------------------------
(***************************************************************************)
(* The calls of LyraClient as the controllers make them.  A reconcile      *)
(* makes a client of its own from the vega-init ConfigMap, reads the       *)
(* account's key from the secret, and has the client authenticate and then *)
(* request one operation.  SyncApp, SyncModule, SyncRevision, DeleteApp    *)
(* and DeleteRevision differ in their path and body only.  Meanwhile the   *)
(* key is rotated and the ConfigMap edited, and requests fail.             *)
(***************************************************************************)
EXTENDS Lyra, Naturals

CONSTANTS
    Callers,    \* the controllers' workers: each makes one call at a time
    Keys,       \* the keys the account may have
    NoKey,      \* no token, or an empty one
    SameName,   \* whether the account's id is also the name of the namespace
    MaxUpsets   \* bound: rotations, edits of the ConfigMap and failed requests

ASSUME KeysAssumption == NoKey \notin Keys /\ SameName \in BOOLEAN
ASSUME UpsetsAssumption == MaxUpsets \in Nat

VARIABLES
    config,     \* the vega-init ConfigMap
    secret,     \* the key in the account's secret
    valid,      \* the key Lyra accepts
    upsets,     \* what may still go wrong
    pc,         \* the step each worker's call takes next
    key,        \* the key it read
    tokens,     \* its client's Tokens: what is filed under the namespace's name
    token,      \* the token of its request, by the key it was issued for
    reply,      \* Lyra's answer to the operation
    effects,    \* how often Lyra did the work of the call
    outcome,    \* how the call ended
    calm        \* history: everything was in order when it began, and stayed so

environment == <<config, secret, valid, upsets>>
client == <<key, tokens, token>>
vars == <<environment, pc, client, reply, effects, outcome, calm>>

Steps   == {"idle", "nil", "made", "auth", "sent", "served"}
Configs == {"present", "absent", "malformed"}

\* content : a JSON body that names what Lyra did
\* body    : any other JSON body: it decodes to an empty response
\* garbage : status 404, or a body that is no JSON
Replies == {"content", "body", "garbage"}

NoOutcome == [how |-> "none", took |-> FALSE]

TypeOK ==
    /\ config \in Configs /\ secret \in Keys /\ valid \in Keys /\ upsets \in Nat
    /\ pc \in [Callers -> Steps]
    /\ key \in [Callers -> Keys \cup {NoKey}]
    /\ tokens \in [Callers -> Keys \cup {NoKey}]
    /\ token \in [Callers -> Keys \cup {NoKey}]
    /\ reply \in [Callers -> Replies]
    /\ effects \in [Callers -> Nat]
    /\ outcome \in [Callers -> Calls \cup {NoOutcome}]
    /\ calm \in [Callers -> BOOLEAN]

Init ==
    /\ config \in Configs /\ secret \in Keys /\ valid \in Keys
    /\ upsets = MaxUpsets
    /\ pc = [c \in Callers |-> "idle"]
    /\ key = [c \in Callers |-> NoKey]
    /\ tokens = [c \in Callers |-> NoKey]
    /\ token = [c \in Callers |-> NoKey]
    /\ reply = [c \in Callers |-> "garbage"]
    /\ effects = [c \in Callers |-> 0]
    /\ outcome = [c \in Callers |-> NoOutcome]
    /\ calm = [c \in Callers |-> FALSE]

-----------------------------------------------------------------------------
(* The environment.                                                        *)

Upset == upsets > 0 /\ upsets' = upsets - 1

RotateKey(k) ==
    /\ k # valid
    /\ Upset
    /\ valid' = k
    /\ calm' = [c \in Callers |-> FALSE]
    /\ UNCHANGED <<config, secret, pc, client, reply, effects, outcome>>

UpdateSecret ==
    /\ secret # valid
    /\ secret' = valid
    /\ UNCHANGED <<config, valid, upsets, pc, client, reply, effects, outcome, calm>>

EditConfig ==
    /\ Upset
    /\ config' \in Configs \ {config}
    /\ UNCHANGED <<secret, valid, pc, client, reply, effects, outcome, calm>>

-----------------------------------------------------------------------------
(* A call.                                                                 *)

\* A failure of c's own request.
Fault(c) == Upset /\ calm' = [calm EXCEPT ![c] = FALSE]

End(c, how) ==
    /\ pc' = [pc EXCEPT ![c] = "idle"]
    /\ outcome' = [outcome EXCEPT ![c] = [how |-> how, took |-> effects[c] > 0]]
    /\ UNCHANGED <<config, secret, valid, client, reply, effects>>

\* Mutant: the controller keeps its client.
KeptTokens(c) == tokens[c]

NewTokens(c) == NoKey

\* NewLyraClient and the read of the secret.  Without the ConfigMap there is a
\* nil client, and with a malformed one the constructor panics.
NewLyraClient(c) ==
    /\ pc[c] = "idle"
    /\ key' = [key EXCEPT ![c] = secret]
    /\ tokens' = [tokens EXCEPT ![c] = NewTokens(c)]
    /\ token' = [token EXCEPT ![c] = NoKey]
    /\ effects' = [effects EXCEPT ![c] = 0]
    /\ calm' = [calm EXCEPT ![c] = config = "present" /\ secret = valid]
    /\ \/ /\ config = "present"
          /\ pc' = [pc EXCEPT ![c] = "made"]
       \/ /\ config \in {"absent", "malformed"}
          /\ pc' = [pc EXCEPT ![c] = "nil"]
    /\ outcome' = [outcome EXCEPT ![c] = NoOutcome]
    /\ UNCHANGED <<environment, reply>>

\* The constructor's panic, or the first use of the nil client.
Panic(c) ==
    /\ pc[c] = "nil"
    /\ End(c, "panic")
    /\ UNCHANGED <<upsets, calm>>

\* GetCachedTokenByNamespace: a token is filed under the account's id and
\* looked up under the namespace's name.
LookUpToken(c) ==
    /\ pc[c] = "made"
    /\ token' = [token EXCEPT ![c] = tokens[c]]
    /\ pc' = [pc EXCEPT ![c] = IF tokens[c] = NoKey THEN "auth" ELSE "sent"]
    /\ UNCHANGED <<environment, key, tokens, reply, effects, outcome, calm>>

\* Authenticate was answered with a token, or with a body that has none: it
\* does not look at isValid.
Authenticated(c, t) ==
    /\ token' = [token EXCEPT ![c] = t]
    /\ tokens' = [tokens EXCEPT ![c] = IF SameName THEN t ELSE @]
    /\ pc' = [pc EXCEPT ![c] = "sent"]
    /\ UNCHANGED <<config, secret, valid, key, reply, effects, outcome>>

Authenticate(c) ==
    /\ pc[c] = "auth"
    /\ \/ /\ key[c] = valid
          /\ Authenticated(c, key[c])
          /\ UNCHANGED <<upsets, calm>>
       \/ /\ key[c] # valid
          /\ Authenticated(c, NoKey) \/ End(c, "error")
          /\ UNCHANGED <<upsets, calm>>
       \/ /\ Fault(c)
          /\ Authenticated(c, NoKey) \/ End(c, "error")

\* Lyra handles the operation: it does the work of a request that carries a
\* token of the valid key, and no other; it may fail on the way.
Serve(c) ==
    /\ pc[c] = "sent"
    /\ \/ /\ token[c] = valid
          /\ effects' = [effects EXCEPT ![c] = @ + 1]
          /\ reply' = [reply EXCEPT ![c] = "content"]
          /\ UNCHANGED <<upsets, calm>>
       \/ /\ token[c] # valid
          /\ \E r \in {"body", "garbage"} : reply' = [reply EXCEPT ![c] = r]
          /\ UNCHANGED <<effects, upsets, calm>>
       \/ /\ Fault(c)
          /\ \/ token[c] = valid /\ effects' = [effects EXCEPT ![c] = @ + 1]
             \/ UNCHANGED effects
          /\ \E r \in {"body", "garbage"} : reply' = [reply EXCEPT ![c] = r]
    /\ pc' = [pc EXCEPT ![c] = "served"]
    /\ UNCHANGED <<config, secret, valid, client, outcome>>

\* The answer is decoded, whatever its status but 404.
Decoded(c) ==
    CASE reply[c] = "content" -> "answered"
      [] reply[c] = "body"    -> "empty"
      [] reply[c] = "garbage" -> "error"

\* Mutants: the request is sent again; the nil response is used.
SendAgain(c) ==
    /\ pc' = [pc EXCEPT ![c] = "sent"]
    /\ UNCHANGED <<config, secret, valid, client, reply, effects, outcome>>
UseNilResponse(c) == End(c, "panic")

\* The connection was refused, or broke: the call fails.
NoAnswer(c) == End(c, "error")

\* DoLyraHttpRequest returns, and the operation.
Receive(c) ==
    \/ /\ pc[c] = "served"
       /\ End(c, Decoded(c))
       /\ UNCHANGED <<upsets, calm>>
    \/ /\ pc[c] \in {"sent", "served"}
       /\ Fault(c)
       /\ NoAnswer(c)

CallStep(c) ==
    \/ NewLyraClient(c)
    \/ Panic(c)
    \/ LookUpToken(c)
    \/ Authenticate(c)
    \/ Serve(c)
    \/ Receive(c)

Next ==
    \/ \E k \in Keys : RotateKey(k)
    \/ UpdateSecret
    \/ EditConfig
    \/ \E c \in Callers : CallStep(c)

Spec == Init /\ [][Next]_vars

-----------------------------------------------------------------------------
(* What is claimed.                                                        *)

\* Every call keeps the promise of LyraCall, on which the controllers' modules
\* rely: whatever goes wrong in the client, on the way or at Lyra, the work is
\* done at most once and an outcome never misstates it.
Promise == INSTANCE LyraCall WITH calling <- {c \in Callers : pc[c] # "idle"}
CallsKeepPromise == Promise!Spec

\* A call that begins with everything in order, and is not upset, is answered:
\* no key, token or refusal of an earlier call has a part in it.
CalmCallsAnswered ==
    \A c \in Callers : calm[c] /\ outcome[c] # NoOutcome => outcome[c].how = "answered"

=============================================================================
