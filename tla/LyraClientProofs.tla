--------------------------- MODULE LyraClientProofs ---------------------------
(***************************************************************************)
(* Theorems about LyraClient, for any number of workers, keys and upsets:  *)
(* its calls implement LyraCall, and an undisturbed call is answered.      *)
(***************************************************************************)
EXTENDS LyraClient, TLAPS

\* The work of a call is done at most once, at Lyra, and an answer that names
\* it is the answer to a call whose work was done.
WorkAnswered ==
    \A c \in Callers :
        /\ effects[c] \in {0, 1}
        /\ pc[c] \in {"nil", "made", "auth", "sent"} => effects[c] = 0
        /\ pc[c] = "served" /\ reply[c] = "content" => effects[c] = 1

\* Where an undisturbed call has got to.
Undisturbed(c) ==
    /\ pc[c] = "idle" => outcome[c].how = "answered"
    /\ pc[c] # "idle" => outcome[c] = NoOutcome
    /\ pc[c] # "nil"
    /\ pc[c] = "made" => tokens[c] = NoKey
    /\ pc[c] \in {"made", "auth"} => key[c] = valid
    /\ pc[c] = "sent" => token[c] = valid
    /\ pc[c] = "served" => reply[c] = "content"

CalmUndisturbed == \A c \in Callers : calm[c] => Undisturbed(c)

-----------------------------------------------------------------------------

LEMMA InitTyped == Init => TypeOK
BY UpsetsAssumption DEF Init, TypeOK, Configs, Steps, Replies

LEMMA UpsetTyped ==
    ASSUME upsets \in Nat, Upset
    PROVE  upsets' \in Nat
BY DEF Upset

LEMMA FaultTyped ==
    ASSUME TypeOK, NEW c \in Callers, Fault(c)
    PROVE  upsets' \in Nat /\ calm' \in [Callers -> BOOLEAN]
BY UpsetTyped DEF TypeOK, Fault

\* The ways a call may end, with took saying whether Lyra did its work.
LEMMA Ends ==
    ASSUME NEW took \in BOOLEAN
    PROVE  /\ took = TRUE => [how |-> "answered", took |-> took] \in Calls
           /\ [how |-> "empty", took |-> took] \in Calls
           /\ [how |-> "error", took |-> took] \in Calls
           /\ took = FALSE => [how |-> "panic", took |-> took] \in Calls
BY DEF Calls

\* A step of a call either leaves its worker busy or ends the call, as one of
\* Calls and with a true account of what was done.
LEMMA CallEnds ==
    ASSUME TypeOK, WorkAnswered, NEW c \in Callers,
           \/ Panic(c)
           \/ pc[c] = "auth" /\ End(c, "error")
           \/ Receive(c)
    PROVE  \E how \in {"answered", "empty", "error", "panic"} :
              /\ End(c, how) /\ pc[c] # "idle"
              /\ [how |-> how, took |-> effects[c] > 0] \in Calls
<1>1. effects[c] \in {0, 1} /\ (effects[c] > 0) \in BOOLEAN /\ reply[c] \in Replies
  BY DEF WorkAnswered, TypeOK
<1>2. CASE Panic(c)
  <2>1. End(c, "panic") /\ pc[c] = "nil"
    BY <1>2 DEF Panic
  <2>2. (effects[c] > 0) = FALSE
    BY <1>1, <2>1 DEF WorkAnswered
  <2> QED  BY <1>1, <2>1, <2>2, Ends
<1>3. CASE pc[c] = "auth" /\ End(c, "error")
  BY <1>1, <1>3, Ends
<1>4. CASE pc[c] = "served" /\ End(c, Decoded(c))
  <2>1. CASE reply[c] = "content"
    <3>1. Decoded(c) = "answered" /\ (effects[c] > 0) = TRUE
      BY <1>4, <2>1 DEF Decoded, WorkAnswered
    <3> QED  BY <1>1, <1>4, <3>1, Ends
  <2>2. CASE reply[c] = "body"
    <3>1. Decoded(c) = "empty"
      BY <2>2 DEF Decoded
    <3> QED  BY <1>1, <1>4, <3>1, Ends
  <2>3. CASE reply[c] = "garbage"
    <3>1. Decoded(c) = "error"
      BY <2>3 DEF Decoded
    <3> QED  BY <1>1, <1>4, <3>1, Ends
  <2> QED  BY <1>1, <2>1, <2>2, <2>3 DEF Replies
<1>5. CASE pc[c] \in {"sent", "served"} /\ End(c, "error")
  BY <1>1, <1>5, Ends
<1> QED  BY <1>2, <1>3, <1>4, <1>5 DEF Receive, NoAnswer

-----------------------------------------------------------------------------
(* Every variable keeps its type, and no answer misstates the work.        *)

LEMMA EnvironmentTyped ==
    ASSUME TypeOK, WorkAnswered,
           (\E k \in Keys : RotateKey(k)) \/ UpdateSecret \/ EditConfig
    PROVE  TypeOK' /\ WorkAnswered'
<1>1. CASE \E k \in Keys : RotateKey(k)
  BY <1>1, UpsetTyped DEF RotateKey, client, TypeOK, WorkAnswered
<1>2. CASE UpdateSecret
  BY <1>2 DEF UpdateSecret, client, TypeOK, WorkAnswered
<1>3. CASE EditConfig
  BY <1>3, UpsetTyped DEF EditConfig, client, TypeOK, WorkAnswered
<1> QED  BY <1>1, <1>2, <1>3

LEMMA EndTyped ==
    ASSUME TypeOK, WorkAnswered, NEW c \in Callers, NEW how, End(c, how),
           [how |-> how, took |-> effects[c] > 0] \in Calls,
           (UNCHANGED <<upsets, calm>>) \/ Fault(c)
    PROVE  TypeOK' /\ WorkAnswered'
<1>1. upsets' \in Nat /\ calm' \in [Callers -> BOOLEAN]
  BY FaultTyped DEF TypeOK
<1>2. pc' \in [Callers -> Steps]
  BY DEF End, TypeOK, Steps
<1>3. outcome' \in [Callers -> Calls \cup {NoOutcome}]
  BY DEF End, TypeOK
<1>4. TypeOK'
  BY <1>1, <1>2, <1>3 DEF End, client, TypeOK
<1>5. WorkAnswered'
  BY DEF End, TypeOK, WorkAnswered
<1> QED  BY <1>4, <1>5

LEMMA CallTyped ==
    ASSUME TypeOK, WorkAnswered, NEW c \in Callers, CallStep(c)
    PROVE  TypeOK' /\ WorkAnswered'
<1>1. CASE NewLyraClient(c)
  <2>1. NewTokens(c) = NoKey /\ (config = "present" /\ secret = valid) \in BOOLEAN
    BY DEF NewTokens
  <2>2. TypeOK'
    BY <1>1, <2>1 DEF NewLyraClient, environment, TypeOK, Steps
  <2>3. WorkAnswered'
    BY <1>1 DEF NewLyraClient, TypeOK, WorkAnswered
  <2> QED  BY <2>2, <2>3
<1>2. CASE LookUpToken(c)
  <2>1. TypeOK'
    BY <1>2 DEF LookUpToken, environment, TypeOK, Steps
  <2>2. WorkAnswered'
    BY <1>2 DEF LookUpToken, TypeOK, WorkAnswered
  <2> QED  BY <2>1, <2>2
<1>3. CASE pc[c] = "auth" /\ \E t \in {NoKey, key[c]} : Authenticated(c, t)
                          /\ ((UNCHANGED <<upsets, calm>>) \/ Fault(c))
  <2>1. PICK t \in Keys \cup {NoKey} : Authenticated(c, t)
    BY <1>3 DEF TypeOK
  <2>2. upsets' \in Nat /\ calm' \in [Callers -> BOOLEAN]
    BY <1>3, FaultTyped DEF TypeOK
  <2>3. TypeOK'
    BY <2>1, <2>2 DEF Authenticated, TypeOK, Steps
  <2>4. WorkAnswered'
    BY <1>3, <2>1 DEF Authenticated, TypeOK, WorkAnswered
  <2> QED  BY <2>3, <2>4
<1>4. CASE Serve(c)
  <2>1. upsets' \in Nat /\ calm' \in [Callers -> BOOLEAN]
    BY <1>4, FaultTyped DEF Serve, TypeOK
  <2>2. effects[c] = 0 /\ pc[c] = "sent"
    BY <1>4 DEF Serve, WorkAnswered
  <2>3. PICK r \in Replies : reply' = [reply EXCEPT ![c] = r]
    BY <1>4 DEF Serve, Replies
  <2>4. \/ effects' = [effects EXCEPT ![c] = 1]
        \/ effects' = effects /\ reply'[c] # "content"
    BY <1>4, <2>2 DEF Serve, TypeOK
  <2>5. pc' = [pc EXCEPT ![c] = "served"]
    BY <1>4 DEF Serve
  <2>6. TypeOK'
    BY <1>4, <2>1, <2>3, <2>4, <2>5 DEF Serve, client, TypeOK, Steps
  <2>7. WorkAnswered'
    BY <2>2, <2>3, <2>4, <2>5 DEF TypeOK, WorkAnswered
  <2> QED  BY <2>6, <2>7
<1>5. CASE \/ Panic(c)
           \/ pc[c] = "auth" /\ End(c, "error")
                             /\ ((UNCHANGED <<upsets, calm>>) \/ Fault(c))
           \/ Receive(c)
  <2>1. (UNCHANGED <<upsets, calm>>) \/ Fault(c)
    BY <1>5 DEF Panic, Receive
  <2> QED  BY <1>5, <2>1, CallEnds, EndTyped
<1>6. Authenticate(c) =>
        /\ pc[c] = "auth"
        /\ (UNCHANGED <<upsets, calm>>) \/ Fault(c)
        /\ (\E t \in {NoKey, key[c]} : Authenticated(c, t)) \/ End(c, "error")
  BY DEF Authenticate
<1> QED  BY <1>1, <1>2, <1>3, <1>4, <1>5, <1>6 DEF CallStep

LEMMA NextTyped ==
    TypeOK /\ WorkAnswered /\ [Next]_vars => TypeOK' /\ WorkAnswered'
<1> SUFFICES ASSUME TypeOK, WorkAnswered, [Next]_vars
             PROVE  TypeOK' /\ WorkAnswered'
  OBVIOUS
<1>1. CASE UNCHANGED vars
  BY <1>1 DEF vars, environment, client, TypeOK, WorkAnswered
<1>2. CASE Next
  BY <1>2, EnvironmentTyped, CallTyped DEF Next
<1> QED  BY <1>1, <1>2

LEMMA InitAnswered == Init => WorkAnswered
BY DEF Init, WorkAnswered

\* Every variable of the client, of the requests and of Lyra's side keeps its
\* type: every call of SyncApp, SyncModule, SyncRevision, DeleteApp and
\* DeleteRevision that ends ends as one of Calls.
THEOREM ClientTypeCorrect == Spec => []TypeOK
<1> QED  BY InitTyped, InitAnswered, NextTyped, PTL DEF Spec

-----------------------------------------------------------------------------
(* The calls implement LyraCall: a call is under way while its worker is   *)
(* not idle.                                                               *)

Calling == {c \in Callers : pc[c] # "idle"}

LEMMA InitPromise == Init => Promise!Init
BY DEF Init, Promise!Init, NoOutcome, Promise!NoOutcome

LEMMA EndsCall ==
    ASSUME TypeOK, WorkAnswered, NEW c \in Callers, NEW how, End(c, how),
           pc[c] # "idle", [how |-> how, took |-> effects[c] > 0] \in Calls
    PROVE  Promise!End(c)
<1> DEFINE call == [how |-> how, took |-> effects[c] > 0]
<1>1. call.took = (effects[c] = 1)
  BY DEF WorkAnswered
<1>2. Calling' = Calling \ {c}
  BY DEF End, TypeOK, Calling
<1>3. outcome' = [outcome EXCEPT ![c] = call] /\ effects' = effects
  BY DEF End
<1>4. c \in Calling
  BY DEF Calling
<1> HIDE DEF call
<1>5. call \in Calls
  BY DEF call
<1> QED  BY <1>1, <1>2, <1>3, <1>4, <1>5 DEF Promise!End, Promise!Calls, Calls, Calling

\* A step that leaves its worker busy, and the call's record untouched.
LEMMA StaysCalling ==
    ASSUME TypeOK, NEW c \in Callers, NEW step \in Steps \ {"idle"},
           pc[c] # "idle", pc' = [pc EXCEPT ![c] = step]
    PROVE  Calling' = Calling
BY DEF TypeOK, Calling

LEMMA CallKeepsPromise ==
    ASSUME TypeOK, WorkAnswered, NEW c \in Callers, CallStep(c)
    PROVE  Promise!Next \/ UNCHANGED <<Calling, effects, outcome>>
<1>1. CASE NewLyraClient(c)
  <2>1. c \notin Calling /\ Calling' = Calling \cup {c}
    BY <1>1 DEF NewLyraClient, TypeOK, Calling
  <2>2. Promise!Start(c)
    BY <1>1, <2>1 DEF NewLyraClient, Promise!Start, Calling, NoOutcome, Promise!NoOutcome
  <2> QED  BY <2>2 DEF Promise!Next
<1>2. CASE LookUpToken(c)
  <2>1. PICK step \in Steps \ {"idle"} : pc' = [pc EXCEPT ![c] = step]
    BY <1>2 DEF LookUpToken, Steps
  <2> QED  BY <1>2, <2>1, StaysCalling DEF LookUpToken
<1>3. CASE pc[c] = "auth" /\ \E t : Authenticated(c, t)
  <2>1. pc' = [pc EXCEPT ![c] = "sent"] /\ UNCHANGED <<effects, outcome>>
    BY <1>3 DEF Authenticated
  <2> QED  BY <1>3, <2>1, StaysCalling DEF Steps
<1>4. CASE Serve(c)
  <2>1. pc[c] = "sent" /\ effects[c] = 0 /\ outcome' = outcome
    BY <1>4 DEF Serve, WorkAnswered
  <2>2. Calling' = Calling /\ c \in Calling
    BY <1>4, <2>1, StaysCalling DEF Serve, Steps, Calling
  <2>3. effects' = [effects EXCEPT ![c] = 1] \/ effects' = effects
    BY <1>4, <2>1 DEF Serve
  <2>4. CASE effects' = [effects EXCEPT ![c] = 1]
    <3>1. Promise!Take(c)
      BY <2>1, <2>2, <2>4 DEF Promise!Take, Calling
    <3> QED  BY <3>1 DEF Promise!Next
  <2> QED  BY <2>1, <2>2, <2>3, <2>4
<1>5. CASE Panic(c) \/ (pc[c] = "auth" /\ End(c, "error")) \/ Receive(c)
  <2>1. Promise!End(c)
    BY <1>5, CallEnds, EndsCall
  <2> QED  BY <2>1 DEF Promise!Next
<1>6. Authenticate(c) =>
        pc[c] = "auth" /\ ((\E t : Authenticated(c, t)) \/ End(c, "error"))
  BY DEF Authenticate
<1> QED  BY <1>1, <1>2, <1>3, <1>4, <1>5, <1>6 DEF CallStep

LEMMA NextPromise ==
    TypeOK /\ WorkAnswered /\ [Next]_vars
        => [Promise!Next]_<<Calling, effects, outcome>>
<1> SUFFICES ASSUME TypeOK, WorkAnswered, [Next]_vars
             PROVE  Promise!Next \/ UNCHANGED <<Calling, effects, outcome>>
  OBVIOUS
<1>1. CASE UNCHANGED vars
  BY <1>1 DEF vars, Calling
<1>2. CASE (\E k \in Keys : RotateKey(k)) \/ UpdateSecret \/ EditConfig
  BY <1>2 DEF RotateKey, UpdateSecret, EditConfig, Calling
<1>3. CASE \E c \in Callers : CallStep(c)
  BY <1>3, CallKeepsPromise
<1> QED  BY <1>1, <1>2, <1>3 DEF Next

\* The client implements LyraCall, the promise the controllers' modules build
\* on: whatever is rotated, edited or lost, the work of a call is done at most
\* once, and a panic or an answer never misstates it.
THEOREM PromiseKept == Spec => CallsKeepPromise
<1>1. TypeOK /\ WorkAnswered /\ [Next]_vars => TypeOK' /\ WorkAnswered'
  BY NextTyped
<1>2. TypeOK /\ WorkAnswered /\ [Next]_vars
        => [Promise!Next]_<<{c \in Callers : pc[c] # "idle"}, effects, outcome>>
  BY NextPromise DEF Calling
<1> QED  BY InitTyped, InitAnswered, InitPromise, <1>1, <1>2, PTL
         DEF Spec, CallsKeepPromise, Promise!Spec

-----------------------------------------------------------------------------
(* An undisturbed call is answered.                                        *)

LEMMA InitCalm == Init => CalmUndisturbed
BY DEF Init, CalmUndisturbed

\* The steps of one worker leave the others where they are.
LEMMA OthersUndisturbed ==
    ASSUME TypeOK, CalmUndisturbed, NEW c \in Callers, CallStep(c),
           NEW d \in Callers \ {c}, calm'[d]
    PROVE  Undisturbed(d)'
<1>1. /\ valid' = valid /\ calm'[d] = calm[d]
      /\ pc'[d] = pc[d] /\ outcome'[d] = outcome[d] /\ tokens'[d] = tokens[d]
      /\ key'[d] = key[d] /\ token'[d] = token[d] /\ reply'[d] = reply[d]
  BY ZenonT(60) DEF CallStep, NewLyraClient, Panic, LookUpToken, Authenticate, Authenticated,
         Serve, Receive, NoAnswer, End, Fault, environment, client, TypeOK
<1> QED  BY <1>1 DEF CalmUndisturbed, Undisturbed

LEMMA CallUndisturbed ==
    ASSUME TypeOK, CalmUndisturbed, NEW c \in Callers, CallStep(c), calm'[c]
    PROVE  Undisturbed(c)'
<1>1. ~Fault(c)
  BY DEF Fault, TypeOK
<1>2. CASE NewLyraClient(c)
  BY <1>2 DEF NewLyraClient, NewTokens, environment, TypeOK, Undisturbed
<1>3. CASE ~NewLyraClient(c)
  <2>1. calm[c] /\ Undisturbed(c)
    BY <1>1, <1>3 DEF CallStep, Panic, LookUpToken, Authenticate, Serve, Receive,
                      CalmUndisturbed
  <2>2. CASE LookUpToken(c)
    BY <2>1, <2>2 DEF LookUpToken, environment, TypeOK, Undisturbed
  <2>3. CASE Authenticate(c)
    BY <1>1, <2>1, <2>3 DEF Authenticate, Authenticated, TypeOK, Undisturbed
  <2>4. CASE Serve(c)
    BY <1>1, <2>1, <2>4 DEF Serve, client, TypeOK, Undisturbed
  <2>5. CASE Receive(c)
    BY <1>1, <2>1, <2>5 DEF Receive, End, Decoded, TypeOK, Undisturbed
  <2>6. CASE Panic(c)
    BY <2>1, <2>6 DEF Panic, Undisturbed
  <2> QED  BY <1>3, <2>2, <2>3, <2>4, <2>5, <2>6 DEF CallStep
<1> QED  BY <1>2, <1>3

LEMMA NextCalm ==
    TypeOK /\ CalmUndisturbed /\ [Next]_vars => CalmUndisturbed'
<1> SUFFICES ASSUME TypeOK, CalmUndisturbed, [Next]_vars,
                    NEW d \in Callers, calm'[d]
             PROVE  Undisturbed(d)'
  BY DEF CalmUndisturbed
<1>1. CASE UNCHANGED vars
  BY <1>1 DEF vars, environment, client, CalmUndisturbed, Undisturbed
<1>2. CASE \E k \in Keys : RotateKey(k)
  BY <1>2 DEF RotateKey, TypeOK
<1>3. CASE UpdateSecret \/ EditConfig
  BY <1>3 DEF UpdateSecret, EditConfig, client, CalmUndisturbed, Undisturbed
<1>4. CASE \E c \in Callers : CallStep(c)
  BY <1>4, CallUndisturbed, OthersUndisturbed
<1> QED  BY <1>1, <1>2, <1>3, <1>4 DEF Next

\* A call that began with the right key and configuration, and met no failure
\* and no rotation, is answered, whatever became of the calls before it and
\* beside it: no client, token or key outlives its reconcile.
THEOREM CalmAnswered == Spec => []CalmCallsAnswered
<1>1. CalmUndisturbed => CalmCallsAnswered
  BY DEF CalmUndisturbed, Undisturbed, CalmCallsAnswered
<1> QED  BY InitTyped, InitAnswered, InitCalm, NextTyped, NextCalm, <1>1, PTL DEF Spec

=============================================================================
