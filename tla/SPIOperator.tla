---------------------------- MODULE SPIOperator ----------------------------
(***************************************************************************)
(* The operator as it runs: the token and the binding controller, the data  *)
(* update controller, the OAuth service that uploads token data, the users  *)
(* of the custom resources, time, failures and restarts.                    *)
(***************************************************************************)
EXTENDS TokenController, BindingController

vars == <<objects, workers, queues, budgets, up>>

----------------------------------------------------------------------------
(* The OAuth service stores the data of a token that it has found, then     *)
(* tells the operator by creating an SPIAccessTokenDataUpdate.              *)

UploadGet ==
  /\ "upload" \in UserOps /\ ops > 0 /\ up.pc = "idle"
  /\ \E t \in LiveTokens, d \in Data :
       up' = [up EXCEPT !.pc = "store", !.key = t, !.data = d]
  /\ ops' = ops - 1
  /\ UNCHANGED <<objects, workers, queues, faults, restarts>>

\* The request is answered; the service has forgotten it.
Uploaded(lost) == [IdleUploader EXCEPT !.lost = lost]

\* NotifyingTokenStorage.Store: first the wrapped storage ...
UploadStore ==
  /\ up.pc = "store"
  /\ \/ /\ store' = [store EXCEPT ![up.key] = up.data]
        /\ up' = [up EXCEPT !.pc = "notify", !.data = NoData]
        /\ NoFault
     \/ Fault /\ up' = Uploaded(up.lost) /\ UNCHANGED store
  /\ UNCHANGED <<tok, bnd, sec, du, tAge, bAge, workers, queues, restarts, ops>>

\* ... then createDataUpdate, which wakes both controllers. If that fails, the
\* caller gets an error for data that is stored all the same.
UploadNotify ==
  /\ up.pc = "notify"
  /\ \/ /\ du' = du \cup {up.key}
        /\ tq' = tq \cup DataUpdateOwner(up.key) /\ bq' = bq \cup LinkedTo(up.key)
        /\ up' = Uploaded(up.lost \ {up.key}) /\ NoFault
     \/ Fault /\ up' = Uploaded(up.lost \cup {up.key}) /\ UNCHANGED <<du, tq, bq>>
  /\ UNCHANGED <<tok, bnd, sec, store, tAge, bAge, workers, tTimer, bTimer, restarts, ops>>

\* SPIAccessTokenDataUpdateReconciler deletes the update; that wakes both again.
ProcessDataUpdate ==
  /\ \E t \in du :
       /\ du' = du \ {t}
       /\ tq' = tq \cup DataUpdateOwner(t) /\ bq' = bq \cup LinkedTo(t)
  /\ UNCHANGED <<tok, bnd, sec, store, tAge, bAge, workers, tTimer, bTimer, budgets, up>>

----------------------------------------------------------------------------
(* Users of the custom resources.                                           *)

UserOp(kind) == kind \in UserOps /\ ops > 0 /\ ops' = ops - 1 /\ UNCHANGED <<faults, restarts, up>>

CreateBinding ==
  /\ UserOp("createBinding")
  /\ \E b \in Bindings, spec \in BindingSpecs :
       bnd[b].st = "none" /\ PutBinding(b, NewBinding(spec))
  /\ UNCHANGED <<tok, sec, store, du, tAge, bAge, workers, tTimer, bTimer>>

DeleteBinding ==
  /\ UserOp("deleteBinding")
  /\ \E b \in Bindings :
       /\ bnd[b].st = "live"
       /\ PutBinding(b, DeletedBinding(bnd[b]))
       /\ OutdateBinding(b, DeletedBinding(bnd[b]))
  /\ UNCHANGED <<tok, sec, store, du, tAge, bAge, tw, tTimer, bTimer>>

\* A user's write to a token outdates both workers' copies of it.
PutTokenByUser(t, new) ==
  PutToken(t, new) /\ OutdateToken(t, new # tok[t]) /\ OutdateLookup(t, new # tok[t])

CreateToken ==
  /\ UserOp("createToken")
  /\ \E t \in Tokens, spec \in TokenSpecs :
       tok[t].st = "none" /\ PutTokenByUser(t, NewToken(spec))
  /\ UNCHANGED <<bnd, sec, store, du, tAge, bAge, tTimer, bTimer>>

DeleteToken ==
  /\ UserOp("deleteToken")
  /\ \E t \in Tokens : tok[t].st = "live" /\ PutTokenByUser(t, DeletedToken(tok[t]))
  /\ UNCHANGED <<bnd, sec, store, du, tAge, bAge, tTimer, bTimer>>

\* The label that asks for a refresh of the token.
RequestRefresh ==
  /\ UserOp("refresh")
  /\ \E t \in Tokens :
       /\ tok[t].st = "live" /\ ~tok[t].refresh
       /\ PutTokenByUser(t, [tok[t] EXCEPT !.refresh = TRUE])
  /\ UNCHANGED <<bnd, sec, store, du, tAge, bAge, tTimer, bTimer>>

DeleteSecret ==
  /\ UserOp("deleteSecret")
  /\ \E b \in Bindings, s \in Secrets :
       /\ sec[b][s] # NoData
       /\ sec' = [sec EXCEPT ![b][s] = NoData]
       /\ bq' = bq \cup SecretWakes(b, s)
  /\ UNCHANGED <<tok, bnd, store, du, tAge, bAge, workers, tq, tTimer, bTimer>>

----------------------------------------------------------------------------
(* Time, and the end of the operator's process.                             *)

TokenAges ==
  /\ TimePasses
  /\ \E t \in LiveTokens : tAge[t] < 3 /\ tAge' = [tAge EXCEPT ![t] = @ + 1]
  /\ UNCHANGED <<tok, bnd, sec, store, du, bAge, workers, queues, budgets, up>>

BindingAges ==
  /\ TimePasses
  /\ \E b \in LiveBindings : bAge[b] < 2 /\ bAge' = [bAge EXCEPT ![b] = @ + 1]
  /\ UNCHANGED <<tok, bnd, sec, store, du, tAge, workers, queues, budgets, up>>

\* A restarted operator has lost its queues and timers, and lists all objects
\* (ServiceAccounts, whose watch is left out, wake no binding that is not listed).
StartOver ==
  /\ tw' = IdleTokenWorker /\ bw' = IdleBindingWorker
  /\ tq' = LiveTokens /\ bq' = LiveBindings
  /\ tTimer' = {} /\ bTimer' = {}
  /\ UNCHANGED <<objects, faults, ops, up>>

Restart == restarts > 0 /\ restarts' = restarts - 1 /\ StartOver

\* Refreshing a token without data panics: a step of the token worker.
RefreshPanics ==
  /\ tw.pc = "refresh" /\ store[atKey] = NoData
  /\ StartOver /\ UNCHANGED restarts

----------------------------------------------------------------------------
Init ==
  /\ tok = [t \in Tokens |-> AbsentToken("none")]
  /\ \E old \in SUBSET LegacyBindings :
       /\ bnd = [b \in Bindings |-> IF b \in old
                   THEN [NewBinding(PlainSpec) EXCEPT !.fin = "old"]
                   ELSE AbsentBinding("none")]
       /\ bq = old
  /\ sec = [b \in Bindings |-> [s \in Secrets |-> NoData]]
  /\ store = [t \in Tokens |-> NoData]
  /\ du = {} /\ tq = {} /\ tTimer = {} /\ bTimer = {}
  /\ tAge = [t \in Tokens |-> 0] /\ bAge = [b \in Bindings |-> 0]
  /\ tw = IdleTokenWorker /\ bw = IdleBindingWorker
  /\ faults = MaxFaults /\ restarts = MaxRestarts /\ ops = MaxOps
  /\ up = IdleUploader

Controllers == TokenReconcile \/ BindingReconcile \/ TokenTimer \/ BindingTimer
Service == UploadStore \/ UploadNotify \/ ProcessDataUpdate
Users == \/ UploadGet \/ CreateBinding \/ DeleteBinding \/ CreateToken \/ DeleteToken
         \/ RequestRefresh \/ DeleteSecret
Environment == TokenAges \/ BindingAges \/ Restart \/ RefreshPanics

Next == Controllers \/ Service \/ Users \/ Environment

Spec == Init /\ [][Next]_vars

\* Each worker goroutine, each timer and the OAuth service's request handler
\* keeps running; users, time and failures are under no obligation.
Fairness ==
  /\ WF_vars(TokenReconcile \/ RefreshPanics)
  /\ WF_vars(BindingReconcile)
  /\ WF_vars(TokenTimer)
  /\ WF_vars(BindingTimer)
  /\ WF_vars(UploadStore \/ UploadNotify)
  /\ WF_vars(ProcessDataUpdate)

FairSpec == Spec /\ Fairness

----------------------------------------------------------------------------
\* No injected secret outlives its binding: while a secret managed by a binding
\* exists, the binding exists and still carries the finalizer that will delete
\* the secret (linkedObjectsFinalizer), whatever fails or restarts in between.
NoOrphanSecret ==
  \A b \in Bindings : (\E s \in Secrets : sec[b][s] # NoData)
                        => Present(bnd[b]) /\ bnd[b].fin # "none"

\* Nothing is queued, running or announced.
Quiescent ==
  /\ tq = {} /\ bq = {} /\ du = {}
  /\ tw.pc = "idle" /\ bw.pc = "idle" /\ up.pc = "idle"

\* No wake-up of the binding controller is lost: when the operator has nothing
\* left to do, an injected binding's secret holds what the storage holds for the
\* linked token (unless that was stored without the operator being told), a
\* binding awaiting data has no secret left and its token has no data to offer.
\* The exception is a binding that is in error and could not be told so:
\* updateBindingStatusError only logs the failure of its own write.
QuiescentBindings ==
  Quiescent => \A b \in Bindings \ bw.lost : bnd[b].st = "live" =>
    LET t == bnd[b].linked
    IN /\ bnd[b].phase = "Injected" =>
            /\ bnd[b].synced # NoSec /\ t # NoTok
            /\ store[t] # NoData /\ (t \in up.lost \/ sec[b][bnd[b].synced] = store[t])
       /\ bnd[b].phase = "AwaitingTokenData" =>
            /\ \A s \in Secrets : sec[b][s] = NoData
            /\ t # NoTok /\ tok[t].phase # "Ready"

\* No wake-up of the token controller is lost: when the operator has nothing
\* left to do, a token is Ready only if the storage has data for it, and awaits
\* data only if the storage has none or its last upload ended with an error.
QuiescentTokens ==
  Quiescent => \A t \in Tokens : tok[t].st = "live" =>
    /\ tok[t].phase = "Ready" => store[t] # NoData
    /\ tok[t].phase = "AwaitingTokenData" => store[t] = NoData \/ t \in up.lost

\* A fault in a binding's spec reaches its owner: when the operator has nothing
\* left to do, a binding that cannot be served says so in its status and has no
\* secret, although Reconcile ends without a retry in these cases, unless the
\* very write that reports it failed, which is only logged.
FaultySpecReported ==
  Quiescent => \A b \in Bindings \ bw.lost :
    (bnd[b].st = "live" /\ (bnd[b].spec.url = "bad" \/ ~bnd[b].spec.provider \/ ~bnd[b].spec.valid))
      => bnd[b].phase = "Error" /\ \A s \in Secrets : sec[b][s] = NoData

\* A binding that awaits token data refers to no secret (docs/USER.md:542).
AwaitingHasNoRef ==
  \A b \in Bindings : bnd[b].phase = "AwaitingTokenData" => bnd[b].synced = NoSec

\* A secret is only filled after the server has both the link label, by which
\* the token controller protects the token, and the link in the status, by which
\* data updates find the binding.
LinkedBeforeInjected ==
  [][\A b \in Bindings, s \in Secrets :
       sec'[b][s] \notin {sec[b][s], NoData} =>
         bnd[b].linked # NoTok /\ bnd[b].label = bnd[b].linked]_vars

\* A binding is linked to a token that is gone or refuses to go: one of the
\* controllers tries again and again.
Dangling == \E b \in Bindings : bnd[b].linked # NoTok /\ tok[bnd[b].linked].st # "live"

\* The two controllers wake each other with every write, yet come to rest, unless
\* a binding has lost its token.
Settles == <>[](Quiescent \/ Dangling)

\* A deleted binding with a resolvable provider is eventually removed.
DeletedBindingGoes ==
  \A b \in Bindings : (bnd[b].st = "deleting" /\ bnd[b].spec.url # "bad" /\ bnd[b].spec.provider)
                        ~> (bnd[b].st = "gone")

\* A binding that has outlived its lifetime is removed unless its spec is at
\* fault: the timer that RequeueAfter sets is not lost.
ExpiredBindingGoes ==
  \A b \in Bindings :
    (/\ bnd[b].st = "live" /\ bnd[b].spec.lifetime = "limited" /\ bAge[b] = 2
     /\ bnd[b].phase \in {"AwaitingTokenData", "Injected"}) ~> (bnd[b].st = "gone")

\* A token past its TTL and grace period that no binding links to is removed,
\* whatever became of the reconciliation that last set its timer.
ExpiredTokenGoes ==
  \A t \in Tokens :
    (/\ tok[t].st = "live" /\ tAge[t] = 3 /\ ~HasLinkedBindings(t)
     /\ tok[t].phase \in {"AwaitingTokenData", "Ready"})
      ~> (tok[t].st # "live" \/ HasLinkedBindings(t))

\* A transient failure does not leave a good token in the Error phase, also where
\* Reconcile itself does not retry: the status write that reports the failure is
\* an event that wakes the controller again.
TokensHeal ==
  \A t \in Tokens : (tok[t].st = "live" /\ tok[t].spec = "ok" /\ tok[t].phase = "Error")
                       ~> (tok[t].st # "live" \/ tok[t].phase # "Error")


\* A live binding is always on its way to a token that exists: if there is none,
\* "it is created (in an awaiting state) and linked"
\* (controllers/spiaccesstokenbinding_controller.go:514).
LinkRecovers ==
  \A b \in Bindings : (bnd[b].st = "live" /\ bnd[b].linked # NoTok)
     ~> (bnd[b].st # "live" \/ \E t \in LiveTokens : t = bnd[b].linked)

=============================================================================
