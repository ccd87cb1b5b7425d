-------------------------- MODULE TokenController --------------------------
(***************************************************************************)
(* SPIAccessTokenReconciler (controllers/spiaccesstoken_controller.go).     *)
(* Its Reconcile is cut at the calls that leave the process: each action is *)
(* one such call with the local decisions that lead to it.  tw.obj is the   *)
(* local variable `at`, tw.stale says that the server's object has moved on *)
(* since it was read.                                                       *)
(***************************************************************************)
EXTENDS SPICluster

at == tw.obj
atKey == tw.key

\* Reconcile returns an error (rate-limited requeue) or nil.
TReturnErr == tw' = IdleTokenWorker /\ tq' = tq \cup {atKey}
TReturn == tw' = IdleTokenWorker

\* What a status write of the copy leaves at the server.
TWithStatus(o) == [tok[atKey] EXCEPT !.phase = o.phase, !.reason = o.reason, !.meta = o.meta]

\* A write by the worker: the copy is current and the server stores new.
TPut(new) ==
  /\ ~tw.stale
  /\ PutToken(atKey, new)
  /\ OutdateLookup(atKey, new # tok[atKey])

\* A failing call of the worker that ends Reconcile with an error.
TCallFails(stale) ==
  /\ WriteFails(stale)
  /\ TReturnErr
  /\ UNCHANGED <<objects, bw, bq, tTimer, bTimer, outside>>

\* The worker changes nothing but its own state.
TLocal == UNCHANGED <<objects, bw, queues, outside>>

----------------------------------------------------------------------------
\* Reconcile takes a key and loads the token; a token that is gone ends it.  (A
\* Get that fails only puts the key back.)
TGet ==
  /\ tw.pc = "idle"
  /\ \E t \in tq :
       /\ tq' = tq \ {t}
       /\ tw' = IF Present(tok[t])
                THEN [IdleTokenWorker EXCEPT !.pc = "loaded", !.key = t, !.obj = tok[t]]
                ELSE tw
  /\ UNCHANGED <<objects, bw, bq, tTimer, bTimer, faults, outside>>


\* DefaultTokenStorage.Delete swallows every failure of the backend but NotFound,
\* which it returns: the other way round than its comment has it.
DeleteFails(t) == ReportsMissing /\ store[t] = NoData

EraseData == store' = [store EXCEPT ![atKey] = NoData]
TFinalized == tw' = [tw EXCEPT !.pc = "unfinalize", !.obj.fin = FALSE] /\ UNCHANGED tq

\* A deleted token: all registered finalizers run, in no particular order, and
\* the storage finalizer erases the data whatever the linked-bindings one says.
TFinalize ==
  /\ tw.pc = "loaded" /\ at.st = "deleting"
  /\ \/ NoFault /\ EraseData
        /\ IF HasLinkedBindings(atKey) \/ DeleteFails(atKey) THEN TReturnErr ELSE TFinalized
     \/ Fault /\ UNCHANGED store                     \* the storage fails
        /\ IF HasLinkedBindings(atKey) THEN TReturnErr ELSE TFinalized
     \/ Fault /\ EraseData /\ TReturnErr              \* listing the bindings fails
  /\ UNCHANGED <<tok, bnd, sec, du, tAge, bAge, bw, bq, tTimer, bTimer, outside>>

\* The Update that persists the removal of the finalizers.
TUnfinalize ==
  /\ tw.pc = "unfinalize"
  /\ \/ /\ TPut(SettleToken([tok[atKey] EXCEPT !.fin = FALSE]))
        /\ TReturn /\ NoFault
        /\ UNCHANGED <<bnd, sec, store, du, tAge, bAge, tTimer, bTimer, outside>>
     \/ TCallFails(tw.stale)

\* A live token without the finalizers gets them.
TAddFinalizers ==
  /\ tw.pc = "loaded" /\ at.st = "live" /\ ~at.fin
  /\ \/ /\ TPut([tok[atKey] EXCEPT !.fin = TRUE])
        /\ tw' = [tw EXCEPT !.obj = tok'[atKey]] /\ NoFault
        /\ UNCHANGED <<bnd, sec, store, du, tAge, bAge, tTimer, bTimer, outside>>
     \/ TCallFails(tw.stale)

\* The token has outlived its TTL, or awaits data past the grace period.
Obsolete == \/ tAge[atKey] >= 2
            \/ at.phase = "AwaitingTokenData" /\ tAge[atKey] >= 1

\* ... and no binding links to it: it is to be deleted.
TCheckObsolete ==
  /\ tw.pc = "loaded" /\ at.st = "live" /\ at.fin
  /\ Obsolete
  /\ \/ /\ ~HasLinkedBindings(atKey)
        /\ tw' = [tw EXCEPT !.pc = "delete"]
        /\ NoFault /\ TLocal
     \/ TCallFails(FALSE)

\* Delete carries no precondition: it hits whatever the server holds by now.
TDelete ==
  /\ tw.pc = "delete"
  /\ \/ /\ Present(tok[atKey])
        /\ PutToken(atKey, DeletedToken(tok[atKey]))
        /\ OutdateLookup(atKey, DeletedToken(tok[atKey]) # tok[atKey])
        /\ TReturn /\ NoFault
        /\ UNCHANGED <<bnd, sec, store, du, tAge, bAge, tTimer, bTimer, outside>>
     \/ TCallFails(~Present(tok[atKey]))

\* The worker is about to flip its copy o to an exceptional phase.
TFlipTo(o, phase, reason, again) ==
  [tw EXCEPT !.pc = "flip", !.again = again,
             !.obj = [o EXCEPT !.phase = phase, !.reason = reason]]

\* reconcileTokenData forgets the metadata of a ready token whose data is not
\* in the storage; then the service provider is determined and validates.  A
\* failure of the calls FromRepoUrl makes is taken for an unknown provider.
TCheckData ==
  /\ tw.pc = "loaded" /\ at.st = "live" /\ at.fin
  /\ ~(Obsolete /\ ~HasLinkedBindings(atKey))
  /\ \/ LET lost == at.phase = "Ready" /\ store[atKey] = NoData
            o == [at EXCEPT !.meta = IF lost THEN NoData ELSE @]
        IN /\ \/ /\ at.spec = "unknownProvider" /\ NoFault
                 /\ tw' = TFlipTo(o, "Error", "UnknownServiceProvider", FALSE)
              \/ /\ at.spec = "badScopes" /\ NoFault
                 /\ tw' = TFlipTo(o, "Invalid", "UnsupportedPermissions", FALSE)
              \/ /\ at.spec = "ok" /\ NoFault
                 /\ tw' = [tw EXCEPT !.pc = "ensure", !.obj = o]
              \/ /\ Fault
                 /\ tw' = TFlipTo(o, "Error", "UnknownServiceProvider", FALSE)
           /\ TLocal
     \/ TCallFails(FALSE)

\* Mutant: metadata counts as expired as soon as it is written.
AlwaysExpired == {TRUE}

\* TtlMetadataExpirationPolicy.IsExpired, when the TTL may have passed.
IsExpired == {FALSE, MetadataExpires}

\* MetadataCache.Ensure: expired metadata is dropped, missing metadata fetched
\* with the data in the storage. What cannot be fetched flips the token to an
\* exceptional phase; a transient failure is retried, a rejected token is not.
TEnsure ==
  /\ tw.pc = "ensure"
  /\ \E expired \in IsExpired :
       LET fetch == at.meta = NoData \/ expired
           d == store[atKey]
           none == [at EXCEPT !.meta = NoData]
       IN \/ /\ ~fetch
             /\ tw' = [tw EXCEPT !.pc = "save"] /\ NoFault
          \/ /\ fetch /\ d \notin RejectedData
             /\ tw' = [tw EXCEPT !.obj.meta = d,
                         !.pc = IF at.meta # NoData \/ d # NoData THEN "persist" ELSE "save"]
             /\ NoFault
          \/ /\ fetch /\ d \in RejectedData
             /\ tw' = TFlipTo(none, "Invalid", "MetadataFailure", FALSE)
             /\ NoFault
          \/ /\ fetch /\ Fault
             /\ tw' = TFlipTo(none, "Error", "MetadataFailure", TRUE)
  /\ TLocal

\* MetadataCache.Persist; its failure is one more reason to flip to Error.
TPersist ==
  /\ tw.pc = "persist"
  /\ \/ /\ ~tw.stale
        /\ LET new == TWithStatus(at)
           IN /\ SendToken(atKey, new, Restamped(atKey, new))
              /\ OutdateLookup(atKey, Restamped(atKey, new))
        /\ tw' = [tw EXCEPT !.pc = "save"] /\ NoFault
        /\ UNCHANGED <<bnd, sec, store, du, tAge, bAge, tTimer, bTimer, outside>>
     \/ /\ WriteFails(tw.stale)
        /\ tw' = TFlipTo(at, "Error", "MetadataFailure", TRUE)
        /\ TLocal

\* Mutant: events of status changes are filtered out.
FlipUnheard ==
  /\ tw.pc = "flip"
  /\ \/ /\ ~tw.stale
        /\ tok' = [tok EXCEPT ![atKey] = TWithStatus(at)]
        /\ tq' = tq \cup (IF tw.again THEN {atKey} ELSE {}) /\ UNCHANGED bq
        /\ OutdateLookup(atKey, tok'[atKey] # tok[atKey])
        /\ TReturn /\ NoFault
        /\ UNCHANGED <<bnd, sec, store, du, tAge, bAge, tTimer, bTimer, outside>>
     \/ TCallFails(tw.stale)

\* flipToExceptionalPhase. No requeue, and no timer, unless the cause is retried.
TFlip ==
  /\ tw.pc = "flip"
  /\ \/ /\ ~tw.stale
        /\ tok' = [tok EXCEPT ![atKey] = TWithStatus(at)]
        /\ LET changed == tok'[atKey] # tok[atKey]
           IN /\ tq' = tq \cup (IF changed \/ tw.again THEN {atKey} ELSE {})
              /\ bq' = bq \cup BindingsWokenBy(changed)
        /\ OutdateLookup(atKey, tok'[atKey] # tok[atKey])
        /\ TReturn /\ NoFault
        /\ UNCHANGED <<bnd, sec, store, du, tAge, bAge, tTimer, bTimer, outside>>
     \/ TCallFails(tw.stale)

\* ensureLabels: the Update overwrites the copy's status with the server's.
TLabel ==
  /\ tw.pc = "save" /\ ~at.labelled
  /\ \/ /\ TPut([tok[atKey] EXCEPT !.labelled = TRUE])
        /\ tw' = [tw EXCEPT !.obj = tok'[atKey]] /\ NoFault
        /\ UNCHANGED <<bnd, sec, store, du, tAge, bAge, tTimer, bTimer, outside>>
     \/ TCallFails(tw.stale)

\* Mutant: the phase is only filled in for a new token.
FilledOnce(o) ==
  [o EXCEPT !.reason = "",
            !.phase = CASE @ # "" -> @
                        [] @ = "" /\ o.meta = NoData -> "AwaitingTokenData"
                        [] @ = "" /\ o.meta # NoData -> "Ready"]

\* fillInStatus
Filled(o) == [o EXCEPT !.reason = "", !.phase = IF o.meta = NoData THEN "AwaitingTokenData" ELSE "Ready"]

\* Mutant: Reconcile returns no RequeueAfter.
NoTokenTimer == UNCHANGED tTimer

\* RequeueAfter is the time left to the TTL plus grace period; once that is past
\* it is not positive, and means no requeue.
ArmTokenTimer == tTimer' = IF tAge[atKey] = 3 THEN tTimer ELSE tTimer \cup {atKey}

\* updateTokenStatusSuccess, and the end of Reconcile unless a refresh is due.
TSaveStatus ==
  /\ tw.pc = "save" /\ at.labelled
  /\ \/ /\ TPut(TWithStatus(Filled(at)))
        /\ IF at.refresh
             THEN tw' = [tw EXCEPT !.pc = "refresh", !.obj = Filled(at)] /\ UNCHANGED tTimer
             ELSE TReturn /\ ArmTokenTimer
        /\ NoFault
        /\ UNCHANGED <<bnd, sec, store, du, tAge, bAge, bTimer, outside>>
     \/ TCallFails(tw.stale)

\* refreshToken reads the stored token and exchanges it at the provider.
\* (With no data in the storage the provider call dereferences a nil token and
\* takes the process down: see RefreshPanics in SPIOperator.)
TRefresh ==
  /\ tw.pc = "refresh"
  /\ \/ /\ store[atKey] # NoData
        /\ \E d \in Data \ RejectedData :
             tw' = [tw EXCEPT !.pc = "store", !.data = d]
        /\ NoFault /\ TLocal
     \/ TCallFails(FALSE)

\* The refreshed token is stored, without a data update: the operator's own
\* storage does not notify.
TStoreRefreshed ==
  /\ tw.pc = "store"
  /\ \/ /\ store' = [store EXCEPT ![atKey] = tw.data]
        /\ tw' = [tw EXCEPT !.pc = "unlabel", !.data = NoData] /\ NoFault
        /\ UNCHANGED <<tok, bnd, sec, du, tAge, bAge, bw, queues, outside>>
     \/ TCallFails(FALSE)

\* The Update that removes the refresh label ends Reconcile.
TUnlabel ==
  /\ tw.pc = "unlabel"
  /\ \/ /\ TPut([tok[atKey] EXCEPT !.refresh = FALSE])
        /\ TReturn /\ ArmTokenTimer /\ NoFault
        /\ UNCHANGED <<bnd, sec, store, du, tAge, bAge, bTimer, outside>>
     \/ TCallFails(tw.stale)

TokenReconcile ==
  \/ TGet \/ TFinalize \/ TUnfinalize \/ TAddFinalizers \/ TCheckObsolete \/ TDelete
  \/ TCheckData \/ TEnsure \/ TPersist \/ TFlip \/ TLabel \/ TSaveStatus
  \/ TRefresh \/ TStoreRefreshed \/ TUnlabel

\* The RequeueAfter of a token that has outlived its TTL and grace period.
TokenTimer ==
  \E t \in tTimer :
    /\ tAge[t] = 3
    /\ tTimer' = tTimer \ {t} /\ tq' = tq \cup {t}
    /\ UNCHANGED <<objects, workers, bq, bTimer, faults, outside>>
=============================================================================
