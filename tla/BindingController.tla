------------------------- MODULE BindingController -------------------------
(***************************************************************************)
(* SPIAccessTokenBindingReconciler                                          *)
(* (controllers/spiaccesstokenbinding_controller.go).  Reconcile is cut at  *)
(* the calls that leave the process, as in TokenController: bw.obj is the   *)
(* local variable `binding`, bw.stale says that the server's object has     *)
(* moved on since it was read.                                              *)
(***************************************************************************)
EXTENDS SPICluster

binding == bw.obj
bKey == bw.key

\* The worker between two reconciliations.
BIdle(lost) == [IdleBindingWorker EXCEPT !.lost = lost]

BReturn == bw' = BIdle(bw.lost)

\* Mutant: a failed Reconcile returns nil and is not repeated.
BReturnNil == BReturn /\ UNCHANGED bq

BReturnErr == BReturn /\ bq' = bq \cup {bKey}

\* What a status write of copy o leaves at the server.
BWithStatus(o) == [bnd[bKey] EXCEPT !.phase = o.phase, !.reason = o.reason,
                                    !.linked = o.linked, !.synced = o.synced]

\* A write by the worker: its copy is current and the server stores new.
BPut(new) ==
  /\ ~bw.stale /\ NoFault
  /\ PutBinding(bKey, new)
  /\ UNCHANGED <<tok, sec, store, du, tAge, bAge, tw, outside>>

\* A failing call that ends Reconcile with an error.
BCallFails(stale) ==
  /\ WriteFails(stale)
  /\ BReturnErr
  /\ UNCHANGED <<objects, tw, tq, tTimer, bTimer, outside>>

\* The worker changes nothing but its own state.
BLocal == UNCHANGED <<objects, tw, queues, outside>>

\* updateBindingStatusError: the status is written if it can be, a failure of
\* that write is only logged; then Reconcile returns or goes on with `next`.
BStatusError(o, next) ==
  LET again == IF next = "requeue" THEN {bKey} ELSE {}
      Go(lost) == bw' = IF next \in {"done", "requeue"} THEN BIdle(lost)
                        ELSE [bw EXCEPT !.pc = next, !.obj = o]
  IN /\ \/ /\ ~bw.stale /\ NoFault
           /\ Go(bw.lost)
           /\ bnd' = [bnd EXCEPT ![bKey] = BWithStatus(o)]
           /\ bq' = bq \cup again \cup (IF bnd' = bnd THEN {} ELSE {bKey})
           /\ tq' = tq \cup LinksWokenBy(bKey, BWithStatus(o))
        \/ /\ WriteFails(bw.stale)
           /\ Go(IF next = "done" THEN bw.lost \cup {bKey} ELSE bw.lost)
           /\ bq' = bq \cup again
           /\ UNCHANGED <<bnd, tq>>
     /\ UNCHANGED <<tok, sec, store, du, tAge, bAge, tw, tTimer, bTimer, outside>>

\* A failed call whose error is first written to the status.
BFailWith(o, next) == bw' = [bw EXCEPT !.pc = "fail", !.obj = o, !.then = next]

\* Mutants: the reason is set but not the phase; the reference to the secret is
\* not reset.
ErroneousReason(o, reason) == [o EXCEPT !.reason = reason]
AwaitingWithRef(o) == [o EXCEPT !.phase = "AwaitingTokenData"]

Erroneous(o, reason) == [o EXCEPT !.phase = "Error", !.reason = reason]
Awaiting(o) == [o EXCEPT !.phase = "AwaitingTokenData", !.synced = NoSec]

----------------------------------------------------------------------------
(* Loading, migrating, finalizing and validating the binding.               *)

BGet ==
  /\ bw.pc = "idle"
  /\ \E b \in bq :
       /\ bq' = bq \ {b}
       /\ bw' = IF Present(bnd[b])
                THEN [BIdle(bw.lost \ {b}) EXCEPT !.pc = "loaded", !.key = b, !.obj = bnd[b]]
                ELSE bw
  /\ UNCHANGED <<objects, tw, tq, tTimer, bTimer, faults, outside>>

\* assureProperValuesInBinding: a URL without a host is an error for the user
\* to fix, a URL without a scheme is completed and saved; both end Reconcile,
\* the latter with a requeue whether or not the save succeeded.
BBadUrl ==
  /\ bw.pc = "loaded" /\ binding.spec.url = "bad"
  /\ BStatusError(Erroneous(binding, "UnknownServiceProviderType"), "done")

BSaveUrl ==
  /\ bw.pc = "loaded" /\ binding.spec.url = "noScheme"
  /\ \/ /\ BPut([bnd[bKey] EXCEPT !.spec.url = "ok"])
        /\ BReturn /\ UNCHANGED <<tTimer, bTimer>>
     \/ BCallFails(bw.stale)

ProperValues == bw.pc = "loaded" /\ binding.spec.url = "ok"

\* migrateFinalizers: the copy of a binding that is being deleted is changed, but
\* not saved, since the API server accepts no new finalizer on it.
Unmigrated == binding.st = "live" /\ binding.fin = "old"

BMigrateFinalizers ==
  /\ ProperValues /\ Unmigrated
  /\ \/ /\ BPut([bnd[bKey] EXCEPT !.fin = "new"])
        /\ bw' = [bw EXCEPT !.obj = bnd'[bKey]] /\ UNCHANGED <<tTimer, bTimer>>
     \/ BCallFails(bw.stale)

\* getServiceProvider: no retry, whether the URL or a call made on the way to
\* the provider is at fault.
BNoProvider ==
  /\ ProperValues /\ ~Unmigrated
  /\ LET o == Erroneous(binding, "UnknownServiceProviderType")
     IN \/ ~binding.spec.provider /\ BStatusError(o, "done")
        \/ binding.spec.provider /\ Fault /\ BFailWith(o, "done") /\ BLocal

ProviderKnown == ProperValues /\ ~Unmigrated /\ binding.spec.provider

RenamesFinalizer == binding.st = "deleting" /\ binding.fin = "old"

\* checkQuayPermissionAreasMigration: this Update saves a renamed finalizer too,
\* which is refused.
BMigrateAreas ==
  /\ ProviderKnown /\ binding.spec.areas = "deprecated"
  /\ \/ /\ ~RenamesFinalizer /\ BPut([bnd[bKey] EXCEPT !.spec.areas = "current"])
        /\ BReturn /\ UNCHANGED <<tTimer, bTimer>>
     \/ BCallFails(bw.stale \/ RenamesFinalizer)

Migrated == ProviderKnown /\ binding.spec.areas = "current"

\* DependentsHandler.Cleanup deletes the secrets managed by the binding; a
\* failure may come after some of them are gone.
CleanedUp(b, names) ==
  /\ sec' = [sec EXCEPT ![b] = [s \in Secrets |-> IF s \in names THEN NoData ELSE @[s]]]
  /\ UNCHANGED <<tok, bnd, store, du, tAge, bAge>>
Woken(b, names) ==
  IF \E s \in names : bnd[b].synced = s /\ sec[b][s] # NoData THEN {b} ELSE {}

\* Mutant: the error of Cleanup is dropped and the finalizer removed.
FinalizeAnyway ==
  /\ Migrated /\ binding.st = "deleting"
  /\ \E names \in SUBSET Secrets :
       /\ CleanedUp(bKey, names)
       /\ IF names = Secrets THEN NoFault ELSE Fault
       /\ bw' = [bw EXCEPT !.pc = "unfinalize", !.obj.fin = "none"]
       /\ bq' = bq \cup Woken(bKey, names)
  /\ UNCHANGED <<tw, tq, tTimer, bTimer, outside>>

BFinalize ==
  /\ Migrated /\ binding.st = "deleting"
  /\ \/ /\ CleanedUp(bKey, Secrets) /\ NoFault
        /\ bw' = [bw EXCEPT !.pc = "unfinalize", !.obj.fin = "none"]
        /\ bq' = bq \cup Woken(bKey, Secrets)
     \/ \E names \in SUBSET Secrets :
          CleanedUp(bKey, names) /\ Fault /\ BReturnErr
  /\ UNCHANGED <<tw, tq, tTimer, bTimer, outside>>

\* Mutant: the copy without the finalizer is not saved.
UnfinalizeUnsaved ==
  bw.pc = "unfinalize" /\ BReturn /\ UNCHANGED <<objects, tw, queues, faults, outside>>

BUnfinalize ==
  /\ bw.pc = "unfinalize"
  /\ \/ /\ BPut(SettleBinding([bnd[bKey] EXCEPT !.fin = "none"]))
        /\ BReturn /\ UNCHANGED <<tTimer, bTimer>>
     \/ BCallFails(bw.stale)

\* Mutant: the finalizer is taken away on the next pass.
AddFinalizerToggled ==
  /\ Migrated /\ binding.st = "live" /\ binding.fin \in {"none", "new"}
  /\ \/ /\ BPut([bnd[bKey] EXCEPT !.fin = IF @ = "none" THEN "new" ELSE "none"])
        /\ bw' = [bw EXCEPT !.obj = bnd'[bKey]] /\ UNCHANGED <<tTimer, bTimer>>
     \/ BCallFails(bw.stale)

BAddFinalizer ==
  /\ Migrated /\ binding.st = "live" /\ binding.fin = "none"
  /\ \/ /\ BPut([bnd[bKey] EXCEPT !.fin = "new"])
        /\ bw' = [bw EXCEPT !.obj = bnd'[bKey]] /\ UNCHANGED <<tTimer, bTimer>>
     \/ BCallFails(bw.stale)

Finalized == Migrated /\ binding.st = "live" /\ binding.fin = "new"

\* bindingLifetime
BBadLifetime ==
  /\ Finalized /\ binding.spec.lifetime = "invalid"
  /\ BStatusError(Erroneous(binding, "InvalidLifetime"), "requeue")

Expired == binding.spec.lifetime = "limited" /\ bAge[bKey] >= 1

\* Delete carries no precondition.
BDelete ==
  /\ Finalized /\ binding.spec.lifetime # "invalid" /\ Expired
  /\ \/ /\ Present(bnd[bKey]) /\ NoFault
        /\ PutBinding(bKey, DeletedBinding(bnd[bKey]))
        /\ BReturn
        /\ UNCHANGED <<tok, sec, store, du, tAge, bAge, tw, tTimer, bTimer, outside>>
     \/ BCallFails(~Present(bnd[bKey]))

\* Unexpired bindings with a proper lifetime are validated ...
Current == Finalized /\ binding.spec.lifetime # "invalid" /\ ~Expired

BInvalid ==
  /\ Current /\ ~binding.spec.valid
  /\ BStatusError(Erroneous(binding, "UnsupportedPermissions"), "done")

----------------------------------------------------------------------------
(* Lookup: the ready tokens of the provider, their metadata refreshed where *)
(* it has expired, and filtered by what the binding asks for.               *)

ReadyTokens == {t \in LiveTokens : tok[t].phase = "Ready" /\ tok[t].labelled}

\* A binding reconciled for the first time awaits its token data.
Entered(o) == [o EXCEPT !.phase = IF @ = "" THEN "AwaitingTokenData" ELSE @]

BLookup ==
  /\ Current /\ binding.spec.valid
  /\ LET bare == {t \in ReadyTokens : tok[t].meta = NoData}
     IN \/ /\ \E todo \in SUBSET ReadyTokens :
                /\ bare \subseteq todo /\ (MetadataExpires \/ todo = bare)
                /\ bw' = [bw EXCEPT
                     !.pc = "lookup", !.todo = todo, !.had = todo \ bare,
                     !.cand = {t \in ReadyTokens \ todo : <<bKey, tok[t].meta>> \in Matches},
                     !.obj = Entered(@)]
           /\ NoFault
        \/ /\ Fault
           /\ BFailWith([Entered(binding) EXCEPT !.reason = "TokenLookup"], "requeue")
  /\ BLocal

\* One goroutine of Lookup: MetadataCache.Ensure fetches and persists.  An
\* error makes the whole lookup fail once the other goroutines are through.
BEnsure ==
  /\ bw.pc = "lookup"
  /\ \E t \in bw.todo :
       LET d == store[t]
           rest == [bw EXCEPT !.todo = @ \ {t}, !.had = @ \ {t}, !.moved = @ \ {t}]
           persists == t \in bw.had \/ d # NoData  \* else there is nothing to write
           new == IF persists THEN [tok[t] EXCEPT !.meta = d] ELSE tok[t]
           changed == persists /\ Restamped(t, new)
           found == IF <<bKey, d>> \in Matches THEN {t} ELSE {}
           fails == d \in RejectedData \/ (persists /\ t \in bw.moved)
       IN \/ /\ ~fails /\ NoFault
             /\ SendToken(t, new, changed) /\ OutdateToken(t, changed)
             /\ bw' = [rest EXCEPT !.cand = @ \cup found]
          \/ /\ IF fails THEN NoFault ELSE Fault
             /\ bw' = [rest EXCEPT !.then = "requeue"]
             /\ UNCHANGED <<tok, tw, tq, bq>>
  /\ UNCHANGED <<bnd, sec, store, du, tAge, bAge, tTimer, bTimer, outside>>

BLookupFails ==
  /\ bw.pc = "lookup" /\ bw.todo = {} /\ bw.then = "requeue"
  /\ BStatusError([binding EXCEPT !.reason = "TokenLookup"], "requeue")

LookedUp == bw.pc = "lookup" /\ bw.todo = {} /\ bw.then = "done"

----------------------------------------------------------------------------
(* linkToken                                                                *)

Link(t, ready, matching, created) ==
  [bw EXCEPT !.pc = "link", !.cand = {}, !.token = t, !.ready = ready,
             !.matching = matching, !.created = created]

\* The token already linked if it matches, else any match.
BLinkMatch ==
  /\ LookedUp /\ bw.cand # {}
  /\ \E t \in bw.cand :
       /\ binding.linked \in bw.cand => t = binding.linked
       /\ bw' = Link(t, TRUE, TRUE, FALSE)
  /\ NoFault /\ BLocal

\* Nothing matches but the binding is linked: that token is loaded.
BLoadLinked ==
  /\ LookedUp /\ bw.cand = {} /\ binding.linked # NoTok
  /\ LET t == binding.linked
     IN \/ /\ Present(tok[t])
           /\ bw' = Link(t, tok[t].phase = "Ready", FALSE, FALSE)
           /\ NoFault /\ BLocal
        \/ BCallFails(~Present(tok[t]))

\* Nothing matches and nothing is linked: a token is created.  The provider's base
\* URL, which the code validates here, is that of a proper host in the model
\* (spec.url and spec.provider stand for the faults of URLs).
BCreateToken ==
  /\ LookedUp /\ bw.cand = {} /\ binding.linked = NoTok
  /\ \/ /\ \E t \in Tokens :
             /\ tok[t].st = "none"
             /\ PutToken(t, NewToken("ok"))
             /\ bw' = Link(t, FALSE, TRUE, TRUE)
        /\ NoFault
        /\ UNCHANGED <<bnd, sec, store, du, tAge, bAge, tw, tTimer, bTimer, outside>>
     \/ /\ Fault
        /\ BFailWith([binding EXCEPT !.reason = "LinkedToken"], "requeue") /\ BLocal

\* persistWithMatchingLabels, first half: the label that the token controller
\* counts links by.  The Update overwrites the copy's status by the server's.
AbandonLink == IF bw.created THEN "undo" ELSE "requeue"

BLabel ==
  /\ bw.pc = "link" /\ binding.label # bw.token
  /\ \/ /\ BPut([bnd[bKey] EXCEPT !.label = bw.token])
        /\ bw' = [bw EXCEPT !.obj = bnd'[bKey]] /\ UNCHANGED <<tTimer, bTimer>>
     \/ /\ WriteFails(bw.stale)
        /\ BFailWith([binding EXCEPT !.reason = "LinkedToken"], AbandonLink) /\ BLocal

\* Second half: the link in the status.
BLinkStatus ==
  /\ bw.pc = "link" /\ binding.label = bw.token /\ binding.linked # bw.token
  /\ LET o == [binding EXCEPT !.linked = bw.token, !.reason = ""]
     IN \/ /\ BPut(BWithStatus(o))
           /\ bw' = [bw EXCEPT !.obj = o] /\ UNCHANGED <<tTimer, bTimer>>
        \/ /\ WriteFails(bw.stale)
           /\ BFailWith([o EXCEPT !.reason = "LinkedToken"], AbandonLink) /\ BLocal

\* Mutant: the label alone counts as the link.
LinkedByLabel == bw.pc = "link" /\ binding.label = bw.token

Linked == bw.pc = "link" /\ binding.label = bw.token /\ binding.linked = bw.token

\* Linking failed: the token created for the binding is deleted again.
BUndo ==
  /\ bw.pc = "undo"
  /\ BReturn
  /\ LET t == bw.token
         gone == DeletedToken(tok[t])
     IN \/ /\ Present(tok[t]) /\ NoFault
           /\ tok' = [tok EXCEPT ![t] = gone]
           /\ tq' = tq \cup TokensWokenBy(t, gone # tok[t])
           /\ bq' = bq \cup {bKey} \cup BindingsWokenBy(gone # tok[t])
           /\ OutdateToken(t, gone # tok[t])
        \/ /\ WriteFails(~Present(tok[t]))
           /\ bq' = bq \cup {bKey}
           /\ UNCHANGED <<tok, tw, tq>>
  /\ UNCHANGED <<bnd, sec, store, du, tAge, bAge, tTimer, bTimer, outside>>

----------------------------------------------------------------------------
(* Syncing the secret and reporting the outcome.                            *)

\* The linked token is ready but does not match.
BMismatch ==
  /\ Linked /\ ~bw.matching /\ bw.ready
  /\ BStatusError(Erroneous(binding, "LinkedToken"), "done")

Existing == {s \in Secrets : sec[bKey][s] # NoData}

\* CheckPoint, then SecretDataGetter.GetData for a token that is ready.
BPrepare ==
  /\ Linked /\ (bw.matching \/ ~bw.ready)
  /\ LET d == IF bw.ready THEN store[bw.token] ELSE NoData
         noted == [bw EXCEPT !.keep = Existing]
     IN \/ /\ bw' = IF d = NoData THEN [noted EXCEPT !.pc = "finish", !.obj = Awaiting(@)]
                    ELSE [noted EXCEPT !.pc = "inject", !.data = d]
           /\ NoFault
        \/ /\ Fault
           /\ \/ BFailWith(Erroneous(binding, "ServiceAccountUpdate"), "requeue")
              \/ /\ bw.ready
                 /\ bw' = [noted EXCEPT !.pc = "fail", !.then = "revert",
                                        !.obj = Erroneous(@, "TokenRetrieval")]
  /\ BLocal

\* The name of the secret: the one in the status, the one in the spec, or a
\* newly generated one.
SecretNames ==
  IF binding.synced # NoSec THEN {binding.synced}
  ELSE IF binding.spec.named THEN {FixedName}
  ELSE {s \in Secrets \ {FixedName} : sec[bKey][s] = NoData}

\* DependentsHandler.Sync writes the secret.
BInject ==
  /\ bw.pc = "inject"
  /\ \/ /\ NoFault
        /\ \E s \in SecretNames :
             /\ sec' = [sec EXCEPT ![bKey][s] = bw.data]
             /\ bw' = [bw EXCEPT !.pc = "finish", !.data = NoData,
                         !.obj = [@ EXCEPT !.phase = "Injected", !.synced = s]]
             /\ bq' = bq \cup (IF sec' = sec THEN {} ELSE SecretWakes(bKey, s))
        /\ UNCHANGED <<tok, bnd, store, du, tAge, bAge, tw, tq, tTimer, bTimer, outside>>
     \/ /\ Fault
        /\ BFailWith(Erroneous(binding, "TokenSync"), "revert") /\ BLocal

\* Mutant: Reconcile returns no RequeueAfter.
NoBindingTimer == UNCHANGED bTimer

\* RequeueAfter of a binding with a limited lifetime: the time left to that and
\* the grace period; once it is past it is not positive, and means no requeue.
ArmBindingTimer ==
  bTimer' = IF binding.spec.lifetime = "limited" /\ bAge[bKey] < 2
            THEN bTimer \cup {bKey} ELSE bTimer

\* updateBindingStatusSuccess; its failure reverts what Sync did.
BFinish ==
  /\ bw.pc = "finish"
  /\ \/ /\ BPut(BWithStatus([binding EXCEPT !.reason = ""]))
        /\ IF binding.phase = "Injected"
             THEN BReturn /\ ArmBindingTimer
             ELSE bw' = [bw EXCEPT !.pc = "cleanup", !.obj.reason = ""] /\ UNCHANGED bTimer
        /\ UNCHANGED tTimer
     \/ WriteFails(bw.stale) /\ bw' = [bw EXCEPT !.pc = "revert"] /\ BLocal

\* A binding that is not injected has no secrets.
BCleanup ==
  /\ bw.pc = "cleanup"
  /\ \/ /\ CleanedUp(bKey, Secrets) /\ NoFault
        /\ BReturn /\ ArmBindingTimer
        /\ bq' = bq \cup Woken(bKey, Secrets)
     \/ /\ \E names \in SUBSET Secrets : CleanedUp(bKey, names)
        /\ Fault
        /\ BFailWith([binding EXCEPT !.reason = "TokenSync"], "requeue")
        /\ UNCHANGED <<bq, bTimer>>
  /\ UNCHANGED <<tw, tq, tTimer, outside>>

\* RevertTo deletes what Sync created; a failure is logged.  Reconcile then
\* returns the error.
BRevert ==
  /\ bw.pc = "revert"
  /\ BReturnErr
  /\ \/ CleanedUp(bKey, Secrets \ bw.keep) /\ NoFault
     \/ Fault /\ UNCHANGED objects
  /\ UNCHANGED <<tw, tq, tTimer, bTimer, outside>>

\* The status write of an error met by an earlier call.
BFail == bw.pc = "fail" /\ BStatusError(binding, bw.then)

\* All of Reconcile.  Its error return after sp.Validate is left out: none of the
\* providers returns an error there.
BindingReconcile ==
  \/ BGet \/ BBadUrl \/ BSaveUrl \/ BMigrateFinalizers \/ BNoProvider \/ BMigrateAreas
  \/ BFinalize \/ BUnfinalize \/ BAddFinalizer \/ BBadLifetime \/ BDelete \/ BInvalid
  \/ BLookup \/ BEnsure \/ BLookupFails \/ BLinkMatch \/ BLoadLinked \/ BCreateToken
  \/ BLabel \/ BLinkStatus \/ BUndo \/ BMismatch \/ BPrepare \/ BInject \/ BFinish
  \/ BCleanup \/ BRevert \/ BFail

\* The RequeueAfter of a binding that has outlived lifetime and grace period.
BindingTimer ==
  \E b \in bTimer :
    /\ bAge[b] = 2
    /\ bTimer' = bTimer \ {b} /\ bq' = bq \cup {b}
    /\ UNCHANGED <<objects, workers, tq, tTimer, faults, outside>>
=============================================================================
