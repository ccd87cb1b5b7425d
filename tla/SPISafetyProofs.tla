-------------------------- MODULE SPISafetyProofs --------------------------
(*****************************************************************************)
(* Safety of bindings and tokens.                                            *)
(*                                                                           *)
(* First: no injected secret is orphaned. Most steps are quiet: they fill no *)
(* secret, take no finalizer away and put the worker under no new            *)
(* obligation. The remaining ones (load, add or migrate the finalizer,       *)
(* finalize, remove the finalizer, inject, create) are treated one by one.   *)
(* Then: what the worker's copy says of the server's object (CopyInv), and   *)
(* from both that a binding awaiting data refers to no secret, that no       *)
(* secret is filled before the binding is linked, and that the operator      *)
(* implements the life cycle of BindingLifecycle. Last, what holds once the  *)
(* operator is at rest: a faulty spec has been reported (FaultInv), no token *)
(* has missed its data (WakeInv), and no binding has missed a change of its  *)
(* token, its data or its secret (HoldInv, FitInv).                          *)
(*****************************************************************************)
EXTENDS OperatorTypeProofs, BindingPromise

\* The worker relies on the finalizer: it is past the point where Reconcile
\* made sure of it, or has read it.
Obligated(w) ==
  w.pc \in {"lookup", "link", "inject"} \/ (w.pc = "loaded" /\ w.obj.fin # "none")

\* The binding exists and carries a finalizer.
Held(b) == Present(bnd[b]) /\ bnd[b].fin # "none"

\* Only the binding controller takes the finalizer away, so what its worker has
\* seen of it stays.
FinalizerHeld == Obligated(bw) => Held(bw.key)

\* The finalizer is about to go only when all secrets are gone.
CleanedFirst == bw.pc = "unfinalize" => \A s \in Secrets : sec[bw.key][s] = NoData

\* A current copy is the copy of an existing binding.
CopyFresh == bw.pc = "loaded" /\ ~bw.stale => Present(bnd[bw.key])

\* The strengthening of NoOrphanSecret that is inductive.
SecretsOwned == NoOrphanSecret /\ FinalizerHeld /\ CleanedFirst /\ CopyFresh

\* The inductive invariant.
FinInv == Typed /\ SecretsOwned

\* A step that fills no secret, takes no finalizer away and puts the worker
\* under no new obligation.
Quiet ==
  /\ \A b \in Bindings : Held(b) => Held(b)'
  /\ \A b \in Bindings, s \in Secrets : sec'[b][s] \in {sec[b][s], NoData}
  /\ Obligated(bw') => Obligated(bw) /\ bw'.key = bw.key
  /\ bw'.pc = "unfinalize" => bw.pc = "unfinalize" /\ bw'.key = bw.key
  /\ bw'.pc = "loaded" /\ ~bw'.stale =>
       bw.pc = "loaded" /\ ~bw.stale /\ bw'.key = bw.key /\ bnd'[bw.key] = bnd[bw.key]

\* A quiet step preserves that secrets are owned.
LEMMA QuietOwned ==
  ASSUME FinInv, Typed', Quiet
  PROVE  SecretsOwned'
<1>1. NoOrphanSecret'
  BY DEF FinInv, SecretsOwned, NoOrphanSecret, Quiet, Held
<1>2. FinalizerHeld'
  <2> SUFFICES ASSUME Obligated(bw') PROVE Held(bw.key)'
    BY DEF FinalizerHeld
  <2>1. Obligated(bw) /\ bw'.key = bw.key /\ bw.key \in Bindings
    BY DEF Quiet, Obligated, FinInv, Typed, BindingWorkerOK
  <2>2. QED
    BY <2>1 DEF FinInv, SecretsOwned, FinalizerHeld, Quiet, Held
<1>3. CleanedFirst'
  <2> SUFFICES ASSUME bw'.pc = "unfinalize" PROVE \A s \in Secrets : sec'[bw'.key][s] = NoData
    BY DEF CleanedFirst
  <2>1. bw.pc = "unfinalize" /\ bw'.key = bw.key /\ bw.key \in Bindings
    BY DEF Quiet, FinInv, Typed, BindingWorkerOK
  <2>2. QED
    BY <2>1 DEF FinInv, SecretsOwned, CleanedFirst, Quiet
<1>4. CopyFresh'
  BY DEF FinInv, SecretsOwned, CopyFresh, Quiet
<1>5. QED
  BY <1>1, <1>2, <1>3, <1>4 DEF SecretsOwned

\* The API server's writes keep a held finalizer unless they remove it.
LEMMA PutHeld ==
  ASSUME Typed, NEW b \in Bindings, NEW new, bnd' = [bnd EXCEPT ![b] = new],
         Held(b) => Present(new) /\ new.fin # "none"
  PROVE  \A c \in Bindings : Held(c) => Held(c)'
  BY DEF Typed, TypeOK, Held

\* Writing an error to the status is quiet (updateBindingStatusError).
LEMMA BStatusErrorQuiet ==
  ASSUME Typed, bw.pc # "idle", NEW o, NEW next \in {"done", "requeue", "undo", "revert"},
         BStatusError(o, next)
  PROVE  Quiet
<1>1. \A b \in Bindings : Held(b) => Held(b)'
  <2>1. CASE bnd' = [bnd EXCEPT ![bKey] = BWithStatus(o)]
    <3>1. bKey \in Bindings /\ bnd[bKey] \in BindingType
      BY BCopyTyped
    <3>2. Held(bKey) => Present(BWithStatus(o)) /\ BWithStatus(o).fin # "none"
      BY <3>1 DEF BWithStatus, BindingType, Held, Present
    <3>3. QED
      BY <2>1, <3>1, <3>2, PutHeld
  <2>2. CASE UNCHANGED bnd
    BY <2>2 DEF Held
  <2>3. QED
    BY <2>1, <2>2 DEF BStatusError
<1>2. bw'.pc \in {"idle", "undo", "revert"}
  <2>1. \/ bw' = BIdle(bw.lost) \/ bw' = BIdle(bw.lost \cup {bKey})
        \/ next \in {"undo", "revert"} /\ bw' = [bw EXCEPT !.pc = next, !.obj = o]
    BY DEF BStatusError
  <2>2. QED
    BY <2>1 DEF BIdle, IdleBindingWorker, Typed, TypeOK, BindingWorkerType
<1>3. QED
  BY <1>1, <1>2 DEF Quiet, Obligated, BStatusError, Typed, TypeOK

\* A failing call that ends Reconcile is quiet.
LEMMA BCallFailsQuiet ==
  ASSUME Typed, NEW stale, BCallFails(stale)
  PROVE  Quiet
  BY DEF BCallFails, BReturnErr, BReturn, BIdle, IdleBindingWorker, Quiet, Obligated, Held, objects, Typed, TypeOK

\* A step that changes only the worker is quiet if it takes on no obligation.
LEMMA BLocalQuiet ==
  ASSUME Typed, BLocal, Obligated(bw') => Obligated(bw) /\ bw'.key = bw.key, bw'.pc \notin {"unfinalize", "loaded"}
  PROVE  Quiet
  BY DEF BLocal, Quiet, Held, objects

\* A worker that remembers an error goes on to write it.
LEMMA BFailWithPc ==
  ASSUME Typed, NEW o, NEW next, BFailWith(o, next)
  PROVE  bw'.pc = "fail"
  BY DEF BFailWith, Typed, TypeOK, BindingWorkerType

\* A write that keeps the finalizer is quiet.
LEMMA BPutQuiet ==
  ASSUME Typed, bw.pc # "idle", NEW new, BPut(new), Held(bKey) => Present(new) /\ new.fin # "none",
         Obligated(bw') => Obligated(bw) /\ bw'.key = bw.key, bw'.pc \notin {"unfinalize", "loaded"}
  PROVE  Quiet
<1>1. \A b \in Bindings : Held(b) => Held(b)'
  BY BCopyTyped, PutHeld DEF BPut, PutBinding
<1>2. QED
  BY <1>1 DEF Quiet, BPut

----------------------------------------------------------------------------
\* The worker of the binding controller stays where it is.
SameWorker == bw'.pc = bw.pc /\ bw'.key = bw.key /\ bw'.obj = bw.obj /\ bw'.token = bw.token
              /\ bw'.stale = bw.stale /\ bw'.then = bw.then /\ bw'.lost = bw.lost
              /\ bw'.ready = bw.ready /\ bw'.cand = bw.cand /\ bw'.todo = bw.todo /\ bw'.data = bw.data

\* A step that touches neither bindings nor secrets.
Aside == UNCHANGED <<bnd, sec>> /\ SameWorker

\* Outdating a token in a running lookup leaves the worker where it is.
LEMMA OutdateLookupSame ==
  ASSUME Typed, NEW t, NEW changed, OutdateLookup(t, changed)
  PROVE  SameWorker
  BY DEF OutdateLookup, SameWorker, Typed, TypeOK, BindingWorkerType

\* The token controller never touches a binding or a secret.
LEMMA TokenReconcileAside == Typed /\ TokenReconcile => Aside
<1> SUFFICES ASSUME Typed, TokenReconcile PROVE Aside
  OBVIOUS
<1> USE DEF Aside
<1>1. CASE TGet \/ TFinalize \/ TEnsure
  BY <1>1 DEF TGet, TFinalize, TEnsure, TLocal, objects, outside, SameWorker
<1>2. ASSUME NEW stale, TCallFails(stale) PROVE Aside
  BY <1>2 DEF TCallFails, objects, SameWorker
<1>3. ASSUME TLocal PROVE Aside
  BY <1>3 DEF TLocal, objects, SameWorker
<1>4. CASE TUnfinalize \/ TAddFinalizers \/ TLabel
  BY <1>2, <1>4, OutdateLookupSame DEF TUnfinalize, TAddFinalizers, TLabel, TPut
<1>5. CASE TDelete \/ TPersist \/ TFlip
  BY <1>2, <1>3, <1>5, OutdateLookupSame DEF TDelete, TPersist, TFlip
<1>6. CASE TSaveStatus \/ TUnlabel
  BY <1>2, <1>6, OutdateLookupSame DEF TSaveStatus, TUnlabel, TPut
<1>7. CASE TCheckObsolete \/ TCheckData \/ TRefresh
  BY <1>2, <1>3, <1>7 DEF TCheckObsolete, TCheckData, TRefresh
<1>8. CASE TStoreRefreshed
  BY <1>2, <1>8 DEF TStoreRefreshed, SameWorker
<1>9. QED
  BY <1>1, <1>4, <1>5, <1>6, <1>7, <1>8 DEF TokenReconcile

\* Uploads, timers, users of tokens and time never touch a binding or a secret.
LEMMA OthersAside ==
  ASSUME Typed,
         \/ TokenTimer \/ BindingTimer \/ Service \/ UploadGet \/ CreateToken \/ DeleteToken
         \/ RequestRefresh \/ TokenAges \/ BindingAges \/ UNCHANGED vars
  PROVE  Aside
<1> USE DEF Aside
<1>1. CASE TokenTimer \/ BindingTimer \/ UNCHANGED vars
  BY <1>1 DEF TokenTimer, BindingTimer, vars, objects, workers, SameWorker
<1>2. CASE Service \/ UploadGet
  BY <1>2 DEF Service, UploadStore, UploadNotify, ProcessDataUpdate, UploadGet, objects, workers, SameWorker
<1>3. CASE CreateToken \/ DeleteToken \/ RequestRefresh
  BY <1>3, OutdateLookupSame DEF CreateToken, DeleteToken, RequestRefresh, PutTokenByUser
<1>4. CASE TokenAges \/ BindingAges
  BY <1>4 DEF TokenAges, BindingAges, workers, SameWorker
<1>5. QED
  BY <1>1, <1>2, <1>3, <1>4

\* A step that touches neither bindings nor secrets is quiet.
LEMMA AsideQuiet == ASSUME Typed, Aside PROVE Quiet
  BY DEF Aside, SameWorker, Quiet, Obligated, Held

\* A process that starts over is quiet: it only forgets what it was doing.
LEMMA StartOverQuiet == ASSUME StartOver PROVE Quiet
  BY DEF StartOver, BIdle, IdleBindingWorker, Quiet, Obligated, Held, objects

\* A user deleting a secret is quiet.
LEMMA DeleteSecretQuiet == Typed /\ DeleteSecret => Quiet
  BY DEF DeleteSecret, Quiet, Obligated, Held, workers, Typed, TypeOK

\* Delete only marks a binding that has a finalizer.
LEMMA DeletedHeld ==
  ASSUME NEW o \in BindingType
  PROVE  o.fin # "none" => Present(DeletedBinding(o)) /\ DeletedBinding(o).fin # "none"
  BY DEF DeletedBinding, SettleBinding, Settle, Present, BindingType

\* A user deleting a binding is quiet.
LEMMA DeleteBindingQuiet == Typed /\ DeleteBinding => Quiet
<1> SUFFICES ASSUME Typed, DeleteBinding PROVE Quiet
  OBVIOUS
<1>1. PICK b \in Bindings : /\ bnd' = [bnd EXCEPT ![b] = DeletedBinding(bnd[b])]
                            /\ OutdateBinding(b, DeletedBinding(bnd[b]))
  BY DEF DeleteBinding, PutBinding
<1>2. Held(b) => Present(DeletedBinding(bnd[b])) /\ DeletedBinding(bnd[b]).fin # "none"
  BY DeletedHeld DEF Held, Typed, TypeOK
<1>3. \A c \in Bindings : Held(c) => Held(c)'
  BY <1>1, <1>2, PutHeld
<1>4. bw'.pc = bw.pc /\ bw'.key = bw.key /\ bw'.obj = bw.obj
      /\ (bw'.stale <=> bw.stale \/ (bw.key = b /\ DeletedBinding(bnd[b]) # bnd[b]))
  BY <1>1 DEF OutdateBinding, Typed, TypeOK, BindingWorkerType
<1>5. ~bw'.stale => ~bw.stale /\ bnd'[bw.key] = bnd[bw.key]
  BY <1>1, <1>4 DEF Typed, TypeOK
<1>6. QED
  BY <1>3, <1>4, <1>5 DEF DeleteBinding, Quiet, Obligated

\* The steps of the binding controller that end with the error in the status.
LEMMA BErrorsQuiet ==
  Typed /\ (BBadUrl \/ BBadLifetime \/ BInvalid \/ BLookupFails \/ BMismatch \/ BFail \/ BNoProvider) => Quiet
<1> SUFFICES ASSUME Typed, BBadUrl \/ BBadLifetime \/ BInvalid \/ BLookupFails \/ BMismatch \/ BFail \/ BNoProvider
             PROVE  Quiet
  OBVIOUS
<1>1. bw.pc # "idle" /\ bw.then \in {"done", "requeue", "undo", "revert"}
  BY DEF BBadUrl, BBadLifetime, BInvalid, BLookupFails, BMismatch, BFail, BNoProvider, Current, Finalized, Migrated, ProviderKnown, ProperValues, Linked, Typed, TypeOK, BindingWorkerType
<1>2. CASE BBadUrl \/ BBadLifetime \/ BInvalid \/ BLookupFails \/ BMismatch \/ BFail
  BY <1>1, <1>2, BStatusErrorQuiet DEF BBadUrl, BBadLifetime, BInvalid, BLookupFails, BMismatch, BFail
<1>3. CASE BNoProvider
  <2> DEFINE o == Erroneous(binding, "UnknownServiceProviderType")
  <2>1. CASE BStatusError(o, "done")
    BY <1>1, <2>1, BStatusErrorQuiet
  <2>2. CASE BFailWith(o, "done") /\ BLocal
    BY <2>2, BFailWithPc, BLocalQuiet DEF Obligated
  <2>3. QED
    BY <1>3, <2>1, <2>2 DEF BNoProvider
<1>4. QED
  BY <1>2, <1>3

\* Listing the candidate tokens (Lookup) is quiet.
LEMMA BLookupQuiet == Typed /\ BLookup => Quiet
<1> SUFFICES ASSUME Typed, BLookup PROVE Quiet
  OBVIOUS
<1>1. Obligated(bw)
  BY DEF BLookup, Current, Finalized, Migrated, ProviderKnown, ProperValues, Obligated, binding
<1>2. bw'.key = bw.key /\ bw'.pc \in {"lookup", "fail"}
  BY DEF BLookup, BFailWith, Typed, TypeOK, BindingWorkerType
<1>3. QED
  BY <1>1, <1>2, BLocalQuiet DEF BLookup

\* A worker that has chosen a token keeps its key and its copy.
LEMMA LinkWorker ==
  ASSUME Typed, NEW t, NEW ready, NEW matching, NEW created, bw' = Link(t, ready, matching, created)
  PROVE  bw'.pc = "link" /\ bw'.key = bw.key /\ bw'.obj = bw.obj /\ bw'.token = t
  BY DEF Link, Typed, TypeOK, BindingWorkerType

\* Choosing a matching token (linkToken) is quiet.
LEMMA BLinkMatchQuiet == Typed /\ BLinkMatch => Quiet
<1> SUFFICES ASSUME Typed, BLinkMatch PROVE Quiet
  OBVIOUS
<1>1. Obligated(bw) /\ bw'.pc = "link" /\ bw'.key = bw.key
  BY LinkWorker DEF BLinkMatch, LookedUp, Obligated
<1>2. QED
  BY <1>1, BLocalQuiet DEF BLinkMatch

\* Loading the token already linked (linkToken) is quiet.
LEMMA BLoadLinkedQuiet == Typed /\ BLoadLinked => Quiet
<1> SUFFICES ASSUME Typed, BLoadLinked PROVE Quiet
  OBVIOUS
<1>1. CASE BCallFails(~Present(tok[binding.linked]))
  BY <1>1, BCallFailsQuiet
<1>2. CASE ~BCallFails(~Present(tok[binding.linked]))
  <2>1. bw' = Link(binding.linked, tok[binding.linked].phase = "Ready", FALSE, FALSE) /\ BLocal
    BY <1>2 DEF BLoadLinked
  <2>2. bw'.pc = "link" /\ bw'.key = bw.key
    BY <2>1, LinkWorker
  <2>3. Obligated(bw)
    BY DEF BLoadLinked, LookedUp, Obligated
  <2>4. QED
    BY <2>1, <2>2, <2>3, BLocalQuiet
<1>3. QED
  BY <1>1, <1>2

\* Creating a token for the binding (linkToken) is quiet.
LEMMA BCreateTokenQuiet == Typed /\ BCreateToken => Quiet
<1> SUFFICES ASSUME Typed, BCreateToken PROVE Quiet
  OBVIOUS
<1> DEFINE failed == [binding EXCEPT !.reason = "LinkedToken"]
<1>1. CASE BFailWith(failed, "requeue") /\ BLocal
  BY <1>1, BFailWithPc, BLocalQuiet DEF Obligated
<1>2. CASE ~(BFailWith(failed, "requeue") /\ BLocal)
  <2>1. PICK t \in Tokens : bw' = Link(t, FALSE, TRUE, TRUE)
    BY <1>2 DEF BCreateToken
  <2>2. bw'.pc = "link" /\ bw'.key = bw.key
    BY <2>1, LinkWorker
  <2>3. Obligated(bw) /\ UNCHANGED <<bnd, sec>>
    BY <1>2 DEF BCreateToken, LookedUp, Obligated
  <2>4. QED
    BY <2>2, <2>3 DEF Quiet, Held
<1>3. QED
  BY <1>1, <1>2

\* The worker goes on with Lookup after the metadata of a candidate.
LEMMA BEnsureWorker ==
  ASSUME Typed, BEnsure
  PROVE  bw.pc = "lookup" /\ bw'.pc = "lookup" /\ bw'.key = bw.key /\ bw'.obj = bw.obj /\ bw'.stale = bw.stale
<1>1. bw.pc = "lookup" /\ bw \in BindingWorkerType
  BY DEF BEnsure, Typed, BindingWorkerOK
<1> DEFINE Rest(t) == [bw EXCEPT !.todo = @ \ {t}, !.had = @ \ {t}, !.moved = @ \ {t}]
<1>2. \E t \in bw.todo : \/ \E found : bw' = [Rest(t) EXCEPT !.cand = @ \cup found]
                         \/ bw' = [Rest(t) EXCEPT !.then = "requeue"]
  BY Zenon DEF BEnsure
<1>3. ASSUME NEW t PROVE Rest(t) \in BindingWorkerType
                         /\ Rest(t).pc = bw.pc /\ Rest(t).key = bw.key /\ Rest(t).obj = bw.obj /\ Rest(t).stale = bw.stale
  BY <1>1 DEF BindingWorkerType
<1> HIDE DEF Rest
<1>4. QED
  BY <1>1, <1>2, <1>3 DEF BindingWorkerType

\* Refreshing the metadata of a candidate (MetadataCache.Ensure in Lookup) is
\* quiet.
LEMMA BEnsureQuiet == Typed /\ BEnsure => Quiet
<1> SUFFICES ASSUME Typed, BEnsure PROVE Quiet
  OBVIOUS
<1>1. bw.pc = "lookup" /\ bw'.pc = "lookup" /\ bw'.key = bw.key
  BY BEnsureWorker
<1>2. QED
  BY <1>1 DEF BEnsure, Quiet, Held, Obligated

\* Taking the checkpoint and reading the token data is quiet.
LEMMA BPrepareQuiet == Typed /\ BPrepare => Quiet
<1> SUFFICES ASSUME Typed, BPrepare PROVE Quiet
  OBVIOUS
<1>1. bw.pc = "link" /\ bw'.pc \in {"finish", "inject", "fail"} /\ bw'.key = bw.key
  BY DEF BPrepare, Linked, BFailWith, Typed, TypeOK, BindingWorkerType
<1>2. QED
  BY <1>1, BLocalQuiet DEF BPrepare, Obligated

\* Writing the link label (persistWithMatchingLabels) is quiet.
LEMMA BLabelQuiet == Typed /\ BLabel => Quiet
<1> SUFFICES ASSUME Typed, BLabel PROVE Quiet
  OBVIOUS
<1> DEFINE failed == [binding EXCEPT !.reason = "LinkedToken"]
<1>1. CASE BFailWith(failed, AbandonLink) /\ BLocal
  BY <1>1, BFailWithPc, BLocalQuiet DEF Obligated
<1>2. CASE BPut([bnd[bKey] EXCEPT !.label = bw.token]) /\ bw' = [bw EXCEPT !.obj = bnd'[bKey]]
  <2>1. bw.pc = "link" /\ bw'.pc = "link" /\ bw'.key = bw.key
    BY <1>2 DEF BLabel, Typed, TypeOK, BindingWorkerType
  <2>2. bnd[bKey] \in BindingType
    BY <2>1, BCopyTyped
  <2>3. QED
    BY <1>2, <2>1, <2>2, BPutQuiet DEF Obligated, Held, Present, BindingType
<1>3. QED
  BY <1>1, <1>2 DEF BLabel

\* Writing the link to the status (persistWithMatchingLabels) is quiet.
LEMMA BLinkStatusQuiet == Typed /\ BLinkStatus => Quiet
<1> SUFFICES ASSUME Typed, BLinkStatus PROVE Quiet
  OBVIOUS
<1> DEFINE o == [binding EXCEPT !.linked = bw.token, !.reason = ""]
<1>1. CASE BFailWith([o EXCEPT !.reason = "LinkedToken"], AbandonLink) /\ BLocal
  BY <1>1, BFailWithPc, BLocalQuiet DEF Obligated
<1>2. CASE BPut(BWithStatus(o)) /\ bw' = [bw EXCEPT !.obj = o]
  <2>1. bw.pc = "link" /\ bw'.pc = "link" /\ bw'.key = bw.key
    BY <1>2 DEF BLinkStatus, Typed, TypeOK, BindingWorkerType
  <2>2. bnd[bKey] \in BindingType
    BY <2>1, BCopyTyped
  <2>3. Held(bKey) => Present(BWithStatus(o)) /\ BWithStatus(o).fin # "none"
    BY <2>2 DEF BWithStatus, BindingType, Held, Present
  <2>4. QED
    BY <1>2, <2>1, <2>3, BPutQuiet DEF Obligated
<1>3. QED
  BY <1>1, <1>2 DEF BLinkStatus

\* Deleting the token created for a link that failed is quiet.
LEMMA BUndoQuiet == Typed /\ BUndo => Quiet
<1> SUFFICES ASSUME Typed, BUndo PROVE Quiet
  OBVIOUS
<1>1. bw'.pc = "idle"
  BY DEF BUndo, BReturn, BIdle, IdleBindingWorker
<1>2. QED
  BY <1>1 DEF BUndo, Quiet, Held, Obligated

\* Saving a completed URL or migrated permission areas is quiet.
LEMMA BSavesQuiet == Typed /\ (BSaveUrl \/ BMigrateAreas) => Quiet
<1> SUFFICES ASSUME Typed, BSaveUrl \/ BMigrateAreas PROVE Quiet
  OBVIOUS
<1>1. bw.pc # "idle"
  BY DEF BSaveUrl, BMigrateAreas, ProviderKnown, ProperValues
<1>2. CASE \E stale : BCallFails(stale)
  BY <1>2, BCallFailsQuiet
<1>3. CASE BReturn /\ (BSaveUrl \/ BMigrateAreas) /\ ~(\E stale : BCallFails(stale))
  <2>1. bw'.pc = "idle"
    BY <1>3 DEF BReturn, BIdle, IdleBindingWorker
  <2>2. bnd[bKey] \in BindingType
    BY <1>1, BCopyTyped
  <2>3. PICK new : BPut(new) /\ new.st = bnd[bKey].st /\ new.fin = bnd[bKey].fin
    BY <1>3, <2>2 DEF BSaveUrl, BMigrateAreas, BindingType
  <2>4. QED
    BY <1>1, <2>1, <2>3, BPutQuiet DEF Obligated, Held, Present
<1>4. QED
  BY <1>2, <1>3 DEF BSaveUrl, BMigrateAreas

\* Writing the final status (updateBindingStatusSuccess) is quiet.
LEMMA BFinishQuiet == Typed /\ BFinish => Quiet
<1> SUFFICES ASSUME Typed, BFinish PROVE Quiet
  OBVIOUS
<1> DEFINE o == [binding EXCEPT !.reason = ""]
<1>1. bw.pc = "finish" /\ bw'.pc \in {"idle", "cleanup", "revert"}
  <2>1. CASE BReturn
    BY <2>1 DEF BFinish, BReturn, BIdle, IdleBindingWorker
  <2>2. CASE bw' = [bw EXCEPT !.pc = "cleanup", !.obj.reason = ""]
    BY <2>2 DEF BFinish, Typed, TypeOK, BindingWorkerType
  <2>3. CASE bw' = [bw EXCEPT !.pc = "revert"]
    BY <2>3 DEF BFinish, Typed, TypeOK, BindingWorkerType
  <2>4. QED
    BY <2>1, <2>2, <2>3 DEF BFinish
<1>2. CASE BLocal
  BY <1>1, <1>2, BLocalQuiet DEF Obligated
<1>3. CASE BPut(BWithStatus(o))
  <2>1. bnd[bKey] \in BindingType
    BY <1>1, BCopyTyped
  <2>2. Held(bKey) => Present(BWithStatus(o)) /\ BWithStatus(o).fin # "none"
    BY <2>1 DEF BWithStatus, BindingType, Held, Present
  <2>3. QED
    BY <1>1, <1>3, <2>2, BPutQuiet DEF Obligated
<1>4. QED
  BY <1>2, <1>3 DEF BFinish

\* Deleting secrets fills none and leaves the bindings alone.
LEMMA CleanedUpShrinks ==
  ASSUME Typed, NEW b \in Bindings, NEW names, CleanedUp(b, names)
  PROVE  bnd' = bnd /\ \A c \in Bindings, s \in Secrets : sec'[c][s] \in {sec[c][s], NoData}
  BY DEF CleanedUp, Typed, TypeOK

\* Deleting the secrets of a binding that is not injected, and reverting Sync,
\* are quiet.
LEMMA BTidyQuiet == Typed /\ (BCleanup \/ BRevert) => Quiet
<1> SUFFICES ASSUME Typed, BCleanup \/ BRevert PROVE Quiet
  OBVIOUS
<1>1. bKey \in Bindings /\ bw'.pc \in {"idle", "fail"}
  BY BCopyTyped, BFailWithPc DEF BCleanup, BRevert, BReturn, BReturnErr, BIdle, IdleBindingWorker
<1>2. bnd' = bnd /\ \A c \in Bindings, s \in Secrets : sec'[c][s] \in {sec[c][s], NoData}
  BY <1>1, CleanedUpShrinks DEF BCleanup, BRevert, objects
<1>3. QED
  BY <1>1, <1>2 DEF Quiet, Held, Obligated

\* Deleting a binding past its lifetime is quiet.
LEMMA BDeleteQuiet == Typed /\ BDelete => Quiet
<1> SUFFICES ASSUME Typed, BDelete PROVE Quiet
  OBVIOUS
<1>1. bw.pc # "idle"
  BY DEF BDelete, Finalized, Migrated, ProviderKnown, ProperValues
<1>2. CASE BCallFails(~Present(bnd[bKey]))
  BY <1>2, BCallFailsQuiet
<1>3. CASE ~BCallFails(~Present(bnd[bKey]))
  <2>1. bKey \in Bindings /\ bnd[bKey] \in BindingType
    BY <1>1, BCopyTyped
  <2>2. \A b \in Bindings : Held(b) => Held(b)'
    BY <1>3, <2>1, DeletedHeld, PutHeld DEF BDelete, PutBinding, Held
  <2>3. bw'.pc = "idle"
    BY <1>3 DEF BDelete, BReturn, BIdle, IdleBindingWorker
  <2>4. QED
    BY <1>3, <2>2, <2>3 DEF BDelete, Quiet, Obligated
<1>4. QED
  BY <1>2, <1>3

----------------------------------------------------------------------------
\* A binding loaded with a finalizer has that finalizer on the server.
LEMMA BGetOwned == ASSUME FinInv, Typed', BGet PROVE SecretsOwned'
<1>1. PICK b \in bq : bw' = IF Present(bnd[b])
          THEN [BIdle(bw.lost \ {b}) EXCEPT !.pc = "loaded", !.key = b, !.obj = bnd[b]]
          ELSE bw
  BY DEF BGet
<1>2. b \in Bindings /\ UNCHANGED <<bnd, sec>>
  BY DEF FinInv, Typed, TypeOK, BGet, objects
<1>3. NoOrphanSecret'
  BY <1>2 DEF NoOrphanSecret, FinInv, SecretsOwned
<1>4. CASE ~Present(bnd[b])
  BY <1>1, <1>2, <1>3, <1>4 DEF FinInv, SecretsOwned, FinalizerHeld, CleanedFirst, CopyFresh, Obligated, Held
<1>5. CASE Present(bnd[b])
  <2>1. bw'.pc = "loaded" /\ bw'.key = b /\ bw'.obj = bnd[b]
    BY <1>1, <1>5 DEF BIdle, IdleBindingWorker
  <2>2. FinalizerHeld' /\ CleanedFirst' /\ CopyFresh'
    BY <1>2, <1>5, <2>1 DEF FinalizerHeld, CleanedFirst, CopyFresh, Obligated, Held
  <2>3. QED
    BY <1>3, <2>2 DEF SecretsOwned
<1>6. QED
  BY <1>4, <1>5

\* Reconcile adds or renames the finalizer and goes on with the server's object.
LEMMA BKeepFinalizerOwned ==
  ASSUME FinInv, Typed', bw.pc = "loaded", BPut([bnd[bKey] EXCEPT !.fin = "new"]),
         bw' = [bw EXCEPT !.obj = bnd'[bKey]]
  PROVE  SecretsOwned'
<1>1. bKey \in Bindings /\ bnd[bKey] \in BindingType /\ Typed
  BY BCopyTyped DEF FinInv
<1>2. bnd' = [bnd EXCEPT ![bKey] = [bnd[bKey] EXCEPT !.fin = "new"]] /\ sec' = sec
  BY DEF BPut, PutBinding
<1>3. bw'.pc = "loaded" /\ bw'.key = bKey
  BY <1>1 DEF Typed, TypeOK, BindingWorkerType, bKey
<1>4. Present(bnd[bKey])
  BY DEF FinInv, SecretsOwned, CopyFresh, BPut, bKey
<1>5. Held(bKey)' /\ \A b \in Bindings : Held(b) => Held(b)'
  BY <1>1, <1>2, <1>4 DEF Typed, TypeOK, BindingType, Held, Present, bKey
<1>6. NoOrphanSecret'
  BY <1>2, <1>5 DEF NoOrphanSecret, FinInv, SecretsOwned, Held
<1>7. QED
  BY <1>3, <1>5, <1>6 DEF SecretsOwned, FinalizerHeld, CleanedFirst, CopyFresh, Held, bKey

\* Reconcile goes on only after the finalizer is on the server
\* (migrateFinalizers and the finalizers' Update).
LEMMA BFinalizersOwned ==
  ASSUME FinInv, Typed', BMigrateFinalizers \/ BAddFinalizer
  PROVE  SecretsOwned'
<1>1. CASE BCallFails(bw.stale)
  BY <1>1, BCallFailsQuiet, QuietOwned DEF FinInv
<1>2. CASE ~BCallFails(bw.stale)
  <2>1. bw.pc = "loaded"
    BY DEF BMigrateFinalizers, BAddFinalizer, Migrated, ProviderKnown, ProperValues
  <2>2. BPut([bnd[bKey] EXCEPT !.fin = "new"]) /\ bw' = [bw EXCEPT !.obj = bnd'[bKey]]
    BY <1>2 DEF BMigrateFinalizers, BAddFinalizer
  <2>3. QED
    BY <2>1, <2>2, BKeepFinalizerOwned
<1>3. QED
  BY <1>1, <1>2

\* The finalizer only goes from the copy once Cleanup has removed every secret.
LEMMA BFinalizeOwned == ASSUME FinInv, Typed', BFinalize PROVE SecretsOwned'
<1>1. bw.pc = "loaded" /\ Typed /\ bKey \in Bindings
  BY BCopyTyped DEF BFinalize, Migrated, ProviderKnown, ProperValues, FinInv
<1>2. PICK names : CleanedUp(bKey, names)
  BY DEF BFinalize
<1>3. bnd' = bnd /\ \A c \in Bindings, s \in Secrets : sec'[c][s] \in {sec[c][s], NoData}
  BY <1>1, <1>2, CleanedUpShrinks
<1>4. NoOrphanSecret'
  BY <1>3 DEF NoOrphanSecret, FinInv, SecretsOwned
<1>5. CASE BReturnErr
  <2>1. bw'.pc = "idle"
    BY <1>5 DEF BReturnErr, BReturn, BIdle, IdleBindingWorker
  <2>2. QED
    BY <1>4, <2>1 DEF SecretsOwned, FinalizerHeld, CleanedFirst, CopyFresh, Obligated
<1>6. CASE CleanedUp(bKey, Secrets) /\ bw' = [bw EXCEPT !.pc = "unfinalize", !.obj.fin = "none"]
  <2>1. bw'.pc = "unfinalize" /\ bw'.key = bKey
    BY <1>1, <1>6 DEF Typed, TypeOK, BindingWorkerType, bKey
  <2>2. \A s \in Secrets : sec'[bKey][s] = NoData
    BY <1>1, <1>6 DEF CleanedUp, Typed, TypeOK
  <2>3. QED
    BY <1>4, <2>1, <2>2 DEF SecretsOwned, FinalizerHeld, CleanedFirst, CopyFresh, Obligated
<1>7. QED
  BY <1>5, <1>6 DEF BFinalize

\* Persisting the removal may remove the binding: it has no secret any more.
LEMMA BUnfinalizeOwned == ASSUME FinInv, Typed', BUnfinalize PROVE SecretsOwned'
<1>1. CASE BCallFails(bw.stale)
  BY <1>1, BCallFailsQuiet, QuietOwned DEF FinInv
<1>2. CASE ~BCallFails(bw.stale)
  <2>1. bw.pc = "unfinalize" /\ Typed /\ bKey \in Bindings
    BY BCopyTyped DEF BUnfinalize, FinInv
  <2>2. PICK new : bnd' = [bnd EXCEPT ![bKey] = new] /\ sec' = sec
    BY <1>2 DEF BUnfinalize, BPut, PutBinding
  <2>3. bw'.pc = "idle"
    BY <1>2 DEF BUnfinalize, BReturn, BIdle, IdleBindingWorker
  <2>4. \A s \in Secrets : sec[bKey][s] = NoData
    BY <2>1 DEF FinInv, SecretsOwned, CleanedFirst, bKey
  <2>5. NoOrphanSecret'
    BY <2>1, <2>2, <2>4 DEF NoOrphanSecret, FinInv, SecretsOwned, Typed, TypeOK
  <2>6. QED
    BY <2>3, <2>5 DEF SecretsOwned, FinalizerHeld, CleanedFirst, CopyFresh, Obligated
<1>3. QED
  BY <1>1, <1>2

\* Sync writes a secret of a binding that holds its finalizer.
LEMMA BInjectOwned == ASSUME FinInv, Typed', BInject PROVE SecretsOwned'
<1> DEFINE failed == Erroneous(binding, "TokenSync")
<1>1. CASE BFailWith(failed, "revert") /\ BLocal
  BY <1>1, BFailWithPc, BLocalQuiet, QuietOwned DEF FinInv, Obligated
<1>2. CASE ~(BFailWith(failed, "revert") /\ BLocal)
  <2>1. bw.pc = "inject" /\ Typed /\ bKey \in Bindings /\ Held(bKey)
    BY BCopyTyped DEF BInject, FinInv, SecretsOwned, FinalizerHeld, Obligated, bKey
  <2>2. PICK s \in SecretNames :
           /\ sec' = [sec EXCEPT ![bKey][s] = bw.data]
           /\ bw' = [bw EXCEPT !.pc = "finish", !.data = NoData,
                       !.obj = [@ EXCEPT !.phase = "Injected", !.synced = s]]
    BY <1>2 DEF BInject
  <2>3. bnd' = bnd
    BY <1>2 DEF BInject
  <2>4. bw'.pc = "finish"
    BY <2>1, <2>2 DEF Typed, TypeOK, BindingWorkerType
  <2>5. NoOrphanSecret'
    BY <2>1, <2>2, <2>3 DEF NoOrphanSecret, FinInv, SecretsOwned, Held, Typed, TypeOK
  <2>6. QED
    BY <2>4, <2>5 DEF SecretsOwned, FinalizerHeld, CleanedFirst, CopyFresh, Obligated
<1>3. QED
  BY <1>1, <1>2

\* A name is new: nothing of an earlier binding is left under it.
LEMMA CreateBindingOwned == ASSUME FinInv, Typed', CreateBinding PROVE SecretsOwned'
<1>1. PICK b \in Bindings, spec \in BindingSpecs :
         bnd[b].st = "none" /\ bnd' = [bnd EXCEPT ![b] = NewBinding(spec)]
  BY DEF CreateBinding, PutBinding
<1>2. sec' = sec /\ bw' = bw /\ Typed
  BY DEF CreateBinding, workers, FinInv
<1>3. ~Held(b) /\ \A c \in Bindings : Held(c) => Held(c)'
  BY <1>1, PutHeld DEF Held, Present, FinInv
<1>4. NoOrphanSecret'
  BY <1>2, <1>3 DEF NoOrphanSecret, FinInv, SecretsOwned, Held
<1>5. FinalizerHeld'
  <2> SUFFICES ASSUME Obligated(bw) PROVE Held(bw.key)'
    BY <1>2 DEF FinalizerHeld
  <2>1. bw.key \in Bindings
    BY <1>2 DEF Obligated, Typed, BindingWorkerOK
  <2>2. QED
    BY <1>2, <1>3, <2>1 DEF FinInv, SecretsOwned, FinalizerHeld, Held
<1>6. CleanedFirst'
  BY <1>2 DEF FinInv, SecretsOwned, CleanedFirst
<1>7. CopyFresh'
  <2> SUFFICES ASSUME bw.pc = "loaded", ~bw.stale PROVE Present(bnd'[bw.key])
    BY <1>2 DEF CopyFresh, Present
  <2>1. bw.key \in Bindings /\ Present(bnd[bw.key])
    BY <1>2 DEF Typed, BindingWorkerOK, FinInv, SecretsOwned, CopyFresh
  <2>2. QED
    BY <1>1, <1>2, <2>1 DEF Present, Typed, TypeOK
<1>8. QED
  BY <1>4, <1>5, <1>6, <1>7 DEF SecretsOwned

\* Every step of the operator preserves that secrets are owned.
LEMMA NextOwned == ASSUME FinInv, Typed', [Next]_vars PROVE SecretsOwned'
<1>1. Typed
  BY DEF FinInv
<1>2. CASE BindingReconcile
  <2>1. CASE \/ BBadUrl \/ BSaveUrl \/ BNoProvider \/ BMigrateAreas \/ BBadLifetime \/ BDelete
             \/ BInvalid \/ BLookup \/ BEnsure \/ BLookupFails \/ BLinkMatch \/ BLoadLinked
             \/ BCreateToken \/ BLabel \/ BLinkStatus \/ BUndo \/ BMismatch \/ BPrepare
             \/ BFinish \/ BCleanup \/ BRevert \/ BFail
    <3>1. Quiet
      BY <1>1, <2>1, BErrorsQuiet, BSavesQuiet, BDeleteQuiet, BLookupQuiet, BEnsureQuiet,
         BLinkMatchQuiet, BLoadLinkedQuiet, BCreateTokenQuiet, BLabelQuiet, BLinkStatusQuiet,
         BUndoQuiet, BPrepareQuiet, BFinishQuiet, BTidyQuiet
    <3>2. QED
      BY <3>1, QuietOwned
  <2>2. CASE BGet \/ BMigrateFinalizers \/ BAddFinalizer \/ BFinalize \/ BUnfinalize \/ BInject
    BY <2>2, BGetOwned, BFinalizersOwned, BFinalizeOwned, BUnfinalizeOwned, BInjectOwned
  <2>3. QED
    BY <1>2, <2>1, <2>2 DEF BindingReconcile
<1>3. CASE TokenReconcile
  BY <1>1, <1>3, TokenReconcileAside, AsideQuiet, QuietOwned
<1>4. CASE \/ TokenTimer \/ BindingTimer \/ Service \/ UploadGet \/ CreateToken \/ DeleteToken
           \/ RequestRefresh \/ TokenAges \/ BindingAges \/ UNCHANGED vars
  BY <1>1, <1>4, OthersAside, AsideQuiet, QuietOwned
<1>5. CASE CreateBinding
  BY <1>5, CreateBindingOwned
<1>6. CASE DeleteBinding \/ DeleteSecret
  BY <1>1, <1>6, DeleteBindingQuiet, DeleteSecretQuiet, QuietOwned
<1>7. CASE Restart \/ RefreshPanics
  BY <1>7, StartOverQuiet, QuietOwned DEF Restart, RefreshPanics
<1>8. QED
  BY <1>2, <1>3, <1>4, <1>5, <1>6, <1>7 DEF Next, Controllers, Users, Environment

\* No secret exists when the operator starts.
LEMMA InitOwned == Init => SecretsOwned
<1> SUFFICES ASSUME Init PROVE SecretsOwned
  OBVIOUS
<1>1. NoOrphanSecret /\ bw.pc = "idle"
  BY DEF Init, NoOrphanSecret, BIdle, IdleBindingWorker
<1>2. QED
  BY <1>1 DEF SecretsOwned, FinalizerHeld, CleanedFirst, CopyFresh, Obligated

\* No injected secret outlives its binding or the finalizer that will delete
\* it, for any number of bindings, tokens and secrets and whatever fails or
\* restarts in between: linkedObjectsFinalizer runs before the finalizer goes,
\* and Sync runs only while the finalizer is held.
THEOREM SecretsNeverOrphaned == Spec => []NoOrphanSecret
<1>1. Init => FinInv
  BY InitTyped, InitOwned DEF FinInv
<1>2. FinInv /\ [Next]_vars => FinInv'
  BY NextTyped, NextOwned DEF FinInv
<1>3. FinInv => NoOrphanSecret
  BY DEF FinInv, SecretsOwned
<1>4. QED
  BY <1>1, <1>2, <1>3, PTL DEF Spec

-----------------------------------------------------------------------------
(* What the worker's copy says of the binding on the server. The copy is read  *)
(* once and then written back piece by piece, while users may delete the       *)
(* binding under it: what follows is what the controller can still rely on.    *)

\* A binding that does not hold a synced secret yet refers to none.
RefOK(o) == o.phase \in {"", "AwaitingTokenData"} => o.synced = NoSec

\* A name that was never used is bare.
BindingOK(o) == RefOK(o) /\ (o.st = "none" => o.fin = "none" /\ o.linked = NoTok)

\* Worker w and the server's object o of the binding it works on. A copy that is
\* not stale is the copy of an existing binding; both links are known even to a
\* stale copy once the finalizer is held; data is on its way only for a binding
\* with both links on the token the data is from.
CopyOK(w, o) ==
  /\ RefOK(w.obj)
  /\ ~w.stale => Present(o)
  /\ w.pc \in {"loaded", "unfinalize"} /\ ~w.stale => o.st = w.obj.st
  /\ w.pc = "unfinalize" => w.obj.st = "deleting"
  /\ Obligated(w) \/ (w.pc = "loaded" /\ ~w.stale) => o.label = w.obj.label /\ o.linked = w.obj.linked
  /\ w.pc = "inject" => w.obj.label = w.token /\ w.obj.linked = w.token

ServerOK == \A b \in Bindings : BindingOK(bnd[b])

CopyInv == ServerOK /\ (bw.pc # "idle" => CopyOK(bw, bnd[bw.key]))

\* The pcs in which Reconcile only reports: it no longer reads the copy's links.
Reporting == {"fail", "undo", "revert", "finish", "cleanup"}

\* A busy worker's copy, and the server's object of it.
LEMMA CopyRead ==
  ASSUME Typed, CopyInv, bw.pc # "idle"
  PROVE  /\ bKey \in Bindings /\ binding \in BindingType /\ bnd[bKey] \in BindingType
         /\ RefOK(binding) /\ RefOK(bnd[bKey]) /\ BindingOK(bnd[bKey]) /\ CopyOK(bw, bnd[bKey])
         /\ ~bw.stale => Present(bnd[bKey])
<1>1. bKey \in Bindings /\ binding \in BindingType /\ bnd[bKey] \in BindingType
  BY BCopyTyped
<1>2. CopyOK(bw, bnd[bKey]) /\ BindingOK(bnd[bKey])
  BY <1>1 DEF CopyInv, ServerOK, bKey
<1>3. QED
  BY <1>1, <1>2 DEF CopyOK, BindingOK, binding, bKey

\* The server stores a good object.
LEMMA PutServerOK ==
  ASSUME Typed, ServerOK, NEW b \in Bindings, NEW new, BindingOK(new), bnd' = [bnd EXCEPT ![b] = new]
  PROVE  ServerOK'
  BY DEF ServerOK, Typed, TypeOK

\* A worker that has ended Reconcile has no copy.
LEMMA CopyIdle == ASSUME ServerOK', bw'.pc = "idle" PROVE CopyInv'
  BY DEF CopyInv

\* A worker that only reports holds a copy it may have changed.
LEMMA CopyReports ==
  ASSUME Typed, CopyInv, bw.pc # "idle", ServerOK', bw'.pc \in Reporting, bw'.key = bw.key,
         bw'.stale = bw.stale, RefOK(bw'.obj), Present(bnd[bKey]) => Present(bnd'[bKey])
  PROVE  CopyInv'
<1>1. ~bw.stale => Present(bnd[bKey])
  BY CopyRead
<1>2. ~Obligated(bw') /\ bw'.pc \notin {"loaded", "unfinalize", "inject"}
  BY DEF Obligated, Reporting
<1>3. CopyOK(bw', bnd'[bw'.key])
  BY <1>1, <1>2 DEF CopyOK, bKey
<1>4. QED
  BY <1>3 DEF CopyInv

\* A failing call that ends Reconcile.
LEMMA BCallFailsCopy ==
  ASSUME CopyInv, NEW stale, BCallFails(stale)
  PROVE  CopyInv'
<1>1. bw'.pc = "idle" /\ bnd' = bnd
  BY DEF BCallFails, BReturnErr, BReturn, BIdle, IdleBindingWorker, objects
<1>2. QED
  BY <1>1, CopyIdle DEF CopyInv, ServerOK

\* Remembering an error.
LEMMA BFailWithCopy ==
  ASSUME Typed, CopyInv, bw.pc # "idle", NEW o, RefOK(o), NEW next, BFailWith(o, next), bnd' = bnd
  PROVE  CopyInv'
<1>1. bw'.pc = "fail" /\ bw'.key = bw.key /\ bw'.stale = bw.stale /\ bw'.obj = o
  BY DEF BFailWith, Typed, TypeOK, BindingWorkerType
<1>2. ServerOK'
  BY DEF CopyInv, ServerOK
<1>3. QED
  BY <1>1, <1>2, CopyReports DEF Reporting

\* What a write of the status leaves at the server.
LEMMA BWithStatusOK ==
  ASSUME Typed, CopyInv, bw.pc # "idle", ~bw.stale, NEW o, RefOK(o)
  PROVE  /\ BindingOK(BWithStatus(o)) /\ Present(BWithStatus(o))
         /\ BWithStatus(o).st = bnd[bKey].st /\ BWithStatus(o).fin = bnd[bKey].fin
         /\ BWithStatus(o).label = bnd[bKey].label /\ BWithStatus(o).linked = o.linked
<1>1. bnd[bKey] \in BindingType /\ Present(bnd[bKey])
  BY CopyRead
<1>2. QED
  BY <1>1 DEF BWithStatus, BindingType, BindingOK, RefOK, Present

\* Writing an error to the status.
LEMMA BStatusErrorCopy ==
  ASSUME Typed, CopyInv, bw.pc # "idle", NEW o, RefOK(o),
         NEW next \in {"done", "requeue", "undo", "revert"}, BStatusError(o, next)
  PROVE  CopyInv'
<1>1. bKey \in Bindings
  BY CopyRead
<1>2. ServerOK' /\ (Present(bnd[bKey]) => Present(bnd'[bKey]))
  <2>1. CASE UNCHANGED bnd
    BY <2>1 DEF CopyInv, ServerOK
  <2>2. CASE ~bw.stale /\ bnd' = [bnd EXCEPT ![bKey] = BWithStatus(o)]
    <3>1. BindingOK(BWithStatus(o)) /\ Present(BWithStatus(o))
      BY <2>2, BWithStatusOK
    <3>2. ServerOK'
      BY <1>1, <2>2, <3>1, PutServerOK DEF CopyInv
    <3>3. QED
      BY <1>1, <2>2, <3>1, <3>2 DEF Typed, TypeOK
  <2>3. QED
    BY <2>1, <2>2 DEF BStatusError
<1>3. CASE next \in {"done", "requeue"}
  <2>1. bw'.pc = "idle"
    BY <1>3 DEF BStatusError, BIdle, IdleBindingWorker
  <2>2. QED
    BY <1>2, <2>1, CopyIdle
<1>4. CASE next \in {"undo", "revert"}
  <2>1. bw'.pc = next /\ bw'.key = bw.key /\ bw'.stale = bw.stale /\ bw'.obj = o
    BY <1>4 DEF BStatusError, Typed, TypeOK, BindingWorkerType
  <2>2. QED
    BY <1>2, <1>4, <2>1, CopyReports DEF Reporting
<1>5. QED
  BY <1>3, <1>4

\* The copy with an error of its own, with a reason, or awaiting data.
LEMMA RefKept ==
  ASSUME NEW o \in BindingType, RefOK(o)
  PROVE  /\ \A r \in BindingReasons : RefOK(Erroneous(o, r)) /\ RefOK([o EXCEPT !.reason = r])
         /\ RefOK(Entered(o)) /\ RefOK(Awaiting(o))
         /\ \A r \in BindingReasons : RefOK([Entered(o) EXCEPT !.reason = r])
         /\ \A t : RefOK([o EXCEPT !.linked = t, !.reason = ""])
         /\ \A t, r : RefOK([[o EXCEPT !.linked = t, !.reason = ""] EXCEPT !.reason = r])
<1>1. \A r : RefOK(Erroneous(o, r)) /\ RefOK([o EXCEPT !.reason = r])
  BY DEF Erroneous, RefOK, BindingType
<1>2. RefOK(Entered(o)) /\ RefOK(Awaiting(o))
  BY DEF Entered, Awaiting, RefOK, BindingType
<1>3. \A r : RefOK([Entered(o) EXCEPT !.reason = r])
  BY DEF Entered, RefOK, BindingType
<1>4. \A t, r : /\ RefOK([o EXCEPT !.linked = t, !.reason = ""])
                /\ RefOK([[o EXCEPT !.linked = t, !.reason = ""] EXCEPT !.reason = r])
  BY DEF RefOK, BindingType
<1>5. QED
  BY <1>1, <1>2, <1>3, <1>4

\* The steps that end with an error in the status.
LEMMA BErrorsCopy ==
  ASSUME Typed, CopyInv, BBadUrl \/ BBadLifetime \/ BInvalid \/ BLookupFails \/ BMismatch \/ BFail \/ BNoProvider
  PROVE  CopyInv'
<1>1. bw.pc # "idle" /\ bw.then \in {"done", "requeue", "undo", "revert"}
  BY DEF BBadUrl, BBadLifetime, BInvalid, BLookupFails, BMismatch, BFail, BNoProvider, Current, Finalized,
     Migrated, ProviderKnown, ProperValues, Linked, Typed, TypeOK, BindingWorkerType
<1>2. binding \in BindingType /\ RefOK(binding)
  BY <1>1, CopyRead
<1>3. \A r \in BindingReasons : RefOK(Erroneous(binding, r)) /\ RefOK([binding EXCEPT !.reason = r])
  BY <1>2, RefKept
<1>4. CASE BBadUrl \/ BBadLifetime \/ BInvalid \/ BLookupFails \/ BMismatch \/ BFail
  BY <1>1, <1>2, <1>3, <1>4, BStatusErrorCopy
     DEF BBadUrl, BBadLifetime, BInvalid, BLookupFails, BMismatch, BFail, BindingReasons
<1>5. CASE BNoProvider
  <2> DEFINE o == Erroneous(binding, "UnknownServiceProviderType")
  <2>1. RefOK(o)
    BY <1>3 DEF BindingReasons
  <2>2. CASE BStatusError(o, "done")
    BY <1>1, <2>1, <2>2, BStatusErrorCopy
  <2>3. CASE BFailWith(o, "done") /\ BLocal
    BY <1>1, <2>1, <2>3, BFailWithCopy DEF BLocal, objects
  <2>4. QED
    BY <1>5, <2>2, <2>3 DEF BNoProvider
<1>6. QED
  BY <1>4, <1>5

\* Loading the binding: the copy is what the server has.
LEMMA BGetCopy == ASSUME Typed, CopyInv, BGet PROVE CopyInv'
<1>1. PICK b \in bq : bw' = IF Present(bnd[b])
          THEN [BIdle(bw.lost \ {b}) EXCEPT !.pc = "loaded", !.key = b, !.obj = bnd[b]]
          ELSE bw
  BY DEF BGet
<1>2. b \in Bindings /\ bnd' = bnd /\ bw.pc = "idle"
  BY DEF Typed, TypeOK, BGet, objects
<1>3. ServerOK' /\ BindingOK(bnd[b])
  BY <1>2 DEF CopyInv, ServerOK
<1>4. CASE ~Present(bnd[b])
  BY <1>1, <1>2, <1>3, <1>4, CopyIdle
<1>5. CASE Present(bnd[b])
  <2>1. bw'.pc = "loaded" /\ bw'.key = b /\ bw'.obj = bnd[b] /\ bw'.stale = FALSE
    BY <1>1, <1>5 DEF BIdle, IdleBindingWorker
  <2>2. CopyOK(bw', bnd'[bw'.key])
    BY <1>2, <1>3, <1>5, <2>1 DEF CopyOK, BindingOK
  <2>3. QED
    BY <1>3, <2>2 DEF CopyInv
<1>6. QED
  BY <1>4, <1>5

\* What the server makes of a binding without a finalizer or a deleted one.
LEMMA SettledOK ==
  ASSUME NEW o \in BindingType, RefOK(o), Present(o)
  PROVE  BindingOK(SettleBinding([o EXCEPT !.fin = "none"])) /\ BindingOK(DeletedBinding(o))
<1>1. BindingOK(AbsentBinding("gone"))
  BY DEF AbsentBinding, NewBinding, BindingOK, RefOK
<1>2. BindingOK([o EXCEPT !.fin = "none"]) /\ BindingOK([o EXCEPT !.st = "deleting"])
  BY DEF BindingType, BindingOK, RefOK, Present
<1>3. QED
  BY <1>1, <1>2 DEF SettleBinding, DeletedBinding, Settle

\* Writes that end Reconcile: the completed URL, the migrated areas, the binding
\* without its finalizer, and Delete.
LEMMA BLastWritesCopy ==
  ASSUME Typed, CopyInv, BSaveUrl \/ BMigrateAreas \/ BUnfinalize \/ BDelete
  PROVE  CopyInv'
<1>1. bw.pc # "idle"
  BY DEF BSaveUrl, BMigrateAreas, BUnfinalize, BDelete, Finalized, Migrated, ProviderKnown, ProperValues
<1>2. bKey \in Bindings /\ bnd[bKey] \in BindingType /\ RefOK(bnd[bKey])
  BY <1>1, CopyRead
<1>3. CASE \E stale : BCallFails(stale)
  BY <1>3, BCallFailsCopy
<1>4. ASSUME NEW new, Present(bnd[bKey]) => BindingOK(new), ~bw.stale \/ Present(bnd[bKey]), BReturn, PutBinding(bKey, new)
      PROVE  CopyInv'
  <2>1. BindingOK(new)
    BY <1>1, <1>4, CopyRead
  <2>2. ServerOK' /\ bw'.pc = "idle"
    BY <1>2, <1>4, <2>1, PutServerOK DEF CopyInv, PutBinding, BReturn, BIdle, IdleBindingWorker
  <2>3. QED
    BY <2>2, CopyIdle
<1>5. CASE ~(\E stale : BCallFails(stale)) /\ BDelete
  BY <1>2, <1>4, <1>5, SettledOK DEF BDelete
<1>6. CASE ~(\E stale : BCallFails(stale)) /\ BUnfinalize
  BY <1>2, <1>4, <1>6, SettledOK DEF BUnfinalize, BPut
<1>7. CASE ~(\E stale : BCallFails(stale)) /\ BSaveUrl
  <2>1. Present(bnd[bKey]) => BindingOK([bnd[bKey] EXCEPT !.spec.url = "ok"])
    BY <1>2 DEF BindingOK, RefOK, BindingType, Present
  <2>2. QED
    BY <1>4, <1>7, <2>1 DEF BSaveUrl, BPut
<1>8. CASE ~(\E stale : BCallFails(stale)) /\ BMigrateAreas
  <2>1. Present(bnd[bKey]) => BindingOK([bnd[bKey] EXCEPT !.spec.areas = "current"])
    BY <1>2 DEF BindingOK, RefOK, BindingType, Present
  <2>2. QED
    BY <1>4, <1>8, <2>1 DEF BMigrateAreas, BPut
<1>9. QED
  BY <1>3, <1>5, <1>6, <1>7, <1>8

\* Adding or renaming the finalizer: Reconcile goes on with the server's object.
LEMMA BFinalizersCopy ==
  ASSUME Typed, CopyInv, BMigrateFinalizers \/ BAddFinalizer
  PROVE  CopyInv'
<1>1. CASE BCallFails(bw.stale)
  BY <1>1, BCallFailsCopy
<1>2. CASE ~BCallFails(bw.stale)
  <2> DEFINE new == [bnd[bKey] EXCEPT !.fin = "new"]
  <2>1. bw.pc = "loaded"
    BY DEF BMigrateFinalizers, BAddFinalizer, Migrated, ProviderKnown, ProperValues
  <2>2. bKey \in Bindings /\ bnd[bKey] \in BindingType /\ RefOK(bnd[bKey]) /\ (~bw.stale => Present(bnd[bKey]))
    BY <2>1, CopyRead
  <2>3. ~bw.stale /\ bnd' = [bnd EXCEPT ![bKey] = new] /\ bw' = [bw EXCEPT !.obj = bnd'[bKey]]
    BY <1>2 DEF BMigrateFinalizers, BAddFinalizer, BPut, PutBinding
  <2>4. BindingOK(new) /\ Present(new) /\ RefOK(new)
    BY <2>2, <2>3 DEF BindingOK, RefOK, BindingType, Present
  <2>5. ServerOK' /\ bnd'[bKey] = new
    BY <2>2, <2>3, <2>4, PutServerOK DEF CopyInv, Typed, TypeOK
  <2>6. bw'.pc = "loaded" /\ bw'.key = bKey /\ bw'.obj = new
    BY <2>1, <2>3, <2>5 DEF Typed, TypeOK, BindingWorkerType, bKey
  <2>7. CopyOK(bw', bnd'[bw'.key])
    BY <2>4, <2>5, <2>6 DEF CopyOK
  <2>8. QED
    BY <2>5, <2>7 DEF CopyInv
<1>3. QED
  BY <1>1, <1>2

\* Finalize: the copy is one of a binding being deleted.
LEMMA BFinalizeCopy == ASSUME Typed, CopyInv, BFinalize PROVE CopyInv'
<1>1. bw.pc = "loaded" /\ binding.st = "deleting" /\ bnd' = bnd
  BY DEF BFinalize, Migrated, ProviderKnown, ProperValues, CleanedUp
<1>2. ServerOK'
  BY <1>1 DEF CopyInv, ServerOK
<1>3. CASE BReturnErr
  BY <1>2, <1>3, CopyIdle DEF BReturnErr, BReturn, BIdle, IdleBindingWorker
<1>4. CASE bw' = [bw EXCEPT !.pc = "unfinalize", !.obj.fin = "none"]
  <2>1. binding \in BindingType /\ RefOK(binding) /\ CopyOK(bw, bnd[bKey])
    BY <1>1, CopyRead
  <2>2. /\ bw'.pc = "unfinalize" /\ bw'.key = bw.key /\ bw'.stale = bw.stale
        /\ bw'.obj = [binding EXCEPT !.fin = "none"]
    BY <1>4 DEF Typed, TypeOK, BindingWorkerType, binding
  <2>3. bw'.obj.st = "deleting" /\ RefOK(bw'.obj)
    BY <1>1, <2>1, <2>2 DEF BindingType, RefOK
  <2>4. CopyOK(bw', bnd'[bw'.key])
    BY <1>1, <2>1, <2>2, <2>3 DEF CopyOK, Obligated, bKey, binding
  <2>5. QED
    BY <1>2, <2>4 DEF CopyInv
<1>5. QED
  BY <1>3, <1>4 DEF BFinalize

\* A worker that goes on with the links it has read.
LEMMA CopyGoesOn ==
  ASSUME Typed, CopyInv, Obligated(bw), bnd' = bnd, bw'.pc \in {"lookup", "link"}, bw'.key = bw.key,
         bw'.stale = bw.stale, RefOK(bw'.obj), bw'.obj.label = bw.obj.label, bw'.obj.linked = bw.obj.linked
  PROVE  CopyInv'
<1>1. bw.pc # "idle"
  BY DEF Obligated
<1>2. CopyOK(bw, bnd[bKey])
  BY <1>1, CopyRead
<1>3. CopyOK(bw', bnd'[bw'.key])
  BY <1>2 DEF CopyOK, Obligated, bKey
<1>4. QED
  BY <1>3 DEF CopyInv, ServerOK

\* Lookup.
LEMMA BLookupCopy == ASSUME Typed, CopyInv, BLookup PROVE CopyInv'
<1>1. bw.pc = "loaded" /\ Obligated(bw) /\ bnd' = bnd
  BY DEF BLookup, Current, Finalized, Migrated, ProviderKnown, ProperValues, Obligated, binding, BLocal, objects
<1>2. binding \in BindingType /\ RefOK(binding)
  BY <1>1, CopyRead
<1>3. RefOK(Entered(binding)) /\ RefOK([Entered(binding) EXCEPT !.reason = "TokenLookup"])
  BY <1>2, RefKept DEF BindingReasons
<1>4. CASE BFailWith([Entered(binding) EXCEPT !.reason = "TokenLookup"], "requeue")
  BY <1>1, <1>3, <1>4, BFailWithCopy
<1>5. CASE ~BFailWith([Entered(binding) EXCEPT !.reason = "TokenLookup"], "requeue")
  <2>1. bw'.pc = "lookup" /\ bw'.key = bw.key /\ bw'.stale = bw.stale /\ bw'.obj = Entered(binding)
    BY <1>5 DEF BLookup, Typed, TypeOK, BindingWorkerType, binding
  <2>2. Entered(binding).label = binding.label /\ Entered(binding).linked = binding.linked
    BY <1>2 DEF Entered, BindingType
  <2>3. QED
    BY <1>1, <1>3, <2>1, <2>2, CopyGoesOn DEF binding
<1>6. QED
  BY <1>4, <1>5

LEMMA BEnsureCopy == ASSUME Typed, CopyInv, BEnsure PROVE CopyInv'
<1>1. bw.pc = "lookup" /\ bw'.pc = "lookup" /\ bw'.key = bw.key /\ bw'.obj = bw.obj /\ bw'.stale = bw.stale
  BY BEnsureWorker
<1>2. RefOK(bw.obj) /\ bnd' = bnd
  BY <1>1, CopyRead DEF BEnsure, binding
<1>3. QED
  BY <1>1, <1>2, CopyGoesOn DEF Obligated

\* linkToken chooses, loads or creates a token.
LEMMA BLinksCopy ==
  ASSUME Typed, CopyInv, BLinkMatch \/ BLoadLinked \/ BCreateToken
  PROVE  CopyInv'
<1> DEFINE failed == [binding EXCEPT !.reason = "LinkedToken"]
<1>1. bw.pc = "lookup"
  BY DEF BLinkMatch, BLoadLinked, BCreateToken, LookedUp
<1>2. binding \in BindingType /\ RefOK(binding)
  BY <1>1, CopyRead
<1>3. CASE \E stale : BCallFails(stale)
  BY <1>3, BCallFailsCopy
<1>4. CASE BFailWith(failed, "requeue") /\ BLocal
  <2>1. RefOK(failed)
    BY <1>2, RefKept DEF BindingReasons
  <2>2. QED
    BY <1>1, <1>4, <2>1, BFailWithCopy DEF BLocal, objects
<1>5. CASE ~(\E stale : BCallFails(stale)) /\ ~(BFailWith(failed, "requeue") /\ BLocal)
  <2>1. \E t, ready, matching, created : bw' = Link(t, ready, matching, created)
    <3>1. CASE BLinkMatch
      BY <3>1 DEF BLinkMatch
    <3>2. CASE BLoadLinked
      <4>1. bw' = Link(binding.linked, tok[binding.linked].phase = "Ready", FALSE, FALSE)
        BY <1>5, <3>2 DEF BLoadLinked
      <4>2. QED
        BY <4>1
    <3>3. CASE BCreateToken
      BY <1>5, <3>3 DEF BCreateToken
    <3>4. QED
      BY <3>1, <3>2, <3>3
  <2>2. bw'.pc = "link" /\ bw'.key = bw.key /\ bw'.obj = bw.obj /\ bw'.stale = bw.stale
    BY <2>1 DEF Link, Typed, TypeOK, BindingWorkerType
  <2>3. bnd' = bnd
    BY <1>5 DEF BLinkMatch, BLoadLinked, BCreateToken, BLocal, objects
  <2>4. QED
    BY <1>1, <1>2, <2>2, <2>3, CopyGoesOn DEF Obligated, binding
<1>6. QED
  BY <1>3, <1>4, <1>5

\* persistWithMatchingLabels: the label, and with it the server's object.
LEMMA BLabelCopy == ASSUME Typed, CopyInv, BLabel PROVE CopyInv'
<1> DEFINE failed == [binding EXCEPT !.reason = "LinkedToken"]
           new == [bnd[bKey] EXCEPT !.label = bw.token]
<1>1. bw.pc = "link"
  BY DEF BLabel
<1>2. /\ bKey \in Bindings /\ binding \in BindingType /\ bnd[bKey] \in BindingType
      /\ RefOK(binding) /\ RefOK(bnd[bKey]) /\ (~bw.stale => Present(bnd[bKey]))
  BY <1>1, CopyRead
<1>3. CASE BFailWith(failed, AbandonLink) /\ BLocal
  <2>1. RefOK(failed)
    BY <1>2, RefKept DEF BindingReasons
  <2>2. QED
    BY <1>1, <1>3, <2>1, BFailWithCopy DEF BLocal, objects
<1>4. CASE BPut(new) /\ bw' = [bw EXCEPT !.obj = bnd'[bKey]]
  <2>1. ~bw.stale /\ bnd' = [bnd EXCEPT ![bKey] = new]
    BY <1>4 DEF BPut, PutBinding
  <2>2. BindingOK(new) /\ Present(new) /\ RefOK(new)
    BY <1>2, <2>1 DEF BindingOK, RefOK, BindingType, Present
  <2>3. ServerOK' /\ bnd'[bKey] = new
    BY <1>2, <2>1, <2>2, PutServerOK DEF CopyInv, Typed, TypeOK
  <2>4. bw'.pc = "link" /\ bw'.key = bKey /\ bw'.obj = new
    BY <1>1, <1>4, <2>3 DEF Typed, TypeOK, BindingWorkerType, bKey
  <2>5. CopyOK(bw', bnd'[bw'.key])
    BY <2>2, <2>3, <2>4 DEF CopyOK
  <2>6. QED
    BY <2>3, <2>5 DEF CopyInv
<1>5. QED
  BY <1>3, <1>4 DEF BLabel

\* ... and the link in the status.
LEMMA BLinkStatusCopy == ASSUME Typed, CopyInv, BLinkStatus PROVE CopyInv'
<1> DEFINE o == [binding EXCEPT !.linked = bw.token, !.reason = ""]
<1>1. bw.pc = "link"
  BY DEF BLinkStatus
<1>2. /\ bKey \in Bindings /\ binding \in BindingType /\ bnd[bKey] \in BindingType
      /\ RefOK(binding) /\ CopyOK(bw, bnd[bKey])
  BY <1>1, CopyRead
<1>3. RefOK(o) /\ RefOK([o EXCEPT !.reason = "LinkedToken"]) /\ o.label = binding.label /\ o.linked = bw.token
  BY <1>2, RefKept DEF BindingType
<1>4. CASE BFailWith([o EXCEPT !.reason = "LinkedToken"], AbandonLink) /\ BLocal
  BY <1>1, <1>3, <1>4, BFailWithCopy DEF BLocal, objects
<1>5. CASE BPut(BWithStatus(o)) /\ bw' = [bw EXCEPT !.obj = o]
  <2> HIDE DEF o
  <2>1. ~bw.stale /\ bnd' = [bnd EXCEPT ![bKey] = BWithStatus(o)]
    BY <1>5 DEF BPut, PutBinding
  <2>2. /\ BindingOK(BWithStatus(o)) /\ Present(BWithStatus(o))
        /\ BWithStatus(o).label = bnd[bKey].label /\ BWithStatus(o).linked = bw.token
    BY <1>1, <1>3, <2>1, BWithStatusOK
  <2>3. ServerOK' /\ bnd'[bKey] = BWithStatus(o)
    BY <1>2, <2>1, <2>2, PutServerOK DEF CopyInv, Typed, TypeOK
  <2>4. bw'.pc = "link" /\ bw'.key = bKey /\ bw'.obj = o
    BY <1>1, <1>5 DEF Typed, TypeOK, BindingWorkerType, bKey
  <2>5. bnd[bKey].label = binding.label
    BY <1>1, <1>2 DEF CopyOK, Obligated, binding
  <2>6. CopyOK(bw', bnd'[bw'.key])
    BY <1>3, <2>2, <2>3, <2>4, <2>5 DEF CopyOK
  <2>7. QED
    BY <2>3, <2>6 DEF CopyInv
<1>6. QED
  BY <1>4, <1>5 DEF BLinkStatus

\* CheckPoint and GetData: data is only fetched for the token of both links.
LEMMA BPrepareCopy == ASSUME Typed, CopyInv, BPrepare PROVE CopyInv'
<1>1. bw.pc = "link" /\ Linked /\ bnd' = bnd
  BY DEF BPrepare, Linked, BLocal, objects
<1>2. binding \in BindingType /\ RefOK(binding) /\ CopyOK(bw, bnd[bKey])
  BY <1>1, CopyRead
<1>3. RefOK(Awaiting(binding)) /\ \A r \in BindingReasons : RefOK(Erroneous(binding, r))
  BY <1>2, RefKept
<1>4. ServerOK'
  BY <1>1 DEF CopyInv, ServerOK
<1>5. CASE bw'.pc \in Reporting /\ RefOK(bw'.obj) /\ bw'.key = bw.key /\ bw'.stale = bw.stale
  BY <1>1, <1>4, <1>5, CopyReports
<1>6. CASE bw'.pc = "inject" /\ bw'.obj = bw.obj /\ bw'.token = bw.token /\ bw'.key = bw.key /\ bw'.stale = bw.stale
  <2>1. CopyOK(bw', bnd'[bw'.key])
    BY <1>1, <1>2, <1>6 DEF CopyOK, Obligated, Linked, binding, bKey
  <2>2. QED
    BY <1>4, <2>1 DEF CopyInv
<1>7. /\ bw'.pc \in {"finish", "fail", "inject"} /\ bw'.key = bw.key /\ bw'.stale = bw.stale
      /\ bw'.pc # "inject" => \/ bw'.obj = Awaiting(binding)
                              \/ \E r \in BindingReasons : bw'.obj = Erroneous(binding, r)
      /\ bw'.pc = "inject" => bw'.obj = bw.obj /\ bw'.token = bw.token
  BY DEF BPrepare, BFailWith, Typed, TypeOK, BindingWorkerType, binding, BindingReasons
<1>8. QED
  BY <1>3, <1>5, <1>6, <1>7 DEF Reporting

\* Sync, the final status, clean-up, revert and undo.
LEMMA BInjectCopy == ASSUME Typed, CopyInv, BInject PROVE CopyInv'
<1>1. bw.pc = "inject" /\ bnd' = bnd
  BY DEF BInject, BLocal, objects
<1>2. binding \in BindingType /\ RefOK(binding)
  BY <1>1, CopyRead
<1>3. ServerOK'
  BY <1>1 DEF CopyInv, ServerOK
<1>4. CASE BFailWith(Erroneous(binding, "TokenSync"), "revert")
  BY <1>1, <1>2, <1>4, RefKept, BFailWithCopy DEF BindingReasons
<1>5. CASE ~BFailWith(Erroneous(binding, "TokenSync"), "revert")
  <2>1. PICK s : bw' = [bw EXCEPT !.pc = "finish", !.data = NoData,
                          !.obj = [@ EXCEPT !.phase = "Injected", !.synced = s]]
    BY <1>5 DEF BInject
  <2>2. bw'.pc = "finish" /\ bw'.key = bw.key /\ bw'.stale = bw.stale
        /\ bw'.obj = [binding EXCEPT !.phase = "Injected", !.synced = s]
    BY <2>1 DEF Typed, TypeOK, BindingWorkerType, binding
  <2>3. RefOK(bw'.obj)
    BY <1>2, <2>2 DEF RefOK, BindingType
  <2>4. QED
    BY <1>1, <1>3, <2>2, <2>3, CopyReports DEF Reporting
<1>6. QED
  BY <1>4, <1>5

LEMMA BFinishCopy == ASSUME Typed, CopyInv, BFinish PROVE CopyInv'
<1> DEFINE o == [binding EXCEPT !.reason = ""]
<1>1. bw.pc = "finish"
  BY DEF BFinish
<1>2. bKey \in Bindings /\ binding \in BindingType /\ RefOK(binding)
  BY <1>1, CopyRead
<1>3. RefOK(o)
  BY <1>2, RefKept DEF BindingReasons
<1>4. ServerOK' /\ (Present(bnd[bKey]) => Present(bnd'[bKey]))
  <2> HIDE DEF o
  <2>1. CASE bnd' = bnd
    BY <2>1 DEF CopyInv, ServerOK
  <2>2. CASE ~bw.stale /\ bnd' = [bnd EXCEPT ![bKey] = BWithStatus(o)]
    <3>1. BindingOK(BWithStatus(o)) /\ Present(BWithStatus(o))
      BY <1>1, <1>3, <2>2, BWithStatusOK
    <3>2. ServerOK'
      BY <1>2, <2>2, <3>1, PutServerOK DEF CopyInv
    <3>3. QED
      BY <1>2, <2>2, <3>1, <3>2 DEF Typed, TypeOK
  <2>3. QED
    BY <2>1, <2>2 DEF BFinish, BLocal, objects, BPut, PutBinding, o
<1>5. CASE BReturn
  BY <1>4, <1>5, CopyIdle DEF BReturn, BIdle, IdleBindingWorker
<1>6. CASE ~BReturn
  <2>1. /\ bw'.pc \in {"cleanup", "revert"} /\ bw'.key = bw.key /\ bw'.stale = bw.stale
        /\ bw'.obj \in {binding, o}
    BY <1>6 DEF BFinish, Typed, TypeOK, BindingWorkerType, binding
  <2>2. QED
    BY <1>1, <1>2, <1>3, <1>4, <2>1, CopyReports DEF Reporting
<1>7. QED
  BY <1>5, <1>6

LEMMA BTidyCopy == ASSUME Typed, CopyInv, BCleanup \/ BRevert \/ BUndo PROVE CopyInv'
<1>1. bw.pc # "idle" /\ bnd' = bnd
  BY DEF BCleanup, BRevert, BUndo, CleanedUp, objects
<1>2. ServerOK'
  BY <1>1 DEF CopyInv, ServerOK
<1>3. CASE BReturn
  BY <1>2, <1>3, CopyIdle DEF BReturn, BIdle, IdleBindingWorker
<1>4. CASE ~BReturn
  <2>1. BFailWith([binding EXCEPT !.reason = "TokenSync"], "requeue")
    BY <1>4 DEF BCleanup, BRevert, BUndo, BReturnErr
  <2>2. RefOK([binding EXCEPT !.reason = "TokenSync"])
    BY <1>1, CopyRead, RefKept DEF BindingReasons
  <2>3. QED
    BY <1>1, <2>1, <2>2, BFailWithCopy
<1>5. QED
  BY <1>3, <1>4

\* A step that leaves the bindings and the worker alone.
LEMMA AsideCopy == ASSUME CopyInv, Aside PROVE CopyInv'
  BY DEF CopyInv, ServerOK, CopyOK, Obligated, Aside, SameWorker

LEMMA StartOverCopy == ASSUME CopyInv, StartOver PROVE CopyInv'
<1>1. bw'.pc = "idle" /\ bnd' = bnd
  BY DEF StartOver, BIdle, IdleBindingWorker, objects
<1>2. QED
  BY <1>1, CopyIdle DEF CopyInv, ServerOK

\* A user creates a binding under a name the worker does not work on, or deletes
\* one: the worker's copy is outdated, but a held finalizer keeps the links.
LEMMA CreateBindingCopy == ASSUME Typed, CopyInv, FinInv, CreateBinding PROVE CopyInv'
<1>1. PICK b \in Bindings, spec \in BindingSpecs :
         bnd[b].st = "none" /\ bnd' = [bnd EXCEPT ![b] = NewBinding(spec)]
  BY DEF CreateBinding, PutBinding
<1>2. ServerOK' /\ bw' = bw
  <2>1. BindingOK(NewBinding(spec))
    BY DEF BindingOK, RefOK, NewBinding
  <2>2. QED
    BY <1>1, <2>1, PutServerOK DEF CopyInv, CreateBinding, workers
<1>3. CASE bw.pc = "idle"
  BY <1>2, <1>3, CopyIdle
<1>4. CASE bw.pc # "idle" /\ bw.key # b
  BY <1>1, <1>2, <1>4, CopyRead DEF CopyInv, bKey, Typed, TypeOK
<1>5. CASE bw.pc # "idle" /\ bw.key = b
  <2>1. ~Present(bnd[b]) /\ bw.key \in Bindings
    BY <1>1, <1>5 DEF Present
  <2>2. bw.stale /\ ~Obligated(bw)
    BY <1>5, <2>1, CopyRead DEF FinInv, SecretsOwned, FinalizerHeld, Held, bKey
  <2>3. CopyOK(bw', bnd'[bw'.key])
    BY <1>2, <1>5, <2>2, CopyRead DEF CopyOK, Obligated, bKey
  <2>4. QED
    BY <1>2, <2>3 DEF CopyInv
<1>6. QED
  BY <1>3, <1>4, <1>5

LEMMA DeleteBindingCopy == ASSUME Typed, CopyInv, FinInv, DeleteBinding PROVE CopyInv'
<1>1. PICK b \in Bindings : /\ bnd[b].st = "live" /\ bnd' = [bnd EXCEPT ![b] = DeletedBinding(bnd[b])]
                            /\ OutdateBinding(b, DeletedBinding(bnd[b]))
  BY DEF DeleteBinding, PutBinding
<1>2. bnd[b] \in BindingType /\ BindingOK(bnd[b])
  BY <1>1 DEF Typed, TypeOK, CopyInv, ServerOK
<1>3. ServerOK'
  <2>1. BindingOK(DeletedBinding(bnd[b]))
    BY <1>1, <1>2, SettledOK DEF BindingOK, Present
  <2>2. QED
    BY <1>1, <2>1, PutServerOK DEF CopyInv
<1>4. bw'.pc = bw.pc /\ bw'.key = bw.key /\ bw'.obj = bw.obj /\ bw'.token = bw.token
      /\ (bw'.stale <=> bw.stale \/ (bw.key = b /\ DeletedBinding(bnd[b]) # bnd[b]))
  BY <1>1 DEF OutdateBinding, Typed, TypeOK, BindingWorkerType
<1>5. CASE bw.pc = "idle"
  BY <1>3, <1>4, <1>5, CopyIdle
<1>6. CASE bw.pc # "idle" /\ bw.key # b
  <2>1. CopyOK(bw, bnd[bw.key]) /\ bnd'[bw'.key] = bnd[bw.key] /\ (bw'.stale <=> bw.stale)
    BY <1>1, <1>4, <1>6, CopyRead DEF bKey, Typed, TypeOK
  <2>2. CopyOK(bw', bnd'[bw'.key])
    BY <1>4, <2>1 DEF CopyOK, Obligated
  <2>3. QED
    BY <1>3, <2>2 DEF CopyInv
<1>7. CASE bw.pc # "idle" /\ bw.key = b
  <2>1. DeletedBinding(bnd[b]).st # "live"
    BY <1>2 DEF DeletedBinding, SettleBinding, Settle, AbsentBinding, NewBinding, BindingType
  <2>2. bw'.stale
    BY <1>1, <1>4, <1>7, <2>1
  <2>3. Obligated(bw) => /\ DeletedBinding(bnd[b]).label = bnd[b].label
                         /\ DeletedBinding(bnd[b]).linked = bnd[b].linked
    <3>1. Obligated(bw) => bnd[b].fin # "none"
      BY <1>7 DEF FinInv, SecretsOwned, FinalizerHeld, Held
    <3>2. QED
      BY <1>2, <3>1 DEF DeletedBinding, SettleBinding, Settle, BindingType
  <2>4. CopyOK(bw, bnd[b]) /\ bnd'[bw'.key] = DeletedBinding(bnd[b])
    BY <1>1, <1>4, <1>7, CopyRead DEF bKey, Typed, TypeOK
  <2>5. CopyOK(bw', bnd'[bw'.key])
    BY <1>4, <2>2, <2>3, <2>4 DEF CopyOK, Obligated
  <2>6. QED
    BY <1>3, <2>5 DEF CopyInv
<1>8. QED
  BY <1>5, <1>6, <1>7

\* Every step of the operator preserves what the copies say.
LEMMA NextCopy == ASSUME FinInv, CopyInv, [Next]_vars PROVE CopyInv'
<1>1. Typed
  BY DEF FinInv
<1>2. CASE BindingReconcile
  <2>1. CASE BGet \/ BBadUrl \/ BBadLifetime \/ BInvalid \/ BLookupFails \/ BMismatch \/ BFail \/ BNoProvider
    BY <1>1, <2>1, BGetCopy, BErrorsCopy
  <2>2. CASE BSaveUrl \/ BMigrateAreas \/ BUnfinalize \/ BDelete \/ BMigrateFinalizers \/ BAddFinalizer \/ BFinalize
    BY <1>1, <2>2, BLastWritesCopy, BFinalizersCopy, BFinalizeCopy
  <2>3. CASE BLookup \/ BEnsure \/ BLinkMatch \/ BLoadLinked \/ BCreateToken \/ BLabel \/ BLinkStatus
    BY <1>1, <2>3, BLookupCopy, BEnsureCopy, BLinksCopy, BLabelCopy, BLinkStatusCopy
  <2>4. CASE BPrepare \/ BInject \/ BFinish \/ BCleanup \/ BRevert \/ BUndo
    BY <1>1, <2>4, BPrepareCopy, BInjectCopy, BFinishCopy, BTidyCopy
  <2>5. QED
    BY <1>2, <2>1, <2>2, <2>3, <2>4 DEF BindingReconcile
<1>3. CASE TokenReconcile
  BY <1>1, <1>3, TokenReconcileAside, AsideCopy
<1>4. CASE \/ TokenTimer \/ BindingTimer \/ Service \/ UploadGet \/ CreateToken \/ DeleteToken
           \/ RequestRefresh \/ TokenAges \/ BindingAges \/ UNCHANGED vars
  BY <1>1, <1>4, OthersAside, AsideCopy
<1>5. CASE CreateBinding \/ DeleteBinding
  BY <1>1, <1>5, CreateBindingCopy, DeleteBindingCopy
<1>6. CASE DeleteSecret
  BY <1>6 DEF DeleteSecret, workers, CopyInv, ServerOK, CopyOK, Obligated
<1>7. CASE Restart \/ RefreshPanics
  BY <1>7, StartOverCopy DEF Restart, RefreshPanics
<1>8. QED
  BY <1>2, <1>3, <1>4, <1>5, <1>6, <1>7 DEF Next, Controllers, Users, Environment

\* The operator starts with bare names and an idle worker.
LEMMA InitCopy == Init => CopyInv
<1> SUFFICES ASSUME Init PROVE CopyInv
  OBVIOUS
<1>1. BindingOK([NewBinding(PlainSpec) EXCEPT !.fin = "old"]) /\ BindingOK(AbsentBinding("none"))
  BY DEF NewBinding, AbsentBinding, BindingOK, RefOK
<1>2. QED
  BY <1>1 DEF Init, CopyInv, ServerOK, BIdle, IdleBindingWorker

\* The inductive invariant of the bindings, for all that follows.
BindingInv == FinInv /\ CopyInv

LEMMA BindingInvHolds == Spec => []BindingInv
<1>1. Init => BindingInv
  <2>1. Init => FinInv
    BY InitTyped, InitOwned DEF FinInv
  <2>2. QED
    BY <2>1, InitCopy DEF BindingInv
<1>2. BindingInv /\ [Next]_vars => BindingInv'
  BY NextTyped, NextOwned, NextCopy DEF BindingInv, FinInv
<1>3. QED
  BY <1>1, <1>2, PTL DEF Spec

\* A binding that awaits token data refers to no secret, for any number of
\* objects and after any failure: every path that puts a binding into that phase
\* (Entered, Awaiting) resets or never had the reference, and the status writes
\* of stale copies are refused.
THEOREM AwaitingNeverRefers == Spec => []AwaitingHasNoRef
<1>1. BindingInv => AwaitingHasNoRef
  BY DEF BindingInv, CopyInv, ServerOK, BindingOK, RefOK, AwaitingHasNoRef
<1>2. QED
  BY <1>1, BindingInvHolds, PTL

-----------------------------------------------------------------------------
(* Secrets are filled by Sync only, and Sync runs for linked bindings only.    *)

\* A step that fills no secret.
FillsNone == \A b \in Bindings, s \in Secrets : sec'[b][s] \in {sec[b][s], NoData}

LEMMA OnlyInjectFills ==
  ASSUME Typed, [Next]_vars, ~BInject
  PROVE  FillsNone
<1>1. Quiet => FillsNone
  BY DEF Quiet, FillsNone
<1>2. sec' = sec => FillsNone
  BY DEF FillsNone
<1>3. CASE BindingReconcile
  <2>1. CASE \/ BBadUrl \/ BSaveUrl \/ BNoProvider \/ BMigrateAreas \/ BBadLifetime \/ BDelete
             \/ BInvalid \/ BLookup \/ BEnsure \/ BLookupFails \/ BLinkMatch \/ BLoadLinked
             \/ BCreateToken \/ BLabel \/ BLinkStatus \/ BUndo \/ BMismatch \/ BPrepare
             \/ BFinish \/ BCleanup \/ BRevert \/ BFail
    BY <1>1, <2>1, BErrorsQuiet, BSavesQuiet, BDeleteQuiet, BLookupQuiet, BEnsureQuiet,
       BLinkMatchQuiet, BLoadLinkedQuiet, BCreateTokenQuiet, BLabelQuiet, BLinkStatusQuiet,
       BUndoQuiet, BPrepareQuiet, BFinishQuiet, BTidyQuiet
  <2>2. CASE BGet \/ BMigrateFinalizers \/ BAddFinalizer \/ BUnfinalize
    BY <1>2, <2>2 DEF BGet, BMigrateFinalizers, BAddFinalizer, BUnfinalize, BPut, BCallFails, objects
  <2>3. CASE BFinalize
    <3>1. bKey \in Bindings
      BY <2>3, BCopyTyped DEF BFinalize, Migrated, ProviderKnown, ProperValues
    <3>2. QED
      BY <2>3, <3>1, CleanedUpShrinks DEF BFinalize, FillsNone
  <2>4. QED
    BY <1>3, <2>1, <2>2, <2>3 DEF BindingReconcile
<1>4. CASE TokenReconcile
  BY <1>2, <1>4, TokenReconcileAside DEF Aside
<1>5. CASE \/ TokenTimer \/ BindingTimer \/ Service \/ UploadGet \/ CreateToken \/ DeleteToken
           \/ RequestRefresh \/ TokenAges \/ BindingAges \/ UNCHANGED vars
  BY <1>2, <1>5, OthersAside DEF Aside
<1>6. CASE CreateBinding \/ Restart \/ RefreshPanics
  BY <1>2, <1>6 DEF CreateBinding, Restart, RefreshPanics, StartOver, objects
<1>7. CASE DeleteBinding \/ DeleteSecret
  BY <1>1, <1>7, DeleteBindingQuiet, DeleteSecretQuiet
<1>8. QED
  BY <1>3, <1>4, <1>5, <1>6, <1>7 DEF Next, Controllers, Users, Environment

\* Both links of the binding are on the server, and name the same token.
Tied(o) == o.linked # NoTok /\ o.label = o.linked

\* Sync runs for a binding that is held and tied, and writes one of its secrets.
LEMMA InjectTied ==
  ASSUME BindingInv, BInject
  PROVE  /\ bKey \in Bindings /\ Held(bKey) /\ Tied(bnd[bKey]) /\ bnd' = bnd
         /\ sec' = sec \/ \E s \in Secrets : sec' = [sec EXCEPT ![bKey][s] = bw.data]
<1>1. bw.pc = "inject" /\ Typed /\ CopyInv /\ bnd' = bnd
  BY DEF BInject, BindingInv, FinInv, BLocal, objects
<1>2. bKey \in Bindings /\ CopyOK(bw, bnd[bKey]) /\ binding \in BindingType
  BY <1>1, CopyRead
<1>3. Held(bKey)
  BY <1>1 DEF BindingInv, FinInv, SecretsOwned, FinalizerHeld, Obligated, bKey
<1>4. bw.token # NoTok
  BY <1>1, ConstantsAssumption DEF Typed, BindingWorkerOK
<1>5. Tied(bnd[bKey])
  BY <1>1, <1>2, <1>4 DEF CopyOK, Obligated, Tied
<1>6. SecretNames \subseteq Secrets
  BY <1>2, ConstantsAssumption DEF SecretNames, BindingType, OptSec
<1>7. sec' = sec \/ \E s \in Secrets : sec' = [sec EXCEPT ![bKey][s] = bw.data]
  BY <1>6 DEF BInject, BLocal, objects
<1>8. QED
  BY <1>1, <1>2, <1>3, <1>5, <1>7

\* A secret is only filled when the server has both the link label and the link
\* in the status: Linked is tested on the copy that the two writes of
\* persistWithMatchingLabels have returned, and nobody else writes the links of
\* a binding whose finalizer is held.
THEOREM NothingFilledUnlinked == Spec => LinkedBeforeInjected
<1>1. BindingInv /\ [Next]_vars =>
        [\A b \in Bindings, s \in Secrets :
           sec'[b][s] \notin {sec[b][s], NoData} =>
             bnd[b].linked # NoTok /\ bnd[b].label = bnd[b].linked]_vars
  <2> SUFFICES ASSUME BindingInv, [Next]_vars, NEW b \in Bindings, NEW s \in Secrets,
                      sec'[b][s] \notin {sec[b][s], NoData}
               PROVE  Tied(bnd[b])
    BY DEF Tied
  <2>1. BInject
    BY OnlyInjectFills DEF FillsNone, BindingInv, FinInv
  <2>2. b = bKey
    BY <2>1, InjectTied DEF BindingInv, FinInv, Typed, TypeOK
  <2>3. QED
    BY <2>1, <2>2, InjectTied
<1>2. QED
  BY <1>1, BindingInvHolds, PTL DEF Spec, LinkedBeforeInjected

-----------------------------------------------------------------------------
(* The operator implements the life cycle it promises: every step of a         *)
(* controller, a user or the environment is one step of one binding's life     *)
(* cycle, or none.                                                             *)

HoldsSecret(f) == \E s \in Secrets : f[s] # NoData

\* A step of the life cycle, or a stuttering step of it.
LifecycleStep == [Lifecycle!Next]_(Lifecycle!lifecycle)

\* A step that changes nothing the owner of a binding can see.
Unseen ==
  \A b \in Bindings : /\ bnd'[b].st = bnd[b].st
                      /\ (bnd'[b].fin # "none") <=> (bnd[b].fin # "none")
                      /\ Tied(bnd'[b]) <=> Tied(bnd[b])
                      /\ HoldsSecret(sec'[b]) <=> HoldsSecret(sec[b])

LEMMA UnseenStutters == ASSUME Unseen PROVE LifecycleStep
<1>1. UNCHANGED Lifecycle!lifecycle
  BY DEF Unseen, Tied, HoldsSecret, Lifecycle!lifecycle
<1>2. QED
  BY <1>1 DEF LifecycleStep

LEMMA NothingWritten == ASSUME bnd' = bnd, sec' = sec PROVE LifecycleStep
  BY UnseenStutters DEF Unseen

\* A write that keeps the state and the finalizer of an existing binding can only
\* tie it to a token, or untie it.
LEMMA WriteTies ==
  ASSUME Typed, NEW b \in Bindings, NEW new, Present(bnd[b]), bnd' = [bnd EXCEPT ![b] = new], sec' = sec,
         new.st = bnd[b].st, (new.fin # "none") <=> (bnd[b].fin # "none")
  PROVE  LifecycleStep
<1>1. CASE Tied(new) <=> Tied(bnd[b])
  <2>1. Unseen
    BY <1>1 DEF Unseen, Typed, TypeOK
  <2>2. QED
    BY <2>1, UnseenStutters
<1>2. CASE ~(Tied(new) <=> Tied(bnd[b]))
  <2>1. Lifecycle!Tie(b)
    BY <1>2 DEF Lifecycle!Tie, Lifecycle!Present, Present, Tied, Typed, TypeOK
  <2>2. QED
    BY <2>1 DEF LifecycleStep, Lifecycle!Next
<1>3. QED
  BY <1>1, <1>2

\* Deleting secrets of one binding empties it, or leaves it filled.
LEMMA ShrinkEmpties ==
  ASSUME Typed, NEW b \in Bindings, bnd' = bnd, \A c \in Bindings \ {b} : sec'[c] = sec[c],
         \A s \in Secrets : sec'[b][s] \in {sec[b][s], NoData}
  PROVE  LifecycleStep
<1>1. CASE HoldsSecret(sec'[b]) <=> HoldsSecret(sec[b])
  <2>1. Unseen
    BY <1>1 DEF Unseen
  <2>2. QED
    BY <2>1, UnseenStutters
<1>2. CASE ~(HoldsSecret(sec'[b]) <=> HoldsSecret(sec[b]))
  <2>1. ~HoldsSecret(sec'[b])
    BY <1>2 DEF HoldsSecret
  <2>2. Lifecycle!Empty(b)
    BY <2>1 DEF Lifecycle!Empty, HoldsSecret
  <2>3. QED
    BY <2>2 DEF LifecycleStep, Lifecycle!Next
<1>3. QED
  BY <1>1, <1>2

LEMMA CleanedUpEmpties ==
  ASSUME Typed, NEW b \in Bindings, NEW names, CleanedUp(b, names)
  PROVE  LifecycleStep
<1>1. bnd' = bnd /\ \A s \in Secrets : sec'[b][s] \in {sec[b][s], NoData}
  BY CleanedUpShrinks
<1>2. \A c \in Bindings \ {b} : sec'[c] = sec[c]
  BY DEF CleanedUp, Typed, TypeOK
<1>3. QED
  BY <1>1, <1>2, ShrinkEmpties

\* Adding the finalizer guards a live binding.
LEMMA FinalizerGuards ==
  ASSUME Typed, NEW b \in Bindings, NEW new, bnd[b].st = "live", bnd' = [bnd EXCEPT ![b] = new], sec' = sec,
         new.st = "live", new.fin # "none", Tied(new) <=> Tied(bnd[b])
  PROVE  LifecycleStep
<1>1. CASE bnd[b].fin # "none"
  <2>1. Present(bnd[b]) /\ new.st = bnd[b].st /\ ((new.fin # "none") <=> (bnd[b].fin # "none"))
    BY <1>1 DEF Present
  <2>2. QED
    BY <2>1, WriteTies
<1>2. CASE bnd[b].fin = "none"
  <2>1. Lifecycle!Guard(b)
    BY <1>2 DEF Lifecycle!Guard, Tied, Typed, TypeOK
  <2>2. QED
    BY <2>1 DEF LifecycleStep, Lifecycle!Next
<1>3. QED
  BY <1>1, <1>2

\* A binding without secrets goes.
LEMMA EmptyGoes ==
  ASSUME Typed, NEW b \in Bindings, bnd[b].st = "deleting" \/ (bnd[b].st = "live" /\ bnd[b].fin = "none"),
         ~HoldsSecret(sec[b]), bnd' = [bnd EXCEPT ![b] = AbsentBinding("gone")], sec' = sec
  PROVE  LifecycleStep
<1>1. AbsentBinding("gone").st = "gone" /\ AbsentBinding("gone").fin = "none" /\ ~Tied(AbsentBinding("gone"))
  BY DEF AbsentBinding, NewBinding, Tied
<1>2. Lifecycle!Go(b)
  BY <1>1 DEF Lifecycle!Go, HoldsSecret, Tied, Typed, TypeOK
<1>3. QED
  BY <1>2 DEF LifecycleStep, Lifecycle!Next

\* Writing a secret fills a binding that is held and tied.
LEMMA WriteFills ==
  ASSUME Typed, NEW b \in Bindings, Held(b), Tied(bnd[b]), bnd' = bnd,
         \A c \in Bindings \ {b} : sec'[c] = sec[c]
  PROVE  LifecycleStep
<1>1. CASE HoldsSecret(sec'[b])
  <2>1. Lifecycle!Fill(b)
    BY <1>1 DEF Lifecycle!Fill, Lifecycle!Present, Held, Present, Tied, HoldsSecret
  <2>2. QED
    BY <2>1 DEF LifecycleStep, Lifecycle!Next
<1>2. CASE ~HoldsSecret(sec'[b])
  BY <1>2, ShrinkEmpties DEF HoldsSecret
<1>3. QED
  BY <1>1, <1>2

\* Delete marks a binding that has a finalizer, and removes one that has none and
\* therefore no secrets.
LEMMA DeleteStep ==
  ASSUME BindingInv, NEW b \in Bindings, Present(bnd[b]),
         bnd[b].st = "live" \/ bnd[b].fin # "none",
         bnd' = [bnd EXCEPT ![b] = DeletedBinding(bnd[b])], sec' = sec
  PROVE  LifecycleStep
<1>1. bnd[b] \in BindingType /\ Typed
  BY DEF BindingInv, FinInv, Typed, TypeOK
<1>2. CASE bnd[b].fin = "none"
  <2>1. ~HoldsSecret(sec[b])
    BY <1>2 DEF BindingInv, FinInv, SecretsOwned, NoOrphanSecret, HoldsSecret
  <2>2. DeletedBinding(bnd[b]) = AbsentBinding("gone")
    BY <1>1, <1>2 DEF DeletedBinding, SettleBinding, Settle, BindingType
  <2>3. QED
    BY <1>1, <1>2, <2>1, <2>2, EmptyGoes DEF Present
<1>3. CASE bnd[b].fin # "none"
  <2>1. DeletedBinding(bnd[b]) = [bnd[b] EXCEPT !.st = "deleting"]
    BY <1>1, <1>3 DEF DeletedBinding, SettleBinding, Settle, BindingType
  <2>2. CASE bnd[b].st = "deleting"
    <3>1. bnd' = bnd
      BY <1>1, <2>1, <2>2 DEF BindingType, Typed, TypeOK
    <3>2. QED
      BY <3>1, NothingWritten
  <2>3. CASE bnd[b].st = "live"
    <3>1. /\ DeletedBinding(bnd[b]).st = "deleting" /\ DeletedBinding(bnd[b]).fin # "none"
          /\ Tied(DeletedBinding(bnd[b])) <=> Tied(bnd[b])
      BY <1>1, <1>3, <2>1 DEF BindingType, Tied
    <3>2. Lifecycle!Delete(b)
      BY <1>1, <1>3, <2>3, <3>1 DEF Lifecycle!Delete, Tied, Typed, TypeOK
    <3>3. QED
      BY <3>2 DEF LifecycleStep, Lifecycle!Next
  <2>4. QED
    BY <2>2, <2>3 DEF Present
<1>4. QED
  BY <1>2, <1>3

\* A failing call ends Reconcile and writes nothing.
LEMMA BCallFailsStep == ASSUME NEW stale, BCallFails(stale) PROVE LifecycleStep
<1>1. bnd' = bnd /\ sec' = sec
  BY DEF BCallFails, objects
<1>2. QED
  BY <1>1, NothingWritten

LEMMA BLocalStep == ASSUME BLocal PROVE LifecycleStep
<1>1. bnd' = bnd /\ sec' = sec
  BY DEF BLocal, objects
<1>2. QED
  BY <1>1, NothingWritten

\* A write of the status.
LEMMA StatusStep ==
  ASSUME Typed, CopyInv, bw.pc # "idle", ~bw.stale, NEW o, RefOK(o),
         bnd' = [bnd EXCEPT ![bKey] = BWithStatus(o)], sec' = sec
  PROVE  LifecycleStep
<1>1. bKey \in Bindings /\ Present(bnd[bKey])
  BY CopyRead
<1>2. BWithStatus(o).st = bnd[bKey].st /\ BWithStatus(o).fin = bnd[bKey].fin
  BY BWithStatusOK
<1>3. QED
  BY <1>1, <1>2, WriteTies

LEMMA BStatusErrorStep ==
  ASSUME Typed, CopyInv, bw.pc # "idle", NEW o, RefOK(o), NEW next, BStatusError(o, next)
  PROVE  LifecycleStep
<1>1. CASE ~bw.stale /\ bnd' = [bnd EXCEPT ![bKey] = BWithStatus(o)]
  BY <1>1, StatusStep DEF BStatusError
<1>2. CASE bnd' = bnd
  BY <1>2, NothingWritten DEF BStatusError
<1>3. QED
  BY <1>1, <1>2 DEF BStatusError

LEMMA BErrorsStep ==
  ASSUME Typed, CopyInv, BBadUrl \/ BBadLifetime \/ BInvalid \/ BLookupFails \/ BMismatch \/ BFail \/ BNoProvider
  PROVE  LifecycleStep
<1>1. bw.pc # "idle"
  BY DEF BBadUrl, BBadLifetime, BInvalid, BLookupFails, BMismatch, BFail, BNoProvider, Current, Finalized,
     Migrated, ProviderKnown, ProperValues, Linked
<1>2. binding \in BindingType /\ RefOK(binding)
  BY <1>1, CopyRead
<1>3. \A r \in BindingReasons : RefOK(Erroneous(binding, r)) /\ RefOK([binding EXCEPT !.reason = r])
  BY <1>2, RefKept
<1>4. CASE BBadUrl \/ BBadLifetime \/ BInvalid \/ BLookupFails \/ BMismatch \/ BFail
  BY <1>1, <1>2, <1>3, <1>4, BStatusErrorStep
     DEF BBadUrl, BBadLifetime, BInvalid, BLookupFails, BMismatch, BFail, BindingReasons
<1>5. CASE BNoProvider
  <2>1. RefOK(Erroneous(binding, "UnknownServiceProviderType"))
    BY <1>3 DEF BindingReasons
  <2>2. QED
    BY <1>1, <1>5, <2>1, BStatusErrorStep, BLocalStep DEF BNoProvider
<1>6. QED
  BY <1>4, <1>5

\* Writes of the copy that keep state and finalizer.
LEMMA BWritesStep ==
  ASSUME BindingInv, BSaveUrl \/ BMigrateAreas \/ BMigrateFinalizers \/ BLabel
  PROVE  LifecycleStep
<1>1. bw.pc # "idle" /\ Typed /\ CopyInv
  BY DEF BSaveUrl, BMigrateAreas, BMigrateFinalizers, BLabel, ProviderKnown, ProperValues, BindingInv, FinInv
<1>2. bKey \in Bindings /\ bnd[bKey] \in BindingType /\ (~bw.stale => Present(bnd[bKey]))
  BY <1>1, CopyRead
<1>3. CASE \E stale : BCallFails(stale)
  BY <1>3, BCallFailsStep
<1>4. CASE BLocal
  BY <1>4, BLocalStep
<1>5. ASSUME NEW new, BPut(new), new.st = bnd[bKey].st, (new.fin # "none") <=> (bnd[bKey].fin # "none")
      PROVE  LifecycleStep
  BY <1>1, <1>2, <1>5, WriteTies DEF BPut, PutBinding
<1>6. CASE ~(\E stale : BCallFails(stale)) /\ BSaveUrl
  BY <1>2, <1>5, <1>6 DEF BSaveUrl, BindingType
<1>7. CASE ~(\E stale : BCallFails(stale)) /\ BMigrateAreas
  BY <1>2, <1>5, <1>7 DEF BMigrateAreas, BindingType
<1>8. CASE ~(\E stale : BCallFails(stale)) /\ BMigrateFinalizers
  <2>1. Obligated(bw)
    BY <1>8 DEF BMigrateFinalizers, ProperValues, Unmigrated, Obligated, binding
  <2>2. bnd[bKey].fin # "none"
    BY <2>1 DEF BindingInv, FinInv, SecretsOwned, FinalizerHeld, Held, bKey
  <2>3. QED
    BY <1>2, <1>5, <1>8, <2>2 DEF BMigrateFinalizers, BindingType
<1>9. CASE ~BLocal /\ BLabel
  BY <1>2, <1>5, <1>9 DEF BLabel, BindingType
<1>10. QED
  BY <1>3, <1>4, <1>6, <1>7, <1>8, <1>9

LEMMA BAddFinalizerStep == ASSUME BindingInv, BAddFinalizer PROVE LifecycleStep
<1>1. bw.pc = "loaded" /\ binding.st = "live" /\ Typed /\ CopyInv
  BY DEF BAddFinalizer, Migrated, ProviderKnown, ProperValues, BindingInv, FinInv
<1>2. CASE BCallFails(bw.stale)
  BY <1>2, BCallFailsStep
<1>3. CASE ~BCallFails(bw.stale)
  <2> DEFINE new == [bnd[bKey] EXCEPT !.fin = "new"]
  <2>1. bKey \in Bindings /\ bnd[bKey] \in BindingType /\ CopyOK(bw, bnd[bKey])
    BY <1>1, CopyRead
  <2>2. ~bw.stale /\ bnd' = [bnd EXCEPT ![bKey] = new] /\ sec' = sec
    BY <1>3 DEF BAddFinalizer, BPut, PutBinding
  <2>3. bnd[bKey].st = "live"
    BY <1>1, <2>1, <2>2 DEF CopyOK, binding
  <2>4. new.st = "live" /\ new.fin = "new" /\ (Tied(new) <=> Tied(bnd[bKey]))
    BY <2>1, <2>3 DEF BindingType, Tied
  <2> HIDE DEF new
  <2>5. QED
    BY <1>1, <2>1, <2>2, <2>3, <2>4, FinalizerGuards
<1>4. QED
  BY <1>2, <1>3

\* Removing the finalizer removes the binding: the copy is current, so that the
\* server's binding is being deleted too, and all its secrets are gone.
LEMMA BUnfinalizeStep == ASSUME BindingInv, BUnfinalize PROVE LifecycleStep
<1>1. bw.pc = "unfinalize" /\ Typed /\ CopyInv
  BY DEF BUnfinalize, BindingInv, FinInv
<1>2. CASE BCallFails(bw.stale)
  BY <1>2, BCallFailsStep
<1>3. CASE ~BCallFails(bw.stale)
  <2> DEFINE new == SettleBinding([bnd[bKey] EXCEPT !.fin = "none"])
  <2>1. bKey \in Bindings /\ bnd[bKey] \in BindingType /\ CopyOK(bw, bnd[bKey])
    BY <1>1, CopyRead
  <2>2. ~bw.stale /\ bnd' = [bnd EXCEPT ![bKey] = new] /\ sec' = sec
    BY <1>3 DEF BUnfinalize, BPut, PutBinding
  <2>3. bnd[bKey].st = "deleting"
    BY <1>1, <2>1, <2>2 DEF CopyOK
  <2>4. new = AbsentBinding("gone")
    BY <2>1, <2>3 DEF SettleBinding, Settle, BindingType
  <2>5. ~HoldsSecret(sec[bKey])
    BY <1>1 DEF BindingInv, FinInv, SecretsOwned, CleanedFirst, HoldsSecret, bKey
  <2>6. QED
    BY <1>1, <2>1, <2>2, <2>3, <2>4, <2>5, EmptyGoes
<1>4. QED
  BY <1>2, <1>3

LEMMA BDeleteStep == ASSUME BindingInv, BDelete PROVE LifecycleStep
<1>1. CASE BCallFails(~Present(bnd[bKey]))
  BY <1>1, BCallFailsStep
<1>2. CASE ~BCallFails(~Present(bnd[bKey]))
  <2>1. Obligated(bw)
    BY DEF BDelete, Finalized, Migrated, ProviderKnown, ProperValues, Obligated, binding
  <2>2. bnd[bKey].fin # "none" /\ bKey \in Bindings
    BY <2>1, BCopyTyped DEF BindingInv, FinInv, SecretsOwned, FinalizerHeld, Held, bKey, Obligated
  <2>3. Present(bnd[bKey]) /\ bnd' = [bnd EXCEPT ![bKey] = DeletedBinding(bnd[bKey])] /\ sec' = sec
    BY <1>2 DEF BDelete, PutBinding
  <2>4. QED
    BY <2>2, <2>3, DeleteStep
<1>3. QED
  BY <1>1, <1>2

LEMMA BLinkStatusStep == ASSUME BindingInv, BLinkStatus PROVE LifecycleStep
<1> DEFINE o == [binding EXCEPT !.linked = bw.token, !.reason = ""]
<1>1. bw.pc = "link" /\ Typed /\ CopyInv
  BY DEF BLinkStatus, BindingInv, FinInv
<1>2. RefOK(o)
  BY <1>1, CopyRead, RefKept
<1>3. CASE BLocal
  BY <1>3, BLocalStep
<1>4. CASE BPut(BWithStatus(o))
  <2> HIDE DEF o
  <2>1. QED
    BY <1>1, <1>2, <1>4, StatusStep DEF BPut, PutBinding
<1>5. QED
  BY <1>3, <1>4 DEF BLinkStatus

LEMMA BFinishStep == ASSUME BindingInv, BFinish PROVE LifecycleStep
<1> DEFINE o == [binding EXCEPT !.reason = ""]
<1>1. bw.pc = "finish" /\ Typed /\ CopyInv
  BY DEF BFinish, BindingInv, FinInv
<1>2. RefOK(o)
  BY <1>1, CopyRead, RefKept DEF BindingReasons
<1>3. CASE BLocal
  BY <1>3, BLocalStep
<1>4. CASE BPut(BWithStatus(o))
  <2> HIDE DEF o
  <2>1. QED
    BY <1>1, <1>2, <1>4, StatusStep DEF BPut, PutBinding
<1>5. QED
  BY <1>3, <1>4 DEF BFinish

\* Sync fills a binding that is held and tied; writing the data it already has, or
\* more of it, is no step of the life cycle.
LEMMA BInjectStep == ASSUME BindingInv, BInject PROVE LifecycleStep
<1>1. bKey \in Bindings /\ Held(bKey) /\ Tied(bnd[bKey]) /\ bnd' = bnd /\ Typed
  BY InjectTied DEF BindingInv, FinInv
<1>2. CASE sec' = sec
  BY <1>1, <1>2, NothingWritten
<1>3. CASE \E s \in Secrets : sec' = [sec EXCEPT ![bKey][s] = bw.data]
  <2>1. PICK s \in Secrets : sec' = [sec EXCEPT ![bKey][s] = bw.data]
    BY <1>3
  <2>2. \A c \in Bindings \ {bKey} : sec'[c] = sec[c]
    BY <1>1, <2>1 DEF Typed, TypeOK
  <2>3. QED
    BY <1>1, <2>2, WriteFills
<1>4. QED
  BY <1>2, <1>3, InjectTied

LEMMA BTidyStep == ASSUME Typed, BFinalize \/ BCleanup \/ BRevert PROVE LifecycleStep
<1>1. bKey \in Bindings
  BY BCopyTyped DEF BFinalize, BCleanup, BRevert, Migrated, ProviderKnown, ProperValues
<1>2. CASE \E names : CleanedUp(bKey, names)
  BY <1>1, <1>2, CleanedUpEmpties
<1>3. CASE UNCHANGED objects
  BY <1>3, NothingWritten DEF objects
<1>4. QED
  BY <1>2, <1>3 DEF BFinalize, BCleanup, BRevert

LEMMA CreateBindingStep == ASSUME BindingInv, CreateBinding PROVE LifecycleStep
<1>1. PICK b \in Bindings, spec \in BindingSpecs :
         bnd[b].st = "none" /\ bnd' = [bnd EXCEPT ![b] = NewBinding(spec)] /\ sec' = sec
  BY DEF CreateBinding, PutBinding
<1>2. bnd[b].fin = "none" /\ ~Tied(bnd[b])
  BY <1>1 DEF BindingInv, CopyInv, ServerOK, BindingOK, Tied
<1>3. NewBinding(spec).st = "live" /\ NewBinding(spec).fin = "none" /\ ~Tied(NewBinding(spec))
  BY DEF NewBinding, Tied
<1>4. Lifecycle!Create(b)
  BY <1>1, <1>2, <1>3 DEF Lifecycle!Create, Tied, BindingInv, FinInv, Typed, TypeOK
<1>5. QED
  BY <1>4 DEF LifecycleStep, Lifecycle!Next

LEMMA UsersStep == ASSUME BindingInv, DeleteBinding \/ DeleteSecret PROVE LifecycleStep
<1>1. CASE DeleteBinding
  <2>1. PICK b \in Bindings : /\ bnd[b].st = "live" /\ sec' = sec
                              /\ bnd' = [bnd EXCEPT ![b] = DeletedBinding(bnd[b])]
    BY <1>1 DEF DeleteBinding, PutBinding
  <2>2. QED
    BY <2>1, DeleteStep DEF Present
<1>2. CASE DeleteSecret
  <2>1. PICK b \in Bindings, s \in Secrets : sec' = [sec EXCEPT ![b][s] = NoData] /\ bnd' = bnd
    BY <1>2 DEF DeleteSecret
  <2>2. /\ \A c \in Bindings \ {b} : sec'[c] = sec[c]
        /\ \A r \in Secrets : sec'[b][r] \in {sec[b][r], NoData}
    BY <2>1 DEF BindingInv, FinInv, Typed, TypeOK
  <2>3. QED
    BY <2>1, <2>2, ShrinkEmpties DEF BindingInv, FinInv
<1>3. QED
  BY <1>1, <1>2

\* Every step of the operator is a step of the life cycle, or none.
LEMMA NextStep == ASSUME BindingInv, [Next]_vars PROVE LifecycleStep
<1>1. Typed /\ CopyInv
  BY DEF BindingInv, FinInv
<1>2. CASE BindingReconcile
  <2>1. CASE BBadUrl \/ BBadLifetime \/ BInvalid \/ BLookupFails \/ BMismatch \/ BFail \/ BNoProvider
    BY <1>1, <2>1, BErrorsStep
  <2>2. CASE BGet \/ BLookup \/ BEnsure \/ BLinkMatch \/ BUndo \/ BPrepare
    <3>1. bnd' = bnd /\ sec' = sec
      BY <2>2 DEF BGet, BLookup, BEnsure, BLinkMatch, BUndo, BPrepare, BLocal, objects
    <3>2. QED
      BY <3>1, NothingWritten
  <2>3. CASE BLoadLinked \/ BCreateToken
    <3>1. bnd' = bnd /\ sec' = sec
      BY <2>3 DEF BLoadLinked, BCreateToken, BCallFails, BLocal, objects
    <3>2. QED
      BY <3>1, NothingWritten
  <2>4. CASE \/ BSaveUrl \/ BMigrateAreas \/ BMigrateFinalizers \/ BLabel \/ BAddFinalizer \/ BUnfinalize
             \/ BDelete \/ BLinkStatus \/ BFinish \/ BInject
    BY <2>4, BWritesStep, BAddFinalizerStep, BUnfinalizeStep, BDeleteStep, BLinkStatusStep, BFinishStep, BInjectStep
  <2>5. CASE BFinalize \/ BCleanup \/ BRevert
    BY <1>1, <2>5, BTidyStep
  <2>6. QED
    BY <1>2, <2>1, <2>2, <2>3, <2>4, <2>5 DEF BindingReconcile
<1>3. CASE TokenReconcile
  BY <1>1, <1>3, TokenReconcileAside, NothingWritten DEF Aside
<1>4. CASE \/ TokenTimer \/ BindingTimer \/ Service \/ UploadGet \/ CreateToken \/ DeleteToken
           \/ RequestRefresh \/ TokenAges \/ BindingAges \/ UNCHANGED vars
  BY <1>1, <1>4, OthersAside, NothingWritten DEF Aside
<1>5. CASE CreateBinding \/ DeleteBinding \/ DeleteSecret
  BY <1>5, CreateBindingStep, UsersStep
<1>6. CASE Restart \/ RefreshPanics
  BY <1>6, NothingWritten DEF Restart, RefreshPanics, StartOver, objects
<1>7. QED
  BY <1>2, <1>3, <1>4, <1>5, <1>6 DEF Next, Controllers, Users, Environment

LEMMA InitLifecycle == Init => Lifecycle!Init
<1> SUFFICES ASSUME Init PROVE Lifecycle!Init
  OBVIOUS
<1> DEFINE legacy == [NewBinding(PlainSpec) EXCEPT !.fin = "old"]
<1>1. /\ legacy.st = "live" /\ legacy.fin = "old" /\ legacy.linked = NoTok
      /\ AbsentBinding("none").st = "none" /\ AbsentBinding("none").fin = "none"
      /\ AbsentBinding("none").linked = NoTok
  BY DEF NewBinding, AbsentBinding
<1> HIDE DEF legacy
<1>2. \A b \in Bindings : bnd[b] \in {legacy, AbsentBinding("none")} /\ \A s \in Secrets : sec[b][s] = NoData
  BY DEF Init, legacy
<1>3. QED
  BY <1>1, <1>2 DEF Lifecycle!Init

\* The operator implements the life cycle it promises to the owner of a binding,
\* for any number of bindings, tokens and secrets, whatever fails, restarts or is
\* deleted in between.
THEOREM PromiseKept == Spec => BindingKeepsPromise
<1>1. Init => Lifecycle!Init
  BY InitLifecycle
<1>2. BindingInv /\ [Next]_vars => [Lifecycle!Next]_(Lifecycle!lifecycle)
  BY NextStep DEF LifecycleStep
<1>3. QED
  BY <1>1, <1>2, BindingInvHolds, PTL DEF Spec, BindingKeepsPromise, Lifecycle!Spec

-----------------------------------------------------------------------------
(* A fault in the spec of a binding is reported. A live binding with such a     *)
(* fault is queued, being reconciled, says so, or is one of those whose report  *)
(* could not be written.                                                        *)

Faulty(spec) == spec.url = "bad" \/ ~spec.provider \/ ~spec.valid

\* Only Delete changes a binding behind the worker's back, so the copy of a live
\* one has the server's spec. Reconcile gets past the checks of a faulty spec only
\* to report that the provider could not be reached.
Sighted ==
  bw.pc # "idle" =>
    /\ bnd[bw.key].st # "none"
    /\ bnd[bw.key].st = "live" =>
         /\ ~bw.stale /\ bw.obj.spec = bnd[bw.key].spec
         /\ Faulty(bw.obj.spec) =>
              bw.pc = "loaded" \/ (bw.pc = "fail" /\ bw.then = "done" /\ bw.obj.phase = "Error")

\* A binding is being reconciled.
Working(b) == bw.pc # "idle" /\ bw.key = b

\* A faulty binding has no secret, and says so or will, unless that was tried in vain.
Answered(b) ==
  bnd[b].st = "live" /\ Faulty(bnd[b].spec) =>
    /\ \A s \in Secrets : sec[b][s] = NoData
    /\ b \in bq \cup bw.lost \/ Working(b) \/ bnd[b].phase = "Error"

FaultInv == Sighted /\ \A b \in Bindings : Answered(b)

\* A step that takes no key from the queue and forgets no lost report.
Onward == bq \subseteq bq' /\ bw.lost \subseteq bw'.lost

\* The token controller wakes bindings, and never takes one from the queue.
LEMMA TokenReconcileOnward == Typed /\ TokenReconcile => Onward
<1> SUFFICES ASSUME Typed, TokenReconcile PROVE bq \subseteq bq'
  BY TokenReconcileAside DEF Onward, Aside, SameWorker
<1>1. ASSUME NEW stale, TCallFails(stale) PROVE bq \subseteq bq'
  BY <1>1 DEF TCallFails
<1>2. ASSUME NEW t, NEW new, PutToken(t, new) PROVE bq \subseteq bq'
  BY <1>2 DEF PutToken, SendToken
<1>3. CASE TGet \/ TFinalize \/ TEnsure
  BY <1>1, <1>3 DEF TGet, TFinalize, TEnsure, TLocal, queues
<1>4. CASE TUnfinalize \/ TAddFinalizers \/ TLabel
  BY <1>1, <1>2, <1>4 DEF TUnfinalize, TAddFinalizers, TLabel, TPut
<1>5. CASE TDelete \/ TPersist \/ TFlip
  BY <1>1, <1>2, <1>5 DEF TDelete, TPersist, TFlip, TLocal, queues, SendToken
<1>6. CASE TSaveStatus \/ TUnlabel
  BY <1>1, <1>2, <1>6 DEF TSaveStatus, TUnlabel, TPut
<1>7. CASE TCheckObsolete \/ TCheckData \/ TRefresh
  BY <1>1, <1>7 DEF TCheckObsolete, TCheckData, TRefresh, TLocal, queues
<1>8. CASE TStoreRefreshed
  BY <1>1, <1>8 DEF TStoreRefreshed, queues
<1>9. QED
  BY <1>3, <1>4, <1>5, <1>6, <1>7, <1>8 DEF TokenReconcile

\* Neither do uploads, timers, users and time.
LEMMA OthersOnward ==
  ASSUME Typed,
         \/ TokenTimer \/ BindingTimer \/ Service \/ UploadGet \/ CreateToken \/ DeleteToken
         \/ RequestRefresh \/ TokenAges \/ BindingAges \/ UNCHANGED vars
         \/ CreateBinding \/ DeleteBinding \/ DeleteSecret
  PROVE  Onward
<1>1. bq \subseteq bq'
  <2>1. CASE TokenTimer \/ BindingTimer \/ UNCHANGED vars
    BY <2>1 DEF TokenTimer, BindingTimer, vars, queues
  <2>2. CASE Service \/ UploadGet
    BY <2>2 DEF Service, UploadStore, UploadNotify, ProcessDataUpdate, UploadGet, queues
  <2>3. CASE CreateToken \/ DeleteToken \/ RequestRefresh
    BY <2>3 DEF CreateToken, DeleteToken, RequestRefresh, PutTokenByUser, PutToken, SendToken
  <2>4. CASE TokenAges \/ BindingAges
    BY <2>4 DEF TokenAges, BindingAges, queues
  <2>5. CASE CreateBinding \/ DeleteBinding \/ DeleteSecret
    BY <2>5 DEF CreateBinding, DeleteBinding, DeleteSecret, PutBinding
  <2>6. QED
    BY <2>1, <2>2, <2>3, <2>4, <2>5
<1>2. bw'.lost = bw.lost
  <2>1. CASE CreateBinding \/ DeleteSecret
    BY <2>1 DEF CreateBinding, DeleteSecret, workers
  <2>2. CASE DeleteBinding
    BY <2>2 DEF DeleteBinding, OutdateBinding, Typed, TypeOK, BindingWorkerType
  <2>3. QED
    BY <2>1, <2>2, OthersAside DEF Aside, SameWorker
<1>3. QED
  BY <1>1, <1>2 DEF Onward

\* Nor does the binding controller, but for the key it starts to work on.
LEMMA BindingReconcileQueue == Typed /\ BindingReconcile /\ ~BGet => bq \subseteq bq'
<1> SUFFICES ASSUME Typed, BindingReconcile, ~BGet PROVE bq \subseteq bq'
  OBVIOUS
<1>2. ASSUME NEW stale, BCallFails(stale) PROVE bq \subseteq bq'
  BY <1>2 DEF BCallFails, BReturnErr
<1>3. ASSUME NEW new, BPut(new) PROVE bq \subseteq bq'
  BY <1>3 DEF BPut, PutBinding
<1>4. ASSUME NEW o, NEW next, BStatusError(o, next) PROVE bq \subseteq bq'
  BY <1>4 DEF BStatusError
<1>5. ASSUME BLocal PROVE bq \subseteq bq'
  BY <1>5 DEF BLocal, queues
<1>6. CASE BBadUrl \/ BBadLifetime \/ BInvalid \/ BLookupFails \/ BMismatch \/ BFail \/ BNoProvider
  BY <1>4, <1>5, <1>6 DEF BBadUrl, BBadLifetime, BInvalid, BLookupFails, BMismatch, BFail, BNoProvider
<1>7. CASE BSaveUrl \/ BMigrateAreas \/ BUnfinalize \/ BMigrateFinalizers \/ BAddFinalizer
  BY <1>2, <1>3, <1>7 DEF BSaveUrl, BMigrateAreas, BUnfinalize, BMigrateFinalizers, BAddFinalizer
<1>8. CASE BDelete \/ BFinalize
  BY <1>2, <1>8 DEF BDelete, BFinalize, BReturnErr, PutBinding
<1>9. CASE BLookup \/ BLinkMatch \/ BLoadLinked \/ BPrepare
  BY <1>2, <1>5, <1>9 DEF BLookup, BLinkMatch, BLoadLinked, BPrepare
<1>10. CASE BEnsure \/ BCreateToken
  BY <1>5, <1>10 DEF BEnsure, BCreateToken, PutToken, SendToken
<1>11. CASE BLabel \/ BLinkStatus \/ BFinish
  BY <1>3, <1>5, <1>11 DEF BLabel, BLinkStatus, BFinish
<1>12. CASE BUndo \/ BInject
  BY <1>5, <1>12 DEF BUndo, BInject
<1>13. CASE BCleanup \/ BRevert
  BY <1>13 DEF BCleanup, BRevert, BReturnErr
<1>14. QED
  BY <1>6, <1>7, <1>8, <1>9, <1>10, <1>11, <1>12, <1>13 DEF BindingReconcile

\* A lost report is forgotten only when its binding is reconciled anew.
LEMMA BindingReconcileLost == Typed /\ BindingReconcile /\ ~BGet => bw.lost \subseteq bw'.lost
<1> SUFFICES ASSUME Typed, BindingReconcile, ~BGet PROVE bw.lost \subseteq bw'.lost
  OBVIOUS
<1> USE DEF Typed, TypeOK, BindingWorkerType
<1>1. BReturn => bw'.lost = bw.lost
  BY DEF BReturn, BIdle, IdleBindingWorker
<1>2. \A stale : BCallFails(stale) => bw'.lost = bw.lost
  BY <1>1 DEF BCallFails, BReturnErr
<1>3. \A o, next : BFailWith(o, next) => bw'.lost = bw.lost
  BY DEF BFailWith
<1>4. ASSUME NEW o, NEW next, BStatusError(o, next) PROVE bw.lost \subseteq bw'.lost
  <2>1. \/ bw' = BIdle(bw.lost) \/ bw' = BIdle(bw.lost \cup {bKey})
        \/ bw' = [bw EXCEPT !.pc = next, !.obj = o]
    BY <1>4 DEF BStatusError
  <2>2. \A lost : BIdle(lost).lost = lost
    BY DEF BIdle, IdleBindingWorker
  <2>3. [bw EXCEPT !.pc = next, !.obj = o].lost = bw.lost
    OBVIOUS
  <2>4. CASE bw' = BIdle(bw.lost) \/ bw' = BIdle(bw.lost \cup {bKey})
    BY <2>2, <2>4
  <2>5. QED
    BY <2>1, <2>3, <2>4
<1>5. ASSUME NEW t, NEW ready, NEW matching, NEW created, bw' = Link(t, ready, matching, created)
      PROVE  bw'.lost = bw.lost
  BY <1>5 DEF Link
<1>6. CASE BBadUrl \/ BBadLifetime \/ BInvalid \/ BLookupFails \/ BMismatch \/ BFail \/ BNoProvider
  BY <1>3, <1>4, <1>6 DEF BBadUrl, BBadLifetime, BInvalid, BLookupFails, BMismatch, BFail, BNoProvider
<1>7. CASE BSaveUrl \/ BMigrateAreas \/ BUnfinalize \/ BDelete
  BY <1>1, <1>2, <1>7 DEF BSaveUrl, BMigrateAreas, BUnfinalize, BDelete
<1>8. CASE BMigrateFinalizers \/ BAddFinalizer \/ BLabel \/ BLinkStatus
  BY <1>2, <1>3, <1>8 DEF BMigrateFinalizers, BAddFinalizer, BLabel, BLinkStatus
<1>9. CASE BFinalize \/ BUndo \/ BFinish
  BY <1>1, <1>9 DEF BFinalize, BReturnErr, BUndo, BFinish
<1>10. CASE BLookup \/ BPrepare \/ BInject
  BY <1>3, <1>10 DEF BLookup, BPrepare, BInject
<1>11. CASE BLinkMatch \/ BLoadLinked \/ BCreateToken
  <2>1. CASE (\E stale : BCallFails(stale)) \/ (\E o, next : BFailWith(o, next))
    BY <1>2, <1>3, <2>1
  <2>2. CASE ~(\E stale : BCallFails(stale)) /\ ~(\E o, next : BFailWith(o, next))
    <3>1. CASE BLinkMatch
      BY <1>5, <3>1 DEF BLinkMatch
    <3>2. CASE BLoadLinked
      <4>1. bw' = Link(binding.linked, tok[binding.linked].phase = "Ready", FALSE, FALSE)
        BY <2>2, <3>2 DEF BLoadLinked
      <4>2. QED
        BY <1>5, <4>1
    <3>3. CASE BCreateToken
      <4>1. PICK t : bw' = Link(t, FALSE, TRUE, TRUE)
        BY <2>2, <3>3 DEF BCreateToken
      <4>2. QED
        BY <1>5, <4>1
    <3>4. QED
      BY <1>11, <3>1, <3>2, <3>3
  <2>3. QED
    BY <2>1, <2>2
<1>12. CASE BEnsure
  BY <1>12 DEF BEnsure
<1>13. CASE BCleanup \/ BRevert
  BY <1>1, <1>3, <1>13 DEF BCleanup, BRevert, BReturnErr
<1>14. QED
  BY <1>6, <1>7, <1>8, <1>9, <1>10, <1>11, <1>12, <1>13 DEF BindingReconcile

LEMMA BindingReconcileOnward == Typed /\ BindingReconcile /\ ~BGet => Onward
  BY BindingReconcileQueue, BindingReconcileLost DEF Onward

\* What the server and the worker may make of the binding that is reconciled.
KeyKept ==
  /\ bw'.pc # "idle" => bw'.key = bKey /\ bnd'[bKey].st # "none"
  /\ bnd'[bKey].st = "live" =>
       /\ bnd[bKey].st = "live"
       /\ bw'.pc # "idle" => ~bw'.stale /\ bw'.obj.spec = bnd'[bKey].spec
       /\ Faulty(bnd'[bKey].spec) =>
            /\ Faulty(bnd[bKey].spec)
            /\ \A s \in Secrets : sec'[bKey][s] \in {sec[bKey][s], NoData}
            /\ bw'.pc # "idle" =>
                 bw'.pc = "loaded" \/ (bw'.pc = "fail" /\ bw'.then = "done" /\ bw'.obj.phase = "Error")
            /\ bw'.pc = "idle" => bKey \in bq' \cup bw'.lost \/ bnd'[bKey].phase = "Error"

\* The other bindings and their secrets are left alone.
OthersKept ==
  \A b \in Bindings \ {bKey} : bnd'[b] = bnd[b] /\ \A s \in Secrets : sec'[b][s] = sec[b][s]

LEMMA OwnKept ==
  ASSUME Typed, FaultInv, Onward, bw.pc # "idle", OthersKept, KeyKept
  PROVE  FaultInv'
<1>1. bKey \in Bindings
  BY BCopyTyped
<1>2. Sighted'
  BY DEF Sighted, KeyKept
<1>3. ASSUME NEW b \in Bindings PROVE Answered(b)'
  <2>1. CASE b # bKey
    <3>1. Answered(b) /\ bnd'[b] = bnd[b] /\ \A s \in Secrets : sec'[b][s] = sec[b][s]
      BY <2>1 DEF FaultInv, OthersKept
    <3>2. ~Working(b)
      BY <2>1 DEF bKey, Working
    <3>3. QED
      BY <3>1, <3>2 DEF Answered, Onward
  <2>2. CASE b = bKey
    <3>1. Answered(bKey)
      BY <1>1 DEF FaultInv
    <3>2. QED
      BY <2>2, <3>1 DEF Answered, KeyKept, Working
  <2>3. QED
    BY <2>1, <2>2
<1>4. QED
  BY <1>2, <1>3 DEF FaultInv

\* What a busy worker knows of a binding that is live.
LEMMA Sight ==
  ASSUME Typed, FaultInv, bw.pc # "idle"
  PROVE  /\ bKey \in Bindings /\ binding \in BindingType /\ bnd[bKey] \in BindingType
         /\ bnd[bKey].st # "none"
         /\ bnd[bKey].st = "live" => /\ ~bw.stale /\ binding.spec = bnd[bKey].spec
                                     /\ Faulty(binding.spec) => bw.pc \in {"loaded", "fail"}
         /\ bw.pc = "fail" /\ bnd[bKey].st = "live" /\ Faulty(binding.spec) =>
              bw.then = "done" /\ binding.phase = "Error"
  BY BCopyTyped DEF FaultInv, Sighted, bKey, binding

\* Past the checks of the spec, the binding that is reconciled is not faulty as
\* long as it is live.
LEMMA PastKept ==
  ASSUME Typed, FaultInv, Onward, OthersKept,
         bw.pc \in {"lookup", "link", "inject", "finish", "cleanup", "undo", "revert"},
         bnd'[bKey].st = bnd[bKey].st, bnd'[bKey].spec = bnd[bKey].spec,
         bw'.pc # "idle" => /\ bw'.key = bw.key /\ bw'.stale = bw.stale
                            /\ bnd[bKey].st = "live" => bw'.obj.spec = bw.obj.spec
  PROVE  FaultInv'
<1>1. KeyKept
  BY Sight DEF KeyKept, bKey, binding
<1>2. QED
  BY <1>1, OwnKept

\* One object is written, or none, and no secret.
LEMMA OnlyKey ==
  ASSUME Typed, bw.pc # "idle", sec' = sec, NEW new, bnd' = bnd \/ bnd' = [bnd EXCEPT ![bKey] = new]
  PROVE  OthersKept
  BY BCopyTyped DEF OthersKept, Typed, TypeOK

\* A call that fails or a retry: the key is queued again.
LEMMA RequeueKept ==
  ASSUME Typed, FaultInv, Onward, bw.pc # "idle", OthersKept, bw'.pc = "idle", bKey \in bq',
         bnd'[bKey].st = bnd[bKey].st, bnd'[bKey].spec = bnd[bKey].spec,
         \A s \in Secrets : sec'[bKey][s] \in {sec[bKey][s], NoData}
  PROVE  FaultInv'
<1>1. KeyKept
  BY DEF KeyKept
<1>2. QED
  BY <1>1, OwnKept

LEMMA BCallFailsKept ==
  ASSUME Typed, FaultInv, Onward, bw.pc # "idle", NEW stale, BCallFails(stale)
  PROVE  FaultInv'
<1>1. bw'.pc = "idle" /\ bKey \in bq' /\ bnd' = bnd /\ sec' = sec
  BY DEF BCallFails, BReturnErr, BReturn, BIdle, IdleBindingWorker, objects
<1>2. QED
  BY <1>1, OnlyKey, RequeueKept

\* The server's spec is not changed by a write of the status.
LEMMA StatusSpec ==
  ASSUME Typed, bw.pc # "idle", NEW o
  PROVE  /\ BWithStatus(o).st = bnd[bKey].st /\ BWithStatus(o).spec = bnd[bKey].spec
         /\ BWithStatus(o).phase = o.phase
  BY BCopyTyped DEF BWithStatus, BindingType

\* An error that ends Reconcile, or one that was met after the spec was checked.
LEMMA BStatusErrorKept ==
  ASSUME Typed, FaultInv, Onward, bw.pc # "idle", NEW o, o.spec = binding.spec,
         NEW next \in {"done", "requeue", "undo", "revert"}, BStatusError(o, next),
         bnd[bKey].st = "live" /\ Faulty(binding.spec) =>
           next = "requeue" \/ (next = "done" /\ o.phase = "Error")
  PROVE  FaultInv'
<1>1. bKey \in Bindings /\ sec' = sec
  BY BCopyTyped DEF BStatusError
<1>2. OthersKept
  BY <1>1, OnlyKey DEF BStatusError
<1>3. bnd' = bnd \/ bnd' = [bnd EXCEPT ![bKey] = BWithStatus(o)]
  BY DEF BStatusError
<1>4. bnd'[bKey].st = bnd[bKey].st /\ bnd'[bKey].spec = bnd[bKey].spec
  BY <1>1, <1>3, StatusSpec DEF Typed, TypeOK
<1>5. CASE next = "requeue"
  <2>1. bw'.pc = "idle" /\ bKey \in bq'
    BY <1>5 DEF BStatusError, BIdle, IdleBindingWorker
  <2>2. QED
    BY <1>1, <1>2, <1>4, <2>1, RequeueKept
<1>6. CASE next = "done"
  <2>1. bw'.pc = "idle"
    BY <1>6 DEF BStatusError, BIdle, IdleBindingWorker
  <2>2. ASSUME bnd[bKey].st = "live", Faulty(bnd[bKey].spec)
        PROVE  bKey \in bw'.lost \/ bnd'[bKey].phase = "Error"
    <3>1. o.phase = "Error"
      BY <1>6, <2>2, Sight
    <3>2. CASE bnd' = [bnd EXCEPT ![bKey] = BWithStatus(o)]
      BY <1>1, <3>1, <3>2, StatusSpec DEF Typed, TypeOK
    <3>3. CASE bw' = BIdle(bw.lost \cup {bKey})
      BY <3>3 DEF BIdle, IdleBindingWorker
    <3>4. QED
      BY <1>6, <3>2, <3>3 DEF BStatusError
  <2>3. KeyKept
    BY <1>1, <1>4, <2>1, <2>2 DEF KeyKept
  <2>4. QED
    BY <1>2, <2>3, OwnKept
<1>7. CASE next \in {"undo", "revert"}
  <2>1. bw'.pc = next /\ bw'.key = bw.key /\ bw'.stale = bw.stale /\ bw'.obj = o
    BY <1>7 DEF BStatusError, Typed, TypeOK, BindingWorkerType
  <2>2. KeyKept
    BY <1>1, <1>4, <1>7, <2>1, Sight DEF KeyKept, bKey
  <2>3. QED
    BY <1>2, <2>2, OwnKept
<1>8. QED
  BY <1>5, <1>6, <1>7

\* The copy keeps its spec with every status.
LEMMA SpecCopied ==
  ASSUME NEW o \in BindingType
  PROVE  /\ \A r : /\ Erroneous(o, r).spec = o.spec /\ Erroneous(o, r).phase = "Error"
                   /\ [o EXCEPT !.reason = r].spec = o.spec
                   /\ [Entered(o) EXCEPT !.reason = r].spec = o.spec
         /\ Entered(o).spec = o.spec /\ Awaiting(o).spec = o.spec
         /\ \A t : [o EXCEPT !.linked = t, !.reason = ""].spec = o.spec
         /\ \A t, r : [[o EXCEPT !.linked = t, !.reason = ""] EXCEPT !.reason = r].spec = o.spec
         /\ \A s : [o EXCEPT !.phase = "Injected", !.synced = s].spec = o.spec
<1>1. \A r : Erroneous(o, r).spec = o.spec /\ Erroneous(o, r).phase = "Error"
  BY DEF Erroneous, BindingType
<1>2. \A r : [o EXCEPT !.reason = r].spec = o.spec
  BY DEF BindingType
<1>3. Entered(o).spec = o.spec /\ Awaiting(o).spec = o.spec
  BY DEF Entered, Awaiting, BindingType
<1>4. \A r : [Entered(o) EXCEPT !.reason = r].spec = o.spec
  BY DEF Entered, BindingType
<1>5. \A t, r : /\ [o EXCEPT !.linked = t, !.reason = ""].spec = o.spec
                /\ [[o EXCEPT !.linked = t, !.reason = ""] EXCEPT !.reason = r].spec = o.spec
  BY DEF BindingType
<1>6. \A s : [o EXCEPT !.phase = "Injected", !.synced = s].spec = o.spec
  BY DEF BindingType
<1>7. QED
  BY <1>1, <1>2, <1>3, <1>4, <1>5, <1>6

\* The steps that end with an error in the status.
LEMMA BErrorsKept ==
  ASSUME Typed, FaultInv, Onward, BBadUrl \/ BBadLifetime \/ BInvalid \/ BLookupFails \/ BMismatch \/ BFail
  PROVE  FaultInv'
<1>1. bw.pc # "idle" /\ bw.then \in {"done", "requeue", "undo", "revert"}
  BY DEF BBadUrl, BBadLifetime, BInvalid, BLookupFails, BMismatch, BFail, Current, Finalized,
     Migrated, ProviderKnown, ProperValues, Linked, Typed, TypeOK, BindingWorkerType
<1>2. binding \in BindingType
  BY <1>1, BCopyTyped
<1>3. \A r : /\ Erroneous(binding, r).spec = binding.spec /\ Erroneous(binding, r).phase = "Error"
             /\ [binding EXCEPT !.reason = r].spec = binding.spec
  BY <1>2, SpecCopied
<1>4. CASE BBadUrl \/ BBadLifetime \/ BInvalid \/ BMismatch
  BY <1>1, <1>3, <1>4, BStatusErrorKept DEF BBadUrl, BBadLifetime, BInvalid, BMismatch
<1>5. CASE BLookupFails
  BY <1>1, <1>3, <1>5, BStatusErrorKept DEF BLookupFails
<1>6. CASE BFail
  <2>1. bw.pc = "fail" /\ BStatusError(binding, bw.then)
    BY <1>6 DEF BFail
  <2>2. bnd[bKey].st = "live" /\ Faulty(binding.spec) => bw.then = "done" /\ binding.phase = "Error"
    BY <2>1, Sight
  <2>3. QED
    BY <1>1, <2>1, <2>2, BStatusErrorKept
<1>7. QED
  BY <1>4, <1>5, <1>6

\* Remembering an error: of a faulty spec, only that the provider was not reached.
LEMMA BFailWithKept ==
  ASSUME Typed, FaultInv, Onward, bw.pc # "idle", NEW o, o.spec = binding.spec, NEW next, BFailWith(o, next),
         bnd' = bnd, sec' = sec,
         bw.pc = "loaded" /\ Faulty(binding.spec) => next = "done" /\ o.phase = "Error",
         bw.pc # "fail"
  PROVE  FaultInv'
<1>1. bw'.pc = "fail" /\ bw'.key = bw.key /\ bw'.stale = bw.stale /\ bw'.obj = o /\ bw'.then = next
  BY DEF BFailWith, Typed, TypeOK, BindingWorkerType
<1>2. KeyKept
  BY <1>1, Sight DEF KeyKept, bKey
<1>3. QED
  BY <1>2, OnlyKey, OwnKept

LEMMA BNoProviderKept == ASSUME Typed, FaultInv, Onward, BNoProvider PROVE FaultInv'
<1> DEFINE o == Erroneous(binding, "UnknownServiceProviderType")
<1>1. bw.pc = "loaded"
  BY DEF BNoProvider, ProperValues
<1>2. o.spec = binding.spec /\ o.phase = "Error"
  BY <1>1, BCopyTyped, SpecCopied
<1> HIDE DEF o
<1>3. CASE BStatusError(o, "done")
  BY <1>1, <1>2, <1>3, BStatusErrorKept
<1>4. CASE Fault /\ BFailWith(o, "done") /\ BLocal
  BY <1>1, <1>2, <1>4, BFailWithKept DEF BLocal, objects
<1>5. QED
  BY <1>3, <1>4 DEF BNoProvider, o

\* Writes that end Reconcile are events of the binding, or it is no longer live.
LEMMA BLastWritesKept ==
  ASSUME Typed, CopyInv, FaultInv, Onward, BSaveUrl \/ BMigrateAreas \/ BUnfinalize \/ BDelete
  PROVE  FaultInv'
<1>1. bw.pc # "idle"
  BY DEF BSaveUrl, BMigrateAreas, BUnfinalize, BDelete, Finalized, Migrated, ProviderKnown, ProperValues
<1>2. /\ bKey \in Bindings /\ bnd[bKey] \in BindingType /\ binding \in BindingType
      /\ bnd[bKey].st = "live" => binding.spec = bnd[bKey].spec
  BY <1>1, Sight
<1>3. CASE \E stale : BCallFails(stale)
  BY <1>1, <1>3, BCallFailsKept
<1>4. ASSUME NEW new, sec' = sec, BReturn, PutBinding(bKey, new),
             new.st = "live" => /\ bnd[bKey].st = "live" /\ new # bnd[bKey]
                                /\ Faulty(new.spec) => Faulty(bnd[bKey].spec)
      PROVE  FaultInv'
  <2>1. bnd' = [bnd EXCEPT ![bKey] = new] /\ bnd'[bKey] = new /\ bw'.pc = "idle"
    BY <1>2, <1>4 DEF PutBinding, BReturn, BIdle, IdleBindingWorker, Typed, TypeOK
  <2>2. new # bnd[bKey] => bKey \in bq'
    BY <1>4 DEF PutBinding
  <2>3. KeyKept
    BY <1>4, <2>1, <2>2 DEF KeyKept
  <2>4. OthersKept
    BY <1>1, <1>4, <2>1, OnlyKey
  <2>5. QED
    BY <1>1, <2>3, <2>4, OwnKept
<1>5. DeletedBinding(bnd[bKey]).st # "live"
  BY <1>2 DEF DeletedBinding, SettleBinding, Settle, AbsentBinding, NewBinding, BindingType
<1>6. CASE ~(\E stale : BCallFails(stale)) /\ BDelete
  BY <1>4, <1>5, <1>6 DEF BDelete
<1>7. CASE ~(\E stale : BCallFails(stale)) /\ BUnfinalize
  <2> DEFINE new == SettleBinding([bnd[bKey] EXCEPT !.fin = "none"])
  <2>1. BPut(new) /\ BReturn /\ bw.pc = "unfinalize"
    BY <1>7 DEF BUnfinalize
  <2>2. ~bw.stale /\ bnd[bKey].st = "deleting"
    BY <1>1, <2>1, CopyRead DEF CopyOK, BPut, bKey, binding
  <2>3. new.st # "live"
    BY <1>2, <2>2 DEF SettleBinding, Settle, AbsentBinding, NewBinding, BindingType
  <2>4. QED
    BY <1>4, <2>1, <2>3 DEF BPut
<1>8. CASE ~(\E stale : BCallFails(stale)) /\ BSaveUrl
  <2> DEFINE new == [bnd[bKey] EXCEPT !.spec.url = "ok"]
  <2>1. BPut(new) /\ BReturn /\ binding.spec.url = "noScheme"
    BY <1>8 DEF BSaveUrl
  <2>2. new.st = bnd[bKey].st /\ new.spec = [bnd[bKey].spec EXCEPT !.url = "ok"]
    BY <1>2 DEF BindingType
  <2>3. new.spec.url = "ok" /\ new.spec.provider = bnd[bKey].spec.provider /\ new.spec.valid = bnd[bKey].spec.valid
    BY <1>2, <2>2 DEF BindingType, BindingSpecType
  <2>4. bnd[bKey].st = "live" => new # bnd[bKey]
    BY <1>2, <2>1, <2>3
  <2>5. Faulty(new.spec) => Faulty(bnd[bKey].spec)
    BY <2>3 DEF Faulty
  <2>6. QED
    BY <1>4, <2>1, <2>2, <2>4, <2>5 DEF BPut
<1>9. CASE ~(\E stale : BCallFails(stale)) /\ BMigrateAreas
  <2> DEFINE new == [bnd[bKey] EXCEPT !.spec.areas = "current"]
  <2>1. BPut(new) /\ BReturn /\ binding.spec.areas = "deprecated"
    BY <1>9 DEF BMigrateAreas
  <2>2. new.st = bnd[bKey].st /\ new.spec = [bnd[bKey].spec EXCEPT !.areas = "current"]
    BY <1>2 DEF BindingType
  <2>3. /\ new.spec.areas = "current" /\ new.spec.url = bnd[bKey].spec.url
        /\ new.spec.provider = bnd[bKey].spec.provider /\ new.spec.valid = bnd[bKey].spec.valid
    BY <1>2, <2>2 DEF BindingType, BindingSpecType
  <2>4. bnd[bKey].st = "live" => new # bnd[bKey]
    BY <1>2, <2>1, <2>3
  <2>5. Faulty(new.spec) => Faulty(bnd[bKey].spec)
    BY <2>3 DEF Faulty
  <2>6. QED
    BY <1>4, <2>1, <2>2, <2>4, <2>5 DEF BPut
<1>10. QED
  BY <1>3, <1>6, <1>7, <1>8, <1>9

\* Adding or renaming the finalizer: Reconcile goes on with the server's object.
LEMMA BFinalizersKept ==
  ASSUME Typed, FaultInv, Onward, BMigrateFinalizers \/ BAddFinalizer
  PROVE  FaultInv'
<1>1. bw.pc = "loaded"
  BY DEF BMigrateFinalizers, BAddFinalizer, Migrated, ProviderKnown, ProperValues
<1>2. CASE BCallFails(bw.stale)
  BY <1>1, <1>2, BCallFailsKept
<1>3. CASE ~BCallFails(bw.stale)
  <2> DEFINE new == [bnd[bKey] EXCEPT !.fin = "new"]
  <2>1. bKey \in Bindings /\ bnd[bKey] \in BindingType /\ bnd[bKey].st # "none"
    BY <1>1, Sight
  <2>2. ~bw.stale /\ bnd' = [bnd EXCEPT ![bKey] = new] /\ sec' = sec /\ bw' = [bw EXCEPT !.obj = bnd'[bKey]]
    BY <1>3 DEF BMigrateFinalizers, BAddFinalizer, BPut, PutBinding
  <2>3. bnd'[bKey] = new /\ new.st = bnd[bKey].st /\ new.spec = bnd[bKey].spec
    BY <2>1, <2>2 DEF Typed, TypeOK, BindingType
  <2>4. bw'.pc = "loaded" /\ bw'.key = bKey /\ bw'.obj = bnd'[bKey] /\ bw'.stale = bw.stale
    BY <1>1, <2>2 DEF Typed, TypeOK, BindingWorkerType, bKey
  <2>5. KeyKept
    BY <2>1, <2>2, <2>3, <2>4 DEF KeyKept
  <2>6. OthersKept
    BY <1>1, <2>2, OnlyKey
  <2>7. QED
    BY <1>1, <2>5, <2>6, OwnKept
<1>4. QED
  BY <1>2, <1>3

\* Loading: the key leaves the queue for the worker, whose copy is the server's.
LEMMA BGetKept == ASSUME Typed, FaultInv, BGet PROVE FaultInv'
<1>1. PICK b \in bq : /\ bq' = bq \ {b}
                      /\ bw' = IF Present(bnd[b])
                               THEN [BIdle(bw.lost \ {b}) EXCEPT !.pc = "loaded", !.key = b, !.obj = bnd[b]]
                               ELSE bw
  BY DEF BGet
<1>2. bw.pc = "idle" /\ UNCHANGED <<bnd, sec, faults>>
  BY DEF BGet, objects
<1>3. CASE ~Present(bnd[b])
  BY <1>1, <1>2, <1>3 DEF FaultInv, Sighted, Answered, Working, Present
<1>4. CASE Present(bnd[b])
  <2>1. bw'.pc = "loaded" /\ bw'.key = b /\ bw'.obj = bnd[b] /\ bw'.stale = FALSE /\ bw'.lost = bw.lost \ {b}
    BY <1>1, <1>4 DEF BIdle, IdleBindingWorker
  <2>2. Sighted'
    BY <1>2, <1>4, <2>1 DEF Sighted, Present
  <2>3. \A c \in Bindings : Answered(c)'
    BY <1>1, <1>2, <2>1 DEF FaultInv, Answered, Working
  <2>4. QED
    BY <2>2, <2>3 DEF FaultInv
<1>5. QED
  BY <1>3, <1>4

\* Cleaning up touches the secrets of one binding.
LEMMA CleanedUpKept ==
  ASSUME Typed, bw.pc # "idle", NEW names \in SUBSET Secrets, CleanedUp(bKey, names)
  PROVE  OthersKept /\ bnd' = bnd /\ \A s \in Secrets : sec'[bKey][s] \in {sec[bKey][s], NoData}
<1>1. bKey \in Bindings
  BY BCopyTyped
<1>2. QED
  BY <1>1 DEF CleanedUp, OthersKept, Typed, TypeOK

\* Finalize: the copy is one of a binding being deleted.
LEMMA BFinalizeKept == ASSUME Typed, CopyInv, FaultInv, Onward, BFinalize PROVE FaultInv'
<1>1. bw.pc = "loaded" /\ binding.st = "deleting"
  BY DEF BFinalize, Migrated, ProviderKnown, ProperValues
<1>2. bnd[bKey].st \notin {"live", "none"}
  <2>1. ~bw.stale => bnd[bKey].st = "deleting"
    BY <1>1, CopyRead DEF CopyOK, binding, bKey
  <2>2. QED
    BY <1>1, <2>1, Sight
<1>3. PICK names \in SUBSET Secrets : CleanedUp(bKey, names)
  BY DEF BFinalize
<1>4. OthersKept /\ bnd' = bnd
  BY <1>1, <1>3, CleanedUpKept
<1>5. bw'.pc # "idle" => bw'.key = bw.key
  <2>1. bw' = BIdle(bw.lost) \/ bw' = [bw EXCEPT !.pc = "unfinalize", !.obj.fin = "none"]
    BY DEF BFinalize, BReturnErr, BReturn
  <2>2. BIdle(bw.lost).pc = "idle"
    BY DEF BIdle, IdleBindingWorker
  <2>3. [bw EXCEPT !.pc = "unfinalize", !.obj.fin = "none"].key = bw.key
    BY DEF Typed, TypeOK, BindingWorkerType
  <2>4. QED
    BY <2>1, <2>2, <2>3
<1>6. KeyKept
  BY <1>2, <1>4, <1>5 DEF KeyKept, bKey
<1>7. QED
  BY <1>1, <1>4, <1>6, OwnKept

\* Lookup starts for a spec that has passed the checks.
LEMMA BLookupKept == ASSUME Typed, FaultInv, Onward, BLookup PROVE FaultInv'
<1>1. bw.pc = "loaded" /\ bnd' = bnd /\ sec' = sec /\ ~Faulty(binding.spec)
  BY DEF BLookup, Current, Finalized, Migrated, ProviderKnown, ProperValues, BLocal, objects, Faulty
<1>2. Entered(binding).spec = binding.spec /\ \A r : [Entered(binding) EXCEPT !.reason = r].spec = binding.spec
  BY <1>1, BCopyTyped, SpecCopied
<1>3. CASE BFailWith([Entered(binding) EXCEPT !.reason = "TokenLookup"], "requeue")
  BY <1>1, <1>2, <1>3, BFailWithKept
<1>4. CASE ~BFailWith([Entered(binding) EXCEPT !.reason = "TokenLookup"], "requeue")
  <2>1. bw'.pc = "lookup" /\ bw'.key = bw.key /\ bw'.stale = bw.stale /\ bw'.obj = Entered(binding)
    BY <1>4 DEF BLookup, Typed, TypeOK, BindingWorkerType, binding
  <2>2. KeyKept
    BY <1>1, <1>2, <2>1, Sight DEF KeyKept, bKey
  <2>3. QED
    BY <1>1, <2>2, OnlyKey, OwnKept
<1>5. QED
  BY <1>3, <1>4

\* The steps past the checks that leave the bindings and the secrets alone.
LEMMA BUnwrittenKept ==
  ASSUME Typed, FaultInv, Onward, BEnsure \/ BLinkMatch \/ BLoadLinked \/ BCreateToken \/ BUndo \/ BPrepare
  PROVE  FaultInv'
<1>1. bw.pc \in {"lookup", "link", "undo"}
  BY DEF BEnsure, BLinkMatch, BLoadLinked, BCreateToken, BUndo, BPrepare, LookedUp, Linked
<1>2. bnd' = bnd /\ sec' = sec
  BY DEF BEnsure, BLinkMatch, BLoadLinked, BCreateToken, BUndo, BPrepare, BLocal, BCallFails, objects
<1>3. binding \in BindingType
  BY <1>1, BCopyTyped
<1>4. bw'.pc # "idle" => bw'.key = bw.key /\ bw'.stale = bw.stale /\ bw'.obj.spec = binding.spec
  <2>1. CASE BEnsure \/ BUndo
    <3>1. CASE BEnsure
      BY <3>1, BEnsureWorker DEF binding
    <3>2. CASE BUndo
      BY <3>2 DEF BUndo, BReturn, BIdle, IdleBindingWorker
    <3>3. QED
      BY <2>1, <3>1, <3>2
  <2>2. ASSUME NEW t, NEW ready, NEW matching, NEW created, bw' = Link(t, ready, matching, created)
        PROVE  bw'.key = bw.key /\ bw'.stale = bw.stale /\ bw'.obj.spec = binding.spec
    BY <2>2 DEF Link, Typed, TypeOK, BindingWorkerType, binding
  <2>3. ASSUME NEW o, NEW next, o.spec = binding.spec, BFailWith(o, next)
        PROVE  bw'.key = bw.key /\ bw'.stale = bw.stale /\ bw'.obj.spec = binding.spec
    BY <2>3 DEF BFailWith, Typed, TypeOK, BindingWorkerType
  <2>4. ASSUME NEW stale, BCallFails(stale) PROVE bw'.pc = "idle"
    BY <2>4 DEF BCallFails, BReturnErr, BReturn, BIdle, IdleBindingWorker
  <2>5. CASE BLinkMatch
    BY <2>2, <2>5 DEF BLinkMatch
  <2>6. CASE BLoadLinked
    <3>1. CASE \E stale : BCallFails(stale)
      BY <2>4, <3>1
    <3>2. CASE ~(\E stale : BCallFails(stale))
      <4>1. bw' = Link(binding.linked, tok[binding.linked].phase = "Ready", FALSE, FALSE)
        BY <2>6, <3>2 DEF BLoadLinked
      <4>2. QED
        BY <2>2, <4>1
    <3>3. QED
      BY <3>1, <3>2
  <2>7. CASE BCreateToken
    <3> DEFINE failed == [binding EXCEPT !.reason = "LinkedToken"]
    <3>1. CASE BFailWith(failed, "requeue")
      BY <1>3, <2>3, <3>1, SpecCopied
    <3>2. CASE ~BFailWith(failed, "requeue")
      <4>1. PICK t : bw' = Link(t, FALSE, TRUE, TRUE)
        BY <2>7, <3>2 DEF BCreateToken
      <4>2. QED
        BY <2>2, <4>1
    <3>3. QED
      BY <3>1, <3>2
  <2>8. CASE BPrepare
    <3>1. /\ bw'.key = bw.key /\ bw'.stale = bw.stale
          /\ \/ bw'.obj = bw.obj \/ bw'.obj = Awaiting(binding)
             \/ \E r \in BindingReasons : bw'.obj = Erroneous(binding, r)
      BY <2>8 DEF BPrepare, BFailWith, Typed, TypeOK, BindingWorkerType, binding, BindingReasons
    <3>2. QED
      BY <1>3, <3>1, SpecCopied DEF binding
  <2>9. QED
    BY <2>1, <2>5, <2>6, <2>7, <2>8
<1>5. QED
  BY <1>1, <1>2, <1>4, OnlyKey, PastKept DEF binding

\* The link label, the link in the status and the outcome.
LEMMA BWritesKept ==
  ASSUME Typed, FaultInv, Onward, BLabel \/ BLinkStatus \/ BFinish
  PROVE  FaultInv'
<1>1. bw.pc \in {"link", "finish"}
  BY DEF BLabel, BLinkStatus, BFinish
<1>2. /\ bKey \in Bindings /\ binding \in BindingType /\ bnd[bKey] \in BindingType
      /\ bnd[bKey].st = "live" => binding.spec = bnd[bKey].spec
  BY <1>1, Sight
<1>3. ASSUME NEW new, new.st = bnd[bKey].st, new.spec = bnd[bKey].spec, BPut(new),
             bw'.pc # "idle" => /\ bw'.key = bw.key /\ bw'.stale = bw.stale
                                /\ bw'.obj = new \/ bw'.obj.spec = binding.spec
      PROVE  FaultInv'
  <2>1. bnd' = [bnd EXCEPT ![bKey] = new] /\ sec' = sec /\ bnd'[bKey] = new
    BY <1>2, <1>3 DEF BPut, PutBinding, Typed, TypeOK
  <2>2. OthersKept
    BY <1>1, <2>1, OnlyKey
  <2>3. bw'.pc # "idle" /\ bnd[bKey].st = "live" => bw'.obj.spec = bw.obj.spec
    BY <1>2, <1>3 DEF binding
  <2>4. QED
    BY <1>1, <1>3, <2>1, <2>2, <2>3, PastKept
<1>4. ASSUME NEW o, NEW next, o.spec = binding.spec, BFailWith(o, next), BLocal PROVE FaultInv'
  BY <1>1, <1>4, BFailWithKept DEF BLocal, objects
<1>5. CASE BLabel
  <2> DEFINE new == [bnd[bKey] EXCEPT !.label = bw.token]
  <2>1. new.st = bnd[bKey].st /\ new.spec = bnd[bKey].spec
    BY <1>2 DEF BindingType
  <2>2. CASE BPut(new) /\ bw' = [bw EXCEPT !.obj = bnd'[bKey]]
    <3>1. bnd'[bKey] = new
      BY <1>2, <2>2 DEF BPut, PutBinding, Typed, TypeOK
    <3>2. bw'.key = bw.key /\ bw'.stale = bw.stale /\ bw'.obj = new
      BY <2>2, <3>1 DEF Typed, TypeOK, BindingWorkerType
    <3> HIDE DEF new
    <3>3. QED
      BY <1>3, <2>1, <2>2, <3>2
  <2>3. QED
    BY <1>2, <1>4, <1>5, <2>2, SpecCopied DEF BLabel
<1>6. CASE BLinkStatus
  <2> DEFINE o == [binding EXCEPT !.linked = bw.token, !.reason = ""]
  <2>1. o.spec = binding.spec /\ [o EXCEPT !.reason = "LinkedToken"].spec = binding.spec
    BY <1>2, SpecCopied
  <2>2. CASE BPut(BWithStatus(o)) /\ bw' = [bw EXCEPT !.obj = o]
    <3> HIDE DEF o
    <3>1. bw'.key = bw.key /\ bw'.stale = bw.stale /\ bw'.obj = o
      BY <2>2 DEF Typed, TypeOK, BindingWorkerType
    <3>2. QED
      BY <1>1, <1>3, <2>1, <2>2, <3>1, StatusSpec
  <2>3. QED
    BY <1>4, <1>6, <2>1, <2>2 DEF BLinkStatus
<1>7. CASE BFinish
  <2> DEFINE o == [binding EXCEPT !.reason = ""]
  <2>1. o.spec = binding.spec
    BY <1>2, SpecCopied
  <2>2. bw'.pc # "idle" => bw'.key = bw.key /\ bw'.stale = bw.stale /\ bw'.obj \in {binding, o}
    <3>1. CASE BReturn
      BY <3>1 DEF BReturn, BIdle, IdleBindingWorker
    <3>2. CASE ~BReturn
      BY <1>7, <3>2 DEF BFinish, Typed, TypeOK, BindingWorkerType, binding
    <3>3. QED
      BY <3>1, <3>2
  <2> HIDE DEF o
  <2>3. CASE BPut(BWithStatus(o))
    BY <1>1, <1>3, <2>1, <2>2, <2>3, StatusSpec
  <2>4. CASE BLocal
    BY <1>1, <2>1, <2>2, <2>4, OnlyKey, PastKept DEF BLocal, objects, binding
  <2>5. QED
    BY <1>7, <2>3, <2>4 DEF BFinish, o
<1>8. QED
  BY <1>5, <1>6, <1>7

\* Sync, clean-up and revert: the secrets of a binding that is not faulty.
LEMMA BSecretsKept ==
  ASSUME Typed, FaultInv, Onward, BInject \/ BCleanup \/ BRevert
  PROVE  FaultInv'
<1>1. bw.pc \in {"inject", "cleanup", "revert"}
  BY DEF BInject, BCleanup, BRevert
<1>2. bKey \in Bindings /\ binding \in BindingType
  BY <1>1, BCopyTyped
<1>3. bnd' = bnd /\ OthersKept
  <2>1. CASE BInject
    BY <1>2, <2>1 DEF BInject, BLocal, objects, OthersKept, Typed, TypeOK
  <2>2. CASE BCleanup \/ BRevert
    <3>1. (\E names \in SUBSET Secrets : CleanedUp(bKey, names)) \/ UNCHANGED objects
      BY <2>2 DEF BCleanup, BRevert
    <3>2. QED
      BY <1>1, <3>1, CleanedUpKept DEF objects, OthersKept
  <2>3. QED
    BY <2>1, <2>2
<1>4. bw'.pc # "idle" => bw'.key = bw.key /\ bw'.stale = bw.stale /\ bw'.obj.spec = binding.spec
  <2>1. ASSUME NEW o, NEW next, o.spec = binding.spec, BFailWith(o, next)
        PROVE  bw'.key = bw.key /\ bw'.stale = bw.stale /\ bw'.obj.spec = binding.spec
    BY <2>1 DEF BFailWith, Typed, TypeOK, BindingWorkerType
  <2>2. CASE BInject
    <3>1. CASE BFailWith(Erroneous(binding, "TokenSync"), "revert")
      BY <1>2, <2>1, <3>1, SpecCopied
    <3>2. CASE ~BFailWith(Erroneous(binding, "TokenSync"), "revert")
      <4>1. PICK s : bw' = [bw EXCEPT !.pc = "finish", !.data = NoData,
                              !.obj = [@ EXCEPT !.phase = "Injected", !.synced = s]]
        BY <2>2, <3>2 DEF BInject
      <4>2. bw'.key = bw.key /\ bw'.stale = bw.stale
            /\ bw'.obj = [binding EXCEPT !.phase = "Injected", !.synced = s]
        BY <4>1 DEF Typed, TypeOK, BindingWorkerType, binding
      <4>3. QED
        BY <1>2, <4>2, SpecCopied
    <3>3. QED
      BY <3>1, <3>2
  <2>3. CASE BCleanup \/ BRevert
    <3>1. CASE BReturn
      BY <3>1 DEF BReturn, BIdle, IdleBindingWorker
    <3>2. CASE ~BReturn
      <4>1. BFailWith([binding EXCEPT !.reason = "TokenSync"], "requeue")
        BY <2>3, <3>2 DEF BCleanup, BRevert, BReturnErr
      <4>2. QED
        BY <1>2, <2>1, <4>1, SpecCopied
    <3>3. QED
      BY <3>1, <3>2
  <2>4. QED
    BY <2>2, <2>3
<1>5. QED
  BY <1>1, <1>3, <1>4, PastKept DEF binding

\* A step that leaves the bindings and the worker alone.
LEMMA AsideKept == ASSUME FaultInv, Onward, Aside PROVE FaultInv'
<1>1. Sighted'
  BY DEF FaultInv, Sighted, Aside, SameWorker, Onward
<1>2. \A b \in Bindings : Answered(b)'
  BY DEF FaultInv, Answered, Working, Aside, SameWorker, Onward
<1>3. QED
  BY <1>1, <1>2 DEF FaultInv

\* A restarted operator has every existing binding in its queue.
LEMMA StartOverKept == ASSUME FaultInv, StartOver PROVE FaultInv'
<1>1. bw'.pc = "idle" /\ UNCHANGED <<bnd, sec, faults>> /\ bq' = LiveBindings
  BY DEF StartOver, BIdle, IdleBindingWorker, objects
<1>2. QED
  BY <1>1 DEF FaultInv, Sighted, Answered, LiveBindings, Present

\* A user creates a binding: it is queued, and there are no secrets of that name.
LEMMA CreateBindingKept == ASSUME FinInv, FaultInv, Onward, CreateBinding PROVE FaultInv'
<1>1. PICK b \in Bindings, spec \in BindingSpecs : bnd[b].st = "none" /\ PutBinding(b, NewBinding(spec))
  BY DEF CreateBinding
<1>2. Typed /\ NoOrphanSecret /\ sec' = sec /\ bw' = bw
  BY DEF FinInv, SecretsOwned, CreateBinding, workers
<1>3. /\ \A c \in Bindings \ {b} : bnd'[c] = bnd[c]
      /\ bnd'[b] = NewBinding(spec)
  BY <1>1, <1>2 DEF PutBinding, Typed, TypeOK
<1>4. b \in bq'
  <2>1. NewBinding(spec).st = "live"
    BY DEF NewBinding
  <2>2. QED
    BY <1>1, <2>1 DEF PutBinding
<1>5. \A s \in Secrets : sec[b][s] = NoData
  BY <1>1, <1>2 DEF NoOrphanSecret, Present
<1>6. bw.pc # "idle" => bw.key \in Bindings \ {b}
  BY <1>1, <1>2, BCopyTyped DEF FaultInv, Sighted, bKey
<1>7. Sighted'
  BY <1>2, <1>3, <1>6 DEF FaultInv, Sighted, Onward
<1>8. ASSUME NEW c \in Bindings PROVE Answered(c)'
  <2>1. CASE c = b
    BY <1>2, <1>4, <1>5, <2>1 DEF Answered
  <2>2. CASE c # b
    BY <1>2, <1>3, <2>2 DEF FaultInv, Answered, Working, Onward
  <2>3. QED
    BY <2>1, <2>2
<1>9. QED
  BY <1>7, <1>8 DEF FaultInv

\* A user deletes a binding, which is not live any more, or a secret.
LEMMA DeletesKept == ASSUME Typed, FaultInv, Onward, DeleteBinding \/ DeleteSecret PROVE FaultInv'
<1>1. CASE DeleteBinding
  <2>1. PICK b \in Bindings : /\ bnd[b].st = "live" /\ bnd' = [bnd EXCEPT ![b] = DeletedBinding(bnd[b])]
                              /\ OutdateBinding(b, DeletedBinding(bnd[b]))
    BY <1>1 DEF DeleteBinding, PutBinding
  <2>2. bnd'[b].st \notin {"live", "none"} /\ \A c \in Bindings \ {b} : bnd'[c] = bnd[c]
    <3>1. DeletedBinding(bnd[b]).st \notin {"live", "none"}
      BY <2>1 DEF DeletedBinding, SettleBinding, Settle, AbsentBinding, NewBinding, Typed, TypeOK, BindingType
    <3>2. QED
      BY <2>1, <3>1 DEF Typed, TypeOK
  <2>3. bw'.pc = bw.pc /\ bw'.key = bw.key /\ bw'.obj = bw.obj /\ bw'.then = bw.then
        /\ (bw.key # b => bw'.stale = bw.stale)
    BY <2>1 DEF OutdateBinding, Typed, TypeOK, BindingWorkerType
  <2>4. sec' = sec
    BY <1>1 DEF DeleteBinding
  <2>5. bw.pc # "idle" => bw.key \in Bindings
    BY BCopyTyped DEF bKey
  <2>6. Sighted'
    BY <2>2, <2>3, <2>5 DEF FaultInv, Sighted, Onward
  <2>7. ASSUME NEW c \in Bindings PROVE Answered(c)'
    BY <2>2, <2>3, <2>4 DEF FaultInv, Answered, Working, Onward
  <2>8. QED
    BY <2>6, <2>7 DEF FaultInv
<1>2. CASE DeleteSecret
  <2>1. UNCHANGED <<bnd, bw>>
    BY <1>2 DEF DeleteSecret, workers
  <2>2. \A b \in Bindings, s \in Secrets : sec'[b][s] \in {sec[b][s], NoData}
    BY <1>2 DEF DeleteSecret, Typed, TypeOK
  <2>3. Sighted'
    BY <2>1 DEF FaultInv, Sighted, Onward
  <2>4. ASSUME NEW c \in Bindings PROVE Answered(c)'
    BY <2>1, <2>2 DEF FaultInv, Answered, Working, Onward
  <2>5. QED
    BY <2>3, <2>4 DEF FaultInv
<1>3. QED
  BY <1>1, <1>2

\* Every step preserves what is known of faulty specs.
LEMMA NextKept == ASSUME BindingInv, FaultInv, [Next]_vars PROVE FaultInv'
<1>1. Typed /\ CopyInv /\ FinInv
  BY DEF BindingInv, FinInv
<1>2. CASE BindingReconcile /\ ~BGet
  <2>1. Onward
    BY <1>1, <1>2, BindingReconcileOnward
  <2>2. CASE BBadUrl \/ BBadLifetime \/ BInvalid \/ BLookupFails \/ BMismatch \/ BFail \/ BNoProvider
    BY <1>1, <2>1, <2>2, BErrorsKept, BNoProviderKept
  <2>3. CASE BSaveUrl \/ BMigrateAreas \/ BUnfinalize \/ BDelete \/ BMigrateFinalizers \/ BAddFinalizer \/ BFinalize
    BY <1>1, <2>1, <2>3, BLastWritesKept, BFinalizersKept, BFinalizeKept
  <2>4. CASE BLookup \/ BEnsure \/ BLinkMatch \/ BLoadLinked \/ BCreateToken \/ BUndo \/ BPrepare
    BY <1>1, <2>1, <2>4, BLookupKept, BUnwrittenKept
  <2>5. CASE BLabel \/ BLinkStatus \/ BFinish \/ BInject \/ BCleanup \/ BRevert
    BY <1>1, <2>1, <2>5, BWritesKept, BSecretsKept
  <2>6. QED
    BY <1>2, <2>2, <2>3, <2>4, <2>5 DEF BindingReconcile
<1>3. CASE BGet
  BY <1>1, <1>3, BGetKept
<1>4. CASE TokenReconcile
  BY <1>1, <1>4, TokenReconcileAside, TokenReconcileOnward, AsideKept
<1>5. CASE \/ TokenTimer \/ BindingTimer \/ Service \/ UploadGet \/ CreateToken \/ DeleteToken
           \/ RequestRefresh \/ TokenAges \/ BindingAges \/ UNCHANGED vars
  BY <1>1, <1>5, OthersAside, OthersOnward, AsideKept
<1>6. CASE CreateBinding \/ DeleteBinding \/ DeleteSecret
  BY <1>1, <1>6, OthersOnward, CreateBindingKept, DeletesKept
<1>7. CASE Restart \/ RefreshPanics
  BY <1>7, StartOverKept DEF Restart, RefreshPanics
<1>8. QED
  BY <1>2, <1>3, <1>4, <1>5, <1>6, <1>7 DEF Next, Controllers, Users, Environment

\* Bindings of a former version have plain specs, and there are no secrets yet.
LEMMA InitKept == Init => FaultInv
<1> SUFFICES ASSUME Init PROVE FaultInv
  OBVIOUS
<1>1. bw.pc = "idle" /\ \A b \in Bindings, s \in Secrets : sec[b][s] = NoData
  BY DEF Init, BIdle, IdleBindingWorker
<1>2. \A b \in Bindings : ~Faulty(bnd[b].spec)
  <2>1. ~Faulty(PlainSpec)
    BY DEF PlainSpec, Faulty
  <2>2. /\ [NewBinding(PlainSpec) EXCEPT !.fin = "old"].spec = PlainSpec
        /\ AbsentBinding("none").spec = PlainSpec
    BY DEF NewBinding, AbsentBinding
  <2>3. QED
    BY <2>1, <2>2 DEF Init
<1>3. QED
  BY <1>1, <1>2 DEF FaultInv, Sighted, Answered

\* A fault in a binding's spec reaches its owner, for any specs and any number of
\* objects, failures and restarts: although Reconcile returns no error for a bad
\* URL, an unknown provider or invalid permissions, no key is dropped before the
\* status says so or the write that would say so has failed, and no secret is ever
\* filled for such a binding.
THEOREM FaultsReachOwners == Spec => []FaultySpecReported
<1>1. BindingInv /\ FaultInv /\ [Next]_vars => FaultInv'
  BY NextKept
<1>2. FaultInv => FaultySpecReported
  <2> SUFFICES ASSUME FaultInv, Quiescent, NEW b \in Bindings \ bw.lost, bnd[b].st = "live",
                      Faulty(bnd[b].spec)
               PROVE  bnd[b].phase = "Error" /\ \A s \in Secrets : sec[b][s] = NoData
    BY DEF FaultySpecReported, Faulty
  <2>1. QED
    BY DEF FaultInv, Answered, Working, Quiescent
<1>3. QED
  BY <1>1, <1>2, InitKept, BindingInvHolds, PTL DEF Spec

-----------------------------------------------------------------------------
(* No wake-up of the token controller is lost: a live token that awaits data    *)
(* which the storage has is announced, queued, or being reconciled by a worker  *)
(* that will write another phase or fail.                                       *)

Pending(t) == t \in tq \cup du \cup up.lost \/ (up.pc = "notify" /\ up.key = t)

AtWork(t) ==
  /\ tw.pc # "idle" /\ tw.key = t
  /\ \/ tw.pc \in {"loaded", "ensure", "persist", "flip", "delete"}
     \/ tw.pc = "save" /\ (tw.stale \/ tw.obj.meta # NoData)

\* What object o says of the data of token t is true. The storage loses the data
\* of a token only after the token was deleted, so it stays true.
Backed(o, t) == o.meta # NoData \/ o.phase = "Ready" => store[t] # NoData

\* The copy of a busy worker w. It may be older than the server's object, but not
\* with respect to deletion; a worker about to say that the token awaits data has
\* missed only data whose announcement is still to come.
TokenCopyOK(w) ==
  /\ tok[w.key].st # "none"
  /\ w.obj.st = "deleting" => tok[w.key].st # "live"
  /\ w.pc = "unfinalize" => w.obj.st = "deleting"
  /\ w.pc = "store" => w.data # NoData
  /\ w.pc = "flip" => w.obj.phase \in {"Error", "Invalid"}
  /\ tok[w.key].st = "live" =>
       /\ Backed(w.obj, w.key)
       /\ w.pc \in {"loaded", "ensure", "save"} /\ ~w.stale => w.obj.meta = tok[w.key].meta
       /\ w.pc = "persist" => w.obj.meta # NoData
       /\ w.pc = "store" => store[w.key] # NoData
       /\ w.pc = "save" /\ ~w.stale /\ w.obj.meta = NoData /\ store[w.key] # NoData => Pending(w.key)

\* Token t is not forgotten.
Remembered(t) ==
  tok[t].st = "live" =>
    /\ Backed(tok[t], t)
    /\ tok[t].phase = "AwaitingTokenData" /\ store[t] # NoData => Pending(t) \/ AtWork(t)

WakeInv ==
  /\ tw.pc # "idle" => TokenCopyOK(tw)
  /\ up.pc = "store" => up.data # NoData
  /\ \A t \in Tokens : Remembered(t)

\* The announcements only grow, and the upload in progress stays.
Announced == (\A t \in Tokens : Pending(t) => Pending(t)') /\ up' = up

LEMMA AnnouncedByQueue == ASSUME tq \subseteq tq', UNCHANGED <<du, up>> PROVE Announced
  BY DEF Announced, Pending

\* A step of the worker leaves the other tokens alone.
OtherTokens == \A t \in Tokens \ {atKey} : tok'[t] = tok[t] /\ store'[t] = store[t]

LEMMA OwnWake ==
  ASSUME Typed, WakeInv, Announced, tw.pc # "idle", OtherTokens,
         tw'.pc # "idle" => TokenCopyOK(tw)', NEW k, k = atKey, Remembered(k)'
  PROVE  WakeInv'
<1>1. ASSUME NEW t \in Tokens, t # k PROVE Remembered(t)'
  <2>1. tok'[t] = tok[t] /\ store'[t] = store[t] /\ Remembered(t) /\ ~AtWork(t) /\ (Pending(t) => Pending(t)')
    BY <1>1 DEF OtherTokens, WakeInv, AtWork, atKey, Announced
  <2>2. QED
    BY <2>1 DEF Remembered, Backed
<1>2. QED
  BY <1>1 DEF WakeInv, Announced

\* Somebody else's write of token t: it changes the phase of no live token, and
\* outdates the worker's copy.
LEMMA ForeignWrite ==
  ASSUME Typed, WakeInv, Announced, store' = store, NEW t \in Tokens, NEW new, tok' = [tok EXCEPT ![t] = new],
         tok[t].st # "none" => new.st # "none",
         new.st = "live" =>
           \/ /\ tok[t].st = "live" /\ new.phase = tok[t].phase
              /\ new.meta = tok[t].meta \/ new.meta = store[t]
           \/ tok[t].st = "none" /\ new.phase = "" /\ new.meta = NoData,
         tw'.pc = tw.pc, tw'.key = tw.key, tw'.obj = tw.obj, tw'.data = tw.data,
         tw'.stale \in BOOLEAN, tw.stale => tw'.stale,
         tw.key = t /\ new # tok[t] => tw'.stale \/ tok[t].st = "none",
         tw.key # t => tw'.stale = tw.stale
  PROVE  WakeInv'
<1>1. tok'[t] = new /\ \A c \in Tokens \ {t} : tok'[c] = tok[c]
  BY DEF Typed, TypeOK
<1>2. ASSUME tw.pc # "idle" PROVE TokenCopyOK(tw)'
  <2>1. tw.key \in Tokens /\ TokenCopyOK(tw)
    BY <1>2, TCopyTyped DEF WakeInv, atKey
  <2> PICK k \in Tokens : k = tw.key
    BY <2>1
  <2>2. Pending(k) => Pending(k)'
    BY DEF Announced
  <2>3. CASE tw.key # t
    <3>1. tok'[tw.key] = tok[tw.key] /\ (tw'.stale <=> tw.stale)
      BY <1>1, <2>1, <2>3
    <3>2. QED
      BY <2>1, <2>2, <3>1 DEF TokenCopyOK, Backed, Pending
  <2>4. CASE tw.key = t
    <3>1. tok[t].st # "none"
      BY <2>1, <2>4 DEF TokenCopyOK
    <3>2. new.st = "live" => tok[t].st = "live"
      BY <3>1
    <3>3. ~tw'.stale => new = tok[t]
      BY <2>4, <3>1
    <3>4. tok'[t] = new
      BY <1>1
    <3>5. CASE tw'.stale = FALSE
      <4>1. tok'[t] = tok[t]
        BY <3>3, <3>4, <3>5
      <4>2. tw.stale \in BOOLEAN
        BY DEF Typed, TokenWorkerOK, TokenWorkerType
      <4>3. tw.stale = FALSE
        BY <3>5, <4>2
      <4>4. QED
        BY <2>1, <2>2, <2>4, <3>5, <4>1, <4>3 DEF TokenCopyOK, Backed, Pending
    <3>6. CASE tw'.stale = TRUE
      BY <2>1, <2>4, <3>1, <3>2, <3>4, <3>6 DEF TokenCopyOK, Backed
    <3>7. QED
      BY <3>5, <3>6
  <2>5. QED
    BY <2>3, <2>4
<1>3. ASSUME NEW c \in Tokens PROVE Remembered(c)'
  <2>1. Remembered(c) /\ (Pending(c) => Pending(c)')
    BY DEF WakeInv, Announced
  <2>2. AtWork(c) => AtWork(c)'
    BY DEF AtWork
  <2>3. CASE c # t
    BY <1>1, <2>1, <2>2, <2>3 DEF Remembered, Backed
  <2>4. CASE c = t
    BY <1>1, <2>1, <2>2, <2>4 DEF Remembered, Backed
  <2>5. QED
    BY <2>3, <2>4
<1>4. QED
  BY <1>2, <1>3 DEF WakeInv, Announced

\* A step that writes no token.
LEMMA UnwrittenWake == ASSUME Typed, WakeInv, Announced, UNCHANGED <<tok, store, tw>> PROVE WakeInv'
<1>1. ASSUME NEW c \in Tokens PROVE Remembered(c)'
  BY DEF WakeInv, Announced, Remembered, Backed, AtWork
<1>2. ASSUME tw.pc # "idle" PROVE TokenCopyOK(tw)'
  <2>1. PICK k \in Tokens : k = tw.key
    BY <1>2, TCopyTyped DEF atKey
  <2>2. TokenCopyOK(tw) /\ (Pending(k) => Pending(k)')
    BY <1>2 DEF WakeInv, Announced
  <2>3. QED
    BY <2>1, <2>2 DEF TokenCopyOK, Backed, Pending
<1>3. QED
  BY <1>1, <1>2 DEF WakeInv, Announced

\* A failing call of the token worker: the key is queued again.
LEMMA TCallFailsWake ==
  ASSUME Typed, WakeInv, tw.pc # "idle", NEW stale, TCallFails(stale)
  PROVE  WakeInv'
<1>1. UNCHANGED <<tok, store, du, up>> /\ tw'.pc = "idle" /\ tq \subseteq tq' /\ atKey \in tq'
  BY DEF TCallFails, TReturnErr, IdleTokenWorker, objects, outside
<1>2. Announced /\ OtherTokens
  BY <1>1, AnnouncedByQueue DEF OtherTokens
<1>3. PICK k \in Tokens : k = atKey
  BY TCopyTyped
<1>4. Remembered(k)'
  BY <1>1, <1>3 DEF WakeInv, Remembered, Backed, Pending
<1>5. QED
  BY <1>1, <1>2, <1>3, <1>4, OwnWake

\* What is known of the token that the worker reconciles.
LEMMA TokenSight ==
  ASSUME Typed, WakeInv, tw.pc # "idle"
  PROVE  /\ atKey \in Tokens /\ at \in TokenType /\ tok[atKey] \in TokenType /\ tw.stale \in BOOLEAN
         /\ TokenCopyOK(tw) /\ Remembered(atKey)
  BY TCopyTyped DEF WakeInv, atKey

\* A step of the worker that only changes its own state.
LEMMA TLocalWake ==
  ASSUME Typed, WakeInv, tw.pc # "idle", TLocal, TokenCopyOK(tw)', NEW k, k = atKey, tw'.key = k,
         tok[k].st = "live" /\ tok[k].phase = "AwaitingTokenData" /\ store[k] # NoData /\ AtWork(k) => AtWork(k)'
  PROVE  WakeInv'
<1>1. UNCHANGED <<tok, store, du, tq, up>>
  BY DEF TLocal, objects, queues, outside
<1>2. Announced /\ OtherTokens
  BY <1>1, AnnouncedByQueue DEF OtherTokens
<1>3. k \in Tokens /\ Remembered(k)
  BY TokenSight
<1>4. Remembered(k)'
  BY <1>1, <1>2, <1>3 DEF Remembered, Backed, Announced
<1>5. QED
  BY <1>2, <1>4, OwnWake

\* A write by the worker of the token it reconciles.
LEMMA TWriteWake ==
  ASSUME Typed, WakeInv, tw.pc # "idle", store' = store, UNCHANGED <<du, up>>, tq \subseteq tq',
         NEW new, tok' = [tok EXCEPT ![atKey] = new], tw'.pc # "idle" => TokenCopyOK(tw)',
         NEW k, k = atKey,
         new.st = "live" =>
           /\ Backed(new, k)
           /\ new.phase = "AwaitingTokenData" /\ store[k] # NoData => Pending(k) \/ AtWork(k)'
  PROVE  WakeInv'
<1>1. k \in Tokens
  BY TCopyTyped
<1>2. Announced /\ OtherTokens
  BY <1>1, AnnouncedByQueue DEF OtherTokens, Typed, TypeOK
<1>3. tok'[k] = new
  BY <1>1 DEF Typed, TypeOK
<1>4. Remembered(k)'
  BY <1>1, <1>2, <1>3 DEF Remembered, Backed, Announced
<1>5. QED
  BY <1>2, <1>4, OwnWake

\* Loading the token: its key leaves the queue for the worker.
LEMMA TGetWake == ASSUME Typed, WakeInv, TGet PROVE WakeInv'
<1>1. PICK t \in tq : /\ tq' = tq \ {t}
                      /\ tw' = IF Present(tok[t])
                               THEN [IdleTokenWorker EXCEPT !.pc = "loaded", !.key = t, !.obj = tok[t]]
                               ELSE tw
  BY DEF TGet
<1>2. t \in Tokens /\ tw.pc = "idle" /\ UNCHANGED <<tok, store, du, up>>
  BY DEF Typed, TypeOK, TGet, objects, outside
<1>3. \A c \in Tokens \ {t} : Pending(c) => Pending(c)'
  BY <1>1, <1>2 DEF Pending
<1>4. \A c \in Tokens : ~AtWork(c)
  BY <1>2 DEF AtWork
<1>5. CASE ~Present(tok[t])
  <2>1. tw' = tw /\ tok[t].st # "live"
    BY <1>1, <1>5 DEF Present
  <2>2. ASSUME NEW c \in Tokens PROVE Remembered(c)'
    BY <1>2, <1>3, <1>4, <2>1 DEF WakeInv, Remembered, Backed
  <2>3. QED
    BY <1>2, <2>1, <2>2 DEF WakeInv
<1>6. CASE Present(tok[t])
  <2>1. tw'.pc = "loaded" /\ tw'.key = t /\ tw'.obj = tok[t] /\ tw'.stale = FALSE
    BY <1>1, <1>6 DEF IdleTokenWorker
  <2>2. TokenCopyOK(tw)'
    BY <1>2, <1>6, <2>1 DEF WakeInv, Remembered, TokenCopyOK, Backed, Present
  <2>3. AtWork(t)'
    BY <2>1 DEF AtWork
  <2>4. ASSUME NEW c \in Tokens PROVE Remembered(c)'
    BY <1>2, <1>3, <1>4, <2>3 DEF WakeInv, Remembered, Backed
  <2>5. QED
    BY <1>2, <2>2, <2>4 DEF WakeInv
<1>7. QED
  BY <1>5, <1>6

\* Finalizing: the token was deleted, so that its data may go.
LEMMA TFinalizeWake == ASSUME Typed, WakeInv, TFinalize PROVE WakeInv'
<1>1. tw.pc = "loaded" /\ at.st = "deleting" /\ UNCHANGED <<tok, du, up>>
  BY DEF TFinalize, outside
<1>2. PICK k \in Tokens : k = atKey
  BY <1>1, TokenSight
<1>3. tok[k].st \notin {"live", "none"} /\ at \in TokenType
  BY <1>1, <1>2, TokenSight DEF TokenCopyOK, at, atKey
<1>4. \A t \in Tokens \ {k} : store'[t] = store[t]
  BY <1>2 DEF TFinalize, EraseData, Typed, TypeOK
<1>5. tq \subseteq tq'
  BY DEF TFinalize, TReturnErr, TFinalized
<1>6. tw'.pc # "idle" => tw'.pc = "unfinalize" /\ tw'.key = k /\ tw'.obj.st = "deleting"
  <2>1. CASE TReturnErr
    BY <2>1 DEF TReturnErr, IdleTokenWorker
  <2>2. CASE TFinalized
    BY <1>1, <1>2, <2>2 DEF TFinalized, Typed, TypeOK, TokenWorkerType, TokenType, at, atKey
  <2>3. QED
    BY <2>1, <2>2 DEF TFinalize
<1>7. tw'.pc # "idle" => TokenCopyOK(tw)'
  BY <1>1, <1>3, <1>6 DEF TokenCopyOK
<1>8. Announced /\ OtherTokens /\ Remembered(k)'
  BY <1>1, <1>2, <1>3, <1>4, <1>5, AnnouncedByQueue DEF OtherTokens, Remembered
<1>9. QED
  BY <1>1, <1>2, <1>7, <1>8, OwnWake

\* Writes that take the token away, or leave it as it is but for its finalizers
\* and labels.
LEMMA TMetadataWake ==
  ASSUME Typed, WakeInv, TUnfinalize \/ TAddFinalizers \/ TDelete \/ TLabel \/ TUnlabel
  PROVE  WakeInv'
<1>1. tw.pc \in {"unfinalize", "loaded", "delete", "save", "unlabel"}
  BY DEF TUnfinalize, TAddFinalizers, TDelete, TLabel, TUnlabel
<1>2. PICK k \in Tokens : k = atKey
  BY <1>1, TokenSight
<1>3. at \in TokenType /\ tok[k] \in TokenType /\ TokenCopyOK(tw) /\ Remembered(k)
  BY <1>1, <1>2, TokenSight
<1>4. CASE \E stale : TCallFails(stale)
  BY <1>1, <1>4, TCallFailsWake
<1>5. ASSUME NEW new, PutToken(atKey, new), UNCHANGED <<store, du, outside>>
      PROVE  /\ tok' = [tok EXCEPT ![atKey] = new] /\ tok'[k] = new
             /\ tq \subseteq tq' /\ UNCHANGED <<store, du, up>>
  BY <1>2, <1>5 DEF PutToken, SendToken, outside, Typed, TypeOK
<1>6. CASE ~(\E stale : TCallFails(stale)) /\ TUnfinalize
  <2> DEFINE new == SettleToken([tok[atKey] EXCEPT !.fin = FALSE])
  <2>1. PutToken(atKey, new) /\ UNCHANGED <<store, du, outside>> /\ tw'.pc = "idle" /\ tw.pc = "unfinalize"
    BY <1>6 DEF TUnfinalize, TPut, TReturn, IdleTokenWorker
  <2>2. new.st # "live"
    <3>1. tok[k].st # "live"
      BY <1>2, <1>3, <2>1 DEF TokenCopyOK, atKey
    <3>2. QED
      BY <1>2, <1>3, <3>1 DEF SettleToken, Settle, AbsentToken, NewToken, TokenType
  <2> HIDE DEF new
  <2>3. QED
    BY <1>1, <1>2, <1>5, <2>1, <2>2, TWriteWake
<1>7. CASE ~(\E stale : TCallFails(stale)) /\ TDelete
  <2> DEFINE new == DeletedToken(tok[atKey])
  <2>1. PutToken(atKey, new) /\ UNCHANGED <<store, du, outside>> /\ tw'.pc = "idle"
    BY <1>7 DEF TDelete, TReturn, IdleTokenWorker
  <2>2. new.st # "live"
    BY <1>2, <1>3 DEF DeletedToken, SettleToken, Settle, AbsentToken, NewToken, TokenType
  <2> HIDE DEF new
  <2>3. QED
    BY <1>1, <1>2, <1>5, <2>1, <2>2, TWriteWake
<1>8. ASSUME NEW new, PutToken(atKey, new), UNCHANGED <<store, du, outside>>,
             new.st = tok[k].st, new.phase = tok[k].phase, new.meta = tok[k].meta,
             tw.pc # "delete",
             \/ tw'.pc = "idle" /\ tw.pc = "unlabel"
             \/ /\ tw'.pc = tw.pc /\ tw'.key = tw.key /\ tw'.obj = new /\ tw'.stale = tw.stale /\ ~tw.stale
                /\ tw.pc \in {"loaded", "save"}
      PROVE  WakeInv'
  <2>1. /\ tok' = [tok EXCEPT ![atKey] = new] /\ tok'[k] = new
        /\ tq \subseteq tq' /\ UNCHANGED <<store, du, up>>
    BY <1>5, <1>8
  <2>2. Pending(k) => Pending(k)'
    BY <2>1 DEF Pending
  <2>3. AtWork(k) /\ new.st = "live" => AtWork(k)'
    BY <1>2, <1>3, <1>8 DEF AtWork, TokenCopyOK
  <2>4. tw'.pc # "idle" => TokenCopyOK(tw)'
    BY <1>2, <1>3, <1>8, <2>1, <2>2 DEF TokenCopyOK, Remembered, Backed, atKey
  <2>5. new.st = "live" =>
           /\ Backed(new, k)
           /\ new.phase = "AwaitingTokenData" /\ store[k] # NoData => Pending(k) \/ AtWork(k)'
    BY <1>3, <1>8, <2>3 DEF Remembered, Backed
  <2>6. QED
    BY <1>1, <1>2, <2>1, <2>4, <2>5, TWriteWake
<1>9. CASE ~(\E stale : TCallFails(stale)) /\ TAddFinalizers
  <2> DEFINE new == [tok[atKey] EXCEPT !.fin = TRUE]
  <2>1. /\ PutToken(atKey, new) /\ UNCHANGED <<store, du, outside>> /\ ~tw.stale /\ tw.pc = "loaded"
        /\ tw' = [tw EXCEPT !.obj = tok'[atKey]]
    BY <1>9 DEF TAddFinalizers, TPut
  <2>2. tok'[k] = new /\ new.st = tok[k].st /\ new.phase = tok[k].phase /\ new.meta = tok[k].meta
    BY <1>2, <1>3, <1>5, <2>1 DEF TokenType
  <2> HIDE DEF new
  <2>3. tw'.pc = tw.pc /\ tw'.key = tw.key /\ tw'.obj = new /\ tw'.stale = tw.stale
    BY <1>2, <2>1, <2>2 DEF Typed, TypeOK, TokenWorkerType
  <2>4. QED
    BY <1>8, <2>1, <2>2, <2>3
<1>10. CASE ~(\E stale : TCallFails(stale)) /\ TLabel
  <2> DEFINE new == [tok[atKey] EXCEPT !.labelled = TRUE]
  <2>1. /\ PutToken(atKey, new) /\ UNCHANGED <<store, du, outside>> /\ ~tw.stale /\ tw.pc = "save"
        /\ tw' = [tw EXCEPT !.obj = tok'[atKey]]
    BY <1>10 DEF TLabel, TPut
  <2>2. tok'[k] = new /\ new.st = tok[k].st /\ new.phase = tok[k].phase /\ new.meta = tok[k].meta
    BY <1>2, <1>3, <1>5, <2>1 DEF TokenType
  <2> HIDE DEF new
  <2>3. tw'.pc = tw.pc /\ tw'.key = tw.key /\ tw'.obj = new /\ tw'.stale = tw.stale
    BY <1>2, <2>1, <2>2 DEF Typed, TypeOK, TokenWorkerType
  <2>4. QED
    BY <1>8, <2>1, <2>2, <2>3
<1>11. CASE ~(\E stale : TCallFails(stale)) /\ TUnlabel
  <2> DEFINE new == [tok[atKey] EXCEPT !.refresh = FALSE]
  <2>1. PutToken(atKey, new) /\ UNCHANGED <<store, du, outside>> /\ tw'.pc = "idle" /\ tw.pc = "unlabel"
    BY <1>11 DEF TUnlabel, TPut, TReturn, IdleTokenWorker
  <2>2. new.st = tok[k].st /\ new.phase = tok[k].phase /\ new.meta = tok[k].meta
    BY <1>2, <1>3 DEF TokenType
  <2> HIDE DEF new
  <2>3. QED
    BY <1>8, <2>1, <2>2
<1>12. QED
  BY <1>4, <1>6, <1>7, <1>9, <1>10, <1>11

\* Decisions taken on the copy: delete, flip to an exceptional phase, or ensure
\* the metadata. A ready token that is live has its data.
LEMMA TDecisionsWake == ASSUME Typed, WakeInv, TCheckObsolete \/ TCheckData PROVE WakeInv'
<1>1. tw.pc = "loaded"
  BY DEF TCheckObsolete, TCheckData
<1>2. PICK k \in Tokens : k = atKey
  BY <1>1, TokenSight
<1>3. at \in TokenType /\ TokenCopyOK(tw) /\ k = tw.key
  BY <1>1, <1>2, TokenSight DEF atKey
<1>4. CASE TCallFails(FALSE)
  BY <1>1, <1>4, TCallFailsWake
<1>5. ASSUME TLocal, tw'.key = tw.key, tw'.stale = tw.stale, tw'.obj.st = at.st,
             tw'.pc \in {"delete", "flip", "ensure"},
             tw'.pc = "flip" => tw'.obj.phase \in {"Error", "Invalid"},
             tw'.pc # "flip" => tw'.obj.phase = at.phase,
             tok[k].st = "live" => tw'.obj.meta = at.meta
      PROVE  WakeInv'
  <2>1. UNCHANGED <<tok, store>>
    BY <1>5 DEF TLocal, objects
  <2>2. TokenCopyOK(tw)'
    BY <1>1, <1>3, <1>5, <2>1 DEF TokenCopyOK, Backed, at
  <2>3. AtWork(k)'
    BY <1>3, <1>5 DEF AtWork
  <2>4. QED
    BY <1>1, <1>2, <1>3, <1>5, <2>2, <2>3, TLocalWake
<1>6. CASE ~TCallFails(FALSE) /\ TCheckObsolete
  <2>1. TLocal /\ tw' = [tw EXCEPT !.pc = "delete"]
    BY <1>6 DEF TCheckObsolete
  <2>2. tw'.key = tw.key /\ tw'.stale = tw.stale /\ tw'.obj = at /\ tw'.pc = "delete"
    BY <2>1 DEF Typed, TypeOK, TokenWorkerType, at
  <2>3. QED
    BY <1>5, <2>1, <2>2
<1>7. CASE ~TCallFails(FALSE) /\ TCheckData
  <2> DEFINE lost == at.phase = "Ready" /\ store[atKey] = NoData
             o == [at EXCEPT !.meta = IF lost THEN NoData ELSE @]
  <2>1. tok[k].st = "live" => ~lost
    BY <1>2, <1>3 DEF TokenCopyOK, Backed, at, atKey
  <2>2. o \in TokenType /\ o.st = at.st /\ o.phase = at.phase /\ (tok[k].st = "live" => o.meta = at.meta)
    BY <1>3, <2>1 DEF TokenType, OptData
  <2>3. /\ TLocal
        /\ \/ \E phase \in {"Error", "Invalid"}, reason \in TokenReasons, again \in BOOLEAN :
                tw' = TFlipTo(o, phase, reason, again)
           \/ tw' = [tw EXCEPT !.pc = "ensure", !.obj = o]
    BY <1>7 DEF TCheckData, TokenReasons
  <2> HIDE DEF o
  <2>4. CASE tw' = [tw EXCEPT !.pc = "ensure", !.obj = o]
    <3>1. tw'.key = tw.key /\ tw'.stale = tw.stale /\ tw'.obj = o /\ tw'.pc = "ensure"
      BY <2>4 DEF Typed, TypeOK, TokenWorkerType
    <3>2. QED
      BY <1>5, <2>2, <2>3, <3>1
  <2>5. CASE \E phase \in {"Error", "Invalid"}, reason \in TokenReasons, again \in BOOLEAN :
               tw' = TFlipTo(o, phase, reason, again)
    <3>1. PICK phase \in {"Error", "Invalid"}, reason \in TokenReasons, again \in BOOLEAN :
                 tw' = TFlipTo(o, phase, reason, again)
      BY <2>5
    <3>2. /\ tw'.key = tw.key /\ tw'.stale = tw.stale /\ tw'.pc = "flip"
          /\ tw'.obj = [o EXCEPT !.phase = phase, !.reason = reason]
      BY <3>1 DEF TFlipTo, Typed, TypeOK, TokenWorkerType
    <3>3. tw'.obj.st = o.st /\ tw'.obj.phase = phase /\ tw'.obj.meta = o.meta
      BY <2>2, <3>2 DEF TokenType
    <3>4. QED
      BY <1>5, <2>2, <2>3, <3>2, <3>3
  <2>6. QED
    BY <2>3, <2>4, <2>5
<1>8. QED
  BY <1>4, <1>6, <1>7

\* Ensuring the metadata: the worker that finds no data goes on to say so, and
\* any data stored after that will be announced.
LEMMA TEnsureWake == ASSUME Typed, WakeInv, TEnsure PROVE WakeInv'
<1>1. tw.pc = "ensure" /\ TLocal
  BY DEF TEnsure
<1>2. PICK k \in Tokens : k = atKey
  BY <1>1, TokenSight
<1>3. at \in TokenType /\ TokenCopyOK(tw) /\ Remembered(k) /\ k = tw.key
  BY <1>1, <1>2, TokenSight DEF atKey
<1>4. UNCHANGED <<tok, store>>
  BY <1>1 DEF TLocal, objects
<1>5. ASSUME tw'.key = tw.key, tw'.stale = tw.stale, tw'.obj.st = at.st,
             \/ /\ tw'.pc = "save" /\ tw'.obj.phase = at.phase /\ tw'.obj.meta = at.meta
                /\ at.meta = NoData => store[k] = NoData
             \/ /\ tw'.pc = "persist" /\ tw'.obj.phase = at.phase /\ tw'.obj.meta = store[k]
                /\ at.meta # NoData \/ store[k] # NoData
             \/ /\ tw'.pc = "flip" /\ tw'.obj.phase \in {"Error", "Invalid"} /\ tw'.obj.meta = NoData
      PROVE  WakeInv'
  <2>1. tok[k].st = "live" /\ at.meta # NoData => store[k] # NoData
    BY <1>3 DEF TokenCopyOK, Backed, at
  <2>2. TokenCopyOK(tw)'
    BY <1>1, <1>3, <1>4, <1>5, <2>1 DEF TokenCopyOK, Backed, at
  <2>3. store[k] # NoData => AtWork(k)'
    BY <1>3, <1>4, <1>5 DEF AtWork
  <2>4. QED
    BY <1>1, <1>2, <1>3, <1>5, <2>2, <2>3, TLocalWake
<1>6. PICK expired \in IsExpired :
        LET fetch == at.meta = NoData \/ expired
            d == store[atKey]
            none == [at EXCEPT !.meta = NoData]
        IN \/ ~fetch /\ tw' = [tw EXCEPT !.pc = "save"]
           \/ /\ fetch
              /\ tw' = [tw EXCEPT !.obj.meta = d,
                          !.pc = IF at.meta # NoData \/ d # NoData THEN "persist" ELSE "save"]
           \/ \E phase \in {"Error", "Invalid"}, again \in BOOLEAN :
                tw' = TFlipTo(none, phase, "MetadataFailure", again)
  BY DEF TEnsure
<1>7. CASE tw' = [tw EXCEPT !.pc = "save"] /\ at.meta # NoData
  <2>1. tw'.key = tw.key /\ tw'.stale = tw.stale /\ tw'.obj = at /\ tw'.pc = "save"
    BY <1>7 DEF Typed, TypeOK, TokenWorkerType, at
  <2>2. QED
    BY <1>5, <1>7, <2>1
<1>8. CASE tw' = [tw EXCEPT !.obj.meta = store[atKey],
                    !.pc = IF at.meta # NoData \/ store[atKey] # NoData THEN "persist" ELSE "save"]
  <2>1. /\ tw'.key = tw.key /\ tw'.stale = tw.stale /\ tw'.obj = [at EXCEPT !.meta = store[k]]
        /\ tw'.pc = IF at.meta # NoData \/ store[k] # NoData THEN "persist" ELSE "save"
    BY <1>2, <1>8 DEF Typed, TypeOK, TokenWorkerType, at
  <2>2. tw'.obj.st = at.st /\ tw'.obj.phase = at.phase /\ tw'.obj.meta = store[k]
    BY <1>3, <2>1 DEF TokenType
  <2>3. QED
    BY <1>5, <2>1, <2>2
<1>9. CASE \E phase \in {"Error", "Invalid"}, again \in BOOLEAN :
             tw' = TFlipTo([at EXCEPT !.meta = NoData], phase, "MetadataFailure", again)
  <2>1. PICK phase \in {"Error", "Invalid"}, again \in BOOLEAN :
             tw' = TFlipTo([at EXCEPT !.meta = NoData], phase, "MetadataFailure", again)
    BY <1>9
  <2>2. /\ tw'.key = tw.key /\ tw'.stale = tw.stale /\ tw'.pc = "flip"
        /\ tw'.obj = [[at EXCEPT !.meta = NoData] EXCEPT !.phase = phase, !.reason = "MetadataFailure"]
    BY <2>1 DEF TFlipTo, Typed, TypeOK, TokenWorkerType
  <2>3. tw'.obj.st = at.st /\ tw'.obj.phase = phase /\ tw'.obj.meta = NoData
    BY <1>3, <2>2 DEF TokenType
  <2>4. QED
    BY <1>5, <2>2, <2>3
<1>10. QED
  BY <1>6, <1>7, <1>8, <1>9

\* Writes of the status: the metadata, an exceptional phase, the final phase.
LEMMA TStatusWake == ASSUME Typed, WakeInv, TPersist \/ TFlip \/ TSaveStatus PROVE WakeInv'
<1>1. tw.pc \in {"persist", "flip", "save"}
  BY DEF TPersist, TFlip, TSaveStatus
<1>2. PICK k \in Tokens : k = atKey
  BY <1>1, TokenSight
<1>3. at \in TokenType /\ tok[k] \in TokenType /\ TokenCopyOK(tw) /\ k = tw.key
  BY <1>1, <1>2, TokenSight DEF atKey
<1>4. CASE \E stale : TCallFails(stale)
  BY <1>1, <1>4, TCallFailsWake
<1>5. ASSUME NEW o PROVE /\ TWithStatus(o).st = tok[k].st /\ TWithStatus(o).phase = o.phase
                         /\ TWithStatus(o).meta = o.meta
  BY <1>2, <1>3 DEF TWithStatus, TokenType
<1>6. CASE TPersist
  <2> DEFINE new == TWithStatus(at)
  <2>1. CASE TLocal /\ tw' = TFlipTo(at, "Error", "MetadataFailure", TRUE)
    <3>1. /\ tw'.key = tw.key /\ tw'.stale = tw.stale /\ tw'.pc = "flip"
          /\ tw'.obj = [at EXCEPT !.phase = "Error", !.reason = "MetadataFailure"]
      BY <2>1 DEF TFlipTo, Typed, TypeOK, TokenWorkerType
    <3>2. tw'.obj.st = at.st /\ tw'.obj.phase = "Error" /\ tw'.obj.meta = at.meta
      BY <1>3, <3>1 DEF TokenType
    <3>3. UNCHANGED <<tok, store>>
      BY <2>1 DEF TLocal, objects
    <3>4. TokenCopyOK(tw)'
      BY <1>3, <3>1, <3>2, <3>3 DEF TokenCopyOK, Backed, at
    <3>5. AtWork(k)'
      BY <1>3, <3>1 DEF AtWork
    <3>6. QED
      BY <1>1, <1>2, <1>3, <2>1, <3>1, <3>4, <3>5, TLocalWake
  <2>2. CASE ~(TLocal /\ tw' = TFlipTo(at, "Error", "MetadataFailure", TRUE))
    <3>1. /\ tok' = [tok EXCEPT ![atKey] = new] /\ tq \subseteq tq' /\ UNCHANGED <<store, du, up>>
          /\ ~tw.stale /\ tw.pc = "persist" /\ tw' = [tw EXCEPT !.pc = "save"]
      BY <1>6, <2>2 DEF TPersist, SendToken, outside
    <3>2. tok'[k] = new /\ new.st = tok[k].st /\ new.phase = at.phase /\ new.meta = at.meta
      BY <1>2, <1>5, <3>1 DEF Typed, TypeOK
    <3> HIDE DEF new
    <3>3. tw'.key = tw.key /\ tw'.stale = tw.stale /\ tw'.obj = at /\ tw'.pc = "save"
      BY <3>1 DEF Typed, TypeOK, TokenWorkerType, at
    <3>4. TokenCopyOK(tw)'
      BY <1>3, <3>1, <3>2, <3>3 DEF TokenCopyOK, Backed, at
    <3>5. new.st = "live" => Backed(new, k) /\ AtWork(k)'
      BY <1>3, <3>1, <3>2, <3>3 DEF TokenCopyOK, Backed, AtWork, at
    <3>6. QED
      BY <1>1, <1>2, <3>1, <3>4, <3>5, TWriteWake
  <2>3. QED
    BY <2>1, <2>2
<1>7. CASE ~(\E stale : TCallFails(stale)) /\ TFlip
  <2> DEFINE new == TWithStatus(at)
  <2>1. /\ tok' = [tok EXCEPT ![atKey] = new] /\ tq \subseteq tq' /\ UNCHANGED <<store, du, up>>
        /\ tw.pc = "flip" /\ tw'.pc = "idle"
    BY <1>7 DEF TFlip, TReturn, IdleTokenWorker, outside
  <2>2. new.st = tok[k].st /\ new.phase \in {"Error", "Invalid"} /\ new.meta = at.meta
    BY <1>3, <1>5, <2>1 DEF TokenCopyOK, at
  <2> HIDE DEF new
  <2>3. new.st = "live" => Backed(new, k)
    BY <1>3, <2>2 DEF TokenCopyOK, Backed, at
  <2>4. QED
    BY <1>1, <1>2, <2>1, <2>2, <2>3, TWriteWake
<1>8. CASE ~(\E stale : TCallFails(stale)) /\ TSaveStatus
  <2> DEFINE new == TWithStatus(Filled(at))
  <2>1. /\ tok' = [tok EXCEPT ![atKey] = new] /\ tq \subseteq tq' /\ UNCHANGED <<store, du, up>>
        /\ tw.pc = "save" /\ ~tw.stale
    BY <1>8 DEF TSaveStatus, TPut, PutToken, SendToken, outside
  <2>2. /\ Filled(at).st = at.st /\ Filled(at).meta = at.meta
        /\ Filled(at).phase = IF at.meta = NoData THEN "AwaitingTokenData" ELSE "Ready"
    BY <1>3 DEF Filled, TokenType
  <2>3. tok'[k] = new /\ new.st = tok[k].st /\ new.phase = Filled(at).phase /\ new.meta = at.meta
    BY <1>2, <1>5, <2>1, <2>2 DEF Typed, TypeOK
  <2> HIDE DEF new
  <2>4. new.st = "live" =>
           /\ Backed(new, k)
           /\ new.phase = "AwaitingTokenData" /\ store[k] # NoData => Pending(k) \/ AtWork(k)'
    BY <1>3, <2>1, <2>2, <2>3 DEF TokenCopyOK, Backed, at
  <2>5. tw'.pc # "idle" => /\ tw'.pc = "refresh" /\ tw'.key = tw.key /\ tw'.obj = Filled(at)
    <3>1. CASE at.refresh
      BY <1>8, <3>1 DEF TSaveStatus, Typed, TypeOK, TokenWorkerType
    <3>2. CASE ~at.refresh
      BY <1>8, <3>2 DEF TSaveStatus, TReturn, IdleTokenWorker
    <3>3. QED
      BY <3>1, <3>2
  <2>6. tw'.pc # "idle" => TokenCopyOK(tw)'
    BY <1>3, <2>1, <2>2, <2>3, <2>5 DEF TokenCopyOK, Backed, at
  <2>7. QED
    BY <1>1, <1>2, <2>1, <2>4, <2>6, TWriteWake
<1>9. QED
  BY <1>4, <1>6, <1>7, <1>8

\* The refresh replaces data that is there.
LEMMA TRefreshWake == ASSUME Typed, WakeInv, TRefresh \/ TStoreRefreshed PROVE WakeInv'
<1>1. tw.pc \in {"refresh", "store"}
  BY DEF TRefresh, TStoreRefreshed
<1>2. PICK k \in Tokens : k = atKey
  BY <1>1, TokenSight
<1>3. TokenCopyOK(tw) /\ Remembered(k) /\ k = tw.key /\ ~AtWork(k)
  BY <1>1, <1>2, TokenSight DEF atKey, AtWork
<1>4. CASE TCallFails(FALSE)
  BY <1>1, <1>4, TCallFailsWake
<1>5. CASE ~TCallFails(FALSE) /\ TRefresh
  <2>1. PICK d \in Data : tw' = [tw EXCEPT !.pc = "store", !.data = d]
    BY <1>5 DEF TRefresh
  <2>2. TLocal /\ store[k] # NoData /\ d # NoData
    BY <1>2, <1>5, ConstantsAssumption DEF TRefresh
  <2>3. tw'.key = tw.key /\ tw'.stale = tw.stale /\ tw'.obj = tw.obj /\ tw'.pc = "store" /\ tw'.data = d
    BY <2>1 DEF Typed, TypeOK, TokenWorkerType
  <2>4. UNCHANGED <<tok, store>>
    BY <2>2 DEF TLocal, objects
  <2>5. TokenCopyOK(tw)'
    BY <1>1, <1>3, <2>2, <2>3, <2>4 DEF TokenCopyOK, Backed
  <2>6. QED
    BY <1>1, <1>2, <1>3, <2>2, <2>3, <2>5, TLocalWake
<1>6. CASE ~TCallFails(FALSE) /\ TStoreRefreshed
  <2>1. /\ tw.pc = "store" /\ store' = [store EXCEPT ![atKey] = tw.data] /\ UNCHANGED <<tok, du, tq, up>>
        /\ tw' = [tw EXCEPT !.pc = "unlabel", !.data = NoData]
    BY <1>6 DEF TStoreRefreshed, queues, outside
  <2>2. store'[k] = tw.data /\ tw.data # NoData /\ \A t \in Tokens \ {k} : store'[t] = store[t]
    BY <1>2, <1>3, <2>1 DEF Typed, TypeOK, TokenCopyOK
  <2>3. Announced /\ OtherTokens
    BY <1>2, <2>1, <2>2, AnnouncedByQueue DEF OtherTokens
  <2>4. tw'.key = tw.key /\ tw'.stale = tw.stale /\ tw'.obj = tw.obj /\ tw'.pc = "unlabel"
    BY <2>1 DEF Typed, TypeOK, TokenWorkerType
  <2>5. TokenCopyOK(tw)'
    BY <1>3, <2>1, <2>2, <2>4 DEF TokenCopyOK, Backed
  <2>6. Remembered(k)'
    BY <1>3, <2>1, <2>2, <2>3 DEF Remembered, Backed, Announced, TokenCopyOK
  <2>7. QED
    BY <1>1, <1>2, <2>3, <2>5, <2>6, OwnWake
<1>7. QED
  BY <1>4, <1>5, <1>6

LEMMA TokenReconcileWake == ASSUME Typed, WakeInv, TokenReconcile PROVE WakeInv'
  BY TGetWake, TFinalizeWake, TMetadataWake, TDecisionsWake, TEnsureWake, TStatusWake, TRefreshWake
  DEF TokenReconcile

\* What Delete makes of a token is not live.
LEMMA DeletedNotLive == ASSUME NEW o \in TokenType PROVE DeletedToken(o).st \notin {"live", "none"}
  BY DEF DeletedToken, SettleToken, Settle, AbsentToken, NewToken, TokenType

\* What OutdateToken leaves of the worker.
LEMMA OutdatedWorker ==
  ASSUME Typed, NEW t, NEW changed \in BOOLEAN, OutdateToken(t, changed)
  PROVE  /\ tw'.pc = tw.pc /\ tw'.key = tw.key /\ tw'.obj = tw.obj /\ tw'.data = tw.data
         /\ tw'.stale \in BOOLEAN /\ (tw.stale => tw'.stale)
         /\ tw.key = t /\ changed => tw'.stale
         /\ tw.key # t => tw'.stale = tw.stale
  BY DEF OutdateToken, Typed, TypeOK, TokenWorkerType

\* Users create, delete and label tokens.
LEMMA UserTokensWake == ASSUME Typed, WakeInv, CreateToken \/ DeleteToken \/ RequestRefresh PROVE WakeInv'
<1> DEFINE Write(t, new) == /\ PutTokenByUser(t, new)
                            /\ \/ tok[t].st = "none" /\ \E spec \in TokenSpecs : new = NewToken(spec)
                               \/ new = DeletedToken(tok[t])
                               \/ new = [tok[t] EXCEPT !.refresh = TRUE]
<1>0. PICK t \in Tokens : \E new : Write(t, new)
  BY DEF CreateToken, DeleteToken, RequestRefresh
<1>1. PICK new : Write(t, new)
  BY <1>0
<1>2. UNCHANGED <<store, du, up>>
  BY DEF CreateToken, DeleteToken, RequestRefresh, UserOp
<1>3. tok' = [tok EXCEPT ![t] = new] /\ tq \subseteq tq' /\ OutdateToken(t, new # tok[t])
  BY <1>1 DEF PutTokenByUser, PutToken, SendToken
<1>4. Announced
  BY <1>2, <1>3, AnnouncedByQueue
<1>5. /\ tok[t].st # "none" => new.st # "none"
      /\ new.st = "live" =>
           \/ tok[t].st = "live" /\ new.phase = tok[t].phase /\ new.meta = tok[t].meta
           \/ tok[t].st = "none" /\ new.phase = "" /\ new.meta = NoData
  <2>1. tok[t] \in TokenType
    BY DEF Typed, TypeOK
  <2>2. CASE tok[t].st = "none" /\ \E spec \in TokenSpecs : new = NewToken(spec)
    <3>1. PICK spec \in TokenSpecs : new = NewToken(spec)
      BY <2>2
    <3>2. new.phase = "" /\ new.meta = NoData
      BY <3>1 DEF NewToken
    <3>3. QED
      BY <2>2, <3>2
  <2>3. CASE new = DeletedToken(tok[t])
    BY <2>1, <2>3, DeletedNotLive
  <2>4. CASE new = [tok[t] EXCEPT !.refresh = TRUE]
    BY <2>1, <2>4 DEF TokenType
  <2>5. QED
    BY <1>1, <2>2, <2>3, <2>4
<1>6. /\ tw'.pc = tw.pc /\ tw'.key = tw.key /\ tw'.obj = tw.obj /\ tw'.data = tw.data
      /\ tw'.stale \in BOOLEAN /\ (tw.stale => tw'.stale)
      /\ tw.key = t /\ new # tok[t] => tw'.stale
      /\ tw.key # t => tw'.stale = tw.stale
  BY <1>3, OutdatedWorker
<1>7. QED
  BY <1>2, <1>3, <1>4, <1>5, <1>6, ForeignWrite

\* The binding controller's writes of tokens: the metadata that Lookup persists,
\* the token created for a binding, and its deletion when linking fails.
LEMMA BEnsureWake == ASSUME Typed, WakeInv, BEnsure PROVE WakeInv'
<1>1. UNCHANGED <<store, du, up>>
  BY DEF BEnsure, outside
<1>2. CASE UNCHANGED <<tok, tw, tq, bq>>
  BY <1>1, <1>2, AnnouncedByQueue, UnwrittenWake
<1>3. CASE ~UNCHANGED <<tok, tw, tq, bq>>
  <2>1. PICK t \in bw.todo :
          LET d == store[t]
              persists == t \in bw.had \/ d # NoData
              new == IF persists THEN [tok[t] EXCEPT !.meta = d] ELSE tok[t]
              changed == persists /\ Restamped(t, new)
          IN SendToken(t, new, changed) /\ OutdateToken(t, changed)
    BY <1>3 DEF BEnsure
  <2> DEFINE persists == t \in bw.had \/ store[t] # NoData
             new == IF persists THEN [tok[t] EXCEPT !.meta = store[t]] ELSE tok[t]
             changed == persists /\ Restamped(t, new)
  <2>2. t \in Tokens
    BY DEF Typed, TypeOK, BindingWorkerType
  <2>3. tok[t] \in TokenType
    BY <2>2 DEF Typed, TypeOK
  <2>4. new.st = tok[t].st /\ new.phase = tok[t].phase /\ (new.meta = tok[t].meta \/ new.meta = store[t])
    BY <2>3 DEF TokenType
  <2>5. changed \in BOOLEAN /\ (new # tok[t] => changed)
    BY DEF Restamped
  <2>6. SendToken(t, new, changed) /\ OutdateToken(t, changed)
    BY <2>1
  <2> HIDE DEF new, changed
  <2>7. tok' = [tok EXCEPT ![t] = new] /\ tq \subseteq tq'
    BY <2>6 DEF SendToken
  <2>8. /\ tw'.pc = tw.pc /\ tw'.key = tw.key /\ tw'.obj = tw.obj /\ tw'.data = tw.data
        /\ tw'.stale \in BOOLEAN /\ (tw.stale => tw'.stale)
        /\ tw.key = t /\ new # tok[t] => tw'.stale
        /\ tw.key # t => tw'.stale = tw.stale
    BY <2>5, <2>6, OutdatedWorker
  <2>9. Announced
    BY <1>1, <2>7, AnnouncedByQueue
  <2>10. QED
    BY <1>1, <2>2, <2>4, <2>7, <2>8, <2>9, ForeignWrite
<1>4. QED
  BY <1>2, <1>3

LEMMA BCreateTokenWake == ASSUME Typed, WakeInv, BCreateToken PROVE WakeInv'
<1>1. CASE BLocal
  BY <1>1, AnnouncedByQueue, UnwrittenWake DEF BLocal, objects, queues, outside
<1>2. CASE ~BLocal
  <2>1. PICK t \in Tokens : tok[t].st = "none" /\ PutToken(t, NewToken("ok"))
    BY <1>2 DEF BCreateToken
  <2>2. UNCHANGED <<store, du, up, tw>>
    BY <1>2 DEF BCreateToken, outside
  <2>3. PICK new : new = NewToken("ok")
    OBVIOUS
  <2>4. tok' = [tok EXCEPT ![t] = new] /\ tq \subseteq tq'
    BY <2>1, <2>3 DEF PutToken, SendToken
  <2>5. new.phase = "" /\ new.meta = NoData
    BY <2>3 DEF NewToken
  <2>6. Announced /\ tw.stale \in BOOLEAN
    BY <2>2, <2>4, AnnouncedByQueue DEF Typed, TypeOK, TokenWorkerType
  <2>7. QED
    BY <2>1, <2>2, <2>4, <2>5, <2>6, ForeignWrite
<1>3. QED
  BY <1>1, <1>2

LEMMA BUndoWake == ASSUME Typed, WakeInv, BUndo PROVE WakeInv'
<1>1. PICK t \in Tokens : t = bw.token
  BY DEF BUndo, Typed, BindingWorkerOK
<1>2. UNCHANGED <<store, du, up>>
  BY DEF BUndo, outside
<1>3. CASE UNCHANGED <<tok, tw, tq>>
  BY <1>2, <1>3, AnnouncedByQueue, UnwrittenWake
<1>4. CASE ~UNCHANGED <<tok, tw, tq>>
  <2>1. PICK new : new = DeletedToken(tok[t])
    OBVIOUS
  <2>2. tok' = [tok EXCEPT ![t] = new] /\ tq \subseteq tq' /\ OutdateToken(t, new # tok[t])
    BY <1>1, <1>4, <2>1 DEF BUndo
  <2>3. new.st \notin {"live", "none"}
    BY <2>1, DeletedNotLive DEF Typed, TypeOK
  <2>4. /\ tw'.pc = tw.pc /\ tw'.key = tw.key /\ tw'.obj = tw.obj /\ tw'.data = tw.data
        /\ tw'.stale \in BOOLEAN /\ (tw.stale => tw'.stale)
        /\ tw.key = t /\ new # tok[t] => tw'.stale
        /\ tw.key # t => tw'.stale = tw.stale
    BY <2>2, OutdatedWorker
  <2>5. Announced
    BY <1>2, <2>2, AnnouncedByQueue
  <2>6. QED
    BY <1>2, <2>2, <2>3, <2>4, <2>5, ForeignWrite
<1>5. QED
  BY <1>3, <1>4

\* A step that neither writes tokens or data nor announces any.
Apart == UNCHANGED <<tok, store, tw, du, up>> /\ tq \subseteq tq'

LEMMA ApartWake == ASSUME Typed, WakeInv, Apart PROVE WakeInv'
  BY AnnouncedByQueue, UnwrittenWake DEF Apart

\* The other steps of the binding controller write no token.
LEMMA BOthersApart ==
  ASSUME BindingReconcile, ~BEnsure, ~BCreateToken, ~BUndo
  PROVE  Apart
<1> USE DEF Apart
<1>1. ASSUME NEW stale, BCallFails(stale) PROVE Apart
  BY <1>1 DEF BCallFails, objects, outside
<1>2. ASSUME NEW new, BPut(new) PROVE Apart
  BY <1>2 DEF BPut, PutBinding, outside
<1>3. ASSUME NEW o, NEW next, BStatusError(o, next) PROVE Apart
  BY <1>3 DEF BStatusError, outside
<1>4. ASSUME BLocal PROVE Apart
  BY <1>4 DEF BLocal, objects, queues, outside
<1>5. ASSUME NEW b, NEW names, CleanedUp(b, names) PROVE UNCHANGED <<tok, store, du>>
  BY <1>5 DEF CleanedUp
<1>6. CASE BBadUrl \/ BBadLifetime \/ BInvalid \/ BLookupFails \/ BMismatch \/ BFail \/ BNoProvider
  BY <1>3, <1>4, <1>6 DEF BBadUrl, BBadLifetime, BInvalid, BLookupFails, BMismatch, BFail, BNoProvider
<1>7. CASE BSaveUrl \/ BMigrateAreas \/ BUnfinalize \/ BMigrateFinalizers \/ BAddFinalizer
  BY <1>1, <1>2, <1>7 DEF BSaveUrl, BMigrateAreas, BUnfinalize, BMigrateFinalizers, BAddFinalizer
<1>8. CASE BDelete \/ BFinalize \/ BGet
  BY <1>1, <1>5, <1>8 DEF BDelete, BFinalize, BGet, PutBinding, objects, outside
<1>9. CASE BLookup \/ BLinkMatch \/ BLoadLinked \/ BPrepare
  BY <1>1, <1>4, <1>9 DEF BLookup, BLinkMatch, BLoadLinked, BPrepare
<1>10. CASE BLabel \/ BLinkStatus \/ BFinish
  BY <1>2, <1>4, <1>10 DEF BLabel, BLinkStatus, BFinish
<1>11. CASE BInject
  BY <1>4, <1>11 DEF BInject, outside
<1>12. CASE BCleanup \/ BRevert
  BY <1>5, <1>12 DEF BCleanup, BRevert, objects, outside
<1>13. QED
  BY <1>6, <1>7, <1>8, <1>9, <1>10, <1>11, <1>12 DEF BindingReconcile

\* Timers, time, and the users of bindings and secrets write no token either.
LEMMA BystandersApart ==
  ASSUME \/ TokenTimer \/ BindingTimer \/ TokenAges \/ BindingAges
         \/ CreateBinding \/ DeleteBinding \/ DeleteSecret \/ UNCHANGED vars
  PROVE  Apart
<1>1. CASE TokenTimer \/ BindingTimer \/ TokenAges \/ BindingAges \/ UNCHANGED vars
  BY <1>1 DEF Apart, TokenTimer, BindingTimer, TokenAges, BindingAges, vars, objects, workers, queues, outside
<1>2. CASE CreateBinding \/ DeleteBinding \/ DeleteSecret
  BY <1>2 DEF Apart, CreateBinding, DeleteBinding, DeleteSecret, PutBinding, UserOp, workers
<1>3. QED
  BY <1>1, <1>2

\* A step of the upload: what it stores is to be announced.
LEMMA StoredWake ==
  ASSUME Typed, WakeInv, UNCHANGED <<tok, tw>>, \A c \in Tokens : Pending(c) => Pending(c)',
         \A c \in Tokens : store'[c] = store[c] \/ (store'[c] # NoData /\ Pending(c)'),
         up'.pc = "store" => up'.data # NoData
  PROVE  WakeInv'
<1>1. ASSUME NEW c \in Tokens PROVE Remembered(c)'
  <2>1. Remembered(c) /\ (AtWork(c) => AtWork(c)')
    BY DEF WakeInv, AtWork
  <2>2. QED
    BY <2>1 DEF Remembered, Backed
<1>2. ASSUME tw.pc # "idle" PROVE TokenCopyOK(tw)'
  <2>1. PICK k \in Tokens : k = tw.key
    BY <1>2, TCopyTyped DEF atKey
  <2>2. TokenCopyOK(tw) /\ (Pending(k) => Pending(k)')
    BY <1>2 DEF WakeInv
  <2>3. store'[k] = store[k] \/ (store'[k] # NoData /\ Pending(k)')
    OBVIOUS
  <2>4. QED
    BY <2>1, <2>2, <2>3 DEF TokenCopyOK, Backed, Pending
<1>3. QED
  BY <1>1, <1>2 DEF WakeInv

\* The upload: stored data is announced, or the upload ends with an error; the
\* announcement outlives its data update as a wake-up.
LEMMA UploadWake == ASSUME Typed, WakeInv, Service \/ UploadGet PROVE WakeInv'
<1>1. up \in UploaderType /\ (up.pc # "idle" => up.key \in Tokens)
  BY DEF Typed, TypeOK, UploaderOK, UploaderType
<1>2. CASE UploadGet
  <2>1. PICK t \in LiveTokens, d \in Data : up' = [up EXCEPT !.pc = "store", !.key = t, !.data = d]
    BY <1>2 DEF UploadGet
  <2>2. UNCHANGED <<tok, tw, tq, du, store>> /\ up.pc = "idle"
    BY <1>2 DEF UploadGet, objects, workers, queues
  <2>3. up'.data = d /\ up'.lost = up.lost /\ d # NoData
    BY <1>1, <2>1, ConstantsAssumption DEF UploaderType
  <2>4. \A c \in Tokens : Pending(c) => Pending(c)'
    BY <2>2, <2>3 DEF Pending
  <2>5. QED
    BY <2>2, <2>3, <2>4, StoredWake
<1>3. CASE UploadStore
  <2>1. UNCHANGED <<tok, tw, tq, du>> /\ up.pc = "store" /\ up.data # NoData
    BY <1>3 DEF UploadStore, workers, queues, WakeInv
  <2>2. CASE store' = [store EXCEPT ![up.key] = up.data] /\ up' = [up EXCEPT !.pc = "notify", !.data = NoData]
    <3>1. up'.pc = "notify" /\ up'.key = up.key /\ up'.lost = up.lost
      BY <1>1, <2>2 DEF UploaderType
    <3>2. \A c \in Tokens : Pending(c) => Pending(c)'
      BY <2>1, <3>1 DEF Pending
    <3>3. \A c \in Tokens : store'[c] = store[c] \/ (store'[c] # NoData /\ Pending(c)')
      BY <1>1, <2>1, <2>2, <3>1 DEF Pending, Typed, TypeOK
    <3>4. QED
      BY <2>1, <3>1, <3>2, <3>3, StoredWake
  <2>3. CASE up' = Uploaded(up.lost) /\ UNCHANGED store
    <3>1. up'.pc = "idle" /\ up'.lost = up.lost
      BY <2>3 DEF Uploaded, IdleUploader
    <3>2. \A c \in Tokens : Pending(c) => Pending(c)'
      BY <2>1, <3>1 DEF Pending
    <3>3. QED
      BY <2>1, <2>3, <3>1, <3>2, StoredWake
  <2>4. QED
    BY <1>3, <2>2, <2>3 DEF UploadStore
<1>4. CASE UploadNotify
  <2>1. UNCHANGED <<tok, tw, store>> /\ up.pc = "notify"
    BY <1>4 DEF UploadNotify, workers
  <2>2. /\ up'.pc = "idle" /\ du \subseteq du' /\ tq \subseteq tq'
        /\ up.lost \ {up.key} \subseteq up'.lost /\ (up.key \in up'.lost \/ up.key \in tq')
    BY <1>4 DEF UploadNotify, Uploaded, IdleUploader, DataUpdateOwner
  <2>3. \A c \in Tokens : Pending(c) => Pending(c)'
    BY <2>1, <2>2 DEF Pending
  <2>4. QED
    BY <2>1, <2>2, <2>3, StoredWake
<1>5. CASE ProcessDataUpdate
  <2>1. UNCHANGED <<tok, tw, store, up>> /\ tq \subseteq tq' /\ \A c \in du : c \in du' \cup tq'
    BY <1>5 DEF ProcessDataUpdate, workers, DataUpdateOwner
  <2>2. \A c \in Tokens : Pending(c) => Pending(c)'
    BY <2>1 DEF Pending
  <2>3. QED
    BY <2>1, <2>2, StoredWake DEF WakeInv
<1>6. QED
  BY <1>2, <1>3, <1>4, <1>5 DEF Service

\* A restarted operator has every existing token in its queue.
LEMMA StartOverWake == ASSUME WakeInv, StartOver PROVE WakeInv'
<1>1. tw'.pc = "idle" /\ UNCHANGED <<tok, store, up>> /\ tq' = LiveTokens
  BY DEF StartOver, IdleTokenWorker, objects
<1>2. ASSUME NEW t \in Tokens PROVE Remembered(t)'
  BY <1>1 DEF WakeInv, Remembered, Backed, Pending, LiveTokens, Present
<1>3. QED
  BY <1>1, <1>2 DEF WakeInv

\* Every step remembers the tokens.
LEMMA NextWake == ASSUME Typed, WakeInv, [Next]_vars PROVE WakeInv'
<1>1. CASE BindingReconcile
  BY <1>1, BEnsureWake, BCreateTokenWake, BUndoWake, BOthersApart, ApartWake
<1>2. CASE Restart \/ RefreshPanics
  BY <1>2, StartOverWake DEF Restart, RefreshPanics
<1>3. QED
  BY <1>1, <1>2, TokenReconcileWake, UserTokensWake, BystandersApart, ApartWake, UploadWake
  DEF Next, Controllers, Users, Environment

\* No token exists at first.
LEMMA InitWake == Init => WakeInv
<1>1. AbsentToken("none").st = "none"
  BY DEF AbsentToken, NewToken
<1>2. QED
  BY <1>1 DEF Init, WakeInv, Remembered, IdleTokenWorker, IdleUploader

\* No token is forgotten, for any number of tokens, bindings, uploads, failures
\* and restarts: the two controllers, the storage and the data updates leave no
\* token at rest that awaits data which was stored and announced, or that is
\* ready without data.
THEOREM NoTokenForgotten == Spec => []QuiescentTokens
<1>1. BindingInv => Typed
  BY DEF BindingInv, FinInv
<1>2. Typed /\ WakeInv /\ [Next]_vars => WakeInv'
  BY NextWake
<1>3. WakeInv => QuiescentTokens
  BY DEF WakeInv, Remembered, Backed, Pending, AtWork, QuiescentTokens, Quiescent
<1>4. QED
  BY <1>1, <1>2, <1>3, InitWake, BindingInvHolds, PTL DEF Spec

-----------------------------------------------------------------------------
(* No wake-up of the binding controller is lost. What a binding says of its     *)
(* token and its secret is right, or the binding is queued, being reconciled or *)
(* among those whose report was lost. Three things keep the secret from being   *)
(* right without the binding being queued: data stored and not announced, a     *)
(* refresh on its way to the write that ends it, and the finalizer of a token.  *)
(* First, that the last two do come to an end.                                  *)

\* A token being deleted is queued or being finalized.
Leaving(t) ==
  tok[t].st = "deleting" =>
    t \in tq \/ (tw.pc \in {"loaded", "unfinalize"} /\ tw.key = t /\ tw.obj.st = "deleting")

\* The worker knows of the refresh label of the token it reconciles, or will be
\* told; the label stays until the worker itself removes it.
RefreshKnown ==
  tw.pc # "idle" =>
    /\ tok[tw.key].st = "live" =>
         /\ tw.obj.refresh => tok[tw.key].refresh
         /\ tok[tw.key].refresh => tw.obj.refresh \/ tw.key \in tq
    /\ tw.pc \in {"refresh", "store", "unlabel"} => tw.obj.refresh

HoldInv == RefreshKnown /\ \A t \in Tokens : Leaving(t)

\* A step of the token worker on its token.
LEMMA OwnHold ==
  ASSUME Typed, HoldInv, tw.pc # "idle", tq \subseteq tq', \A t \in Tokens \ {atKey} : tok'[t] = tok[t],
         RefreshKnown', NEW k, k = atKey, Leaving(k)'
  PROVE  HoldInv'
<1>1. ASSUME NEW t \in Tokens, t # k PROVE Leaving(t)'
  <2>1. tok'[t] = tok[t] /\ Leaving(t) /\ tw.key # t
    BY <1>1 DEF HoldInv, atKey
  <2>2. QED
    BY <2>1 DEF Leaving
<1>2. QED
  BY <1>1 DEF HoldInv

\* Steps of others: they delete a token with an event, and a token that exists
\* gets the refresh label with an event and keeps it.
LEMMA ForeignHold ==
  ASSUME Typed, WakeInv, HoldInv, tq \subseteq tq', tw'.pc = tw.pc, tw'.key = tw.key, tw'.obj = tw.obj,
         \A t \in Tokens :
           /\ tok'[t].st = "deleting" => tok[t].st = "deleting" \/ t \in tq'
           /\ tok'[t].st = "live" /\ tok[t].st # "none" =>
                /\ tok[t].st = "live" /\ (tok[t].refresh => tok'[t].refresh)
                /\ tok'[t].refresh => tok[t].refresh \/ t \in tq'
  PROVE  HoldInv'
<1>1. ASSUME NEW t \in Tokens PROVE Leaving(t)'
  BY DEF HoldInv, Leaving
<1>2. RefreshKnown'
  <2>1. CASE tw.pc = "idle"
    BY <2>1 DEF RefreshKnown
  <2>2. CASE tw.pc # "idle"
    <3>1. tw.key \in Tokens /\ tok[tw.key].st # "none"
      BY <2>2, TokenSight DEF TokenCopyOK, atKey
    <3>2. QED
      BY <3>1 DEF HoldInv, RefreshKnown
  <2>3. QED
    BY <2>1, <2>2
<1>3. QED
  BY <1>1, <1>2 DEF HoldInv

\* A step that writes no token.
LEMMA UnwrittenHold ==
  ASSUME Typed, WakeInv, HoldInv, tok' = tok, tq \subseteq tq', tw' = tw
  PROVE  HoldInv'
  BY ForeignHold

\* A failing call: the key is queued again.
LEMMA TCallFailsHold ==
  ASSUME Typed, HoldInv, tw.pc # "idle", NEW stale, TCallFails(stale)
  PROVE  HoldInv'
<1>1. tok' = tok /\ tw'.pc = "idle" /\ tq \subseteq tq' /\ atKey \in tq'
  BY DEF TCallFails, TReturnErr, IdleTokenWorker, objects
<1>2. PICK k \in Tokens : k = atKey
  BY TCopyTyped
<1>3. RefreshKnown' /\ Leaving(k)'
  BY <1>1, <1>2 DEF RefreshKnown, Leaving
<1>4. QED
  BY <1>1, <1>2, <1>3, OwnHold

\* A step of the worker between two calls, past the decision to finalize.
LEMMA TLocalHold ==
  ASSUME Typed, HoldInv, tw.pc # "idle", TLocal, tw'.key = tw.key, tw'.obj.refresh = tw.obj.refresh,
         ~(tw.pc \in {"loaded", "unfinalize"} /\ at.st = "deleting"),
         tw'.pc \in {"refresh", "store", "unlabel"} => tw.pc \in {"refresh", "store", "unlabel"}
  PROVE  HoldInv'
<1>1. tok' = tok /\ tq' = tq
  BY DEF TLocal, objects, queues
<1>2. PICK k \in Tokens : k = atKey
  BY TCopyTyped
<1>3. RefreshKnown' /\ Leaving(k)'
  BY <1>1, <1>2 DEF HoldInv, RefreshKnown, Leaving, at, atKey
<1>4. QED
  BY <1>1, <1>2, <1>3, OwnHold

\* A write by the worker that keeps the token's state and its refresh label.
LEMMA TWriteHold ==
  ASSUME Typed, HoldInv, tw.pc # "idle", ~(tw.pc \in {"loaded", "unfinalize"} /\ at.st = "deleting"),
         NEW new, tok' = [tok EXCEPT ![atKey] = new], tq \subseteq tq', new.st = tok[atKey].st,
         tw'.pc # "idle" =>
           /\ new.refresh = tok[atKey].refresh /\ tw'.key = tw.key
           /\ tw'.obj.refresh = tw.obj.refresh \/ tw'.obj.refresh = new.refresh
           /\ tw'.pc \in {"refresh", "store", "unlabel"} => tw'.obj.refresh
  PROVE  HoldInv'
<1>1. PICK k \in Tokens : k = atKey
  BY TCopyTyped
<1>2. tok'[k] = new /\ \A t \in Tokens \ {k} : tok'[t] = tok[t]
  BY <1>1 DEF Typed, TypeOK
<1>3. Leaving(k)'
  BY <1>1, <1>2 DEF HoldInv, Leaving, at, atKey
<1>4. RefreshKnown'
  BY <1>1, <1>2 DEF HoldInv, RefreshKnown, atKey
<1>5. QED
  BY <1>1, <1>2, <1>3, <1>4, OwnHold

\* What excuses a secret that differs from the storage's data for token t.
Excused(t) ==
  \/ t \in up.lost \/ (up.pc = "notify" /\ up.key = t)
  \/ tok[t].st = "deleting"
  \/ tok[t].refresh /\ (t \in tq \/ (tw.pc # "idle" /\ tw.key = t))

\* A token that a secret can be filled from.
Usable(t) == Present(tok[t]) /\ tok[t].phase = "Ready"

\* A step as the bindings see it: either all of them are woken, or the tokens stay
\* as they are, data changes with an excuse, and the bindings linked to a token
\* are woken when its excuse ends.
Steady ==
  \/ LiveBindings \subseteq bq'
  \/ /\ tok' = tok
     /\ \A t \in Tokens : Usable(t) =>
          /\ store'[t] = store[t] \/ Excused(t)'
          /\ Excused(t) => Excused(t)' \/ LinkedTo(t) \subseteq bq'

\* A step of the token worker: the end of its excuse for token k is what matters.
LEMMA OwnSteady ==
  ASSUME Typed, tw.pc # "idle", up' = up, tq \subseteq tq', tok' = tok \/ LiveBindings \subseteq bq',
         \A t \in Tokens \ {atKey} : store'[t] = store[t], NEW k, k = atKey,
         tok' = tok /\ Usable(k) => /\ store'[k] = store[k] \/ Excused(k)'
                                    /\ Excused(k) => Excused(k)'
  PROVE  Steady
<1>1. ASSUME NEW t \in Tokens, t # k, tok' = tok, Excused(t) PROVE Excused(t)'
  BY <1>1 DEF Excused, atKey
<1>2. QED
  BY <1>1 DEF Steady

LEMMA KeptSteady ==
  ASSUME Typed, tw.pc # "idle", up' = up, tq \subseteq tq', store' = store, tok' = tok \/ LiveBindings \subseteq bq',
         \/ tw'.pc # "idle" /\ tw'.key = tw.key
         \/ atKey \in tq' \/ tok' # tok \/ tok[atKey].st = "deleting" \/ ~tok[atKey].refresh \/ ~Usable(atKey)
  PROVE  Steady
<1>1. PICK k \in Tokens : k = atKey
  BY TCopyTyped
<1>2. ASSUME tok' = tok, Usable(k), Excused(k) PROVE Excused(k)'
  BY <1>1, <1>2 DEF Excused, atKey
<1>3. QED
  BY <1>1, <1>2, OwnSteady

\* Events of a write by the server.
LEMMA PutWakes ==
  ASSUME Typed, NEW t \in Tokens, NEW new, NEW changed, SendToken(t, new, changed), new # tok[t] => changed
  PROVE  /\ tok' = [tok EXCEPT ![t] = new] /\ tok'[t] = new /\ tq \subseteq tq' /\ bq \subseteq bq'
         /\ new # tok[t] => t \in tq'
         /\ tok' = tok \/ LiveBindings \subseteq bq'
<1>1. tok' = [tok EXCEPT ![t] = new] /\ tok'[t] = new /\ tq \subseteq tq' /\ bq \subseteq bq'
  BY DEF SendToken, Typed, TypeOK
<1>2. CASE new # tok[t]
  BY <1>1, <1>2 DEF SendToken, TokensWokenBy, BindingsWokenBy
<1>3. CASE new = tok[t]
  BY <1>1, <1>3 DEF Typed, TypeOK
<1>4. QED
  BY <1>1, <1>2, <1>3

\* What the two controllers' keys and the tokens' excuses need of a step.
HoldStep == HoldInv' /\ Steady

LEMMA TCallFailsHolds ==
  ASSUME Typed, HoldInv, tw.pc # "idle", NEW stale, TCallFails(stale)
  PROVE  HoldStep
<1>1. UNCHANGED <<tok, store, up>> /\ tq \subseteq tq' /\ atKey \in tq'
  BY DEF TCallFails, TReturnErr, objects, outside
<1>2. QED
  BY <1>1, TCallFailsHold, KeptSteady DEF HoldStep

LEMMA TLocalHolds ==
  ASSUME Typed, HoldInv, tw.pc # "idle", TLocal, tw'.pc # "idle", tw'.key = tw.key, tw'.obj.refresh = tw.obj.refresh,
         ~(tw.pc \in {"loaded", "unfinalize"} /\ at.st = "deleting"),
         tw'.pc \in {"refresh", "store", "unlabel"} => tw.pc \in {"refresh", "store", "unlabel"}
  PROVE  HoldStep
<1>1. UNCHANGED <<tok, store, up, tq>>
  BY DEF TLocal, objects, queues, outside
<1>2. QED
  BY <1>1, TLocalHold, KeptSteady DEF HoldStep

\* Loading: the key leaves the queue for the worker, whose copy is the server's.
LEMMA TGetHolds == ASSUME Typed, HoldInv, TGet PROVE HoldStep
<1>1. PICK t \in tq : /\ tq' = tq \ {t}
                      /\ tw' = IF Present(tok[t])
                               THEN [IdleTokenWorker EXCEPT !.pc = "loaded", !.key = t, !.obj = tok[t]]
                               ELSE tw
  BY DEF TGet
<1>2. t \in Tokens /\ tw.pc = "idle" /\ UNCHANGED <<tok, store, up>>
  BY DEF Typed, TypeOK, TGet, objects, outside
<1>3. Present(tok[t]) => tw'.pc = "loaded" /\ tw'.key = t /\ tw'.obj = tok[t]
  BY <1>1 DEF IdleTokenWorker
<1>4. ~Present(tok[t]) => tw' = tw
  BY <1>1
<1>5. ASSUME NEW c \in Tokens PROVE Leaving(c)'
  BY <1>1, <1>2, <1>3, <1>4 DEF HoldInv, Leaving, Present
<1>6. RefreshKnown'
  BY <1>2, <1>3, <1>4 DEF RefreshKnown
<1>7. ASSUME NEW c \in Tokens, Usable(c), Excused(c) PROVE Excused(c)'
  BY <1>1, <1>2, <1>3, <1>7 DEF Usable, Excused
<1>8. QED
  BY <1>2, <1>5, <1>6, <1>7 DEF HoldStep, HoldInv, Steady

\* Finalizing: the token has been deleted, so the loss of its data is excused.
LEMMA TFinalizeHolds == ASSUME Typed, WakeInv, HoldInv, TFinalize PROVE HoldStep
<1>1. tw.pc = "loaded" /\ at.st = "deleting" /\ UNCHANGED <<tok, up, bq>>
  BY DEF TFinalize, outside
<1>2. PICK k \in Tokens : k = atKey
  BY <1>1, TokenSight
<1>3. tok[k].st # "live"
  BY <1>1, <1>2, TokenSight DEF TokenCopyOK, at, atKey
<1>4. \/ tw'.pc = "idle" /\ tq' = tq \cup {k}
      \/ tw'.pc = "unfinalize" /\ tw'.key = tw.key /\ tw'.obj.st = "deleting" /\ tq' = tq
  <2>1. CASE TReturnErr
    BY <1>2, <2>1 DEF TReturnErr, IdleTokenWorker
  <2>2. CASE TFinalized
    BY <1>1, <2>2 DEF TFinalized, Typed, TypeOK, TokenWorkerType, TokenType, at
  <2>3. QED
    BY <2>1, <2>2 DEF TFinalize
<1>5. RefreshKnown' /\ Leaving(k)'
  BY <1>1, <1>2, <1>3, <1>4 DEF RefreshKnown, Leaving, atKey
<1>6. HoldInv'
  BY <1>1, <1>2, <1>4, <1>5, OwnHold
<1>7. \A t \in Tokens \ {k} : store'[t] = store[t]
  BY <1>2 DEF TFinalize, EraseData, Typed, TypeOK
<1>8. Usable(k) => Excused(k)'
  BY <1>1, <1>3 DEF Usable, Present, Excused
<1>9. Steady
  BY <1>1, <1>2, <1>4, <1>7, <1>8, OwnSteady
<1>10. QED
  BY <1>6, <1>9 DEF HoldStep

\* The decisions of Reconcile: the worker keeps its key and what it knows of the label.
LEMMA TDecisionsHolds ==
  ASSUME Typed, HoldInv, TCheckObsolete \/ TCheckData \/ TEnsure \/ TRefresh
  PROVE  HoldStep
<1>1. tw.pc \in {"loaded", "ensure", "refresh"} /\ (tw.pc = "loaded" => at.st = "live") /\ tw.pc # "idle"
  BY DEF TCheckObsolete, TCheckData, TEnsure, TRefresh
<1>2. CASE \E stale : TCallFails(stale)
  BY <1>1, <1>2, TCallFailsHolds
<1>3. ASSUME NEW o, o.refresh = at.refresh, NEW phase, NEW reason, NEW again, tw' = TFlipTo(o, phase, reason, again),
             o \in TokenType
      PROVE  tw'.pc = "flip" /\ tw'.key = tw.key /\ tw'.obj.refresh = tw.obj.refresh
  BY <1>3 DEF TFlipTo, Typed, TypeOK, TokenWorkerType, TokenType, at
<1>4. at \in TokenType /\ store[atKey] \in OptData
  BY <1>1, TCopyTyped DEF Typed, TypeOK
<1>5. \A d \in OptData : [at EXCEPT !.meta = d] \in TokenType /\ [at EXCEPT !.meta = d].refresh = at.refresh
  BY <1>4 DEF TokenType
<1>6. CASE ~(\E stale : TCallFails(stale)) /\ TCheckObsolete
  <2>1. TLocal /\ tw' = [tw EXCEPT !.pc = "delete"] /\ tw.pc = "loaded"
    BY <1>6 DEF TCheckObsolete
  <2>2. tw'.pc = "delete" /\ tw'.key = tw.key /\ tw'.obj = tw.obj
    BY <2>1 DEF Typed, TypeOK, TokenWorkerType
  <2>3. QED
    BY <1>1, <2>1, <2>2, TLocalHolds
<1>7. CASE ~(\E stale : TCallFails(stale)) /\ TCheckData
  <2> DEFINE lost == at.phase = "Ready" /\ store[atKey] = NoData
             o == [at EXCEPT !.meta = IF lost THEN NoData ELSE @]
  <2>1. o \in TokenType /\ o.refresh = at.refresh
    BY <1>4 DEF TokenType, OptData
  <2>2. /\ TLocal /\ tw.pc = "loaded"
        /\ \/ \E phase, reason : tw' = TFlipTo(o, phase, reason, FALSE)
           \/ tw' = [tw EXCEPT !.pc = "ensure", !.obj = o]
    BY <1>7 DEF TCheckData
  <2> HIDE DEF o
  <2>3. CASE tw' = [tw EXCEPT !.pc = "ensure", !.obj = o]
    <3>1. tw'.pc = "ensure" /\ tw'.key = tw.key /\ tw'.obj = o
      BY <2>3 DEF Typed, TypeOK, TokenWorkerType
    <3>2. QED
      BY <1>1, <2>1, <2>2, <3>1, TLocalHolds DEF at
  <2>4. CASE \E phase, reason : tw' = TFlipTo(o, phase, reason, FALSE)
    <3>1. tw'.pc = "flip" /\ tw'.key = tw.key /\ tw'.obj.refresh = tw.obj.refresh
      BY <1>3, <2>1, <2>4
    <3>2. QED
      BY <1>1, <2>2, <3>1, TLocalHolds
  <2>5. QED
    BY <2>2, <2>3, <2>4
<1>8. CASE TEnsure
  <2>1. /\ TLocal /\ tw.pc = "ensure"
        /\ \/ tw' = [tw EXCEPT !.pc = "save"]
           \/ \E pc \in {"persist", "save"} : tw' = [tw EXCEPT !.obj.meta = store[atKey], !.pc = pc]
           \/ \E phase, reason, again : tw' = TFlipTo([at EXCEPT !.meta = NoData], phase, reason, again)
    BY <1>8 DEF TEnsure
  <2>2. tw'.pc \in {"save", "persist", "flip"} /\ tw'.key = tw.key /\ tw'.obj.refresh = tw.obj.refresh
    <3>1. CASE tw' = [tw EXCEPT !.pc = "save"]
      BY <3>1 DEF Typed, TypeOK, TokenWorkerType
    <3>2. CASE \E pc \in {"persist", "save"} : tw' = [tw EXCEPT !.obj.meta = store[atKey], !.pc = pc]
      BY <3>2 DEF Typed, TypeOK, TokenWorkerType, TokenType
    <3>3. CASE \E phase, reason, again : tw' = TFlipTo([at EXCEPT !.meta = NoData], phase, reason, again)
      <4>1. PICK o : o = [at EXCEPT !.meta = NoData]
        OBVIOUS
      <4>2. o \in TokenType /\ o.refresh = at.refresh
        BY <1>4, <4>1 DEF TokenType, OptData
      <4>3. QED
        BY <1>3, <3>3, <4>1, <4>2
    <3>4. QED
      BY <2>1, <3>1, <3>2, <3>3
  <2>3. QED
    BY <1>1, <2>1, <2>2, TLocalHolds
<1>9. CASE ~(\E stale : TCallFails(stale)) /\ TRefresh
  <2>1. TLocal /\ tw.pc = "refresh" /\ \E d : tw' = [tw EXCEPT !.pc = "store", !.data = d]
    BY <1>9 DEF TRefresh
  <2>2. tw'.pc = "store" /\ tw'.key = tw.key /\ tw'.obj = tw.obj
    BY <2>1 DEF Typed, TypeOK, TokenWorkerType
  <2>3. QED
    BY <1>1, <2>1, <2>2, TLocalHolds
<1>10. QED
  BY <1>2, <1>6, <1>7, <1>8, <1>9

\* The refreshed data is stored under the excuse of the label that asked for it.
LEMMA TStoreRefreshedHolds == ASSUME Typed, WakeInv, HoldInv, TStoreRefreshed PROVE HoldStep
<1>1. tw.pc = "store"
  BY DEF TStoreRefreshed
<1>2. CASE TCallFails(FALSE)
  BY <1>1, <1>2, TCallFailsHolds
<1>3. CASE ~TCallFails(FALSE)
  <2>1. PICK k \in Tokens : k = atKey
    BY <1>1, TokenSight
  <2>2. /\ store' = [store EXCEPT ![k] = tw.data] /\ UNCHANGED <<tok, up, tq, bq>>
        /\ tw' = [tw EXCEPT !.pc = "unlabel", !.data = NoData]
    BY <1>3, <2>1 DEF TStoreRefreshed, queues, outside
  <2>3. tw'.pc = "unlabel" /\ tw'.key = tw.key /\ tw'.obj = tw.obj
    BY <2>2 DEF Typed, TypeOK, TokenWorkerType
  <2>4. RefreshKnown' /\ Leaving(k)'
    BY <1>1, <2>1, <2>2, <2>3 DEF HoldInv, RefreshKnown, Leaving, atKey
  <2>5. HoldInv'
    BY <1>1, <2>1, <2>2, <2>4, OwnHold
  <2>6. Usable(k) => Excused(k)'
    BY <1>1, <2>1, <2>2, <2>3 DEF HoldInv, RefreshKnown, Usable, Present, Excused, atKey
  <2>7. \A t \in Tokens \ {k} : store'[t] = store[t]
    BY <2>1, <2>2 DEF Typed, TypeOK
  <2>8. Steady
    BY <1>1, <2>1, <2>2, <2>6, <2>7, OwnSteady
  <2>9. QED
    BY <2>5, <2>8 DEF HoldStep
<1>4. QED
  BY <1>2, <1>3

\* A write of the worker that keeps state and label of the token.
LEMMA TWriteHolds ==
  ASSUME Typed, HoldInv, tw.pc # "idle", ~(tw.pc \in {"loaded", "unfinalize"} /\ at.st = "deleting"),
         NEW new, NEW changed, SendToken(atKey, new, changed), new # tok[atKey] => changed, UNCHANGED <<store, up>>,
         new.st = tok[atKey].st,
         \/ /\ tw'.pc # "idle" /\ new.refresh = tok[atKey].refresh /\ tw'.key = tw.key
            /\ tw'.obj.refresh = tw.obj.refresh \/ tw'.obj.refresh = new.refresh
            /\ tw'.pc \in {"refresh", "store", "unlabel"} => tw'.obj.refresh
         \/ /\ tw'.pc = "idle"
            /\ tok[atKey].st = "live" /\ tok[atKey].refresh /\ new = tok[atKey] => atKey \in tq
  PROVE  HoldStep
<1>1. atKey \in Tokens
  BY TCopyTyped
<1>2. /\ tok' = [tok EXCEPT ![atKey] = new] /\ tok'[atKey] = new /\ tq \subseteq tq'
      /\ tok' = tok \/ LiveBindings \subseteq bq'
  BY <1>1, PutWakes
<1>3. HoldInv'
  BY <1>2, TWriteHold
<1>4. \/ tw'.pc # "idle" /\ tw'.key = tw.key
      \/ atKey \in tq' \/ tok' # tok \/ tok[atKey].st = "deleting" \/ ~tok[atKey].refresh \/ ~Usable(atKey)
  BY <1>2 DEF Usable, Present
<1>5. Steady
  BY <1>2, <1>4, KeptSteady
<1>6. QED
  BY <1>3, <1>5 DEF HoldStep

\* Removing the finalizers and deleting: the token leaves, or is already leaving.
LEMMA TLeavesHolds == ASSUME Typed, WakeInv, HoldInv, TUnfinalize \/ TDelete PROVE HoldStep
<1>1. tw.pc \in {"unfinalize", "delete"} /\ tw.pc # "idle"
  BY DEF TUnfinalize, TDelete
<1>2. PICK k \in Tokens : k = atKey
  BY <1>1, TokenSight
<1>3. tok[k] \in TokenType
  BY <1>2 DEF Typed, TypeOK
<1>4. CASE \E stale : TCallFails(stale)
  BY <1>1, <1>4, TCallFailsHolds
<1>5. ASSUME NEW new, PutToken(k, new), tw'.pc = "idle", UNCHANGED <<store, up>>,
             new.st = "deleting" => new # tok[k] \/ k \in tq,
             new = tok[k] => tok[k].st # "live"
      PROVE  HoldStep
  <2>1. /\ tok' = [tok EXCEPT ![k] = new] /\ tok'[k] = new /\ tq \subseteq tq' /\ (new # tok[k] => k \in tq')
        /\ tok' = tok \/ LiveBindings \subseteq bq'
    BY <1>5, PutWakes DEF PutToken
  <2>2. \A t \in Tokens \ {k} : tok'[t] = tok[t]
    BY <2>1 DEF Typed, TypeOK
  <2>3. RefreshKnown' /\ Leaving(k)'
    BY <1>5, <2>1 DEF RefreshKnown, Leaving
  <2>4. HoldInv'
    BY <1>1, <1>2, <2>1, <2>2, <2>3, OwnHold
  <2>5. tok' # tok \/ tok[k].st = "deleting" \/ ~Usable(k)
    BY <1>5, <2>1 DEF Usable, Present
  <2>6. Steady
    BY <1>1, <1>2, <1>5, <2>1, <2>5, KeptSteady
  <2>7. QED
    BY <2>4, <2>6 DEF HoldStep
<1>6. CASE ~(\E stale : TCallFails(stale)) /\ TUnfinalize
  <2>1. PICK new : new = SettleToken([tok[k] EXCEPT !.fin = FALSE])
    OBVIOUS
  <2>2. PutToken(k, new) /\ tw'.pc = "idle" /\ UNCHANGED <<store, up>> /\ tw.pc = "unfinalize"
    BY <1>2, <1>6, <2>1 DEF TUnfinalize, TPut, TReturn, IdleTokenWorker, outside
  <2>3. tok[k].st # "live"
    BY <1>2, <2>2, TokenSight DEF TokenCopyOK, atKey
  <2>4. new.st # "deleting"
    BY <1>3, <2>1 DEF SettleToken, Settle, AbsentToken, NewToken, TokenType
  <2>5. QED
    BY <1>5, <2>2, <2>3, <2>4
<1>7. CASE ~(\E stale : TCallFails(stale)) /\ TDelete
  <2>1. PICK new : new = DeletedToken(tok[k])
    OBVIOUS
  <2>2. PutToken(k, new) /\ tw'.pc = "idle" /\ UNCHANGED <<store, up>> /\ tw.pc = "delete"
    BY <1>2, <1>7, <2>1 DEF TDelete, TReturn, IdleTokenWorker, outside
  <2>3. new.st # "live"
    BY <1>3, <2>1, DeletedNotLive
  <2>4. tok[k].st = "deleting" => k \in tq
    BY <2>2 DEF HoldInv, Leaving
  <2>5. QED
    BY <1>5, <2>2, <2>3, <2>4
<1>8. QED
  BY <1>4, <1>6, <1>7

\* The writes that keep the token: finalizers and labels.
LEMMA TMetadataHolds ==
  ASSUME Typed, HoldInv, TAddFinalizers \/ TLabel \/ TUnlabel
  PROVE  HoldStep
<1>1. tw.pc \in {"loaded", "save", "unlabel"} /\ tw.pc # "idle" /\ (tw.pc = "loaded" => at.st = "live")
  BY DEF TAddFinalizers, TLabel, TUnlabel
<1>2. tok[atKey] \in TokenType /\ atKey \in Tokens
  BY <1>1, TCopyTyped
<1>3. CASE \E stale : TCallFails(stale)
  BY <1>1, <1>3, TCallFailsHolds
<1>4. ASSUME NEW new, PutToken(atKey, new), tw' = [tw EXCEPT !.obj = tok'[atKey]], UNCHANGED <<store, up>>,
             new.st = tok[atKey].st, new.refresh = tok[atKey].refresh, tw.pc \in {"loaded", "save"}
      PROVE  HoldStep
  <2>1. tok'[atKey] = new
    BY <1>2, <1>4, PutWakes DEF PutToken
  <2>2. tw'.pc = tw.pc /\ tw'.key = tw.key /\ tw'.obj = new
    BY <1>4, <2>1 DEF Typed, TypeOK, TokenWorkerType
  <2>3. QED
    BY <1>1, <1>4, <2>2, TWriteHolds DEF PutToken
<1>5. CASE ~(\E stale : TCallFails(stale)) /\ TAddFinalizers
  <2>1. PICK new : new = [tok[atKey] EXCEPT !.fin = TRUE]
    OBVIOUS
  <2>2. new.st = tok[atKey].st /\ new.refresh = tok[atKey].refresh
    BY <1>2, <2>1 DEF TokenType
  <2>3. QED
    BY <1>4, <1>5, <2>1, <2>2 DEF TAddFinalizers, TPut, outside
<1>6. CASE ~(\E stale : TCallFails(stale)) /\ TLabel
  <2>1. PICK new : new = [tok[atKey] EXCEPT !.labelled = TRUE]
    OBVIOUS
  <2>2. new.st = tok[atKey].st /\ new.refresh = tok[atKey].refresh
    BY <1>2, <2>1 DEF TokenType
  <2>3. QED
    BY <1>4, <1>6, <2>1, <2>2 DEF TLabel, TPut, outside
<1>7. CASE ~(\E stale : TCallFails(stale)) /\ TUnlabel
  <2>1. PICK new : new = [tok[atKey] EXCEPT !.refresh = FALSE]
    OBVIOUS
  <2>2. new.st = tok[atKey].st /\ ~new.refresh
    BY <1>2, <2>1 DEF TokenType
  <2>3. PutToken(atKey, new) /\ tw'.pc = "idle" /\ UNCHANGED <<store, up>>
    BY <1>7, <2>1 DEF TUnlabel, TPut, TReturn, IdleTokenWorker, outside
  <2>4. tok[atKey].refresh => new # tok[atKey]
    BY <2>2
  <2>5. ~(tw.pc \in {"loaded", "unfinalize"} /\ at.st = "deleting")
    BY <1>1
  <2>6. QED
    BY <1>1, <2>2, <2>3, <2>4, <2>5, TWriteHolds DEF PutToken
<1>8. QED
  BY <1>3, <1>5, <1>6, <1>7

\* The writes of the status.
LEMMA TStatusHolds ==
  ASSUME Typed, WakeInv, HoldInv, TPersist \/ TFlip \/ TSaveStatus
  PROVE  HoldStep
<1>1. tw.pc \in {"persist", "flip", "save"} /\ tw.pc # "idle"
  BY DEF TPersist, TFlip, TSaveStatus
<1>2. tok[atKey] \in TokenType /\ atKey \in Tokens /\ at \in TokenType /\ TokenCopyOK(tw)
  BY <1>1, TokenSight
<1>3. CASE \E stale : TCallFails(stale)
  BY <1>1, <1>3, TCallFailsHolds
<1>4. \A o : /\ TWithStatus(o).st = tok[atKey].st /\ TWithStatus(o).refresh = tok[atKey].refresh
             /\ TWithStatus(o).phase = o.phase
  BY <1>2 DEF TWithStatus, TokenType
<1>5. CASE TPersist
  <2>1. CASE TLocal
    <3>1. tw' = TFlipTo(at, "Error", "MetadataFailure", TRUE) \/ tw' = [tw EXCEPT !.pc = "save"]
      BY <1>5 DEF TPersist
    <3>2. tw'.pc \in {"flip", "save"} /\ tw'.key = tw.key /\ tw'.obj.refresh = tw.obj.refresh
      <4>1. CASE tw' = [tw EXCEPT !.pc = "save"]
        BY <4>1 DEF Typed, TypeOK, TokenWorkerType
      <4>2. CASE tw' = TFlipTo(at, "Error", "MetadataFailure", TRUE)
        BY <4>2 DEF TFlipTo, Typed, TypeOK, TokenWorkerType, TokenType, at
      <4>3. QED
        BY <3>1, <4>1, <4>2
    <3>3. QED
      BY <1>1, <2>1, <3>2, TLocalHolds
  <2>2. CASE ~TLocal
    <3>1. PICK new : new = TWithStatus(at)
      OBVIOUS
    <3>2. SendToken(atKey, new, Restamped(atKey, new)) /\ tw' = [tw EXCEPT !.pc = "save"] /\ UNCHANGED <<store, up>>
      BY <1>5, <2>2, <3>1 DEF TPersist, outside
    <3>3. tw'.pc = "save" /\ tw'.key = tw.key /\ tw'.obj = tw.obj
      BY <3>2 DEF Typed, TypeOK, TokenWorkerType
    <3>4. new # tok[atKey] => Restamped(atKey, new)
      BY DEF Restamped
    <3>5. QED
      BY <1>1, <1>4, <3>1, <3>2, <3>3, <3>4, TWriteHolds
  <2>3. QED
    BY <2>1, <2>2
<1>6. CASE ~(\E stale : TCallFails(stale)) /\ TSaveStatus
  <2>1. PICK new : new = TWithStatus(Filled(at))
    OBVIOUS
  <2>2. PutToken(atKey, new) /\ UNCHANGED <<store, up>>
    BY <1>6, <2>1 DEF TSaveStatus, TPut, outside
  <2>3. Filled(at).refresh = at.refresh
    BY <1>2 DEF Filled, TokenType
  <2>4. CASE at.refresh
    <3>1. tw' = [tw EXCEPT !.pc = "refresh", !.obj = Filled(at)]
      BY <1>6, <2>4 DEF TSaveStatus
    <3>2. tw'.pc = "refresh" /\ tw'.key = tw.key /\ tw'.obj = Filled(at)
      BY <3>1 DEF Typed, TypeOK, TokenWorkerType
    <3>3. QED
      BY <1>1, <1>4, <2>1, <2>2, <2>3, <2>4, <3>2, TWriteHolds DEF PutToken, at
  <2>5. CASE ~at.refresh
    <3>1. tw'.pc = "idle"
      BY <1>6, <2>5 DEF TSaveStatus, TReturn, IdleTokenWorker
    <3>2. tok[atKey].st = "live" /\ tok[atKey].refresh => atKey \in tq
      BY <1>1, <2>5 DEF HoldInv, RefreshKnown, at, atKey
    <3>3. QED
      BY <1>1, <1>4, <2>1, <2>2, <3>1, <3>2, TWriteHolds DEF PutToken
  <2>6. QED
    BY <2>4, <2>5
<1>7. CASE ~(\E stale : TCallFails(stale)) /\ TFlip
  <2>1. PICK new : new = TWithStatus(at)
    OBVIOUS
  <2>2. /\ tok' = [tok EXCEPT ![atKey] = new] /\ UNCHANGED <<store, up>> /\ tw'.pc = "idle" /\ tq \subseteq tq'
        /\ tok'[atKey] # tok[atKey] => LiveBindings \subseteq bq'
    BY <1>7, <2>1 DEF TFlip, TReturn, IdleTokenWorker, outside, BindingsWokenBy
  <2>3. tok'[atKey] = new
    BY <1>2, <2>2 DEF Typed, TypeOK
  <2>4. HoldInv'
    BY <1>1, <1>4, <2>1, <2>2, TWriteHold
  <2>5. new.phase # "Ready"
    BY <1>2, <1>4, <1>7, <2>1 DEF TFlip, TokenCopyOK, at
  <2>6. tok' = tok \/ LiveBindings \subseteq bq'
    BY <1>2, <2>2, <2>3 DEF Typed, TypeOK
  <2>7. tok' # tok \/ ~Usable(atKey)
    BY <2>3, <2>5 DEF Usable
  <2>8. Steady
    BY <1>1, <2>2, <2>6, <2>7, KeptSteady
  <2>9. QED
    BY <2>4, <2>8 DEF HoldStep
<1>8. QED
  BY <1>3, <1>5, <1>6, <1>7

LEMMA TokenReconcileHolds == ASSUME Typed, WakeInv, HoldInv, TokenReconcile PROVE HoldStep
  BY TGetHolds, TFinalizeHolds, TLeavesHolds, TDecisionsHolds, TStoreRefreshedHolds, TMetadataHolds, TStatusHolds
  DEF TokenReconcile

\* A step of somebody else: it writes tokens with their events, and no data.
Foreign ==
  /\ tq \subseteq tq' /\ tw'.pc = tw.pc /\ tw'.key = tw.key /\ tw'.obj = tw.obj
  /\ UNCHANGED <<store, up>>
  /\ tok' = tok \/ LiveBindings \subseteq bq'
  /\ \A t \in Tokens :
       /\ tok'[t].st = "deleting" => tok[t].st = "deleting" \/ t \in tq'
       /\ tok'[t].st = "live" /\ tok[t].st # "none" =>
            /\ tok[t].st = "live" /\ (tok[t].refresh => tok'[t].refresh)
            /\ tok'[t].refresh => tok[t].refresh \/ t \in tq'

LEMMA ForeignHolds == ASSUME Typed, WakeInv, HoldInv, Foreign PROVE HoldStep
<1>1. HoldInv'
  BY ForeignHold DEF Foreign
<1>2. ASSUME NEW t \in Tokens, tok' = tok, Excused(t) PROVE Excused(t)'
  BY <1>2 DEF Foreign, Excused
<1>3. Steady
  BY <1>2 DEF Foreign, Steady
<1>4. QED
  BY <1>1, <1>3 DEF HoldStep

\* Nothing is written.
LEMMA UnwrittenForeign ==
  ASSUME UNCHANGED <<tok, store, up, tw>>, tq \subseteq tq'
  PROVE  Foreign
  BY DEF Foreign

\* One token is written.
LEMMA PutForeign ==
  ASSUME Typed, UNCHANGED <<store, up>>, NEW t \in Tokens, NEW new, NEW changed,
         tok' = [tok EXCEPT ![t] = new], tq' = tq \cup TokensWokenBy(t, changed), BindingsWokenBy(changed) \subseteq bq',
         new # tok[t] => changed, tw'.pc = tw.pc, tw'.key = tw.key, tw'.obj = tw.obj,
         new.st = "live" /\ tok[t].st # "none" => tok[t].st = "live" /\ (tok[t].refresh => new.refresh)
  PROVE  Foreign
<1>1. tok'[t] = new /\ \A c \in Tokens \ {t} : tok'[c] = tok[c]
  BY DEF Typed, TypeOK
<1>2. CASE new = tok[t]
  <2>1. tok' = tok
    BY <1>1, <1>2 DEF Typed, TypeOK
  <2>2. QED
    BY <2>1 DEF Foreign
<1>3. CASE new # tok[t]
  <2>1. t \in tq' /\ LiveBindings \subseteq bq'
    BY <1>3 DEF TokensWokenBy, BindingsWokenBy
  <2>2. QED
    BY <1>1, <2>1 DEF Foreign
<1>4. QED
  BY <1>2, <1>3

\* Users of tokens.
LEMMA UserTokensForeign == ASSUME Typed, CreateToken \/ DeleteToken \/ RequestRefresh PROVE Foreign
<1> DEFINE Write(t, new) == /\ PutTokenByUser(t, new)
                            /\ \/ tok[t].st = "none" /\ \E spec \in TokenSpecs : new = NewToken(spec)
                               \/ new = DeletedToken(tok[t])
                               \/ tok[t].st = "live" /\ new = [tok[t] EXCEPT !.refresh = TRUE]
<1>0. PICK t \in Tokens : \E new : Write(t, new)
  BY DEF CreateToken, DeleteToken, RequestRefresh
<1>1. PICK new : Write(t, new)
  BY <1>0
<1>2. UNCHANGED <<store, up>>
  BY DEF CreateToken, DeleteToken, RequestRefresh, UserOp
<1>3. /\ tok' = [tok EXCEPT ![t] = new] /\ tq' = tq \cup TokensWokenBy(t, new # tok[t])
      /\ BindingsWokenBy(new # tok[t]) \subseteq bq' /\ OutdateToken(t, new # tok[t])
  BY <1>1 DEF PutTokenByUser, PutToken, SendToken
<1>4. tw'.pc = tw.pc /\ tw'.key = tw.key /\ tw'.obj = tw.obj
  BY <1>3, OutdatedWorker
<1>5. new.st = "live" /\ tok[t].st # "none" => tok[t].st = "live" /\ (tok[t].refresh => new.refresh)
  <2>1. tok[t] \in TokenType
    BY DEF Typed, TypeOK
  <2>2. CASE new = DeletedToken(tok[t])
    BY <2>1, <2>2, DeletedNotLive
  <2>3. CASE tok[t].st = "live" /\ new = [tok[t] EXCEPT !.refresh = TRUE]
    BY <2>1, <2>3 DEF TokenType
  <2>4. QED
    BY <1>1, <2>2, <2>3
<1>6. PICK changed : changed = (new # tok[t])
  OBVIOUS
<1>7. QED
  BY <1>2, <1>3, <1>4, <1>5, <1>6, PutForeign

\* The binding controller: the metadata that Lookup persists, the token created
\* for a binding, and its deletion when linking fails.
LEMMA BEnsureForeign == ASSUME Typed, BEnsure PROVE Foreign
<1>1. UNCHANGED <<store, up>>
  BY DEF BEnsure, outside
<1>2. CASE UNCHANGED <<tok, tw, tq, bq>>
  BY <1>1, <1>2, UnwrittenForeign
<1>3. CASE ~UNCHANGED <<tok, tw, tq, bq>>
  <2>1. PICK t \in bw.todo :
          LET d == store[t]
              persists == t \in bw.had \/ d # NoData
              new == IF persists THEN [tok[t] EXCEPT !.meta = d] ELSE tok[t]
              changed == persists /\ Restamped(t, new)
          IN SendToken(t, new, changed) /\ OutdateToken(t, changed)
    BY <1>3 DEF BEnsure
  <2> DEFINE persists == t \in bw.had \/ store[t] # NoData
             new == IF persists THEN [tok[t] EXCEPT !.meta = store[t]] ELSE tok[t]
             changed == persists /\ Restamped(t, new)
  <2>2. t \in Tokens
    BY DEF Typed, TypeOK, BindingWorkerType
  <2>3. tok[t] \in TokenType
    BY <2>2 DEF Typed, TypeOK
  <2>4. new.st = tok[t].st /\ new.refresh = tok[t].refresh
    BY <2>3 DEF TokenType
  <2>5. changed \in BOOLEAN /\ (new # tok[t] => changed)
    BY DEF Restamped
  <2>6. SendToken(t, new, changed) /\ OutdateToken(t, changed)
    BY <2>1
  <2> HIDE DEF new, changed
  <2>7. /\ tok' = [tok EXCEPT ![t] = new] /\ tq' = tq \cup TokensWokenBy(t, changed)
        /\ BindingsWokenBy(changed) \subseteq bq'
    BY <2>6 DEF SendToken
  <2>8. tw'.pc = tw.pc /\ tw'.key = tw.key /\ tw'.obj = tw.obj
    BY <2>5, <2>6, OutdatedWorker
  <2>9. QED
    BY <1>1, <2>2, <2>4, <2>5, <2>7, <2>8, PutForeign
<1>4. QED
  BY <1>2, <1>3

LEMMA BCreateTokenForeign == ASSUME Typed, BCreateToken PROVE Foreign
<1>1. CASE BLocal
  BY <1>1, UnwrittenForeign DEF BLocal, objects, queues, outside
<1>2. CASE ~BLocal
  <2>1. PICK t \in Tokens : tok[t].st = "none" /\ PutToken(t, NewToken("ok"))
    BY <1>2 DEF BCreateToken
  <2>2. UNCHANGED <<store, up, tw>>
    BY <1>2 DEF BCreateToken, outside
  <2>3. PICK new : new = NewToken("ok")
    OBVIOUS
  <2>4. PICK changed : changed = (new # tok[t])
    OBVIOUS
  <2>5. /\ tok' = [tok EXCEPT ![t] = new] /\ tq' = tq \cup TokensWokenBy(t, changed)
        /\ BindingsWokenBy(changed) \subseteq bq'
    BY <2>1, <2>3, <2>4 DEF PutToken, SendToken
  <2>6. QED
    BY <2>1, <2>2, <2>4, <2>5, PutForeign
<1>3. QED
  BY <1>1, <1>2

LEMMA BUndoForeign == ASSUME Typed, BUndo PROVE Foreign
<1>1. PICK t \in Tokens : t = bw.token
  BY DEF BUndo, Typed, BindingWorkerOK
<1>2. UNCHANGED <<store, up>>
  BY DEF BUndo, outside
<1>3. CASE UNCHANGED <<tok, tw, tq>>
  BY <1>2, <1>3, UnwrittenForeign
<1>4. CASE ~UNCHANGED <<tok, tw, tq>>
  <2>1. PICK new : new = DeletedToken(tok[t])
    OBVIOUS
  <2>2. PICK changed \in BOOLEAN : changed = (new # tok[t])
    OBVIOUS
  <2>3. /\ tok' = [tok EXCEPT ![t] = new] /\ tq' = tq \cup TokensWokenBy(t, changed)
        /\ BindingsWokenBy(changed) \subseteq bq' /\ OutdateToken(t, changed)
    BY <1>1, <1>4, <2>1, <2>2 DEF BUndo
  <2>4. new.st \notin {"live", "none"}
    BY <2>1, DeletedNotLive DEF Typed, TypeOK
  <2>5. tw'.pc = tw.pc /\ tw'.key = tw.key /\ tw'.obj = tw.obj
    BY <2>3, OutdatedWorker
  <2>6. QED
    BY <1>2, <2>2, <2>3, <2>4, <2>5, PutForeign
<1>5. QED
  BY <1>3, <1>4

LEMMA BindingReconcileForeign == ASSUME Typed, BindingReconcile PROVE Foreign
  BY BEnsureForeign, BCreateTokenForeign, BUndoForeign, BOthersApart, UnwrittenForeign DEF Apart

\* The OAuth service: what it stores without an announcement is excused until the
\* announcement, which wakes the bindings linked to the token.
LEMMA UploadHolds == ASSUME Typed, WakeInv, HoldInv, Service \/ UploadGet PROVE HoldStep
<1>1. up \in UploaderType /\ (up.pc # "idle" => up.key \in Tokens)
  BY DEF Typed, TypeOK, UploaderOK, UploaderType
<1>2. UNCHANGED <<tok, tw>> /\ tq \subseteq tq'
  BY DEF Service, UploadStore, UploadNotify, ProcessDataUpdate, UploadGet, objects, workers, queues
<1>3. HoldInv'
  BY <1>2, UnwrittenHold
<1> SUFFICES Steady
  BY <1>3 DEF HoldStep
<1>4. CASE ProcessDataUpdate
  BY <1>2, <1>4 DEF ProcessDataUpdate, Steady, Excused
<1>5. CASE UploadGet
  <2>1. up'.lost = up.lost /\ up.pc = "idle" /\ store' = store
    BY <1>1, <1>5 DEF UploadGet, UploaderType, objects
  <2>2. QED
    BY <1>2, <2>1 DEF Steady, Excused
<1>6. CASE UploadStore
  <2>1. CASE store' = [store EXCEPT ![up.key] = up.data] /\ up' = [up EXCEPT !.pc = "notify", !.data = NoData]
    <3>1. up'.pc = "notify" /\ up'.key = up.key /\ up'.lost = up.lost /\ up.pc = "store"
      BY <1>1, <1>6, <2>1 DEF UploaderType, UploadStore
    <3>2. \A t \in Tokens : store'[t] = store[t] \/ t = up.key
      BY <2>1 DEF Typed, TypeOK
    <3>3. QED
      BY <1>2, <3>1, <3>2 DEF Steady, Excused
  <2>2. CASE up' = Uploaded(up.lost) /\ UNCHANGED store
    <3>1. up'.lost = up.lost /\ up.pc = "store"
      BY <1>6, <2>2 DEF Uploaded, IdleUploader, UploadStore
    <3>2. QED
      BY <1>2, <2>2, <3>1 DEF Steady, Excused
  <2>3. QED
    BY <1>6, <2>1, <2>2 DEF UploadStore
<1>7. CASE UploadNotify
  <2>1. /\ store' = store /\ up.lost \ {up.key} \subseteq up'.lost
        /\ up.key \in up'.lost \/ LinkedTo(up.key) \subseteq bq'
    BY <1>7 DEF UploadNotify, Uploaded, IdleUploader
  <2>2. QED
    BY <1>2, <2>1 DEF Steady, Excused
<1>8. QED
  BY <1>4, <1>5, <1>6, <1>7 DEF Service

\* A restarted operator has every token and every binding in its queues.
LEMMA StartOverHolds == ASSUME StartOver PROVE HoldStep
<1>1. tw'.pc = "idle" /\ UNCHANGED <<tok, bnd>> /\ tq' = LiveTokens /\ bq' = LiveBindings
  BY DEF StartOver, IdleTokenWorker, objects
<1>2. HoldInv'
  BY <1>1 DEF HoldInv, RefreshKnown, Leaving, LiveTokens, Present
<1>3. Steady
  BY <1>1 DEF Steady
<1>4. QED
  BY <1>2, <1>3 DEF HoldStep

LEMMA NextHolds == ASSUME Typed, WakeInv, HoldInv, [Next]_vars PROVE HoldStep
<1>1. CASE BindingReconcile
  BY <1>1, BindingReconcileForeign, ForeignHolds
<1>2. CASE Restart \/ RefreshPanics
  BY <1>2, StartOverHolds DEF Restart, RefreshPanics
<1>3. CASE CreateToken \/ DeleteToken \/ RequestRefresh
  BY <1>3, UserTokensForeign, ForeignHolds
<1>4. CASE \/ TokenTimer \/ BindingTimer \/ TokenAges \/ BindingAges
           \/ CreateBinding \/ DeleteBinding \/ DeleteSecret \/ UNCHANGED vars
  BY <1>4, BystandersApart, UnwrittenForeign, ForeignHolds DEF Apart
<1>5. QED
  BY <1>1, <1>2, <1>3, <1>4, TokenReconcileHolds, UploadHolds DEF Next, Controllers, Users, Environment

LEMMA InitHolds == Init => HoldInv
<1> SUFFICES ASSUME Init PROVE HoldInv
  OBVIOUS
<1>1. tw.pc = "idle" /\ \A t \in Tokens : tok[t].st = "none"
  BY DEF Init, IdleTokenWorker, AbsentToken, NewToken
<1>2. QED
  BY <1>1 DEF HoldInv, RefreshKnown, Leaving

\* Token t has nothing to offer to a binding.
Useless(t) == tok[t].phase # "Ready" \/ tok[t].st = "deleting"

\* Data d is what a binding linked to token t should have.
Served(d, t) == d = store[t] \/ Excused(t)

\* What binding b says of its token and its secret is right.
Fits(b) ==
  LET t == bnd[b].linked
  IN /\ bnd[b].phase = "Injected" =>
          bnd[b].synced # NoSec /\ t # NoTok /\ Usable(t) /\ Served(sec[b][bnd[b].synced], t)
     /\ bnd[b].phase = "AwaitingTokenData" =>
          t # NoTok /\ Useless(t) /\ \A s \in Secrets : sec[b][s] = NoData

Settled(b) == bnd[b].st = "live" => b \in bq \cup bw.lost \/ Working(b) \/ Fits(b)

\* What worker w relies on for a binding that has not been queued again. A status
\* that names another secret than the server's is an event when it is written.
Informed(w) ==
  /\ w.pc = "lookup" => \A t \in w.cand \cup w.todo : Usable(t)
  /\ w.pc \in {"link", "inject", "finish", "cleanup"} =>
       w.token \in Tokens /\ (IF w.ready THEN Usable(w.token) ELSE tok[w.token].phase # "Ready")
  /\ w.pc \in {"inject", "finish", "cleanup"} => bnd[w.key].linked = w.token /\ w.obj.linked = w.token
  /\ w.pc = "inject" => w.ready /\ Served(w.data, w.token)
  /\ w.pc = "finish" =>
       \/ /\ w.obj.phase = "Injected" /\ w.obj.synced # NoSec /\ w.ready
          /\ bnd[w.key].synced # w.obj.synced \/ Served(sec[w.key][w.obj.synced], w.token)
       \/ w.obj.phase = "AwaitingTokenData" /\ Useless(w.token)
  /\ w.pc = "cleanup" => bnd[w.key].phase = "AwaitingTokenData" /\ Useless(w.token)
  /\ w.pc = "fail" /\ w.then = "done" => w.obj.phase = "Error"

WorkInv == bw.pc # "idle" /\ bnd[bw.key].st = "live" => bw.key \in bq \/ Informed(bw)

FitInv == WorkInv /\ \A b \in Bindings : Settled(b)

\* Data of a binding linked to token t stays right, or the binding is woken.
LEMMA ServedKept ==
  ASSUME Typed, Steady, NEW b \in Bindings, Present(bnd[b]), b \notin bq',
         NEW t \in Tokens, bnd[b].linked = t, Usable(t), NEW d, Served(d, t)
  PROVE  tok' = tok /\ (d = store'[t] \/ Excused(t)')
<1>1. b \in LiveBindings /\ b \in LinkedTo(t)
  BY DEF LiveBindings, LinkedTo
<1>2. QED
  BY <1>1 DEF Steady, Served

\* The secret that the status of binding b names is left alone.
Spared(b) == \A s \in Secrets : sec'[b][s] = sec[b][s] \/ (sec'[b][s] = NoData /\ s # bnd[b].synced)

\* A binding that is not written stays right, or is woken.
LEMMA FitsKept ==
  ASSUME Typed, Steady, NEW b \in Bindings, Present(bnd[b]), b \notin bq', Fits(b),
         bnd'[b] = bnd[b], Spared(b)
  PROVE  Fits(b)'
<1>1. bnd[b] \in BindingType /\ tok' = tok
  BY DEF Typed, TypeOK, Steady, LiveBindings
<1>2. CASE bnd[b].phase = "Injected"
  <2>1. PICK t \in Tokens : bnd[b].linked = t
    BY <1>1, <1>2 DEF Fits, BindingType, OptTok
  <2>2. PICK s \in Secrets : bnd[b].synced = s
    BY <1>1, <1>2 DEF Fits, BindingType, OptSec
  <2>3. PICK d : d = sec[b][s]
    OBVIOUS
  <2>4. Usable(t) /\ Served(d, t) /\ s # NoSec /\ t # NoTok
    BY <1>2, <2>1, <2>2, <2>3 DEF Fits
  <2>5. d = store'[t] \/ Excused(t)'
    BY <2>1, <2>4, ServedKept
  <2>6. Served(d, t)' /\ Usable(t)'
    BY <1>1, <2>4, <2>5 DEF Served, Usable
  <2>7. sec'[b][s] = d
    BY <2>2, <2>3 DEF Spared
  <2>8. QED
    BY <1>2, <2>1, <2>2, <2>4, <2>6, <2>7 DEF Fits, Served, Usable, Excused
<1>3. CASE bnd[b].phase = "AwaitingTokenData"
  BY <1>1, <1>3 DEF Fits, Useless, Spared
<1>4. QED
  BY <1>2, <1>3 DEF Fits

\* A binding nobody works on.
LEMMA SettledKept ==
  ASSUME Typed, Steady, NEW b \in Bindings, Settled(b), ~Working(b),
         b \in bq => b \in bq', b \in bw.lost => b \in bw'.lost,
         b \notin bq' => bnd'[b] = bnd[b] /\ Spared(b)
  PROVE  Settled(b)'
<1>1. SUFFICES ASSUME bnd'[b].st = "live", b \notin bq', b \notin bw'.lost PROVE Fits(b)'
  BY DEF Settled
<1>2. Fits(b) /\ Present(bnd[b])
  BY <1>1 DEF Settled, Present
<1>3. QED
  BY <1>1, <1>2, FitsKept

\* The worker stays where it is, and so does its binding.
LEMMA WorkKept ==
  ASSUME Typed, Steady, WorkInv, SameWorker, bw.pc # "idle" => bw.key \in Bindings,
         bw.key \in bq => bw.key \in bq',
         bw.pc # "idle" /\ bnd'[bw.key].st = "live" /\ bw.key \notin bq' =>
           bnd'[bw.key] = bnd[bw.key] /\ Spared(bw.key)
  PROVE  WorkInv'
<1> SUFFICES ASSUME bw.pc # "idle", bnd'[bw.key].st = "live", bw.key \notin bq' PROVE Informed(bw)'
  BY DEF WorkInv, SameWorker
<1>1. PICK b \in Bindings : b = bw.key
  OBVIOUS
<1>2. bnd'[b] = bnd[b] /\ Present(bnd[b]) /\ Informed(bw) /\ Spared(b)
  BY <1>1 DEF WorkInv, Present
<1>3. tok' = tok
  BY <1>1, <1>2 DEF Steady, LiveBindings
<1>4. ASSUME NEW d, bw.pc \in {"inject", "finish"}, bw.ready, Served(d, bw.token) PROVE Served(d, bw.token)'
  <2>1. bw.token \in Tokens /\ Usable(bw.token) /\ bnd[b].linked = bw.token
    BY <1>1, <1>2, <1>4 DEF Informed
  <2>2. PICK t \in Tokens : t = bw.token
    BY <2>1
  <2>3. d = store'[t] \/ Excused(t)'
    BY <1>1, <1>2, <1>4, <2>1, <2>2, ServedKept
  <2>4. bw'.token = t
    BY <2>2 DEF SameWorker
  <2>5. QED
    BY <2>3, <2>4 DEF Served, Excused
<1>5. ASSUME bw.pc = "inject" PROVE Served(bw.data, bw.token)'
  <2>1. PICK d : d = bw.data
    OBVIOUS
  <2>2. bw.ready /\ Served(d, bw.token)
    BY <1>2, <1>5, <2>1 DEF Informed
  <2>3. Served(d, bw.token)' /\ bw'.data = d
    BY <1>4, <1>5, <2>1, <2>2 DEF SameWorker
  <2>4. QED
    BY <2>3 DEF Served
<1>6. ASSUME bw.pc = "finish", bw.obj.phase = "Injected", bnd[b].synced = bw.obj.synced
      PROVE  Served(sec[b][bw.obj.synced], bw.token)'
  <2>1. bw.obj \in BindingType /\ bw.ready /\ bw.obj.synced # NoSec /\ Served(sec[b][bw.obj.synced], bw.token)
    BY <1>1, <1>2, <1>6 DEF Informed, Typed, TypeOK, BindingWorkerType
  <2>2. PICK s \in Secrets : s = bw.obj.synced
    BY <2>1 DEF BindingType, OptSec
  <2>3. PICK d : d = sec[b][s]
    OBVIOUS
  <2>4. Served(d, bw.token)'
    BY <1>4, <1>6, <2>1, <2>2, <2>3
  <2>5. sec'[b][bw'.obj.synced] = d
    BY <1>2, <1>6, <2>2, <2>3 DEF SameWorker, Spared
  <2>6. QED
    BY <2>4, <2>5 DEF Served
<1>7. tok'[bw'.token] = tok[bw.token] /\ bnd'[bw'.key] = bnd[bw.key]
  BY <1>1, <1>2, <1>3 DEF SameWorker
<1>8. CASE bw.pc = "finish"
  BY <1>1, <1>2, <1>6, <1>7, <1>8 DEF Informed, SameWorker, Usable, Useless
<1>9. CASE bw.pc = "inject"
  BY <1>1, <1>2, <1>5, <1>7, <1>9 DEF Informed, SameWorker, Usable, Useless
<1>10. CASE bw.pc \notin {"finish", "inject"}
  BY <1>1, <1>2, <1>3, <1>7, <1>10 DEF Informed, SameWorker, Usable, Useless
<1>11. QED
  BY <1>8, <1>9, <1>10

\* A step that leaves the bindings and the worker alone.
LEMMA AsideFit == ASSUME Typed, FitInv, Onward, Steady, Aside PROVE FitInv'
<1>1. WorkInv'
  BY WorkKept, BCopyTyped DEF FitInv, Aside, Onward, bKey, Spared
<1>2. ASSUME NEW b \in Bindings PROVE Settled(b)'
  <2>1. CASE Working(b)
    BY <2>1 DEF Settled, Working, Aside, SameWorker
  <2>2. CASE ~Working(b)
    BY <2>2, SettledKept DEF FitInv, Aside, Onward, Spared
  <2>3. QED
    BY <2>1, <2>2
<1>3. QED
  BY <1>1, <1>2 DEF FitInv

\* A restarted operator has every existing binding in its queue.
LEMMA StartOverFit == ASSUME StartOver PROVE FitInv'
<1>1. bw'.pc = "idle" /\ bnd' = bnd /\ bq' = LiveBindings
  BY DEF StartOver, IdleBindingWorker, objects
<1>2. QED
  BY <1>1 DEF FitInv, WorkInv, Settled, LiveBindings, Present

\* A user creates a binding, which is queued.
LEMMA CreateBindingFit == ASSUME FinInv, FaultInv, FitInv, Onward, Steady, CreateBinding PROVE FitInv'
<1>1. PICK b \in Bindings, spec \in BindingSpecs : bnd[b].st = "none" /\ PutBinding(b, NewBinding(spec))
  BY DEF CreateBinding
<1>2. Typed /\ sec' = sec /\ bw' = bw
  BY DEF FinInv, CreateBinding, workers
<1>3. \A c \in Bindings \ {b} : bnd'[c] = bnd[c]
  BY <1>1, <1>2 DEF PutBinding, Typed, TypeOK
<1>4. b \in bq'
  <2>1. NewBinding(spec).st = "live"
    BY DEF NewBinding
  <2>2. QED
    BY <1>1, <2>1 DEF PutBinding
<1>5. bw.pc # "idle" => bw.key \in Bindings \ {b}
  BY <1>1, <1>2, BCopyTyped DEF FaultInv, Sighted, bKey
<1>6. WorkInv'
  BY <1>2, <1>3, <1>5, WorkKept DEF FitInv, Onward, SameWorker, Spared
<1>7. ASSUME NEW c \in Bindings PROVE Settled(c)'
  <2>1. CASE c = b
    BY <1>4, <2>1 DEF Settled
  <2>2. CASE Working(c)
    BY <1>2, <2>2 DEF Settled, Working
  <2>3. CASE c # b /\ ~Working(c)
    BY <1>2, <1>3, <2>3, SettledKept DEF FitInv, Onward, Spared
  <2>4. QED
    BY <2>1, <2>2, <2>3
<1>8. QED
  BY <1>6, <1>7 DEF FitInv

\* A user deletes a binding, which is not live any more.
LEMMA DeleteBindingFit == ASSUME Typed, FitInv, Onward, Steady, DeleteBinding PROVE FitInv'
<1>1. PICK b \in Bindings : /\ bnd[b].st = "live" /\ bnd' = [bnd EXCEPT ![b] = DeletedBinding(bnd[b])]
                            /\ OutdateBinding(b, DeletedBinding(bnd[b]))
  BY DEF DeleteBinding, PutBinding
<1>2. bnd'[b].st # "live" /\ \A c \in Bindings \ {b} : bnd'[c] = bnd[c]
  <2>1. DeletedBinding(bnd[b]).st # "live"
    BY <1>1 DEF DeletedBinding, SettleBinding, Settle, AbsentBinding, NewBinding, Typed, TypeOK, BindingType
  <2>2. QED
    BY <1>1, <2>1 DEF Typed, TypeOK
<1>3. bw'.pc = bw.pc /\ bw'.key = bw.key /\ sec' = sec
  BY <1>1 DEF OutdateBinding, DeleteBinding, Typed, TypeOK, BindingWorkerType
<1>4. bw.pc # "idle" => bw.key \in Bindings
  BY BCopyTyped DEF bKey
<1>5. WorkInv'
  <2>1. CASE bw.pc # "idle" /\ bw.key = b
    BY <1>2, <1>3, <2>1 DEF WorkInv
  <2>2. CASE bw.pc = "idle"
    BY <1>3, <2>2 DEF WorkInv
  <2>3. CASE bw.pc # "idle" /\ bw.key # b
    <3>1. SameWorker
      BY <1>1, <2>3 DEF OutdateBinding, SameWorker, Typed, TypeOK, BindingWorkerType
    <3>2. QED
      BY <1>2, <1>3, <1>4, <2>3, <3>1, WorkKept DEF FitInv, Onward, Spared
  <2>4. QED
    BY <2>1, <2>2, <2>3
<1>6. ASSUME NEW c \in Bindings PROVE Settled(c)'
  <2>1. CASE c = b
    BY <1>2, <2>1 DEF Settled
  <2>2. CASE Working(c)
    BY <1>3, <2>2 DEF Settled, Working
  <2>3. CASE c # b /\ ~Working(c)
    BY <1>2, <1>3, <2>3, SettledKept DEF FitInv, Onward, Spared
  <2>4. QED
    BY <2>1, <2>2, <2>3
<1>7. QED
  BY <1>5, <1>6 DEF FitInv

\* A user deletes a secret: one that the status names is an event, and of any
\* other the binding says nothing.
LEMMA DeleteSecretFit == ASSUME Typed, FitInv, Onward, Steady, DeleteSecret PROVE FitInv'
<1>1. PICK b \in Bindings, s \in Secrets : /\ sec' = [sec EXCEPT ![b][s] = NoData]
                                           /\ bq' = bq \cup SecretWakes(b, s)
  BY DEF DeleteSecret
<1>2. bnd' = bnd /\ bw' = bw
  BY DEF DeleteSecret, workers
<1>3. ASSUME NEW c \in Bindings, c \notin bq' PROVE Spared(c)
  BY <1>1, <1>3 DEF Spared, SecretWakes, Typed, TypeOK
<1>4. WorkInv'
  BY <1>2, <1>3, WorkKept, BCopyTyped DEF FitInv, Onward, SameWorker, bKey
<1>5. ASSUME NEW c \in Bindings PROVE Settled(c)'
  <2>1. CASE Working(c)
    BY <1>2, <2>1 DEF Settled, Working
  <2>2. CASE ~Working(c)
    BY <1>2, <1>3, <2>2, SettledKept DEF FitInv, Onward
  <2>3. QED
    BY <2>1, <2>2
<1>6. QED
  BY <1>4, <1>5 DEF FitInv

\* A step of the binding worker on binding k: when k stays live and is not queued,
\* the worker that goes on knows enough, and one that ends leaves k right.
LEMMA OwnFit ==
  ASSUME Typed, FitInv, Onward, Steady, bw.pc # "idle", OthersKept, NEW k \in Bindings, k = bKey,
         bw'.pc # "idle" => bw'.key = bw.key,
         bnd'[k].st = "live" /\ k \notin bq' =>
           IF bw'.pc = "idle" THEN k \in bw'.lost \/ Fits(k)' ELSE Informed(bw)'
  PROVE  FitInv'
<1>1. WorkInv'
  BY DEF WorkInv, bKey
<1>2. ASSUME NEW b \in Bindings PROVE Settled(b)'
  <2>1. CASE b = k
    BY <2>1 DEF Settled, Working, bKey
  <2>2. CASE b # k
    <3>1. bnd'[b] = bnd[b] /\ Spared(b) /\ ~Working(b)
      BY <2>2 DEF OthersKept, Spared, Working, bKey
    <3>2. QED
      BY <3>1, SettledKept DEF FitInv, Onward
  <2>3. QED
    BY <2>1, <2>2
<1>3. QED
  BY <1>1, <1>2 DEF FitInv

\* The key is queued again, or the binding is not live any more.
LEMMA RequeueFit ==
  ASSUME Typed, FitInv, Onward, Steady, bw.pc # "idle", OthersKept, bw'.pc # "idle" => bw'.key = bw.key,
         bKey \in bq' \/ bnd'[bKey].st # "live"
  PROVE  FitInv'
<1>1. PICK k \in Bindings : k = bKey
  BY BCopyTyped
<1>2. QED
  BY <1>1, OwnFit

\* Reconcile goes on and relies on nothing yet, or no longer.
LEMMA FreeFit ==
  ASSUME Typed, FitInv, Onward, Steady, bw.pc # "idle", OthersKept, bw'.key = bw.key,
         \/ bw'.pc \in {"loaded", "unfinalize", "undo", "revert"}
         \/ bw'.pc = "fail" /\ (bw'.then # "done" \/ bw'.obj.phase = "Error")
  PROVE  FitInv'
<1>1. PICK k \in Bindings : k = bKey
  BY BCopyTyped
<1>2. bw'.pc # "idle" /\ Informed(bw)'
  BY DEF Informed
<1>3. QED
  BY <1>1, <1>2, OwnFit

LEMMA BCallFailsFit ==
  ASSUME Typed, FitInv, Onward, Steady, bw.pc # "idle", NEW stale, BCallFails(stale)
  PROVE  FitInv'
<1>1. bw'.pc = "idle" /\ bKey \in bq' /\ bnd' = bnd /\ sec' = sec
  BY DEF BCallFails, BReturnErr, BReturn, BIdle, IdleBindingWorker, objects
<1>2. QED
  BY <1>1, OnlyKey, RequeueFit

LEMMA BFailWithFit ==
  ASSUME Typed, FitInv, Onward, Steady, bw.pc # "idle", OthersKept, NEW o, NEW next, BFailWith(o, next),
         next # "done" \/ o.phase = "Error"
  PROVE  FitInv'
<1>1. bw'.pc = "fail" /\ bw'.key = bw.key /\ bw'.obj = o /\ bw'.then = next
  BY DEF BFailWith, Typed, TypeOK, BindingWorkerType
<1>2. QED
  BY <1>1, FreeFit

LEMMA BStatusErrorFit ==
  ASSUME Typed, FitInv, Onward, Steady, bw.pc # "idle", NEW o,
         NEW next \in {"done", "requeue", "undo", "revert"}, BStatusError(o, next),
         next = "done" => o.phase = "Error"
  PROVE  FitInv'
<1>1. PICK k \in Bindings : k = bKey
  BY BCopyTyped
<1>2. sec' = sec /\ (bnd' = bnd \/ bnd' = [bnd EXCEPT ![bKey] = BWithStatus(o)])
  BY DEF BStatusError
<1>3. OthersKept
  BY <1>2, OnlyKey
<1>4. CASE next = "requeue"
  <2>1. bw'.pc = "idle" /\ bKey \in bq'
    BY <1>4 DEF BStatusError, BIdle, IdleBindingWorker
  <2>2. QED
    BY <1>3, <2>1, RequeueFit
<1>5. CASE next = "done"
  <2>1. bw'.pc = "idle"
    BY <1>5 DEF BStatusError, BIdle, IdleBindingWorker
  <2>2. CASE bnd' = [bnd EXCEPT ![bKey] = BWithStatus(o)]
    <3>1. bnd'[k].phase = "Error"
      BY <1>1, <1>5, <2>2, StatusSpec DEF Typed, TypeOK
    <3>2. Fits(k)'
      BY <3>1 DEF Fits
    <3>3. QED
      BY <1>1, <1>3, <2>1, <3>2, OwnFit
  <2>3. CASE bw' = BIdle(bw.lost \cup {bKey})
    <3>1. k \in bw'.lost
      BY <1>1, <2>3 DEF BIdle, IdleBindingWorker
    <3>2. QED
      BY <1>1, <1>3, <2>1, <3>1, OwnFit
  <2>4. QED
    BY <1>5, <2>2, <2>3 DEF BStatusError
<1>6. CASE next \in {"undo", "revert"}
  <2>1. bw'.pc = next /\ bw'.key = bw.key
    BY <1>6 DEF BStatusError, Typed, TypeOK, BindingWorkerType
  <2>2. QED
    BY <1>3, <1>6, <2>1, FreeFit
<1>7. QED
  BY <1>4, <1>5, <1>6

\* What a worker knows of a binding that is live and has not been queued again.
LEMMA Knows ==
  ASSUME Typed, FaultInv, FitInv, Onward, Steady, bw.pc # "idle", bnd[bKey].st = "live", bKey \notin bq'
  PROVE  Informed(bw) /\ tok' = tok /\ ~bw.stale
<1>1. PICK k \in Bindings : k = bKey
  BY BCopyTyped
<1>2. k \in LiveBindings /\ k \notin bq
  BY <1>1 DEF LiveBindings, Present, Onward
<1>3. QED
  BY <1>1, <1>2, Sight DEF Steady, FitInv, WorkInv, bKey

\* The steps that end with an error in the status.
LEMMA BErrorsFit ==
  ASSUME Typed, FaultInv, FitInv, Onward, Steady,
         BBadUrl \/ BBadLifetime \/ BInvalid \/ BLookupFails \/ BMismatch \/ BFail
  PROVE  FitInv'
<1>1. bw.pc # "idle" /\ bw.then \in {"done", "requeue", "undo", "revert"}
  BY DEF BBadUrl, BBadLifetime, BInvalid, BLookupFails, BMismatch, BFail, Current, Finalized,
     Migrated, ProviderKnown, ProperValues, Linked, Typed, TypeOK, BindingWorkerType
<1>2. \A r : Erroneous(binding, r).phase = "Error"
  BY <1>1, BCopyTyped, SpecCopied
<1>3. CASE BBadUrl \/ BBadLifetime \/ BInvalid \/ BMismatch
  BY <1>1, <1>2, <1>3, BStatusErrorFit DEF BBadUrl, BBadLifetime, BInvalid, BMismatch
<1>4. CASE BLookupFails
  BY <1>1, <1>4, BStatusErrorFit DEF BLookupFails
<1>5. CASE BFail
  <2>1. bw.pc = "fail" /\ BStatusError(binding, bw.then)
    BY <1>5 DEF BFail
  <2>2. CASE bw.then = "done" => binding.phase = "Error"
    BY <1>1, <2>1, <2>2, BStatusErrorFit
  <2>3. CASE bw.then = "done" /\ binding.phase # "Error"
    <3>1. bnd[bKey].st = "live" => bKey \in bq'
      BY <1>1, <2>1, <2>3, Knows DEF Informed, binding
    <3>2. bKey \in Bindings /\ bnd[bKey] \in BindingType
      BY <1>1, BCopyTyped
    <3>3. sec' = sec /\ (bnd' = bnd \/ bnd' = [bnd EXCEPT ![bKey] = BWithStatus(binding)]) /\ bw'.pc = "idle"
      BY <2>1, <2>3 DEF BStatusError, BIdle, IdleBindingWorker
    <3>4. bnd'[bKey].st = bnd[bKey].st
      BY <1>1, <3>2, <3>3, StatusSpec DEF Typed, TypeOK
    <3>5. QED
      BY <1>1, <3>1, <3>3, <3>4, OnlyKey, RequeueFit
  <2>4. QED
    BY <2>2, <2>3
<1>6. QED
  BY <1>3, <1>4, <1>5

LEMMA BNoProviderFit == ASSUME Typed, FitInv, Onward, Steady, BNoProvider PROVE FitInv'
<1> DEFINE o == Erroneous(binding, "UnknownServiceProviderType")
<1>1. bw.pc = "loaded"
  BY DEF BNoProvider, ProperValues
<1>2. o.phase = "Error"
  BY <1>1, BCopyTyped, SpecCopied
<1> HIDE DEF o
<1>3. CASE BStatusError(o, "done")
  BY <1>1, <1>2, <1>3, BStatusErrorFit
<1>4. CASE Fault /\ BFailWith(o, "done") /\ BLocal
  BY <1>1, <1>2, <1>4, OnlyKey, BFailWithFit DEF BLocal, objects
<1>5. QED
  BY <1>3, <1>4 DEF BNoProvider, o

\* Writes that end Reconcile are events of the binding, or it is no longer live.
LEMMA BLastWritesFit ==
  ASSUME Typed, CopyInv, FaultInv, FitInv, Onward, Steady, BSaveUrl \/ BMigrateAreas \/ BUnfinalize \/ BDelete
  PROVE  FitInv'
<1>1. bw.pc # "idle"
  BY DEF BSaveUrl, BMigrateAreas, BUnfinalize, BDelete, Finalized, Migrated, ProviderKnown, ProperValues
<1>2. /\ bKey \in Bindings /\ bnd[bKey] \in BindingType /\ binding \in BindingType
      /\ bnd[bKey].st = "live" => binding.spec = bnd[bKey].spec
  BY <1>1, Sight
<1>3. CASE \E stale : BCallFails(stale)
  BY <1>1, <1>3, BCallFailsFit
<1>4. ASSUME NEW new, sec' = sec, BReturn, PutBinding(bKey, new), new.st = "live" => new # bnd[bKey]
      PROVE  FitInv'
  <2>1. bnd' = [bnd EXCEPT ![bKey] = new] /\ bnd'[bKey] = new /\ bw'.pc = "idle"
    BY <1>2, <1>4 DEF PutBinding, BReturn, BIdle, IdleBindingWorker, Typed, TypeOK
  <2>2. new # bnd[bKey] => bKey \in bq'
    BY <1>4 DEF PutBinding
  <2>3. OthersKept
    BY <1>1, <1>4, <2>1, OnlyKey
  <2>4. QED
    BY <1>1, <1>4, <2>1, <2>2, <2>3, RequeueFit
<1>5. DeletedBinding(bnd[bKey]).st # "live"
  BY <1>2 DEF DeletedBinding, SettleBinding, Settle, AbsentBinding, NewBinding, BindingType
<1>6. CASE ~(\E stale : BCallFails(stale)) /\ BDelete
  BY <1>4, <1>5, <1>6 DEF BDelete
<1>7. CASE ~(\E stale : BCallFails(stale)) /\ BUnfinalize
  <2> DEFINE new == SettleBinding([bnd[bKey] EXCEPT !.fin = "none"])
  <2>1. BPut(new) /\ BReturn /\ bw.pc = "unfinalize"
    BY <1>7 DEF BUnfinalize
  <2>2. ~bw.stale /\ bnd[bKey].st = "deleting"
    BY <1>1, <2>1, CopyRead DEF CopyOK, BPut, bKey, binding
  <2>3. new.st # "live"
    BY <1>2, <2>2 DEF SettleBinding, Settle, AbsentBinding, NewBinding, BindingType
  <2>4. QED
    BY <1>4, <2>1, <2>3 DEF BPut
<1>8. CASE ~(\E stale : BCallFails(stale)) /\ BSaveUrl
  <2> DEFINE new == [bnd[bKey] EXCEPT !.spec.url = "ok"]
  <2>1. BPut(new) /\ BReturn /\ binding.spec.url = "noScheme"
    BY <1>8 DEF BSaveUrl
  <2>2. new.st = bnd[bKey].st /\ new.spec.url = "ok"
    BY <1>2 DEF BindingType, BindingSpecType
  <2>3. new.st = "live" => new # bnd[bKey]
    BY <1>2, <2>1, <2>2
  <2>4. QED
    BY <1>4, <2>1, <2>3 DEF BPut
<1>9. CASE ~(\E stale : BCallFails(stale)) /\ BMigrateAreas
  <2> DEFINE new == [bnd[bKey] EXCEPT !.spec.areas = "current"]
  <2>1. BPut(new) /\ BReturn /\ binding.spec.areas = "deprecated"
    BY <1>9 DEF BMigrateAreas
  <2>2. new.st = bnd[bKey].st /\ new.spec.areas = "current"
    BY <1>2 DEF BindingType, BindingSpecType
  <2>3. new.st = "live" => new # bnd[bKey]
    BY <1>2, <2>1, <2>2
  <2>4. QED
    BY <1>4, <2>1, <2>3 DEF BPut
<1>10. QED
  BY <1>3, <1>6, <1>7, <1>8, <1>9

\* The finalizer is added or renamed, or the binding finalized.
LEMMA BFinalizersFit ==
  ASSUME Typed, CopyInv, FaultInv, FitInv, Onward, Steady, BMigrateFinalizers \/ BAddFinalizer \/ BFinalize
  PROVE  FitInv'
<1>1. bw.pc = "loaded"
  BY DEF BMigrateFinalizers, BAddFinalizer, BFinalize, Migrated, ProviderKnown, ProperValues
<1>2. CASE BCallFails(bw.stale)
  BY <1>1, <1>2, BCallFailsFit
<1>3. CASE ~BCallFails(bw.stale) /\ ~BFinalize
  <2> DEFINE new == [bnd[bKey] EXCEPT !.fin = "new"]
  <2>1. bnd' = [bnd EXCEPT ![bKey] = new] /\ sec' = sec /\ bw' = [bw EXCEPT !.obj = bnd'[bKey]]
    BY <1>3 DEF BMigrateFinalizers, BAddFinalizer, BPut, PutBinding
  <2>2. bw'.pc = "loaded" /\ bw'.key = bw.key
    BY <1>1, <2>1 DEF Typed, TypeOK, BindingWorkerType
  <2>3. QED
    BY <1>1, <2>1, <2>2, OnlyKey, FreeFit
<1>4. CASE BFinalize
  <2>1. PICK names \in SUBSET Secrets : CleanedUp(bKey, names)
    BY <1>4 DEF BFinalize
  <2>2. OthersKept
    BY <1>1, <2>1, CleanedUpKept
  <2>3. CASE bw' = [bw EXCEPT !.pc = "unfinalize", !.obj.fin = "none"]
    <3>1. bw'.pc = "unfinalize" /\ bw'.key = bw.key
      BY <2>3 DEF Typed, TypeOK, BindingWorkerType
    <3>2. QED
      BY <1>1, <2>2, <3>1, FreeFit
  <2>4. CASE BReturnErr
    <3>1. bw'.pc = "idle" /\ bKey \in bq'
      BY <2>4 DEF BReturnErr, BReturn, BIdle, IdleBindingWorker
    <3>2. QED
      BY <1>1, <2>2, <3>1, RequeueFit
  <2>5. QED
    BY <1>4, <2>3, <2>4 DEF BFinalize
<1>5. QED
  BY <1>2, <1>3, <1>4

\* A step that leaves the bindings and secrets alone and goes on: what it learns
\* may rest on what the worker knew, if the tokens are still the same.
LEMMA LearnsFit ==
  ASSUME Typed, FaultInv, FitInv, Onward, Steady, bw.pc # "idle", bnd' = bnd, sec' = sec,
         bw'.pc # "idle" /\ bw'.key = bw.key,
         Informed(bw) /\ tok' = tok /\ bnd[bKey].st = "live" => Informed(bw)'
  PROVE  FitInv'
<1>1. PICK k \in Bindings : k = bKey
  BY BCopyTyped
<1>2. bnd'[k].st = "live" /\ k \notin bq' => Informed(bw)'
  BY <1>1, Knows
<1>3. QED
  BY <1>1, <1>2, OnlyKey, OwnFit

\* Lookup lists tokens that are ready.
LEMMA BLookupFit == ASSUME Typed, FaultInv, FitInv, Onward, Steady, BLookup PROVE FitInv'
<1>1. bw.pc = "loaded" /\ bnd' = bnd /\ sec' = sec
  BY DEF BLookup, Current, Finalized, Migrated, ProviderKnown, ProperValues, BLocal, objects
<1>2. CASE BFailWith([Entered(binding) EXCEPT !.reason = "TokenLookup"], "requeue")
  BY <1>1, <1>2, OnlyKey, BFailWithFit
<1>3. CASE ~BFailWith([Entered(binding) EXCEPT !.reason = "TokenLookup"], "requeue")
  <2> DEFINE bare == {t \in ReadyTokens : tok[t].meta = NoData}
             found(todo) == {t \in ReadyTokens \ todo : <<bKey, tok[t].meta>> \in Matches}
  <2>0. PICK todo \in SUBSET ReadyTokens :
          bw' = [bw EXCEPT !.pc = "lookup", !.todo = todo, !.had = todo \ bare, !.cand = found(todo), !.obj = Entered(@)]
    BY <1>3 DEF BLookup
  <2>1. bw'.pc = "lookup" /\ bw'.key = bw.key /\ bw'.todo \subseteq ReadyTokens /\ bw'.cand \subseteq ReadyTokens
    <3>1. found(todo) \subseteq ReadyTokens
      OBVIOUS
    <3> HIDE DEF found, bare
    <3>2. bw'.pc = "lookup" /\ bw'.key = bw.key /\ bw'.todo = todo /\ bw'.cand = found(todo)
      BY <2>0 DEF Typed, TypeOK, BindingWorkerType
    <3>3. QED
      BY <3>1, <3>2
  <2>2. \A t \in ReadyTokens : Usable(t)
    BY DEF ReadyTokens, LiveTokens, Usable
  <2>3. ASSUME tok' = tok PROVE Informed(bw)'
    <3>1. \A t : Usable(t) => Usable(t)'
      BY <2>3 DEF Usable
    <3>2. \A t \in bw'.cand \cup bw'.todo : Usable(t)'
      BY <2>1, <2>2, <3>1
    <3>3. QED
      BY <2>1, <3>2 DEF Informed
  <2>4. QED
    BY <1>1, <2>1, <2>3, LearnsFit
<1>4. QED
  BY <1>2, <1>3

\* A token whose metadata is refreshed was listed as ready.
LEMMA BEnsureFit == ASSUME Typed, FaultInv, FitInv, Onward, Steady, BEnsure PROVE FitInv'
<1>1. bw.pc = "lookup" /\ bnd' = bnd /\ sec' = sec
  BY DEF BEnsure
<1>2. bw'.pc = "lookup" /\ bw'.key = bw.key /\ bw'.cand \cup bw'.todo \subseteq bw.cand \cup bw.todo
  <2> DEFINE found(t) == IF <<bKey, store[t]>> \in Matches THEN {t} ELSE {}
             rest(t) == [bw EXCEPT !.todo = @ \ {t}, !.had = @ \ {t}, !.moved = @ \ {t}]
  <2>1. PICK t \in bw.todo : \/ bw' = [rest(t) EXCEPT !.cand = @ \cup found(t)]
                             \/ bw' = [rest(t) EXCEPT !.then = "requeue"]
    BY DEF BEnsure
  <2>2. found(t) \subseteq bw.todo
    OBVIOUS
  <2> HIDE DEF found
  <2>3. /\ bw'.pc = bw.pc /\ bw'.key = bw.key /\ bw'.todo = bw.todo \ {t}
        /\ bw'.cand \in {bw.cand, bw.cand \cup found(t)}
    BY <2>1 DEF Typed, TypeOK, BindingWorkerType
  <2>4. QED
    BY <1>1, <2>2, <2>3
<1>3. ASSUME Informed(bw), tok' = tok PROVE Informed(bw)'
  <2>1. \A t \in bw.cand \cup bw.todo : Usable(t)
    BY <1>1, <1>3 DEF Informed
  <2>2. \A t : Usable(t) => Usable(t)'
    BY <1>3 DEF Usable
  <2>3. \A t \in bw'.cand \cup bw'.todo : Usable(t)'
    BY <1>2, <2>1, <2>2
  <2>4. QED
    BY <1>2, <2>3 DEF Informed
<1>4. QED
  BY <1>1, <1>2, <1>3, LearnsFit

\* Linking: a match is ready, and of the token loaded or created it is known.
LEMMA LinkFit ==
  ASSUME Typed, FaultInv, FitInv, Onward, Steady, bw.pc # "idle", bnd' = bnd, sec' = sec,
         NEW t \in Tokens, NEW ready \in BOOLEAN, NEW matching, NEW created, bw' = Link(t, ready, matching, created),
         Informed(bw) /\ tok' = tok /\ bnd[bKey].st = "live" =>
           IF ready THEN Usable(t) ELSE tok[t].phase # "Ready"
  PROVE  FitInv'
<1>1. bw'.pc = "link" /\ bw'.key = bw.key /\ bw'.token = t /\ bw'.ready = ready
  BY DEF Link, Typed, TypeOK, BindingWorkerType
<1>2. ASSUME Informed(bw), tok' = tok, bnd[bKey].st = "live" PROVE Informed(bw)'
  BY <1>1, <1>2 DEF Informed, Usable
<1>3. QED
  BY <1>1, <1>2, LearnsFit

LEMMA BLinksFit ==
  ASSUME Typed, FaultInv, FitInv, Onward, Steady, BLinkMatch \/ BLoadLinked \/ BCreateToken
  PROVE  FitInv'
<1>1. bw.pc = "lookup" /\ bnd' = bnd /\ sec' = sec
  BY DEF BLinkMatch, BLoadLinked, BCreateToken, LookedUp, BLocal, BCallFails, objects
<1>2. binding \in BindingType /\ bw.cand \subseteq Tokens
  BY <1>1, BCopyTyped DEF Typed, TypeOK, BindingWorkerType
<1>3. CASE BLinkMatch
  <2>1. PICK t \in bw.cand : bw' = Link(t, TRUE, TRUE, FALSE)
    BY <1>3 DEF BLinkMatch
  <2>2. t \in Tokens /\ (Informed(bw) => Usable(t))
    BY <1>1, <1>2 DEF Informed
  <2>3. QED
    BY <1>1, <2>1, <2>2, LinkFit
<1>4. CASE BLoadLinked
  <2>1. CASE \E stale : BCallFails(stale)
    BY <1>1, <2>1, BCallFailsFit
  <2>2. CASE ~(\E stale : BCallFails(stale))
    <3>1. PICK t \in Tokens : t = binding.linked
      BY <1>2, <1>4 DEF BLoadLinked, BindingType, OptTok
    <3>2. Present(tok[t]) /\ bw' = Link(t, tok[t].phase = "Ready", FALSE, FALSE)
      BY <1>4, <2>2, <3>1 DEF BLoadLinked
    <3>3. PICK ready \in BOOLEAN : ready = (tok[t].phase = "Ready")
      OBVIOUS
    <3>4. IF ready THEN Usable(t) ELSE tok[t].phase # "Ready"
      BY <3>2, <3>3 DEF Usable
    <3>5. QED
      BY <1>1, <3>2, <3>3, <3>4, LinkFit
  <2>3. QED
    BY <2>1, <2>2
<1>5. CASE BCreateToken
  <2>1. CASE BFailWith([binding EXCEPT !.reason = "LinkedToken"], "requeue")
    BY <1>1, <2>1, OnlyKey, BFailWithFit
  <2>2. CASE ~BFailWith([binding EXCEPT !.reason = "LinkedToken"], "requeue")
    <3>1. PICK t \in Tokens : tok[t].st = "none" /\ PutToken(t, NewToken("ok")) /\ bw' = Link(t, FALSE, TRUE, TRUE)
      BY <1>5, <2>2 DEF BCreateToken
    <3>2. tok'[t] = NewToken("ok") /\ NewToken("ok").st = "live"
      BY <3>1 DEF PutToken, SendToken, NewToken, Typed, TypeOK
    <3>3. tok' # tok
      BY <3>1, <3>2
    <3>4. QED
      BY <1>1, <3>1, <3>3, LinkFit
  <2>3. QED
    BY <2>1, <2>2
<1>6. QED
  BY <1>3, <1>4, <1>5

\* The link label and the link in the status: Reconcile is about to read on.
LEMMA BLinkingFit ==
  ASSUME Typed, FaultInv, FitInv, Onward, Steady, BLabel \/ BLinkStatus
  PROVE  FitInv'
<1>1. bw.pc = "link" /\ AbandonLink # "done"
  BY DEF BLabel, BLinkStatus, AbandonLink
<1>2. PICK k \in Bindings : k = bKey
  BY <1>1, BCopyTyped
<1>3. bnd[k] \in BindingType
  BY <1>2 DEF Typed, TypeOK
<1>4. ASSUME NEW o, BFailWith(o, AbandonLink), BLocal PROVE FitInv'
  BY <1>1, <1>4, OnlyKey, BFailWithFit DEF BLocal, objects
<1>5. ASSUME NEW new, BPut(new), new.st = bnd[k].st, NEW o, bw' = [bw EXCEPT !.obj = o] PROVE FitInv'
  <2>1. bnd' = [bnd EXCEPT ![bKey] = new] /\ sec' = sec /\ bnd'[k] = new
    BY <1>2, <1>5 DEF BPut, PutBinding, Typed, TypeOK
  <2>2. bw'.pc = "link" /\ bw'.key = bw.key /\ bw'.token = bw.token /\ bw'.ready = bw.ready
    BY <1>1, <1>5 DEF Typed, TypeOK, BindingWorkerType
  <2>3. ASSUME bnd'[k].st = "live", k \notin bq' PROVE Informed(bw)'
    <3>1. Informed(bw) /\ tok' = tok
      BY <1>1, <1>2, <1>5, <2>1, <2>3, Knows
    <3>2. QED
      BY <1>1, <2>2, <3>1 DEF Informed, Usable
  <2>4. QED
    BY <1>1, <1>2, <2>1, <2>2, <2>3, OnlyKey, OwnFit
<1>6. CASE BLabel
  <2>1. [bnd[bKey] EXCEPT !.label = bw.token].st = bnd[k].st
    BY <1>2, <1>3 DEF BindingType
  <2>2. QED
    BY <1>4, <1>5, <1>6, <2>1 DEF BLabel
<1>7. CASE BLinkStatus
  BY <1>1, <1>2, <1>4, <1>5, <1>7, StatusSpec DEF BLinkStatus
<1>8. QED
  BY <1>6, <1>7

\* CheckPoint and the data of a token that is ready: if there is none, the token
\* is being deleted, for a live one that is ready has data.
LEMMA BPrepareFit ==
  ASSUME Typed, CopyInv, FaultInv, WakeInv, FitInv, Onward, Steady, BPrepare
  PROVE  FitInv'
<1>1. bw.pc = "link" /\ Linked /\ bnd' = bnd /\ sec' = sec /\ store' = store /\ tok' = tok
  BY DEF BPrepare, Linked, BLocal, objects
<1>2. binding \in BindingType /\ bnd[bKey].linked = bw.token /\ binding.linked = bw.token
  BY <1>1, BCopyTyped, CopyRead DEF CopyOK, Obligated, Linked, binding, bKey
<1>3. CASE bw'.pc = "fail" /\ bw'.key = bw.key /\ bw'.then # "done"
  BY <1>1, <1>3, OnlyKey, FreeFit
<1>4. CASE ~(bw'.pc = "fail" /\ bw'.key = bw.key /\ bw'.then # "done")
  <2>1. PICK d : d = IF bw.ready THEN store[bw.token] ELSE NoData
    OBVIOUS
  <2>2. bw' = IF d = NoData THEN [bw EXCEPT !.keep = Existing, !.pc = "finish", !.obj = Awaiting(@)]
              ELSE [bw EXCEPT !.keep = Existing, !.pc = "inject", !.data = d]
    BY <1>4, <2>1 DEF BPrepare, BFailWith, Typed, TypeOK, BindingWorkerType
  <2>3. bw'.key = bw.key /\ bw'.token = bw.token /\ bw'.ready = bw.ready /\ bw'.pc \in {"finish", "inject"}
    BY <2>2 DEF Typed, TypeOK, BindingWorkerType
  <2>4. ASSUME Informed(bw) PROVE Informed(bw)'
    <3>1. PICK t \in Tokens : t = bw.token
      BY <1>1, <2>4 DEF Informed
    <3>2. IF bw.ready THEN Usable(t) ELSE tok[t].phase # "Ready"
      BY <1>1, <2>4, <3>1 DEF Informed
    <3>3. CASE d = NoData
      <4>1. bw'.pc = "finish" /\ bw'.obj = Awaiting(binding)
        BY <2>2, <3>3 DEF Typed, TypeOK, BindingWorkerType, binding
      <4>2. bw'.obj.phase = "AwaitingTokenData" /\ bw'.obj.linked = t
        BY <1>2, <3>1, <4>1 DEF Awaiting, BindingType
      <4>3. Useless(t)
        <5>1. Usable(t) /\ store[t] = NoData => tok[t].st # "live"
          BY <3>1 DEF Usable, WakeInv, Remembered, Backed
        <5>2. QED
          BY <2>1, <3>1, <3>2, <3>3, <5>1 DEF Useless, Usable, Present
      <4>4. QED
        BY <1>1, <1>2, <2>3, <3>1, <3>2, <4>1, <4>2, <4>3 DEF Informed, Useless, Usable, bKey
    <3>4. CASE d # NoData
      <4>1. bw'.pc = "inject" /\ bw'.data = d /\ bw'.obj = bw.obj
        BY <2>2, <3>4 DEF Typed, TypeOK, BindingWorkerType
      <4>2. bw.ready /\ d = store[t]
        BY <2>1, <3>1, <3>4
      <4>3. Served(bw.data, bw.token)'
        BY <1>1, <2>3, <3>1, <4>1, <4>2 DEF Served
      <4>4. QED
        BY <1>1, <1>2, <2>3, <3>1, <3>2, <4>1, <4>2, <4>3 DEF Informed, Useless, Usable, bKey, binding
    <3>5. QED
      BY <3>3, <3>4
  <2>5. QED
    BY <1>1, <2>3, <2>4, LearnsFit
<1>5. QED
  BY <1>3, <1>4

\* Sync fills the secret with the data that was read.
LEMMA BInjectFit == ASSUME Typed, FaultInv, FitInv, Onward, Steady, BInject PROVE FitInv'
<1>1. bw.pc = "inject"
  BY DEF BInject
<1>2. PICK k \in Bindings : k = bKey
  BY <1>1, BCopyTyped
<1>3. binding \in BindingType
  BY <1>1, BCopyTyped
<1>4. CASE BFailWith(Erroneous(binding, "TokenSync"), "revert") /\ BLocal
  BY <1>1, <1>4, OnlyKey, BFailWithFit DEF BLocal, objects
<1>5. CASE ~(BFailWith(Erroneous(binding, "TokenSync"), "revert") /\ BLocal)
  <2>1. PICK s \in SecretNames :
          /\ sec' = [sec EXCEPT ![bKey][s] = bw.data]
          /\ bw' = [bw EXCEPT !.pc = "finish", !.data = NoData,
                      !.obj = [@ EXCEPT !.phase = "Injected", !.synced = s]]
    BY <1>5 DEF BInject
  <2>2. UNCHANGED <<tok, bnd, store, tw, tq, up>>
    BY <1>5 DEF BInject, outside
  <2>3. s \in Secrets /\ s # NoSec
    BY <1>3, ConstantsAssumption DEF SecretNames, BindingType, OptSec
  <2>4. /\ bw'.pc = "finish" /\ bw'.key = bw.key /\ bw'.token = bw.token /\ bw'.ready = bw.ready
        /\ bw'.obj = [binding EXCEPT !.phase = "Injected", !.synced = s]
    BY <2>1 DEF Typed, TypeOK, BindingWorkerType, binding
  <2>5. bw'.obj.phase = "Injected" /\ bw'.obj.synced = s /\ bw'.obj.linked = binding.linked
    BY <1>3, <2>4 DEF BindingType
  <2>6. sec'[k][s] = bw.data /\ OthersKept
    BY <1>2, <2>1, <2>2, <2>3 DEF OthersKept, Typed, TypeOK
  <2>7. ASSUME bnd'[k].st = "live", k \notin bq' PROVE Informed(bw)'
    <3>1. Informed(bw)
      BY <1>1, <1>2, <2>2, <2>7, Knows
    <3>2. PICK d : d = bw.data
      OBVIOUS
    <3>3. bw.ready /\ Served(d, bw.token) /\ bw.token \in Tokens /\ Usable(bw.token)
          /\ bnd[bw.key].linked = bw.token /\ bw.obj.linked = bw.token
      BY <1>1, <3>1, <3>2 DEF Informed
    <3>4. Served(d, bw.token)'
      BY <2>2, <2>4, <3>3 DEF Served, Excused
    <3>5. Served(sec[bw.key][bw.obj.synced], bw.token)'
      BY <1>2, <2>4, <2>5, <2>6, <3>2, <3>4 DEF Served, bKey
    <3>6. Usable(bw.token)'
      BY <2>2, <2>4, <3>3 DEF Usable
    <3>7. QED
      BY <2>2, <2>3, <2>4, <2>5, <3>3, <3>5, <3>6 DEF Informed, binding
  <2>8. QED
    BY <1>1, <1>2, <2>4, <2>6, <2>7, OwnFit
<1>6. QED
  BY <1>4, <1>5

\* The outcome is written: unless that is an event, the status said so before.
LEMMA BFinishFit == ASSUME Typed, FaultInv, FitInv, Onward, Steady, BFinish PROVE FitInv'
<1>1. bw.pc = "finish"
  BY DEF BFinish
<1>2. PICK k \in Bindings : k = bKey
  BY <1>1, BCopyTyped
<1>3. binding \in BindingType /\ bnd[k] \in BindingType
  BY <1>1, <1>2, BCopyTyped
<1>4. CASE bw' = [bw EXCEPT !.pc = "revert"] /\ BLocal
  <2>1. bw'.pc = "revert" /\ bw'.key = bw.key /\ bnd' = bnd /\ sec' = sec
    BY <1>4 DEF BLocal, objects, Typed, TypeOK, BindingWorkerType
  <2>2. QED
    BY <1>1, <2>1, OnlyKey, FreeFit
<1>5. CASE ~(bw' = [bw EXCEPT !.pc = "revert"] /\ BLocal)
  <2>1. PICK new : new = BWithStatus([binding EXCEPT !.reason = ""])
    OBVIOUS
  <2>2. PutBinding(bKey, new) /\ UNCHANGED <<tok, sec>>
    BY <1>5, <2>1 DEF BFinish, BPut
  <2>3. /\ new.st = bnd[k].st /\ new.phase = binding.phase
        /\ new.linked = binding.linked /\ new.synced = binding.synced
    BY <1>2, <1>3, <2>1 DEF BWithStatus, BindingType
  <2>4. bnd' = [bnd EXCEPT ![bKey] = new] /\ bnd'[k] = new
    BY <1>2, <2>2 DEF PutBinding, Typed, TypeOK
  <2>5. k \notin bq' => new = bnd[k]
    BY <1>2, <2>2 DEF PutBinding
  <2>6. OthersKept
    BY <1>1, <2>2, <2>4, OnlyKey
  <2>7. ASSUME bnd'[k].st = "live", k \notin bq' PROVE Informed(bw) /\ bnd[k] = new
    BY <1>1, <1>2, <2>3, <2>4, <2>5, <2>7, Knows
  <2>8. CASE binding.phase = "Injected"
    <3>1. bw'.pc = "idle"
      BY <1>5, <2>8 DEF BFinish, BReturn, BIdle, IdleBindingWorker
    <3>2. ASSUME bnd'[k].st = "live", k \notin bq' PROVE Fits(k)'
      <4>1. Informed(bw) /\ bnd[k] = new
        BY <2>7, <3>2
      <4>2. /\ bnd[k].linked = bw.token /\ bw.token \in Tokens /\ Usable(bw.token)
            /\ bnd[k].synced # NoSec /\ Served(sec[k][bnd[k].synced], bw.token)
        BY <1>1, <1>2, <2>3, <2>8, <4>1 DEF Informed, binding, bKey
      <4>3. Fits(k)
        BY <2>3, <2>8, <4>1, <4>2, ConstantsAssumption DEF Fits
      <4>4. QED
        BY <2>2, <2>4, <3>2, <4>1, <4>3, FitsKept DEF Present, Spared
    <3>3. QED
      BY <1>1, <1>2, <2>6, <3>1, <3>2, OwnFit
  <2>9. CASE binding.phase # "Injected"
    <3>1. bw' = [bw EXCEPT !.pc = "cleanup", !.obj.reason = ""]
      BY <1>5, <2>9 DEF BFinish
    <3>2. bw'.pc = "cleanup" /\ bw'.key = bw.key /\ bw'.token = bw.token /\ bw'.ready = bw.ready
          /\ bw'.obj.linked = bw.obj.linked
      BY <3>1 DEF Typed, TypeOK, BindingWorkerType, BindingType
    <3>3. ASSUME bnd'[k].st = "live", k \notin bq' PROVE Informed(bw)'
      <4>1. Informed(bw) /\ bnd[k] = new
        BY <2>7, <3>3
      <4>2. /\ bw.token \in Tokens /\ (IF bw.ready THEN Usable(bw.token) ELSE tok[bw.token].phase # "Ready")
            /\ binding.linked = bw.token /\ binding.phase = "AwaitingTokenData" /\ Useless(bw.token)
        BY <1>1, <2>9, <4>1 DEF Informed, binding
      <4>3. bnd'[bw'.key] = new /\ tok' = tok
        BY <1>2, <2>2, <2>4, <3>2 DEF bKey
      <4>4. QED
        BY <2>3, <3>2, <4>2, <4>3 DEF Informed, Usable, Useless, binding
    <3>4. QED
      BY <1>1, <1>2, <2>6, <3>2, <3>3, OwnFit
  <2>10. QED
    BY <2>8, <2>9
<1>6. QED
  BY <1>4, <1>5

\* A binding that awaits data ends without secrets; what was created for one that
\* could not be linked or reported is removed and the key queued again.
LEMMA BTidyFit ==
  ASSUME Typed, FaultInv, FitInv, Onward, Steady, BCleanup \/ BRevert \/ BUndo
  PROVE  FitInv'
<1>1. bw.pc \in {"cleanup", "revert", "undo"}
  BY DEF BCleanup, BRevert, BUndo
<1>2. PICK k \in Bindings : k = bKey
  BY <1>1, BCopyTyped
<1>3. bnd' = bnd /\ OthersKept
  <2>1. (\E names \in SUBSET Secrets : CleanedUp(bKey, names)) \/ (bnd' = bnd /\ sec' = sec)
    BY DEF BCleanup, BRevert, BUndo, objects
  <2>2. QED
    BY <1>1, <2>1, CleanedUpKept DEF OthersKept
<1>4. CASE BRevert \/ BUndo
  <2>1. bw'.pc = "idle" /\ bKey \in bq'
    BY <1>4 DEF BRevert, BUndo, BReturnErr, BReturn, BIdle, IdleBindingWorker
  <2>2. QED
    BY <1>1, <1>3, <2>1, RequeueFit
<1>5. CASE BCleanup /\ BFailWith([binding EXCEPT !.reason = "TokenSync"], "requeue")
  BY <1>1, <1>3, <1>5, BFailWithFit
<1>6. CASE BCleanup /\ ~BFailWith([binding EXCEPT !.reason = "TokenSync"], "requeue")
  <2>1. CleanedUp(bKey, Secrets) /\ bw'.pc = "idle" /\ bw.pc = "cleanup"
    BY <1>6 DEF BCleanup, BReturn, BIdle, IdleBindingWorker
  <2>2. tok' = tok /\ \A s \in Secrets : sec'[k][s] = NoData
    BY <1>2, <2>1 DEF CleanedUp, Typed, TypeOK
  <2>3. ASSUME bnd'[k].st = "live", k \notin bq' PROVE Fits(k)'
    <3>1. Informed(bw)
      BY <1>1, <1>2, <1>3, <2>3, Knows
    <3>2. /\ bnd[k].phase = "AwaitingTokenData" /\ bnd[k].linked = bw.token /\ bw.token \in Tokens
          /\ Useless(bw.token)
      BY <1>2, <2>1, <3>1 DEF Informed, bKey
    <3>3. QED
      BY <1>3, <2>2, <3>2, ConstantsAssumption DEF Fits, Useless
  <2>4. QED
    BY <1>1, <1>2, <1>3, <2>1, <2>3, OwnFit
<1>7. QED
  BY <1>4, <1>5, <1>6

\* Loading: the key leaves the queue for the worker.
LEMMA BGetFit == ASSUME Typed, FitInv, Steady, BGet PROVE FitInv'
<1>1. PICK b \in bq : /\ bq' = bq \ {b}
                      /\ bw' = IF Present(bnd[b])
                               THEN [BIdle(bw.lost \ {b}) EXCEPT !.pc = "loaded", !.key = b, !.obj = bnd[b]]
                               ELSE bw
  BY DEF BGet
<1>2. bw.pc = "idle" /\ UNCHANGED <<bnd, sec>>
  BY DEF BGet, objects
<1>3. CASE ~Present(bnd[b])
  <2>1. WorkInv'
    BY <1>1, <1>2, <1>3 DEF WorkInv
  <2>2. ASSUME NEW c \in Bindings PROVE Settled(c)'
    <3>1. CASE c = b
      BY <1>2, <1>3, <3>1 DEF Settled, Present
    <3>2. CASE c # b
      BY <1>1, <1>2, <1>3, <3>2, SettledKept DEF FitInv, Working, Spared
    <3>3. QED
      BY <3>1, <3>2
  <2>3. QED
    BY <2>1, <2>2 DEF FitInv
<1>4. CASE Present(bnd[b])
  <2>1. bw'.pc = "loaded" /\ bw'.key = b /\ bw'.lost = bw.lost \ {b}
    BY <1>1, <1>4 DEF BIdle, IdleBindingWorker
  <2>2. WorkInv'
    BY <2>1 DEF WorkInv, Informed
  <2>3. ASSUME NEW c \in Bindings PROVE Settled(c)'
    <3>1. CASE c = b
      BY <2>1, <3>1 DEF Settled, Working
    <3>2. CASE c # b
      BY <1>1, <1>2, <2>1, <3>2, SettledKept DEF FitInv, Working, Spared
    <3>3. QED
      BY <3>1, <3>2
  <2>4. QED
    BY <2>2, <2>3 DEF FitInv
<1>5. QED
  BY <1>3, <1>4

\* Every step preserves what bindings say of their tokens and secrets.
LEMMA NextFits == ASSUME BindingInv, FaultInv, WakeInv, HoldInv, FitInv, [Next]_vars PROVE FitInv'
<1>1. Typed /\ CopyInv /\ FinInv
  BY DEF BindingInv, FinInv
<1>2. Steady
  BY <1>1, NextHolds DEF HoldStep
<1>3. CASE BindingReconcile /\ ~BGet
  <2>1. Onward
    BY <1>1, <1>3, BindingReconcileOnward
  <2>2. CASE BBadUrl \/ BBadLifetime \/ BInvalid \/ BLookupFails \/ BMismatch \/ BFail \/ BNoProvider
    BY <1>1, <1>2, <2>1, <2>2, BErrorsFit, BNoProviderFit
  <2>3. CASE BSaveUrl \/ BMigrateAreas \/ BUnfinalize \/ BDelete \/ BMigrateFinalizers \/ BAddFinalizer \/ BFinalize
    BY <1>1, <1>2, <2>1, <2>3, BLastWritesFit, BFinalizersFit
  <2>4. CASE BLookup \/ BEnsure \/ BLinkMatch \/ BLoadLinked \/ BCreateToken \/ BLabel \/ BLinkStatus \/ BPrepare
    BY <1>1, <1>2, <2>1, <2>4, BLookupFit, BEnsureFit, BLinksFit, BLinkingFit, BPrepareFit
  <2>5. CASE BInject \/ BFinish \/ BCleanup \/ BRevert \/ BUndo
    BY <1>1, <1>2, <2>1, <2>5, BInjectFit, BFinishFit, BTidyFit
  <2>6. QED
    BY <1>3, <2>2, <2>3, <2>4, <2>5 DEF BindingReconcile
<1>4. CASE BGet
  BY <1>1, <1>2, <1>4, BGetFit
<1>5. CASE TokenReconcile
  BY <1>1, <1>2, <1>5, TokenReconcileAside, TokenReconcileOnward, AsideFit
<1>6. CASE \/ TokenTimer \/ BindingTimer \/ Service \/ UploadGet \/ CreateToken \/ DeleteToken
           \/ RequestRefresh \/ TokenAges \/ BindingAges \/ UNCHANGED vars
  BY <1>1, <1>2, <1>6, OthersAside, OthersOnward, AsideFit
<1>7. CASE CreateBinding \/ DeleteBinding \/ DeleteSecret
  BY <1>1, <1>2, <1>7, OthersOnward, CreateBindingFit, DeleteBindingFit, DeleteSecretFit
<1>8. CASE Restart \/ RefreshPanics
  BY <1>8, StartOverFit DEF Restart, RefreshPanics
<1>9. QED
  BY <1>3, <1>4, <1>5, <1>6, <1>7, <1>8 DEF Next, Controllers, Users, Environment

\* The bindings of a former version are queued.
LEMMA InitFits == Init => FitInv
<1> SUFFICES ASSUME Init PROVE FitInv
  OBVIOUS
<1>1. bw.pc = "idle"
  BY DEF Init, IdleBindingWorker
<1>2. AbsentBinding("none").st = "none"
  BY DEF AbsentBinding, NewBinding
<1>3. \A b \in Bindings : bnd[b].st = "live" => b \in bq
  BY <1>2 DEF Init
<1>4. QED
  BY <1>1, <1>3 DEF FitInv, WorkInv, Settled

\* At rest no token is being deleted and no refresh is on its way, so that only an
\* upload that was not announced excuses a secret.
LEMMA RestFits ==
  ASSUME Typed, WakeInv, HoldInv, FitInv
  PROVE  QuiescentBindings
<1> SUFFICES ASSUME Quiescent, NEW b \in Bindings \ bw.lost, bnd[b].st = "live"
             PROVE  LET t == bnd[b].linked
                    IN /\ bnd[b].phase = "Injected" =>
                            /\ bnd[b].synced # NoSec /\ t # NoTok
                            /\ store[t] # NoData /\ (t \in up.lost \/ sec[b][bnd[b].synced] = store[t])
                       /\ bnd[b].phase = "AwaitingTokenData" =>
                            /\ \A s \in Secrets : sec[b][s] = NoData
                            /\ t # NoTok /\ tok[t].phase # "Ready"
  BY DEF QuiescentBindings
<1>1. Fits(b)
  BY DEF FitInv, Settled, Working, Quiescent
<1>2. ASSUME NEW t \in Tokens PROVE tok[t].st # "deleting" /\ (Usable(t) => store[t] # NoData)
  <2>1. tok[t].st # "deleting"
    BY DEF HoldInv, Leaving, Quiescent
  <2>2. QED
    BY <2>1 DEF WakeInv, Remembered, Backed, Usable, Present
<1>3. ASSUME NEW t \in Tokens, Excused(t) PROVE t \in up.lost
  BY <1>2, <1>3 DEF Excused, Quiescent
<1>4. bnd[b].linked # NoTok => bnd[b].linked \in Tokens
  BY DEF Typed, TypeOK, BindingType, OptTok
<1>5. QED
  BY <1>1, <1>2, <1>3, <1>4 DEF Fits, Served, Useless

\* No wake-up of the binding controller is lost, for any number of bindings,
\* tokens, failures, restarts and operations of users: between two events the
\* secret of an injected binding follows the storage, because whatever changes
\* the token, its data or the secret queues the binding, and the worker's copy is
\* written only where it makes a difference.
THEOREM NoBindingForgotten == Spec => []QuiescentBindings
<1>1. Init => FaultInv /\ WakeInv /\ HoldInv /\ FitInv
  BY InitKept, InitWake, InitHolds, InitFits
<1>2. BindingInv /\ FaultInv /\ [Next]_vars => FaultInv'
  BY NextKept
<1>3. BindingInv /\ WakeInv /\ [Next]_vars => WakeInv'
  BY NextWake DEF BindingInv, FinInv
<1>4. BindingInv /\ WakeInv /\ HoldInv /\ [Next]_vars => HoldInv'
  BY NextHolds DEF BindingInv, FinInv, HoldStep
<1>5. BindingInv /\ FaultInv /\ WakeInv /\ HoldInv /\ FitInv /\ [Next]_vars => FitInv'
  BY NextFits
<1>6. BindingInv /\ WakeInv /\ HoldInv /\ FitInv => QuiescentBindings
  BY RestFits DEF BindingInv, FinInv
<1>7. QED
  BY <1>1, <1>2, <1>3, <1>4, <1>5, <1>6, BindingInvHolds, PTL DEF Spec
=============================================================================
