----------------------------- MODULE SPICluster -----------------------------
(***************************************************************************)
(* The state the SPI operator's controllers share: the custom resources of *)
(* one namespace as the Kubernetes API server holds them, the token        *)
(* storage, the injected secrets, the controllers' work queues and the     *)
(* budget of failures and restarts.                                        *)
(*                                                                         *)
(* The API server, the work queues and the token storage backend are not   *)
(* part of the repository; they are modelled from how the controllers use  *)
(* them:                                                                   *)
(*  - a write of a copy that is out of date is refused (conflict);         *)
(*  - a write that changes nothing produces no event;                      *)
(*  - Update returns the server's status, Status().Update writes only the  *)
(*    status;                                                              *)
(*  - Delete of an object with finalizers only marks it; removing the last *)
(*    finalizer of a marked object removes it;                             *)
(*  - a queue holds a key at most once, and a key added while its worker   *)
(*    is busy with it stays queued for later.                              *)
(***************************************************************************)
EXTENDS Naturals, FiniteSets

CONSTANTS
  Tokens,        \* names of SPIAccessToken objects (generated, never reused)
  Bindings,      \* names of SPIAccessTokenBinding objects
  Data,          \* token data that can be in the token storage
  Secrets,       \* names a binding's injected secret can get
  FixedName,     \* the one of them named in spec.secret.name
  NoTok, NoBnd, NoData, NoSec,
  BindingSpecs,  \* the specs a binding can be created with
  TokenSpecs,    \* the specs a user can create a token with
  Matches,       \* <<b, d>>: metadata of data d satisfies binding b
  RejectedData,  \* data the service provider answers 401/403 to
  ReportsMissing,  \* whether the backend's Delete reports a missing record
  LegacyBindings,  \* bindings a former version of the operator may have left
  UserOps,         \* the kinds of operations users perform
  TimePasses,      \* whether tokens and bindings grow old
  MetadataExpires, \* whether cached metadata can outlive its TTL
  MaxFaults,     \* bound: transient failures of API, storage or provider calls
  MaxRestarts,   \* bound: restarts of the operator process
  MaxOps         \* bound: operations of users (create, delete, upload, ...)

BindingSpecType ==
  [url: {"ok", "noScheme", "bad"},   \* what assureProperRepoUrl makes of it
   provider: BOOLEAN,                \* FromRepoUrl finds a service provider
   areas: {"current", "deprecated"}, \* quay permission areas
   lifetime: {"limited", "infinite", "invalid"},
   valid: BOOLEAN,                   \* passes Validate of binding and provider
   named: BOOLEAN]                   \* spec.secret.name is set

TokenSpecType == {"ok", "unknownProvider", "badScopes"}

ASSUME ConstantsAssumption ==
  /\ NoTok \notin Tokens /\ NoBnd \notin Bindings
  /\ NoData \notin Data /\ NoSec \notin Secrets
  /\ FixedName \in Secrets
  /\ BindingSpecs \subseteq BindingSpecType
  /\ TokenSpecs \subseteq TokenSpecType
  /\ Matches \subseteq Bindings \X Data
  /\ RejectedData \subseteq Data
  /\ MetadataExpires \in BOOLEAN /\ ReportsMissing \in BOOLEAN /\ TimePasses \in BOOLEAN
  /\ LegacyBindings \subseteq Bindings
  /\ MaxFaults \in Nat /\ MaxRestarts \in Nat /\ MaxOps \in Nat

VARIABLES
  tok,      \* the SPIAccessToken objects
  bnd,      \* the SPIAccessTokenBinding objects
  sec,      \* sec[b][s]: data in secret s managed by binding b
  store,    \* the token storage
  du,       \* tokens with an unprocessed SPIAccessTokenDataUpdate
  tq, bq,   \* work queues of the token and the binding controller
  tTimer, bTimer, \* keys with a pending RequeueAfter
  tAge,     \* age of each token: 0 young, 1 past the deletion grace period, 2 past
            \* its TTL, 3 past TTL and grace period
  bAge,     \* age of each binding: 0 young, 1 past its lifetime, 2 past lifetime
            \* and grace period
  tw, bw,   \* the worker of each controller and its local copy of an object
  up,       \* the upload in progress in the OAuth service
  faults, restarts, ops   \* what is left of the bounds

objects == <<tok, bnd, sec, store, du, tAge, bAge>>
workers == <<tw, bw>>
queues  == <<tq, bq, tTimer, bTimer>>
budgets == <<faults, restarts, ops>>
outside == <<restarts, ops, up>>  \* what no controller touches

----------------------------------------------------------------------------
TokenStates  == {"none", "live", "deleting", "gone"}
TokenPhases  == {"", "AwaitingTokenData", "Ready", "Invalid", "Error"}
BindingPhases == {"", "AwaitingTokenData", "Injected", "Error"}

OptData == Data \cup {NoData}
OptTok  == Tokens \cup {NoTok}
OptBnd  == Bindings \cup {NoBnd}
OptSec  == Secrets \cup {NoSec}

\* meta is the data the cached metadata was fetched with; fin stands for both
\* finalizers, which the controller adds and removes in one Update.
TokenReasons == {"", "UnknownServiceProvider", "UnsupportedPermissions", "MetadataFailure"}

TokenType ==
  [st: TokenStates, spec: TokenSpecType, phase: TokenPhases, reason: TokenReasons,
   meta: OptData, fin: BOOLEAN, labelled: BOOLEAN, refresh: BOOLEAN]

\* fin = "old" is the deprecated linked-secrets finalizer.
BindingReasons ==
  {"", "UnknownServiceProviderType", "InvalidLifetime", "UnsupportedPermissions",
   "TokenLookup", "LinkedToken", "TokenRetrieval", "TokenSync", "ServiceAccountUpdate"}

BindingType ==
  [st: TokenStates, spec: BindingSpecType, phase: BindingPhases, reason: BindingReasons,
   fin: {"none", "old", "new"}, label: OptTok, linked: OptTok, synced: OptSec]

NewToken(spec) ==
  [st |-> "live", spec |-> spec, phase |-> "", reason |-> "", meta |-> NoData,
   fin |-> FALSE, labelled |-> FALSE, refresh |-> FALSE]

AbsentToken(st) == [NewToken("ok") EXCEPT !.st = st]

NewBinding(spec) ==
  [st |-> "live", spec |-> spec, phase |-> "", reason |-> "", fin |-> "none",
   label |-> NoTok, linked |-> NoTok, synced |-> NoSec]

PlainSpec == [url |-> "ok", provider |-> TRUE, areas |-> "current",
              lifetime |-> "limited", valid |-> TRUE, named |-> FALSE]

AbsentBinding(st) == [NewBinding(PlainSpec) EXCEPT !.st = st]

Present(o) == o.st \in {"live", "deleting"}
LiveTokens == {t \in Tokens : Present(tok[t])}
LiveBindings == {b \in Bindings : Present(bnd[b])}

\* hasLinkedBindings: some binding carries the link label of the token.
HasLinkedBindings(t) == \E b \in LiveBindings : bnd[b].label = t

----------------------------------------------------------------------------
(* API server: what a write makes of an object, and the events it sends.    *)

\* An object whose last finalizer is removed while it is being deleted goes.
Settle(o, finalized, absent) ==
  IF o.st = "deleting" /\ finalized THEN absent ELSE o

SettleToken(o) == Settle(o, ~o.fin, AbsentToken("gone"))
SettleBinding(o) == Settle(o, o.fin = "none", AbsentBinding("gone"))

\* What Delete makes of a present object.
DeletedToken(o) == SettleToken([o EXCEPT !.st = "deleting"])
DeletedBinding(o) == SettleBinding([o EXCEPT !.st = "deleting"])

\* Mutant: the binding controller does not watch tokens.
NoTokenWatch(changed) == {}

\* Keys that the watches of both controllers enqueue for a changed token:
\* the token, and every binding of the namespace.
TokensWokenBy(t, changed) == IF changed THEN {t} ELSE {}
BindingsWokenBy(changed) == IF changed THEN LiveBindings ELSE {}

\* Mutant: a binding without a link is mapped to a token with an empty name.
LinksUnfiltered(b, new) == IF new = bnd[b] THEN {} ELSE {bnd[b].label, new.label}

\* For a changed binding: the binding, and the tokens its link label named
\* before and after the change.
LinksWokenBy(b, new) ==
  IF new = bnd[b] THEN {} ELSE {bnd[b].label, new.label} \ {NoTok}

\* Mutant: the binding controller does not watch secrets.
NoSecretWatch(b, s) == {}

\* For a changed secret: the binding whose status refers to it.
SecretWakes(b, s) == IF bnd[b].synced = s THEN {b} ELSE {}

\* Mutant: data updates do not reach the token controller.
NoDataUpdateOwner(t) == {}

\* For a created or deleted SPIAccessTokenDataUpdate: the token and the
\* bindings whose status links to it.
DataUpdateOwner(t) == {t}
LinkedTo(t) == {b \in LiveBindings : bnd[b].linked = t}

\* The server stores an object and sends the events of the change.
SendToken(t, new, changed) ==
  /\ tok' = [tok EXCEPT ![t] = new]
  /\ tq' = tq \cup TokensWokenBy(t, changed)
  /\ bq' = bq \cup BindingsWokenBy(changed)

PutToken(t, new) == SendToken(t, new, new # tok[t])

\* Persisted metadata carries the time it was fetched, so that writing it is a
\* change even when its content is the old one.
Restamped(t, new) == new # tok[t] \/ new.meta # NoData

PutBinding(b, new) ==
  /\ bnd' = [bnd EXCEPT ![b] = new]
  /\ bq' = bq \cup (IF new = bnd[b] THEN {} ELSE {b})
  /\ tq' = tq \cup LinksWokenBy(b, new)

\* A write by somebody else makes the copy a worker holds out of date.
OutdateToken(t, changed) == tw' = [tw EXCEPT !.stale = @ \/ (tw.key = t /\ changed)]
OutdateLookup(t, changed) ==
  bw' = [bw EXCEPT !.moved = @ \cup (IF changed THEN {t} \cap bw.todo ELSE {})]
OutdateBinding(b, new) ==
  bw' = [bw EXCEPT !.stale = @ \/ (bw.key = b /\ new # bnd[b])]

----------------------------------------------------------------------------
(* Workers. Each controller has one worker; between two API calls it holds  *)
(* a copy of the object it reconciles.                                      *)

TokenPcs == {"idle", "loaded", "unfinalize", "delete", "ensure", "persist", "flip",
             "save", "refresh", "store", "unlabel"}

TokenWorkerType ==
  [pc: TokenPcs, key: OptTok, obj: TokenType, stale: BOOLEAN,
   data: OptData,     \* the refreshed token data on its way to the storage
   again: BOOLEAN]    \* Reconcile will return an error after the status write

IdleTokenWorker ==
  [pc |-> "idle", key |-> NoTok, obj |-> AbsentToken("none"), stale |-> FALSE,
   data |-> NoData, again |-> FALSE]

BindingPcs == {"idle", "loaded", "unfinalize", "lookup", "link", "inject", "finish",
               "cleanup", "fail", "undo", "revert"}

BindingWorkerType ==
  [pc: BindingPcs, key: OptBnd, obj: BindingType, stale: BOOLEAN,
   cand: SUBSET Tokens,   \* Lookup: tokens that match
   todo: SUBSET Tokens,   \* Lookup: tokens whose metadata is to be refreshed
   had: SUBSET Tokens,    \* Lookup: those of them listed with metadata
   moved: SUBSET Tokens,  \* Lookup: those changed since they were listed
   token: OptTok, ready: BOOLEAN, matching: BOOLEAN, created: BOOLEAN,
   data: OptData,         \* token data on its way to the secret
   keep: SUBSET Secrets,  \* the checkpoint: secrets that existed before Sync
   then: {"done", "requeue", "undo", "revert"}, \* after the error status write
   lost: SUBSET Bindings] \* bindings whose last Reconcile ended, for good, with an
                          \* error report that could not be written

IdleBindingWorker ==
  [pc |-> "idle", key |-> NoBnd, obj |-> AbsentBinding("none"), stale |-> FALSE,
   cand |-> {}, todo |-> {}, had |-> {}, moved |-> {}, token |-> NoTok, ready |-> FALSE,
   matching |-> FALSE, created |-> FALSE, data |-> NoData, keep |-> {},
   then |-> "done", lost |-> {}]

UploaderType ==
  [pc: {"idle", "store", "notify"}, key: OptTok, data: OptData,
   lost: SUBSET Tokens]   \* tokens whose last upload was stored but not announced
IdleUploader == [pc |-> "idle", key |-> NoTok, data |-> NoData, lost |-> {}]

----------------------------------------------------------------------------
(* Failures. A call fails at the cost of one transient fault, a write of a  *)
(* stale copy fails by itself.                                              *)

Fault == faults > 0 /\ faults' = faults - 1
NoFault == UNCHANGED faults
WriteFails(stale) == IF stale THEN UNCHANGED faults ELSE Fault

----------------------------------------------------------------------------
\* Every variable has its type.
TypeOK ==
  /\ tok \in [Tokens -> TokenType]
  /\ bnd \in [Bindings -> BindingType]
  /\ sec \in [Bindings -> [Secrets -> OptData]]
  /\ store \in [Tokens -> OptData]
  /\ du \subseteq Tokens
  /\ tq \subseteq Tokens /\ bq \subseteq Bindings
  /\ tTimer \subseteq Tokens /\ bTimer \subseteq Bindings
  /\ tAge \in [Tokens -> 0..3] /\ bAge \in [Bindings -> 0..2]
  /\ tw \in TokenWorkerType
  /\ bw \in BindingWorkerType
  /\ up \in UploaderType
  /\ faults \in 0..MaxFaults
  /\ restarts \in 0..MaxRestarts
  /\ ops \in 0..MaxOps
=============================================================================
