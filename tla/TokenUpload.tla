----------------------------- MODULE TokenUpload -----------------------------
(***************************************************************************)
(* TokenUploadReconciler: a user puts token data into a labelled Secret,   *)
(* and the controller deletes the Secret, finds or creates the             *)
(* SPIAccessToken, stores the data and tells of a failure with an Event    *)
(* that has the name of the Secret.  There is one such name; users may     *)
(* change, delete and create the Secret again at any time.                 *)
(***************************************************************************)
EXTENDS Naturals, FiniteSets

CONSTANTS
  Names,       \* the token names users write into the Secret
  Generated,   \* a generated token name
  Credentials, \* the token data users upload
  MaxOps,      \* bound: operations of users
  MaxFaults,   \* bound: failing calls
  MaxRestarts  \* bound: restarts of the operator

ASSUME UploadBounds == MaxOps \in Nat /\ MaxFaults \in Nat /\ MaxRestarts \in Nat

None == "none"
Tokens == Names \cup {Generated}

VARIABLES
  secret,    \* the upload Secret: [st, kind (the label), name ("" for none), cred, rev
             \* (the number of the write by which its user set the data)]
  cached,    \* the Secret in the informer cache of the controller
  lag,       \* whether the cache has not yet seen the last change
  event,     \* whether the Event exists
  eventSeen, \* whether it is in the cache
  uq, up,    \* the work queue and the worker of the controller
  tokens,    \* the SPIAccessTokens that exist
  store,     \* the token storage
  upload,    \* history: the last write of data by a user, whether the data got into the
             \* storage and what became of it: [rev, stored, result]
  budget     \* [ops, faults, restarts, eventFault]

vars == <<secret, cached, lag, event, eventSeen, uq, up, tokens, store, upload, budget>>

NoSecret == [st |-> None, kind |-> None, name |-> "", cred |-> None, rev |-> 0]
IdleUpload == [pc |-> "idle", sec |-> NoSecret, tok |-> None, err |-> FALSE]

Init ==
  /\ secret = NoSecret /\ cached = NoSecret /\ lag = FALSE /\ event = FALSE /\ eventSeen = FALSE
  /\ uq = FALSE /\ up = IdleUpload
  /\ tokens = {} /\ store = [t \in Tokens |-> None]
  /\ upload = [rev |-> 0, stored |-> FALSE, result |-> None]
  /\ budget = [ops |-> MaxOps, faults |-> MaxFaults, restarts |-> MaxRestarts, eventFault |-> FALSE]

Fault == budget.faults > 0 /\ budget' = [budget EXCEPT !.faults = @ - 1]
EventFault == budget.faults > 0 /\ budget' = [budget EXCEPT !.faults = @ - 1, !.eventFault = TRUE]
NoFault == UNCHANGED budget
FaultOr(c) == Fault \/ (c /\ NoFault)
UserActs == budget.ops > 0 /\ budget' = [budget EXCEPT !.ops = @ - 1]

----------------------------------------------------------------------------
(* Users and the informer.                                                  *)

\* A user puts data into the Secret, or takes it back.
Upload(name, cred) ==
  /\ secret' = [st |-> "live", kind |-> "token", name |-> name, cred |-> cred, rev |-> upload.rev + 1]
  /\ upload' = [rev |-> upload.rev + 1, stored |-> FALSE, result |-> "pending"]

CreateSecret ==
  /\ secret.st = None /\ UserActs
  /\ \E name \in Names \cup {""}, cred \in Credentials :
       /\ name = "" => Generated \notin tokens /\ up.pc = "idle"  \* one generated token at a time
       /\ Upload(name, cred)
  /\ lag' = TRUE
  /\ UNCHANGED <<cached, event, eventSeen, uq, up, tokens, store>>

EditSecret ==
  /\ secret.st = "live" /\ UserActs
  /\ \E cred \in Credentials \ {secret.cred} : Upload(secret.name, cred)
  /\ lag' = TRUE
  /\ UNCHANGED <<cached, event, eventSeen, uq, up, tokens, store>>

\* Secrets have no finalizers: one that is deleted is gone at once.
DeleteSecret ==
  /\ secret.st = "live" /\ UserActs
  /\ secret' = NoSecret /\ upload' = [upload EXCEPT !.result = "withdrawn"]
  /\ lag' = TRUE
  /\ UNCHANGED <<cached, event, eventSeen, uq, up, tokens, store>>

Relabel ==
  /\ secret.st = "live" /\ secret.kind = "token" /\ UserActs
  /\ secret' = [secret EXCEPT !.kind = "other"]
  /\ lag' = TRUE
  /\ UNCHANGED <<cached, event, eventSeen, uq, up, tokens, store, upload>>

\* The token controller deletes the data with the token.
DeleteToken ==
  /\ UserActs
  /\ \E t \in tokens : tokens' = tokens \ {t} /\ store' = [store EXCEPT ![t] = None]
  /\ UNCHANGED <<secret, cached, lag, event, eventSeen, uq, up, upload>>

CreateToken ==
  /\ UserActs
  /\ \E t \in Names \ tokens : tokens' = tokens \cup {t}
  /\ UNCHANGED <<secret, cached, lag, event, eventSeen, uq, up, store, upload>>

\* The predicate lets events of Secrets with the label through (an update needs
\* the label on the new object).
Watch ==
  /\ lag /\ lag' = FALSE /\ cached' = secret
  /\ uq' = (uq \/ (IF secret.st = "live" THEN secret.kind = "token" ELSE cached.kind = "token"))
  /\ UNCHANGED <<secret, event, eventSeen, up, tokens, store, upload, budget>>

WatchEvent ==
  /\ eventSeen # event /\ eventSeen' = event
  /\ UNCHANGED <<secret, cached, lag, event, uq, up, tokens, store, upload, budget>>

----------------------------------------------------------------------------
(* Reconcile.                                                               *)

\* Delete goes by the name: what it removes may hold newer data than the copy that
\* Reconcile goes on with, and nobody hears of that data again.
Deleted ==
  /\ secret' = NoSecret /\ lag' = TRUE
  /\ up' = [IdleUpload EXCEPT !.pc = IF cached.kind = "token" THEN "find" ELSE "clearEvent",
                              !.sec = cached, !.err = cached.kind # "token"]
  /\ upload' = IF cached.rev = secret.rev THEN upload ELSE [upload EXCEPT !.result = "overtaken"]

\* Mutant: a Secret that cannot be deleted is given up.
UploadGivesUp ==
  /\ up.pc = "idle" /\ uq /\ uq' = FALSE
  /\ \/ cached.st = None /\ NoFault /\ UNCHANGED <<up, secret, lag, upload>>
     \/ cached.st = "live" /\ FaultOr(secret.st = None) /\ UNCHANGED <<up, secret, lag, upload>>
     \/ cached.st = "live" /\ secret.st = "live" /\ NoFault /\ Deleted
  /\ UNCHANGED <<cached, event, eventSeen, tokens, store>>

\* Get, from the cache, and Delete; one that fails, also because the Secret is
\* gone by now, is tried again.  (Without finalizers no Secret is ever seen with
\* a deletion timestamp.)
UploadBegins ==
  /\ up.pc = "idle" /\ uq
  /\ \/ cached.st = None /\ NoFault /\ uq' = FALSE /\ UNCHANGED <<up, secret, lag, upload>>
     \/ cached.st = "live" /\ FaultOr(secret.st = None) /\ uq' = TRUE /\ UNCHANGED <<up, secret, lag, upload>>
     \/ cached.st = "live" /\ secret.st = "live" /\ NoFault /\ uq' = FALSE /\ Deleted
  /\ UNCHANGED <<cached, event, eventSeen, tokens, store>>

UploadFails == up' = [up EXCEPT !.pc = "clearEvent", !.err = TRUE]

\* Mutant: a name that is not given is taken for a token.
FindAnyToken ==
  /\ up.pc = "find"
  /\ \/ Fault /\ up.sec.name # "" /\ UploadFails
     \/ /\ NoFault
        /\ up' = IF up.sec.name \notin Names \ tokens
                 THEN [up EXCEPT !.pc = "store", !.tok = up.sec.name]
                 ELSE [up EXCEPT !.pc = "create"]
  /\ UNCHANGED <<secret, cached, lag, event, eventSeen, uq, tokens, store, upload>>

\* findSpiAccessToken
FindToken ==
  /\ up.pc = "find"
  /\ \/ Fault /\ up.sec.name # "" /\ UploadFails
     \/ /\ NoFault
        /\ up' = IF up.sec.name \in tokens
                 THEN [up EXCEPT !.pc = "store", !.tok = up.sec.name]
                 ELSE [up EXCEPT !.pc = "create"]
  /\ UNCHANGED <<secret, cached, lag, event, eventSeen, uq, tokens, store, upload>>

\* createSpiAccessToken: the token may exist by now.
CreateForUpload ==
  LET t == IF up.sec.name = "" THEN Generated ELSE up.sec.name IN
  /\ up.pc = "create"
  /\ \/ Fault /\ UploadFails /\ UNCHANGED tokens
     \/ NoFault /\ t \in tokens /\ UploadFails /\ UNCHANGED tokens
     \/ /\ NoFault /\ t \notin tokens
        /\ tokens' = tokens \cup {t}
        /\ up' = [up EXCEPT !.pc = "store", !.tok = t]
  /\ UNCHANGED <<secret, cached, lag, event, eventSeen, uq, store, upload>>

\* NotifyingSecretStorage.Store: the data may be stored and the notification of
\* the token controller fail.
Stored ==
  /\ store' = [store EXCEPT ![up.tok] = up.sec.cred]
  /\ upload' = [upload EXCEPT !.stored = @ \/ up.sec.rev = upload.rev]

\* Mutant: a failure of the storage is taken for success.
StoreUploadAnyway ==
  /\ up.pc = "store"
  /\ \/ Fault /\ UNCHANGED <<store, upload>>
     \/ NoFault /\ Stored
  /\ up' = [up EXCEPT !.pc = "clearEvent"]
  /\ UNCHANGED <<secret, cached, lag, event, eventSeen, uq, tokens>>

StoreUpload ==
  /\ up.pc = "store"
  /\ \/ Fault /\ UploadFails /\ (Stored \/ UNCHANGED <<store, upload>>)
     \/ NoFault /\ Stored /\ up' = [up EXCEPT !.pc = "clearEvent"]
  /\ UNCHANGED <<secret, cached, lag, event, eventSeen, uq, tokens>>

UploadDone ==
  /\ up' = IdleUpload
  /\ upload' = [upload EXCEPT !.result = IF up.sec.rev # upload.rev THEN @
                                         ELSE IF up.err THEN "failed" ELSE "done"]

\* Mutant: a failure only clears the Event of the last attempt.
ClearEventOnly ==
  /\ up.pc = "clearEvent"
  /\ \/ EventFault /\ UNCHANGED event
     \/ NoFault /\ event' = (event /\ ~eventSeen)
  /\ UploadDone
  /\ UNCHANGED <<secret, cached, lag, eventSeen, uq, tokens, store>>

\* tryDeleteEvent, before the Event of a failure and after a success.
ClearEvent ==
  /\ up.pc = "clearEvent"
  /\ \/ EventFault /\ UNCHANGED event
     \/ NoFault /\ event' = (event /\ ~eventSeen)
  /\ IF up.err THEN up' = [up EXCEPT !.pc = "event"] /\ UNCHANGED upload ELSE UploadDone
  /\ UNCHANGED <<secret, cached, lag, eventSeen, uq, tokens, store>>

\* createErrorEvent: an Event that is still there makes Create fail, which is
\* only logged.
ReportFailure ==
  /\ up.pc = "event"
  /\ (EventFault /\ UNCHANGED event) \/ (NoFault /\ event' = TRUE)
  /\ UploadDone
  /\ UNCHANGED <<secret, cached, lag, eventSeen, uq, tokens, store>>

\* The operator is restarted: Secrets with the label are listed.
Restart ==
  /\ budget.restarts > 0 /\ budget' = [budget EXCEPT !.restarts = @ - 1]
  /\ cached' = secret /\ lag' = FALSE /\ eventSeen' = event
  /\ uq' = (secret.st = "live" /\ secret.kind = "token") /\ up' = IdleUpload
  /\ upload' = IF up.pc # "idle" /\ up.sec.rev = upload.rev
               THEN [upload EXCEPT !.result = "lost"] ELSE upload
  /\ UNCHANGED <<secret, event, tokens, store>>

Reconcile == UploadBegins \/ FindToken \/ CreateForUpload \/ StoreUpload \/ ClearEvent \/ ReportFailure
Users == CreateSecret \/ EditSecret \/ DeleteSecret \/ Relabel \/ DeleteToken \/ CreateToken
Next == Reconcile \/ Users \/ Watch \/ WatchEvent \/ Restart

Spec == Init /\ [][Next]_vars

\* The controller works as long as there is work, and the informer delivers.
FairSpec == Spec /\ WF_vars(Reconcile) /\ WF_vars(Watch)

----------------------------------------------------------------------------
Secrets == [st : {None, "live"}, kind : {None, "token", "other"}, name : Names \cup {""},
            cred : Credentials \cup {None}, rev : Nat]

TypeOK ==
  /\ {secret, cached, up.sec} \subseteq Secrets /\ {lag, event, eventSeen, uq, up.err, upload.stored} \subseteq BOOLEAN
  /\ up.pc \in {"idle", "find", "create", "store", "clearEvent", "event"}
  /\ up.tok \in Tokens \cup {None} /\ (up.pc = "store" => up.tok \in Tokens /\ up.sec.st = "live")
  /\ tokens \subseteq Tokens /\ store \in [Tokens -> Credentials \cup {None}]
  /\ upload.rev \in Nat
  /\ upload.result \in {None, "pending", "done", "failed", "lost", "withdrawn", "overtaken"}

\* "exactly one event if upload failed", the second half of the contract of
\* tryDeleteEvent: when the controller has given up an upload there is an Event,
\* whatever the cache shows of older Events; only failing calls for the Event
\* itself may lose it.
FailedUploadReported ==
  upload.result = "failed" /\ up.pc = "idle" /\ ~budget.eventFault => event

\* Once the Secret is gone and the controller idle, the data a user wrote last is
\* in the token storage, unless the user took it back or the failure was to be
\* reported: no interleaving of edits, deletions and new Secrets with a
\* reconciliation, and no lagging cache, loses it in another way than the two the
\* code is known to: the operator is restarted after it deleted the Secret, and
\* it deletes a Secret with data newer than its cache has shown (Deleted), of
\* which no Event tells although the data is lost.
HandledUploadStored ==
  (/\ secret.st = None /\ up.pc = "idle" /\ upload.rev > 0
   /\ upload.result \notin {"withdrawn", "failed", "lost", "overtaken"}) => upload.stored

\* An upload Secret, which holds token data in plain sight, is removed, whatever
\* fails and whenever the operator is restarted.
UploadSecretGoes ==
  secret.st = "live" /\ secret.kind = "token" ~> secret.st = None \/ secret.kind = "other"
=============================================================================
