------------------------- MODULE TokenUploadProofs -------------------------
(*****************************************************************************)
(* The token upload controller, for any names, credentials and bounds: every *)
(* variable keeps its type, a failed upload is reported, and data that users *)
(* upload is only lost in the ways that HandledUploadStored names.           *)
(*****************************************************************************)
EXTENDS TokenUpload, TLAPS

Workers == [pc : {"idle", "find", "create", "store", "clearEvent", "event"}, sec : Secrets,
            tok : Tokens \cup {None}, err : BOOLEAN]
Uploads == [rev : Nat, stored : BOOLEAN,
            result : {None, "pending", "done", "failed", "lost", "withdrawn", "overtaken"}]
Budgets == [ops : Nat, faults : Nat, restarts : Nat, eventFault : BOOLEAN]

\* The type invariant made inductive: a busy worker has a Secret.
UploadTyped ==
  /\ secret \in Secrets /\ cached \in Secrets
  /\ lag \in BOOLEAN /\ event \in BOOLEAN /\ eventSeen \in BOOLEAN /\ uq \in BOOLEAN
  /\ up \in Workers /\ upload \in Uploads /\ budget \in Budgets
  /\ tokens \subseteq Tokens /\ store \in [Tokens -> Credentials \cup {None}]
  /\ up.pc # "idle" => up.sec.st = "live"
  /\ up.pc = "store" => up.tok \in Tokens

\* The Secret on the server holds the last data written, and that is pending.
SecretPending == secret.st = "live" => secret.rev = upload.rev /\ upload.result = "pending"

\* Copies are not newer than the last write, and a Secret that is on the server
\* while the worker is busy is newer than the one the worker has deleted.
RevsKnown ==
  /\ secret.rev <= upload.rev /\ cached.rev <= upload.rev /\ up.sec.rev <= upload.rev
  /\ secret.st = "live" /\ up.pc # "idle" => up.sec.rev < upload.rev

\* Pending data is on the server or in the hands of the worker, and nothing is
\* settled while the worker is busy but by the worker itself.
PendingInHand ==
  /\ upload.result = "pending" => secret.st = "live" \/ (up.pc # "idle" /\ up.sec.rev = upload.rev)
  /\ up.pc # "idle" => upload.result \in {"pending", "withdrawn", "overtaken"}

\* A worker that is about to report success has stored the data, and one that
\* reports a failure has met one.
OutcomeKnown ==
  /\ up.pc = "clearEvent" /\ ~up.err /\ up.sec.rev = upload.rev => upload.stored
  /\ up.pc = "event" => up.err

\* What is handled is stored, and before the first write nothing is.
Settled ==
  /\ upload.result = "done" => upload.stored
  /\ upload.result = None => upload.rev = 0

UploadInv ==
  /\ UploadTyped
  /\ SecretPending /\ RevsKnown /\ PendingInHand /\ OutcomeKnown /\ Settled
  /\ FailedUploadReported

-----------------------------------------------------------------------------
(* Types.                                                                      *)

LEMMA InitUpload == Init => UploadInv
<1> SUFFICES ASSUME Init PROVE UploadInv
  OBVIOUS
<1>1. NoSecret \in Secrets /\ IdleUpload \in Workers /\ IdleUpload.pc = "idle" /\ NoSecret.st = None
  BY DEF NoSecret, Secrets, IdleUpload, Workers, None
<1>2. UploadTyped
  BY <1>1, UploadBounds DEF Init, UploadTyped, Uploads, Budgets, None
<1>3. SecretPending /\ RevsKnown /\ PendingInHand /\ OutcomeKnown /\ Settled /\ FailedUploadReported
  <2>1. /\ secret.st = None /\ secret.rev = 0 /\ cached.rev = 0 /\ up.pc = "idle" /\ up.sec.rev = 0
        /\ upload.rev = 0 /\ upload.result = None
    BY DEF Init, NoSecret, IdleUpload
  <2>2. QED
    BY <2>1 DEF SecretPending, RevsKnown, PendingInHand, OutcomeKnown, Settled, FailedUploadReported, None
<1>4. QED
  BY <1>2, <1>3 DEF UploadInv

\* What a call or an operation of a user costs.
LEMMA BudgetKept ==
  ASSUME budget \in Budgets, Fault \/ EventFault \/ NoFault \/ UserActs
  PROVE  /\ budget' \in Budgets
         /\ budget'.eventFault = budget.eventFault \/ (EventFault /\ budget'.eventFault = TRUE)
<1>1. CASE Fault
  BY <1>1 DEF Budgets, Fault
<1>2. CASE EventFault
  <2>1. budget' = [budget EXCEPT !.faults = budget.faults - 1, !.eventFault = TRUE] /\ budget.faults - 1 \in Nat
    BY <1>2 DEF EventFault, Budgets
  <2>2. QED
    BY <1>2, <2>1 DEF Budgets
<1>3. CASE NoFault
  BY <1>3 DEF NoFault
<1>4. CASE UserActs
  BY <1>4 DEF Budgets, UserActs
<1>5. QED
  BY <1>1, <1>2, <1>3, <1>4

LEMMA BeginsTyped == UploadTyped /\ UploadBegins => UploadTyped'
<1> SUFFICES ASSUME UploadTyped, UploadBegins PROVE UploadTyped'
  OBVIOUS
<1>1. budget' \in Budgets /\ uq' \in BOOLEAN
  BY BudgetKept DEF UploadTyped, UploadBegins, FaultOr
<1>2. CASE UNCHANGED <<up, secret, lag, upload>>
  BY <1>1, <1>2 DEF UploadTyped, UploadBegins
<1>3. CASE Deleted /\ cached.st = "live"
  <2>1. secret' \in Secrets /\ lag' \in BOOLEAN
    BY <1>3 DEF Deleted, Secrets, NoSecret, None
  <2>2. up' \in Workers /\ (up'.pc # "idle" => up'.sec.st = "live") /\ up'.pc # "store"
    BY <1>3 DEF UploadTyped, Deleted, Workers, IdleUpload, None
  <2>3. upload' \in Uploads
    BY <1>3 DEF UploadTyped, Deleted, Uploads
  <2>4. QED
    BY <1>1, <2>1, <2>2, <2>3 DEF UploadTyped, UploadBegins
<1>4. QED
  BY <1>2, <1>3 DEF UploadBegins

LEMMA FindTyped == UploadTyped /\ FindToken => UploadTyped'
<1> SUFFICES ASSUME UploadTyped, FindToken PROVE UploadTyped'
  OBVIOUS
<1>1. budget' \in Budgets
  BY BudgetKept DEF UploadTyped, FindToken
<1>2. /\ up' \in Workers /\ (up'.pc # "idle" => up'.sec.st = "live")
      /\ up'.pc = "store" => up'.tok \in Tokens
  BY DEF UploadTyped, FindToken, UploadFails, Workers
<1>3. QED
  BY <1>1, <1>2 DEF UploadTyped, FindToken

LEMMA CreateTyped == UploadTyped /\ CreateForUpload => UploadTyped'
<1> SUFFICES ASSUME UploadTyped, CreateForUpload PROVE UploadTyped'
  OBVIOUS
<1> DEFINE t == IF up.sec.name = "" THEN Generated ELSE up.sec.name
<1>1. budget' \in Budgets
  BY BudgetKept DEF UploadTyped, CreateForUpload
<1>2. t \in Tokens
  BY DEF UploadTyped, Workers, Secrets, Tokens
<1> HIDE DEF t
<1>3. UploadFails \/ up' = [up EXCEPT !.pc = "store", !.tok = t]
  BY DEF CreateForUpload, t
<1>4. /\ up' \in Workers /\ (up'.pc # "idle" => up'.sec.st = "live")
      /\ up'.pc = "store" => up'.tok \in Tokens
  BY <1>2, <1>3 DEF UploadTyped, CreateForUpload, UploadFails, Workers
<1>5. tokens' \subseteq Tokens
  BY <1>2 DEF UploadTyped, CreateForUpload, t
<1>6. QED
  BY <1>1, <1>4, <1>5 DEF UploadTyped, CreateForUpload

LEMMA StoreTyped == UploadTyped /\ StoreUpload => UploadTyped'
<1> SUFFICES ASSUME UploadTyped, StoreUpload PROVE UploadTyped'
  OBVIOUS
<1>1. budget' \in Budgets
  BY BudgetKept DEF UploadTyped, StoreUpload
<1>2. up' \in Workers /\ up'.pc = "clearEvent" /\ up'.sec.st = "live"
  BY DEF UploadTyped, StoreUpload, UploadFails, Workers
<1>3. store' \in [Tokens -> Credentials \cup {None}] /\ upload' \in Uploads
  <2>1. up.sec.cred \in Credentials \cup {None} /\ up.tok \in Tokens
    BY DEF UploadTyped, StoreUpload, Workers, Secrets
  <2>2. Stored \/ UNCHANGED <<store, upload>>
    BY DEF StoreUpload
  <2>3. QED
    BY <2>1, <2>2 DEF UploadTyped, Stored, Uploads
<1>4. QED
  BY <1>1, <1>2, <1>3 DEF UploadTyped, StoreUpload

\* The end of Reconcile.
LEMMA DoneTyped ==
  ASSUME UploadTyped, UploadDone
  PROVE  up' \in Workers /\ up'.pc = "idle" /\ upload' \in Uploads
  BY DEF UploadTyped, UploadDone, IdleUpload, NoSecret, Workers, Secrets, Uploads, None

LEMMA ClearTyped == UploadTyped /\ ClearEvent => UploadTyped'
<1> SUFFICES ASSUME UploadTyped, ClearEvent PROVE UploadTyped'
  OBVIOUS
<1>1. budget' \in Budgets
  BY BudgetKept DEF UploadTyped, ClearEvent
<1>2. event' \in BOOLEAN
  BY DEF UploadTyped, ClearEvent
<1>3. /\ up' \in Workers /\ (up'.pc # "idle" => up'.sec.st = "live") /\ up'.pc # "store"
      /\ upload' \in Uploads
  <2>1. CASE UploadDone
    BY <2>1, DoneTyped
  <2>2. CASE up' = [up EXCEPT !.pc = "event"] /\ UNCHANGED upload
    BY <2>2 DEF UploadTyped, ClearEvent, Workers
  <2>3. QED
    BY <2>1, <2>2 DEF ClearEvent
<1>4. QED
  BY <1>1, <1>2, <1>3 DEF UploadTyped, ClearEvent

LEMMA ReportTyped == UploadTyped /\ ReportFailure => UploadTyped'
<1> SUFFICES ASSUME UploadTyped, ReportFailure PROVE UploadTyped'
  OBVIOUS
<1>1. budget' \in Budgets /\ event' \in BOOLEAN
  BY BudgetKept DEF UploadTyped, ReportFailure
<1>2. up' \in Workers /\ up'.pc = "idle" /\ upload' \in Uploads
  BY DoneTyped DEF ReportFailure
<1>3. QED
  BY <1>1, <1>2 DEF UploadTyped, ReportFailure

LEMMA UsersTyped == UploadTyped /\ Users => UploadTyped'
<1> SUFFICES ASSUME UploadTyped, Users PROVE UploadTyped'
  OBVIOUS
<1>1. budget' \in Budgets
  BY BudgetKept DEF UploadTyped, Users, CreateSecret, EditSecret, DeleteSecret, Relabel, DeleteToken, CreateToken
<1>2. CASE CreateSecret \/ EditSecret
  <2>1. PICK n \in Nat : upload.rev + 1 = n
    <3>1. upload.rev \in Nat
      BY DEF UploadTyped, Uploads
    <3>2. QED
      BY <3>1
  <2>2. PICK name \in Names \cup {""}, cred \in Credentials : Upload(name, cred)
    <3>1. secret.name \in Names \cup {""}
      BY DEF UploadTyped, Secrets
    <3>2. QED
      BY <1>2, <3>1, Zenon DEF CreateSecret, EditSecret
  <2>3. secret' \in Secrets /\ upload' \in Uploads
    <3>1. /\ secret' = [st |-> "live", kind |-> "token", name |-> name, cred |-> cred, rev |-> n]
          /\ upload' = [rev |-> n, stored |-> FALSE, result |-> "pending"]
      BY <2>1, <2>2 DEF Upload
    <3>2. QED
      BY <3>1 DEF Secrets, Uploads
  <2>4. QED
    BY <1>1, <1>2, <2>3 DEF UploadTyped, CreateSecret, EditSecret
<1>3. CASE DeleteSecret
  <2>1. secret' \in Secrets /\ upload' \in Uploads
    BY <1>3 DEF UploadTyped, DeleteSecret, NoSecret, Secrets, Uploads, None
  <2>2. QED
    BY <1>1, <1>3, <2>1 DEF UploadTyped, DeleteSecret
<1>4. CASE Relabel
  <2>1. secret' \in Secrets
    BY <1>4 DEF UploadTyped, Relabel, Secrets
  <2>2. QED
    BY <1>1, <1>4, <2>1 DEF UploadTyped, Relabel
<1>5. CASE DeleteToken \/ CreateToken
  <2>1. tokens' \subseteq Tokens /\ store' \in [Tokens -> Credentials \cup {None}]
    BY <1>5 DEF UploadTyped, DeleteToken, CreateToken, Tokens
  <2>2. QED
    BY <1>1, <1>5, <2>1 DEF UploadTyped, DeleteToken, CreateToken
<1>6. QED
  BY <1>2, <1>3, <1>4, <1>5 DEF Users

LEMMA OthersTyped == UploadTyped /\ (Watch \/ WatchEvent \/ Restart \/ UNCHANGED vars) => UploadTyped'
<1> SUFFICES ASSUME UploadTyped, Watch \/ WatchEvent \/ Restart \/ UNCHANGED vars PROVE UploadTyped'
  OBVIOUS
<1>1. CASE Watch
  <2>1. uq' \in BOOLEAN
    BY <1>1 DEF UploadTyped, Watch
  <2>2. QED
    BY <1>1, <2>1 DEF UploadTyped, Watch
<1>2. CASE WatchEvent \/ UNCHANGED vars
  BY <1>2 DEF UploadTyped, WatchEvent, vars
<1>3. CASE Restart
  <2>1. budget' \in Budgets /\ upload' \in Uploads
    BY <1>3 DEF UploadTyped, Restart, Budgets, Uploads
  <2>2. up' \in Workers /\ up'.pc = "idle"
    BY <1>3 DEF Restart, IdleUpload, NoSecret, Workers, Secrets, None
  <2>3. QED
    BY <1>3, <2>1, <2>2 DEF UploadTyped, Restart
<1>4. QED
  BY <1>1, <1>2, <1>3

-----------------------------------------------------------------------------
(* The outcome of an upload.                                                   *)

\* What UploadInv says beyond types.
Facts ==
  /\ SecretPending /\ RevsKnown /\ PendingInHand /\ OutcomeKnown /\ Settled
  /\ FailedUploadReported

\* Numbers that the facts compare.
LEMMA Numbers ==
  ASSUME UploadTyped
  PROVE  /\ secret.rev \in Nat /\ cached.rev \in Nat /\ up.sec.rev \in Nat /\ upload.rev \in Nat
         /\ secret.st \in {None, "live"}
  BY DEF UploadTyped, Secrets, Workers, Uploads

\* A step that leaves the Secret, the worker, the upload and its Event alone:
\* users of tokens, and the informer of Events.
LEMMA AsideFacts ==
  ASSUME UploadInv, DeleteToken \/ CreateToken \/ WatchEvent \/ UNCHANGED vars
  PROVE  Facts'
<1>1. UNCHANGED <<secret, cached, up, upload, event>>
  BY DEF DeleteToken, CreateToken, WatchEvent, vars
<1>2. budget'.eventFault = budget.eventFault
  BY BudgetKept DEF DeleteToken, CreateToken, WatchEvent, vars, UploadInv, UploadTyped, UserActs, Budgets
<1>3. QED
  BY <1>1, <1>2 DEF UploadInv, Facts, SecretPending, RevsKnown, PendingInHand, OutcomeKnown,
     Settled, FailedUploadReported

\* New data is a new upload; the controller may still work on an older one.
LEMMA WriteFacts == ASSUME UploadInv, CreateSecret \/ EditSecret PROVE Facts'
<1>1. PICK name, cred : Upload(name, cred)
  BY DEF CreateSecret, EditSecret
<1>2. /\ secret'.st = "live" /\ secret'.rev = upload.rev + 1 /\ upload'.rev = upload.rev + 1
      /\ upload'.result = "pending" /\ UNCHANGED <<cached, up, event>>
  BY <1>1 DEF Upload, CreateSecret, EditSecret
<1>3. QED
  BY <1>2, Numbers DEF UploadInv, Facts, SecretPending, RevsKnown, PendingInHand, OutcomeKnown,
     Settled, FailedUploadReported, None

LEMMA WithdrawFacts == ASSUME UploadInv, DeleteSecret PROVE Facts'
<1>1. /\ secret'.st = None /\ secret'.rev = 0 /\ upload'.rev = upload.rev /\ upload'.stored = upload.stored
      /\ upload'.result = "withdrawn" /\ UNCHANGED <<cached, up, event>>
  BY DEF DeleteSecret, NoSecret, UploadInv, UploadTyped, Uploads
<1>2. QED
  BY <1>1, Numbers DEF UploadInv, Facts, SecretPending, RevsKnown, PendingInHand, OutcomeKnown,
     Settled, FailedUploadReported, None

LEMMA RelabelFacts == ASSUME UploadInv, Relabel PROVE Facts'
<1>1. /\ secret'.st = secret.st /\ secret'.rev = secret.rev /\ secret.st = "live"
      /\ UNCHANGED <<cached, up, upload, event>>
  BY DEF Relabel, UploadInv, UploadTyped, Secrets
<1>2. QED
  BY <1>1 DEF UploadInv, Facts, SecretPending, RevsKnown, PendingInHand, OutcomeKnown,
     Settled, FailedUploadReported

LEMMA WatchFacts == ASSUME UploadInv, Watch PROVE Facts'
<1>1. cached' = secret /\ UNCHANGED <<secret, up, upload, event, budget>>
  BY DEF Watch
<1>2. QED
  BY <1>1 DEF UploadInv, Facts, SecretPending, RevsKnown, PendingInHand, OutcomeKnown,
     Settled, FailedUploadReported

LEMMA RestartFacts == ASSUME UploadInv, Restart PROVE Facts'
<1>1. cached' = secret /\ UNCHANGED <<secret, event>> /\ up'.pc = "idle" /\ up'.sec.rev = 0
  BY DEF Restart, IdleUpload, NoSecret
<1>2. budget'.eventFault = budget.eventFault
  BY DEF Restart, UploadInv, UploadTyped, Budgets
<1>3. CASE upload' = upload /\ ~(up.pc # "idle" /\ up.sec.rev = upload.rev)
  BY <1>1, <1>2, <1>3, Numbers DEF UploadInv, Facts, SecretPending, RevsKnown, PendingInHand, OutcomeKnown,
     Settled, FailedUploadReported
<1>4. CASE upload' = [upload EXCEPT !.result = "lost"] /\ up.pc # "idle" /\ up.sec.rev = upload.rev
  <2>1. upload'.result = "lost" /\ upload'.rev = upload.rev
    BY <1>4 DEF UploadInv, UploadTyped, Uploads
  <2>2. secret.st # "live"
    BY <1>4, Numbers DEF UploadInv, RevsKnown
  <2>3. QED
    BY <1>1, <2>1, <2>2, Numbers DEF UploadInv, Facts, SecretPending, RevsKnown, PendingInHand, OutcomeKnown,
       Settled, FailedUploadReported, None
<1>5. QED
  BY <1>3, <1>4 DEF Restart

\* Begin deletes the Secret whatever data it holds: the data it has read from the
\* cache is in hand, other data is overtaken.
LEMMA BeginsFacts == ASSUME UploadInv, UploadBegins PROVE Facts'
<1>1. up.pc = "idle" /\ UNCHANGED <<cached, event>>
  BY DEF UploadBegins
<1>2. CASE UNCHANGED <<up, secret, lag, upload>>
  <2>1. budget'.eventFault = budget.eventFault
    BY <1>1, <1>2, BudgetKept DEF UploadBegins, FaultOr, UploadInv, UploadTyped, Fault, NoFault, Budgets
  <2>2. QED
    BY <1>1, <1>2, <2>1 DEF UploadInv, Facts, SecretPending, RevsKnown, PendingInHand, OutcomeKnown,
       Settled, FailedUploadReported
<1>3. CASE Deleted /\ secret.st = "live"
  <2>1. /\ secret'.st = None /\ secret'.rev = 0
        /\ up'.pc \in {"find", "clearEvent"} /\ up'.sec = cached /\ (up'.pc = "clearEvent" => up'.err)
    BY <1>3 DEF Deleted, NoSecret, IdleUpload
  <2>2. secret.rev = upload.rev /\ upload.result = "pending"
    BY <1>3 DEF UploadInv, SecretPending
  <2>3. CASE cached.rev = secret.rev /\ upload' = upload
    BY <1>1, <2>1, <2>2, <2>3, Numbers DEF UploadInv, Facts, SecretPending, RevsKnown, PendingInHand, OutcomeKnown,
       Settled, FailedUploadReported, None
  <2>4. CASE upload' = [upload EXCEPT !.result = "overtaken"]
    <3>1. upload'.rev = upload.rev /\ upload'.result = "overtaken"
      BY <2>4 DEF UploadInv, UploadTyped, Uploads
    <3>2. QED
      BY <1>1, <2>1, <2>2, <3>1, Numbers DEF UploadInv, Facts, SecretPending, RevsKnown, PendingInHand, OutcomeKnown,
         Settled, FailedUploadReported, None
  <2>5. QED
    BY <1>3, <2>3, <2>4 DEF Deleted
<1>4. QED
  BY <1>2, <1>3 DEF UploadBegins

\* Finding or creating the token keeps the Secret in hand.
LEMMA TokenFacts == ASSUME UploadInv, FindToken \/ CreateForUpload PROVE Facts'
<1>1. /\ up.pc \in {"find", "create"} /\ UNCHANGED <<secret, cached, event, upload>>
      /\ up'.pc \in {"create", "store", "clearEvent"} /\ up'.sec = up.sec
      /\ up'.pc = "clearEvent" => up'.err
  BY DEF FindToken, CreateForUpload, UploadFails, UploadInv, UploadTyped, Workers
<1>2. QED
  BY <1>1 DEF UploadInv, Facts, SecretPending, RevsKnown, PendingInHand, OutcomeKnown,
     Settled, FailedUploadReported

\* What is stored is the last upload unless there was another by now.
LEMMA StoreFacts == ASSUME UploadInv, StoreUpload PROVE Facts'
<1>1. up.pc = "store" /\ UNCHANGED <<secret, cached, event>>
  BY DEF StoreUpload
<1>2. up'.pc = "clearEvent" /\ up'.sec = up.sec
  BY DEF StoreUpload, UploadFails, UploadInv, UploadTyped, Workers
<1>3. upload'.rev = upload.rev /\ upload'.result = upload.result
  BY DEF StoreUpload, Stored, UploadInv, UploadTyped, Uploads
<1>4. ~up'.err /\ up.sec.rev = upload.rev => upload'.stored
  <2>1. CASE UploadFails
    BY <2>1 DEF UploadFails, UploadInv, UploadTyped, Workers
  <2>2. CASE Stored
    BY <2>2 DEF Stored, UploadInv, UploadTyped, Uploads
  <2>3. QED
    BY <2>1, <2>2 DEF StoreUpload
<1>5. QED
  BY <1>1, <1>2, <1>3, <1>4 DEF UploadInv, Facts, SecretPending, RevsKnown, PendingInHand, OutcomeKnown,
     Settled, FailedUploadReported

\* The end of Reconcile settles the upload unless there was another by now.
LEMMA DoneFacts ==
  ASSUME UploadInv, UploadDone, up.pc # "idle", UNCHANGED <<secret, cached>>,
         ~up.err => up.pc = "clearEvent", up.err => event' = TRUE \/ budget'.eventFault = TRUE
  PROVE  Facts'
<1>1. /\ up'.pc = "idle" /\ up'.sec.rev = 0 /\ upload'.rev = upload.rev /\ upload'.stored = upload.stored
      /\ upload.result \in {"pending", "withdrawn", "overtaken"}
  BY DEF UploadDone, IdleUpload, NoSecret, UploadInv, UploadTyped, Uploads, PendingInHand
<1>2. CASE up.sec.rev # upload.rev
  <2>1. upload'.result = upload.result
    BY <1>2 DEF UploadDone, UploadInv, UploadTyped, Uploads
  <2>2. QED
    BY <1>1, <1>2, <2>1, Numbers DEF UploadInv, Facts, SecretPending, RevsKnown, PendingInHand, OutcomeKnown,
       Settled, FailedUploadReported
<1>3. CASE up.sec.rev = upload.rev
  <2>1. upload'.result = IF up.err THEN "failed" ELSE "done"
    BY <1>3 DEF UploadDone, UploadInv, UploadTyped, Uploads
  <2>2. secret.st # "live" /\ (~up.err => upload.stored)
    BY <1>3, Numbers DEF UploadInv, RevsKnown, OutcomeKnown
  <2>3. QED
    BY <1>1, <2>1, <2>2, Numbers DEF UploadInv, Facts, SecretPending, RevsKnown, PendingInHand, OutcomeKnown,
       Settled, FailedUploadReported, None
<1>4. QED
  BY <1>2, <1>3

LEMMA ClearFacts == ASSUME UploadInv, ClearEvent PROVE Facts'
<1>1. up.pc = "clearEvent" /\ UNCHANGED <<secret, cached>>
  BY DEF ClearEvent
<1>2. CASE ~up.err
  BY <1>1, <1>2, DoneFacts DEF ClearEvent
<1>3. CASE up.err
  <2>1. up'.pc = "event" /\ up'.err /\ up'.sec = up.sec /\ upload' = upload
    BY <1>3 DEF ClearEvent, UploadInv, UploadTyped, Workers
  <2>2. QED
    BY <1>1, <2>1 DEF UploadInv, Facts, SecretPending, RevsKnown, PendingInHand, OutcomeKnown,
       Settled, FailedUploadReported
<1>4. QED
  BY <1>2, <1>3

LEMMA ReportFacts == ASSUME UploadInv, ReportFailure PROVE Facts'
<1>1. up.pc = "event" /\ up.err /\ UNCHANGED <<secret, cached>> /\ UploadDone
  BY DEF ReportFailure, UploadInv, OutcomeKnown
<1>2. event' = TRUE \/ budget'.eventFault = TRUE
  BY DEF ReportFailure, EventFault, UploadInv, UploadTyped, Budgets
<1>3. QED
  BY <1>1, <1>2, DoneFacts

\* Every step preserves the invariant.
LEMMA NextUpload == UploadInv /\ [Next]_vars => UploadInv'
<1> SUFFICES ASSUME UploadInv, [Next]_vars PROVE UploadInv'
  OBVIOUS
<1>1. UploadTyped'
  BY BeginsTyped, FindTyped, CreateTyped, StoreTyped, ClearTyped, ReportTyped, UsersTyped, OthersTyped
     DEF UploadInv, Next, Reconcile
<1>2. Facts'
  BY BeginsFacts, TokenFacts, StoreFacts, ClearFacts, ReportFacts, WriteFacts, WithdrawFacts, RelabelFacts,
     AsideFacts, WatchFacts, RestartFacts DEF Next, Reconcile, Users
<1>3. QED
  BY <1>1, <1>2 DEF UploadInv, Facts

LEMMA UploadInvHolds == Spec => []UploadInv
  BY InitUpload, NextUpload, PTL DEF Spec

\* Every variable of the upload controller keeps its type, for any names,
\* credentials and bounds; a worker about to store data has a token and a Secret.
THEOREM UploadTypes == Spec => []TypeOK
<1>1. UploadInv => TypeOK
  <2> SUFFICES ASSUME UploadInv PROVE TypeOK
    OBVIOUS
  <2>1. up.sec \in Secrets /\ up.pc \in {"idle", "find", "create", "store", "clearEvent", "event"}
        /\ up.tok \in Tokens \cup {None} /\ up.err \in BOOLEAN
    BY DEF UploadInv, UploadTyped, Workers
  <2>2. /\ upload.stored \in BOOLEAN /\ upload.rev \in Nat
        /\ upload.result \in {None, "pending", "done", "failed", "lost", "withdrawn", "overtaken"}
    BY DEF UploadInv, UploadTyped, Uploads
  <2>3. QED
    BY <2>1, <2>2 DEF UploadInv, UploadTyped, TypeOK
<1>2. QED
  BY <1>1, UploadInvHolds, PTL

\* A failed upload leaves an Event, unless a call for the Event itself failed:
\* no step clears the Event of a finished upload, because a worker only runs for
\* an upload that is still pending.
THEOREM FailuresReported == Spec => []FailedUploadReported
<1>1. UploadInv => FailedUploadReported
  BY DEF UploadInv
<1>2. QED
  BY <1>1, UploadInvHolds, PTL

\* Data that users upload, change, take back and upload again while the controller
\* works is stored once the Secret is gone and the controller idle, unless it was
\* taken back, its failure was to be reported, or it met one of the two gaps of
\* the code: a restart, and a Delete that removes newer data than was read.  Data
\* that is pending is always on the server or in the worker's hands.
THEOREM UploadsAccountedFor == Spec => []HandledUploadStored
<1>1. UploadInv => HandledUploadStored
  BY Numbers DEF UploadInv, UploadTyped, Uploads, HandledUploadStored, PendingInHand, Settled, None
<1>2. QED
  BY <1>1, UploadInvHolds, PTL
=============================================================================
