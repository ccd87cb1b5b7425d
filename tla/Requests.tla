------------------------------ MODULE Requests ------------------------------
(***************************************************************************)
(* SPIFileContentRequest and SPIAccessCheck: their controllers, the lookup *)
(* of credentials among tokens, RemoteSecrets and SCM secrets, and the     *)
(* questions put to the service provider.  There is one object, of either  *)
(* kind: the two controllers share nothing but the tokens they read.       *)
(***************************************************************************)
EXTENDS ProviderConfig, ServiceProviders

CONSTANTS
  Tokens,         \* the names of the SPIAccessTokens for the provider and the host
  Credentials,    \* token data
  PermissionSets, \* the permissions an access check asks for
  Scopes,         \* per provider type: the scopes of a credential
  Sees,           \* the credentials that can read the private repository
  Robots,         \* the credentials with the user name of a robot account
  RemoteKinds,    \* RemoteSecrets [obtained, basic, local, lists, cred], cred the
                  \* content of the target secret or "none" if that is missing
  SCMCredential,  \* the content of the SCM secret or "none"
  Worlds,         \* the values "world" begins with, but for sp
  MaxOps,         \* bound: operations of users
  MaxFaults,      \* bound: failing calls
  MaxRestarts     \* bound: restarts of the operator

None == "none"
Kinds == {"file", "check"}

VARIABLES
  world,   \* the URL and what is behind it: [host, parses, repo (its visibility),
           \* fits (the file can be downloaded), policy (TokenMatchPolicy), sp]
  tokens,  \* SPIAccessTokens: [data, meta], the stored data and the data that the
           \* metadata were read for ("none" for a token that is not ready)
  remote,  \* the RemoteSecrets of the namespace
  obj,     \* the objects: [st, fin (the old finalizer), perms, status]
  cache,   \* the informer's copies
  lag,     \* whether the copy is older than the object
  queued, timer, expired,  \* work queues, delayed entries, age over the TTL
  wk,      \* the workers of the two controllers
  budget   \* [ops, faults, restarts]: how many may still come

objectVars == <<obj, cache, lag, queued, timer, expired>>
scene == <<world, tokens, remote>>
vars == <<scene, objectVars, wk, budget>>

Fault == budget.faults > 0 /\ budget' = [budget EXCEPT !.faults = @ - 1]
NoFault == UNCHANGED budget
FaultOr(c) == Fault \/ (c /\ NoFault)
UserActs == budget.ops > 0 /\ budget' = [budget EXCEPT !.ops = @ - 1]

NoStatus == [phase |-> "", vis |-> "", reason |-> ""]
NoObject == [st |-> None, fin |-> FALSE, perms |-> [required |-> {}, additional |-> {}], status |-> NoStatus]

\* obj is the worker's copy and "stale" tells that it is outdated; tok and cred
\* are what the lookup found, res is the status to write, "again" whether an
\* error is returned after that, "saw" the visibilities during the Reconcile.
IdleWorker == [pc |-> "idle", obj |-> NoObject, stale |-> FALSE, tok |-> None, cred |-> None,
               res |-> NoStatus, again |-> FALSE, saw |-> {}]

\* The provider that FromRepoUrl finds for the URL is always the same.
Served(w) == [host |-> w.host, parses |-> w.parses, repo |-> w.repo, fits |-> w.fits,
              policy |-> w.policy, sp |-> FromRepoUrl({}, w.host)]
Type == world.sp.type

FilePermissions == [required |-> {[area |-> "repository", type |-> "r"]}, additional |-> {}]
Perms(k) == IF k = "file" THEN FilePermissions ELSE wk[k].obj.perms

\* What the metadataProvider of each provider reads for token data.  GitHub
\* lists the repositories within reach.
fetchUserAndScopes(c) == Scopes["GitHub"][c]
FetchAll(c) == {rec \in {[url |-> world.host, permission |-> "READ"]} : c \in Sees}
GitHubFetch(c) == [present |-> TRUE, scopes |-> fetchUserAndScopes(c), repos |-> FetchAll(c)]
\* GitLab tells the scopes at one of two endpoints, by the kind of the token.
fetchOAuthScopes(c) == Scopes["GitLab"][c]
GitLabFetch(c) == [present |-> TRUE, scopes |-> fetchOAuthScopes(c), repos |-> {}]
HostFetch(c) == [NoMetadata EXCEPT !.present = TRUE]

Metadata(c) ==
  CASE c = None -> NoMetadata
    [] c # None /\ Type = "GitHub" -> GitHubFetch(c)
    [] c # None /\ Type = "GitLab" -> GitLabFetch(c)
    [] OTHER -> HostFetch(c)

\* The URL has the form of a repository of the provider.
Parses == world.parses

----------------------------------------------------------------------------
(* Steps of a worker.                                                       *)

GoOn(k, w) == wk' = [wk EXCEPT ![k] = w]
To(k, pc) == GoOn(k, [wk[k] EXCEPT !.pc = pc])
Report(k, res, again) == GoOn(k, [wk[k] EXCEPT !.pc = "update", !.res = res, !.again = again])

\* Reconcile returns: with an error it comes again, else after the delay.
Ends(k, again, delay) ==
  /\ GoOn(k, IdleWorker)
  /\ queued' = [queued EXCEPT ![k] = @ \/ again]
  /\ timer' = [timer EXCEPT ![k] = @ \/ delay]

\* A write to the object: the informer will tell.
Write(k, new) ==
  /\ obj' = [obj EXCEPT ![k] = new]
  /\ lag' = [lag EXCEPT ![k] = @ \/ new # obj[k]]

FileError(why) == [phase |-> "Error", vis |-> "", reason |-> why]
Checked(accessible, vis, why) ==
  [phase |-> IF accessible THEN "Accessible" ELSE "Inaccessible", vis |-> vis, reason |-> why]

\* Get, from the informer's copy.
Get(k) ==
  /\ wk[k].pc = "idle" /\ queued[k]
  /\ queued' = [queued EXCEPT ![k] = FALSE]
  /\ IF cache[k].st \in {None, "gone"} THEN UNCHANGED wk
     ELSE GoOn(k, [IdleWorker EXCEPT !.pc = "got", !.obj = cache[k], !.stale = lag[k],
                                     !.saw = {world.repo}])
  /\ UNCHANGED <<scene, budget, obj, cache, lag, timer, expired>>

\* The finalizer of older versions is removed first, with Update; Reconcile goes
\* on with what Update returns.
DropOldFinalizer(k) ==
  /\ wk[k].pc = "got" /\ wk[k].obj.fin
  /\ \/ FaultOr(wk[k].stale) /\ Ends(k, TRUE, FALSE) /\ UNCHANGED <<obj, lag>>
     \/ LET new == [obj[k] EXCEPT !.fin = FALSE, !.st = IF @ = "deleting" THEN "gone" ELSE @]
        IN /\ NoFault /\ ~wk[k].stale /\ Write(k, new)
           /\ GoOn(k, [wk[k] EXCEPT !.obj = [new EXCEPT !.st = obj[k].st]])
           /\ UNCHANGED <<queued, timer>>
  /\ UNCHANGED <<scene, cache, expired>>

Ready(k) == wk[k].pc = "got" /\ ~wk[k].obj.fin

\* A file request that is being deleted, or has been delivered.
NothingToDo ==
  /\ Ready("file")
  /\ \/ wk["file"].obj.st = "deleting"
     \/ ~expired["file"] /\ wk["file"].obj.status.phase = "Delivered"
  /\ NoFault /\ Ends("file", FALSE, FALSE)
  /\ UNCHANGED <<scene, obj, cache, lag, expired>>

\* Objects older than the TTL are deleted; that the object is gone already is an
\* error, too.
Cleanup(k) ==
  /\ Ready(k) /\ wk[k].obj.st = "live" /\ expired[k]
  /\ \/ FaultOr(obj[k].st = "gone") /\ Ends(k, TRUE, FALSE) /\ UNCHANGED <<obj, lag>>
     \/ /\ NoFault /\ obj[k].st # "gone"
        /\ Write(k, [obj[k] EXCEPT !.st = "gone"]) /\ Ends(k, FALSE, FALSE)
  /\ UNCHANGED <<scene, cache, expired>>

Quietly == UNCHANGED <<scene, objectVars>>

\* FromRepoUrl, which reads configuration secrets and may fail, and
\* GetDownloadFileCapability.
FileProvider ==
  LET p == world.sp IN
  /\ Ready("file") /\ wk["file"].obj.st = "live" /\ ~expired["file"]
  /\ wk["file"].obj.status.phase # "Delivered"
  /\ \/ Fault /\ Report("file", FileError("noSuitableServiceProvider"), FALSE)
     \/ /\ NoFault
        /\ CASE p.err = "validation" -> Report("file", FileError("unableToValidate"), FALSE)
             [] p.err = "" /\ ~HasDownloadCapability(p.type) -> Report("file", FileError("notSupported"), FALSE)
             [] OTHER -> To("file", "lookup")
  /\ Quietly

\* FromRepoUrl, and the beginning of the CheckRepositoryAccess of each provider.
\* When FromRepoUrl fails only the reason is set: the verdict of an earlier
\* Reconcile stays in the status, and nobody tries again before the TTL is over.
CheckProvider ==
  LET p == world.sp
      Reason(why) == [wk["check"].obj.status EXCEPT !.reason = why]
  IN
  /\ Ready("check") /\ ~expired["check"]
  /\ \/ Fault /\ Report("check", Reason("UnknownServiceProvider"), FALSE)
     \/ /\ NoFault
        /\ CASE p.err = "validation" -> Report("check", Reason("UnsupportedConfiguration"), FALSE)
             [] p.err = "" /\ p.type = "HostCredentials" ->
                  Report("check", Checked(FALSE, "unknown", "NotImplemented"), FALSE)
             [] p.err = "" /\ p.type = "Quay" ->
                  IF Parses
                  THEN GoOn("check", [wk["check"] EXCEPT !.pc = "lookup", !.res = Checked(FALSE, "unknown", "")])
                  ELSE Report("check", Checked(FALSE, "unknown", "BadURL"), FALSE)
             [] OTHER -> To("check", "public")
  /\ Quietly

\* Mutant: only 404 tells that a repository is not public.
CheckPublicLenient ==
  /\ wk["check"].pc = "public"
  /\ \/ /\ Fault /\ Ends("check", TRUE, FALSE)
        /\ UNCHANGED <<scene, obj, cache, lag, expired>>
     \/ /\ NoFault /\ Quietly
        /\ \/ world.repo # "missing" /\ Report("check", Checked(TRUE, "public", ""), FALSE)
           \/ /\ world.repo = "missing" /\ ~Parses
              /\ Report("check", Checked(FALSE, "unknown", "BadURL"), FALSE)
           \/ world.repo = "missing" /\ Parses /\ To("check", "lookup")

\* checkPublicRepoAccess of GitHub and GitLab, without credentials.  The URL is
\* parsed only after that.
CheckPublic ==
  /\ wk["check"].pc = "public"
  /\ \/ /\ Fault /\ Ends("check", TRUE, FALSE)
        /\ UNCHANGED <<scene, obj, cache, lag, expired>>
     \/ /\ NoFault /\ Quietly
        /\ \/ world.repo = "public" /\ Report("check", Checked(TRUE, "public", ""), FALSE)
           \/ /\ world.repo # "public" /\ ~Parses
              /\ Report("check", Checked(FALSE, "unknown", "BadURL"), FALSE)
           \/ world.repo # "public" /\ Parses /\ To("check", "lookup")

----------------------------------------------------------------------------
(* GenericLookup.LookupCredentials.                                         *)

\* Quay remembers that the lookup failed and asks without credentials; a file
\* request is tried again.
LookupFails(k) ==
  CASE k = "file" -> Report(k, FileError("lookup"), TRUE)
    [] k = "check" /\ Type = "Quay" ->
         GoOn(k, [wk[k] EXCEPT !.pc = "probe", !.res.reason = "TokenLookupFailed"])
    [] OTHER -> Report(k, Checked(FALSE, "unknown", "TokenLookupFailed"), FALSE)

Found(k, cred) == GoOn(k, [wk[k] EXCEPT !.pc = "probe", !.cred = cred])

NotFound(k) ==
  CASE k = "file" -> Report(k, FileError("noCredentials"), FALSE)
    [] k = "check" /\ Type = "Quay" -> To(k, "probe")
    [] OTHER -> Report(k, Checked(FALSE, "unknown", ""), FALSE)

\* lookupRemoteSecrets with DefaultRemoteSecretFilterFunc, lookupRemoteSecretSecret:
\* one that lists the repository is preferred.
Usable == {r \in remote : r.obtained /\ r.basic /\ r.local}
Preferred == LET listing == {r \in Usable : r.lists} IN IF listing # {} THEN listing ELSE Usable

ReadyTokens == {t \in Tokens : tokens[t].meta # None}

\* The filter of the exact policy is called in a goroutine of its own for every
\* ready token; the one of Quay panics there, which no one recovers.
FilterEndsProcess == FilterPanics(Type, world.policy) /\ ReadyTokens # {}

\* Mutant: the first token found is used, even if there is none.
LookupTokensFirst(k) ==
  /\ wk[k].pc = "lookup" /\ ~FilterEndsProcess
  /\ \/ Fault /\ LookupFails(k) /\ Quietly
     \/ \E refetched \in IF MetadataExpires(Type) THEN BOOLEAN ELSE {FALSE} :
          LET ready == ReadyTokens
              meta  == [t \in Tokens |-> IF refetched /\ t \in ready THEN tokens[t].data ELSE tokens[t].meta]
              match == {t \in ready : TokenMatches(Type, world.policy, Perms(k), world.host, Metadata(meta[t]))}
          IN /\ tokens' = [t \in Tokens |-> [tokens[t] EXCEPT !.meta = meta[t]]]
             /\ \/ \E t \in match : GoOn(k, [wk[k] EXCEPT !.pc = "data", !.tok = t])
                \/ match = {} /\ To(k, "data")
             /\ NoFault
             /\ UNCHANGED <<world, remote, objectVars>>

\* Lookup: the ready tokens for the provider and the host, after Ensure has
\* fetched what has expired and the filter has looked at all of them; any one
\* will be taken.  A call that fails for one of them fails the lookup.
LookupTokens(k) ==
  /\ wk[k].pc = "lookup" /\ ~FilterEndsProcess
  /\ \/ Fault /\ LookupFails(k) /\ Quietly
     \/ \E refetched \in IF MetadataExpires(Type) THEN BOOLEAN ELSE {FALSE} :
          LET ready == ReadyTokens
              meta  == [t \in Tokens |-> IF refetched /\ t \in ready THEN tokens[t].data ELSE tokens[t].meta]
              match == {t \in ready : TokenMatches(Type, world.policy, Perms(k), world.host, Metadata(meta[t]))}
          IN /\ tokens' = [t \in Tokens |-> [tokens[t] EXCEPT !.meta = meta[t]]]
             /\ \/ \E t \in match : GoOn(k, [wk[k] EXCEPT !.pc = "data", !.tok = t])
                \/ match = {} /\ To(k, "secrets")
             /\ NoFault
             /\ UNCHANGED <<world, remote, objectVars>>

\* The data of the token found, which may be gone by now.
TokenData(k) ==
  /\ wk[k].pc = "data"
  /\ \/ FaultOr(tokens[wk[k].tok].data = None) /\ LookupFails(k)
     \/ NoFault /\ tokens[wk[k].tok].data # None /\ Found(k, tokens[wk[k].tok].data)
  /\ Quietly

lookupSCMSecret(k) == IF SCMCredential = None THEN NotFound(k) ELSE Found(k, SCMCredential)

LookupSecrets(k) ==
  /\ wk[k].pc = "secrets"
  /\ \/ Fault /\ LookupFails(k)
     \/ \E r \in Preferred : NoFault /\ IF r.cred = None THEN LookupFails(k) ELSE Found(k, r.cred)
     \/ NoFault /\ Usable = {} /\ lookupSCMSecret(k)
  /\ Quietly

----------------------------------------------------------------------------
(* The provider's answer with the credentials found.                        *)

\* DownloadFile of GitHub and GitLab, for a file that is there and small enough
\* or not.
Download ==
  /\ wk["file"].pc = "probe"
  /\ \/ Fault /\ Report("file", FileError("download"), TRUE)
     \/ /\ NoFault
        /\ IF /\ Parses /\ world.fits
              /\ world.repo = "public" \/ (world.repo = "private" /\ wk["file"].cred \in Sees)
           THEN Report("file", [phase |-> "Delivered", vis |-> "", reason |-> ""], FALSE)
           ELSE Report("file", FileError("download"), TRUE)
  /\ Quietly

DownloadGitHub == Type = "GitHub" /\ Download
DownloadGitLab == Type = "GitLab" /\ Download

\* checkPrivateRepoAccess of GitHub and GitLab: a repository the credentials do
\* not see is not found.
CheckPrivate ==
  LET sees == wk["check"].cred \in Sees IN
  /\ wk["check"].pc = "probe"
  /\ \/ Fault /\ Report("check", Checked(FALSE, "unknown", "UnknownError"), FALSE)
     \/ /\ NoFault
        /\ Report("check",
             CASE world.repo = "public" -> Checked(TRUE, "unknown", "")
               [] world.repo = "private" /\ sees -> Checked(TRUE, "private", "")
               [] OTHER -> Checked(FALSE, "unknown", "RepoNotFound"), FALSE)
  /\ Quietly

\* CheckRepositoryAccess of GitHub and GitLab, around the lookup.
CheckGitHub == Type = "GitHub" /\ (CheckPublic \/ CheckPrivate)
CheckGitLab == Type = "GitLab" /\ (CheckPublic \/ CheckPrivate)

\* Quay's CheckRepositoryAccess after the lookup.  The API knows no robot
\* tokens: one that is refused is taken to have access to a private repository.
CheckQuay ==
  LET w == wk["check"]
      oauth == w.cred \notin Robots /\ w.cred # None
      denied == IF w.cred \in Robots THEN Checked(TRUE, "private", w.res.reason) ELSE w.res
      missing == IF w.res.reason = "" THEN Checked(FALSE, "unknown", "RepoNotFound") ELSE w.res
  IN
  /\ w.pc = "probe" /\ Type = "Quay"
  /\ \/ /\ Fault /\ Ends("check", TRUE, FALSE)
        /\ UNCHANGED <<scene, obj, cache, lag, expired>>
     \/ /\ NoFault /\ Quietly
        /\ CASE world.repo = "public" -> Report("check", Checked(TRUE, "public", ""), FALSE)
             [] world.repo = "private" /\ oauth /\ w.cred \in Sees ->
                  Report("check", Checked(TRUE, "private", ""), FALSE)
             [] world.repo = "missing" /\ oauth -> Report("check", missing, FALSE)
             [] OTHER -> Report("check", denied, FALSE)

\* Mutant: the status is written whatever the version of the object.
UpdateStatusForced(k) ==
  /\ wk[k].pc = "update"
  /\ \/ Fault /\ Ends(k, TRUE, FALSE) /\ UNCHANGED <<obj, lag>>
     \/ /\ NoFault /\ obj[k].st # "gone"
        /\ Write(k, [obj[k] EXCEPT !.status = wk[k].res])
        /\ Ends(k, wk[k].again, ~wk[k].again /\ (k = "check" \/ ~expired[k]))
  /\ UNCHANGED <<scene, cache, expired>>

\* Mutant: nobody comes back when the time is up.
UpdateStatusForever(k) ==
  /\ wk[k].pc = "update"
  /\ \/ FaultOr(wk[k].stale) /\ Ends(k, TRUE, FALSE) /\ UNCHANGED <<obj, lag>>
     \/ /\ NoFault /\ ~wk[k].stale
        /\ Write(k, [obj[k] EXCEPT !.status = wk[k].res])
        /\ Ends(k, wk[k].again, FALSE)
  /\ UNCHANGED <<scene, cache, expired>>

\* Status().Update, with the version of the copy.  A file request asks to come
\* back when its time is up, which is no delay at all if that is now; an access
\* check comes back after the whole TTL.
UpdateStatus(k) ==
  /\ wk[k].pc = "update"
  /\ \/ FaultOr(wk[k].stale) /\ Ends(k, TRUE, FALSE) /\ UNCHANGED <<obj, lag>>
     \/ /\ NoFault /\ ~wk[k].stale
        /\ Write(k, [obj[k] EXCEPT !.status = wk[k].res])
        /\ Ends(k, wk[k].again, ~wk[k].again /\ (k = "check" \/ ~expired[k]))
  /\ UNCHANGED <<scene, cache, expired>>

----------------------------------------------------------------------------
(* Everybody else.                                                          *)

Deliver(k) ==
  /\ lag[k] /\ lag' = [lag EXCEPT ![k] = FALSE]
  /\ cache' = [cache EXCEPT ![k] = obj[k]] /\ queued' = [queued EXCEPT ![k] = TRUE]
  /\ UNCHANGED <<scene, budget, obj, timer, expired, wk>>

TimerFires(k) ==
  /\ timer[k] /\ expired[k]
  /\ timer' = [timer EXCEPT ![k] = FALSE] /\ queued' = [queued EXCEPT ![k] = TRUE]
  /\ UNCHANGED <<scene, budget, obj, cache, lag, expired, wk>>

Expire(k) ==
  /\ obj[k].st = "live" /\ ~expired[k] /\ expired' = [expired EXCEPT ![k] = TRUE]
  /\ UNCHANGED <<scene, budget, obj, cache, lag, queued, timer, wk>>

DeleteObject(k) ==
  /\ obj[k].st = "live" /\ UserActs
  /\ Write(k, [obj[k] EXCEPT !.st = IF obj[k].fin THEN "deleting" ELSE "gone"])
  /\ wk' = [wk EXCEPT ![k].stale = @ \/ wk[k].pc # "idle"]
  /\ UNCHANGED <<scene, cache, queued, timer, expired>>

ChangeVisibility ==
  /\ UserActs
  /\ \E v \in {"public", "private", "missing"} \ {world.repo} :
       /\ world' = [world EXCEPT !.repo = v]
       /\ wk' = [k \in Kinds |-> [wk[k] EXCEPT !.saw = IF wk[k].pc = "idle" THEN @ ELSE @ \cup {v}]]
  /\ UNCHANGED <<tokens, remote, objectVars>>

\* Uploads and OAuth flows store data, a deleted token takes them along.
StoreData ==
  /\ UserActs
  /\ \E t \in Tokens, c \in Credentials \cup {None} :
       /\ c # tokens[t].data
       /\ tokens' = [tokens EXCEPT ![t] = [data |-> c, meta |-> IF c = None THEN None ELSE @.meta]]
  /\ UNCHANGED <<world, remote, objectVars, wk>>

\* The token controller (module TokenController): data bring metadata, once or
\* again when they have expired, and a ready token without data loses them.
TokenSettles(t) ==
  /\ tokens[t].meta # tokens[t].data
  /\ tokens[t].meta = None \/ tokens[t].data = None \/ MetadataExpires(Type)
  /\ tokens' = [tokens EXCEPT ![t].meta = tokens[t].data]
  /\ UNCHANGED <<world, remote, objectVars, wk, budget>>

\* The operator is started again: every object is listed, delayed entries are lost.
StartOver ==
  /\ wk' = [k \in Kinds |-> IdleWorker] /\ timer' = [k \in Kinds |-> FALSE]
  /\ cache' = obj /\ lag' = [k \in Kinds |-> FALSE]
  /\ queued' = [k \in Kinds |-> obj[k].st \in {"live", "deleting"}]
  /\ UNCHANGED <<scene, obj, expired>>

Restart == budget.restarts > 0 /\ budget' = [budget EXCEPT !.restarts = @ - 1] /\ StartOver

\* The lookup of an access check ends the process, however often that is; file
\* requests do not get there, as Quay has no files to download.
LookupPanics == wk["check"].pc = "lookup" /\ FilterEndsProcess /\ StartOver /\ NoFault

Init ==
  /\ budget = [ops |-> MaxOps, faults |-> MaxFaults, restarts |-> MaxRestarts]
  /\ tokens \in [Tokens -> {[data |-> c, meta |-> c] : c \in Credentials \cup {None}}]
  /\ world \in {Served(w) : w \in Worlds} /\ remote \in SUBSET RemoteKinds
  /\ \E kind \in Kinds, fin \in BOOLEAN, perms \in PermissionSets :
       /\ kind = "check" => ~fin
       /\ obj = [k \in Kinds |->
                  IF k = kind THEN [NoObject EXCEPT !.st = "live", !.fin = fin, !.perms = perms]
                  ELSE NoObject]
  /\ cache = obj /\ lag = [k \in Kinds |-> FALSE]
  /\ queued = [k \in Kinds |-> obj[k].st = "live"]
  /\ timer = [k \in Kinds |-> FALSE] /\ expired = [k \in Kinds |-> FALSE]
  /\ wk = [k \in Kinds |-> IdleWorker]

Lookups(k) == LookupTokens(k) \/ TokenData(k) \/ LookupSecrets(k)
FileSteps ==
  \/ Get("file") \/ DropOldFinalizer("file") \/ NothingToDo \/ Cleanup("file") \/ FileProvider
  \/ Lookups("file") \/ DownloadGitHub \/ DownloadGitLab \/ UpdateStatus("file")
CheckSteps ==
  \/ Get("check") \/ Cleanup("check") \/ CheckProvider \/ CheckGitHub \/ CheckGitLab
  \/ Lookups("check") \/ LookupPanics \/ CheckQuay \/ UpdateStatus("check")

Next ==
  \/ FileSteps \/ CheckSteps
  \/ \E k \in Kinds : Deliver(k) \/ TimerFires(k) \/ Expire(k) \/ DeleteObject(k)
  \/ ChangeVisibility \/ StoreData \/ (\E t \in Tokens : TokenSettles(t)) \/ Restart

Spec == Init /\ [][Next]_vars

\* Controllers work as long as they have something to do, informers deliver,
\* delayed entries come up and time passes; users and failures need not.
FairSpec ==
  /\ Spec
  /\ WF_vars(FileSteps) /\ WF_vars(CheckSteps)
  /\ \A k \in Kinds : WF_vars(Deliver(k)) /\ WF_vars(TimerFires(k)) /\ WF_vars(Expire(k))

----------------------------------------------------------------------------
Statuses ==
  [phase : {"", "Delivered", "Error", "Accessible", "Inaccessible"},
   vis : {"", "unknown", "public", "private"},
   reason : {"", "unableToValidate", "noSuitableServiceProvider", "notSupported", "lookup",
             "noCredentials", "download", "UnsupportedConfiguration", "UnknownServiceProvider",
             "NotImplemented", "BadURL", "TokenLookupFailed", "RepoNotFound", "UnknownError"}]

TypeOK ==
  /\ tokens \in [Tokens -> [data : Credentials \cup {None}, meta : Credentials \cup {None}]]
  /\ \A k \in Kinds :
       /\ {obj[k], cache[k]} \subseteq
            [st : {None, "live", "deleting", "gone"}, fin : BOOLEAN, perms : PermissionSets
               \cup {NoObject.perms}, status : Statuses]
       /\ {lag[k], queued[k], timer[k], expired[k], wk[k].stale, wk[k].again} \subseteq BOOLEAN
       /\ wk[k].pc \in {"idle", "got", "public", "lookup", "data", "secrets", "probe", "update"}
       /\ wk[k].res \in Statuses /\ (wk[k].pc = "data" => wk[k].tok \in Tokens)

\* An access check does not say what was not so at any time since it looked: a
\* repository it calls public or private was that, and one it calls accessible
\* was public, or private and open to the credentials that were found.  The
\* answers come from two requests and a lookup, between which the repository and
\* the tokens change.  What the code excepts: a robot token that Quay refuses is
\* trusted to open a private repository; and a check whose provider could not be
\* determined gives that reason next to the verdict of an earlier check, which
\* may not be so any more.
CheckTellsTruth ==
  LET w == wk["check"] IN
  w.pc = "update" =>
    \/ /\ w.res.reason \in {"UnknownServiceProvider", "UnsupportedConfiguration"}
       /\ w.res = [w.obj.status EXCEPT !.reason = w.res.reason]
    \/ Type = "Quay" /\ w.cred \in Robots /\ w.res.vis = "private"
    \/ /\ w.res.vis \in {"public", "private"} => w.res.vis \in w.saw
       /\ w.res.phase = "Accessible" => "public" \in w.saw \/ ("private" \in w.saw /\ w.cred \in Sees)

\* A delivered file stays delivered: an older copy from the informer, for which
\* the download is repeated and may fail, does not overwrite it.
DeliveredStays ==
  [][obj["file"].status.phase = "Delivered" => obj'["file"].status.phase = "Delivered"]_vars

\* The object is older than its TTL (FileContentRequestTtl, AccessCheckTtl) and
\* still there.  Of a restart, which loses the delayed entry, this tells for
\* access checks only: a file request that has been delivered gets no new one.
Overdue ==
  \E k \in Kinds :
    /\ expired[k] /\ obj[k].st \in {"live", "deleting"}
    /\ k = "file" => budget.restarts = MaxRestarts

\* No object outlives its TTL for long, whatever became of its Reconcile: what
\* is overdue is deleted.
ExpiredObjectsGo == Overdue ~> ~Overdue
=============================================================================
