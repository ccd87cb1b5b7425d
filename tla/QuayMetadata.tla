---------------------------- MODULE QuayMetadata ----------------------------
(***************************************************************************)
(* What the binding controller puts into a Secret for a Quay token: the    *)
(* scopes come from metadata kept in the token's status, which Quay's      *)
(* metadataProvider fills repository by repository by probing             *)
(* the API of Quay, while users replace the data, change what a credential *)
(* may do and edit the descriptions the probes write back.  One token, one *)
(* organization; a binding per repository; the token match policy "any"    *)
(* (the exact one ends the process before it gets here: module Requests).  *)
(***************************************************************************)
EXTENDS Naturals, FiniteSets

CONSTANTS
  Repos,     \* repositories of bindings, all of one organization
  BadRepos,  \* those of them whose URL does not have the form of a repository
  Changes,   \* the levels of access a change of rights may leave
  Ttl,       \* TokenLookupCacheTtl
  MaxTime,   \* bound: ticks of the clock
  MaxOps,    \* bound: operations of users
  MaxFaults  \* bound: failing calls

None == "none"
Credentials == {"oauth", "robot"} \* an access token, and the user and token of a robot
Entities == (Repos \ BadRepos) \cup {"org"}
Levels == {None, "read", "write", "admin"}
\* None, plain text, and what is not plain text once put between quotes: no JSON
\* at all, or JSON that says something else (escape sequences, quotes that pair up).
Descriptions == {"null", "text", "quoted", "escaped"}
Scopes == {"repo:read", "repo:write", "repo:admin", "repo:create", "org:admin", "push", "pull"}

ASSUME QuayConstants ==
  /\ Changes \subseteq Levels /\ BadRepos \subseteq Repos /\ "org" \notin Repos
  /\ {Ttl, MaxTime, MaxOps, MaxFaults} \subseteq Nat

VARIABLES
  now,     \* the clock
  grants,  \* Quay: the level of access of a credential to an entity
  desc,    \* Quay: the description of a repository
  data,    \* the token storage
  meta,    \* status.tokenMetadata: [st, recs]
  cached,  \* the same in the informer cache
  lag,     \* whether the cache has not yet seen the last change of the token
  w,       \* the worker of the binding controller; mapped is what it puts into the Secret
  recent,  \* history: the credentials stored since the last tick of the clock
  heldAt,  \* history: when one of them last had a scope on an entity
  budget

history == <<recent, heldAt>>
vars == <<now, grants, desc, data, meta, cached, lag, w, history, budget>>

NoRecord == [st |-> None, at |-> 0, scopes |-> {}]
NoMeta == [st |-> None, recs |-> [e \in Entities |-> NoRecord]]
NoSecret == [repo |-> None, cred |-> None, scopes |-> {}]
Idle == [pc |-> "idle", repo |-> None, copy |-> NoMeta, current |-> FALSE, tdata |-> None, login |-> None, loggedIn |-> FALSE, changed |-> FALSE,
         desc |-> None, edited |-> FALSE, scopes |-> {}, mapped |-> NoSecret]

----------------------------------------------------------------------------
(* Quay.                                                                    *)

Reads(level) == level # None
Writes(level) == level \in {"write", "admin"}

\* The claims of the token that docker login answers with.
AnalyzeLoginToken(level) == [pullable |-> Reads(level), pushable |-> Writes(level)]

\* The scopes that docker login shows of a robot account.
RobotScopes(level) ==
  LET info == AnalyzeLoginToken(level)
  IN {s \in {"pull"} : info.pullable} \cup {s \in {"push"} : info.pushable}

\* The scopes a credential has on an entity.
Held(c, e) ==
  LET level == grants[c][e] IN
  IF e = "org" THEN {s \in {"org:admin"} : c = "oauth" /\ level = "admin"}
  ELSE IF c = "robot" THEN RobotScopes(level)
  ELSE {s \in {"repo:read", "pull"} : Reads(level)} \cup
       {s \in {"repo:write", "push"} : Writes(level)} \cup
       {s \in {"repo:admin", "repo:create"} : level = "admin"}

\* The history follows every change of the clock, the data and the grants.
HistoryGrows ==
  /\ recent' = (IF now' = now THEN recent ELSE {}) \cup ({data'} \ {None})
  /\ heldAt' = [e \in Entities |-> [s \in Scopes |->
                 IF \E c \in recent' : s \in Held(c, e)' THEN now' ELSE heldAt[e][s]]]

Init ==
  /\ now = Ttl + 1
  /\ \E l \in {None, "admin"} : grants = [c \in Credentials |-> [e \in Entities |-> l]]
  /\ desc = [r \in Entities \ {"org"} |-> "text"]
  /\ data \in Credentials
  /\ meta = NoMeta /\ cached = NoMeta /\ lag = FALSE
  /\ w = Idle
  /\ recent = {data}
  /\ heldAt = [e \in Entities |-> [s \in Scopes |-> IF s \in Held(data, e) THEN now ELSE 0]]
  /\ budget = [ops |-> MaxOps, faults |-> MaxFaults]

UserActs == budget.ops > 0 /\ budget' = [budget EXCEPT !.ops = @ - 1]
Fault == budget.faults > 0 /\ budget' = [budget EXCEPT !.faults = @ - 1]
NoFault == UNCHANGED budget

\* Requests to Quay take no time that counts.
Tick ==
  /\ w.pc = "idle" /\ now < Ttl + 1 + MaxTime /\ now' = now + 1
  /\ UNCHANGED <<grants, desc, data, meta, cached, lag, w, budget>>
  /\ HistoryGrows

ChangeGrant ==
  /\ UserActs
  /\ \E c \in Credentials, e \in Entities, l \in Changes :
       (e = "org" => c = "oauth") /\ l # grants[c][e] /\ grants' = [grants EXCEPT ![c][e] = l]
  /\ UNCHANGED <<now, desc, data, meta, cached, lag, w>>
  /\ HistoryGrows

EditDescription ==
  /\ UserActs
  /\ \E r \in DOMAIN desc, d \in Descriptions :
       d # desc[r] /\ desc' = [desc EXCEPT ![r] = d] /\ w' = [w EXCEPT !.edited = @ \/ w.repo = r]
  /\ UNCHANGED <<now, grants, data, meta, cached, lag, history>>

\* Manual upload, or the data gone from the storage.
ReplaceData ==
  /\ UserActs
  /\ \E c \in (Credentials \cup {None}) \ {data} : data' = c
  /\ UNCHANGED <<now, grants, desc, meta, cached, lag, w>>
  /\ HistoryGrows

----------------------------------------------------------------------------
(* The token controller and the informer.                                   *)

TokenWritten == lag' = TRUE /\ w' = [w EXCEPT !.current = FALSE]

\* MetadataCache.Ensure and metadataProvider.Fetch: Quay's metadata never expire
\* as a whole, and are fetched without any record.
Ensure ==
  /\ ~lag /\ meta.st = None /\ data # None
  /\ meta' = [NoMeta EXCEPT !.st = "set"]
  /\ TokenWritten
  /\ UNCHANGED <<now, grants, desc, data, cached, history, budget>>

\* reconcileTokenData: no data, no metadata.
ClearMetadata ==
  /\ ~lag /\ meta.st = "set" /\ data = None
  /\ meta' = NoMeta
  /\ TokenWritten
  /\ UNCHANGED <<now, grants, desc, data, cached, history, budget>>

Watch ==
  /\ lag /\ lag' = FALSE /\ cached' = meta
  /\ UNCHANGED <<now, grants, desc, data, meta, w, history, budget>>

----------------------------------------------------------------------------
(* GetData of the binding controller, for a token that is Ready.            *)

Quiet == UNCHANGED <<now, grants, data, cached, history>>

\* GetData reads the data (none, or a failure, ends the reconciliation), and
\* DefaultMapToken maps it with the metadata at hand.
Begin ==
  /\ w.pc = "idle" /\ cached.st = "set" /\ data # None
  /\ \E r \in Repos :
       w' = [Idle EXCEPT !.pc = "data", !.repo = r, !.copy = cached, !.current = ~lag,
                         !.mapped = [repo |-> r, cred |-> data, scopes |-> {}]]
  /\ NoFault /\ Quiet /\ UNCHANGED <<meta, desc, lag>>

\* MapToken answers an error of FetchRepo with an empty mapper and no error.
MapsTo(mapper) == w' = [Idle EXCEPT !.pc = "sync", !.mapped = mapper]
FetchFails == MapsTo([NoSecret EXCEPT !.repo = w.repo])

\* Mutant: data that is gone is not noticed.
FetchDataAnyway ==
  /\ w.pc = "data"
  /\ \/ Fault /\ FetchFails
     \/ NoFault /\ w.repo \in BadRepos /\ FetchFails
     \/ NoFault /\ w.repo \notin BadRepos /\ w' = [w EXCEPT !.pc = "org", !.tdata = data]
  /\ Quiet /\ UNCHANGED <<meta, desc, lag>>

\* doFetchRepo reads the data again and splits the URL; without data there are
\* no scopes to tell.
FetchData ==
  /\ w.pc = "data"
  /\ \/ Fault /\ FetchFails
     \/ NoFault /\ data = None /\ MapsTo(w.mapped)
     \/ NoFault /\ data # None /\ w.repo \in BadRepos /\ FetchFails
     \/ NoFault /\ data # None /\ w.repo \notin BadRepos /\ w' = [w EXCEPT !.pc = "org", !.tdata = data]
  /\ Quiet /\ UNCHANGED <<meta, desc, lag>>

\* Mutant: the TTL of a record is never looked at.
PresentOnly(e) ==
  LET rec == w.copy.recs[e] IN rec.st = "set"

\* getEntityRecord: a record of the cache is used as long as it is valid.
Valid(e) ==
  LET rec == w.copy.recs[e] IN rec.st = "set" /\ now <= rec.at + Ttl

\* The access to the repository, none for refused credentials.
DockerLogin(worker) == grants[worker.tdata][worker.repo]

\* getLoginTokenInfo, the lazy one-time login: a refused one is tried again.
LoggedIn(worker) ==
  IF worker.loggedIn THEN worker
  ELSE [worker EXCEPT !.login = DockerLogin(worker), !.loggedIn = DockerLogin(worker) # None]

Recorded(worker, e, scopes) ==
  [worker EXCEPT !.copy.recs[e] = [st |-> "set", at |-> now, scopes |-> scopes], !.changed = TRUE]

\* fetchOrganizationRecord; a robot has no record of its own there.
FetchOrganization ==
  /\ w.pc = "org"
  /\ \/ NoFault /\ Valid("org") /\ w' = [w EXCEPT !.pc = "repo"]
     \/ Fault /\ ~Valid("org") /\ FetchFails
     \/ /\ NoFault /\ ~Valid("org")
        /\ w' = [Recorded(LoggedIn(w), "org", Held(w.tdata, "org")) EXCEPT !.pc = "repo"]
  /\ Quiet /\ UNCHANGED <<meta, desc, lag>>

\* robotAccountRepositoryRecord, or hasRepoRead, the first of the probes of
\* oauthRepositoryRecord.
FetchRepository ==
  LET in == LoggedIn(w)
      reads == Reads(grants[w.tdata][w.repo])
  IN
  /\ w.pc = "repo"
  /\ \/ NoFault /\ Valid(w.repo) /\ w' = [w EXCEPT !.pc = "persist"]
     \/ Fault /\ ~Valid(w.repo) /\ FetchFails
     \/ /\ NoFault /\ ~Valid(w.repo) /\ w.tdata = "robot"
        /\ w' = [Recorded(in, w.repo, RobotScopes(in.login)) EXCEPT !.pc = "persist"]
     \/ /\ NoFault /\ ~Valid(w.repo) /\ w.tdata = "oauth"
        /\ w' = [in EXCEPT !.pc = IF reads THEN "write" ELSE "rest",
                           !.desc = IF reads THEN desc[w.repo] ELSE None,
                           !.edited = FALSE,
                           !.scopes = IF reads THEN {"repo:read", "pull"} ELSE {}]
  /\ Quiet /\ UNCHANGED <<meta, desc, lag>>

\* Mutant: the description is not sent back.
ProbeWriteEmpty ==
  LET done == Writes(grants[w.tdata][w.repo]) IN
  /\ w.pc = "write"
  /\ \/ Fault /\ FetchFails /\ UNCHANGED desc
     \/ /\ NoFault
        /\ desc' = IF done THEN [desc EXCEPT ![w.repo] = "null"] ELSE desc
        /\ w' = [w EXCEPT !.pc = "rest", !.scopes = @ \cup {s \in {"repo:write", "push"} : done}]
  /\ Quiet /\ UNCHANGED <<meta, lag>>

\* What Quay understands of a description put between quotes and not escaped;
\* nothing when it is no JSON, which Quay refuses.
Understood(d) ==
  CASE d = "quoted" -> {}
    [] d = "escaped" -> Descriptions
    [] OTHER -> {d}

\* hasRepoWrite sends the description it has read back, between quotes as it is.
ProbeWrite ==
  LET writes == Writes(grants[w.tdata][w.repo]) IN
  /\ w.pc = "write"
  /\ \/ Fault /\ FetchFails /\ UNCHANGED desc
     \/ \E d \in Understood(w.desc) :
          /\ NoFault /\ writes
          /\ desc' = [desc EXCEPT ![w.repo] = d]
          /\ w' = [w EXCEPT !.pc = "rest", !.scopes = @ \cup {"repo:write", "push"}]
     \/ /\ NoFault /\ (~writes \/ Understood(w.desc) = {}) /\ UNCHANGED desc
        /\ w' = [w EXCEPT !.pc = "rest"]
  /\ Quiet /\ UNCHANGED <<meta, lag>>

\* hasRepoAdmin and hasRepoCreate.
ProbeRest ==
  /\ w.pc = "rest"
  /\ \/ Fault /\ FetchFails
     \/ /\ NoFault
        /\ w' = [Recorded(w, w.repo, w.scopes \cup
                            {s \in {"repo:admin", "repo:create"} : grants[w.tdata][w.repo] = "admin"})
                   EXCEPT !.pc = "persist"]
  /\ Quiet /\ UNCHANGED <<meta, desc, lag>>

Fetched == w.copy.recs[w.repo].scopes \cup w.copy.recs["org"].scopes
Mapped == MapsTo([w.mapped EXCEPT !.scopes = Fetched])

\* Mutant: the status is written whatever happened to the token.
PersistForced ==
  /\ w.pc = "persist"
  /\ \/ NoFault /\ ~w.changed /\ Mapped /\ UNCHANGED <<meta, lag>>
     \/ Fault /\ w.changed /\ FetchFails /\ UNCHANGED <<meta, lag>>
     \/ NoFault /\ w.changed /\ Mapped /\ meta' = w.copy /\ lag' = TRUE
  /\ Quiet /\ UNCHANGED desc

\* persistTokenState: a conflict when the token has changed since it was read.
Persist ==
  /\ w.pc = "persist"
  /\ \/ NoFault /\ ~w.changed /\ Mapped /\ UNCHANGED <<meta, lag>>
     \/ Fault /\ w.changed /\ FetchFails /\ UNCHANGED <<meta, lag>>
     \/ NoFault /\ w.changed /\ ~w.current /\ FetchFails /\ UNCHANGED <<meta, lag>>
     \/ NoFault /\ w.changed /\ w.current /\ Mapped /\ meta' = w.copy /\ lag' = TRUE
  /\ Quiet /\ UNCHANGED desc

\* ToSecretType; the Secret is synced and the reconciliation ends.
Sync ==
  /\ w.pc = "sync" /\ w' = Idle /\ NoFault
  /\ UNCHANGED <<now, grants, desc, data, meta, cached, lag, history>>

GetData ==
  \/ Begin \/ FetchData \/ FetchOrganization \/ FetchRepository \/ ProbeWrite \/ ProbeRest
  \/ Persist \/ Sync

Users == ChangeGrant \/ EditDescription \/ ReplaceData
Next == GetData \/ Users \/ Tick \/ Ensure \/ ClearMetadata \/ Watch

Spec == Init /\ [][Next]_vars

----------------------------------------------------------------------------
Times == 0 .. Ttl + 1 + MaxTime
Records == [st : {None, "set"}, at : Times, scopes : SUBSET Scopes]
Secrets == [repo : Repos \cup {None}, cred : Credentials \cup {None}, scopes : SUBSET Scopes]

\* Types, and what the steps of the worker rely on: data to probe with, and
\* records of all it maps.
TypeOK ==
  /\ now \in Times /\ data \in Credentials \cup {None} /\ lag \in BOOLEAN
  /\ grants \in [Credentials -> [Entities -> Levels]] /\ desc \in [Entities \ {"org"} -> Descriptions]
  /\ \A m \in {meta, cached, w.copy} : \A e \in Entities : m.recs[e] \in Records
  /\ w.mapped \in Secrets
  /\ w.pc \in {"org", "repo", "write", "rest", "persist"} => w.tdata # None /\ w.repo \in Entities
  /\ w.pc = "persist" => \A e \in {w.repo, "org"} : w.copy.recs[e].st = "set"
  /\ recent \subseteq Credentials /\ heldAt \in [Entities -> [Scopes -> Times]]

\* "the lookup cache results are considered valid" for TokenLookupCacheTtl: no
\* scope gets into a Secret that the stored credential did not have within the
\* TTL, however the data and its rights change between and during the probes
\* (data replaced while the worker uses it counts until the next tick).
ScopesFresh ==
  w.pc = "sync" =>
    \A s \in w.mapped.scopes : \E e \in {w.mapped.repo, "org"} : now <= heldAt[e][s] + Ttl

\* Records of the cache are only replaced by newer ones: a worker with an old
\* copy of the token does not bring old records back or lose those of another
\* repository.
RecordsMoveForward ==
  [][\A e \in Entities : meta.st = "set" /\ meta'.st = "set" /\ meta'.recs[e] # meta.recs[e]
        => meta'.recs[e].st = "set" /\ meta'.recs[e].at = now]_vars

\* Probing for repo:write leaves the description of the repository as it is,
\* with two exceptions of the code: an edit made between its two requests is
\* undone, and a description that reads as another one when it is put between
\* quotes unescaped (state.go 281-287) is replaced by that other one.
ProbeKeepsDescription ==
  [][w.pc = "write" /\ w'.pc # "write" /\ ~w.edited /\ w.desc # "escaped" => UNCHANGED desc]_vars

\* "The name of the secret that should contain the token data": a Secret that is
\* synced holds the data of the token.
SecretHoldsData ==
  w.pc = "sync" => w.mapped.cred # None
=============================================================================
