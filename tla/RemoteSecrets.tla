---------------------------- MODULE RemoteSecrets ----------------------------
(***************************************************************************)
(* The controllers around RemoteSecrets: the one that publishes OAuth URLs,*)
(* and the ones that clean up after deleted environments and applications. *)
(* They share the objects with users and with the remote secret operator.  *)
(***************************************************************************)
EXTENDS ProviderConfig

CONSTANTS
  RemoteSecrets, Environments, Applications,
  Adopted,      \* the environments and applications that have the finalizer at first
  Target,       \* the target of an environment: detectTargetFromEnvironment
  Templates,    \* the RemoteSecrets users create
  Hosts,        \* the values of the host label
  UserOps,      \* the operations users perform
  MaxOps,       \* bound: operations of users
  MaxFaults     \* bound: failing calls to the API server or to a provider

None == "none"
NoCond == [reason |-> None, host |-> None]
Absent(st) == [st |-> st, host |-> None, url |-> None, cond |-> NoCond, data |-> FALSE,
               app |-> None, envs |-> {}, build |-> FALSE, targets |-> {}]

\* New RemoteSecrets have neither a status nor the annotation of the controller.
ASSUME RemoteSecretConstants ==
  /\ None \notin Hosts \cup Applications
  /\ \A t \in Templates :
       /\ t = [Absent("live") EXCEPT !.host = t.host, !.app = t.app, !.envs = t.envs, !.build = t.build]
       /\ t.host \in Hosts \cup {None} /\ t.app \in Applications \cup {None}
       /\ t.envs \subseteq Environments /\ t.build \in BOOLEAN
  /\ MaxOps \in Nat /\ MaxFaults \in Nat

VARIABLES
  rs,      \* RemoteSecrets: the host label, the OAuth URL annotation (the host it
           \* is for), the OAuthURLGenerated and the DataObtained condition, the
           \* application label, the environments of label and annotation, whether
           \* it is labelled for builds, the targets
  env, app,    \* Environments and Applications: "new", "live" with the finalizer,
               \* "deleting", "gone" after it, "unseen" if deleted before it
  oq, eq, aq,  \* the work queues of the three controllers
  ow, ew, aw,  \* their workers
  budget       \* [ops, faults]: how many may still come; [restarted]

queues == <<oq, eq, aq>>
workers == <<ow, ew, aw>>
vars == <<rs, env, app, queues, workers, budget>>

Present(r) == rs[r].st \in {"live", "deleting"}

\* obj is the object as the worker knows it, base as it first read it; "stale"
\* tells whether it was written since obj, "moved" whether the first patch
\* answered with a new resource version, "cond" what is to be reported and
\* "again" whether Reconcile then returns an error.
IdleOAuth == [pc |-> "idle", key |-> CHOOSE r \in RemoteSecrets : TRUE, obj |-> Absent(None),
              base |-> Absent(None), stale |-> FALSE, moved |-> FALSE, cond |-> NoCond, again |-> FALSE]
\* "todo" holds the listed RemoteSecrets that are still to be handled.
IdleEnv == [pc |-> "idle", key |-> CHOOSE e \in Environments : TRUE, todo |-> {}, stale |-> {},
            list |-> [r \in RemoteSecrets |-> Absent(None)]]
IdleApp == [pc |-> "idle", key |-> CHOOSE a \in Applications : TRUE, todo |-> {}]

Fault == budget.faults > 0 /\ budget' = [budget EXCEPT !.faults = @ - 1]
NoFault == UNCHANGED budget

\* Namespaces without configuration secrets of their own.
Provider == [h \in Hosts |-> FromRepoUrl({}, h)]

----------------------------------------------------------------------------
(* Writing a RemoteSecret.  The predicates of the OAuth controller let      *)
(* through creations with a host label and changes of label or annotation.  *)

OAuthWakes(old, new) ==
  IF old.st = None THEN new.host # None ELSE old.host # new.host \/ old.url # new.url

OAuthQueue(r, new) == IF OAuthWakes(rs[r], new) THEN oq \cup {r} ELSE oq
OutdatedOAuth(r, new) == [ow EXCEPT !.stale = @ \/ (ow.key = r /\ new # rs[r])]
OutdatedEnv(r, new) == [ew EXCEPT !.stale = IF new # rs[r] THEN @ \cup {r} ELSE @]

\* A write by somebody else than the three controllers.
Put(r, new) ==
  /\ rs' = [rs EXCEPT ![r] = new] /\ oq' = OAuthQueue(r, new)
  /\ ow' = OutdatedOAuth(r, new) /\ ew' = OutdatedEnv(r, new)

----------------------------------------------------------------------------
(* RemoteSecretOAuthReconciler.Reconcile.                                   *)

\* Get, and the branch for a missing host label.
OAuthGet ==
  /\ ow.pc = "idle"
  /\ \E r \in oq :
       /\ oq' = oq \ {r}
       /\ LET o == rs[r]
              pc == IF o.st # "live" THEN "idle" ELSE IF o.host # None THEN "provider"
                    ELSE IF o.url # None THEN "dropUrl" ELSE IF o.cond # NoCond THEN "dropCond" ELSE "idle"
          IN ow' = IF pc = "idle" THEN IdleOAuth
                   ELSE [IdleOAuth EXCEPT !.pc = pc, !.key = r, !.obj = o, !.base = o]
  /\ UNCHANGED <<rs, env, app, eq, aq, ew, aw, budget>>

\* The provider for the host; an error that is no validation error is retried
\* after it has been reported.
OAuthProvider ==
  /\ ow.pc = "provider"
  /\ LET h == ow.obj.host
         sp == Provider[h]
         Report(reason, again) ==
           ow' = [ow EXCEPT !.pc = "report", !.cond = [reason |-> reason, host |-> h], !.again = again]
     IN \/ Fault /\ Report("Error", TRUE)
        \/ NoFault /\ sp.err = "validation" /\ Report("Error", FALSE)
        \/ NoFault /\ sp.err = "" /\ ~sp.oauth /\ Report("NotSupported", FALSE)
        \/ NoFault /\ sp.err = "" /\ sp.oauth
           /\ ow' = [ow EXCEPT !.pc = "addUrl", !.cond = [reason |-> "Success", host |-> None]]
  /\ UNCHANGED <<rs, env, app, queues, ew, aw>>

\* A failed or conflicting call, or a RemoteSecret that has gone: Reconcile
\* returns the error.
OAuthFails(conflict) ==
  /\ \/ (conflict \/ ~Present(ow.key)) /\ NoFault
     \/ Present(ow.key) /\ Fault
  /\ ow' = IdleOAuth /\ oq' = oq \cup {ow.key}
  /\ UNCHANGED <<rs, ew>>

\* Patch of the metadata: only the annotation, and the answer is the new object.
PatchUrl(url, next) ==
  \/ OAuthFails(FALSE)
  \/ /\ Present(ow.key) /\ NoFault
     /\ LET new == [rs[ow.key] EXCEPT !.url = url]
        IN /\ rs' = [rs EXCEPT ![ow.key] = new]
           /\ oq' = OAuthQueue(ow.key, new) /\ ew' = OutdatedEnv(ow.key, new)
           /\ ow' = IF next = "dropCond" /\ new.cond = NoCond THEN IdleOAuth
                    ELSE [ow EXCEPT !.pc = next, !.obj = new, !.stale = FALSE,
                                    !.moved = ow.stale \/ new # rs[ow.key]]

\* Mutant: the annotation is kept when the label has gone.
OAuthDropNothing ==
  ow.pc = "dropUrl" /\ PatchUrl(ow.obj.url, "dropCond") /\ UNCHANGED <<env, app, eq, aq, aw>>

OAuthDropUrl == ow.pc = "dropUrl" /\ PatchUrl(None, "dropCond") /\ UNCHANGED <<env, app, eq, aq, aw>>
OAuthAddUrl == ow.pc = "addUrl" /\ PatchUrl(ow.obj.host, "report") /\ UNCHANGED <<env, app, eq, aq, aw>>

\* Patch of the status: the whole list of conditions, if it differs from the one
\* first read.  The patch names the resource version, and so conflicts with
\* later writes, only if the first patch answered with a new one.
PatchConditions(cond, locked) ==
  \/ OAuthFails(locked /\ ow.stale)
  \/ /\ Present(ow.key) /\ ~(locked /\ ow.stale) /\ NoFault
     /\ LET new == IF <<cond, ow.obj.data>> = <<ow.base.cond, ow.base.data>> THEN rs[ow.key]
                   ELSE [rs[ow.key] EXCEPT !.cond = cond, !.data = ow.obj.data]
        IN rs' = [rs EXCEPT ![ow.key] = new] /\ ew' = OutdatedEnv(ow.key, new)
     /\ oq' = IF ow.again THEN oq \cup {ow.key} ELSE oq
     /\ ow' = IdleOAuth

\* Mutant: the second patch does not carry the resource version of the first.
OAuthReportUnlocked ==
  /\ ow.pc \in {"report", "dropCond"} /\ PatchConditions(ow.cond, FALSE)
  /\ UNCHANGED <<env, app, eq, aq, aw>>

OAuthReport ==
  /\ ow.pc \in {"report", "dropCond"} /\ PatchConditions(ow.cond, ow.moved)
  /\ UNCHANGED <<env, app, eq, aq, aw>>

----------------------------------------------------------------------------
(* EnvironmentReconciler.                                                   *)

\* Mutant: the selector lets the ones for builds through.
ListedWithBuilds(r) == Present(r)

\* The RemoteSecrets that Finalize lists: not those for builds.
Listed(r) == Present(r) /\ ~rs[r].build

applicableForEnvironment(o, e) == e \in o.envs

\* Get and Finalize: the finalizer is added, or the RemoteSecrets are listed.
EnvGet ==
  /\ ew.pc = "idle"
  /\ \E e \in eq :
       /\ eq' = eq \ {e}
       /\ ew' = IF env[e] \notin {"new", "deleting"} THEN IdleEnv
                ELSE [IdleEnv EXCEPT
                        !.pc = IF env[e] = "new" THEN "adopt" ELSE "targets", !.key = e, !.list = rs,
                        !.todo = {r \in RemoteSecrets : /\ env[e] = "deleting" /\ Listed(r)
                                                        /\ applicableForEnvironment(rs[r], e)}]
  /\ UNCHANGED <<rs, env, app, oq, aq, ow, aw, budget>>

\* Mutant: the reconciliation is not retried.
EnvGivesUp == ew' = IdleEnv /\ UNCHANGED eq

\* Reconcile returns the error and is retried.
EnvFails == ew' = IdleEnv /\ eq' = eq \cup {ew.key}

\* removeTarget, and Update of the object as it was listed.
RemoveTargets(conflicts) ==
  /\ ew.pc = "targets"
  /\ \E r \in ew.todo :
       LET new == [rs[r] EXCEPT !.targets = ew.list[r].targets \ {Target[ew.key]}]
       IN \/ /\ Present(r) /\ r \notin conflicts /\ NoFault
             /\ rs' = [rs EXCEPT ![r] = new]
             /\ ow' = OutdatedOAuth(r, new)
             /\ ew' = [ew EXCEPT !.todo = @ \ {r}] /\ UNCHANGED eq
          \/ /\ \/ (~Present(r) \/ r \in conflicts) /\ NoFault
                \/ Present(r) /\ r \notin conflicts /\ Fault
             /\ EnvFails /\ UNCHANGED <<rs, ow>>
  /\ UNCHANGED <<env, app, oq, aq, aw>>

\* Mutant: the update overwrites what was written since the list.
EnvTargetsOverwritten == RemoveTargets({})
\* Mutant: a conflict ends the cleaning of one RemoteSecret, not the reconciliation.
EnvTargetsSkipped ==
  \/ RemoveTargets(ew.stale)
  \/ /\ ew.pc = "targets" /\ \E r \in ew.todo \cap ew.stale : ew' = [ew EXCEPT !.todo = @ \ {r}]
     /\ UNCHANGED <<rs, env, app, queues, ow, aw, budget>>

EnvTargets == RemoveTargets(ew.stale)

\* The update of the environment that adds or removes the finalizer.
EnvUpdate ==
  /\ ew.pc = "adopt" \/ (ew.pc = "targets" /\ ew.todo = {})
  /\ \/ /\ env[ew.key] = (IF ew.pc = "adopt" THEN "new" ELSE "deleting") /\ NoFault
        /\ env' = [env EXCEPT ![ew.key] = IF ew.pc = "adopt" THEN "live" ELSE "gone"]
        /\ ew' = IdleEnv /\ UNCHANGED eq
     \/ /\ \/ ew.pc = "adopt" /\ env[ew.key] # "new" /\ NoFault
           \/ Fault
        /\ EnvFails /\ UNCHANGED env
  /\ UNCHANGED <<rs, app, oq, aq, ow, aw>>

----------------------------------------------------------------------------
(* ApplicationReconciler: the RemoteSecrets themselves are deleted.         *)

AppGet ==
  /\ aw.pc = "idle"
  /\ \E a \in aq :
       /\ aq' = aq \ {a}
       /\ aw' = IF app[a] \notin {"new", "deleting"} THEN IdleApp
                ELSE [pc |-> IF app[a] = "new" THEN "adopt" ELSE "secrets", key |-> a,
                      todo |-> {r \in RemoteSecrets : /\ app[a] = "deleting" /\ Listed(r)
                                                      /\ rs[r].app = a}]
  /\ UNCHANGED <<rs, env, app, oq, eq, ow, ew, budget>>

AppFails == aw' = IdleApp /\ aq' = aq \cup {aw.key}

\* Deleting one that is being deleted already changes nothing; one that has gone
\* since the list is an error.
AppSecrets ==
  /\ aw.pc = "secrets"
  /\ \E r \in aw.todo :
       LET new == [rs[r] EXCEPT !.st = "deleting"]
       IN \/ /\ Present(r) /\ NoFault
             /\ rs' = [rs EXCEPT ![r] = new]
             /\ ow' = OutdatedOAuth(r, new) /\ ew' = OutdatedEnv(r, new)
             /\ aw' = [aw EXCEPT !.todo = @ \ {r}] /\ UNCHANGED aq
          \/ /\ \/ ~Present(r) /\ NoFault
                \/ Present(r) /\ Fault
             /\ AppFails /\ UNCHANGED <<rs, ow, ew>>
  /\ UNCHANGED <<env, app, oq, eq>>

AppUpdate ==
  /\ aw.pc = "adopt" \/ (aw.pc = "secrets" /\ aw.todo = {})
  /\ \/ /\ app[aw.key] = (IF aw.pc = "adopt" THEN "new" ELSE "deleting") /\ NoFault
        /\ app' = [app EXCEPT ![aw.key] = IF aw.pc = "adopt" THEN "live" ELSE "gone"]
        /\ aw' = IdleApp /\ UNCHANGED aq
     \/ /\ \/ aw.pc = "adopt" /\ app[aw.key] # "new" /\ NoFault
           \/ Fault
        /\ AppFails /\ UNCHANGED app
  /\ UNCHANGED <<rs, env, oq, eq, ow, ew>>

----------------------------------------------------------------------------
(* Users, the remote secret operator and restarts.                          *)

UserOp(op) == op \in UserOps /\ budget.ops > 0 /\ budget' = [budget EXCEPT !.ops = @ - 1]

\* Users refer to applications and environments that are not being deleted.
CreateRemoteSecret ==
  /\ UserOp("create")
  /\ \E r \in RemoteSecrets, new \in Templates :
       /\ rs[r].st = None
       /\ new.app # None => app[new.app] \in {"new", "live"}
       /\ \A e \in new.envs : env[e] \in {"new", "live"}
       /\ Put(r, [new EXCEPT !.targets = {Target[e] : e \in new.envs}])
  /\ UNCHANGED <<env, app, eq, aq, aw>>

SetHost ==
  /\ UserOp("host")
  /\ \E r \in RemoteSecrets, h \in Hosts \cup {None} :
       rs[r].st = "live" /\ rs[r].host # h /\ Put(r, [rs[r] EXCEPT !.host = h])
  /\ UNCHANGED <<env, app, eq, aq, aw>>

SetUrl ==
  /\ UserOp("url")
  /\ \E r \in RemoteSecrets : rs[r].st = "live" /\ rs[r].url # None /\ Put(r, [rs[r] EXCEPT !.url = None])
  /\ UNCHANGED <<env, app, eq, aq, aw>>

AddEnvironment ==
  /\ UserOp("addEnv")
  /\ \E r \in RemoteSecrets, e \in Environments :
       /\ rs[r].st = "live" /\ env[e] \in {"new", "live"} /\ e \notin rs[r].envs
       /\ Put(r, [rs[r] EXCEPT !.envs = @ \cup {e}, !.targets = @ \cup {Target[e]}])
  /\ UNCHANGED <<env, app, eq, aq, aw>>

\* Only an object with the finalizer waits for it; one that is deleted before the
\* controller has seen it vanishes at once.
Deleted(st) == IF st = "new" THEN "unseen" ELSE "deleting"

DeleteEnvironment ==
  /\ UserOp("deleteEnv")
  /\ \E e \in Environments :
       /\ env[e] \in {"new", "live"}
       /\ env' = [env EXCEPT ![e] = Deleted(@)] /\ eq' = eq \cup {e}
  /\ UNCHANGED <<rs, app, oq, aq, workers>>

DeleteApplication ==
  /\ UserOp("deleteApp")
  /\ \E a \in Applications :
       /\ app[a] \in {"new", "live"}
       /\ app' = [app EXCEPT ![a] = Deleted(@)] /\ aq' = aq \cup {a}
  /\ UNCHANGED <<rs, env, oq, eq, workers>>

\* The data of a RemoteSecret arrives, and the other operator reports it.
DataObtained ==
  /\ UserOp("data")
  /\ \E r \in RemoteSecrets : rs[r].st = "live" /\ ~rs[r].data /\ Put(r, [rs[r] EXCEPT !.data = TRUE])
  /\ UNCHANGED <<env, app, eq, aq, aw>>

\* The other operator's finalizer lets a deleted RemoteSecret go.
RemoteSecretGone ==
  /\ \E r \in RemoteSecrets : rs[r].st = "deleting" /\ Put(r, Absent("gone"))
  /\ UNCHANGED <<env, app, eq, aq, aw, budget>>

\* A restarted operator lists all objects: Create events for each.
Restart ==
  /\ "restart" \in UserOps /\ budget.ops > 0
  /\ budget' = [budget EXCEPT !.ops = @ - 1, !.restarted = TRUE]
  /\ ow' = IdleOAuth /\ ew' = IdleEnv /\ aw' = IdleApp
  /\ oq' = {r \in RemoteSecrets : Present(r) /\ rs[r].host # None}
  /\ eq' = {e \in Environments : env[e] \in {"new", "live", "deleting"}}
  /\ aq' = {a \in Applications : app[a] \in {"new", "live", "deleting"}}
  /\ UNCHANGED <<rs, env, app>>

----------------------------------------------------------------------------
Init ==
  /\ rs = [r \in RemoteSecrets |-> Absent(None)]
  /\ env = [e \in Environments |-> IF e \in Adopted THEN "live" ELSE "new"]
  /\ app = [a \in Applications |-> IF a \in Adopted THEN "live" ELSE "new"]
  /\ oq = {} /\ eq = Environments \ Adopted /\ aq = Applications \ Adopted
  /\ ow = IdleOAuth /\ ew = IdleEnv /\ aw = IdleApp
  /\ budget = [ops |-> MaxOps, faults |-> MaxFaults, restarted |-> FALSE]

OAuthReconcile == OAuthGet \/ OAuthProvider \/ OAuthDropUrl \/ OAuthAddUrl \/ OAuthReport
EnvReconcile == EnvGet \/ EnvTargets \/ EnvUpdate
AppReconcile == AppGet \/ AppSecrets \/ AppUpdate
Users == \/ CreateRemoteSecret \/ SetHost \/ SetUrl \/ AddEnvironment \/ DeleteEnvironment
         \/ DeleteApplication \/ DataObtained \/ RemoteSecretGone \/ Restart

Next == OAuthReconcile \/ EnvReconcile \/ AppReconcile \/ Users

\* Each controller has a worker goroutine that keeps running.
Spec == Init /\ [][Next]_vars
        /\ WF_vars(OAuthReconcile) /\ WF_vars(EnvReconcile) /\ WF_vars(AppReconcile)

----------------------------------------------------------------------------
Conditions == [reason : {None, "Success", "NotSupported", "Error"}, host : Hosts \cup {None}]
Objects == [st : {None, "live", "deleting", "gone"}, host : Hosts \cup {None}, url : Hosts \cup {None},
            cond : Conditions, data : BOOLEAN, app : Applications \cup {None},
            envs : SUBSET Environments, build : BOOLEAN, targets : SUBSET {Target[e] : e \in Environments}]

OwnerStates == {"new", "live", "deleting", "gone", "unseen"}

\* The clean-up workers only hold RemoteSecrets that they may touch.
TypeOK ==
  /\ \A r \in RemoteSecrets : rs[r] \in Objects /\ ew.list[r] \in Objects
  /\ env \in [Environments -> OwnerStates]
  /\ app \in [Applications -> OwnerStates]
  /\ oq \subseteq RemoteSecrets /\ eq \subseteq Environments /\ aq \subseteq Applications
  /\ ow.pc \in {"idle", "provider", "dropUrl", "addUrl", "report", "dropCond"}
  /\ ow.obj \in Objects /\ ow.base \in Objects /\ ow.cond \in Conditions
  /\ ew.pc \in {"idle", "adopt", "targets"} /\ ew.todo \subseteq RemoteSecrets
  /\ aw.pc \in {"idle", "adopt", "secrets"} /\ aw.todo \subseteq RemoteSecrets
  /\ \A r \in ew.todo \cup aw.todo : ~rs[r].build
  /\ budget \in [ops : 0..MaxOps, faults : 0..MaxFaults, restarted : BOOLEAN]

\* A host for which the annotation is made.
HasOAuth(h) == Provider[h].err = "" /\ Provider[h].oauth

\* Whatever happened to the label, the annotation, the provider calls and the
\* process in between, once the OAuth controller has nothing left to do: a
\* RemoteSecret with a host that supports OAuth carries the URL for that host and
\* says so; one with another host says why it gets none (docs/USER.md:630-656) and
\* carries none that was made for a host without OAuth; one without the label has
\* neither URL nor condition, unless a restart made the controller forget that the
\* label was removed.  The URL of a former host that supported OAuth is excepted
\* on purpose: Reconcile leaves the annotation alone when the new host has no
\* OAuth or is malformed, next to a condition that says there is no URL.
UrlFollowsHost ==
  (oq = {} /\ ow.pc = "idle") => \A r \in RemoteSecrets : rs[r].st = "live" =>
    IF rs[r].host = None THEN budget.restarted \/ (rs[r].url = None /\ rs[r].cond = NoCond)
    ELSE IF HasOAuth(rs[r].host) THEN rs[r].url = rs[r].host /\ rs[r].cond.reason = "Success"
    ELSE /\ rs[r].cond = [reason |-> IF Provider[rs[r].host].err = "" THEN "NotSupported" ELSE "Error",
                          host |-> rs[r].host]
         /\ rs[r].url # None => HasOAuth(rs[r].url) /\ rs[r].url # rs[r].host

\* A report that follows a change of the annotation in the same reconciliation
\* does not undo a condition that the remote secret operator wrote in between,
\* although the patch replaces the whole list of conditions.
ReportKeepsData ==
  [][ow.pc = "report" /\ ow.moved /\ ow'.pc = "idle" /\ rs[ow.key].data => rs'[ow.key].data]_vars

\* When an environment has been finalized, its target has gone from the
\* RemoteSecrets that were synced to it, unless another environment has the same
\* target; when an application has been, the RemoteSecrets labelled for it have
\* gone or are on their way.  The ones for builds are excepted.
GoneOwnersLeaveNothing ==
  \A r \in RemoteSecrets : ~rs[r].build =>
    /\ \A e \in rs[r].envs :
         /\ env[e] = "gone" /\ Present(r)
         /\ \A f \in Environments \ {e} : Target[f] # Target[e]
         => Target[e] \notin rs[r].targets
    /\ \A a \in Applications : app[a] = "gone" /\ rs[r].app = a => rs[r].st # "live"

\* A target only disappears while an environment with that target is being
\* deleted: cleaning up never undoes what users add to the same RemoteSecret.
TargetsOfOthersKept ==
  [][\A r \in RemoteSecrets : rs'[r].st # "gone" =>
       \A t \in rs[r].targets \ rs'[r].targets :
         \E e \in Environments : env[e] = "deleting" /\ Target[e] = t]_vars

\* Deleted environments and applications are let go, although every clean-up may
\* conflict with the other controllers' and the users' writes.
DeletedOwnersGo ==
  /\ \A e \in Environments : (env[e] = "deleting") ~> (env[e] = "gone")
  /\ \A a \in Applications : (app[a] = "deleting") ~> (app[a] = "gone")
=============================================================================
