------------------------ MODULE RemoteSecretsProofs ------------------------
(*****************************************************************************)
(* The controllers around RemoteSecrets, for any objects, hosts, providers,  *)
(* operations of users and bounds: every variable keeps its type, the OAuth  *)
(* URL follows the host label, a report loses nothing that was written in    *)
(* between, and cleaning up leaves nothing behind and takes nothing else.    *)
(*****************************************************************************)
EXTENDS RemoteSecrets, TLAPS

OAuthWorkers == [pc : {"idle", "provider", "dropUrl", "addUrl", "report", "dropCond"},
                 key : RemoteSecrets \cup {IdleOAuth.key}, obj : Objects, base : Objects,
                 stale : BOOLEAN, moved : BOOLEAN, cond : Conditions, again : BOOLEAN]
EnvWorkers == [pc : {"idle", "adopt", "targets"}, key : Environments \cup {IdleEnv.key},
               todo : SUBSET RemoteSecrets, stale : SUBSET RemoteSecrets, list : [RemoteSecrets -> Objects]]
AppWorkers == [pc : {"idle", "adopt", "secrets"}, key : Applications \cup {IdleApp.key},
               todo : SUBSET RemoteSecrets]
Budgets == [ops : 0..MaxOps, faults : 0..MaxFaults, restarted : BOOLEAN]

\* The type invariant made inductive: a busy worker has a key, and works on
\* RemoteSecrets that exist or did.
SecretsTyped ==
  /\ rs \in [RemoteSecrets -> Objects]
  /\ env \in [Environments -> OwnerStates] /\ app \in [Applications -> OwnerStates]
  /\ oq \subseteq RemoteSecrets /\ eq \subseteq Environments /\ aq \subseteq Applications
  /\ ow \in OAuthWorkers /\ ew \in EnvWorkers /\ aw \in AppWorkers /\ budget \in Budgets
  /\ ow.pc # "idle" => ow.key \in RemoteSecrets
  /\ ew.pc # "idle" => ew.key \in Environments
  /\ aw.pc # "idle" => aw.key \in Applications

Existed ==
  /\ ow.pc # "idle" => rs[ow.key].st # None
  /\ \A r \in ew.todo \cup aw.todo : rs[r].build = FALSE /\ rs[r].st # None
  /\ \A r \in RemoteSecrets : rs[r].st = None => rs[r] = Absent(None)

\* A copy that is not marked as outdated is the object: of the OAuth worker, and
\* of what the environment worker has listed and not yet handled.
CopiesCurrent ==
  /\ ow.pc # "idle" /\ ow.stale = FALSE => ow.obj = rs[ow.key]
  /\ \A r \in ew.todo \ ew.stale : ew.list[r] = rs[r]

\* A report that settles a RemoteSecret with this host and this annotation.
Settles(cond, host, url) ==
  LET sp == Provider[host]
  IN IF sp.err = "" /\ sp.oauth THEN url = host /\ cond.reason = "Success"
     ELSE cond = [reason |-> IF sp.err = "" THEN "NotSupported" ELSE "Error", host |-> host]

\* What UrlFollowsHost wants of one RemoteSecret, but for restarts.
AsWanted(cond, host, url) ==
  IF host = None THEN url = None /\ cond = NoCond ELSE Settles(cond, host, url)

\* A live RemoteSecret that is not as it should be is queued or in hand.
NoneForgotten ==
  \A r \in RemoteSecrets : rs[r].st = "live" =>
    \/ r \in oq
    \/ ow.pc # "idle" /\ ow.key = r
    \/ rs[r].host = None /\ budget.restarted = TRUE
    \/ AsWanted(rs[r].cond, rs[r].host, rs[r].url)

\* The worker is on the way to settle the object it has read.
OnTheWay(w) ==
  /\ w.pc = "provider" => w.obj.host # None
  /\ w.pc = "addUrl" =>
       w.obj.host # None /\ Settles(w.cond, w.obj.host, w.obj.host)
  /\ w.pc = "report" => w.again = TRUE \/ (w.obj.host # None /\ Settles(w.cond, w.obj.host, w.obj.url))
  /\ w.pc = "dropUrl" => w.obj.host = None /\ w.obj.url # None /\ w.cond = NoCond
  /\ w.pc = "dropCond" => w.obj.host = None /\ w.obj.url = None /\ w.cond = NoCond

\* The object in hand is the one it has read, as far as the controller looks at
\* it, unless a change of label or annotation has queued it again.
InHand ==
  ow.pc # "idle" /\ ow.key \notin oq /\ rs[ow.key].st = "live" =>
    /\ rs[ow.key].host = ow.obj.host /\ rs[ow.key].url = ow.obj.url /\ rs[ow.key].cond = ow.base.cond
    /\ OnTheWay(ow)

Unique(e) == \A f \in Environments \ {e} : Target[f] # Target[e]

\* The RemoteSecret still has the target of the environment, and nobody else's.
Carries(o, e) ==
  /\ o.build = FALSE /\ o.st \in {"live", "deleting"}
  /\ e \in o.envs /\ Unique(e) /\ Target[e] \in o.targets
Belongs(o, a) == o.build = FALSE /\ o.st = "live" /\ o.app = a

\* An environment that is being cleaned up: what still has its target is listed.
EnvironmentInHand ==
  ew.pc = "targets" =>
    /\ env[ew.key] = "deleting"
    /\ \A r \in RemoteSecrets : Carries(rs[r], ew.key) => r \in ew.todo

\* An application that is being cleaned up: what is labelled for it and still
\* lives is listed.
ApplicationInHand ==
  aw.pc = "secrets" =>
    /\ app[aw.key] = "deleting"
    /\ \A r \in RemoteSecrets : Belongs(rs[r], aw.key) => r \in aw.todo

NothingLeft ==
  /\ \A r \in RemoteSecrets, e \in Environments : env[e] = "gone" => ~Carries(rs[r], e)
  /\ \A r \in RemoteSecrets, a \in Applications : app[a] = "gone" => ~Belongs(rs[r], a)

OwnersInv == EnvironmentInHand /\ ApplicationInHand /\ NothingLeft
OAuthInv == NoneForgotten /\ InHand
SecretsInv == SecretsTyped /\ Existed /\ CopiesCurrent /\ OAuthInv /\ OwnersInv

-----------------------------------------------------------------------------
(* Types of small things, and the initial states.                             *)

LEMMA SmallTypes ==
  /\ NoCond \in Conditions
  /\ \A st \in {None, "live", "deleting", "gone"} : Absent(st) \in Objects
  /\ IdleOAuth \in OAuthWorkers /\ IdleEnv \in EnvWorkers /\ IdleApp \in AppWorkers
  /\ IdleOAuth.pc = "idle" /\ IdleEnv.pc = "idle" /\ IdleApp.pc = "idle"
  /\ IdleEnv.todo = {} /\ IdleApp.todo = {}
<1>1. NoCond \in Conditions
  BY DEF NoCond, Conditions
<1>2. \A st \in {None, "live", "deleting", "gone"} : Absent(st) \in Objects
  BY <1>1 DEF Absent, Objects, None
<1>3. Absent(None) \in Objects
  BY <1>2
<1>4. IdleOAuth \in OAuthWorkers /\ IdleOAuth.pc = "idle"
  <2> DEFINE k == CHOOSE r \in RemoteSecrets : TRUE
             o == Absent(None)
  <2>1. IdleOAuth = [pc |-> "idle", key |-> k, obj |-> o, base |-> o, stale |-> FALSE, moved |-> FALSE,
                     cond |-> NoCond, again |-> FALSE]
    BY DEF IdleOAuth
  <2>2. o \in Objects
    BY <1>3
  <2> HIDE DEF k, o
  <2> QED
    BY <2>1, <2>2, <1>1 DEF OAuthWorkers
<1>5. IdleEnv \in EnvWorkers /\ IdleEnv.pc = "idle" /\ IdleEnv.todo = {}
  <2> DEFINE k == CHOOSE e \in Environments : TRUE
             l == [r \in RemoteSecrets |-> Absent(None)]
  <2>1. IdleEnv = [pc |-> "idle", key |-> k, todo |-> {}, stale |-> {}, list |-> l]
    BY DEF IdleEnv
  <2>2. l \in [RemoteSecrets -> Objects]
    BY <1>3
  <2> HIDE DEF k, l
  <2> QED
    BY <2>1, <2>2 DEF EnvWorkers
<1>6. IdleApp \in AppWorkers /\ IdleApp.pc = "idle" /\ IdleApp.todo = {}
  <2> DEFINE k == CHOOSE a \in Applications : TRUE
  <2>1. IdleApp = [pc |-> "idle", key |-> k, todo |-> {}]
    BY DEF IdleApp
  <2> HIDE DEF k
  <2> QED
    BY <2>1 DEF AppWorkers
<1> QED
  BY <1>1, <1>2, <1>4, <1>5, <1>6

LEMMA InitSecrets == Init => SecretsInv
<1> SUFFICES ASSUME Init PROVE SecretsInv
  OBVIOUS
<1> USE SmallTypes
<1>1. \A r \in RemoteSecrets : rs[r] = Absent(None) /\ rs[r].st = None
  BY DEF Init, Absent
<1>2. SecretsTyped
  <2>1. rs \in [RemoteSecrets -> Objects]
    BY DEF Init
  <2>2. env \in [Environments -> OwnerStates] /\ app \in [Applications -> OwnerStates]
    BY DEF Init, OwnerStates
  <2>3. budget \in Budgets
    <3>1. budget = [ops |-> MaxOps, faults |-> MaxFaults, restarted |-> FALSE]
      BY DEF Init
    <3>2. MaxOps \in Nat /\ MaxFaults \in Nat
      BY RemoteSecretConstants
    <3> QED
      BY <3>1, <3>2 DEF Budgets
  <2>4. ow = IdleOAuth /\ ew = IdleEnv /\ aw = IdleApp
    BY DEF Init
  <2>5. oq \subseteq RemoteSecrets /\ eq \subseteq Environments /\ aq \subseteq Applications
    BY DEF Init
  <2> QED
    BY <2>1, <2>2, <2>3, <2>4, <2>5 DEF SecretsTyped
<1>3. ow = IdleOAuth /\ ew = IdleEnv /\ aw = IdleApp
  BY DEF Init
<1>4. Existed /\ CopiesCurrent
  BY <1>1, <1>3 DEF Existed, CopiesCurrent
<1>5. OAuthInv
  BY <1>1, <1>3 DEF OAuthInv, NoneForgotten, InHand, None
<1>6. OwnersInv
  BY <1>1, <1>3 DEF OwnersInv, EnvironmentInHand, ApplicationInHand, NothingLeft, Carries, Belongs, None
<1> QED
  BY <1>2, <1>4, <1>5, <1>6 DEF SecretsInv

-----------------------------------------------------------------------------
(* One RemoteSecret is written.                                               *)

\* The write gives nothing to an owner that is being deleted or has gone.
Harmless(o, new) ==
  /\ \A e \in Environments : env[e] \in {"deleting", "gone"} /\ Carries(new, e) => Carries(o, e)
  /\ \A a \in Applications : app[a] \in {"deleting", "gone"} /\ Belongs(new, a) => Belongs(o, a)

LEMMA HarmlessForEnvironment ==
  ASSUME SecretsInv, NEW r \in RemoteSecrets, NEW new, Harmless(rs[r], new),
         rs' = [rs EXCEPT ![r] = new], UNCHANGED env,
         ew'.pc = ew.pc, ew'.key = ew.key, ew'.todo = ew.todo
  PROVE  EnvironmentInHand'
<1>0. \A x \in RemoteSecrets : rs'[x] = IF x = r THEN new ELSE rs[x]
  BY DEF SecretsInv, SecretsTyped
<1> SUFFICES ASSUME ew.pc = "targets" PROVE /\ env[ew.key] = "deleting"
                                            /\ \A x \in RemoteSecrets : Carries(rs'[x], ew.key) => x \in ew.todo
  BY DEF EnvironmentInHand, Carries, Unique
<1>1. ew.key \in Environments /\ env[ew.key] = "deleting"
  BY DEF SecretsInv, SecretsTyped, OwnersInv, EnvironmentInHand
<1>2. \A x \in RemoteSecrets : Carries(rs[x], ew.key) => x \in ew.todo
  BY DEF SecretsInv, OwnersInv, EnvironmentInHand
<1>3. Carries(new, ew.key) => Carries(rs[r], ew.key)
  BY <1>1 DEF Harmless
<1> QED
  BY <1>0, <1>1, <1>2, <1>3

LEMMA HarmlessForApplication ==
  ASSUME SecretsInv, NEW r \in RemoteSecrets, NEW new, Harmless(rs[r], new),
         rs' = [rs EXCEPT ![r] = new], UNCHANGED <<app, aw>>
  PROVE  ApplicationInHand'
<1>0. \A x \in RemoteSecrets : rs'[x] = IF x = r THEN new ELSE rs[x]
  BY DEF SecretsInv, SecretsTyped
<1> SUFFICES ASSUME aw.pc = "secrets" PROVE /\ app[aw.key] = "deleting"
                                            /\ \A x \in RemoteSecrets : Belongs(rs'[x], aw.key) => x \in aw.todo
  BY DEF ApplicationInHand, Belongs
<1>1. aw.key \in Applications /\ app[aw.key] = "deleting"
  BY DEF SecretsInv, SecretsTyped, OwnersInv, ApplicationInHand
<1>2. \A x \in RemoteSecrets : Belongs(rs[x], aw.key) => x \in aw.todo
  BY DEF SecretsInv, OwnersInv, ApplicationInHand
<1>3. Belongs(new, aw.key) => Belongs(rs[r], aw.key)
  BY <1>1 DEF Harmless
<1> QED
  BY <1>0, <1>1, <1>2, <1>3

LEMMA HarmlessLeavesNothing ==
  ASSUME SecretsInv, NEW r \in RemoteSecrets, NEW new, Harmless(rs[r], new),
         rs' = [rs EXCEPT ![r] = new], UNCHANGED <<env, app>>
  PROVE  NothingLeft'
<1>0. \A x \in RemoteSecrets : rs'[x] = IF x = r THEN new ELSE rs[x]
  BY DEF SecretsInv, SecretsTyped
<1>1. ASSUME NEW x \in RemoteSecrets, NEW e \in Environments, env[e] = "gone"
      PROVE  ~Carries(rs'[x], e)
  <2>1. ~Carries(rs[x], e)
    BY <1>1 DEF SecretsInv, OwnersInv, NothingLeft
  <2>2. Carries(new, e) => Carries(rs[r], e)
    BY <1>1 DEF Harmless
  <2> QED
    BY <1>0, <2>1, <2>2
<1>2. ASSUME NEW x \in RemoteSecrets, NEW a \in Applications, app[a] = "gone"
      PROVE  ~Belongs(rs'[x], a)
  <2>1. ~Belongs(rs[x], a)
    BY <1>2 DEF SecretsInv, OwnersInv, NothingLeft
  <2>2. Belongs(new, a) => Belongs(rs[r], a)
    BY <1>2 DEF Harmless
  <2> QED
    BY <1>0, <2>1, <2>2
<1> QED
  BY <1>1, <1>2 DEF NothingLeft, Carries, Belongs, Unique

LEMMA SameForOwners ==
  ASSUME NEW o, NEW new, new.build = o.build, new.st = o.st, new.envs = o.envs, new.app = o.app,
         new.targets \subseteq o.targets
  PROVE  Harmless(o, new)
  BY DEF Harmless, Carries, Belongs

\* A write by a user, by the other operator or by the application controller:
\* it neither touches the condition of the OAuth controller nor labels an object
\* for builds, and what is new has neither condition nor annotation.
ForeignWrite(o, new) ==
  /\ new \in Objects /\ new.st # None /\ Harmless(o, new)
  /\ o.st # None /\ o.build = FALSE => new.build = FALSE
  /\ \/ new.st # "live"
     \/ o.st = "live" /\ new.cond = o.cond
     \/ o.st = None /\ new.url = None /\ new.cond = NoCond

SameOAuthWorker(v, w) ==
  /\ v.pc = w.pc /\ v.key = w.key /\ v.obj = w.obj /\ v.base = w.base /\ v.moved = w.moved
  /\ v.cond = w.cond /\ v.again = w.again
SameEnvWorker(v, w) == v.pc = w.pc /\ v.key = w.key /\ v.todo = w.todo /\ v.list = w.list

\* Marking the copies of the workers as outdated leaves the workers as they are.
LEMMA OutdatedWorkers ==
  ASSUME SecretsTyped, NEW r \in RemoteSecrets, NEW new
  PROVE  /\ OutdatedOAuth(r, new) \in OAuthWorkers /\ OutdatedEnv(r, new) \in EnvWorkers
         /\ SameOAuthWorker(OutdatedOAuth(r, new), ow)
         /\ OutdatedOAuth(r, new).stale = FALSE =>
              ow.stale = FALSE /\ (ow.key = r => new = rs[r])
         /\ SameEnvWorker(OutdatedEnv(r, new), ew)
         /\ OutdatedEnv(r, new).stale = IF new # rs[r] THEN ew.stale \cup {r} ELSE ew.stale
<1>1. ow \in OAuthWorkers /\ ew \in EnvWorkers
  BY DEF SecretsTyped
<1>2. OutdatedOAuth(r, new) \in OAuthWorkers
  <2> DEFINE b == ow.stale \/ (ow.key = r /\ new # rs[r])
  <2>1. OutdatedOAuth(r, new) = [ow EXCEPT !.stale = b]
    BY DEF OutdatedOAuth
  <2>2. b \in BOOLEAN
    OBVIOUS
  <2> HIDE DEF b
  <2> QED
    BY <1>1, <2>1, <2>2 DEF OAuthWorkers
<1>3. SameOAuthWorker(OutdatedOAuth(r, new), ow)
  BY <1>1 DEF OAuthWorkers, OutdatedOAuth, SameOAuthWorker
<1>4. ASSUME OutdatedOAuth(r, new).stale = FALSE
      PROVE  ow.stale = FALSE /\ (ow.key = r => new = rs[r])
  BY <1>1, <1>4 DEF OAuthWorkers, OutdatedOAuth
<1>5. /\ OutdatedEnv(r, new) \in EnvWorkers
      /\ SameEnvWorker(OutdatedEnv(r, new), ew)
      /\ OutdatedEnv(r, new).stale = IF new # rs[r] THEN ew.stale \cup {r} ELSE ew.stale
  BY <1>1 DEF EnvWorkers, OutdatedEnv, SameEnvWorker
<1> QED
  BY <1>2, <1>3, <1>4, <1>5

LEMMA PutTyped ==
  ASSUME SecretsInv, NEW r \in RemoteSecrets, NEW new, ForeignWrite(rs[r], new), Put(r, new),
         UNCHANGED <<env, app, eq>>, budget' \in Budgets, aq' \subseteq Applications, aw' \in AppWorkers,
         aw'.pc # "idle" => aw'.key \in Applications, aw'.todo \subseteq aw.todo
  PROVE  SecretsTyped' /\ Existed' /\ CopiesCurrent'
<1> DEFINE o == OutdatedOAuth(r, new)
           e == OutdatedEnv(r, new)
<1>1. ow' = o /\ ew' = e /\ rs' = [rs EXCEPT ![r] = new] /\ oq' = OAuthQueue(r, new)
  BY DEF Put
<1>2. SecretsTyped /\ new \in Objects
  BY DEF SecretsInv, ForeignWrite
<1>3. /\ o \in OAuthWorkers /\ e \in EnvWorkers
      /\ SameOAuthWorker(o, ow) /\ SameEnvWorker(e, ew)
      /\ o.stale = FALSE => ow.stale = FALSE /\ (ow.key = r => new = rs[r])
      /\ e.stale = IF new # rs[r] THEN ew.stale \cup {r} ELSE ew.stale
  BY <1>2, OutdatedWorkers
<1> HIDE DEF o, e
<1> USE DEF SameOAuthWorker, SameEnvWorker
<1>4. \A x \in RemoteSecrets : rs'[x] = IF x = r THEN new ELSE rs[x]
  BY <1>1, <1>2 DEF SecretsTyped
<1>5. SecretsTyped'
  <2>1. rs' \in [RemoteSecrets -> Objects] /\ oq' \subseteq RemoteSecrets
    BY <1>1, <1>2 DEF SecretsTyped, OAuthQueue
  <2> QED
    BY <1>1, <1>2, <1>3, <2>1 DEF SecretsTyped
<1>6. Existed'
  <2>1. new.st # None /\ (rs[r].st # None /\ rs[r].build = FALSE => new.build = FALSE)
    BY DEF ForeignWrite
  <2>2. ow.pc # "idle" => ow.key \in RemoteSecrets /\ rs[ow.key].st # None
    BY DEF SecretsInv, Existed, SecretsTyped
  <2>3. \A x \in ew.todo \cup aw.todo : x \in RemoteSecrets /\ rs[x].build = FALSE /\ rs[x].st # None
    BY DEF SecretsInv, Existed, SecretsTyped, EnvWorkers, AppWorkers
  <2>4. \A x \in RemoteSecrets : rs[x].st = None => rs[x] = Absent(None)
    BY DEF SecretsInv, Existed
  <2>5. ow'.pc # "idle" => rs'[ow'.key].st # None
    BY <1>1, <1>3, <1>4, <2>1, <2>2
  <2>6. \A x \in ew'.todo \cup aw'.todo : rs'[x].build = FALSE /\ rs'[x].st # None
    BY <1>1, <1>3, <1>4, <2>1, <2>3
  <2>7. \A x \in RemoteSecrets : rs'[x].st = None => rs'[x] = Absent(None)
    BY <1>4, <2>1, <2>4
  <2> QED
    BY <2>5, <2>6, <2>7 DEF Existed
<1>7. CopiesCurrent'
  <2>1. ow'.pc # "idle" /\ ow'.stale = FALSE => ow'.obj = rs'[ow'.key]
    BY <1>1, <1>3, <1>4 DEF SecretsInv, CopiesCurrent, SecretsTyped
  <2>2. ASSUME NEW x \in ew'.todo \ ew'.stale PROVE ew'.list[x] = rs'[x]
    <3>1. x \in ew.todo \ ew.stale /\ x \in RemoteSecrets /\ (x = r => new = rs[r])
      BY <1>1, <1>2, <1>3, <2>2 DEF SecretsTyped, EnvWorkers
    <3>2. ew.list[x] = rs[x]
      BY <3>1 DEF SecretsInv, CopiesCurrent
    <3> QED
      BY <1>1, <1>3, <1>4, <3>1, <3>2
  <2> QED
    BY <2>1, <2>2 DEF CopiesCurrent
<1> QED
  BY <1>5, <1>6, <1>7

LEMMA PutOAuth ==
  ASSUME SecretsInv, NEW r \in RemoteSecrets, NEW new, ForeignWrite(rs[r], new),
         rs' = [rs EXCEPT ![r] = new], oq' = OAuthQueue(r, new), ow' = OutdatedOAuth(r, new),
         budget.restarted = TRUE => budget'.restarted = TRUE
  PROVE  OAuthInv'
<1> DEFINE o == OutdatedOAuth(r, new)
<1>1. ow' = o /\ rs' = [rs EXCEPT ![r] = new] /\ oq' = OAuthQueue(r, new)
  OBVIOUS
<1>2. SecretsTyped /\ Existed /\ NoneForgotten /\ InHand
  BY DEF SecretsInv, OAuthInv
<1>3. o.pc = ow.pc /\ o.key = ow.key /\ o.obj = ow.obj /\ o.base = ow.base /\ o.cond = ow.cond
      /\ o.again = ow.again
  BY <1>2, OutdatedWorkers DEF SameOAuthWorker, SameEnvWorker
<1> HIDE DEF o
<1>4. \A x \in RemoteSecrets : rs'[x] = IF x = r THEN new ELSE rs[x]
  BY <1>1, <1>2 DEF SecretsTyped
<1>5. oq \subseteq oq'
  BY <1>1 DEF OAuthQueue
<1>6. r \notin oq' /\ rs[r].st # None => new.host = rs[r].host /\ new.url = rs[r].url
  BY <1>1 DEF OAuthQueue, OAuthWakes
<1>7. r \notin oq' /\ rs[r].st = None => new.host = None
  BY <1>1 DEF OAuthQueue, OAuthWakes
<1>8. \/ new.st # "live"
      \/ rs[r].st = "live" /\ new.cond = rs[r].cond
      \/ rs[r].st = None /\ new.url = None /\ new.cond = NoCond
  BY DEF ForeignWrite
<1>9. NoneForgotten'
  <2> SUFFICES ASSUME NEW x \in RemoteSecrets, rs'[x].st = "live", x \notin oq', ow'.pc = "idle" \/ ow'.key # x
               PROVE  \/ rs'[x].host = None /\ budget'.restarted = TRUE
                      \/ AsWanted(rs'[x].cond, rs'[x].host, rs'[x].url)
    BY DEF NoneForgotten, AsWanted, Settles
  <2>1. rs[x].st = "live" => \/ rs[x].host = None /\ budget.restarted = TRUE
                             \/ AsWanted(rs[x].cond, rs[x].host, rs[x].url)
    BY <1>1, <1>2, <1>3, <1>5 DEF NoneForgotten
  <2>2. CASE x # r
    BY <1>4, <2>1, <2>2
  <2>3. CASE x = r /\ rs[r].st = "live"
    BY <1>4, <1>6, <1>8, <2>1, <2>3 DEF None
  <2>4. CASE x = r /\ rs[r].st # "live"
    BY <1>4, <1>7, <1>8, <2>4 DEF AsWanted
  <2> QED
    BY <2>2, <2>3, <2>4
<1>10. InHand'
  <2> SUFFICES ASSUME ow'.pc # "idle", ow'.key \notin oq', rs'[ow'.key].st = "live"
               PROVE  /\ rs'[ow'.key].host = ow'.obj.host /\ rs'[ow'.key].url = ow'.obj.url
                      /\ rs'[ow'.key].cond = ow'.base.cond
                      /\ OnTheWay(ow')
    BY DEF InHand, OnTheWay, Settles
  <2>1. ow.key \in RemoteSecrets /\ rs[ow.key].st # None
    BY <1>1, <1>2, <1>3 DEF SecretsTyped, Existed
  <2>2. rs[ow.key].st = "live"
    BY <1>1, <1>3, <1>4, <1>8, <2>1
  <2>3. /\ rs[ow.key].host = ow.obj.host /\ rs[ow.key].url = ow.obj.url /\ rs[ow.key].cond = ow.base.cond
        /\ OnTheWay(ow)
    BY <1>1, <1>2, <1>3, <1>5, <2>2 DEF InHand
  <2>4. OnTheWay(ow')
    BY <1>1, <1>3, <2>3 DEF OnTheWay
  <2>5. rs'[ow.key].host = rs[ow.key].host /\ rs'[ow.key].url = rs[ow.key].url
        /\ rs'[ow.key].cond = rs[ow.key].cond
    BY <1>1, <1>3, <1>4, <1>6, <1>8, <2>1, <2>2 DEF None
  <2> QED
    BY <1>1, <1>3, <2>3, <2>4, <2>5
<1> QED
  BY <1>9, <1>10 DEF OAuthInv

LEMMA PutKeepsAll ==
  ASSUME SecretsInv, NEW r \in RemoteSecrets, NEW new, ForeignWrite(rs[r], new), Put(r, new),
         UNCHANGED <<env, app, eq, aq, aw>>, budget' \in Budgets,
         budget.restarted = TRUE => budget'.restarted = TRUE
  PROVE  SecretsInv'
<1>1. SecretsTyped' /\ Existed' /\ CopiesCurrent'
  BY PutTyped DEF SecretsInv, SecretsTyped
<1>2. OAuthInv'
  BY PutOAuth DEF Put
<1>3. OwnersInv'
  <2>1. ew'.pc = ew.pc /\ ew'.key = ew.key /\ ew'.todo = ew.todo
    BY OutdatedWorkers DEF SecretsInv, Put, SameEnvWorker
  <2> QED
    BY <2>1, HarmlessForEnvironment, HarmlessForApplication, HarmlessLeavesNothing
       DEF Put, ForeignWrite, OwnersInv
<1> QED
  BY <1>1, <1>2, <1>3 DEF SecretsInv

-----------------------------------------------------------------------------
(* The users and the other operator.                                          *)

LEMMA SpendOps ==
  ASSUME SecretsTyped, NEW op, UserOp(op)
  PROVE  budget' \in Budgets /\ budget'.restarted = budget.restarted
<1>1. budget \in Budgets /\ budget.ops > 0 /\ budget' = [budget EXCEPT !.ops = @ - 1]
  BY DEF SecretsTyped, UserOp
<1>2. budget.ops \in 0..MaxOps /\ MaxOps \in Nat
  BY <1>1, RemoteSecretConstants DEF Budgets
<1>3. budget.ops - 1 \in 0..MaxOps
  BY <1>1, <1>2
<1> QED
  BY <1>1, <1>3 DEF Budgets

LEMMA SpendFaults ==
  ASSUME SecretsTyped, Fault \/ NoFault
  PROVE  budget' \in Budgets /\ budget'.restarted = budget.restarted
<1>1. CASE NoFault
  BY <1>1 DEF NoFault, SecretsTyped
<1>2. CASE Fault
  <2>1. budget \in Budgets /\ budget.faults > 0 /\ budget' = [budget EXCEPT !.faults = @ - 1]
    BY <1>2 DEF SecretsTyped, Fault
  <2>2. budget.faults \in 0..MaxFaults /\ MaxFaults \in Nat
    BY <2>1, RemoteSecretConstants DEF Budgets
  <2>3. budget.faults - 1 \in 0..MaxFaults
    BY <2>1, <2>2
  <2> QED
    BY <2>1, <2>3 DEF Budgets
<1> QED
  BY <1>1, <1>2

LEMMA NewRemoteSecret ==
  ASSUME NEW t \in Templates
  PROVE  LET new == [t EXCEPT !.targets = {Target[e] : e \in t.envs}]
         IN /\ new \in Objects /\ new.st = "live" /\ new.url = None /\ new.cond = NoCond
            /\ new.app = t.app /\ new.envs = t.envs
<1> DEFINE a == Absent("live")
           T == {Target[e] : e \in Environments}
           tt == {Target[e] : e \in t.envs}
<1>1. a \in Objects /\ a.st = "live" /\ a.url = None /\ a.cond = NoCond
  BY SmallTypes DEF Absent
<1>2. /\ t = [a EXCEPT !.host = t.host, !.app = t.app, !.envs = t.envs, !.build = t.build]
      /\ t.host \in Hosts \cup {None} /\ t.app \in Applications \cup {None}
      /\ t.envs \subseteq Environments /\ t.build \in BOOLEAN
  BY RemoteSecretConstants
<1> HIDE DEF a
<1>3. t \in Objects /\ t.st = "live" /\ t.url = None /\ t.cond = NoCond
  BY <1>1, <1>2 DEF Objects
<1>4. tt \in SUBSET T
  BY <1>2
<1> HIDE DEF tt, T
<1>5. [t EXCEPT !.targets = tt] \in Objects
  BY <1>3, <1>4 DEF Objects, T
<1>6. /\ [t EXCEPT !.targets = tt].st = "live" /\ [t EXCEPT !.targets = tt].url = None
      /\ [t EXCEPT !.targets = tt].cond = NoCond
      /\ [t EXCEPT !.targets = tt].app = t.app /\ [t EXCEPT !.targets = tt].envs = t.envs
  BY <1>3 DEF Objects
<1> QED
  BY <1>5, <1>6 DEF tt

LEMMA CreateSecret == SecretsInv /\ CreateRemoteSecret => SecretsInv'
<1> SUFFICES ASSUME SecretsInv, CreateRemoteSecret PROVE SecretsInv'
  OBVIOUS
<1>1. PICK r \in RemoteSecrets, t \in Templates :
        /\ rs[r].st = None
        /\ t.app # None => app[t.app] \in {"new", "live"}
        /\ \A e \in t.envs : env[e] \in {"new", "live"}
        /\ Put(r, [t EXCEPT !.targets = {Target[e] : e \in t.envs}])
  BY DEF CreateRemoteSecret
<1> DEFINE new == [t EXCEPT !.targets = {Target[e] : e \in t.envs}]
<1>2. Put(r, new)
  BY <1>1
<1>3. /\ new \in Objects /\ new.st = "live" /\ new.url = None /\ new.cond = NoCond
      /\ new.app = t.app /\ new.envs = t.envs
  BY NewRemoteSecret
<1> HIDE DEF new
<1>4. Harmless(rs[r], new)
  BY <1>1, <1>3, RemoteSecretConstants DEF Harmless, Carries, Belongs
<1>5. ForeignWrite(rs[r], new)
  BY <1>1, <1>3, <1>4 DEF ForeignWrite, None
<1>6. budget' \in Budgets /\ budget'.restarted = budget.restarted
  BY SpendOps DEF CreateRemoteSecret, SecretsInv
<1> QED
  BY <1>2, <1>5, <1>6, PutKeepsAll DEF CreateRemoteSecret

\* A user or the other operator changes one field of a live RemoteSecret.
LEMMA ChangeSecret ==
  ASSUME SecretsInv, NEW r \in RemoteSecrets, NEW new \in Objects, rs[r].st = "live", Put(r, new),
         new.st = "live", new.cond = rs[r].cond, new.build = rs[r].build, new.app = rs[r].app,
         \A e \in new.envs \ rs[r].envs : env[e] \in {"new", "live"},
         \A t \in new.targets \ rs[r].targets :
            \E e \in Environments : env[e] \in {"new", "live"} /\ Target[e] = t,
         UNCHANGED <<env, app, eq, aq, aw>>, budget' \in Budgets, budget'.restarted = budget.restarted
  PROVE  SecretsInv'
<1>1. ASSUME NEW e \in Environments, env[e] \in {"deleting", "gone"}, Carries(new, e)
      PROVE  Carries(rs[r], e)
  <2>1. e \in new.envs /\ Target[e] \in new.targets /\ Unique(e) /\ rs[r].build = FALSE
    BY <1>1 DEF Carries
  <2>2. e \in rs[r].envs
    BY <1>1, <2>1
  <2>3. Target[e] \in rs[r].targets
    <3> SUFFICES ASSUME Target[e] \notin rs[r].targets PROVE FALSE
      OBVIOUS
    <3>1. PICK f \in Environments : env[f] \in {"new", "live"} /\ Target[f] = Target[e]
      BY <2>1
    <3> QED
      BY <1>1, <2>1, <3>1 DEF Unique
  <2> QED
    BY <2>1, <2>2, <2>3 DEF Carries
<1>2. ForeignWrite(rs[r], new)
  BY <1>1 DEF ForeignWrite, Harmless, Belongs, None
<1> QED
  BY <1>2, PutKeepsAll

LEMMA SetHostSecret == SecretsInv /\ SetHost => SecretsInv'
<1> SUFFICES ASSUME SecretsInv, SetHost PROVE SecretsInv'
  OBVIOUS
<1>1. PICK r \in RemoteSecrets, h \in Hosts \cup {None} :
        rs[r].st = "live" /\ Put(r, [rs[r] EXCEPT !.host = h])
  BY DEF SetHost
<1> DEFINE new == [rs[r] EXCEPT !.host = h]
<1>2. rs[r] \in Objects
  BY DEF SecretsInv, SecretsTyped
<1>3. /\ new \in Objects /\ new.st = "live" /\ new.cond = rs[r].cond /\ new.build = rs[r].build
      /\ new.app = rs[r].app /\ new.envs = rs[r].envs /\ new.targets = rs[r].targets
  BY <1>1, <1>2 DEF Objects
<1>4. Put(r, new)
  BY <1>1
<1> HIDE DEF new
<1>5. budget' \in Budgets /\ budget'.restarted = budget.restarted
  BY SpendOps DEF SetHost, SecretsInv
<1>6. UNCHANGED <<env, app, eq, aq, aw>>
  BY DEF SetHost
<1>7. (\A e \in new.envs \ rs[r].envs : env[e] \in {"new", "live"}) /\ new.targets \ rs[r].targets = {}
  BY <1>3
<1> QED
  BY <1>1, <1>3, <1>4, <1>5, <1>6, <1>7, ChangeSecret

LEMMA SetUrlSecret == SecretsInv /\ SetUrl => SecretsInv'
<1> SUFFICES ASSUME SecretsInv, SetUrl PROVE SecretsInv'
  OBVIOUS
<1>1. PICK r \in RemoteSecrets : rs[r].st = "live" /\ Put(r, [rs[r] EXCEPT !.url = None])
  BY DEF SetUrl
<1> DEFINE new == [rs[r] EXCEPT !.url = None]
<1>2. rs[r] \in Objects
  BY DEF SecretsInv, SecretsTyped
<1>3. /\ new \in Objects /\ new.st = "live" /\ new.cond = rs[r].cond /\ new.build = rs[r].build
      /\ new.app = rs[r].app /\ new.envs = rs[r].envs /\ new.targets = rs[r].targets
  BY <1>1, <1>2 DEF Objects
<1>4. Put(r, new)
  BY <1>1
<1> HIDE DEF new
<1>5. budget' \in Budgets /\ budget'.restarted = budget.restarted
  BY SpendOps DEF SetUrl, SecretsInv
<1>6. UNCHANGED <<env, app, eq, aq, aw>>
  BY DEF SetUrl
<1>7. (\A e \in new.envs \ rs[r].envs : env[e] \in {"new", "live"}) /\ new.targets \ rs[r].targets = {}
  BY <1>3
<1> QED
  BY <1>1, <1>3, <1>4, <1>5, <1>6, <1>7, ChangeSecret

LEMMA DataSecret == SecretsInv /\ DataObtained => SecretsInv'
<1> SUFFICES ASSUME SecretsInv, DataObtained PROVE SecretsInv'
  OBVIOUS
<1>1. PICK r \in RemoteSecrets : rs[r].st = "live" /\ Put(r, [rs[r] EXCEPT !.data = TRUE])
  BY DEF DataObtained
<1> DEFINE new == [rs[r] EXCEPT !.data = TRUE]
<1>2. rs[r] \in Objects
  BY DEF SecretsInv, SecretsTyped
<1>3. /\ new \in Objects /\ new.st = "live" /\ new.cond = rs[r].cond /\ new.build = rs[r].build
      /\ new.app = rs[r].app /\ new.envs = rs[r].envs /\ new.targets = rs[r].targets
  BY <1>1, <1>2 DEF Objects
<1>4. Put(r, new)
  BY <1>1
<1> HIDE DEF new
<1>5. budget' \in Budgets /\ budget'.restarted = budget.restarted
  BY SpendOps DEF DataObtained, SecretsInv
<1>6. UNCHANGED <<env, app, eq, aq, aw>>
  BY DEF DataObtained
<1>7. (\A e \in new.envs \ rs[r].envs : env[e] \in {"new", "live"}) /\ new.targets \ rs[r].targets = {}
  BY <1>3
<1> QED
  BY <1>1, <1>3, <1>4, <1>5, <1>6, <1>7, ChangeSecret

LEMMA AddEnvironmentSecret == SecretsInv /\ AddEnvironment => SecretsInv'
<1> SUFFICES ASSUME SecretsInv, AddEnvironment PROVE SecretsInv'
  OBVIOUS
<1>1. PICK r \in RemoteSecrets, e \in Environments :
        /\ rs[r].st = "live" /\ env[e] \in {"new", "live"}
        /\ Put(r, [rs[r] EXCEPT !.envs = @ \cup {e}, !.targets = @ \cup {Target[e]}])
  BY DEF AddEnvironment
<1> DEFINE new == [rs[r] EXCEPT !.envs = @ \cup {e}, !.targets = @ \cup {Target[e]}]
           T == {Target[f] : f \in Environments}
<1>2. rs[r] \in Objects
  BY DEF SecretsInv, SecretsTyped
<1>3. rs[r].targets \cup {Target[e]} \in SUBSET T /\ rs[r].envs \cup {e} \in SUBSET Environments
  BY <1>2 DEF Objects
<1>4. /\ new.st = "live" /\ new.cond = rs[r].cond /\ new.build = rs[r].build
      /\ new.app = rs[r].app /\ new.envs = rs[r].envs \cup {e}
      /\ new.targets = rs[r].targets \cup {Target[e]}
  BY <1>1, <1>2 DEF Objects
<1>5. new \in Objects
  BY <1>2, <1>3 DEF Objects
<1>6. Put(r, new)
  BY <1>1
<1> HIDE DEF new
<1>7. budget' \in Budgets /\ budget'.restarted = budget.restarted
  BY SpendOps DEF AddEnvironment, SecretsInv
<1>8. UNCHANGED <<env, app, eq, aq, aw>>
  BY DEF AddEnvironment
<1>9. /\ \A f \in new.envs \ rs[r].envs : env[f] \in {"new", "live"}
      /\ \A t \in new.targets \ rs[r].targets :
           \E f \in Environments : env[f] \in {"new", "live"} /\ Target[f] = t
  BY <1>1, <1>4
<1> QED
  BY <1>1, <1>4, <1>5, <1>6, <1>7, <1>8, <1>9, ChangeSecret

LEMMA GoneSecret == SecretsInv /\ RemoteSecretGone => SecretsInv'
<1> SUFFICES ASSUME SecretsInv, RemoteSecretGone PROVE SecretsInv'
  OBVIOUS
<1>1. PICK r \in RemoteSecrets : Put(r, Absent("gone"))
  BY DEF RemoteSecretGone
<1>2. Absent("gone") \in Objects /\ Absent("gone").st = "gone" /\ Absent("gone").build = FALSE
  BY SmallTypes DEF Absent
<1>3. ForeignWrite(rs[r], Absent("gone"))
  BY <1>2 DEF ForeignWrite, Harmless, Carries, Belongs, None
<1>4. budget' \in Budgets /\ budget' = budget
  BY DEF RemoteSecretGone, SecretsInv, SecretsTyped
<1> QED
  BY <1>1, <1>3, <1>4, PutKeepsAll DEF RemoteSecretGone

-----------------------------------------------------------------------------
(* Deleted owners, restarts and stuttering.                                   *)

LEMMA OAuthFrame ==
  ASSUME SecretsInv, UNCHANGED <<rs, oq, ow>>, budget'.restarted = budget.restarted
  PROVE  OAuthInv'
  BY DEF SecretsInv, OAuthInv, NoneForgotten, InHand, AsWanted, OnTheWay, Settles

LEMMA DeleteEnvironmentSecret == SecretsInv /\ DeleteEnvironment => SecretsInv'
<1> SUFFICES ASSUME SecretsInv, DeleteEnvironment PROVE SecretsInv'
  OBVIOUS
<1>1. PICK e \in Environments :
        /\ env[e] \in {"new", "live"}
        /\ env' = [env EXCEPT ![e] = Deleted(env[e])] /\ eq' = eq \cup {e}
  BY DEF DeleteEnvironment
<1>2. UNCHANGED <<rs, app, oq, aq, ow, ew, aw>>
  BY DEF DeleteEnvironment, workers
<1>3. budget' \in Budgets /\ budget'.restarted = budget.restarted
  BY SpendOps DEF DeleteEnvironment, SecretsInv
<1>4. Deleted(env[e]) \in {"unseen", "deleting"}
  BY DEF Deleted
<1>5. \A f \in Environments : env'[f] = IF f = e THEN Deleted(env[e]) ELSE env[f]
  BY <1>1 DEF SecretsInv, SecretsTyped
<1>6. SecretsTyped'
  <2>1. env' \in [Environments -> OwnerStates] /\ eq' \subseteq Environments
    BY <1>1, <1>4 DEF SecretsInv, SecretsTyped, OwnerStates
  <2> QED
    BY <1>2, <1>3, <2>1 DEF SecretsInv, SecretsTyped
<1>7. Existed' /\ CopiesCurrent'
  BY <1>2 DEF SecretsInv, Existed, CopiesCurrent
<1>8. OAuthInv'
  BY <1>2, <1>3, OAuthFrame
<1>9. EnvironmentInHand'
  BY <1>1, <1>2, <1>5 DEF SecretsInv, SecretsTyped, OwnersInv, EnvironmentInHand, Carries, Unique
<1>10. ApplicationInHand'
  BY <1>2 DEF SecretsInv, OwnersInv, ApplicationInHand, Belongs
<1>11. NothingLeft'
  BY <1>2, <1>4, <1>5 DEF SecretsInv, OwnersInv, NothingLeft, Carries, Belongs, Unique
<1> QED
  BY <1>6, <1>7, <1>8, <1>9, <1>10, <1>11 DEF SecretsInv, OwnersInv

LEMMA DeleteApplicationSecret == SecretsInv /\ DeleteApplication => SecretsInv'
<1> SUFFICES ASSUME SecretsInv, DeleteApplication PROVE SecretsInv'
  OBVIOUS
<1>1. PICK a \in Applications :
        /\ app[a] \in {"new", "live"}
        /\ app' = [app EXCEPT ![a] = Deleted(app[a])] /\ aq' = aq \cup {a}
  BY DEF DeleteApplication
<1>2. UNCHANGED <<rs, env, oq, eq, ow, ew, aw>>
  BY DEF DeleteApplication, workers
<1>3. budget' \in Budgets /\ budget'.restarted = budget.restarted
  BY SpendOps DEF DeleteApplication, SecretsInv
<1>4. Deleted(app[a]) \in {"unseen", "deleting"}
  BY DEF Deleted
<1>5. \A b \in Applications : app'[b] = IF b = a THEN Deleted(app[a]) ELSE app[b]
  BY <1>1 DEF SecretsInv, SecretsTyped
<1>6. SecretsTyped'
  <2>1. app' \in [Applications -> OwnerStates] /\ aq' \subseteq Applications
    BY <1>1, <1>4 DEF SecretsInv, SecretsTyped, OwnerStates
  <2> QED
    BY <1>2, <1>3, <2>1 DEF SecretsInv, SecretsTyped
<1>7. Existed' /\ CopiesCurrent'
  BY <1>2 DEF SecretsInv, Existed, CopiesCurrent
<1>8. OAuthInv'
  BY <1>2, <1>3, OAuthFrame
<1>9. EnvironmentInHand'
  BY <1>2 DEF SecretsInv, OwnersInv, EnvironmentInHand, Carries, Unique
<1>10. ApplicationInHand'
  BY <1>1, <1>2, <1>5 DEF SecretsInv, SecretsTyped, OwnersInv, ApplicationInHand, Belongs
<1>11. NothingLeft'
  BY <1>2, <1>4, <1>5 DEF SecretsInv, OwnersInv, NothingLeft, Carries, Belongs, Unique
<1> QED
  BY <1>6, <1>7, <1>8, <1>9, <1>10, <1>11 DEF SecretsInv, OwnersInv

LEMMA RestartSecret == SecretsInv /\ Restart => SecretsInv'
<1> SUFFICES ASSUME SecretsInv, Restart PROVE SecretsInv'
  OBVIOUS
<1>1. /\ ow' = IdleOAuth /\ ew' = IdleEnv /\ aw' = IdleApp /\ UNCHANGED <<rs, env, app>>
      /\ oq' = {r \in RemoteSecrets : Present(r) /\ rs[r].host # None}
      /\ eq' \subseteq Environments /\ aq' \subseteq Applications
  BY DEF Restart
<1>2. budget' \in Budgets /\ budget'.restarted = TRUE
  <2>1. budget \in Budgets /\ budget.ops > 0
        /\ budget' = [budget EXCEPT !.ops = budget.ops - 1, !.restarted = TRUE]
    BY DEF SecretsInv, SecretsTyped, Restart
  <2>2. budget.ops \in 0..MaxOps /\ MaxOps \in Nat
    BY <2>1, RemoteSecretConstants DEF Budgets
  <2>3. budget.ops - 1 \in 0..MaxOps
    BY <2>1, <2>2
  <2> QED
    BY <2>1, <2>3 DEF Budgets
<1>3. SecretsTyped'
  BY <1>1, <1>2, SmallTypes DEF SecretsInv, SecretsTyped
<1>4. Existed' /\ CopiesCurrent'
  BY <1>1, SmallTypes DEF SecretsInv, Existed, CopiesCurrent
<1>5. InHand' /\ EnvironmentInHand' /\ ApplicationInHand'
  BY <1>1, SmallTypes DEF InHand, EnvironmentInHand, ApplicationInHand
<1>6. NoneForgotten'
  BY <1>1, <1>2 DEF NoneForgotten, Present
<1>7. NothingLeft'
  BY <1>1 DEF SecretsInv, OwnersInv, NothingLeft, Carries, Belongs, Unique
<1> QED
  BY <1>3, <1>4, <1>5, <1>6, <1>7 DEF SecretsInv, OwnersInv, OAuthInv

LEMMA StutterSecret == SecretsInv /\ UNCHANGED vars => SecretsInv'
<1> SUFFICES ASSUME SecretsInv, UNCHANGED vars PROVE SecretsInv'
  OBVIOUS
<1>1. UNCHANGED <<rs, env, app, oq, eq, aq, ow, ew, aw, budget>>
  BY DEF vars, queues, workers
<1>2. SecretsTyped' /\ Existed' /\ CopiesCurrent'
  BY <1>1 DEF SecretsInv, SecretsTyped, Existed, CopiesCurrent
<1>3. OAuthInv'
  BY <1>1, OAuthFrame
<1>4. OwnersInv'
  BY <1>1 DEF SecretsInv, OwnersInv, EnvironmentInHand, ApplicationInHand, NothingLeft, Carries, Belongs, Unique
<1> QED
  BY <1>2, <1>3, <1>4 DEF SecretsInv

-----------------------------------------------------------------------------
(* The environment controller.                                                *)

LEMMA EnvGetSecret == SecretsInv /\ EnvGet => SecretsInv'
<1> SUFFICES ASSUME SecretsInv, EnvGet PROVE SecretsInv'
  OBVIOUS
<1>1. PICK e \in eq :
        /\ eq' = eq \ {e}
        /\ ew' = IF env[e] \notin {"new", "deleting"} THEN IdleEnv
                 ELSE [IdleEnv EXCEPT
                         !.pc = IF env[e] = "new" THEN "adopt" ELSE "targets", !.key = e, !.list = rs,
                         !.todo = {r \in RemoteSecrets : /\ env[e] = "deleting" /\ Listed(r)
                                                         /\ applicableForEnvironment(rs[r], e)}]
  BY DEF EnvGet
<1>2. UNCHANGED <<rs, env, app, oq, aq, ow, aw, budget>>
  BY DEF EnvGet
<1>3. e \in Environments /\ rs \in [RemoteSecrets -> Objects]
  BY DEF SecretsInv, SecretsTyped
<1> DEFINE todo == {r \in RemoteSecrets : /\ env[e] = "deleting" /\ Listed(r)
                                          /\ applicableForEnvironment(rs[r], e)}
           pc == IF env[e] = "new" THEN "adopt" ELSE "targets"
<1>4. \A r \in todo : rs[r].build = FALSE /\ rs[r].st # None
  BY <1>3 DEF Listed, Present, Objects, None
<1>5. \A r \in RemoteSecrets : env[e] = "deleting" /\ Carries(rs[r], e) => r \in todo
  BY DEF Carries, Listed, Present, applicableForEnvironment
<1>6. todo \subseteq RemoteSecrets
  OBVIOUS
<1>7. \/ ew' = IdleEnv
      \/ /\ env[e] \in {"new", "deleting"}
         /\ ew' = [IdleEnv EXCEPT !.pc = pc, !.key = e, !.list = rs, !.todo = todo]
  BY <1>1
<1>8. pc \in {"adopt", "targets"} /\ (env[e] \in {"new", "deleting"} /\ pc = "targets" => env[e] = "deleting")
  OBVIOUS
<1> HIDE DEF todo, pc
<1>9. /\ ew' \in EnvWorkers
      /\ \/ ew'.pc = "idle" /\ ew'.todo = {}
         \/ /\ env[e] \in {"new", "deleting"} /\ ew'.pc = pc /\ ew'.key = e /\ ew'.list = rs /\ ew'.todo = todo
  <2>1. CASE ew' = IdleEnv
    BY <2>1, SmallTypes
  <2>2. CASE /\ env[e] \in {"new", "deleting"}
             /\ ew' = [IdleEnv EXCEPT !.pc = pc, !.key = e, !.list = rs, !.todo = todo]
    BY <2>2, <1>3, <1>6, <1>8, SmallTypes DEF EnvWorkers
  <2> QED
    BY <1>7, <2>1, <2>2
<1>10. SecretsTyped'
  BY <1>1, <1>2, <1>3, <1>9 DEF SecretsInv, SecretsTyped
<1>11. Existed' /\ CopiesCurrent'
  BY <1>2, <1>4, <1>9 DEF SecretsInv, Existed, CopiesCurrent
<1>12. OAuthInv'
  BY <1>2, OAuthFrame
<1>13. EnvironmentInHand'
  <2> SUFFICES ASSUME ew'.pc = "targets"
               PROVE  env[ew'.key] = "deleting" /\ \A r \in RemoteSecrets : Carries(rs[r], ew'.key) => r \in ew'.todo
    BY <1>2 DEF EnvironmentInHand, Carries, Unique
  <2> QED
    BY <1>5, <1>8, <1>9
<1>14. ApplicationInHand' /\ NothingLeft'
  BY <1>2 DEF SecretsInv, OwnersInv, ApplicationInHand, NothingLeft, Carries, Belongs, Unique
<1> QED
  BY <1>10, <1>11, <1>12, <1>13, <1>14 DEF SecretsInv, OwnersInv

LEMMA EnvIdle ==
  ASSUME SecretsInv, UNCHANGED <<rs, env, app, oq, aq, ow, aw>>, ew' = IdleEnv, eq' \subseteq Environments,
         Fault \/ NoFault
  PROVE  SecretsInv'
<1>1. budget' \in Budgets /\ budget'.restarted = budget.restarted
  BY SpendFaults DEF SecretsInv
<1>2. SecretsTyped'
  BY <1>1, SmallTypes DEF SecretsInv, SecretsTyped
<1>3. Existed' /\ CopiesCurrent'
  BY SmallTypes DEF SecretsInv, Existed, CopiesCurrent
<1>4. OAuthInv'
  BY <1>1, OAuthFrame
<1>5. EnvironmentInHand'
  BY SmallTypes DEF EnvironmentInHand
<1>6. ApplicationInHand' /\ NothingLeft'
  BY DEF SecretsInv, OwnersInv, ApplicationInHand, NothingLeft, Carries, Belongs, Unique
<1> QED
  BY <1>2, <1>3, <1>4, <1>5, <1>6 DEF SecretsInv, OwnersInv

\* The update of one listed RemoteSecret, whose listed copy is still current.
LEMMA RemoveTarget ==
  ASSUME SecretsInv, ew.pc = "targets", NEW r \in ew.todo, r \notin ew.stale
  PROVE  LET new == [rs[r] EXCEPT !.targets = ew.list[r].targets \ {Target[ew.key]}]
         IN /\ r \in RemoteSecrets /\ ForeignWrite(rs[r], new) /\ OAuthQueue(r, new) = oq
            /\ new.targets = rs[r].targets \ {Target[ew.key]}
<1>1. r \in RemoteSecrets /\ rs[r] \in Objects /\ ew.list[r] = rs[r] /\ rs[r].st # None /\ rs[r].build = FALSE
  BY DEF SecretsInv, SecretsTyped, EnvWorkers, CopiesCurrent, Existed
<1> DEFINE new == [rs[r] EXCEPT !.targets = ew.list[r].targets \ {Target[ew.key]}]
<1>2. /\ new \in Objects /\ new.targets = rs[r].targets \ {Target[ew.key]}
      /\ new.st = rs[r].st /\ new.host = rs[r].host /\ new.url = rs[r].url /\ new.cond = rs[r].cond
      /\ new.build = rs[r].build /\ new.envs = rs[r].envs /\ new.app = rs[r].app
  BY <1>1 DEF Objects
<1> HIDE DEF new
<1>3. Harmless(rs[r], new)
  BY <1>2, SameForOwners
<1>4. ForeignWrite(rs[r], new)
  BY <1>1, <1>2, <1>3 DEF ForeignWrite
<1>5. OAuthQueue(r, new) = oq
  BY <1>1, <1>2 DEF OAuthQueue, OAuthWakes
<1> QED
  BY <1>1, <1>2, <1>4, <1>5 DEF new

LEMMA EnvTargetsSecret == SecretsInv /\ EnvTargets => SecretsInv'
<1> SUFFICES ASSUME SecretsInv, EnvTargets PROVE SecretsInv'
  OBVIOUS
<1>1. ew.pc = "targets" /\ UNCHANGED <<env, app, oq, aq, aw>>
  BY DEF EnvTargets, RemoveTargets
<1>2. ew.key \in Environments /\ ew \in EnvWorkers
  BY <1>1 DEF SecretsInv, SecretsTyped
<1>3. PICK r \in ew.todo :
        \/ /\ Present(r) /\ r \notin ew.stale /\ NoFault
           /\ rs' = [rs EXCEPT ![r] = [rs[r] EXCEPT !.targets = ew.list[r].targets \ {Target[ew.key]}]]
           /\ ow' = OutdatedOAuth(r, [rs[r] EXCEPT !.targets = ew.list[r].targets \ {Target[ew.key]}])
           /\ ew' = [ew EXCEPT !.todo = ew.todo \ {r}] /\ UNCHANGED eq
        \/ (Fault \/ NoFault) /\ EnvFails /\ UNCHANGED <<rs, ow>>
  BY DEF EnvTargets, RemoveTargets
<1>4. CASE (Fault \/ NoFault) /\ EnvFails /\ UNCHANGED <<rs, ow>>
  <2>1. ew' = IdleEnv /\ eq' \subseteq Environments
    BY <1>2, <1>4 DEF EnvFails, SecretsInv, SecretsTyped
  <2> QED
    BY <1>1, <1>4, <2>1, EnvIdle
<1>5. CASE /\ Present(r) /\ r \notin ew.stale /\ NoFault
           /\ rs' = [rs EXCEPT ![r] = [rs[r] EXCEPT !.targets = ew.list[r].targets \ {Target[ew.key]}]]
           /\ ow' = OutdatedOAuth(r, [rs[r] EXCEPT !.targets = ew.list[r].targets \ {Target[ew.key]}])
           /\ ew' = [ew EXCEPT !.todo = ew.todo \ {r}] /\ UNCHANGED eq
  <2> DEFINE new == [rs[r] EXCEPT !.targets = ew.list[r].targets \ {Target[ew.key]}]
  <2>1. /\ r \in RemoteSecrets /\ ForeignWrite(rs[r], new) /\ OAuthQueue(r, new) = oq
        /\ new.targets = rs[r].targets \ {Target[ew.key]}
    BY <1>1, <1>5, RemoveTarget
  <2>2. rs' = [rs EXCEPT ![r] = new] /\ ow' = OutdatedOAuth(r, new)
    BY <1>5
  <2> HIDE DEF new
  <2>3. budget' \in Budgets /\ budget'.restarted = budget.restarted
    BY <1>5, SpendFaults DEF SecretsInv
  <2>4. OAuthInv'
    BY <1>1, <2>1, <2>2, <2>3, PutOAuth
  <2>5. /\ new \in Objects /\ Harmless(rs[r], new) /\ new.st # None
        /\ rs[r].st # None /\ rs[r].build = FALSE => new.build = FALSE
    BY <2>1 DEF ForeignWrite
  <2>6. \A x \in RemoteSecrets : rs'[x] = IF x = r THEN new ELSE rs[x]
    BY <2>2 DEF SecretsInv, SecretsTyped
  <2>7. /\ ew' \in EnvWorkers /\ ew'.pc = ew.pc /\ ew'.key = ew.key /\ ew'.stale = ew.stale
        /\ ew'.list = ew.list /\ ew'.todo = ew.todo \ {r}
    BY <1>2, <1>5 DEF EnvWorkers
  <2>8. /\ ow' \in OAuthWorkers /\ ow'.pc = ow.pc /\ ow'.key = ow.key /\ ow'.obj = ow.obj
        /\ ow'.stale = FALSE => ow.stale = FALSE /\ (ow.key = r => new = rs[r])
    BY <2>1, <2>2, OutdatedWorkers DEF SecretsInv, SameOAuthWorker
  <2>9. SecretsTyped'
    <3>1. rs' \in [RemoteSecrets -> Objects]
      BY <2>1, <2>2, <2>5 DEF SecretsInv, SecretsTyped
    <3> QED
      BY <1>1, <1>5, <2>3, <2>7, <2>8, <3>1 DEF SecretsInv, SecretsTyped
  <2>10. Existed'
    <3>1. ow'.pc # "idle" => rs'[ow'.key].st # None
      BY <2>5, <2>6, <2>8 DEF SecretsInv, SecretsTyped, Existed
    <3>2. \A x \in ew.todo \cup aw.todo : x \in RemoteSecrets /\ rs[x].build = FALSE /\ rs[x].st # None
      BY DEF SecretsInv, Existed, SecretsTyped, EnvWorkers, AppWorkers
    <3>3. \A x \in ew'.todo \cup aw'.todo : rs'[x].build = FALSE /\ rs'[x].st # None
      BY <1>1, <2>5, <2>6, <2>7, <3>2
    <3>4. \A x \in RemoteSecrets : rs'[x].st = None => rs'[x] = Absent(None)
      BY <2>5, <2>6 DEF SecretsInv, Existed
    <3> QED
      BY <3>1, <3>3, <3>4 DEF Existed
  <2>11. CopiesCurrent'
    <3>1. ow'.pc # "idle" /\ ow'.stale = FALSE => ow'.obj = rs'[ow'.key]
      BY <2>6, <2>8 DEF SecretsInv, CopiesCurrent, SecretsTyped
    <3>2. \A x \in ew'.todo \ ew'.stale : ew'.list[x] = rs'[x]
      BY <1>2, <2>6, <2>7 DEF SecretsInv, CopiesCurrent, EnvWorkers
    <3> QED
      BY <3>1, <3>2 DEF CopiesCurrent
  <2>12. EnvironmentInHand'
    <3> SUFFICES /\ env[ew.key] = "deleting"
                 /\ \A x \in RemoteSecrets : Carries(rs'[x], ew.key) => x \in ew'.todo
      BY <1>1, <2>7 DEF EnvironmentInHand, Carries, Unique
    <3>1. ~Carries(new, ew.key)
      BY <2>1 DEF Carries
    <3> QED
      BY <1>1, <2>6, <2>7, <3>1 DEF SecretsInv, OwnersInv, EnvironmentInHand
  <2>13. ApplicationInHand' /\ NothingLeft'
    BY <1>1, <2>1, <2>2, <2>5, HarmlessForApplication, HarmlessLeavesNothing
  <2> QED
    BY <2>4, <2>9, <2>10, <2>11, <2>12, <2>13 DEF SecretsInv, OwnersInv
<1> QED
  BY <1>3, <1>4, <1>5

LEMMA EnvUpdateSecret == SecretsInv /\ EnvUpdate => SecretsInv'
<1> SUFFICES ASSUME SecretsInv, EnvUpdate PROVE SecretsInv'
  OBVIOUS
<1>1. ew.pc = "adopt" \/ (ew.pc = "targets" /\ ew.todo = {})
  BY DEF EnvUpdate
<1>2. UNCHANGED <<rs, app, oq, aq, ow, aw>> /\ ew.key \in Environments
  BY <1>1 DEF EnvUpdate, SecretsInv, SecretsTyped
<1>3. CASE (Fault \/ NoFault) /\ EnvFails /\ UNCHANGED env
  <2>1. ew' = IdleEnv /\ eq' \subseteq Environments
    BY <1>2, <1>3 DEF EnvFails, SecretsInv, SecretsTyped
  <2> QED
    BY <1>2, <1>3, <2>1, EnvIdle
<1>4. CASE /\ NoFault /\ ew' = IdleEnv /\ UNCHANGED eq
           /\ env' = [env EXCEPT ![ew.key] = IF ew.pc = "adopt" THEN "live" ELSE "gone"]
  <2>1. budget' \in Budgets /\ budget'.restarted = budget.restarted
    BY <1>4, SpendFaults DEF SecretsInv
  <2>2. SecretsTyped'
    <3>1. env' \in [Environments -> OwnerStates]
      BY <1>2, <1>4 DEF SecretsInv, SecretsTyped, OwnerStates
    <3> QED
      BY <1>2, <1>4, <2>1, <3>1, SmallTypes DEF SecretsInv, SecretsTyped
  <2>3. Existed' /\ CopiesCurrent'
    BY <1>2, <1>4, SmallTypes DEF SecretsInv, Existed, CopiesCurrent
  <2>4. OAuthInv'
    BY <1>2, <2>1, OAuthFrame
  <2>5. EnvironmentInHand' /\ ApplicationInHand'
    BY <1>2, <1>4, SmallTypes DEF SecretsInv, OwnersInv, EnvironmentInHand, ApplicationInHand, Belongs
  <2>6. NothingLeft'
    <3>1. \A r \in RemoteSecrets : ew.pc # "adopt" => ~Carries(rs[r], ew.key)
      BY <1>1 DEF SecretsInv, OwnersInv, EnvironmentInHand
    <3>2. \A e \in Environments : env'[e] = "gone" => env[e] = "gone" \/ (e = ew.key /\ ew.pc # "adopt")
      BY <1>4 DEF SecretsInv, SecretsTyped
    <3>3. \A r \in RemoteSecrets, e \in Environments : env'[e] = "gone" => ~Carries(rs[r], e)
      BY <3>1, <3>2 DEF SecretsInv, OwnersInv, NothingLeft
    <3> QED
      BY <1>2, <3>3 DEF SecretsInv, OwnersInv, NothingLeft, Carries, Belongs, Unique
  <2> QED
    BY <2>2, <2>3, <2>4, <2>5, <2>6 DEF SecretsInv, OwnersInv
<1> QED
  BY <1>3, <1>4 DEF EnvUpdate

-----------------------------------------------------------------------------
(* The application controller.                                                *)

LEMMA AppGetSecret == SecretsInv /\ AppGet => SecretsInv'
<1> SUFFICES ASSUME SecretsInv, AppGet PROVE SecretsInv'
  OBVIOUS
<1>1. PICK a \in aq :
        /\ aq' = aq \ {a}
        /\ aw' = IF app[a] \notin {"new", "deleting"} THEN IdleApp
                 ELSE [pc |-> IF app[a] = "new" THEN "adopt" ELSE "secrets", key |-> a,
                       todo |-> {r \in RemoteSecrets : /\ app[a] = "deleting" /\ Listed(r)
                                                       /\ rs[r].app = a}]
  BY DEF AppGet
<1>2. UNCHANGED <<rs, env, app, oq, eq, ow, ew, budget>>
  BY DEF AppGet
<1>3. a \in Applications /\ rs \in [RemoteSecrets -> Objects]
  BY DEF SecretsInv, SecretsTyped
<1> DEFINE todo == {r \in RemoteSecrets : app[a] = "deleting" /\ Listed(r) /\ rs[r].app = a}
           pc == IF app[a] = "new" THEN "adopt" ELSE "secrets"
<1>4. \A r \in todo : rs[r].build = FALSE /\ rs[r].st # None
  BY <1>3 DEF Listed, Present, Objects, None
<1>5. \A r \in RemoteSecrets : app[a] = "deleting" /\ Belongs(rs[r], a) => r \in todo
  BY DEF Belongs, Listed, Present
<1>6. todo \subseteq RemoteSecrets
  OBVIOUS
<1>7. \/ aw' = IdleApp
      \/ app[a] \in {"new", "deleting"} /\ aw' = [pc |-> pc, key |-> a, todo |-> todo]
  BY <1>1
<1>8. pc \in {"adopt", "secrets"} /\ (app[a] \in {"new", "deleting"} /\ pc = "secrets" => app[a] = "deleting")
  OBVIOUS
<1> HIDE DEF todo, pc
<1>9. /\ aw' \in AppWorkers
      /\ \/ aw'.pc = "idle" /\ aw'.todo = {}
         \/ app[a] \in {"new", "deleting"} /\ aw'.pc = pc /\ aw'.key = a /\ aw'.todo = todo
  <2>1. CASE aw' = IdleApp
    BY <2>1, SmallTypes
  <2>2. CASE app[a] \in {"new", "deleting"} /\ aw' = [pc |-> pc, key |-> a, todo |-> todo]
    BY <2>2, <1>3, <1>6, <1>8 DEF AppWorkers
  <2> QED
    BY <1>7, <2>1, <2>2
<1>10. SecretsTyped'
  BY <1>1, <1>2, <1>3, <1>9 DEF SecretsInv, SecretsTyped
<1>11. Existed' /\ CopiesCurrent'
  BY <1>2, <1>4, <1>9 DEF SecretsInv, Existed, CopiesCurrent
<1>12. OAuthInv'
  BY <1>2, OAuthFrame
<1>13. ApplicationInHand'
  <2> SUFFICES ASSUME aw'.pc = "secrets"
               PROVE  app[aw'.key] = "deleting" /\ \A r \in RemoteSecrets : Belongs(rs[r], aw'.key) => r \in aw'.todo
    BY <1>2 DEF ApplicationInHand, Belongs
  <2> QED
    BY <1>5, <1>8, <1>9
<1>14. EnvironmentInHand' /\ NothingLeft'
  BY <1>2 DEF SecretsInv, OwnersInv, EnvironmentInHand, NothingLeft, Carries, Belongs, Unique
<1> QED
  BY <1>10, <1>11, <1>12, <1>13, <1>14 DEF SecretsInv, OwnersInv

LEMMA AppIdle ==
  ASSUME SecretsInv, UNCHANGED <<rs, env, app, oq, eq, ow, ew>>, aw' = IdleApp, aq' \subseteq Applications,
         Fault \/ NoFault
  PROVE  SecretsInv'
<1>1. budget' \in Budgets /\ budget'.restarted = budget.restarted
  BY SpendFaults DEF SecretsInv
<1>2. SecretsTyped'
  BY <1>1, SmallTypes DEF SecretsInv, SecretsTyped
<1>3. Existed' /\ CopiesCurrent'
  BY SmallTypes DEF SecretsInv, Existed, CopiesCurrent
<1>4. OAuthInv'
  BY <1>1, OAuthFrame
<1>5. ApplicationInHand'
  BY SmallTypes DEF ApplicationInHand
<1>6. EnvironmentInHand' /\ NothingLeft'
  BY DEF SecretsInv, OwnersInv, EnvironmentInHand, NothingLeft, Carries, Belongs, Unique
<1> QED
  BY <1>2, <1>3, <1>4, <1>5, <1>6 DEF SecretsInv, OwnersInv

LEMMA AppSecretsSecret == SecretsInv /\ AppSecrets => SecretsInv'
<1> SUFFICES ASSUME SecretsInv, AppSecrets PROVE SecretsInv'
  OBVIOUS
<1>1. aw.pc = "secrets" /\ UNCHANGED <<env, app, oq, eq>>
  BY DEF AppSecrets
<1>2. aw.key \in Applications /\ aw \in AppWorkers
  BY <1>1 DEF SecretsInv, SecretsTyped
<1>3. PICK r \in aw.todo :
        \/ /\ Present(r) /\ NoFault
           /\ rs' = [rs EXCEPT ![r] = [rs[r] EXCEPT !.st = "deleting"]]
           /\ ow' = OutdatedOAuth(r, [rs[r] EXCEPT !.st = "deleting"])
           /\ ew' = OutdatedEnv(r, [rs[r] EXCEPT !.st = "deleting"])
           /\ aw' = [aw EXCEPT !.todo = aw.todo \ {r}] /\ UNCHANGED aq
        \/ (Fault \/ NoFault) /\ AppFails /\ UNCHANGED <<rs, ow, ew>>
  BY DEF AppSecrets
<1>4. CASE (Fault \/ NoFault) /\ AppFails /\ UNCHANGED <<rs, ow, ew>>
  <2>1. aw' = IdleApp /\ aq' \subseteq Applications
    BY <1>2, <1>4 DEF AppFails, SecretsInv, SecretsTyped
  <2> QED
    BY <1>1, <1>4, <2>1, AppIdle
<1>5. CASE /\ Present(r) /\ NoFault
           /\ rs' = [rs EXCEPT ![r] = [rs[r] EXCEPT !.st = "deleting"]]
           /\ ow' = OutdatedOAuth(r, [rs[r] EXCEPT !.st = "deleting"])
           /\ ew' = OutdatedEnv(r, [rs[r] EXCEPT !.st = "deleting"])
           /\ aw' = [aw EXCEPT !.todo = aw.todo \ {r}] /\ UNCHANGED aq
  <2> DEFINE new == [rs[r] EXCEPT !.st = "deleting"]
  <2>1. r \in RemoteSecrets /\ rs[r] \in Objects /\ rs[r].build = FALSE
    BY <1>2 DEF SecretsInv, SecretsTyped, AppWorkers, Existed
  <2>2. rs[r].st \in {"live", "deleting"}
    BY <1>5 DEF Present
  <2>3. /\ new \in Objects /\ new.st = "deleting" /\ new.host = rs[r].host /\ new.url = rs[r].url
        /\ new.build = rs[r].build /\ new.envs = rs[r].envs /\ new.targets = rs[r].targets
    BY <2>1 DEF Objects
  <2>4. /\ rs' = [rs EXCEPT ![r] = new] /\ ow' = OutdatedOAuth(r, new) /\ ew' = OutdatedEnv(r, new)
    BY <1>5
  <2> HIDE DEF new
  <2>5. Harmless(rs[r], new)
    BY <2>2, <2>3 DEF Harmless, Carries, Belongs
  <2>6. ForeignWrite(rs[r], new)
    BY <2>1, <2>3, <2>5 DEF ForeignWrite, None
  <2>7. oq' = OAuthQueue(r, new)
    BY <1>1, <2>2, <2>3 DEF OAuthQueue, OAuthWakes, None
  <2>8. Put(r, new)
    BY <2>4, <2>7 DEF Put
  <2>9. budget' \in Budgets /\ budget'.restarted = budget.restarted
    BY <1>5, SpendFaults DEF SecretsInv
  <2>10. aw' \in AppWorkers /\ aw'.pc = aw.pc /\ aw'.key = aw.key /\ aw'.todo = aw.todo \ {r}
    BY <1>2, <1>5 DEF AppWorkers
  <2>11. SecretsTyped' /\ Existed' /\ CopiesCurrent'
    <3>1. aq' \subseteq Applications
      BY <1>5 DEF SecretsInv, SecretsTyped
    <3> QED
      BY <1>1, <1>2, <2>1, <2>6, <2>8, <2>9, <2>10, <3>1, PutTyped
  <2>12. OAuthInv'
    BY <2>1, <2>4, <2>6, <2>7, <2>9, PutOAuth
  <2>13. EnvironmentInHand' /\ NothingLeft'
    <3>1. ew'.pc = ew.pc /\ ew'.key = ew.key /\ ew'.todo = ew.todo
      BY <2>1, <2>4, OutdatedWorkers DEF SecretsInv, SameEnvWorker
    <3> QED
      BY <1>1, <2>1, <2>4, <2>5, <3>1, HarmlessForEnvironment, HarmlessLeavesNothing
  <2>14. ApplicationInHand'
    <3> SUFFICES /\ app[aw.key] = "deleting"
                 /\ \A x \in RemoteSecrets : Belongs(rs'[x], aw.key) => x \in aw'.todo
      BY <1>1, <2>10 DEF ApplicationInHand, Belongs
    <3>1. \A x \in RemoteSecrets : rs'[x] = IF x = r THEN new ELSE rs[x]
      BY <2>4 DEF SecretsInv, SecretsTyped
    <3>2. ~Belongs(new, aw.key)
      BY <2>3 DEF Belongs
    <3> QED
      BY <1>1, <2>10, <3>1, <3>2 DEF SecretsInv, OwnersInv, ApplicationInHand
  <2> QED
    BY <2>11, <2>12, <2>13, <2>14 DEF SecretsInv, OwnersInv
<1> QED
  BY <1>3, <1>4, <1>5

LEMMA AppUpdateSecret == SecretsInv /\ AppUpdate => SecretsInv'
<1> SUFFICES ASSUME SecretsInv, AppUpdate PROVE SecretsInv'
  OBVIOUS
<1>1. aw.pc = "adopt" \/ (aw.pc = "secrets" /\ aw.todo = {})
  BY DEF AppUpdate
<1>2. UNCHANGED <<rs, env, oq, eq, ow, ew>> /\ aw.key \in Applications
  BY <1>1 DEF AppUpdate, SecretsInv, SecretsTyped
<1>3. CASE (Fault \/ NoFault) /\ AppFails /\ UNCHANGED app
  <2>1. aw' = IdleApp /\ aq' \subseteq Applications
    BY <1>2, <1>3 DEF AppFails, SecretsInv, SecretsTyped
  <2> QED
    BY <1>2, <1>3, <2>1, AppIdle
<1>4. CASE /\ NoFault /\ aw' = IdleApp /\ UNCHANGED aq
           /\ app' = [app EXCEPT ![aw.key] = IF aw.pc = "adopt" THEN "live" ELSE "gone"]
  <2>1. budget' \in Budgets /\ budget'.restarted = budget.restarted
    BY <1>4, SpendFaults DEF SecretsInv
  <2>2. SecretsTyped'
    <3>1. app' \in [Applications -> OwnerStates]
      BY <1>2, <1>4 DEF SecretsInv, SecretsTyped, OwnerStates
    <3> QED
      BY <1>2, <1>4, <2>1, <3>1, SmallTypes DEF SecretsInv, SecretsTyped
  <2>3. Existed' /\ CopiesCurrent'
    BY <1>2, <1>4, SmallTypes DEF SecretsInv, Existed, CopiesCurrent
  <2>4. OAuthInv'
    BY <1>2, <2>1, OAuthFrame
  <2>5. EnvironmentInHand' /\ ApplicationInHand'
    BY <1>2, <1>4, SmallTypes DEF SecretsInv, OwnersInv, EnvironmentInHand, ApplicationInHand, Carries, Unique
  <2>6. NothingLeft'
    <3>1. \A r \in RemoteSecrets : aw.pc # "adopt" => ~Belongs(rs[r], aw.key)
      BY <1>1 DEF SecretsInv, OwnersInv, ApplicationInHand
    <3>2. \A a \in Applications : app'[a] = "gone" => app[a] = "gone" \/ (a = aw.key /\ aw.pc # "adopt")
      BY <1>4 DEF SecretsInv, SecretsTyped
    <3>3. \A r \in RemoteSecrets, a \in Applications : app'[a] = "gone" => ~Belongs(rs[r], a)
      BY <3>1, <3>2 DEF SecretsInv, OwnersInv, NothingLeft
    <3> QED
      BY <1>2, <3>3 DEF SecretsInv, OwnersInv, NothingLeft, Carries, Belongs, Unique
  <2> QED
    BY <2>2, <2>3, <2>4, <2>5, <2>6 DEF SecretsInv, OwnersInv
<1> QED
  BY <1>3, <1>4 DEF AppUpdate

-----------------------------------------------------------------------------
(* The OAuth controller.                                                      *)

\* Its worker changes, and no object.
LEMMA OAuthTurns ==
  ASSUME SecretsInv, UNCHANGED <<rs, env, app, eq, aq, ew, aw>>, budget' \in Budgets,
         oq' \subseteq RemoteSecrets, ow' \in OAuthWorkers,
         ow'.pc # "idle" => /\ ow'.key \in RemoteSecrets /\ rs[ow'.key].st # None
                            /\ ow'.stale = FALSE => ow'.obj = rs[ow'.key]
  PROVE  SecretsTyped' /\ Existed' /\ CopiesCurrent' /\ OwnersInv'
<1>1. SecretsTyped'
  BY DEF SecretsInv, SecretsTyped
<1>2. Existed' /\ CopiesCurrent'
  BY DEF SecretsInv, Existed, CopiesCurrent
<1>3. OwnersInv'
  BY DEF SecretsInv, OwnersInv, EnvironmentInHand, ApplicationInHand, NothingLeft, Carries, Belongs, Unique
<1> QED
  BY <1>1, <1>2, <1>3

\* Its worker writes annotation or conditions of the object in hand.
LEMMA OAuthWrites ==
  ASSUME SecretsInv, NEW r \in RemoteSecrets, NEW new \in Objects,
         ow.pc # "idle", ow.key = r, new.st = rs[r].st, new.build = rs[r].build, new.app = rs[r].app,
         new.envs = rs[r].envs, new.targets = rs[r].targets,
         rs' = [rs EXCEPT ![r] = new], ew' = OutdatedEnv(r, new), UNCHANGED <<env, app, eq, aq, aw>>,
         budget' \in Budgets, oq' \subseteq RemoteSecrets, ow' \in OAuthWorkers,
         ow'.pc # "idle" => ow'.key = r /\ (ow'.stale = FALSE => ow'.obj = new)
  PROVE  SecretsTyped' /\ Existed' /\ CopiesCurrent' /\ OwnersInv'
<1>1. \A x \in RemoteSecrets : rs'[x] = IF x = r THEN new ELSE rs[x]
  BY DEF SecretsInv, SecretsTyped
<1>2. rs[r].st # None
  BY DEF SecretsInv, Existed
<1> DEFINE e == OutdatedEnv(r, new)
<1>3. /\ e \in EnvWorkers /\ SameEnvWorker(e, ew)
      /\ e.stale = IF new # rs[r] THEN ew.stale \cup {r} ELSE ew.stale
  BY OutdatedWorkers DEF SecretsInv
<1>4. ew' = e
  OBVIOUS
<1> HIDE DEF e
<1> USE DEF SameEnvWorker
<1>5. SecretsTyped'
  <2>1. rs' \in [RemoteSecrets -> Objects]
    BY DEF SecretsInv, SecretsTyped
  <2> QED
    BY <1>3, <1>4, <2>1 DEF SecretsInv, SecretsTyped
<1>6. Existed'
  <2>1. \A x \in ew.todo \cup aw.todo : x \in RemoteSecrets /\ rs[x].build = FALSE /\ rs[x].st # None
    BY DEF SecretsInv, Existed, SecretsTyped, EnvWorkers, AppWorkers
  <2>2. \A x \in ew'.todo \cup aw'.todo : rs'[x].build = FALSE /\ rs'[x].st # None
    BY <1>1, <1>3, <1>4, <2>1
  <2>3. \A x \in RemoteSecrets : rs'[x].st = None => rs'[x] = Absent(None)
    BY <1>1, <1>2 DEF SecretsInv, Existed
  <2>4. ow'.pc # "idle" => rs'[ow'.key].st # None
    BY <1>1, <1>2
  <2> QED
    BY <2>2, <2>3, <2>4 DEF Existed
<1>7. CopiesCurrent'
  <2>1. ow'.pc # "idle" /\ ow'.stale = FALSE => ow'.obj = rs'[ow'.key]
    BY <1>1
  <2>2. ASSUME NEW x \in ew'.todo \ ew'.stale PROVE ew'.list[x] = rs'[x]
    <3>1. x \in ew.todo \ ew.stale /\ x \in RemoteSecrets /\ (x = r => new = rs[r])
      BY <1>3, <1>4, <2>2 DEF SecretsInv, SecretsTyped, EnvWorkers
    <3>2. ew.list[x] = rs[x]
      BY <3>1 DEF SecretsInv, CopiesCurrent
    <3> QED
      BY <1>1, <1>3, <1>4, <3>1, <3>2
  <2> QED
    BY <2>1, <2>2 DEF CopiesCurrent
<1>8. OwnersInv'
  <2>1. Harmless(rs[r], new)
    BY SameForOwners
  <2> QED
    BY <1>3, <1>4, <2>1, HarmlessForEnvironment, HarmlessForApplication, HarmlessLeavesNothing DEF OwnersInv
<1> QED
  BY <1>5, <1>6, <1>7, <1>8

\* NoneForgotten for all but one RemoteSecret, which is dealt with apart.
LEMMA OthersRemembered ==
  ASSUME SecretsInv, NEW r \in RemoteSecrets, budget'.restarted = budget.restarted,
         \A x \in RemoteSecrets \ {r} : rs'[x] = rs[x] /\ (x \in oq => x \in oq') /\ (ow.pc = "idle" \/ ow.key # x),
         rs'[r].st = "live" => \/ r \in oq' \/ (ow'.pc # "idle" /\ ow'.key = r)
                               \/ AsWanted(rs'[r].cond, rs'[r].host, rs'[r].url)
  PROVE  NoneForgotten'
<1> SUFFICES ASSUME NEW x \in RemoteSecrets, rs'[x].st = "live", x \notin oq', ow'.pc = "idle" \/ ow'.key # x
             PROVE  \/ rs'[x].host = None /\ budget'.restarted = TRUE
                    \/ AsWanted(rs'[x].cond, rs'[x].host, rs'[x].url)
  BY DEF NoneForgotten, AsWanted, Settles
<1>1. CASE x = r
  BY <1>1
<1>2. CASE x # r
  BY <1>2 DEF SecretsInv, OAuthInv, NoneForgotten
<1> QED
  BY <1>1, <1>2

LEMMA OAuthGetSecret == SecretsInv /\ OAuthGet => SecretsInv'
<1> SUFFICES ASSUME SecretsInv, OAuthGet PROVE SecretsInv'
  OBVIOUS
<1>1. PICK r \in oq :
        /\ oq' = oq \ {r}
        /\ LET o == rs[r]
               pc == IF o.st # "live" THEN "idle" ELSE IF o.host # None THEN "provider"
                     ELSE IF o.url # None THEN "dropUrl" ELSE IF o.cond # NoCond THEN "dropCond" ELSE "idle"
           IN ow' = IF pc = "idle" THEN IdleOAuth
                    ELSE [IdleOAuth EXCEPT !.pc = pc, !.key = r, !.obj = o, !.base = o]
  BY DEF OAuthGet
<1>2. UNCHANGED <<rs, env, app, eq, aq, ew, aw, budget>> /\ ow.pc = "idle"
  BY DEF OAuthGet
<1>3. r \in RemoteSecrets /\ rs[r] \in Objects /\ budget \in Budgets /\ oq \subseteq RemoteSecrets
  BY DEF SecretsInv, SecretsTyped
<1> DEFINE o == rs[r]
           pc == IF o.st # "live" THEN "idle" ELSE IF o.host # None THEN "provider"
                 ELSE IF o.url # None THEN "dropUrl" ELSE IF o.cond # NoCond THEN "dropCond" ELSE "idle"
<1>4. /\ pc \in {"idle", "provider", "dropUrl", "dropCond"}
      /\ pc = "idle" => o.st # "live" \/ (o.host = None /\ o.url = None /\ o.cond = NoCond)
      /\ pc # "idle" => o.st = "live"
      /\ pc = "provider" => o.host # None
      /\ pc = "dropUrl" => o.host = None /\ o.url # None
      /\ pc = "dropCond" => o.host = None /\ o.url = None
  OBVIOUS
<1>5. ow' = IF pc = "idle" THEN IdleOAuth
            ELSE [IdleOAuth EXCEPT !.pc = pc, !.key = r, !.obj = o, !.base = o]
  BY <1>1
<1> HIDE DEF pc
<1>6. ow' \in OAuthWorkers
  BY <1>3, <1>4, <1>5, SmallTypes DEF OAuthWorkers
<1>7. \/ pc = "idle" /\ ow'.pc = "idle"
      \/ /\ pc # "idle" /\ ow'.pc = pc /\ ow'.key = r /\ ow'.obj = rs[r] /\ ow'.base = rs[r]
         /\ ow'.cond = NoCond
  <2>1. CASE pc = "idle"
    BY <1>5, <2>1, SmallTypes
  <2>2. CASE pc # "idle"
    <3>1. IdleOAuth.cond = NoCond /\ IdleOAuth \in OAuthWorkers
      BY SmallTypes DEF IdleOAuth
    <3> QED
      BY <1>5, <2>2, <3>1 DEF OAuthWorkers
  <2> QED
    BY <2>1, <2>2
<1>8. SecretsTyped' /\ Existed' /\ CopiesCurrent' /\ OwnersInv'
  <2>1. oq' \subseteq RemoteSecrets
    BY <1>1, <1>3
  <2> QED
    BY <1>2, <1>3, <1>4, <1>6, <1>7, <2>1, OAuthTurns DEF None
<1>9. NoneForgotten'
  <2>1. rs'[r].st = "live" => \/ ow'.pc # "idle" /\ ow'.key = r
                              \/ AsWanted(rs'[r].cond, rs'[r].host, rs'[r].url)
    BY <1>2, <1>4, <1>7 DEF AsWanted
  <2> QED
    BY <1>1, <1>2, <1>3, <2>1, OthersRemembered
<1>10. InHand'
  <2> SUFFICES ASSUME ow'.pc # "idle", ow'.key \notin oq', rs'[ow'.key].st = "live"
               PROVE  /\ rs'[ow'.key].host = ow'.obj.host /\ rs'[ow'.key].url = ow'.obj.url
                      /\ rs'[ow'.key].cond = ow'.base.cond
                      /\ OnTheWay(ow')
    BY DEF InHand, OnTheWay, Settles
  <2>1. OnTheWay(ow')
    BY <1>4, <1>7 DEF OnTheWay
  <2> QED
    BY <1>2, <1>7, <2>1
<1> QED
  BY <1>8, <1>9, <1>10 DEF SecretsInv, OAuthInv

\* Reconcile returns an error: the key is queued again.
LEMMA OAuthFailsSecret ==
  ASSUME SecretsInv, ow.pc # "idle", NEW c, OAuthFails(c), UNCHANGED <<env, app, eq, aq, aw>>
  PROVE  SecretsInv'
<1>1. ow.key \in RemoteSecrets /\ oq \subseteq RemoteSecrets
  BY DEF SecretsInv, SecretsTyped
<1>2. budget' \in Budgets /\ budget'.restarted = budget.restarted
  <2>1. Fault \/ NoFault
    BY DEF OAuthFails
  <2> QED
    BY <2>1, SpendFaults DEF SecretsInv
<1>3. ow' = IdleOAuth /\ oq' = oq \cup {ow.key} /\ UNCHANGED <<rs, ew>>
  BY DEF OAuthFails
<1>4. ow' \in OAuthWorkers /\ ow'.pc = "idle"
  BY <1>3, SmallTypes
<1>5. SecretsTyped' /\ Existed' /\ CopiesCurrent' /\ OwnersInv'
  BY <1>1, <1>2, <1>3, <1>4, OAuthTurns
<1>6. NoneForgotten'
  BY <1>1, <1>2, <1>3, OthersRemembered
<1>7. InHand'
  BY <1>4 DEF InHand
<1> QED
  BY <1>5, <1>6, <1>7 DEF SecretsInv, OAuthInv

LEMMA OAuthProviderSecret == SecretsInv /\ OAuthProvider => SecretsInv'
<1> SUFFICES ASSUME SecretsInv, OAuthProvider PROVE SecretsInv'
  OBVIOUS
<1> DEFINE h == ow.obj.host
           sp == Provider[h]
<1>1. ow.pc = "provider" /\ UNCHANGED <<rs, env, app, oq, eq, aq, ew, aw>> /\ (Fault \/ NoFault)
  BY DEF OAuthProvider, queues
<1>2. \/ ow' = [ow EXCEPT !.pc = "report", !.cond = [reason |-> "Error", host |-> h], !.again = TRUE]
      \/ /\ sp.err = "validation"
         /\ ow' = [ow EXCEPT !.pc = "report", !.cond = [reason |-> "Error", host |-> h], !.again = FALSE]
      \/ /\ sp.err = "" /\ ~sp.oauth
         /\ ow' = [ow EXCEPT !.pc = "report", !.cond = [reason |-> "NotSupported", host |-> h], !.again = FALSE]
      \/ /\ sp.err = "" /\ sp.oauth
         /\ ow' = [ow EXCEPT !.pc = "addUrl", !.cond = [reason |-> "Success", host |-> None]]
  BY DEF OAuthProvider
<1>3. ow \in OAuthWorkers /\ ow.key \in RemoteSecrets /\ oq \subseteq RemoteSecrets /\ rs[ow.key].st # None
  BY <1>1 DEF SecretsInv, SecretsTyped, Existed
<1>4. h \in Hosts \cup {None}
  BY <1>3 DEF OAuthWorkers, Objects
<1>5. budget' \in Budgets /\ budget'.restarted = budget.restarted
  BY <1>1, SpendFaults DEF SecretsInv
<1> HIDE DEF h, sp
<1>6. /\ \A reason \in {"Error", "NotSupported", "Success"} : [reason |-> reason, host |-> h] \in Conditions
      /\ [reason |-> "Success", host |-> None] \in Conditions
  BY <1>4 DEF Conditions
<1>7. /\ ow' \in OAuthWorkers /\ ow'.pc \in {"report", "addUrl"} /\ ow'.key = ow.key /\ ow'.obj = ow.obj
      /\ ow'.base = ow.base /\ ow'.stale = ow.stale
  <2>1. ASSUME NEW pc \in {"report", "addUrl"}, NEW c \in Conditions, NEW a \in BOOLEAN
        PROVE  LET w == [ow EXCEPT !.pc = pc, !.cond = c, !.again = a]
               IN /\ w \in OAuthWorkers /\ w.pc = pc /\ w.key = ow.key /\ w.obj = ow.obj
                  /\ w.base = ow.base /\ w.stale = ow.stale
    BY <1>3 DEF OAuthWorkers
  <2>2. CASE ow' = [ow EXCEPT !.pc = "report", !.cond = [reason |-> "Error", host |-> h], !.again = TRUE]
    BY <1>6, <2>1, <2>2
  <2>3. CASE ow' = [ow EXCEPT !.pc = "report", !.cond = [reason |-> "Error", host |-> h], !.again = FALSE]
    BY <1>6, <2>1, <2>3
  <2>4. CASE ow' = [ow EXCEPT !.pc = "report", !.cond = [reason |-> "NotSupported", host |-> h], !.again = FALSE]
    BY <1>6, <2>1, <2>4
  <2>5. CASE ow' = [ow EXCEPT !.pc = "addUrl", !.cond = [reason |-> "Success", host |-> None]]
    <3> DEFINE c == [reason |-> "Success", host |-> None]
    <3>1. c \in Conditions /\ ow' = [ow EXCEPT !.pc = "addUrl", !.cond = c]
      BY <1>6, <2>5
    <3> HIDE DEF c
    <3> QED
      BY <1>3, <3>1 DEF OAuthWorkers
  <2> QED
    BY <1>2, <2>2, <2>3, <2>4, <2>5
<1>8. SecretsTyped' /\ Existed' /\ CopiesCurrent' /\ OwnersInv'
  <2>1. ow'.stale = FALSE => ow'.obj = rs[ow'.key]
    BY <1>1, <1>7 DEF SecretsInv, CopiesCurrent
  <2> QED
    BY <1>1, <1>3, <1>5, <1>7, <2>1, OAuthTurns
<1>9. NoneForgotten'
  BY <1>1, <1>5, <1>7, <1>3 DEF SecretsInv, OAuthInv, NoneForgotten, AsWanted, Settles
<1>10. InHand'
  <2> SUFFICES ASSUME ow.key \notin oq, rs[ow.key].st = "live"
               PROVE  /\ rs[ow.key].host = ow.obj.host /\ rs[ow.key].url = ow.obj.url
                      /\ rs[ow.key].cond = ow.base.cond
                      /\ OnTheWay(ow')
    BY <1>1, <1>7 DEF InHand, OnTheWay, Settles
  <2>1. /\ rs[ow.key].host = ow.obj.host /\ rs[ow.key].url = ow.obj.url /\ rs[ow.key].cond = ow.base.cond
        /\ h # None
    BY <1>1 DEF SecretsInv, OAuthInv, InHand, OnTheWay, h
  <2>2. ow'.obj.host = h /\ ow'.obj = ow.obj
    BY <1>7 DEF h
  <2>3. CASE ow' = [ow EXCEPT !.pc = "report", !.cond = [reason |-> "Error", host |-> h], !.again = TRUE]
    <3>1. ow'.pc = "report" /\ ow'.again = TRUE
      BY <1>3, <2>3 DEF OAuthWorkers
    <3> QED
      BY <2>1, <3>1 DEF OnTheWay
  <2>4. CASE /\ sp.err = "validation"
             /\ ow' = [ow EXCEPT !.pc = "report", !.cond = [reason |-> "Error", host |-> h], !.again = FALSE]
    <3>1. ow'.pc = "report" /\ ow'.cond = [reason |-> "Error", host |-> h]
      BY <1>3, <2>4 DEF OAuthWorkers
    <3>2. Settles(ow'.cond, h, ow'.obj.url)
      BY <2>4, <3>1 DEF Settles, sp
    <3> QED
      BY <2>1, <2>2, <3>1, <3>2 DEF OnTheWay
  <2>5. CASE /\ sp.err = "" /\ ~sp.oauth
             /\ ow' = [ow EXCEPT !.pc = "report", !.cond = [reason |-> "NotSupported", host |-> h], !.again = FALSE]
    <3>1. ow'.pc = "report" /\ ow'.cond = [reason |-> "NotSupported", host |-> h]
      BY <1>3, <2>5 DEF OAuthWorkers
    <3>2. Settles(ow'.cond, h, ow'.obj.url)
      BY <2>5, <3>1 DEF Settles, sp
    <3> QED
      BY <2>1, <2>2, <3>1, <3>2 DEF OnTheWay
  <2>6. CASE /\ sp.err = "" /\ sp.oauth
             /\ ow' = [ow EXCEPT !.pc = "addUrl", !.cond = [reason |-> "Success", host |-> None]]
    <3>1. ow'.pc = "addUrl" /\ ow'.cond.reason = "Success"
      BY <1>3, <2>6 DEF OAuthWorkers
    <3>2. Settles(ow'.cond, h, h)
      BY <2>6, <3>1 DEF Settles, sp
    <3> QED
      BY <2>1, <2>2, <3>1, <3>2 DEF OnTheWay
  <2> QED
    BY <1>2, <2>1, <2>3, <2>4, <2>5, <2>6
<1> QED
  BY <1>8, <1>9, <1>10 DEF SecretsInv, OAuthInv

LEMMA PatchUrlSecret == SecretsInv /\ (OAuthDropUrl \/ OAuthAddUrl) => SecretsInv'
<1> SUFFICES ASSUME SecretsInv, OAuthDropUrl \/ OAuthAddUrl PROVE SecretsInv'
  OBVIOUS
<1>1. PICK url \in Hosts \cup {None}, next \in {"report", "dropCond"} :
        /\ PatchUrl(url, next)
        /\ \/ ow.pc = "addUrl" /\ url = ow.obj.host /\ next = "report"
           \/ ow.pc = "dropUrl" /\ url = None /\ next = "dropCond"
  <2>1. ow.obj.host \in Hosts \cup {None}
    BY DEF SecretsInv, SecretsTyped, OAuthWorkers, Objects
  <2> QED
    BY <2>1 DEF OAuthDropUrl, OAuthAddUrl
<1>2. ow.pc # "idle" /\ UNCHANGED <<env, app, eq, aq, aw>>
  BY <1>1 DEF OAuthDropUrl, OAuthAddUrl
<1> USE <1>1, <1>2
<1>3. CASE OAuthFails(FALSE)
  BY <1>3, OAuthFailsSecret
<1>4. CASE ~OAuthFails(FALSE)
  <2> DEFINE r == ow.key
             new == [rs[r] EXCEPT !.url = url]
  <2>1. /\ NoFault /\ rs' = [rs EXCEPT ![r] = new] /\ oq' = OAuthQueue(r, new) /\ ew' = OutdatedEnv(r, new)
        /\ ow' = IF next = "dropCond" /\ new.cond = NoCond THEN IdleOAuth
                 ELSE [ow EXCEPT !.pc = next, !.obj = new, !.stale = FALSE,
                                 !.moved = ow.stale \/ new # rs[r]]
    BY <1>4 DEF PatchUrl
  <2>2. r \in RemoteSecrets /\ rs[r] \in Objects /\ ow \in OAuthWorkers /\ oq \subseteq RemoteSecrets
        /\ rs[r].st # None
    BY DEF SecretsInv, SecretsTyped, Existed
  <2>3. /\ new \in Objects /\ new.st = rs[r].st /\ new.build = rs[r].build /\ new.app = rs[r].app
        /\ new.envs = rs[r].envs /\ new.targets = rs[r].targets /\ new.url = url
        /\ new.host = rs[r].host /\ new.cond = rs[r].cond
    BY <2>2 DEF Objects
  <2> HIDE DEF new
  <2>4. /\ ow' \in OAuthWorkers
        /\ \/ ow'.pc = "idle" /\ next = "dropCond"
           \/ /\ ow'.pc = next /\ ow'.key = r /\ ow'.obj = new /\ ow'.base = ow.base /\ ow'.cond = ow.cond
    <3> DEFINE m == ow.stale \/ new # rs[r]
    <3>1. m \in BOOLEAN
      OBVIOUS
    <3>2. \/ ow' = IdleOAuth /\ next = "dropCond"
          \/ ow' = [ow EXCEPT !.pc = next, !.obj = new, !.stale = FALSE, !.moved = m]
      BY <2>1
    <3> HIDE DEF m
    <3>3. CASE ow' = IdleOAuth /\ next = "dropCond"
      BY <3>3, SmallTypes
    <3>4. CASE ow' = [ow EXCEPT !.pc = next, !.obj = new, !.stale = FALSE, !.moved = m]
      BY <2>2, <2>3, <3>1, <3>4 DEF OAuthWorkers
    <3> QED
      BY <3>2, <3>3, <3>4
  <2>5. budget' \in Budgets /\ budget'.restarted = budget.restarted
    BY <2>1, SpendFaults DEF SecretsInv
  <2>6. oq' = (IF rs[r].url # url THEN oq \cup {r} ELSE oq) /\ oq' \subseteq RemoteSecrets
    BY <2>1, <2>2, <2>3 DEF OAuthQueue, OAuthWakes
  <2>7. SecretsTyped' /\ Existed' /\ CopiesCurrent' /\ OwnersInv'
    BY <2>1, <2>2, <2>3, <2>4, <2>5, <2>6, OAuthWrites
  <2>8. \A x \in RemoteSecrets : rs'[x] = IF x = r THEN new ELSE rs[x]
    BY <2>1 DEF SecretsInv, SecretsTyped
  <2>9. ASSUME r \notin oq', new.st = "live"
        PROVE  /\ rs[r].host = ow.obj.host /\ rs[r].url = ow.obj.url /\ rs[r].cond = ow.base.cond
               /\ rs[r].url = url /\ OnTheWay(ow)
    BY <2>2, <2>3, <2>6, <2>9 DEF SecretsInv, OAuthInv, InHand
  <2>10. r \notin oq' /\ new.st = "live" => ow.pc # "dropUrl"
    BY <2>9 DEF OnTheWay
  <2>11. NoneForgotten'
    <3>1. rs'[r].st = "live" => r \in oq' \/ (ow'.pc # "idle" /\ ow'.key = r)
      BY <2>2, <2>4, <2>8, <2>10
    <3>2. \A x \in RemoteSecrets \ {r} : rs'[x] = rs[x] /\ (x \in oq => x \in oq') /\ (ow.pc = "idle" \/ ow.key # x)
      BY <2>6, <2>8
    <3> QED
      BY <2>2, <2>5, <3>1, <3>2, OthersRemembered
  <2>12. InHand'
    <3> SUFFICES ASSUME ow'.pc # "idle", ow'.key \notin oq', rs'[ow'.key].st = "live"
                 PROVE  /\ rs'[ow'.key].host = ow'.obj.host /\ rs'[ow'.key].url = ow'.obj.url
                        /\ rs'[ow'.key].cond = ow'.base.cond
                        /\ OnTheWay(ow')
      BY DEF InHand, OnTheWay, Settles
    <3>1. ow'.pc = next /\ ow'.key = r /\ ow'.obj = new /\ ow'.base = ow.base /\ ow'.cond = ow.cond
          /\ rs'[r] = new /\ r \notin oq' /\ new.st = "live"
      BY <2>2, <2>4, <2>8
    <3>2. ow.pc = "addUrl" /\ next = "report" /\ url = ow.obj.host
      BY <2>10, <3>1
    <3>3. OnTheWay(ow')
      BY <2>3, <2>9, <3>1, <3>2 DEF OnTheWay
    <3> QED
      BY <2>3, <2>9, <3>1, <3>3
  <2> QED
    BY <2>7, <2>11, <2>12 DEF SecretsInv, OAuthInv
<1> QED
  BY <1>3, <1>4

LEMMA OAuthReportSecret == SecretsInv /\ OAuthReport => SecretsInv'
<1> SUFFICES ASSUME SecretsInv, OAuthReport PROVE SecretsInv'
  OBVIOUS
<1>1. ow.pc \in {"report", "dropCond"} /\ PatchConditions(ow.cond, ow.moved) /\ UNCHANGED <<env, app, eq, aq, aw>>
  BY DEF OAuthReport
<1>2. CASE OAuthFails(ow.moved /\ ow.stale)
  BY <1>1, <1>2, OAuthFailsSecret
<1>3. CASE ~OAuthFails(ow.moved /\ ow.stale)
  <2> DEFINE r == ow.key
             new == IF <<ow.cond, ow.obj.data>> = <<ow.base.cond, ow.base.data>> THEN rs[r]
                    ELSE [rs[r] EXCEPT !.cond = ow.cond, !.data = ow.obj.data]
  <2>1. /\ NoFault /\ rs' = [rs EXCEPT ![r] = new] /\ ew' = OutdatedEnv(r, new) /\ ow' = IdleOAuth
        /\ oq' = IF ow.again THEN oq \cup {r} ELSE oq
    BY <1>1, <1>3 DEF PatchConditions
  <2>2. r \in RemoteSecrets /\ rs[r] \in Objects /\ ow \in OAuthWorkers /\ oq \subseteq RemoteSecrets
        /\ rs[r].st # None
    BY <1>1 DEF SecretsInv, SecretsTyped, Existed
  <2>3. ow.cond \in Conditions /\ ow.obj.data \in BOOLEAN
    BY <2>2 DEF OAuthWorkers, Objects
  <2>4. /\ new \in Objects /\ new.st = rs[r].st /\ new.build = rs[r].build /\ new.app = rs[r].app
        /\ new.envs = rs[r].envs /\ new.targets = rs[r].targets /\ new.url = rs[r].url
        /\ new.host = rs[r].host /\ (new.cond = ow.cond \/ (new.cond = rs[r].cond /\ ow.cond = ow.base.cond))
    <3> DEFINE d == ow.obj.data
    <3> HIDE DEF d
    <3>1. (new = rs[r] /\ ow.cond = ow.base.cond) \/ new = [rs[r] EXCEPT !.cond = ow.cond, !.data = d]
      BY DEF d
    <3> HIDE DEF new
    <3> QED
      BY <2>2, <2>3, <3>1 DEF Objects, d
  <2> HIDE DEF new
  <2>5. ow' \in OAuthWorkers /\ ow'.pc = "idle"
    BY <2>1, SmallTypes
  <2>6. budget' \in Budgets /\ budget'.restarted = budget.restarted
    BY <2>1, SpendFaults DEF SecretsInv
  <2>7. oq \subseteq oq' /\ oq' \subseteq RemoteSecrets /\ (ow.again = TRUE => r \in oq')
    BY <2>1, <2>2
  <2>8. SecretsTyped' /\ Existed' /\ CopiesCurrent' /\ OwnersInv'
    BY <1>1, <2>1, <2>2, <2>4, <2>5, <2>6, <2>7, OAuthWrites
  <2>9. \A x \in RemoteSecrets : rs'[x] = IF x = r THEN new ELSE rs[x]
    BY <2>1 DEF SecretsInv, SecretsTyped
  <2>10. ASSUME r \notin oq', new.st = "live"
         PROVE  AsWanted(new.cond, new.host, new.url)
    <3>1. /\ rs[r].host = ow.obj.host /\ rs[r].url = ow.obj.url /\ rs[r].cond = ow.base.cond
          /\ OnTheWay(ow)
      BY <1>1, <2>4, <2>7, <2>10 DEF SecretsInv, OAuthInv, InHand
    <3>2. new.cond = ow.cond
      BY <2>4, <3>1
    <3>3. CASE ow.pc = "report"
      <4>1. ow.obj.host # None /\ Settles(ow.cond, ow.obj.host, ow.obj.url)
        BY <2>7, <2>10, <3>1, <3>3 DEF OnTheWay
      <4> QED
        BY <2>4, <3>1, <3>2, <4>1 DEF AsWanted
    <3>4. CASE ow.pc = "dropCond"
      BY <2>4, <3>1, <3>2, <3>4 DEF AsWanted, OnTheWay
    <3> QED
      BY <1>1, <3>3, <3>4
  <2>11. NoneForgotten'
    <3>1. rs'[r].st = "live" => r \in oq' \/ AsWanted(rs'[r].cond, rs'[r].host, rs'[r].url)
      BY <2>2, <2>9, <2>10
    <3>2. \A x \in RemoteSecrets \ {r} : rs'[x] = rs[x] /\ (x \in oq => x \in oq') /\ (ow.pc = "idle" \/ ow.key # x)
      BY <2>7, <2>9
    <3> QED
      BY <2>2, <2>6, <3>1, <3>2, OthersRemembered
  <2>12. InHand'
    BY <2>5 DEF InHand
  <2> QED
    BY <2>8, <2>11, <2>12 DEF SecretsInv, OAuthInv
<1> QED
  BY <1>2, <1>3

-----------------------------------------------------------------------------
(* The theorems.                                                              *)

LEMMA NextSecrets == SecretsInv /\ [Next]_vars => SecretsInv'
  BY OAuthGetSecret, OAuthProviderSecret, PatchUrlSecret, OAuthReportSecret,
     EnvGetSecret, EnvTargetsSecret, EnvUpdateSecret, AppGetSecret, AppSecretsSecret, AppUpdateSecret,
     CreateSecret, SetHostSecret, SetUrlSecret, AddEnvironmentSecret, DeleteEnvironmentSecret,
     DeleteApplicationSecret, DataSecret, GoneSecret, RestartSecret, StutterSecret
  DEF Next, OAuthReconcile, EnvReconcile, AppReconcile, Users

LEMMA SecretsAlways == Spec => []SecretsInv
<1>1. Init => SecretsInv
  BY InitSecrets
<1>2. SecretsInv /\ [Next]_vars => SecretsInv'
  BY NextSecrets
<1> QED
  BY <1>1, <1>2, PTL DEF Spec

\* Every variable of the three controllers keeps its type, and the clean-up
\* workers only ever hold RemoteSecrets that are not for builds (the label
\* selector of both Finalize functions).
THEOREM SecretsTypes == Spec => []TypeOK
<1>1. SecretsInv => TypeOK
  <2> SUFFICES ASSUME SecretsInv PROVE TypeOK
    OBVIOUS
  <2>1. SecretsTyped /\ Existed
    BY DEF SecretsInv
  <2>2. \A r \in RemoteSecrets : rs[r] \in Objects /\ ew.list[r] \in Objects
    BY <2>1 DEF SecretsTyped, EnvWorkers
  <2>3. /\ ow.pc \in {"idle", "provider", "dropUrl", "addUrl", "report", "dropCond"}
        /\ ow.obj \in Objects /\ ow.base \in Objects /\ ow.cond \in Conditions
    BY <2>1 DEF SecretsTyped, OAuthWorkers
  <2>4. /\ ew.pc \in {"idle", "adopt", "targets"} /\ ew.todo \subseteq RemoteSecrets
        /\ aw.pc \in {"idle", "adopt", "secrets"} /\ aw.todo \subseteq RemoteSecrets
    BY <2>1 DEF SecretsTyped, EnvWorkers, AppWorkers
  <2>5. \A r \in ew.todo \cup aw.todo : ~rs[r].build
    BY <2>1 DEF Existed
  <2> QED
    BY <2>1, <2>2, <2>3, <2>4, <2>5 DEF TypeOK, SecretsTyped, Budgets
<1> QED
  BY <1>1, SecretsAlways, PTL

\* Annotations are only ever made for hosts with OAuth.
OAuthUrls ==
  /\ \A r \in RemoteSecrets : rs[r].url # None => HasOAuth(rs[r].url)
  /\ ow.pc = "addUrl" => HasOAuth(ow.obj.host)

LEMMA InitUrls == Init => OAuthUrls
  BY DEF Init, OAuthUrls, Absent, IdleOAuth

\* What a step leaves of the annotations and of a worker about to make one.
UrlsLeft ==
  /\ \A r \in RemoteSecrets :
       rs'[r].url \in {rs[r].url, None} \/ (ow.pc = "addUrl" /\ rs'[r].url = ow.obj.host)
  /\ ow'.pc = "addUrl" => (ow.pc = "addUrl" /\ ow'.obj = ow.obj) \/ HasOAuth(ow'.obj.host)

LEMMA KeepUrls == OAuthUrls /\ UrlsLeft => OAuthUrls'
<1> SUFFICES ASSUME OAuthUrls, UrlsLeft PROVE OAuthUrls'
  OBVIOUS
<1>1. ASSUME NEW r \in RemoteSecrets, rs'[r].url # None PROVE HasOAuth(rs'[r].url)
  BY <1>1 DEF OAuthUrls, UrlsLeft
<1>2. ASSUME ow'.pc = "addUrl" PROVE HasOAuth(ow'.obj.host)
  BY <1>2 DEF OAuthUrls, UrlsLeft
<1>3. \A h : HasOAuth(h)' <=> HasOAuth(h)
  BY DEF HasOAuth
<1> QED
  BY <1>1, <1>2, <1>3 DEF OAuthUrls

LEMMA PutUrls ==
  ASSUME SecretsInv, NEW r \in RemoteSecrets, NEW new, Put(r, new), new.url \in {rs[r].url, None}
  PROVE  UrlsLeft
<1>1. \A x \in RemoteSecrets : rs'[x] = IF x = r THEN new ELSE rs[x]
  BY DEF Put, SecretsInv, SecretsTyped
<1>2. ow'.pc = ow.pc /\ ow'.obj = ow.obj
  BY DEF Put, OutdatedOAuth, SecretsInv, SecretsTyped, OAuthWorkers
<1> QED
  BY <1>1, <1>2 DEF UrlsLeft

LEMMA UserUrls == SecretsInv /\ Users => UrlsLeft
<1> SUFFICES ASSUME SecretsInv, Users PROVE UrlsLeft
  OBVIOUS
<1>0. \A r \in RemoteSecrets : rs[r] \in Objects
  BY DEF SecretsInv, SecretsTyped
<1>1. CASE CreateRemoteSecret
  <2>1. PICK r \in RemoteSecrets, t \in Templates : Put(r, [t EXCEPT !.targets = {Target[e] : e \in t.envs}])
    BY <1>1 DEF CreateRemoteSecret
  <2>2. t = [Absent("live") EXCEPT !.host = t.host, !.app = t.app, !.envs = t.envs, !.build = t.build]
    BY RemoteSecretConstants
  <2>3. [t EXCEPT !.targets = {Target[e] : e \in t.envs}].url = None
    BY <2>2 DEF Absent
  <2> QED
    BY <2>1, <2>3, PutUrls
<1>2. CASE SetHost
  <2>1. PICK r \in RemoteSecrets, h \in Hosts \cup {None} : Put(r, [rs[r] EXCEPT !.host = h])
    BY <1>2 DEF SetHost
  <2>2. [rs[r] EXCEPT !.host = h].url = rs[r].url
    BY <1>0 DEF Objects
  <2> QED
    BY <2>1, <2>2, PutUrls
<1>3. CASE SetUrl
  <2>1. PICK r \in RemoteSecrets : Put(r, [rs[r] EXCEPT !.url = None])
    BY <1>3 DEF SetUrl
  <2>2. [rs[r] EXCEPT !.url = None].url = None
    BY <1>0 DEF Objects
  <2> QED
    BY <2>1, <2>2, PutUrls
<1>4. CASE AddEnvironment
  <2>1. PICK r \in RemoteSecrets, e \in Environments :
          Put(r, [rs[r] EXCEPT !.envs = @ \cup {e}, !.targets = @ \cup {Target[e]}])
    BY <1>4 DEF AddEnvironment
  <2>2. [rs[r] EXCEPT !.envs = @ \cup {e}, !.targets = @ \cup {Target[e]}].url = rs[r].url
    BY <1>0 DEF Objects
  <2> QED
    BY <2>1, <2>2, PutUrls
<1>5. CASE DataObtained
  <2>1. PICK r \in RemoteSecrets : Put(r, [rs[r] EXCEPT !.data = TRUE])
    BY <1>5 DEF DataObtained
  <2>2. [rs[r] EXCEPT !.data = TRUE].url = rs[r].url
    BY <1>0 DEF Objects
  <2> QED
    BY <2>1, <2>2, PutUrls
<1>6. CASE RemoteSecretGone
  <2>1. PICK r \in RemoteSecrets : Put(r, Absent("gone"))
    BY <1>6 DEF RemoteSecretGone
  <2>2. Absent("gone").url = None
    BY DEF Absent
  <2> QED
    BY <2>1, <2>2, PutUrls
<1>7. CASE DeleteEnvironment \/ DeleteApplication
  BY <1>7 DEF DeleteEnvironment, DeleteApplication, workers, UrlsLeft
<1>8. CASE Restart
  BY <1>8 DEF Restart, IdleOAuth, UrlsLeft
<1> QED
  BY <1>1, <1>2, <1>3, <1>4, <1>5, <1>6, <1>7, <1>8 DEF Users

LEMMA OwnerUrls == SecretsInv /\ (EnvReconcile \/ AppReconcile) => UrlsLeft
<1> SUFFICES ASSUME SecretsInv, EnvReconcile \/ AppReconcile PROVE UrlsLeft
  OBVIOUS
<1>0. /\ \A r \in RemoteSecrets : rs[r] \in Objects /\ rs \in [RemoteSecrets -> Objects]
      /\ ow \in OAuthWorkers /\ ew.todo \subseteq RemoteSecrets /\ aw.todo \subseteq RemoteSecrets
  BY DEF SecretsInv, SecretsTyped, EnvWorkers, AppWorkers
<1>1. CASE rs' = rs /\ ow' = ow
  BY <1>1 DEF UrlsLeft
<1>2. ASSUME NEW r \in RemoteSecrets, NEW new, rs' = [rs EXCEPT ![r] = new], ow' = OutdatedOAuth(r, new),
             new.url = rs[r].url
      PROVE  UrlsLeft
  <2>1. \A x \in RemoteSecrets : rs'[x] = IF x = r THEN new ELSE rs[x]
    BY <1>0, <1>2
  <2>2. ow'.pc = ow.pc /\ ow'.obj = ow.obj
    BY <1>0, <1>2 DEF OutdatedOAuth, OAuthWorkers
  <2> QED
    BY <1>2, <2>1, <2>2 DEF UrlsLeft
<1>3. CASE EnvTargets
  <2>1. \/ rs' = rs /\ ow' = ow
        \/ \E r \in RemoteSecrets :
             LET new == [rs[r] EXCEPT !.targets = ew.list[r].targets \ {Target[ew.key]}]
             IN rs' = [rs EXCEPT ![r] = new] /\ ow' = OutdatedOAuth(r, new)
    BY <1>0, <1>3 DEF EnvTargets, RemoveTargets
  <2>2. ASSUME NEW r \in RemoteSecrets
        PROVE  [rs[r] EXCEPT !.targets = ew.list[r].targets \ {Target[ew.key]}].url = rs[r].url
    BY <1>0 DEF Objects
  <2> QED
    BY <1>1, <1>2, <2>1, <2>2
<1>4. CASE AppSecrets
  <2>1. \/ rs' = rs /\ ow' = ow
        \/ \E r \in RemoteSecrets :
             LET new == [rs[r] EXCEPT !.st = "deleting"]
             IN rs' = [rs EXCEPT ![r] = new] /\ ow' = OutdatedOAuth(r, new)
    BY <1>0, <1>4 DEF AppSecrets
  <2>2. ASSUME NEW r \in RemoteSecrets PROVE [rs[r] EXCEPT !.st = "deleting"].url = rs[r].url
    BY <1>0 DEF Objects
  <2> QED
    BY <1>1, <1>2, <2>1, <2>2
<1>5. CASE EnvGet \/ EnvUpdate \/ AppGet \/ AppUpdate
  BY <1>1, <1>5 DEF EnvGet, EnvUpdate, AppGet, AppUpdate
<1> QED
  BY <1>3, <1>4, <1>5 DEF EnvReconcile, AppReconcile

LEMMA OAuthUrlsLeft == SecretsInv /\ OAuthReconcile => UrlsLeft
<1> SUFFICES ASSUME SecretsInv, OAuthReconcile PROVE UrlsLeft
  OBVIOUS
<1>0. /\ rs \in [RemoteSecrets -> Objects] /\ ow \in OAuthWorkers
      /\ \A r \in RemoteSecrets : rs[r] \in Objects
  BY DEF SecretsInv, SecretsTyped
<1>1. IdleOAuth.pc = "idle"
  BY DEF IdleOAuth
<1>2. CASE rs' = rs /\ ow' = IdleOAuth
  BY <1>1, <1>2 DEF UrlsLeft
<1>3. CASE OAuthGet
  <2>1. rs' = rs /\ ow'.pc # "addUrl"
    BY <1>3 DEF OAuthGet, IdleOAuth
  <2> QED
    BY <2>1 DEF UrlsLeft
<1>4. CASE OAuthProvider
  <2>1. rs' = rs
    BY <1>4 DEF OAuthProvider
  <2>2. ow'.pc = "addUrl" => HasOAuth(ow'.obj.host)
    BY <1>0, <1>4 DEF OAuthProvider, OAuthWorkers, HasOAuth
  <2> QED
    BY <2>1, <2>2 DEF UrlsLeft
<1>5. ASSUME NEW url, NEW next, next # "addUrl", PatchUrl(url, next),
             url = None \/ (ow.pc = "addUrl" /\ url = ow.obj.host)
      PROVE  UrlsLeft
  <2>1. CASE OAuthFails(FALSE)
    BY <1>2, <2>1 DEF OAuthFails
  <2>2. CASE ~OAuthFails(FALSE)
    <3>1. PICK new : /\ new = [rs[ow.key] EXCEPT !.url = url]
                     /\ rs' = [rs EXCEPT ![ow.key] = new]
                     /\ ow' = IF next = "dropCond" /\ new.cond = NoCond THEN IdleOAuth
                              ELSE [ow EXCEPT !.pc = next, !.obj = new, !.stale = FALSE,
                                              !.moved = ow.stale \/ new # rs[ow.key]]
      BY <1>5, <2>2 DEF PatchUrl
    <3>2. ow'.pc # "addUrl"
      BY <1>0, <1>1, <1>5, <3>1 DEF OAuthWorkers
    <3>3. \A x \in RemoteSecrets : rs'[x].url = IF x = ow.key THEN url ELSE rs[x].url
      BY <1>0, <3>1 DEF Objects
    <3> QED
      BY <1>5, <3>2, <3>3 DEF UrlsLeft
  <2> QED
    BY <2>1, <2>2
<1>6. CASE OAuthDropUrl \/ OAuthAddUrl
  BY <1>5, <1>6 DEF OAuthDropUrl, OAuthAddUrl
<1>7. CASE OAuthReport
  <2>1. CASE rs' = rs /\ ow' = IdleOAuth
    BY <1>2, <2>1
  <2>2. CASE ~(rs' = rs /\ ow' = IdleOAuth)
    <3>1. PICK new : /\ new = (IF <<ow.cond, ow.obj.data>> = <<ow.base.cond, ow.base.data>> THEN rs[ow.key]
                               ELSE [rs[ow.key] EXCEPT !.cond = ow.cond, !.data = ow.obj.data])
                     /\ rs' = [rs EXCEPT ![ow.key] = new] /\ ow' = IdleOAuth
      BY <1>7, <2>2 DEF OAuthReport, PatchConditions, OAuthFails
    <3>2. \A x \in RemoteSecrets : rs'[x].url = rs[x].url
      <4>1. ow.key \in RemoteSecrets => new.url = rs[ow.key].url
        BY <1>0, <3>1 DEF Objects
      <4> QED
        BY <1>0, <3>1, <4>1
    <3> QED
      BY <1>1, <3>1, <3>2 DEF UrlsLeft
  <2> QED
    BY <2>1, <2>2
<1> QED
  BY <1>3, <1>4, <1>6, <1>7 DEF OAuthReconcile

\* Whenever the OAuth controller has nothing queued and nothing in hand, every
\* live RemoteSecret has the condition its host label asks for, and the URL of
\* its host if that supports OAuth; one whose host does not has no URL, or the
\* one that Reconcile left there from a former host with OAuth.
THEOREM UrlsFollowHosts == Spec => []UrlFollowsHost
<1>1. Init => OAuthUrls
  BY InitUrls
<1>2. SecretsInv /\ OAuthUrls /\ [Next]_vars => OAuthUrls'
  <2> SUFFICES ASSUME SecretsInv, OAuthUrls, [Next]_vars PROVE OAuthUrls'
    OBVIOUS
  <2>1. CASE Next
    BY <2>1, OAuthUrlsLeft, OwnerUrls, UserUrls, KeepUrls DEF Next
  <2>2. CASE UNCHANGED vars
    BY <2>2, KeepUrls DEF vars, workers, UrlsLeft
  <2> QED
    BY <2>1, <2>2
<1>3. SecretsInv /\ OAuthUrls => UrlFollowsHost
  <2> SUFFICES ASSUME SecretsInv, OAuthUrls, oq = {}, ow.pc = "idle",
                      NEW r \in RemoteSecrets, rs[r].st = "live"
               PROVE  IF rs[r].host = None THEN budget.restarted \/ (rs[r].url = None /\ rs[r].cond = NoCond)
                      ELSE IF HasOAuth(rs[r].host)
                      THEN rs[r].url = rs[r].host /\ rs[r].cond.reason = "Success"
                      ELSE /\ rs[r].cond = [reason |-> IF Provider[rs[r].host].err = "" THEN "NotSupported"
                                                       ELSE "Error",
                                            host |-> rs[r].host]
                           /\ rs[r].url # None => HasOAuth(rs[r].url) /\ rs[r].url # rs[r].host
    BY DEF UrlFollowsHost
  <2>1. \/ rs[r].host = None /\ budget.restarted = TRUE
        \/ AsWanted(rs[r].cond, rs[r].host, rs[r].url)
    BY DEF SecretsInv, OAuthInv, NoneForgotten
  <2>2. rs[r].url # None => HasOAuth(rs[r].url)
    BY DEF OAuthUrls
  <2> QED
    BY <2>1, <2>2 DEF AsWanted, Settles, HasOAuth
<1> QED
  BY <1>1, <1>2, <1>3, SecretsAlways, PTL DEF Spec

\* A finalized environment has left no target behind, a finalized application no
\* live RemoteSecret: the finalizers are removed only after a clean-up that no
\* concurrent write escaped.
THEOREM OwnersLeaveNothing == Spec => []GoneOwnersLeaveNothing
<1>1. SecretsInv => GoneOwnersLeaveNothing
  <2> SUFFICES ASSUME SecretsInv, NEW r \in RemoteSecrets, ~rs[r].build
               PROVE  /\ \A e \in rs[r].envs :
                           /\ env[e] = "gone" /\ Present(r)
                           /\ \A f \in Environments \ {e} : Target[f] # Target[e]
                           => Target[e] \notin rs[r].targets
                      /\ \A a \in Applications : app[a] = "gone" /\ rs[r].app = a => rs[r].st # "live"
    BY DEF GoneOwnersLeaveNothing
  <2>1. rs[r].build = FALSE /\ rs[r].envs \subseteq Environments
    BY DEF SecretsInv, SecretsTyped, Objects
  <2>2. \A e \in Environments : env[e] = "gone" => ~Carries(rs[r], e)
    BY DEF SecretsInv, OwnersInv, NothingLeft
  <2>3. \A a \in Applications : app[a] = "gone" => ~Belongs(rs[r], a)
    BY DEF SecretsInv, OwnersInv, NothingLeft
  <2> QED
    BY <2>1, <2>2, <2>3 DEF Carries, Belongs, Unique, Present
<1> QED
  BY <1>1, SecretsAlways, PTL

-----------------------------------------------------------------------------
(* The action properties.                                                     *)

\* A report that follows a change of the annotation does not undo a condition
\* that was written in between: the second patch carries the resource version.
THEOREM ReportsKeepData == Spec => ReportKeepsData
<1> DEFINE Kept == ow.pc = "report" /\ ow.moved /\ ow'.pc = "idle" /\ rs[ow.key].data => rs'[ow.key].data
<1>1. SecretsInv /\ [Next]_vars => [Kept]_vars
  <2> SUFFICES ASSUME SecretsInv, Next, ow.pc = "report", ow.moved, ow'.pc = "idle", rs[ow.key].data
               PROVE  rs'[ow.key].data
    BY DEF vars
  <2>1. ow.moved = TRUE /\ ow \in OAuthWorkers /\ ow.key \in RemoteSecrets /\ rs[ow.key] \in Objects
    BY DEF SecretsInv, SecretsTyped, OAuthWorkers
  <2>2. \A r \in RemoteSecrets : \A new : OutdatedOAuth(r, new).pc = ow.pc
    BY OutdatedWorkers DEF SecretsInv, SameOAuthWorker
  <2>3. CASE UNCHANGED rs
    BY <2>3
  <2>4. CASE \E r \in RemoteSecrets : \E new : ow' = OutdatedOAuth(r, new)
    BY <2>2, <2>4
  <2>5. CASE OAuthReport
    <3>1. CASE UNCHANGED rs
      BY <3>1
    <3>2. CASE ~UNCHANGED rs
      <4> DEFINE c == <<ow.cond, ow.obj.data>> = <<ow.base.cond, ow.base.data>>
                 d == ow.obj.data
      <4>1. /\ ~(ow.moved /\ ow.stale)
            /\ rs' = [rs EXCEPT ![ow.key] = IF c THEN rs[ow.key]
                                            ELSE [rs[ow.key] EXCEPT !.cond = ow.cond, !.data = d]]
        BY <2>5, <3>2 DEF OAuthReport, PatchConditions, OAuthFails
      <4>2. ow.stale = FALSE
        BY <2>1, <4>1 DEF OAuthWorkers
      <4>3. d = rs[ow.key].data
        BY <4>2 DEF SecretsInv, CopiesCurrent
      <4> HIDE DEF c, d
      <4>4. [rs[ow.key] EXCEPT !.cond = ow.cond, !.data = d].data = rs[ow.key].data
        BY <2>1, <4>3 DEF Objects
      <4> QED
        BY <2>1, <4>1, <4>4 DEF SecretsInv, SecretsTyped
    <3> QED
      BY <3>1, <3>2
  <2>6. OAuthReconcile => UNCHANGED rs \/ OAuthReport
    BY DEF OAuthReconcile, OAuthGet, OAuthProvider, OAuthDropUrl, OAuthAddUrl
  <2>7. EnvReconcile => UNCHANGED rs \/ \E r \in RemoteSecrets : \E new : ow' = OutdatedOAuth(r, new)
    <3>1. EnvTargets => UNCHANGED rs \/ \E r \in RemoteSecrets : \E new : ow' = OutdatedOAuth(r, new)
      BY DEF EnvTargets, RemoveTargets, SecretsInv, SecretsTyped, EnvWorkers
    <3> QED
      BY <3>1 DEF EnvReconcile, EnvGet, EnvUpdate
  <2>8. AppReconcile => UNCHANGED rs \/ \E r \in RemoteSecrets : \E new : ow' = OutdatedOAuth(r, new)
    <3>1. AppSecrets => UNCHANGED rs \/ \E r \in RemoteSecrets : \E new : ow' = OutdatedOAuth(r, new)
      BY DEF AppSecrets, SecretsInv, SecretsTyped, AppWorkers
    <3> QED
      BY <3>1 DEF AppReconcile, AppGet, AppUpdate
  <2>9. Users => UNCHANGED rs \/ \E r \in RemoteSecrets : \E new : ow' = OutdatedOAuth(r, new)
    BY DEF Users, CreateRemoteSecret, SetHost, SetUrl, AddEnvironment, DeleteEnvironment, DeleteApplication,
           DataObtained, RemoteSecretGone, Restart, Put
  <2> QED
    BY <2>3, <2>4, <2>5, <2>6, <2>7, <2>8, <2>9 DEF Next
<1> QED
  BY <1>1, SecretsAlways, PTL DEF Spec, ReportKeepsData

\* What a write of one RemoteSecret may take away.
OnlyDeleted(o, new) ==
  new.st # "gone" =>
    \A t \in o.targets \ new.targets : \E e \in Environments : env[e] = "deleting" /\ Target[e] = t

LEMMA OneWrite ==
  ASSUME SecretsTyped, NEW r \in RemoteSecrets, NEW new, OnlyDeleted(rs[r], new), rs' = [rs EXCEPT ![r] = new]
  PROVE  \A x \in RemoteSecrets : OnlyDeleted(rs[x], rs'[x])
<1>1. \A x \in RemoteSecrets : rs'[x] = IF x = r THEN new ELSE rs[x]
  BY DEF SecretsTyped
<1>2. \A x \in RemoteSecrets : OnlyDeleted(rs[x], rs[x])
  BY DEF OnlyDeleted
<1> QED
  BY <1>1, <1>2

\* A target only disappears while an environment with that target is being
\* deleted: the update of a listed RemoteSecret conflicts with every write since
\* the list, and so takes nothing with it.
THEOREM OthersTargetsStay == Spec => TargetsOfOthersKept
<1> DEFINE Kept == \A r \in RemoteSecrets : OnlyDeleted(rs[r], rs'[r])
<1>1. SecretsInv /\ [Next]_vars => Kept
  <2> SUFFICES ASSUME SecretsInv, [Next]_vars PROVE Kept
    OBVIOUS
  <2>1. SecretsTyped /\ rs \in [RemoteSecrets -> Objects]
    BY DEF SecretsInv, SecretsTyped
  <2>2. UNCHANGED rs => Kept
    BY DEF OnlyDeleted
  <2>3. ASSUME NEW r \in RemoteSecrets, NEW new, rs' = [rs EXCEPT ![r] = new], rs[r].targets \subseteq new.targets
        PROVE  Kept
    BY <2>1, <2>3, OneWrite DEF OnlyDeleted
  <2>4. ASSUME NEW r \in RemoteSecrets PROVE rs[r] \in Objects
    BY <2>1
  <2>5. CASE OAuthReconcile
    <3>1. OAuthReconcile => UNCHANGED rs \/ OAuthDropUrl \/ OAuthAddUrl \/ OAuthReport
      BY DEF OAuthReconcile, OAuthGet, OAuthProvider
    <3>2. ASSUME NEW url, NEW next, ow.pc # "idle", PatchUrl(url, next) PROVE Kept
      <4>1. ow.key \in RemoteSecrets
        BY <3>2, <2>1 DEF SecretsTyped
      <4>2. UNCHANGED rs \/ rs' = [rs EXCEPT ![ow.key] = [rs[ow.key] EXCEPT !.url = url]]
        BY <3>2 DEF PatchUrl, OAuthFails
      <4>3. [rs[ow.key] EXCEPT !.url = url].targets = rs[ow.key].targets
        BY <2>4, <4>1 DEF Objects
      <4> QED
        BY <2>2, <2>3, <4>1, <4>2, <4>3
    <3>3. CASE OAuthReport
      <4> DEFINE c == <<ow.cond, ow.obj.data>> = <<ow.base.cond, ow.base.data>>
                 d == ow.obj.data
                 new == IF c THEN rs[ow.key] ELSE [rs[ow.key] EXCEPT !.cond = ow.cond, !.data = d]
      <4>1. ow.key \in RemoteSecrets
        BY <3>3, <2>1 DEF SecretsTyped, OAuthReport
      <4>2. UNCHANGED rs \/ rs' = [rs EXCEPT ![ow.key] = new]
        BY <3>3 DEF OAuthReport, PatchConditions, OAuthFails
      <4> HIDE DEF c, d
      <4>3. new.targets = rs[ow.key].targets
        BY <2>4, <4>1 DEF Objects
      <4> QED
        BY <2>2, <2>3, <4>1, <4>2, <4>3
    <3> QED
      BY <2>2, <2>5, <3>1, <3>2, <3>3 DEF OAuthDropUrl, OAuthAddUrl
  <2>6. CASE EnvReconcile
    <3>1. CASE EnvTargets
      <4>1. ew.pc = "targets"
        BY <3>1 DEF EnvTargets, RemoveTargets
      <4>2. ew.key \in Environments /\ env[ew.key] = "deleting"
        BY <4>1 DEF SecretsInv, SecretsTyped, OwnersInv, EnvironmentInHand
      <4>3. UNCHANGED rs \/ \E r \in ew.todo : /\ r \notin ew.stale
              /\ rs' = [rs EXCEPT ![r] = [rs[r] EXCEPT !.targets = ew.list[r].targets \ {Target[ew.key]}]]
        BY <3>1 DEF EnvTargets, RemoveTargets
      <4>4. ASSUME NEW r \in ew.todo, r \notin ew.stale,
                   rs' = [rs EXCEPT ![r] = [rs[r] EXCEPT !.targets = ew.list[r].targets \ {Target[ew.key]}]]
            PROVE  Kept
        <5> DEFINE new == [rs[r] EXCEPT !.targets = ew.list[r].targets \ {Target[ew.key]}]
        <5>1. r \in RemoteSecrets /\ new.targets = rs[r].targets \ {Target[ew.key]}
          BY <4>1, <4>4, RemoveTarget
        <5>2. rs' = [rs EXCEPT ![r] = new]
          BY <4>4
        <5> HIDE DEF new
        <5>3. OnlyDeleted(rs[r], new)
          BY <4>2, <5>1 DEF OnlyDeleted
        <5> QED
          BY <2>1, <5>1, <5>2, <5>3, OneWrite
      <4> QED
        BY <2>2, <4>3, <4>4
    <3> QED
      BY <2>2, <2>6, <3>1 DEF EnvReconcile, EnvGet, EnvUpdate
  <2>7. CASE AppReconcile
    <3>1. CASE AppSecrets
      <4>1. UNCHANGED rs \/ \E r \in aw.todo : rs' = [rs EXCEPT ![r] = [rs[r] EXCEPT !.st = "deleting"]]
        BY <3>1 DEF AppSecrets
      <4>2. ASSUME NEW r \in aw.todo, rs' = [rs EXCEPT ![r] = [rs[r] EXCEPT !.st = "deleting"]]
            PROVE  Kept
        <5>1. r \in RemoteSecrets
          BY <2>1 DEF SecretsTyped, AppWorkers
        <5>2. [rs[r] EXCEPT !.st = "deleting"].targets = rs[r].targets
          BY <2>4, <5>1 DEF Objects
        <5> QED
          BY <2>3, <4>2, <5>1, <5>2
      <4> QED
        BY <2>2, <4>1, <4>2
    <3> QED
      BY <2>2, <2>7, <3>1 DEF AppReconcile, AppGet, AppUpdate
  <2>8. CASE Users
    <3>1. ASSUME NEW r \in RemoteSecrets, NEW new, Put(r, new), rs[r].targets \subseteq new.targets
          PROVE  Kept
      BY <2>3, <3>1 DEF Put
    <3>2. CASE CreateRemoteSecret
      <4>1. PICK r \in RemoteSecrets, new \in Templates :
              rs[r].st = None /\ Put(r, [new EXCEPT !.targets = {Target[e] : e \in new.envs}])
        BY <3>2 DEF CreateRemoteSecret
      <4>2. rs[r].targets = {}
        BY <4>1 DEF SecretsInv, Existed, Absent
      <4> QED
        BY <3>1, <4>1, <4>2
    <3>3. CASE SetHost
      <4>1. PICK r \in RemoteSecrets, h \in Hosts \cup {None} : Put(r, [rs[r] EXCEPT !.host = h])
        BY <3>3 DEF SetHost
      <4>2. [rs[r] EXCEPT !.host = h].targets = rs[r].targets
        BY <2>4 DEF Objects
      <4> QED
        BY <3>1, <4>1, <4>2
    <3>4. CASE SetUrl
      <4>1. PICK r \in RemoteSecrets : Put(r, [rs[r] EXCEPT !.url = None])
        BY <3>4 DEF SetUrl
      <4>2. [rs[r] EXCEPT !.url = None].targets = rs[r].targets
        BY <2>4 DEF Objects
      <4> QED
        BY <3>1, <4>1, <4>2
    <3>5. CASE AddEnvironment
      <4>1. PICK r \in RemoteSecrets, e \in Environments :
              Put(r, [rs[r] EXCEPT !.envs = @ \cup {e}, !.targets = @ \cup {Target[e]}])
        BY <3>5 DEF AddEnvironment
      <4>2. [rs[r] EXCEPT !.envs = @ \cup {e}, !.targets = @ \cup {Target[e]}].targets = rs[r].targets \cup {Target[e]}
        BY <2>4 DEF Objects
      <4> QED
        BY <3>1, <4>1, <4>2
    <3>6. CASE DataObtained
      <4>1. PICK r \in RemoteSecrets : Put(r, [rs[r] EXCEPT !.data = TRUE])
        BY <3>6 DEF DataObtained
      <4>2. [rs[r] EXCEPT !.data = TRUE].targets = rs[r].targets
        BY <2>4 DEF Objects
      <4> QED
        BY <3>1, <4>1, <4>2
    <3>7. CASE RemoteSecretGone
      <4>1. PICK r \in RemoteSecrets : rs' = [rs EXCEPT ![r] = Absent("gone")]
        BY <3>7 DEF RemoteSecretGone, Put
      <4>2. OnlyDeleted(rs[r], Absent("gone"))
        BY DEF OnlyDeleted, Absent
      <4> QED
        BY <2>1, <4>1, <4>2, OneWrite
    <3>8. CASE DeleteEnvironment \/ DeleteApplication \/ Restart
      BY <2>2, <3>8 DEF DeleteEnvironment, DeleteApplication, Restart
    <3> QED
      BY <2>8, <3>2, <3>3, <3>4, <3>5, <3>6, <3>7, <3>8 DEF Users
  <2>9. CASE UNCHANGED vars
    BY <2>2, <2>9 DEF vars
  <2> QED
    BY <2>5, <2>6, <2>7, <2>8, <2>9 DEF Next
<1>2. Kept => [\A r \in RemoteSecrets : rs'[r].st # "gone" =>
                 \A t \in rs[r].targets \ rs'[r].targets :
                   \E e \in Environments : env[e] = "deleting" /\ Target[e] = t]_vars
  BY DEF OnlyDeleted
<1> QED
  BY <1>1, <1>2, SecretsAlways, PTL DEF Spec, TargetsOfOthersKept
=============================================================================
