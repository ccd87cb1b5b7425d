---------------------------- MODULE OAuthService ----------------------------
(***************************************************************************)
(* The OAuth service: requests of browsers, each served by a goroutine of  *)
(* its own, that share one controller per provider type (with its sync     *)
(* strategy), the OAuth application settings of the process and the        *)
(* session store.                                                          *)
(***************************************************************************)
EXTENDS ProviderConfig

CONSTANTS
  Objects,        \* [kind, name, ns, host, scopes]: what the operator issues OAuth URLs for
  Sessions,       \* browsers
  Requests,       \* request goroutines running at the same time
  UserSecrets,    \* the provider configuration secrets users may create
  Workspaces,     \* the workspace list of the user: a sequence of sets of namespaces
  ApiServer,      \* whether clients go through the workspace API
  MaxBegins,      \* bound: requests in a behaviour
  MaxFlows,       \* bound: flows that get as far as being veiled
  MaxUpsets,      \* bound: changed secrets, expired sessions and restarts together
  DefaultRetry    \* attempts of retry.RetryOnConflict

NoScopes == "none"
Kinds == {"SPIAccessToken", "RemoteSecret"}
GlobalEntries == {<<SharedConfiguration[i].type, SharedConfiguration[i].host>> :
                    i \in DOMAIN SharedConfiguration}

ASSUME RequestsBegin == DefaultRetry \in Nat \ {0}
ASSUME ServiceConstants ==
  /\ \A o \in Objects : o.kind \in Kinds
  /\ Sessions # {} /\ IsFiniteSet(Requests)
  /\ MaxBegins \in Nat /\ MaxFlows \in Nat /\ MaxUpsets \in Nat

VARIABLES
  secrets,   \* the configuration secrets in the cluster
  urls,      \* the OAuth URLs the operator has issued: [obj, type, base]
  strategy,  \* per provider type: the sync strategy of its controller
  scopes,    \* per global configuration entry: the Scopes of its oauth2.Config
  sess,      \* the session store: [live, auth, veils]
  req,       \* the running requests
  flows,     \* the veiled flows, by veil: [url, s, asked, alone, owed, code]
  delivered, \* the token data that reached the cluster: [veil, kind, s, alone]
  budget     \* [begins, upsets]: how many may still come

shared == <<strategy, scopes>>
vars == <<secrets, urls, strategy, scopes, sess, req, flows, delivered, budget>>

NoSession == [live |-> FALSE, auth |-> FALSE, veils |-> {}]
\* "sess" is the request's copy of its session, "own" whether its OAuth
\* configuration is a copy from a secret, "alone" whether no other request ran
\* at the same time, "tries" the conflicts met.
NoUrl == [obj |-> CHOOSE o \in Objects : TRUE, type |-> "none", base |-> ""]
Idle == [op |-> "none", pc |-> "idle", s |-> CHOOSE s \in Sessions : TRUE, sess |-> NoSession,
         veil |-> 0, url |-> NoUrl, own |-> FALSE, alone |-> TRUE, tries |-> 0]

----------------------------------------------------------------------------
(* The operator, users and providers around the service.                    *)

\* oAuthUrlFor and RemoteSecretOAuthReconciler: the URL carries the type and
\* the base URL of the provider found now.
OAuthUrl(o) ==
  LET sp == FromRepoUrl(secrets, o.host)
  IN [obj |-> o, type |-> sp.type, base |-> sp.base]
HasOAuthUrl(o) ==
  LET sp == FromRepoUrl(secrets, o.host)
  IN sp.err = "" /\ sp.oauth

IssueUrl ==
  /\ \E o \in Objects :
       /\ HasOAuthUrl(o) /\ OAuthUrl(o) \notin urls
       /\ urls' = urls \cup {OAuthUrl(o)}
  /\ UNCHANGED <<secrets, shared, sess, req, flows, delivered, budget>>

Upset == budget.upsets > 0 /\ budget' = [budget EXCEPT !.upsets = @ - 1]

ChangeSecrets ==
  /\ Upset
  /\ \E s \in UserSecrets :
       secrets' = IF s \in secrets THEN secrets \ {s} ELSE secrets \cup {s}
  /\ UNCHANGED <<urls, shared, sess, req, flows, delivered>>

\* The provider lets the user in and sends the browser back with a code.
ProviderGrants ==
  /\ \E v \in DOMAIN flows :
       flows[v].code = "asked" /\ flows' = [flows EXCEPT ![v].code = "granted"]
  /\ UNCHANGED <<secrets, urls, shared, sess, req, delivered, budget>>

----------------------------------------------------------------------------
(* Requests.  scs.LoadAndSave hands the handler a copy of the session and,  *)
(* because of the idle timeout, writes the whole copy back with the answer. *)

CreateClient(ns) == ApiServer => \E i \in DOMAIN Workspaces : ns \in Workspaces[i]

Begin(r, op, s, veil, url) ==
  /\ req[r].pc = "idle" /\ budget.begins > 0
  /\ budget' = [budget EXCEPT !.begins = @ - 1]
  /\ LET others == {q \in Requests : req[q].pc # "idle"}
     IN req' = [q \in Requests |->
                  IF q = r THEN [op |-> op, pc |-> "route", s |-> s, sess |-> sess[s],
                                 veil |-> veil, url |-> url, own |-> FALSE,
                                 alone |-> others = {}, tries |-> 0]
                  ELSE IF q \in others THEN [req[q] EXCEPT !.alone = FALSE] ELSE req[q]]
  /\ UNCHANGED <<secrets, urls, shared, sess, flows, delivered>>

BeginAuthenticate(r) ==
  /\ Len(flows) + Cardinality({q \in Requests : req[q].op = "authenticate" /\ req[q].veil = 0}) < MaxFlows
  /\ \E s \in Sessions, u \in urls : Begin(r, "authenticate", s, 0, u)
\* The browser follows the provider's redirect, possibly more than once.
BeginCallback(r) ==
  \E v \in DOMAIN flows, s \in Sessions :
    flows[v].code \in {"granted", "used"} /\ Begin(r, "callback", s, v, flows[v].url)
BeginLogin(r) == \E s \in Sessions : Begin(r, "login", s, 0, NoUrl)
BeginLogout(r) == \E s \in Sessions : sess[s].live /\ Begin(r, "logout", s, 0, NoUrl)

Goto(r, pc) == req' = [req EXCEPT ![r].pc = pc]
EndRequest(r) == req' = [req EXCEPT ![r] = Idle]

\* A session that was found, or that the handler has put something into, is
\* stored again.
Modified(copy) == copy.live \/ copy.auth \/ copy.veils # {}
Answer(r, copy) ==
  /\ sess' = IF Modified(copy)
             THEN [sess EXCEPT ![req[r].s] = [copy EXCEPT !.live = TRUE]] ELSE sess
  /\ EndRequest(r)

\* Router.findController: the strategy is set on the shared controller.  A
\* callback is refused unless its own session knows the veil.
Route(r, known, next) ==
  /\ req[r].pc = "route" /\ req[r].op \in {"authenticate", "callback"}
  /\ IF known
     THEN strategy' = next /\ UNCHANGED sess
          /\ Goto(r, IF req[r].op = "callback" THEN "exchange" ELSE "access")
     ELSE Answer(r, req[r].sess) /\ UNCHANGED strategy
  /\ UNCHANGED <<secrets, urls, scopes, flows, delivered, budget>>

UnveilState(r) == req[r].op = "callback" => req[r].veil \in req[r].sess.veils
setSyncStrategy(r) == [strategy EXCEPT ![req[r].url.type] = req[r].url.obj.kind]

\* Mutant: the strategy is only set when a flow starts.
FindControllerOnce(r) ==
  Route(r, UnveilState(r), IF req[r].op = "authenticate" THEN setSyncStrategy(r) ELSE strategy)
\* Mutant: a veil known to any session is accepted.
FindControllerAnywhere(r) == Route(r, TRUE, setSyncStrategy(r))

FindController(r) == Route(r, UnveilState(r), setSyncStrategy(r))

\* Authenticator.GetToken: a token in the form is kept in the session.
GetToken(copy, form) == [copy EXCEPT !.auth = @ \/ form]
\* Authenticator.GetTokenFromSession
GetTokenFromSession(copy) == copy.auth

\* What checkIdentityHasAccess asks the cluster, with either strategy.
SPIAccessTokenReviews == {<<"create", "spiaccesstokendataupdates">>}
RemoteSecretReviews == {<<verb, "remotesecrets">> : verb \in {"get", "update"}}
checkIdentityHasAccess(kind, ns, allowed) ==
  /\ CreateClient(ns)
  /\ (IF kind = "RemoteSecret" THEN RemoteSecretReviews ELSE SPIAccessTokenReviews) \subseteq allowed

\* Mutant: the state is not put into the session.
VeilForgotten(copy, v) == copy

VeilRealState(copy, v) == [copy EXCEPT !.veils = @ \cup {v}]

\* Authenticate up to VeilRealState; access is checked with the strategy that is
\* set by now.
Access(r) ==
  /\ req[r].pc = "access"
  /\ \E form \in BOOLEAN, allowed \in SUBSET (SPIAccessTokenReviews \cup RemoteSecretReviews) :
       LET copy == GetToken(req[r].sess, form)
           v == Len(flows) + 1
       IN IF copy.auth /\ checkIdentityHasAccess(strategy[req[r].url.type], req[r].url.obj.ns, allowed)
          THEN /\ flows' = Append(flows, [url |-> req[r].url, s |-> req[r].s, asked |-> NoScopes,
                                          alone |-> FALSE, owed |-> FALSE, code |-> "none"])
               /\ req' = [req EXCEPT ![r].pc = "config", ![r].veil = v,
                                     ![r].sess = VeilRealState(copy, v)]
               /\ UNCHANGED sess
          ELSE Answer(r, copy) /\ UNCHANGED flows
  /\ UNCHANGED <<secrets, urls, shared, delivered, budget>>

\* obtainOauthConfig, then the flow's scopes are set on the configuration:
\* a copy if it came from a secret, else the one of the process.
ConfigureWith(r, sc) ==
  /\ req[r].pc = "config"
  /\ LET u == req[r].url
         cfg == obtainOauthConfig(secrets, u.type, u.base)
     IN IF cfg.st = "ok"
        THEN /\ scopes' = IF cfg.own THEN scopes
                          ELSE [scopes EXCEPT ![<<u.type, u.base>>] = sc]
             /\ req' = [req EXCEPT ![r].pc = "redirect", ![r].own = cfg.own]
             /\ UNCHANGED sess
        ELSE Answer(r, req[r].sess) /\ UNCHANGED scopes
  /\ UNCHANGED <<secrets, urls, strategy, flows, delivered, budget>>

\* Mutant: the scopes are not set.
ConfigureOnly(r) == ConfigureWith(r, NoScopes)

Configure(r) == ConfigureWith(r, req[r].url.obj.scopes)

\* AuthCodeURL reads the scopes back from the configuration.
Redirect(r) ==
  /\ req[r].pc = "redirect"
  /\ LET u == req[r].url
     IN flows' = [flows EXCEPT ![req[r].veil].code = "asked",
                               ![req[r].veil].alone = req[r].alone,
                               ![req[r].veil].owed = req[r].alone,
                               ![req[r].veil].asked =
                                  IF req[r].own THEN u.obj.scopes ELSE scopes[<<u.type, u.base>>]]
  /\ Answer(r, req[r].sess)
  /\ UNCHANGED <<secrets, urls, shared, delivered, budget>>

\* finishOAuthExchange: the session must hold a Kubernetes token, the
\* configuration must still be there, and the provider takes a code once.
Exchange(r) ==
  /\ req[r].pc = "exchange"
  /\ LET cfg == obtainOauthConfig(secrets, req[r].url.type, req[r].url.base)
     IN \/ /\ GetTokenFromSession(req[r].sess) /\ cfg.st = "ok" /\ flows[req[r].veil].code = "granted"
           /\ flows' = [flows EXCEPT ![req[r].veil].code = "used"]
           /\ Goto(r, "sync") /\ UNCHANGED sess
        \/ Answer(r, req[r].sess) /\ UNCHANGED flows
  /\ UNCHANGED <<secrets, urls, shared, delivered, budget>>

\* The data reaches the object of the kind the strategy in force writes to.
Deliver(r) ==
  delivered' = delivered \cup {[veil |-> req[r].veil, kind |-> strategy[req[r].url.type],
                                s |-> req[r].s, alone |-> req[r].alone]}

\* Mutant: the number of attempts is not limited.
ConflictForever(r) == req' = [req EXCEPT ![r].tries = 1 - @]
\* Mutant: one attempt too many.
ConflictOnceMore(r) == req[r].tries < DefaultRetry /\ req' = [req EXCEPT ![r].tries = @ + 1]

Conflict(r) == req[r].tries + 1 < DefaultRetry /\ req' = [req EXCEPT ![r].tries = @ + 1]

\* syncTokenData of either strategy: any call may fail and the object may be
\* missing.  Data for an SPIAccessToken may be stored although the notification
\* fails afterwards; the update of a RemoteSecret is retried on conflict.
SyncSPIAccessToken(r) == (Deliver(r) \/ UNCHANGED delivered) /\ Answer(r, req[r].sess)
SyncRemoteSecret(r) ==
  \/ (Deliver(r) \/ UNCHANGED delivered) /\ Answer(r, req[r].sess)
  \/ Conflict(r) /\ UNCHANGED <<sess, delivered>>

\* The rest of Callback: the strategy that is set by now takes the token.
Sync(r) ==
  /\ req[r].pc = "sync"
  /\ IF ~CreateClient(req[r].url.obj.ns) THEN UNCHANGED delivered /\ Answer(r, req[r].sess)
     ELSE IF strategy[req[r].url.type] = "RemoteSecret" THEN SyncRemoteSecret(r)
     ELSE SyncSPIAccessToken(r)
  /\ UNCHANGED <<secrets, urls, shared, flows, budget>>

\* Authenticator.Login, with a token or without one.
Login(r) ==
  /\ req[r].pc = "route" /\ req[r].op = "login"
  /\ \E token \in BOOLEAN : Answer(r, [req[r].sess EXCEPT !.auth = @ \/ token])
  /\ UNCHANGED <<secrets, urls, shared, flows, delivered, budget>>

\* The flows of a session that has ended cannot return to it.
Disowned(ended) == [v \in DOMAIN flows |->
                      IF flows[v].s \in ended THEN [flows[v] EXCEPT !.owed = FALSE] ELSE flows[v]]

\* Authenticator.Logout: Destroy deletes the session from the store; another
\* request that still runs may store its copy again.
Logout(r) ==
  /\ req[r].pc = "route" /\ req[r].op = "logout"
  /\ sess' = [sess EXCEPT ![req[r].s] = NoSession]
  /\ flows' = Disowned({req[r].s})
  /\ EndRequest(r)
  /\ UNCHANGED <<secrets, urls, shared, delivered, budget>>

\* IdleTimeout and Lifetime of the session manager.
SessionExpires ==
  /\ Upset
  /\ \E s \in Sessions :
       /\ sess[s].live /\ sess' = [sess EXCEPT ![s] = NoSession]
       /\ flows' = Disowned({s})
  /\ UNCHANGED <<secrets, urls, shared, req, delivered>>

\* NewRouter and InitController: the process starts with no sessions, the SPI
\* strategy and the configuration as loaded.
Started ==
  /\ strategy' = [t \in ProviderTypes |-> "SPIAccessToken"]
  /\ scopes' = [e \in GlobalEntries |-> NoScopes]
  /\ sess' = [s \in Sessions |-> NoSession]
  /\ req' = [r \in Requests |-> Idle]

Restart ==
  /\ Upset
  /\ Started /\ flows' = Disowned(Sessions)
  /\ UNCHANGED <<secrets, urls, delivered>>

----------------------------------------------------------------------------
Init ==
  /\ secrets \in SUBSET UserSecrets /\ urls = {OAuthUrl(o) : o \in {x \in Objects : HasOAuthUrl(x)}}
  /\ strategy = [t \in ProviderTypes |-> "SPIAccessToken"]
  /\ scopes = [e \in GlobalEntries |-> NoScopes]
  /\ sess = [s \in Sessions |-> NoSession]
  /\ req = [r \in Requests |-> Idle]
  /\ flows = <<>> /\ delivered = {}
  /\ budget = [begins |-> MaxBegins, upsets |-> MaxUpsets]

Arrive(r) == BeginAuthenticate(r) \/ BeginCallback(r) \/ BeginLogin(r) \/ BeginLogout(r)
Handle(r) == \/ FindController(r) \/ Access(r) \/ Configure(r) \/ Redirect(r)
             \/ Exchange(r) \/ Sync(r) \/ Login(r) \/ Logout(r)

Next == \/ IssueUrl \/ ChangeSecrets \/ ProviderGrants \/ SessionExpires \/ Restart
        \/ \E r \in Requests : Arrive(r) \/ Handle(r)

Spec == Init /\ [][Next]_vars

\* The goroutine of a request keeps running; nobody has to send a request.
FairSpec == Spec /\ \A r \in Requests : WF_vars(Handle(r))

----------------------------------------------------------------------------
Urls == [obj : Objects, type : ProviderTypes, base : {o.host : o \in Objects} \cup {DefaultHost("Quay")}]
SessionData == [live : BOOLEAN, auth : BOOLEAN, veils : SUBSET (1..MaxFlows)]
AnyScopes == {o.scopes : o \in Objects} \cup {NoScopes}

TypeOK ==
  /\ secrets \subseteq UserSecrets /\ urls \subseteq Urls
  /\ strategy \in [ProviderTypes -> Kinds] /\ scopes \in [GlobalEntries -> AnyScopes]
  /\ sess \in [Sessions -> SessionData]
  /\ req \in [Requests ->
       [op : {"none", "authenticate", "callback", "login", "logout"},
        pc : {"idle", "route", "access", "config", "redirect", "exchange", "sync"},
        s : Sessions, sess : SessionData, veil : 0..MaxFlows, url : Urls \cup {NoUrl},
        own : BOOLEAN, alone : BOOLEAN, tries : 0..(DefaultRetry - 1)]]
  /\ Len(flows) <= MaxFlows
  /\ \A v \in DOMAIN flows :
       flows[v] \in [url : Urls, s : Sessions, asked : AnyScopes, alone : BOOLEAN, owed : BOOLEAN,
                     code : {"none", "asked", "granted", "used"}]
  /\ delivered \subseteq [veil : DOMAIN flows, kind : Kinds, s : Sessions, alone : BOOLEAN]
  /\ budget \in [begins : 0..MaxBegins, upsets : 0..MaxUpsets]

\* Whatever requests ran before, and whichever strategy they left behind on the
\* shared controller, a callback that runs alone hands the data to an object of
\* the kind the flow was started for.
AloneReachesItsKind ==
  \A d \in delivered : d.alone => d.kind = flows[d.veil].url.obj.kind

\* OAuthInfo names "the kind of the object for which we are initiating the OAuth
\* flow" (pkg/spi-shared/oauthstate/anonymous.go:34): the data goes to an object
\* of that kind.
FlowReachesItsKind ==
  \A d \in delivered : d.kind = flows[d.veil].url.obj.kind

\* A flow is completed only in the browser session in which it was veiled, also
\* if sessions expire, are destroyed, restored or lost in between.
SameSession == \A d \in delivered : d.s = flows[d.veil].s

\* The provider is asked for the scopes that the operator wrote into the OAuth
\* URL when no other request can have changed the shared configuration, and
\* always when the configuration is the request's own copy.
AskedScopes ==
  /\ \A v \in DOMAIN flows : flows[v].alone => flows[v].asked = flows[v].url.obj.scopes
  /\ \A v \in DOMAIN flows :
       flows[v].code # "none" /\ <<flows[v].url.type, flows[v].url.base>> \notin GlobalEntries
         => flows[v].asked = flows[v].url.obj.scopes

\* A veil put into a session by a request that ran alone is still there when the
\* provider sends the browser back, however many requests of that session
\* overlap afterwards and write back their copies, until the session ends.
ReturnPossible ==
  \A v \in DOMAIN flows : flows[v].owed => sess[flows[v].s].live /\ v \in sess[flows[v].s].veils

\* Every request is answered, also if the RemoteSecret keeps changing under it.
RequestsAnswered == \A r \in Requests : (req[r].pc # "idle") ~> (req[r].pc = "idle")
=============================================================================
