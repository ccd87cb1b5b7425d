----------------------------- MODULE OAuthProofs -----------------------------
(***************************************************************************)
(* The invariants of OAuthService for every instance.  SameSession speaks  *)
(* of data that has been delivered; it is inductive only together with     *)
(* what the session store, the copies of sessions that running requests    *)
(* will write back, and the requests past the router hold (VeilsStayHome). *)
(* The rest follows from ServiceInv, which says what a request that runs   *)
(* alone may rely on and what every copy of a session still holds.         *)
(***************************************************************************)
EXTENDS OAuthService, SequenceTheorems, FiniteSetTheorems, TLAPS

\* A veil found in session s belongs to a flow that was veiled in s.
VeilOf(v, s) == v \in DOMAIN flows /\ flows[v].s = s

FlowsShaped ==
  /\ \E S : flows \in Seq(S)
  /\ \A v \in DOMAIN flows : "s" \in DOMAIN flows[v]

SessionOK(copy, s) == "veils" \in DOMAIN copy /\ \A v \in copy.veils : VeilOf(v, s)

StoreOK ==
  /\ DOMAIN sess = Sessions
  /\ \A s \in Sessions : SessionOK(sess[s], s)

RequestShaped(q) == {"op", "pc", "s", "sess", "veil", "url", "own", "alone", "tries"} \subseteq DOMAIN q

\* A request past the router of a callback has found its veil in its session.
RequestsOK ==
  /\ DOMAIN req = Requests
  /\ \A r \in Requests :
       /\ RequestShaped(req[r])
       /\ SessionOK(req[r].sess, req[r].s)
       /\ req[r].pc \in {"exchange", "sync"} => req[r].veil \in req[r].sess.veils

DeliveredOK == \A d \in delivered : VeilOf(d.veil, d.s)

VeilsStayHome == FlowsShaped /\ StoreOK /\ RequestsOK /\ DeliveredOK

\* No step takes a flow away or moves it to another session.
Grows ==
  /\ FlowsShaped'
  /\ \A v \in DOMAIN flows : v \in DOMAIN flows' /\ flows'[v].s = flows[v].s

----------------------------------------------------------------------------
(* Lemmas about sequences and about the ways a step changes the state.      *)

\* A sequence extended by one element.
LEMMA AppendKeeps ==
  ASSUME NEW S, NEW f \in Seq(S), NEW x
  PROVE  /\ Append(f, x) \in Seq(S \cup {x})
         /\ DOMAIN Append(f, x) = DOMAIN f \cup {Len(f) + 1}
         /\ \A v \in DOMAIN f : Append(f, x)[v] = f[v]
         /\ Append(f, x)[Len(f) + 1] = x
<1>1. f \in Seq(S \cup {x})
  OBVIOUS
<1>2. x \in S \cup {x}
  OBVIOUS
<1> QED
  BY <1>1, <1>2, AppendProperties

\* A function with the domain of a sequence is a sequence.
LEMMA SameDomainIsSequence ==
  ASSUME NEW S, NEW f \in Seq(S), NEW g, g = [v \in DOMAIN f |-> g[v]]
  PROVE  \E T : g \in Seq(T)
<1> DEFINE T == {g[v] : v \in DOMAIN f}
<1>1. PICK n \in Nat : DOMAIN f = 1..n
  BY LenProperties
<1>2. g \in [1..n -> T]
  BY <1>1
<1>3. g \in Seq(T)
  BY <1>2, SeqDef
<1> QED
  BY <1>3

\* Flows whose fields other than the session change.
LEMMA UpdateGrows ==
  ASSUME FlowsShaped, flows' = [v \in DOMAIN flows |-> flows'[v]],
         \A v \in DOMAIN flows : flows'[v].s = flows[v].s /\ "s" \in DOMAIN flows'[v]
  PROVE  Grows
<1>1. PICK S : flows \in Seq(S)
  BY DEF FlowsShaped
<1>2. \E T : flows' \in Seq(T)
  BY <1>1, SameDomainIsSequence
<1>3. DOMAIN flows' = DOMAIN flows
  OBVIOUS
<1> QED
  BY <1>2, <1>3 DEF Grows, FlowsShaped

LEMMA UnchangedGrows ==
  ASSUME FlowsShaped, UNCHANGED flows
  PROVE  Grows
BY DEF Grows, FlowsShaped

\* A session that was in order before a step still is.
LEMMA SessionKept ==
  ASSUME Grows, NEW copy, NEW s, SessionOK(copy, s)
  PROVE  /\ "veils" \in DOMAIN copy
         /\ \A v \in copy.veils : v \in DOMAIN flows' /\ flows'[v].s = s
BY DEF Grows, SessionOK, VeilOf

LEMMA StoreKept ==
  ASSUME Grows, StoreOK, UNCHANGED sess
  PROVE  StoreOK'
BY DEF Grows, StoreOK, SessionOK, VeilOf

LEMMA RequestsKept ==
  ASSUME Grows, RequestsOK, UNCHANGED req
  PROVE  RequestsOK'
BY DEF Grows, RequestsOK, SessionOK, VeilOf

LEMMA DeliveredKept ==
  ASSUME Grows, DeliveredOK, UNCHANGED delivered
  PROVE  DeliveredOK'
BY DEF Grows, DeliveredOK, VeilOf

\* A request writes back its copy of the session, and ends.
LEMMA EndKeeps ==
  ASSUME Grows, RequestsOK, NEW r \in Requests, EndRequest(r)
  PROVE  RequestsOK'
<1>1. RequestShaped(Idle) /\ "veils" \in DOMAIN Idle.sess /\ Idle.sess.veils = {} /\ Idle.pc = "idle"
  BY DEF Idle, NoSession, RequestShaped
<1>2. req' = [req EXCEPT ![r] = Idle]
  BY DEF EndRequest
<1> HIDE DEF Idle
<1> QED
  BY <1>1, <1>2 DEF Grows, RequestsOK, SessionOK, VeilOf, RequestShaped

LEMMA AnswerKeeps ==
  ASSUME Grows, StoreOK, RequestsOK, NEW r \in Requests, NEW copy,
         SessionOK(copy, req[r].s), Answer(r, copy)
  PROVE  StoreOK' /\ RequestsOK'
<1>1. RequestsOK'
  BY EndKeeps DEF Answer
<1>2. CASE sess' = sess
  BY <1>1, <1>2, StoreKept
<1>3. CASE sess' = [sess EXCEPT ![req[r].s] = [copy EXCEPT !.live = TRUE]]
  <2>1. "veils" \in DOMAIN [copy EXCEPT !.live = TRUE] /\ [copy EXCEPT !.live = TRUE].veils = copy.veils
    BY DEF SessionOK
  <2>2. StoreOK'
    BY <1>3, <2>1 DEF Grows, StoreOK, SessionOK, VeilOf
  <2> QED
    BY <1>1, <2>2
<1> QED
  BY <1>2, <1>3 DEF Answer

----------------------------------------------------------------------------
(* One lemma per action of a request.                                       *)

LEMMA BeginKeeps ==
  ASSUME VeilsStayHome, NEW r \in Requests, NEW op, NEW s \in Sessions, NEW veil, NEW url,
         Begin(r, op, s, veil, url)
  PROVE  VeilsStayHome'
<1>1. Grows
  BY UnchangedGrows DEF VeilsStayHome, Begin
<1>2. StoreOK' /\ DeliveredOK'
  BY <1>1, StoreKept, DeliveredKept DEF VeilsStayHome, Begin
<1>3. RequestsOK'
  <2> DEFINE new == [op |-> op, pc |-> "route", s |-> s, sess |-> sess[s], veil |-> veil, url |-> url,
                     own |-> FALSE, alone |-> {q \in Requests : req[q].pc # "idle"} = {}, tries |-> 0]
  <2>1. RequestShaped(new) /\ new.pc = "route" /\ new.s = s /\ new.sess = sess[s]
    BY DEF RequestShaped
  <2>2. SessionOK(sess[s], s)
    BY DEF VeilsStayHome, StoreOK
  <2>3. DOMAIN req' = Requests
    BY DEF Begin
  <2>4. req'[r] = new
    BY DEF Begin
  <2>5. ASSUME NEW q \in Requests, q # r
        PROVE  req'[q] \in {req[q], [req[q] EXCEPT !.alone = FALSE]}
    BY <2>5 DEF Begin
  <2> HIDE DEF new
  <2>6. UNCHANGED flows
    BY DEF Begin
  <2>7. ASSUME NEW q \in Requests, q # r
        PROVE  /\ RequestShaped(req'[q]) /\ req'[q].sess = req[q].sess /\ req'[q].s = req[q].s
               /\ req'[q].pc = req[q].pc /\ req'[q].veil = req[q].veil
    BY <2>5, <2>7 DEF VeilsStayHome, RequestsOK, RequestShaped
  <2> QED
    BY <2>1, <2>2, <2>3, <2>4, <2>6, <2>7 DEF VeilsStayHome, RequestsOK, SessionOK, VeilOf
<1> QED
  BY <1>1, <1>2, <1>3 DEF VeilsStayHome, Grows

LEMMA ArriveKeeps ==
  ASSUME VeilsStayHome, NEW r \in Requests, Arrive(r)
  PROVE  VeilsStayHome'
BY BeginKeeps DEF Arrive, BeginAuthenticate, BeginCallback, BeginLogin, BeginLogout

\* The pc moves on; for a callback, the router has found the veil.
LEMMA GotoKeeps ==
  ASSUME Grows, RequestsOK, NEW r \in Requests, NEW pc, Goto(r, pc),
         pc \in {"exchange", "sync"} => req[r].veil \in req[r].sess.veils
  PROVE  RequestsOK'
<1>1. req' = [req EXCEPT ![r].pc = pc]
  BY DEF Goto
<1>2. /\ DOMAIN req' = Requests
      /\ \A q \in Requests : /\ RequestShaped(req'[q]) /\ req'[q].sess = req[q].sess /\ req'[q].s = req[q].s
                             /\ req'[q].veil = req[q].veil
                             /\ req'[q].pc = IF q = r THEN pc ELSE req[q].pc
  BY <1>1 DEF RequestsOK, RequestShaped
<1> QED
  BY <1>2 DEF Grows, RequestsOK, SessionOK, VeilOf

LEMMA FindControllerKeeps ==
  ASSUME VeilsStayHome, NEW r \in Requests, FindController(r)
  PROVE  VeilsStayHome'
<1>1. Grows
  BY UnchangedGrows DEF VeilsStayHome, FindController, Route
<1>2. DeliveredOK'
  BY <1>1, DeliveredKept DEF VeilsStayHome, FindController, Route
<1>3. CASE UnveilState(r)
  <2>1. UNCHANGED sess /\ Goto(r, IF req[r].op = "callback" THEN "exchange" ELSE "access")
    BY <1>3 DEF FindController, Route
  <2>2. RequestsOK'
    BY <1>1, <1>3, <2>1, GotoKeeps DEF VeilsStayHome, UnveilState
  <2> QED
    BY <1>1, <1>2, <2>1, <2>2, StoreKept DEF VeilsStayHome, Grows
<1>4. CASE ~UnveilState(r)
  <2>1. Answer(r, req[r].sess)
    BY <1>4 DEF FindController, Route
  <2>2. SessionOK(req[r].sess, req[r].s)
    BY DEF VeilsStayHome, RequestsOK
  <2> QED
    BY <1>1, <1>2, <2>1, <2>2, AnswerKeeps DEF VeilsStayHome, Grows
<1> QED
  BY <1>3, <1>4

LEMMA AccessKeeps ==
  ASSUME VeilsStayHome, NEW r \in Requests, Access(r)
  PROVE  VeilsStayHome'
<1>1. PICK form \in BOOLEAN :
        LET copy == GetToken(req[r].sess, form)
            v == Len(flows) + 1
        IN \/ /\ flows' = Append(flows, [url |-> req[r].url, s |-> req[r].s, asked |-> NoScopes,
                                         alone |-> FALSE, owed |-> FALSE, code |-> "none"])
              /\ req' = [req EXCEPT ![r].pc = "config", ![r].veil = v,
                                    ![r].sess = [copy EXCEPT !.veils = @ \cup {v}]]
              /\ UNCHANGED sess
           \/ Answer(r, copy) /\ UNCHANGED flows
  BY DEF Access, VeilRealState
<1> DEFINE copy == GetToken(req[r].sess, form)
           v == Len(flows) + 1
           flow == [url |-> req[r].url, s |-> req[r].s, asked |-> NoScopes,
                    alone |-> FALSE, owed |-> FALSE, code |-> "none"]
<1>2. "veils" \in DOMAIN copy /\ copy.veils = req[r].sess.veils
  BY DEF GetToken, VeilsStayHome, RequestsOK, SessionOK
<1>3. SessionOK(copy, req[r].s)
  BY <1>2 DEF VeilsStayHome, RequestsOK, SessionOK
<1>4. UNCHANGED delivered
  BY DEF Access
<1>5. CASE Answer(r, copy) /\ UNCHANGED flows
  <2>1. Grows
    BY <1>5, UnchangedGrows DEF VeilsStayHome
  <2> QED
    BY <1>3, <1>4, <1>5, <2>1, AnswerKeeps, DeliveredKept DEF VeilsStayHome, Grows
<1>6. CASE /\ flows' = Append(flows, flow)
           /\ req' = [req EXCEPT ![r].pc = "config", ![r].veil = v,
                                 ![r].sess = [copy EXCEPT !.veils = @ \cup {v}]]
           /\ UNCHANGED sess
  <2>1. PICK S : flows \in Seq(S)
    BY DEF VeilsStayHome, FlowsShaped
  <2>2. flow.s = req[r].s /\ "s" \in DOMAIN flow
    OBVIOUS
  <2> HIDE DEF flow
  <2>3. /\ flows' \in Seq(S \cup {flow})
        /\ DOMAIN flows' = DOMAIN flows \cup {v}
        /\ \A w \in DOMAIN flows : flows'[w] = flows[w]
        /\ flows'[v] = flow
    BY <1>6, <2>1, AppendKeeps
  <2> HIDE DEF v
  <2>4. FlowsShaped'
    BY <2>2, <2>3 DEF FlowsShaped, VeilsStayHome
  <2>5. Grows
    BY <2>3, <2>4 DEF Grows
  <2> DEFINE new == [copy EXCEPT !.veils = @ \cup {v}]
  <2>6. "veils" \in DOMAIN new /\ new.veils = req[r].sess.veils \cup {v}
    BY <1>2
  <2> HIDE DEF copy
  <2>7. req' = [req EXCEPT ![r].pc = "config", ![r].veil = v, ![r].sess = new]
    BY <1>6
  <2> HIDE DEF new
  <2>8. /\ DOMAIN req' = Requests
        /\ \A q \in Requests : RequestShaped(req'[q]) /\ req'[q].s = req[q].s
        /\ \A q \in Requests \ {r} : req'[q] = req[q]
        /\ req'[r].pc = "config" /\ req'[r].sess = new
    BY <2>7 DEF VeilsStayHome, RequestsOK, RequestShaped
  <2>9. \A w \in new.veils : w \in DOMAIN flows' /\ flows'[w].s = req[r].s
    BY <2>2, <2>3, <2>5, <2>6 DEF Grows, VeilsStayHome, RequestsOK, SessionOK, VeilOf
  <2>10. RequestsOK'
    BY <2>5, <2>6, <2>8, <2>9 DEF Grows, VeilsStayHome, RequestsOK, SessionOK, VeilOf
  <2> QED
    BY <1>4, <1>6, <2>5, <2>10, StoreKept, DeliveredKept DEF VeilsStayHome, Grows
<1> QED
  BY <1>1, <1>5, <1>6

LEMMA ConfigureKeeps ==
  ASSUME VeilsStayHome, NEW r \in Requests, Configure(r)
  PROVE  VeilsStayHome'
<1>1. Grows
  BY UnchangedGrows DEF VeilsStayHome, Configure, ConfigureWith
<1>2. DeliveredOK'
  BY <1>1, DeliveredKept DEF VeilsStayHome, Configure, ConfigureWith
<1>3. PICK own : \/ UNCHANGED sess /\ req' = [req EXCEPT ![r].pc = "redirect", ![r].own = own]
                 \/ Answer(r, req[r].sess)
  BY DEF Configure, ConfigureWith
<1>4. SessionOK(req[r].sess, req[r].s)
  BY DEF VeilsStayHome, RequestsOK
<1>5. CASE Answer(r, req[r].sess)
  BY <1>1, <1>2, <1>4, <1>5, AnswerKeeps DEF VeilsStayHome, Grows
<1>6. CASE UNCHANGED sess /\ req' = [req EXCEPT ![r].pc = "redirect", ![r].own = own]
  <2>1. /\ DOMAIN req' = Requests
        /\ \A q \in Requests : RequestShaped(req'[q]) /\ req'[q].s = req[q].s /\ req'[q].sess = req[q].sess
        /\ \A q \in Requests \ {r} : req'[q] = req[q]
        /\ req'[r].pc = "redirect"
    BY <1>6 DEF VeilsStayHome, RequestsOK, RequestShaped
  <2>2. RequestsOK'
    BY <1>1, <2>1 DEF Grows, VeilsStayHome, RequestsOK, SessionOK, VeilOf
  <2> QED
    BY <1>1, <1>2, <1>6, <2>2, StoreKept DEF VeilsStayHome, Grows
<1> QED
  BY <1>3, <1>5, <1>6

LEMMA RedirectKeeps ==
  ASSUME VeilsStayHome, NEW r \in Requests, Redirect(r)
  PROVE  VeilsStayHome'
<1>1. PICK asked : flows' = [flows EXCEPT ![req[r].veil].code = "asked", ![req[r].veil].alone = req[r].alone,
                                          ![req[r].veil].owed = req[r].alone, ![req[r].veil].asked = asked]
  BY DEF Redirect
<1>2. Grows
  <2> DEFINE e(v) == IF v = req[r].veil
                     THEN [flows[v] EXCEPT !.code = "asked", !.alone = req[r].alone,
                                           !.owed = req[r].alone, !.asked = asked]
                     ELSE flows[v]
  <2>1. flows' = [v \in DOMAIN flows |-> e(v)] /\ flows' = [v \in DOMAIN flows |-> flows'[v]]
    BY <1>1
  <2>2. \A v \in DOMAIN flows : e(v).s = flows[v].s /\ "s" \in DOMAIN e(v)
    BY DEF VeilsStayHome, FlowsShaped
  <2> HIDE DEF e
  <2> QED
    BY <2>1, <2>2, UpdateGrows DEF VeilsStayHome
<1>3. SessionOK(req[r].sess, req[r].s) /\ Answer(r, req[r].sess) /\ UNCHANGED delivered
  BY DEF VeilsStayHome, RequestsOK, Redirect
<1> QED
  BY <1>2, <1>3, AnswerKeeps, DeliveredKept DEF VeilsStayHome, Grows

LEMMA ExchangeKeeps ==
  ASSUME VeilsStayHome, NEW r \in Requests, Exchange(r)
  PROVE  VeilsStayHome'
<1>1. /\ req[r].pc = "exchange" /\ UNCHANGED delivered
      /\ \/ /\ flows' = [flows EXCEPT ![req[r].veil].code = "used"]
            /\ Goto(r, "sync") /\ UNCHANGED sess
         \/ Answer(r, req[r].sess) /\ UNCHANGED flows
  BY DEF Exchange
<1>2. SessionOK(req[r].sess, req[r].s) /\ req[r].veil \in req[r].sess.veils
  BY <1>1 DEF VeilsStayHome, RequestsOK
<1>3. CASE Answer(r, req[r].sess) /\ UNCHANGED flows
  <2>1. Grows
    BY <1>3, UnchangedGrows DEF VeilsStayHome
  <2> QED
    BY <1>1, <1>2, <1>3, <2>1, AnswerKeeps, DeliveredKept DEF VeilsStayHome, Grows
<1>4. CASE /\ flows' = [flows EXCEPT ![req[r].veil].code = "used"]
           /\ Goto(r, "sync") /\ UNCHANGED sess
  <2> DEFINE e(v) == IF v = req[r].veil THEN [flows[v] EXCEPT !.code = "used"] ELSE flows[v]
  <2>1. flows' = [v \in DOMAIN flows |-> e(v)] /\ flows' = [v \in DOMAIN flows |-> flows'[v]]
    BY <1>4
  <2>2. \A v \in DOMAIN flows : e(v).s = flows[v].s /\ "s" \in DOMAIN e(v)
    BY DEF VeilsStayHome, FlowsShaped
  <2> HIDE DEF e
  <2>3. Grows
    BY <2>1, <2>2, UpdateGrows DEF VeilsStayHome
  <2>4. RequestsOK'
    BY <1>2, <1>4, <2>3, GotoKeeps DEF VeilsStayHome
  <2> QED
    BY <1>1, <1>4, <2>3, <2>4, StoreKept, DeliveredKept DEF VeilsStayHome, Grows
<1> QED
  BY <1>1, <1>3, <1>4

LEMMA SyncKeeps ==
  ASSUME VeilsStayHome, NEW r \in Requests, Sync(r)
  PROVE  VeilsStayHome'
<1>1. /\ req[r].pc = "sync" /\ UNCHANGED flows
      /\ Deliver(r) \/ UNCHANGED delivered
      /\ \/ Answer(r, req[r].sess)
         \/ Conflict(r) /\ UNCHANGED sess
  BY DEF Sync, SyncRemoteSecret, SyncSPIAccessToken
<1>2. Grows
  BY <1>1, UnchangedGrows DEF VeilsStayHome
<1>3. SessionOK(req[r].sess, req[r].s) /\ VeilOf(req[r].veil, req[r].s)
  BY <1>1 DEF VeilsStayHome, RequestsOK, SessionOK
<1>4. DeliveredOK'
  <2>1. CASE UNCHANGED delivered
    BY <1>2, <2>1, DeliveredKept DEF VeilsStayHome
  <2>2. CASE Deliver(r)
    <3> DEFINE d == [veil |-> req[r].veil, kind |-> strategy[req[r].url.type],
                     s |-> req[r].s, alone |-> req[r].alone]
    <3>1. delivered' = delivered \cup {d} /\ d.veil = req[r].veil /\ d.s = req[r].s
      BY <2>2 DEF Deliver
    <3> HIDE DEF d
    <3> QED
      BY <1>1, <1>3, <3>1 DEF DeliveredOK, VeilsStayHome, VeilOf
  <2> QED
    BY <1>1, <2>1, <2>2
<1>5. CASE Answer(r, req[r].sess)
  BY <1>2, <1>3, <1>4, <1>5, AnswerKeeps DEF VeilsStayHome, Grows
<1>6. CASE Conflict(r) /\ UNCHANGED sess
  <2>1. req' = [req EXCEPT ![r].tries = req[r].tries + 1]
    BY <1>6 DEF Conflict, VeilsStayHome, RequestsOK, RequestShaped
  <2>2. /\ DOMAIN req' = Requests
        /\ \A q \in Requests : /\ RequestShaped(req'[q]) /\ req'[q].s = req[q].s /\ req'[q].sess = req[q].sess
                               /\ req'[q].pc = req[q].pc /\ req'[q].veil = req[q].veil
    BY <2>1 DEF VeilsStayHome, RequestsOK, RequestShaped
  <2>3. RequestsOK'
    BY <1>2, <2>2 DEF Grows, VeilsStayHome, RequestsOK, SessionOK, VeilOf
  <2> QED
    BY <1>2, <1>4, <1>6, <2>3, StoreKept DEF VeilsStayHome, Grows
<1> QED
  BY <1>1, <1>5, <1>6

LEMMA LoginKeeps ==
  ASSUME VeilsStayHome, NEW r \in Requests, Login(r)
  PROVE  VeilsStayHome'
<1>1. PICK token \in BOOLEAN : Answer(r, [req[r].sess EXCEPT !.auth = @ \/ token])
  BY DEF Login
<1>2. UNCHANGED <<flows, delivered>>
  BY DEF Login
<1>3. Grows
  BY <1>2, UnchangedGrows DEF VeilsStayHome
<1> DEFINE copy == [req[r].sess EXCEPT !.auth = @ \/ token]
<1>4. SessionOK(copy, req[r].s)
  BY DEF VeilsStayHome, RequestsOK, SessionOK
<1> HIDE DEF copy
<1> QED
  BY <1>1, <1>2, <1>3, <1>4, AnswerKeeps, DeliveredKept DEF VeilsStayHome, Grows, copy

LEMMA DisownedGrows ==
  ASSUME FlowsShaped, NEW ended, flows' = Disowned(ended)
  PROVE  Grows
<1> DEFINE e(v) == IF flows[v].s \in ended THEN [flows[v] EXCEPT !.owed = FALSE] ELSE flows[v]
<1>1. flows' = [v \in DOMAIN flows |-> e(v)] /\ flows' = [v \in DOMAIN flows |-> flows'[v]]
  BY DEF Disowned
<1>2. \A v \in DOMAIN flows : e(v).s = flows[v].s /\ "s" \in DOMAIN e(v)
  BY DEF FlowsShaped
<1> HIDE DEF e
<1> QED
  BY <1>1, <1>2, UpdateGrows

LEMMA EndedSessionKeeps ==
  ASSUME Grows, StoreOK, NEW s, sess' = [sess EXCEPT ![s] = NoSession]
  PROVE  StoreOK'
<1>1. "veils" \in DOMAIN NoSession /\ NoSession.veils = {}
  BY DEF NoSession
<1> QED
  BY <1>1 DEF Grows, StoreOK, SessionOK, VeilOf

LEMMA LogoutKeeps ==
  ASSUME VeilsStayHome, NEW r \in Requests, Logout(r)
  PROVE  VeilsStayHome'
<1>1. Grows
  BY DisownedGrows DEF VeilsStayHome, Logout
<1> QED
  BY <1>1, EndedSessionKeeps, EndKeeps, DeliveredKept DEF VeilsStayHome, Logout, Grows

LEMMA HandleKeeps ==
  ASSUME VeilsStayHome, NEW r \in Requests, Handle(r)
  PROVE  VeilsStayHome'
BY FindControllerKeeps, AccessKeeps, ConfigureKeeps, RedirectKeeps, ExchangeKeeps, SyncKeeps,
   LoginKeeps, LogoutKeeps DEF Handle

LEMMA SessionExpiresKeeps ==
  ASSUME VeilsStayHome, SessionExpires
  PROVE  VeilsStayHome'
<1>1. PICK s \in Sessions : sess' = [sess EXCEPT ![s] = NoSession] /\ flows' = Disowned({s})
  BY DEF SessionExpires
<1>2. Grows
  BY <1>1, DisownedGrows DEF VeilsStayHome
<1>3. UNCHANGED <<req, delivered>>
  BY DEF SessionExpires
<1> QED
  BY <1>1, <1>2, <1>3, EndedSessionKeeps, RequestsKept, DeliveredKept DEF VeilsStayHome, Grows

LEMMA RestartKeeps ==
  ASSUME VeilsStayHome, Restart
  PROVE  VeilsStayHome'
<1>1. Grows
  BY DisownedGrows DEF VeilsStayHome, Restart
<1>2. StoreOK'
  BY DEF Restart, Started, StoreOK, SessionOK, NoSession
<1>3. RequestsOK'
  BY DEF Restart, Started, RequestsOK, RequestShaped, SessionOK, Idle, NoSession
<1> QED
  BY <1>1, <1>2, <1>3, DeliveredKept DEF VeilsStayHome, Restart, Grows

LEMMA SurroundingsKeep ==
  ASSUME VeilsStayHome, IssueUrl \/ ChangeSecrets \/ ProviderGrants
  PROVE  VeilsStayHome'
<1>1. UNCHANGED <<sess, req, delivered>>
  BY DEF IssueUrl, ChangeSecrets, ProviderGrants
<1>2. Grows
  <2>1. CASE UNCHANGED flows
    BY <2>1, UnchangedGrows DEF VeilsStayHome
  <2>2. CASE ProviderGrants
    <3>1. PICK w \in DOMAIN flows : flows' = [flows EXCEPT ![w].code = "granted"]
      BY <2>2 DEF ProviderGrants
    <3> DEFINE e(v) == IF v = w THEN [flows[v] EXCEPT !.code = "granted"] ELSE flows[v]
    <3>2. flows' = [v \in DOMAIN flows |-> e(v)] /\ flows' = [v \in DOMAIN flows |-> flows'[v]]
      BY <3>1
    <3>3. \A v \in DOMAIN flows : e(v).s = flows[v].s /\ "s" \in DOMAIN e(v)
      BY DEF VeilsStayHome, FlowsShaped
    <3> HIDE DEF e
    <3> QED
      BY <3>2, <3>3, UpdateGrows DEF VeilsStayHome
  <2> QED
    BY <2>1, <2>2 DEF IssueUrl, ChangeSecrets
<1> QED
  BY <1>1, <1>2, StoreKept, RequestsKept, DeliveredKept DEF VeilsStayHome, Grows

----------------------------------------------------------------------------
\* The OAuth service starts with empty sessions, and no step lets a veil leave
\* the session in which it was made.
THEOREM VeilsStay == Spec => []VeilsStayHome
<1>1. Init => VeilsStayHome
  <2> SUFFICES ASSUME Init PROVE VeilsStayHome
    OBVIOUS
  <2>1. FlowsShaped
    <3>1. flows \in Seq({}) /\ DOMAIN flows = {}
      BY DEF Init
    <3> QED
      BY <3>1 DEF FlowsShaped
  <2>2. StoreOK
    BY DEF Init, StoreOK, SessionOK, NoSession
  <2>3. RequestsOK
    BY DEF Init, RequestsOK, RequestShaped, SessionOK, Idle, NoSession
  <2> QED
    BY <2>1, <2>2, <2>3 DEF VeilsStayHome, DeliveredOK, Init
<1>2. VeilsStayHome /\ [Next]_vars => VeilsStayHome'
  <2> SUFFICES ASSUME VeilsStayHome, [Next]_vars PROVE VeilsStayHome'
    OBVIOUS
  <2>1. CASE UNCHANGED vars
    BY <2>1, UnchangedGrows, StoreKept, RequestsKept, DeliveredKept DEF VeilsStayHome, Grows, vars
  <2>2. CASE IssueUrl \/ ChangeSecrets \/ ProviderGrants
    BY <2>2, SurroundingsKeep
  <2>3. CASE SessionExpires \/ Restart
    BY <2>3, SessionExpiresKeeps, RestartKeeps
  <2>4. ASSUME NEW r \in Requests, Arrive(r) \/ Handle(r) PROVE VeilsStayHome'
    BY <2>4, ArriveKeeps, HandleKeeps
  <2> QED
    BY <2>1, <2>2, <2>3, <2>4 DEF Next
<1> QED
  BY <1>1, <1>2, PTL DEF Spec

\* The data of a flow is only ever delivered by a request of the browser session
\* in which the flow was veiled: UnveilState looks for the veil in the session of
\* the request, and neither a copy of a session written back late, nor a
\* destroyed or expired session, nor a restart takes a veil elsewhere.
THEOREM FlowsStayInTheirSession == Spec => []SameSession
<1>1. VeilsStayHome => SameSession
  BY DEF VeilsStayHome, DeliveredOK, VeilOf, SameSession
<1> QED
  BY <1>1, VeilsStay, PTL

----------------------------------------------------------------------------
(* The rest of what the service promises.  Alone is the idea that makes it   *)
(* inductive: while a request that is marked as alone runs, no other does,   *)
(* so that nobody else touches the shared strategy and the shared scopes, or *)
(* holds a copy of its session that is older than its own.                   *)

Entry(u) == <<u.type, u.base>>

SessionSet == [live : BOOLEAN, auth : BOOLEAN, veils : SUBSET Nat]
RequestSet ==
  [op : {"none", "authenticate", "callback", "login", "logout"},
   pc : {"idle", "route", "access", "config", "redirect", "exchange", "sync"},
   s : Sessions, sess : SessionSet, veil : Nat, url : Urls \cup {NoUrl},
   own : BOOLEAN, alone : BOOLEAN, tries : 0..(DefaultRetry - 1)]
FlowSet == [url : Urls, s : Sessions, asked : AnyScopes, alone : BOOLEAN, owed : BOOLEAN,
            code : {"none", "asked", "granted", "used"}]
Budgets == [begins : 0..MaxBegins, upsets : 0..MaxUpsets]
DeliveredSet == [veil : DOMAIN flows, kind : Kinds, s : Sessions, alone : BOOLEAN]

\* The requests that will add a flow if they get as far as that.
Pending(rq) == {q \in Requests : rq[q].op = "authenticate" /\ rq[q].veil = 0}

ServiceTyped ==
  /\ secrets \subseteq UserSecrets /\ urls \subseteq Urls
  /\ strategy \in [ProviderTypes -> Kinds] /\ scopes \in [GlobalEntries -> AnyScopes]
  /\ sess \in [Sessions -> SessionSet] /\ req \in [Requests -> RequestSet]
  /\ flows \in Seq(FlowSet) /\ delivered \subseteq DeliveredSet
  /\ budget \in Budgets

FlowsBounded == Len(flows) + Cardinality(Pending(req)) <= MaxFlows

\* What a request knows, given the flows f.
InStep(q, f) ==
  /\ q.pc = "idle" => q.op = "none"
  /\ q.pc \in {"access", "config", "redirect"} => q.op = "authenticate"
  /\ q.pc \in {"exchange", "sync"} => q.op = "callback"
  /\ q.op \in {"authenticate", "callback"} => q.url \in Urls
  /\ q.op = "callback" => q.veil \in DOMAIN f /\ f[q.veil].url = q.url
  /\ q.pc \in {"config", "redirect"} =>
       q.veil \in DOMAIN f /\ q.veil \in q.sess.veils /\ f[q.veil].url = q.url
  /\ q.pc \in {"route", "access"} /\ q.op = "authenticate" => q.veil = 0
  /\ q.op \notin {"authenticate", "callback"} => q.veil = 0
  /\ q.pc = "redirect" /\ q.own = FALSE => Entry(q.url) \in GlobalEntries
  /\ q.pc # "idle" => \A v \in DOMAIN f : f[v].owed = TRUE /\ f[v].s = q.s => v \in q.sess.veils

\* What one that runs alone finds on the shared controller and configuration.
Settings(q, st, sc) ==
  q.alone = TRUE =>
    /\ q.pc = "redirect" /\ q.own = FALSE => sc[Entry(q.url)] = q.url.obj.scopes
    /\ q.pc \in {"exchange", "sync"} => st[q.url.type] = q.url.obj.kind

RequestsInStep == \A r \in Requests : InStep(req[r], flows) /\ Settings(req[r], strategy, scopes)

Alone == \A r, q \in Requests :
           r # q /\ req[r].pc # "idle" /\ req[r].alone = TRUE => req[q].pc = "idle"

FlowAsked(f) ==
  /\ f.alone = TRUE => f.asked = f.url.obj.scopes
  /\ f.code # "none" /\ Entry(f.url) \notin GlobalEntries => f.asked = f.url.obj.scopes
FlowsAsked == \A v \in DOMAIN flows : FlowAsked(flows[v])

FlowsReturn ==
  \A v \in DOMAIN flows : flows[v].owed = TRUE =>
    sess[flows[v].s].live = TRUE /\ v \in sess[flows[v].s].veils

KindsReached ==
  \A d \in delivered : d.alone = TRUE => d.kind = flows[d.veil].url.obj.kind

ServiceInv ==
  /\ ServiceTyped /\ FlowsBounded /\ RequestsInStep /\ Alone
  /\ FlowsAsked /\ FlowsReturn /\ KindsReached

----------------------------------------------------------------------------
(* Types of small things, and of what the operator issues.                   *)

LEMMA IdleTypes ==
  /\ NoSession \in SessionSet /\ NoSession.veils = {} /\ NoSession.live = FALSE
  /\ Idle \in RequestSet /\ Idle.pc = "idle" /\ Idle.op = "none" /\ Idle.veil = 0
<1>1. NoSession \in SessionSet /\ NoSession.veils = {} /\ NoSession.live = FALSE
  BY DEF NoSession, SessionSet
<1>2. (CHOOSE s \in Sessions : TRUE) \in Sessions
  BY ServiceConstants
<1>3. 0 \in 0..(DefaultRetry - 1)
  BY RequestsBegin
<1> DEFINE s == CHOOSE x \in Sessions : TRUE
<1>4. Idle = [op |-> "none", pc |-> "idle", s |-> s, sess |-> NoSession,
              veil |-> 0, url |-> NoUrl, own |-> FALSE, alone |-> TRUE, tries |-> 0]
  BY DEF Idle
<1>5. s \in Sessions
  BY <1>2
<1> HIDE DEF s
<1> QED
  BY <1>1, <1>3, <1>4, <1>5 DEF RequestSet

LEMMA UrlFields ==
  ASSUME NEW u \in Urls
  PROVE  /\ u.obj \in Objects /\ u.type \in ProviderTypes /\ u.obj.kind \in Kinds
         /\ u.obj.scopes \in AnyScopes
<1>1. u.obj \in Objects /\ u.type \in ProviderTypes
  BY DEF Urls
<1>2. u.obj.kind \in Kinds
  BY <1>1, ServiceConstants
<1> QED
  BY <1>1, <1>2 DEF AnyScopes

\* FromRepoUrl only offers OAuth for one of the supported types.
LEMMA OAuthTypes ==
  ASSUME NEW S, NEW h, FromRepoUrl(S, h).oauth
  PROVE  /\ FromRepoUrl(S, h).type \in ProviderTypes
         /\ FromRepoUrl(S, h).base \in {h, DefaultHost("Quay")}
<1> DEFINE Cfg(i) == SpConfig(S, SupportedServiceProviderTypes[i], h)
           configured == {i \in 1..3 : Cfg(i).st # "none"}
           first == CHOOSE i \in configured : \A j \in configured : i <= j
           sp == initializeServiceProvider(SupportedServiceProviderTypes[first], h, Cfg(first))
           P == FromRepoUrl(S, h)
<1>1. P = CASE configured = {} -> createHostCredentialsProvider(h)
            [] configured # {} /\ Cfg(first).st = "multiple" -> [sp EXCEPT !.err = "retry", !.oauth = FALSE]
            [] OTHER -> sp
  BY DEF FromRepoUrl
<1>2. configured \subseteq 1..3
  OBVIOUS
<1> HIDE DEF Cfg, configured, P
<1>3. configured # {} => first \in 1..3
  <2>1. ASSUME configured # {} PROVE \E i \in configured : \A j \in configured : i <= j
    <3>1. CASE 1 \in configured
      BY <1>2, <3>1
    <3>2. CASE 1 \notin configured /\ 2 \in configured
      BY <1>2, <3>2
    <3>3. CASE 1 \notin configured /\ 2 \notin configured
      <4>1. \A i \in configured : i = 3
        BY <1>2, <3>3
      <4> QED
        BY <2>1, <4>1
    <3> QED
      BY <3>1, <3>2, <3>3
  <2> QED
    BY <1>2, <2>1
<1>4. \A i \in 1..3 : SupportedServiceProviderTypes[i] \in ProviderTypes
  <2>1. ProviderTypes = {"GitHub", "GitLab", "Quay"}
    BY DEF ProviderTypes, KnownTypes, ServiceProviderTypeGitHub, ServiceProviderTypeGitLab,
           ServiceProviderTypeQuay
  <2> QED
    BY <2>1 DEF SupportedServiceProviderTypes
<1> HIDE DEF first
<1>5. createHostCredentialsProvider(h).oauth = FALSE
  BY DEF createHostCredentialsProvider, Provided
<1>6. sp.type = SupportedServiceProviderTypes[first] /\ sp.base \in {h, DefaultHost("Quay")}
  BY DEF initializeServiceProvider, Provided
<1>7. "err" \in DOMAIN sp /\ "oauth" \in DOMAIN sp
  BY DEF initializeServiceProvider, Provided
<1> HIDE DEF sp
<1>8. P.oauth
  BY DEF P
<1>9. configured # {} /\ P \in {sp, [sp EXCEPT !.err = "retry", !.oauth = FALSE]}
  BY <1>1, <1>5, <1>8
<1>10. P = sp
  BY <1>7, <1>8, <1>9
<1> QED
  BY <1>3, <1>4, <1>6, <1>9, <1>10 DEF P

LEMMA IssuedUrls ==
  ASSUME NEW o \in Objects, HasOAuthUrl(o)
  PROVE  OAuthUrl(o) \in Urls
<1>1. FromRepoUrl(secrets, o.host).oauth
  BY DEF HasOAuthUrl
<1>2. /\ FromRepoUrl(secrets, o.host).type \in ProviderTypes
      /\ FromRepoUrl(secrets, o.host).base \in {o.host, DefaultHost("Quay")}
  BY <1>1, OAuthTypes
<1> QED
  BY <1>2 DEF OAuthUrl, Urls

\* A configuration that is not the request's own is an entry of the process.
LEMMA SharedEntries ==
  ASSUME NEW S, NEW type, NEW host, obtainOauthConfig(S, type, host).st = "ok"
  PROVE  /\ obtainOauthConfig(S, type, host).own \in BOOLEAN
         /\ obtainOauthConfig(S, type, host).own = FALSE => <<type, host>> \in GlobalEntries
<1> DEFINE user == SpConfigFromUserSecret(S, type, host)
           cfg == SpConfig(S, type, host)
           match == {i \in DOMAIN SharedConfiguration :
                       SharedConfiguration[i].type = type /\ SharedConfiguration[i].host = host}
<1>1. obtainOauthConfig(S, type, host) = cfg /\ cfg.st = "ok" /\ cfg.oauth
  BY DEF obtainOauthConfig, NoConfig
<1>2. user.st = "ok" => user.own = TRUE
  BY DEF SpConfigFromUserSecret, NoConfig, Config, createServiceProviderConfigurationFromSecret
<1>3. cfg = IF user.st = "none" THEN SpConfigFromGlobalConfig(type, host) ELSE user
  BY DEF SpConfig
<1>4. SpConfigFromGlobalConfig(type, host) = IF match # {} \/ host = DefaultHost(type)
        THEN Config(FALSE, \E i \in match : SharedConfiguration[i].oauth) ELSE NoConfig("none")
  BY DEF SpConfigFromGlobalConfig
<1>5. match # {} => <<type, host>> \in GlobalEntries
  BY DEF GlobalEntries
<1> HIDE DEF user, cfg
<1>6. CASE user.st = "none"
  <2>1. match # {}
    BY <1>1, <1>3, <1>4, <1>6 DEF Config, NoConfig
  <2>2. cfg.own = FALSE
    BY <1>3, <1>4, <1>6, <2>1 DEF Config
  <2> QED
    BY <1>1, <1>5, <2>1, <2>2
<1>7. CASE user.st # "none"
  BY <1>1, <1>2, <1>3, <1>7
<1> QED
  BY <1>6, <1>7

----------------------------------------------------------------------------
(* The ways a step changes flows, requests and sessions.                     *)

\* No flow is lost or changes its URL or its session, and none becomes owed.
Steady(f, g) ==
  /\ DOMAIN f \subseteq DOMAIN g
  /\ \A v \in DOMAIN f : /\ g[v].url = f[v].url /\ g[v].s = f[v].s
                         /\ g[v].owed = TRUE => f[v].owed = TRUE
  /\ \A v \in DOMAIN g \ DOMAIN f : g[v].owed = FALSE

LEMMA SteadySame == ASSUME NEW f PROVE Steady(f, f)
  BY DEF Steady

LEMMA SteadyKeeps ==
  ASSUME NEW f, NEW g, Steady(f, g), NEW q, InStep(q, f)
  PROVE  InStep(q, g)
<1>1. ASSUME NEW v \in DOMAIN g, g[v].owed = TRUE, g[v].s = q.s, q.pc # "idle"
      PROVE  v \in q.sess.veils
  <2>1. v \in DOMAIN f /\ f[v].owed = TRUE /\ f[v].s = q.s
    BY <1>1 DEF Steady
  <2> QED
    BY <1>1, <2>1 DEF InStep
<1> QED
  BY <1>1 DEF InStep, Steady

\* One request moves; the flows change as far as the others do not mind.
LEMMA TurnKeeps ==
  ASSUME ServiceInv, NEW r \in Requests, req[r].pc # "idle", NEW new,
         req' = [req EXCEPT ![r] = new], InStep(new, flows'), Settings(new, strategy', scopes'),
         new.pc # "idle" => new.alone = req[r].alone,
         \A q \in Requests \ {r} : InStep(req[q], flows')
  PROVE  RequestsInStep' /\ Alone'
<1>1. \A q \in Requests : req'[q] = IF q = r THEN new ELSE req[q]
  BY DEF ServiceInv, ServiceTyped
<1>2. RequestsInStep'
  <2> SUFFICES ASSUME NEW q \in Requests PROVE InStep(req'[q], flows') /\ Settings(req'[q], strategy', scopes')
    BY DEF RequestsInStep, InStep, Settings, Entry
  <2>1. CASE q = r
    BY <1>1, <2>1
  <2>2. CASE q # r
    <3>1. req[q].alone = TRUE => req[q].pc = "idle"
      BY <2>2 DEF ServiceInv, Alone
    <3>2. Settings(req[q], strategy', scopes')
      BY <3>1 DEF Settings
    <3> QED
      BY <1>1, <2>2, <3>2
  <2> QED
    BY <2>1, <2>2
<1>3. Alone'
  <2> SUFFICES ASSUME NEW p \in Requests, NEW q \in Requests, p # q, req'[p].pc # "idle", req'[p].alone = TRUE
               PROVE  req'[q].pc = "idle"
    BY DEF Alone
  <2>1. CASE p # r /\ q # r
    BY <1>1, <2>1 DEF ServiceInv, Alone
  <2>2. CASE p = r
    BY <1>1, <2>2 DEF ServiceInv, Alone
  <2>3. CASE q = r
    BY <1>1, <2>3 DEF ServiceInv, Alone
  <2> QED
    BY <2>1, <2>2, <2>3
<1> QED
  BY <1>2, <1>3

\* The others do not mind steady flows.
LEMMA OthersInStep ==
  ASSUME ServiceInv, Steady(flows, flows')
  PROVE  \A q \in Requests : InStep(req[q], flows')
  BY SteadyKeeps DEF ServiceInv, RequestsInStep

LEMMA PendingFinite == IsFiniteSet(Pending(req)) /\ Cardinality(Pending(req)) \in Nat
<1>1. IsFiniteSet(Pending(req))
  BY ServiceConstants, FS_Subset DEF Pending
<1> QED
  BY <1>1, FS_CardinalityType

\* A step that adds no request keeps the bound.
LEMMA BoundKept ==
  ASSUME ServiceInv, Len(flows') = Len(flows), Pending(req') \subseteq Pending(req), Len(flows) \in Nat
  PROVE  FlowsBounded'
<1>1. Cardinality(Pending(req')) <= Cardinality(Pending(req)) /\ Cardinality(Pending(req')) \in Nat
      /\ Cardinality(Pending(req)) \in Nat
  BY PendingFinite, FS_Subset, FS_CardinalityType
<1>2. Len(flows) + Cardinality(Pending(req)) <= MaxFlows /\ MaxFlows \in Nat
  BY ServiceConstants DEF ServiceInv, FlowsBounded
<1>3. Len(flows) + Cardinality(Pending(req')) <= MaxFlows
  BY <1>1, <1>2
<1> QED
  BY <1>3 DEF FlowsBounded, Pending

\* One request moves and stays as pending as it was, or ends.
LEMMA TurnPending ==
  ASSUME ServiceTyped, NEW r \in Requests, NEW new, req' = [req EXCEPT ![r] = new],
         new.op = "authenticate" /\ new.veil = 0 => req[r].op = "authenticate" /\ req[r].veil = 0
  PROVE  Pending(req') \subseteq Pending(req)
<1>1. \A q \in Requests : req'[q] = IF q = r THEN new ELSE req[q]
  BY DEF ServiceTyped
<1> QED
  BY <1>1 DEF Pending

LEMMA FlowsLen ==
  ASSUME ServiceTyped
  PROVE  Len(flows) \in Nat /\ DOMAIN flows = 1..Len(flows) /\ \A v \in DOMAIN flows : flows[v] \in FlowSet
  BY LenProperties DEF ServiceTyped

\* Flows that keep their number.
LEMMA SameLen ==
  ASSUME ServiceTyped, flows' \in Seq(FlowSet), DOMAIN flows' = DOMAIN flows
  PROVE  Len(flows') = Len(flows) /\ Len(flows) \in Nat
<1>1. Len(flows) \in Nat /\ DOMAIN flows = 1..Len(flows)
  BY FlowsLen
<1>2. Len(flows') \in Nat /\ DOMAIN flows' = 1..Len(flows')
  BY LenProperties
<1> QED
  BY <1>1, <1>2

\* The request ends and its copy of the session is written back, with every flow
\* that is owed to the session.
LEMMA AnswerServes ==
  ASSUME ServiceInv, NEW r \in Requests, NEW copy \in SessionSet, Answer(r, copy),
         \A v \in DOMAIN flows' : flows'[v].owed = TRUE =>
           IF flows'[v].s = req[r].s THEN v \in copy.veils
           ELSE v \in DOMAIN flows /\ flows[v].owed = TRUE /\ flows[v].s = flows'[v].s
  PROVE  /\ sess' \in [Sessions -> SessionSet] /\ FlowsReturn'
         /\ req' = [req EXCEPT ![r] = Idle] /\ req' \in [Requests -> RequestSet]
<1>1. req' = [req EXCEPT ![r] = Idle] /\ req' \in [Requests -> RequestSet]
  BY IdleTypes DEF Answer, EndRequest, ServiceInv, ServiceTyped
<1>2. req[r].s \in Sessions /\ sess \in [Sessions -> SessionSet]
  BY DEF ServiceInv, ServiceTyped, RequestSet
<1> DEFINE new == [copy EXCEPT !.live = TRUE]
<1>3. new \in SessionSet /\ new.live = TRUE /\ new.veils = copy.veils
  BY DEF SessionSet
<1>4. sess' = IF Modified(copy) THEN [sess EXCEPT ![req[r].s] = new] ELSE sess
  BY DEF Answer
<1> HIDE DEF new
<1>5. sess' \in [Sessions -> SessionSet]
  BY <1>2, <1>3, <1>4
<1>6. FlowsReturn'
  <2> SUFFICES ASSUME NEW v \in DOMAIN flows', flows'[v].owed = TRUE
               PROVE  sess'[flows'[v].s].live = TRUE /\ v \in sess'[flows'[v].s].veils
    BY DEF FlowsReturn
  <2>1. CASE flows'[v].s = req[r].s
    <3>1. v \in copy.veils
      BY <2>1
    <3>2. Modified(copy)
      BY <3>1 DEF Modified
    <3> QED
      BY <1>2, <1>3, <1>4, <2>1, <3>1, <3>2
  <2>2. CASE flows'[v].s # req[r].s
    <3>1. v \in DOMAIN flows /\ flows[v].owed = TRUE /\ flows[v].s = flows'[v].s
      BY <2>2
    <3>2. sess[flows[v].s].live = TRUE /\ v \in sess[flows[v].s].veils
      BY <3>1 DEF ServiceInv, FlowsReturn
    <3> QED
      BY <1>2, <1>4, <2>2, <3>1, <3>2
  <2> QED
    BY <2>1, <2>2
<1> QED
  BY <1>1, <1>5, <1>6

\* In the usual case the copy holds at least the veils that the request holds,
\* and the flows are steady.
LEMMA AnswerSteady ==
  ASSUME ServiceInv, NEW r \in Requests, req[r].pc # "idle", NEW copy \in SessionSet, Answer(r, copy),
         req[r].sess.veils \subseteq copy.veils, Steady(flows, flows')
  PROVE  /\ sess' \in [Sessions -> SessionSet] /\ FlowsReturn'
         /\ req' = [req EXCEPT ![r] = Idle] /\ req' \in [Requests -> RequestSet]
         /\ RequestsInStep' /\ Alone' /\ Pending(req') \subseteq Pending(req)
<1>1. \A v \in DOMAIN flows' : flows'[v].owed = TRUE =>
        v \in DOMAIN flows /\ flows[v].owed = TRUE /\ flows[v].s = flows'[v].s
  BY DEF Steady
<1>2. \A v \in DOMAIN flows : flows[v].owed = TRUE /\ flows[v].s = req[r].s => v \in copy.veils
  BY DEF ServiceInv, RequestsInStep, InStep
<1>3. \A v \in DOMAIN flows' : flows'[v].owed = TRUE =>
        IF flows'[v].s = req[r].s THEN v \in copy.veils
        ELSE v \in DOMAIN flows /\ flows[v].owed = TRUE /\ flows[v].s = flows'[v].s
  BY <1>1, <1>2
<1>4. /\ sess' \in [Sessions -> SessionSet] /\ FlowsReturn'
      /\ req' = [req EXCEPT ![r] = Idle] /\ req' \in [Requests -> RequestSet]
  BY <1>3, AnswerServes
<1>5. InStep(Idle, flows') /\ Settings(Idle, strategy', scopes')
  BY IdleTypes DEF InStep, Settings
<1>6. RequestsInStep' /\ Alone'
  BY <1>4, <1>5, IdleTypes, OthersInStep, TurnKeeps
<1>7. Pending(req') \subseteq Pending(req)
  BY <1>4, IdleTypes, TurnPending DEF ServiceInv
<1> QED
  BY <1>4, <1>6, <1>7

LEMMA FlowUpdate ==
  ASSUME ServiceTyped, flows' = [v \in DOMAIN flows |-> flows'[v]],
         \A v \in DOMAIN flows : flows'[v] \in FlowSet
  PROVE  flows' \in Seq(FlowSet) /\ DOMAIN flows' = DOMAIN flows /\ Len(flows') = Len(flows)
<1>1. Len(flows) \in Nat /\ DOMAIN flows = 1..Len(flows)
  BY FlowsLen
<1>2. flows' \in [1..Len(flows) -> FlowSet]
  BY <1>1
<1>3. flows' \in Seq(FlowSet)
  BY <1>1, <1>2, SeqDef
<1> QED
  BY <1>3, SameLen

LEMMA DeliveredSame ==
  ASSUME ServiceInv, Steady(flows, flows'), UNCHANGED delivered
  PROVE  (delivered \subseteq DeliveredSet)' /\ KindsReached'
<1>1. delivered \subseteq DeliveredSet
  BY DEF ServiceInv, ServiceTyped
<1>2. \A d \in delivered : d.veil \in DOMAIN flows
  BY <1>1 DEF DeliveredSet
<1>3. DOMAIN flows \subseteq DOMAIN flows' /\ \A v \in DOMAIN flows : flows'[v].url = flows[v].url
  BY DEF Steady
<1>4. (delivered \subseteq DeliveredSet)'
  BY <1>1, <1>3 DEF DeliveredSet
<1>5. KindsReached'
  BY <1>2, <1>3 DEF ServiceInv, KindsReached
<1> QED
  BY <1>4, <1>5

LEMMA FlowsSame ==
  ASSUME ServiceInv, UNCHANGED flows
  PROVE  /\ Steady(flows, flows') /\ flows' \in Seq(FlowSet) /\ FlowsAsked'
         /\ Len(flows') = Len(flows) /\ Len(flows) \in Nat
<1>1. Steady(flows, flows')
  BY SteadySame
<1>2. FlowsAsked'
  BY DEF ServiceInv, FlowsAsked, FlowAsked, Entry
<1>3. flows' \in Seq(FlowSet) /\ Len(flows) \in Nat
  BY FlowsLen DEF ServiceInv, ServiceTyped
<1> QED
  BY <1>1, <1>2, <1>3

LEMMA UpsetSpent ==
  ASSUME ServiceTyped, Upset
  PROVE  budget' \in Budgets
<1>1. budget \in Budgets /\ budget.upsets > 0 /\ budget' = [budget EXCEPT !.upsets = budget.upsets - 1]
  BY DEF ServiceTyped, Upset
<1>2. budget.upsets \in 0..MaxUpsets /\ MaxUpsets \in Nat
  BY <1>1, ServiceConstants DEF Budgets
<1>3. budget.upsets - 1 \in 0..MaxUpsets
  BY <1>1, <1>2
<1> QED
  BY <1>1, <1>3 DEF Budgets

\* A request is answered and nothing else happens but to the shared settings.
LEMMA AnswerOnly ==
  ASSUME ServiceInv, NEW r \in Requests, req[r].pc # "idle", NEW copy \in SessionSet, Answer(r, copy),
         req[r].sess.veils \subseteq copy.veils, UNCHANGED <<secrets, urls, flows, delivered, budget>>,
         strategy' \in [ProviderTypes -> Kinds], scopes' \in [GlobalEntries -> AnyScopes]
  PROVE  ServiceInv'
<1>1. /\ Steady(flows, flows') /\ flows' \in Seq(FlowSet) /\ FlowsAsked'
      /\ Len(flows') = Len(flows) /\ Len(flows) \in Nat
  BY FlowsSame
<1>2. /\ sess' \in [Sessions -> SessionSet] /\ FlowsReturn' /\ req' \in [Requests -> RequestSet]
      /\ RequestsInStep' /\ Alone' /\ Pending(req') \subseteq Pending(req)
  BY <1>1, AnswerSteady
<1>3. (delivered \subseteq DeliveredSet)' /\ KindsReached'
  BY <1>1, DeliveredSame
<1>4. FlowsBounded'
  BY <1>1, <1>2, BoundKept
<1>5. ServiceTyped'
  BY <1>1, <1>2, <1>3 DEF ServiceInv, ServiceTyped
<1> QED
  BY <1>1, <1>2, <1>3, <1>4, <1>5 DEF ServiceInv

\* A request moves on, and nothing else happens but to the shared settings.
LEMMA MoveOnly ==
  ASSUME ServiceInv, NEW r \in Requests, req[r].pc # "idle", NEW new \in RequestSet,
         req' = [req EXCEPT ![r] = new], InStep(new, flows), Settings(new, strategy', scopes'),
         new.alone = req[r].alone, new.op = req[r].op, new.veil = req[r].veil,
         UNCHANGED <<secrets, urls, sess, flows, delivered, budget>>,
         strategy' \in [ProviderTypes -> Kinds], scopes' \in [GlobalEntries -> AnyScopes]
  PROVE  ServiceInv'
<1>1. /\ Steady(flows, flows') /\ flows' \in Seq(FlowSet) /\ FlowsAsked'
      /\ Len(flows') = Len(flows) /\ Len(flows) \in Nat
  BY FlowsSame
<1>2. RequestsInStep' /\ Alone'
  BY <1>1, OthersInStep, TurnKeeps
<1>3. req' \in [Requests -> RequestSet]
  BY DEF ServiceInv, ServiceTyped
<1>4. (delivered \subseteq DeliveredSet)' /\ KindsReached'
  BY <1>1, DeliveredSame
<1>5. FlowsReturn'
  BY DEF ServiceInv, FlowsReturn
<1>6. FlowsBounded'
  BY <1>1, TurnPending, BoundKept DEF ServiceInv
<1>7. ServiceTyped'
  BY <1>1, <1>3, <1>4 DEF ServiceInv, ServiceTyped
<1> QED
  BY <1>1, <1>2, <1>4, <1>5, <1>6, <1>7 DEF ServiceInv

----------------------------------------------------------------------------
(* One lemma per action again.                                               *)

LEMMA SurroundingsServe ==
  ASSUME ServiceInv, IssueUrl \/ ChangeSecrets
  PROVE  ServiceInv'
<1>1. UNCHANGED <<strategy, scopes, sess, req, flows, delivered>>
  BY DEF IssueUrl, ChangeSecrets, shared
<1>2. ServiceTyped'
  <2>1. secrets' \subseteq UserSecrets
    BY DEF IssueUrl, ChangeSecrets, ServiceInv, ServiceTyped
  <2>2. urls' \subseteq Urls
    BY IssuedUrls DEF IssueUrl, ChangeSecrets, ServiceInv, ServiceTyped
  <2>3. budget' \in Budgets
    BY UpsetSpent DEF IssueUrl, ChangeSecrets, ServiceInv, ServiceTyped
  <2> QED
    BY <1>1, <2>1, <2>2, <2>3 DEF ServiceInv, ServiceTyped, DeliveredSet
<1>3. FlowsBounded' /\ RequestsInStep' /\ Alone' /\ FlowsAsked' /\ FlowsReturn' /\ KindsReached'
  BY <1>1 DEF ServiceInv, FlowsBounded, Pending, RequestsInStep, InStep, Settings, Alone, FlowsAsked,
              FlowAsked, Entry, FlowsReturn, KindsReached
<1> QED
  BY <1>2, <1>3 DEF ServiceInv

\* The flows change in what neither URL nor session nor scopes depend on.
LEMMA FlowsMove ==
  ASSUME ServiceInv, flows' = [v \in DOMAIN flows |-> flows'[v]],
         \A v \in DOMAIN flows :
           /\ flows'[v] \in FlowSet /\ flows'[v].url = flows[v].url /\ flows'[v].s = flows[v].s
           /\ flows'[v].owed = TRUE => flows[v].owed = TRUE
           /\ flows'[v].alone = flows[v].alone /\ flows'[v].asked = flows[v].asked
           /\ flows[v].code = "none" => flows'[v].code = "none"
  PROVE  /\ Steady(flows, flows') /\ flows' \in Seq(FlowSet) /\ FlowsAsked'
         /\ Len(flows') = Len(flows) /\ Len(flows) \in Nat /\ DOMAIN flows' = DOMAIN flows
<1>1. flows' \in Seq(FlowSet) /\ DOMAIN flows' = DOMAIN flows /\ Len(flows') = Len(flows)
  BY FlowUpdate DEF ServiceInv
<1>2. Steady(flows, flows')
  BY <1>1 DEF Steady
<1>3. FlowsAsked'
  BY <1>1 DEF ServiceInv, FlowsAsked, FlowAsked, Entry
<1> QED
  BY <1>1, <1>2, <1>3, FlowsLen DEF ServiceInv

LEMMA GrantServes ==
  ASSUME ServiceInv, ProviderGrants
  PROVE  ServiceInv'
<1>1. PICK w \in DOMAIN flows : flows[w].code = "asked" /\ flows' = [flows EXCEPT ![w].code = "granted"]
  BY DEF ProviderGrants
<1>2. UNCHANGED <<secrets, urls, strategy, scopes, sess, req, delivered, budget>>
  BY DEF ProviderGrants, shared
<1> DEFINE e(v) == IF v = w THEN [flows[v] EXCEPT !.code = "granted"] ELSE flows[v]
<1>3. flows' = [v \in DOMAIN flows |-> e(v)] /\ flows' = [v \in DOMAIN flows |-> flows'[v]]
  BY <1>1
<1>4. ASSUME NEW v \in DOMAIN flows
      PROVE  /\ e(v) \in FlowSet /\ e(v).url = flows[v].url /\ e(v).s = flows[v].s /\ e(v).owed = flows[v].owed
             /\ e(v).alone = flows[v].alone /\ e(v).asked = flows[v].asked
             /\ flows[v].code = "none" => e(v).code = "none"
  <2>1. flows[v] \in FlowSet
    BY FlowsLen DEF ServiceInv
  <2> QED
    BY <1>1, <2>1 DEF FlowSet
<1> HIDE DEF e
<1>5. /\ Steady(flows, flows') /\ flows' \in Seq(FlowSet) /\ FlowsAsked'
      /\ Len(flows') = Len(flows) /\ Len(flows) \in Nat /\ DOMAIN flows' = DOMAIN flows
  BY <1>3, <1>4, FlowsMove
<1>6. (delivered \subseteq DeliveredSet)' /\ KindsReached'
  BY <1>2, <1>5, DeliveredSame
<1>7. ServiceTyped'
  BY <1>2, <1>5, <1>6 DEF ServiceInv, ServiceTyped
<1>8. FlowsBounded'
  BY <1>2, <1>5 DEF ServiceInv, FlowsBounded, Pending
<1>9. Alone' /\ FlowsReturn'
  BY <1>2, <1>5 DEF ServiceInv, Alone, FlowsReturn, Steady
<1>10. RequestsInStep'
  <2>1. \A q \in Requests : InStep(req[q], flows') /\ Settings(req[q], strategy, scopes)
    BY <1>5, OthersInStep DEF ServiceInv, RequestsInStep
  <2> QED
    BY <1>2, <2>1 DEF RequestsInStep, InStep, Settings, Entry
<1> QED
  BY <1>5, <1>6, <1>7, <1>8, <1>9, <1>10 DEF ServiceInv

LEMMA BeginServes ==
  ASSUME ServiceInv, NEW r \in Requests, NEW s \in Sessions, NEW url \in Urls \cup {NoUrl}, NEW veil \in Nat,
         NEW op \in {"authenticate", "callback", "login", "logout"}, Begin(r, op, s, veil, url),
         op \in {"authenticate", "callback"} => url \in Urls,
         op = "callback" => veil \in DOMAIN flows /\ flows[veil].url = url,
         op # "callback" => veil = 0,
         op = "authenticate" => Len(flows) + Cardinality(Pending(req)) < MaxFlows
  PROVE  ServiceInv'
<1> DEFINE others == {q \in Requests : req[q].pc # "idle"}
           new == [op |-> op, pc |-> "route", s |-> s, sess |-> sess[s], veil |-> veil, url |-> url,
                   own |-> FALSE, alone |-> others = {}, tries |-> 0]
<1>1. /\ req[r].pc = "idle" /\ budget.begins > 0 /\ budget' = [budget EXCEPT !.begins = budget.begins - 1]
      /\ UNCHANGED <<secrets, urls, strategy, scopes, sess, flows, delivered>>
  BY DEF Begin, shared
<1>2. \A q \in Requests : req'[q] = IF q = r THEN new ELSE IF q \in others THEN [req[q] EXCEPT !.alone = FALSE]
                                    ELSE req[q]
  BY DEF Begin
<1>3. req' = [q \in Requests |-> req'[q]]
  BY DEF Begin
<1>4. budget' \in Budgets
  <2>1. budget \in Budgets
    BY DEF ServiceInv, ServiceTyped
  <2>2. budget.begins \in 0..MaxBegins /\ MaxBegins \in Nat
    BY <2>1, ServiceConstants DEF Budgets
  <2>3. budget.begins - 1 \in 0..MaxBegins
    BY <1>1, <2>2
  <2> QED
    BY <1>1, <2>1, <2>3 DEF Budgets
<1>5. /\ new \in RequestSet /\ new.op = op /\ new.pc = "route" /\ new.s = s /\ new.sess = sess[s]
      /\ new.veil = veil /\ new.url = url /\ (new.alone = TRUE => others = {})
  <2> DEFINE b == (others = {})
  <2>1. b \in BOOLEAN /\ (b = TRUE => others = {})
    OBVIOUS
  <2>2. 0 \in 0..(DefaultRetry - 1)
    BY RequestsBegin
  <2>3. sess[s] \in SessionSet
    BY DEF ServiceInv, ServiceTyped
  <2>4. new = [op |-> op, pc |-> "route", s |-> s, sess |-> sess[s], veil |-> veil, url |-> url,
               own |-> FALSE, alone |-> b, tries |-> 0]
    OBVIOUS
  <2> HIDE DEF b, new
  <2> QED
    BY <2>1, <2>2, <2>3, <2>4 DEF RequestSet
<1> HIDE DEF new
<1>6. ASSUME NEW q \in Requests, q # r
      PROVE  /\ req'[q] \in RequestSet /\ req'[q].pc = req[q].pc /\ req'[q].op = req[q].op
             /\ req'[q].veil = req[q].veil /\ req'[q].sess = req[q].sess /\ req'[q].url = req[q].url
             /\ req'[q].s = req[q].s /\ req'[q].own = req[q].own
             /\ req[q].pc # "idle" => req'[q].alone = FALSE
  <2>1. req[q] \in RequestSet
    BY DEF ServiceInv, ServiceTyped
  <2>2. req'[q] \in {req[q], [req[q] EXCEPT !.alone = FALSE]}
    BY <1>2, <1>6
  <2>3. req[q].pc # "idle" => req'[q] = [req[q] EXCEPT !.alone = FALSE]
    BY <1>2, <1>6
  <2> QED
    BY <2>1, <2>2, <2>3 DEF RequestSet
<1>7. ServiceTyped'
  <2>1. req' \in [Requests -> RequestSet]
    BY <1>2, <1>3, <1>5, <1>6
  <2> QED
    BY <1>1, <1>4, <2>1 DEF ServiceInv, ServiceTyped, DeliveredSet
<1>8. RequestsInStep'
  <2> SUFFICES ASSUME NEW q \in Requests PROVE InStep(req'[q], flows) /\ Settings(req'[q], strategy, scopes)
    BY <1>1 DEF RequestsInStep, InStep, Settings, Entry
  <2>1. CASE q = r
    <3>1. \A v \in DOMAIN flows : flows[v].owed = TRUE /\ flows[v].s = s => v \in sess[s].veils
      BY DEF ServiceInv, FlowsReturn
    <3>2. req'[q] = new
      BY <1>2, <2>1
    <3>3. InStep(new, flows)
      BY <1>5, <3>1 DEF InStep
    <3>4. Settings(new, strategy, scopes)
      BY <1>5 DEF Settings
    <3> QED
      BY <3>2, <3>3, <3>4
  <2>2. CASE q # r
    <3>1. InStep(req[q], flows)
      BY DEF ServiceInv, RequestsInStep
    <3>2. InStep(req'[q], flows)
      BY <1>6, <2>2, <3>1 DEF InStep
    <3>3. Settings(req'[q], strategy, scopes)
      BY <1>6, <2>2 DEF Settings
    <3> QED
      BY <3>2, <3>3
  <2> QED
    BY <2>1, <2>2
<1>9. Alone'
  <2> SUFFICES ASSUME NEW p \in Requests, NEW q \in Requests, p # q, req'[p].pc # "idle", req'[p].alone = TRUE
               PROVE  req'[q].pc = "idle"
    BY DEF Alone
  <2>1. p = r
    BY <1>6
  <2>2. others = {}
    BY <1>2, <1>5, <2>1
  <2> QED
    BY <1>6, <2>1, <2>2
<1>10. FlowsBounded'
  <2>1. Pending(req') \subseteq Pending(req) \cup {r}
    BY <1>6 DEF Pending
  <2>2. op # "authenticate" => Pending(req') \subseteq Pending(req)
    BY <1>2, <1>5, <1>6 DEF Pending
  <2>3. CASE op # "authenticate"
    BY <1>1, <2>2, <2>3, BoundKept, FlowsLen DEF ServiceInv
  <2>4. CASE op = "authenticate"
    <3>1. IsFiniteSet(Pending(req)) /\ Cardinality(Pending(req)) \in Nat
      BY PendingFinite
    <3>2. /\ IsFiniteSet(Pending(req) \cup {r})
          /\ Cardinality(Pending(req) \cup {r}) <= Cardinality(Pending(req)) + 1
          /\ Cardinality(Pending(req) \cup {r}) \in Nat
      <4> DEFINE P == Pending(req)
                 n == Cardinality(P)
                 m == Cardinality(P \cup {r})
      <4> HIDE DEF P
      <4>1. IsFiniteSet(P \cup {r}) /\ m = IF r \in P THEN n ELSE n + 1
        BY <3>1, FS_AddElement DEF P
      <4>2. n \in Nat
        BY <3>1 DEF P
      <4> HIDE DEF n, m
      <4>3. m <= n + 1 /\ m \in Nat
        BY <4>1, <4>2
      <4> QED
        BY <4>1, <4>3 DEF P, n, m
    <3>3. Cardinality(Pending(req')) <= Cardinality(Pending(req) \cup {r}) /\ Cardinality(Pending(req')) \in Nat
      BY <2>1, <3>2, FS_Subset, FS_CardinalityType
    <3>4. Len(flows) \in Nat /\ MaxFlows \in Nat
      BY FlowsLen, ServiceConstants DEF ServiceInv
    <3>5. Len(flows) + Cardinality(Pending(req)) < MaxFlows
      BY <2>4
    <3>6. Len(flows) + Cardinality(Pending(req')) <= MaxFlows
      BY <3>1, <3>2, <3>3, <3>4, <3>5
    <3> QED
      BY <1>1, <3>6 DEF FlowsBounded, Pending
  <2> QED
    BY <2>3, <2>4
<1>11. FlowsAsked' /\ FlowsReturn' /\ KindsReached'
  BY <1>1 DEF ServiceInv, FlowsAsked, FlowAsked, Entry, FlowsReturn, KindsReached
<1> QED
  BY <1>7, <1>8, <1>9, <1>10, <1>11 DEF ServiceInv

LEMMA ArriveServes ==
  ASSUME ServiceInv, NEW r \in Requests, Arrive(r)
  PROVE  ServiceInv'
<1>1. CASE BeginAuthenticate(r)
  <2>1. PICK s \in Sessions, u \in urls : Begin(r, "authenticate", s, 0, u)
    BY <1>1 DEF BeginAuthenticate
  <2>2. u \in Urls
    BY DEF ServiceInv, ServiceTyped
  <2>3. Len(flows) + Cardinality(Pending(req)) < MaxFlows
    BY <1>1 DEF BeginAuthenticate, Pending
  <2> QED
    BY <2>1, <2>2, <2>3, BeginServes
<1>2. CASE BeginCallback(r)
  <2>1. PICK v \in DOMAIN flows, s \in Sessions : Begin(r, "callback", s, v, flows[v].url)
    BY <1>2 DEF BeginCallback
  <2>2. flows[v].url \in Urls /\ v \in Nat
    BY FlowsLen DEF ServiceInv, FlowSet
  <2> QED
    BY <2>1, <2>2, BeginServes
<1>3. CASE BeginLogin(r) \/ BeginLogout(r)
  BY <1>3, BeginServes DEF BeginLogin, BeginLogout
<1> QED
  BY <1>1, <1>2, <1>3 DEF Arrive

LEMMA FindControllerServes ==
  ASSUME ServiceInv, NEW r \in Requests, FindController(r)
  PROVE  ServiceInv'
<1>1. /\ req[r].pc = "route" /\ req[r].op \in {"authenticate", "callback"}
      /\ UNCHANGED <<secrets, urls, scopes, flows, delivered, budget>>
  BY DEF FindController, Route
<1>2. req[r] \in RequestSet /\ InStep(req[r], flows) /\ strategy \in [ProviderTypes -> Kinds]
      /\ scopes' \in [GlobalEntries -> AnyScopes]
  BY <1>1 DEF ServiceInv, ServiceTyped, RequestsInStep
<1>3. CASE ~UnveilState(r)
  <2>1. Answer(r, req[r].sess) /\ UNCHANGED strategy
    BY <1>3 DEF FindController, Route
  <2>2. req[r].sess \in SessionSet
    BY <1>2 DEF RequestSet
  <2> QED
    BY <1>1, <1>2, <2>1, <2>2, AnswerOnly
<1>4. CASE UnveilState(r)
  <2> DEFINE next == IF req[r].op = "callback" THEN "exchange" ELSE "access"
             new == [req[r] EXCEPT !.pc = next]
  <2>1. /\ strategy' = [strategy EXCEPT ![req[r].url.type] = req[r].url.obj.kind] /\ UNCHANGED sess
        /\ req' = [req EXCEPT ![r] = new]
    BY <1>4 DEF FindController, Route, setSyncStrategy, Goto
  <2>2. req[r].url \in Urls
    BY <1>1, <1>2 DEF InStep
  <2>3. strategy' \in [ProviderTypes -> Kinds] /\ strategy'[req[r].url.type] = req[r].url.obj.kind
    BY <1>2, <2>1, <2>2, UrlFields
  <2>4. next \in {"exchange", "access"} /\ (req[r].op = "callback" <=> next = "exchange")
    OBVIOUS
  <2> HIDE DEF next
  <2>5. /\ new \in RequestSet /\ new.pc = next /\ new.op = req[r].op /\ new.s = req[r].s
        /\ new.sess = req[r].sess /\ new.veil = req[r].veil /\ new.url = req[r].url
        /\ new.own = req[r].own /\ new.alone = req[r].alone
    BY <1>2, <2>4 DEF RequestSet
  <2> HIDE DEF new
  <2>6. InStep(new, flows)
    BY <1>1, <1>2, <2>4, <2>5 DEF InStep
  <2>7. Settings(new, strategy', scopes')
    BY <2>3, <2>4, <2>5 DEF Settings
  <2> QED
    BY <1>1, <1>2, <2>1, <2>3, <2>5, <2>6, <2>7, MoveOnly
<1> QED
  BY <1>3, <1>4

LEMMA ConfigureServes ==
  ASSUME ServiceInv, NEW r \in Requests, Configure(r)
  PROVE  ServiceInv'
<1> DEFINE u == req[r].url
           cfg == obtainOauthConfig(secrets, u.type, u.base)
<1>1. req[r].pc = "config" /\ UNCHANGED <<secrets, urls, strategy, flows, delivered, budget>>
  BY DEF Configure, ConfigureWith
<1>2. /\ req[r] \in RequestSet /\ InStep(req[r], flows) /\ strategy' \in [ProviderTypes -> Kinds]
      /\ scopes \in [GlobalEntries -> AnyScopes]
  BY <1>1 DEF ServiceInv, ServiceTyped, RequestsInStep
<1>3. IF cfg.st = "ok"
      THEN /\ scopes' = IF cfg.own THEN scopes ELSE [scopes EXCEPT ![Entry(u)] = u.obj.scopes]
           /\ req' = [req EXCEPT ![r].pc = "redirect", ![r].own = cfg.own] /\ UNCHANGED sess
      ELSE Answer(r, req[r].sess) /\ UNCHANGED scopes
  BY DEF Configure, ConfigureWith, Entry
<1>4. cfg.st = "ok" => cfg.own \in BOOLEAN /\ (cfg.own = FALSE => Entry(u) \in GlobalEntries)
  BY SharedEntries DEF Entry
<1> HIDE DEF cfg
<1>5. CASE cfg.st # "ok"
  <2>1. Answer(r, req[r].sess) /\ UNCHANGED scopes
    BY <1>3, <1>5
  <2>2. req[r].sess \in SessionSet
    BY <1>2 DEF RequestSet
  <2> QED
    BY <1>1, <1>2, <2>1, <2>2, AnswerOnly
<1>6. CASE cfg.st = "ok"
  <2> DEFINE own == cfg.own
             new == [req[r] EXCEPT !.pc = "redirect", !.own = own]
  <2>1. /\ scopes' = IF own THEN scopes ELSE [scopes EXCEPT ![Entry(u)] = u.obj.scopes]
        /\ req' = [req EXCEPT ![r] = new] /\ UNCHANGED sess
    BY <1>3, <1>6
  <2>2. own \in BOOLEAN /\ (own = FALSE => Entry(u) \in GlobalEntries)
    BY <1>4, <1>6
  <2>3. u \in Urls
    BY <1>1, <1>2 DEF InStep
  <2> HIDE DEF own
  <2>4. scopes' \in [GlobalEntries -> AnyScopes] /\ (own = FALSE => scopes'[Entry(u)] = u.obj.scopes)
    BY <1>2, <2>1, <2>2, <2>3, UrlFields
  <2>5. /\ new \in RequestSet /\ new.pc = "redirect" /\ new.op = req[r].op /\ new.s = req[r].s
        /\ new.sess = req[r].sess /\ new.veil = req[r].veil /\ new.url = req[r].url
        /\ new.own = own /\ new.alone = req[r].alone
    BY <1>2, <2>2 DEF RequestSet
  <2> HIDE DEF new
  <2>6. InStep(new, flows)
    BY <1>1, <1>2, <2>2, <2>5 DEF InStep
  <2>7. Settings(new, strategy', scopes')
    BY <2>4, <2>5 DEF Settings
  <2> QED
    BY <1>1, <1>2, <2>1, <2>4, <2>5, <2>6, <2>7, MoveOnly
<1> QED
  BY <1>5, <1>6

LEMMA LoginServes ==
  ASSUME ServiceInv, NEW r \in Requests, Login(r)
  PROVE  ServiceInv'
<1>1. /\ req[r].pc = "route" /\ UNCHANGED <<secrets, urls, strategy, scopes, flows, delivered, budget>>
  BY DEF Login, shared
<1>2. PICK token \in BOOLEAN : Answer(r, [req[r].sess EXCEPT !.auth = req[r].sess.auth \/ token])
  BY DEF Login
<1>3. req[r].sess \in SessionSet
  BY DEF ServiceInv, ServiceTyped, RequestSet
<1> DEFINE b == req[r].sess.auth \/ token
           copy == [req[r].sess EXCEPT !.auth = b]
<1>4. b \in BOOLEAN
  OBVIOUS
<1>5. Answer(r, copy)
  BY <1>2
<1> HIDE DEF b
<1>6. copy \in SessionSet /\ copy.veils = req[r].sess.veils
  BY <1>3, <1>4 DEF SessionSet
<1> HIDE DEF copy
<1>7. strategy' \in [ProviderTypes -> Kinds] /\ scopes' \in [GlobalEntries -> AnyScopes]
  BY <1>1 DEF ServiceInv, ServiceTyped
<1> QED
  BY <1>1, <1>5, <1>6, <1>7, AnswerOnly

LEMMA ExchangeServes ==
  ASSUME ServiceInv, NEW r \in Requests, Exchange(r)
  PROVE  ServiceInv'
<1>1. /\ req[r].pc = "exchange" /\ UNCHANGED <<secrets, urls, strategy, scopes, delivered, budget>>
      /\ \/ /\ flows[req[r].veil].code = "granted" /\ flows' = [flows EXCEPT ![req[r].veil].code = "used"]
            /\ Goto(r, "sync") /\ UNCHANGED sess
         \/ Answer(r, req[r].sess) /\ UNCHANGED flows
  BY DEF Exchange, shared
<1>2. /\ req[r] \in RequestSet /\ InStep(req[r], flows) /\ Settings(req[r], strategy, scopes)
      /\ strategy' \in [ProviderTypes -> Kinds] /\ scopes' \in [GlobalEntries -> AnyScopes]
  BY <1>1 DEF ServiceInv, ServiceTyped, RequestsInStep
<1>3. CASE Answer(r, req[r].sess) /\ UNCHANGED flows
  <2>1. req[r].sess \in SessionSet
    BY <1>2 DEF RequestSet
  <2> QED
    BY <1>1, <1>2, <1>3, <2>1, AnswerOnly
<1>4. CASE /\ flows[req[r].veil].code = "granted" /\ flows' = [flows EXCEPT ![req[r].veil].code = "used"]
           /\ Goto(r, "sync") /\ UNCHANGED sess
  <2> DEFINE w == req[r].veil
             e(v) == IF v = w THEN [flows[v] EXCEPT !.code = "used"] ELSE flows[v]
             new == [req[r] EXCEPT !.pc = "sync"]
  <2>1. w \in DOMAIN flows
    BY <1>1, <1>2 DEF InStep
  <2>2. flows' = [v \in DOMAIN flows |-> e(v)] /\ flows' = [v \in DOMAIN flows |-> flows'[v]]
    BY <1>4
  <2>3. ASSUME NEW v \in DOMAIN flows
        PROVE  /\ e(v) \in FlowSet /\ e(v).url = flows[v].url /\ e(v).s = flows[v].s
               /\ e(v).owed = flows[v].owed /\ e(v).alone = flows[v].alone /\ e(v).asked = flows[v].asked
               /\ flows[v].code = "none" => e(v).code = "none"
    <3>1. flows[v] \in FlowSet
      BY FlowsLen DEF ServiceInv
    <3> QED
      BY <1>4, <3>1 DEF FlowSet
  <2> HIDE DEF e
  <2>4. /\ Steady(flows, flows') /\ flows' \in Seq(FlowSet) /\ FlowsAsked'
        /\ Len(flows') = Len(flows) /\ Len(flows) \in Nat /\ DOMAIN flows' = DOMAIN flows
    BY <2>2, <2>3, FlowsMove
  <2>5. (delivered \subseteq DeliveredSet)' /\ KindsReached'
    BY <1>1, <2>4, DeliveredSame
  <2>6. req' = [req EXCEPT ![r] = new]
    BY <1>4 DEF Goto
  <2>7. /\ new \in RequestSet /\ new.pc = "sync" /\ new.op = req[r].op /\ new.s = req[r].s
        /\ new.sess = req[r].sess /\ new.veil = req[r].veil /\ new.url = req[r].url
        /\ new.own = req[r].own /\ new.alone = req[r].alone
    BY <1>2 DEF RequestSet
  <2> HIDE DEF new
  <2>8. InStep(new, flows)
    BY <1>1, <1>2, <2>7 DEF InStep
  <2>9. InStep(new, flows') /\ Settings(new, strategy', scopes')
    <3>1. InStep(new, flows')
      BY <2>4, <2>8, SteadyKeeps
    <3>2. Settings(new, strategy', scopes')
      BY <1>1, <1>2, <2>7 DEF Settings
    <3> QED
      BY <3>1, <3>2
  <2>10. RequestsInStep' /\ Alone'
    BY <1>1, <2>4, <2>6, <2>7, <2>9, OthersInStep, TurnKeeps
  <2>11. FlowsBounded'
    BY <2>4, <2>6, <2>7, TurnPending, BoundKept DEF ServiceInv
  <2>12. FlowsReturn'
    BY <1>4, <2>4 DEF ServiceInv, FlowsReturn, Steady
  <2>13. ServiceTyped'
    <3>1. req' \in [Requests -> RequestSet]
      BY <2>6, <2>7 DEF ServiceInv, ServiceTyped
    <3> QED
      BY <1>1, <1>4, <2>4, <2>5, <3>1 DEF ServiceInv, ServiceTyped
  <2> QED
    BY <2>4, <2>5, <2>10, <2>11, <2>12, <2>13 DEF ServiceInv
<1> QED
  BY <1>1, <1>3, <1>4

\* What a request that runs alone delivers is of the kind of its flow.
LEMMA DeliverServes ==
  ASSUME ServiceInv, NEW r \in Requests, req[r].pc = "sync", UNCHANGED flows,
         Deliver(r) \/ UNCHANGED delivered
  PROVE  (delivered \subseteq DeliveredSet)' /\ KindsReached'
<1> DEFINE d == [veil |-> req[r].veil, kind |-> strategy[req[r].url.type], s |-> req[r].s,
                 alone |-> req[r].alone]
<1>1. req[r] \in RequestSet /\ InStep(req[r], flows) /\ Settings(req[r], strategy, scopes)
  BY DEF ServiceInv, ServiceTyped, RequestsInStep
<1>2. req[r].veil \in DOMAIN flows /\ flows[req[r].veil].url = req[r].url /\ req[r].url \in Urls
  BY <1>1 DEF InStep
<1>3. strategy[req[r].url.type] \in Kinds
  BY <1>2, UrlFields DEF ServiceInv, ServiceTyped
<1>4. req[r].alone = TRUE => strategy[req[r].url.type] = req[r].url.obj.kind
  BY <1>1 DEF Settings
<1>5. d \in DeliveredSet /\ (d.alone = TRUE => d.kind = flows[d.veil].url.obj.kind)
  BY <1>1, <1>2, <1>3, <1>4 DEF DeliveredSet, RequestSet
<1>6. delivered' \subseteq delivered \cup {d}
  BY DEF Deliver
<1> HIDE DEF d
<1>7. \A x \in delivered' : x \in DeliveredSet /\ (x.alone = TRUE => x.kind = flows[x.veil].url.obj.kind)
  BY <1>5, <1>6 DEF ServiceInv, ServiceTyped, KindsReached
<1>8. DeliveredSet' = DeliveredSet
  BY DEF DeliveredSet
<1> QED
  BY <1>7, <1>8 DEF KindsReached

LEMMA SyncServes ==
  ASSUME ServiceInv, NEW r \in Requests, Sync(r)
  PROVE  ServiceInv'
<1>1. /\ req[r].pc = "sync" /\ UNCHANGED <<secrets, urls, strategy, scopes, flows, budget>>
  BY DEF Sync, shared
<1>2. \/ (Deliver(r) \/ UNCHANGED delivered) /\ Answer(r, req[r].sess)
      \/ Conflict(r) /\ UNCHANGED <<sess, delivered>>
  BY DEF Sync, SyncRemoteSecret, SyncSPIAccessToken
<1>3. /\ req[r] \in RequestSet /\ InStep(req[r], flows) /\ Settings(req[r], strategy, scopes)
      /\ strategy' \in [ProviderTypes -> Kinds] /\ scopes' \in [GlobalEntries -> AnyScopes]
  BY <1>1 DEF ServiceInv, ServiceTyped, RequestsInStep
<1>4. CASE (Deliver(r) \/ UNCHANGED delivered) /\ Answer(r, req[r].sess)
  <2>1. /\ Steady(flows, flows') /\ flows' \in Seq(FlowSet) /\ FlowsAsked'
        /\ Len(flows') = Len(flows) /\ Len(flows) \in Nat
    BY <1>1, FlowsSame
  <2>2. req[r].sess \in SessionSet
    BY <1>3 DEF RequestSet
  <2>3. /\ sess' \in [Sessions -> SessionSet] /\ FlowsReturn' /\ req' \in [Requests -> RequestSet]
        /\ RequestsInStep' /\ Alone' /\ Pending(req') \subseteq Pending(req)
    BY <1>1, <1>4, <2>1, <2>2, AnswerSteady
  <2>4. (delivered \subseteq DeliveredSet)' /\ KindsReached'
    BY <1>1, <1>4, DeliverServes
  <2>5. FlowsBounded'
    BY <2>1, <2>3, BoundKept
  <2>6. ServiceTyped'
    BY <1>1, <2>1, <2>3, <2>4 DEF ServiceInv, ServiceTyped
  <2> QED
    BY <2>1, <2>3, <2>4, <2>5, <2>6 DEF ServiceInv
<1>5. CASE Conflict(r) /\ UNCHANGED <<sess, delivered>>
  <2> DEFINE new == [req[r] EXCEPT !.tries = req[r].tries + 1]
  <2>1. req[r].tries + 1 < DefaultRetry /\ req' = [req EXCEPT ![r] = new]
    BY <1>5 DEF Conflict
  <2>2. req[r].tries + 1 \in 0..(DefaultRetry - 1)
    <3>1. req[r].tries \in 0..(DefaultRetry - 1) /\ DefaultRetry \in Nat
      BY <1>3, RequestsBegin DEF RequestSet
    <3> QED
      BY <2>1, <3>1
  <2>3. /\ new \in RequestSet /\ new.pc = req[r].pc /\ new.op = req[r].op /\ new.s = req[r].s
        /\ new.sess = req[r].sess /\ new.veil = req[r].veil /\ new.url = req[r].url
        /\ new.own = req[r].own /\ new.alone = req[r].alone
    BY <1>3, <2>2 DEF RequestSet
  <2> HIDE DEF new
  <2>4. InStep(new, flows)
    BY <1>1, <1>3, <2>3 DEF InStep
  <2>5. Settings(new, strategy', scopes')
    BY <1>1, <1>3, <2>3 DEF Settings
  <2> QED
    BY <1>1, <1>3, <1>5, <2>1, <2>3, <2>4, <2>5, MoveOnly
<1> QED
  BY <1>2, <1>4, <1>5

\* The flow is sent to the provider: it is owed if its request ran alone.
LEMMA RedirectServes ==
  ASSUME ServiceInv, VeilsStayHome, NEW r \in Requests, Redirect(r)
  PROVE  ServiceInv'
<1> DEFINE u == req[r].url
           w == req[r].veil
           alone == req[r].alone
           asked == IF req[r].own THEN u.obj.scopes ELSE scopes[Entry(u)]
           e(v) == IF v = w THEN [flows[v] EXCEPT !.code = "asked", !.alone = alone, !.owed = alone,
                                                  !.asked = asked]
                   ELSE flows[v]
<1>1. /\ req[r].pc = "redirect" /\ UNCHANGED <<secrets, urls, strategy, scopes, delivered, budget>>
      /\ Answer(r, req[r].sess)
  BY DEF Redirect, shared
<1>2. flows' = [v \in DOMAIN flows |-> e(v)] /\ flows' = [v \in DOMAIN flows |-> flows'[v]]
  BY DEF Redirect, Entry
<1>3. /\ req[r] \in RequestSet /\ InStep(req[r], flows) /\ Settings(req[r], strategy, scopes)
      /\ scopes \in [GlobalEntries -> AnyScopes]
  BY DEF ServiceInv, ServiceTyped, RequestsInStep
<1>4. /\ w \in DOMAIN flows /\ w \in req[r].sess.veils /\ flows[w].url = u /\ u \in Urls
      /\ (req[r].own = FALSE => Entry(u) \in GlobalEntries)
  BY <1>1, <1>3 DEF InStep
<1>5. flows[w].s = req[r].s
  BY <1>4 DEF VeilsStayHome, RequestsOK, SessionOK, VeilOf
<1>6. /\ req[r].own \in BOOLEAN /\ alone \in BOOLEAN /\ req[r].sess \in SessionSet /\ asked \in AnyScopes
      /\ req[r].own = TRUE => asked = u.obj.scopes
      /\ req[r].own = FALSE => asked = scopes[Entry(u)]
  <2>1. req[r].own \in BOOLEAN /\ alone \in BOOLEAN /\ req[r].sess \in SessionSet
    BY <1>3 DEF RequestSet
  <2> QED
    BY <1>3, <1>4, <2>1, UrlFields
<1>7. alone = TRUE => asked = u.obj.scopes
  BY <1>1, <1>3, <1>6 DEF Settings
<1>8. Entry(u) \notin GlobalEntries => asked = u.obj.scopes
  BY <1>4, <1>6
<1> HIDE DEF asked, alone
<1>9. ASSUME NEW v \in DOMAIN flows
      PROVE  /\ e(v) \in FlowSet /\ e(v).url = flows[v].url /\ e(v).s = flows[v].s
             /\ v # w => e(v) = flows[v]
             /\ v = w => e(v).owed = alone /\ e(v).alone = alone /\ e(v).asked = asked
  <2>1. flows[v] \in FlowSet
    BY FlowsLen DEF ServiceInv
  <2> QED
    BY <1>6, <2>1 DEF FlowSet
<1> HIDE DEF e
<1>10. flows' \in Seq(FlowSet) /\ DOMAIN flows' = DOMAIN flows /\ Len(flows') = Len(flows)
  BY <1>2, <1>9, FlowUpdate DEF ServiceInv
<1>11. FlowsAsked'
  <2> SUFFICES ASSUME NEW v \in DOMAIN flows PROVE FlowAsked(e(v))
    BY <1>2, <1>10 DEF FlowsAsked, FlowAsked, Entry
  <2>1. CASE v = w
    BY <1>4, <1>7, <1>8, <1>9, <2>1 DEF FlowAsked
  <2>2. CASE v # w
    BY <1>9, <2>2 DEF ServiceInv, FlowsAsked
  <2> QED
    BY <2>1, <2>2
<1>12. \A v \in DOMAIN flows' : flows'[v].owed = TRUE =>
         IF flows'[v].s = req[r].s THEN v \in req[r].sess.veils
         ELSE v \in DOMAIN flows /\ flows[v].owed = TRUE /\ flows[v].s = flows'[v].s
  <2> SUFFICES ASSUME NEW v \in DOMAIN flows, e(v).owed = TRUE
               PROVE  IF e(v).s = req[r].s THEN v \in req[r].sess.veils
                      ELSE flows[v].owed = TRUE /\ flows[v].s = e(v).s
    BY <1>2, <1>10
  <2>1. CASE v = w
    BY <1>4, <1>5, <1>9, <2>1
  <2>2. CASE v # w
    BY <1>1, <1>3, <1>9, <2>2 DEF InStep
  <2> QED
    BY <2>1, <2>2
<1>13. /\ sess' \in [Sessions -> SessionSet] /\ FlowsReturn'
       /\ req' = [req EXCEPT ![r] = Idle] /\ req' \in [Requests -> RequestSet]
  BY <1>1, <1>6, <1>12, AnswerServes
<1>14. \A q \in Requests \ {r} : InStep(req[q], flows')
  <2>1. CASE alone = TRUE
    <3> SUFFICES ASSUME NEW q \in Requests \ {r} PROVE InStep(req[q], flows')
      OBVIOUS
    <3>1. req[q].pc = "idle"
      BY <1>1, <2>1 DEF ServiceInv, Alone, alone
    <3>2. req[q].op = "none" /\ req[q].veil = 0
      BY <3>1 DEF ServiceInv, RequestsInStep, InStep
    <3> QED
      BY <3>1, <3>2 DEF InStep
  <2>2. CASE alone = FALSE
    <3>1. Steady(flows, flows')
      BY <1>2, <1>9, <1>10, <2>2 DEF Steady
    <3> QED
      BY <3>1, OthersInStep
  <2> QED
    BY <1>6, <2>1, <2>2
<1>15. RequestsInStep' /\ Alone'
  <2>1. InStep(Idle, flows') /\ Settings(Idle, strategy', scopes')
    BY IdleTypes DEF InStep, Settings
  <2> QED
    BY <1>1, <1>13, <1>14, <2>1, IdleTypes, TurnKeeps
<1>16. FlowsBounded'
  <2>1. Pending(req') \subseteq Pending(req)
    BY <1>13, IdleTypes, TurnPending DEF ServiceInv
  <2> QED
    BY <1>10, <2>1, FlowsLen, BoundKept DEF ServiceInv
<1>17. (delivered \subseteq DeliveredSet)' /\ KindsReached'
  <2>1. \A d \in delivered : d.veil \in DOMAIN flows
    BY DEF ServiceInv, ServiceTyped, DeliveredSet
  <2>2. \A v \in DOMAIN flows : flows'[v].url = flows[v].url
    BY <1>2, <1>9
  <2>3. (delivered \subseteq DeliveredSet)'
    BY <1>1, <1>10 DEF ServiceInv, ServiceTyped, DeliveredSet
  <2> QED
    BY <1>1, <2>1, <2>2, <2>3 DEF ServiceInv, KindsReached
<1>18. ServiceTyped'
  BY <1>1, <1>10, <1>13, <1>17 DEF ServiceInv, ServiceTyped
<1> QED
  BY <1>11, <1>13, <1>15, <1>16, <1>17, <1>18 DEF ServiceInv

\* The flows of ended sessions are not owed any more, and change in nothing else.
LEMMA DisownedServes ==
  ASSUME ServiceInv, NEW ended, flows' = Disowned(ended), sess' \in [Sessions -> SessionSet],
         \A s \in Sessions \ ended : sess'[s] = sess[s]
  PROVE  /\ Steady(flows, flows') /\ flows' \in Seq(FlowSet) /\ FlowsAsked' /\ FlowsReturn'
         /\ Len(flows') = Len(flows) /\ Len(flows) \in Nat
<1> DEFINE e(v) == IF flows[v].s \in ended THEN [flows[v] EXCEPT !.owed = FALSE] ELSE flows[v]
<1>1. flows' = [v \in DOMAIN flows |-> e(v)] /\ flows' = [v \in DOMAIN flows |-> flows'[v]]
  BY DEF Disowned
<1>2. ASSUME NEW v \in DOMAIN flows
      PROVE  /\ e(v) \in FlowSet /\ e(v).url = flows[v].url /\ e(v).s = flows[v].s /\ e(v).s \in Sessions
             /\ (e(v).owed = TRUE => flows[v].owed = TRUE /\ flows[v].s \notin ended)
             /\ e(v).alone = flows[v].alone /\ e(v).asked = flows[v].asked /\ e(v).code = flows[v].code
  <2>1. flows[v] \in FlowSet
    BY FlowsLen DEF ServiceInv
  <2> QED
    BY <2>1 DEF FlowSet
<1> HIDE DEF e
<1>3. /\ Steady(flows, flows') /\ flows' \in Seq(FlowSet) /\ FlowsAsked'
      /\ Len(flows') = Len(flows) /\ Len(flows) \in Nat /\ DOMAIN flows' = DOMAIN flows
  BY <1>1, <1>2, FlowsMove
<1>4. FlowsReturn'
  <2> SUFFICES ASSUME NEW v \in DOMAIN flows, e(v).owed = TRUE
               PROVE  sess'[e(v).s].live = TRUE /\ v \in sess'[e(v).s].veils
    BY <1>1, <1>3 DEF FlowsReturn
  <2>1. flows[v].owed = TRUE /\ e(v).s = flows[v].s /\ flows[v].s \in Sessions \ ended
    BY <1>2
  <2> QED
    BY <2>1 DEF ServiceInv, FlowsReturn
<1> QED
  BY <1>3, <1>4

LEMMA LogoutServes ==
  ASSUME ServiceInv, NEW r \in Requests, Logout(r)
  PROVE  ServiceInv'
<1>1. /\ req[r].pc = "route" /\ sess' = [sess EXCEPT ![req[r].s] = NoSession]
      /\ flows' = Disowned({req[r].s}) /\ req' = [req EXCEPT ![r] = Idle]
      /\ UNCHANGED <<secrets, urls, strategy, scopes, delivered, budget>>
  BY DEF Logout, EndRequest, shared
<1>2. sess' \in [Sessions -> SessionSet] /\ \A s \in Sessions \ {req[r].s} : sess'[s] = sess[s]
  BY <1>1, IdleTypes DEF ServiceInv, ServiceTyped
<1>3. /\ Steady(flows, flows') /\ flows' \in Seq(FlowSet) /\ FlowsAsked' /\ FlowsReturn'
      /\ Len(flows') = Len(flows) /\ Len(flows) \in Nat
  BY <1>1, <1>2, DisownedServes
<1>4. InStep(Idle, flows') /\ Settings(Idle, strategy', scopes')
  BY IdleTypes DEF InStep, Settings
<1>5. RequestsInStep' /\ Alone'
  BY <1>1, <1>3, <1>4, IdleTypes, OthersInStep, TurnKeeps
<1>6. FlowsBounded'
  BY <1>1, <1>3, IdleTypes, TurnPending, BoundKept DEF ServiceInv
<1>7. (delivered \subseteq DeliveredSet)' /\ KindsReached'
  BY <1>1, <1>3, DeliveredSame
<1>8. ServiceTyped'
  <2>1. req' \in [Requests -> RequestSet]
    BY <1>1, IdleTypes DEF ServiceInv, ServiceTyped
  <2> QED
    BY <1>1, <1>2, <1>3, <1>7, <2>1 DEF ServiceInv, ServiceTyped
<1> QED
  BY <1>3, <1>5, <1>6, <1>7, <1>8 DEF ServiceInv

LEMMA SessionExpiresServes ==
  ASSUME ServiceInv, SessionExpires
  PROVE  ServiceInv'
<1>1. PICK s \in Sessions : sess' = [sess EXCEPT ![s] = NoSession] /\ flows' = Disowned({s})
  BY DEF SessionExpires
<1>2. UNCHANGED <<secrets, urls, strategy, scopes, req, delivered>> /\ budget' \in Budgets
  BY UpsetSpent DEF SessionExpires, shared, ServiceInv
<1>3. sess' \in [Sessions -> SessionSet] /\ \A x \in Sessions \ {s} : sess'[x] = sess[x]
  BY <1>1, IdleTypes DEF ServiceInv, ServiceTyped
<1>4. /\ Steady(flows, flows') /\ flows' \in Seq(FlowSet) /\ FlowsAsked' /\ FlowsReturn'
      /\ Len(flows') = Len(flows) /\ Len(flows) \in Nat
  BY <1>1, <1>3, DisownedServes
<1>5. RequestsInStep'
  <2>1. \A q \in Requests : InStep(req[q], flows') /\ Settings(req[q], strategy, scopes)
    BY <1>4, OthersInStep DEF ServiceInv, RequestsInStep
  <2> QED
    BY <1>2, <2>1 DEF RequestsInStep, InStep, Settings, Entry
<1>6. Alone' /\ FlowsBounded'
  BY <1>2, <1>4 DEF ServiceInv, Alone, FlowsBounded, Pending
<1>7. (delivered \subseteq DeliveredSet)' /\ KindsReached'
  BY <1>2, <1>4, DeliveredSame
<1>8. ServiceTyped'
  BY <1>2, <1>3, <1>4, <1>7 DEF ServiceInv, ServiceTyped
<1> QED
  BY <1>4, <1>5, <1>6, <1>7, <1>8 DEF ServiceInv

\* What the process starts with, whatever the flows are.
LEMMA StartServes ==
  /\ [t \in ProviderTypes |-> "SPIAccessToken"] \in [ProviderTypes -> Kinds]
  /\ [e \in GlobalEntries |-> NoScopes] \in [GlobalEntries -> AnyScopes]
  /\ [s \in Sessions |-> NoSession] \in [Sessions -> SessionSet]
  /\ [r \in Requests |-> Idle] \in [Requests -> RequestSet]
  /\ Pending([r \in Requests |-> Idle]) = {}
  /\ \A f, st, sc : InStep(Idle, f) /\ Settings(Idle, st, sc)
<1>1. [t \in ProviderTypes |-> "SPIAccessToken"] \in [ProviderTypes -> Kinds]
  BY DEF Kinds
<1>2. [e \in GlobalEntries |-> NoScopes] \in [GlobalEntries -> AnyScopes]
  BY DEF AnyScopes
<1>3. /\ [s \in Sessions |-> NoSession] \in [Sessions -> SessionSet]
      /\ [r \in Requests |-> Idle] \in [Requests -> RequestSet]
  BY IdleTypes
<1>4. Pending([r \in Requests |-> Idle]) = {}
  BY IdleTypes DEF Pending
<1>5. ASSUME NEW f, NEW st, NEW sc PROVE InStep(Idle, f) /\ Settings(Idle, st, sc)
  BY IdleTypes DEF InStep, Settings
<1> QED
  BY <1>1, <1>2, <1>3, <1>4, <1>5

LEMMA RestartServes ==
  ASSUME ServiceInv, Restart
  PROVE  ServiceInv'
<1>1. /\ strategy' = [t \in ProviderTypes |-> "SPIAccessToken"]
      /\ scopes' = [e \in GlobalEntries |-> NoScopes]
      /\ sess' = [s \in Sessions |-> NoSession] /\ req' = [r \in Requests |-> Idle]
      /\ flows' = Disowned(Sessions) /\ UNCHANGED <<secrets, urls, delivered>> /\ budget' \in Budgets
  BY UpsetSpent DEF Restart, Started, ServiceInv
<1>2. \A q \in Requests : req'[q] = Idle
  BY <1>1
<1>3. /\ strategy' \in [ProviderTypes -> Kinds] /\ scopes' \in [GlobalEntries -> AnyScopes]
      /\ sess' \in [Sessions -> SessionSet] /\ req' \in [Requests -> RequestSet] /\ Pending(req') = {}
  BY <1>1, StartServes
<1>4. /\ Steady(flows, flows') /\ flows' \in Seq(FlowSet) /\ FlowsAsked' /\ FlowsReturn'
      /\ Len(flows') = Len(flows) /\ Len(flows) \in Nat
  BY <1>1, <1>3, DisownedServes
<1>5. RequestsInStep'
  <2>1. \A q \in Requests : InStep(req'[q], flows') /\ Settings(req'[q], strategy', scopes')
    BY <1>2, StartServes
  <2> QED
    BY <2>1 DEF RequestsInStep, InStep, Settings, Entry
<1>6. Alone'
  BY <1>2, IdleTypes DEF Alone
<1>7. FlowsBounded'
  BY <1>3, <1>4, BoundKept
<1>8. (delivered \subseteq DeliveredSet)' /\ KindsReached'
  BY <1>1, <1>4, DeliveredSame
<1>9. ServiceTyped'
  BY <1>1, <1>3, <1>4, <1>8 DEF ServiceInv, ServiceTyped
<1> QED
  BY <1>4, <1>5, <1>6, <1>7, <1>8, <1>9 DEF ServiceInv

\* A new flow takes the place of the request that was pending for it.
LEMMA AccessServes ==
  ASSUME ServiceInv, NEW r \in Requests, Access(r)
  PROVE  ServiceInv'
<1>1. PICK form \in BOOLEAN :
        LET copy == GetToken(req[r].sess, form)
            v == Len(flows) + 1
        IN \/ /\ flows' = Append(flows, [url |-> req[r].url, s |-> req[r].s, asked |-> NoScopes,
                                         alone |-> FALSE, owed |-> FALSE, code |-> "none"])
              /\ req' = [req EXCEPT ![r].pc = "config", ![r].veil = v,
                                    ![r].sess = [copy EXCEPT !.veils = @ \cup {v}]]
              /\ UNCHANGED sess
           \/ Answer(r, copy) /\ UNCHANGED flows
  BY DEF Access, VeilRealState
<1> DEFINE copy == GetToken(req[r].sess, form)
           v == Len(flows) + 1
           flow == [url |-> req[r].url, s |-> req[r].s, asked |-> NoScopes,
                    alone |-> FALSE, owed |-> FALSE, code |-> "none"]
<1>2. req[r].pc = "access" /\ UNCHANGED <<secrets, urls, strategy, scopes, delivered, budget>>
  BY DEF Access, shared
<1>3. /\ req[r] \in RequestSet /\ InStep(req[r], flows) /\ req[r].sess \in SessionSet /\ req[r].s \in Sessions
      /\ strategy' \in [ProviderTypes -> Kinds] /\ scopes' \in [GlobalEntries -> AnyScopes]
  BY <1>2 DEF ServiceInv, ServiceTyped, RequestsInStep, RequestSet
<1>4. copy \in SessionSet /\ copy.veils = req[r].sess.veils
  <2> DEFINE b == req[r].sess.auth \/ form
  <2>1. b \in BOOLEAN
    OBVIOUS
  <2>2. copy = [req[r].sess EXCEPT !.auth = b]
    BY DEF GetToken
  <2> HIDE DEF b, copy
  <2> QED
    BY <1>3, <2>1, <2>2 DEF SessionSet
<1> HIDE DEF copy
<1>5. CASE Answer(r, copy) /\ UNCHANGED flows
  BY <1>2, <1>3, <1>4, <1>5, AnswerOnly
<1>6. CASE /\ flows' = Append(flows, flow)
           /\ req' = [req EXCEPT ![r].pc = "config", ![r].veil = v,
                                 ![r].sess = [copy EXCEPT !.veils = copy.veils \cup {v}]]
           /\ UNCHANGED sess
  <2>1. req[r].url \in Urls /\ req[r].op = "authenticate" /\ req[r].veil = 0
    BY <1>2, <1>3 DEF InStep
  <2>2. /\ flow \in FlowSet /\ flow.url = req[r].url /\ flow.owed = FALSE /\ flow.alone = FALSE
        /\ flow.code = "none"
    BY <1>3, <2>1 DEF FlowSet, AnyScopes
  <2>3. flows \in Seq(FlowSet) /\ Len(flows) \in Nat /\ DOMAIN flows = 1..Len(flows)
    BY FlowsLen DEF ServiceInv, ServiceTyped
  <2> HIDE DEF flow
  <2>4. /\ flows' \in Seq(FlowSet) /\ DOMAIN flows' = DOMAIN flows \cup {v} /\ Len(flows') = v
        /\ \A w \in DOMAIN flows : flows'[w] = flows[w]
        /\ flows'[v] = flow
    <3>1. FlowSet \cup {flow} = FlowSet
      BY <2>2
    <3>2. Len(flows') = Len(flows) + 1
      BY <1>6, <2>2, <2>3, AppendProperties
    <3> QED
      BY <1>6, <2>3, <3>1, <3>2, AppendKeeps
  <2>5. v \in Nat /\ v # 0 /\ v \notin DOMAIN flows
    BY <2>3
  <2> DEFINE kept == [copy EXCEPT !.veils = copy.veils \cup {v}]
             new == [req[r] EXCEPT !.pc = "config", !.veil = v, !.sess = kept]
  <2>6. req' = [req EXCEPT ![r] = new]
    BY <1>6
  <2>7. v = Len(flows) + 1
    OBVIOUS
  <2> HIDE DEF v
  <2>8. kept \in SessionSet /\ kept.veils = req[r].sess.veils \cup {v}
    BY <1>4, <2>5 DEF SessionSet
  <2> HIDE DEF kept
  <2>9. /\ new \in RequestSet /\ new.pc = "config" /\ new.op = "authenticate" /\ new.s = req[r].s
        /\ new.sess = kept /\ new.veil = v /\ new.url = req[r].url /\ new.alone = req[r].alone
    BY <1>3, <2>1, <2>5, <2>8 DEF RequestSet
  <2> HIDE DEF new
  <2>10. Steady(flows, flows')
    BY <2>2, <2>4 DEF Steady
  <2>11. InStep(new, flows')
    <3>1. ASSUME NEW w \in DOMAIN flows', flows'[w].owed = TRUE, flows'[w].s = req[r].s
          PROVE  w \in new.sess.veils
      <4>1. w \in DOMAIN flows /\ flows[w].owed = TRUE /\ flows[w].s = req[r].s
        BY <2>2, <2>4, <3>1
      <4> QED
        BY <1>2, <1>3, <2>8, <2>9, <4>1 DEF InStep
    <3> QED
      BY <2>1, <2>2, <2>4, <2>8, <2>9, <3>1 DEF InStep
  <2>12. Settings(new, strategy', scopes')
    BY <2>9 DEF Settings
  <2>13. RequestsInStep' /\ Alone'
    BY <1>2, <2>6, <2>9, <2>10, <2>11, <2>12, OthersInStep, TurnKeeps
  <2>14. FlowsBounded'
    <3> DEFINE P == Pending(req)
               n == Cardinality(P)
               m == Cardinality(P \ {r})
    <3>1. \A q \in Requests : req'[q] = IF q = r THEN new ELSE req[q]
      BY <2>6 DEF ServiceInv, ServiceTyped
    <3>2. Pending(req') = P \ {r} /\ r \in P
      BY <2>1, <2>5, <2>9, <3>1 DEF Pending
    <3>3. IsFiniteSet(P) /\ n \in Nat
      BY PendingFinite
    <3>4. Len(flows) + n <= MaxFlows /\ MaxFlows \in Nat
      BY ServiceConstants DEF ServiceInv, FlowsBounded
    <3> HIDE DEF P
    <3>5. m = n - 1
      BY <3>2, <3>3, FS_RemoveElement
    <3> HIDE DEF n, m
    <3>6. Len(flows') + m <= MaxFlows
      BY <2>3, <2>4, <2>7, <3>3, <3>4, <3>5
    <3>7. Len(flows') + Cardinality(Pending(req')) <= MaxFlows
      BY <3>2, <3>6 DEF m
    <3> QED
      BY <3>7 DEF FlowsBounded, Pending
  <2>15. FlowsAsked'
    <3> SUFFICES ASSUME NEW w \in DOMAIN flows' PROVE FlowAsked(flows'[w])
      BY DEF FlowsAsked, FlowAsked, Entry
    <3> QED
      BY <2>2, <2>4 DEF ServiceInv, FlowsAsked, FlowAsked
  <2>16. FlowsReturn'
    <3> SUFFICES ASSUME NEW w \in DOMAIN flows', flows'[w].owed = TRUE
                 PROVE  sess[flows'[w].s].live = TRUE /\ w \in sess[flows'[w].s].veils
      BY <1>6 DEF FlowsReturn
    <3>1. w \in DOMAIN flows /\ flows'[w] = flows[w]
      BY <2>2, <2>4
    <3> QED
      BY <3>1 DEF ServiceInv, FlowsReturn
  <2>17. (delivered \subseteq DeliveredSet)' /\ KindsReached'
    BY <1>2, <2>10, DeliveredSame
  <2>18. ServiceTyped'
    <3>1. req' \in [Requests -> RequestSet]
      BY <2>6, <2>9 DEF ServiceInv, ServiceTyped
    <3> QED
      BY <1>2, <1>6, <2>4, <2>17, <3>1 DEF ServiceInv, ServiceTyped
  <2> QED
    BY <2>13, <2>14, <2>15, <2>16, <2>17, <2>18 DEF ServiceInv
<1> QED
  BY <1>1, <1>5, <1>6 DEF copy

LEMMA InitServes ==
  ASSUME Init
  PROVE  ServiceInv
<1>1. /\ strategy = [t \in ProviderTypes |-> "SPIAccessToken"]
      /\ scopes = [e \in GlobalEntries |-> NoScopes]
      /\ sess = [s \in Sessions |-> NoSession] /\ req = [r \in Requests |-> Idle]
      /\ flows = <<>> /\ delivered = {} /\ budget = [begins |-> MaxBegins, upsets |-> MaxUpsets]
      /\ secrets \subseteq UserSecrets
  BY DEF Init
<1>2. urls \subseteq Urls
  BY IssuedUrls DEF Init
<1>3. budget \in Budgets
  BY <1>1, ServiceConstants DEF Budgets
<1>4. flows \in Seq(FlowSet) /\ DOMAIN flows = {} /\ Len(flows) = 0
  BY <1>1
<1>5. /\ strategy \in [ProviderTypes -> Kinds] /\ scopes \in [GlobalEntries -> AnyScopes]
      /\ sess \in [Sessions -> SessionSet] /\ req \in [Requests -> RequestSet] /\ Pending(req) = {}
  BY <1>1, StartServes
<1>6. ServiceTyped
  BY <1>1, <1>2, <1>3, <1>4, <1>5 DEF ServiceTyped
<1>7. FlowsBounded
  <2>1. Cardinality(Pending(req)) = 0
    BY <1>5, FS_EmptySet
  <2> QED
    BY <1>4, <2>1, ServiceConstants DEF FlowsBounded
<1>8. \A q \in Requests : req[q] = Idle
  BY <1>1
<1>9. RequestsInStep /\ Alone
  BY <1>8, StartServes, IdleTypes DEF RequestsInStep, Alone
<1> QED
  BY <1>1, <1>4, <1>6, <1>7, <1>9 DEF ServiceInv, FlowsAsked, FlowsReturn, KindsReached

LEMMA NextServes ==
  ASSUME ServiceInv, VeilsStayHome, [Next]_vars
  PROVE  ServiceInv'
<1>1. CASE UNCHANGED vars
  BY <1>1 DEF vars, ServiceInv, ServiceTyped, DeliveredSet, FlowsBounded, Pending, RequestsInStep, InStep,
              Settings, Entry, Alone, FlowsAsked, FlowAsked, FlowsReturn, KindsReached
<1>2. CASE IssueUrl \/ ChangeSecrets \/ ProviderGrants \/ SessionExpires \/ Restart
  BY <1>2, SurroundingsServe, GrantServes, SessionExpiresServes, RestartServes
<1>3. ASSUME NEW r \in Requests, Arrive(r) \/ Handle(r)
      PROVE  ServiceInv'
  BY <1>3, ArriveServes, FindControllerServes, AccessServes, ConfigureServes, RedirectServes,
     ExchangeServes, SyncServes, LoginServes, LogoutServes DEF Handle
<1> QED
  BY <1>1, <1>2, <1>3 DEF Next

\* ServiceInv holds throughout, given that veils stay in their sessions.
THEOREM ServiceKept == Spec => [](ServiceInv /\ VeilsStayHome)
<1>1. Init => ServiceInv
  BY InitServes
<1>2. ServiceInv /\ VeilsStayHome /\ [Next]_vars => ServiceInv'
  BY NextServes
<1> QED
  BY <1>1, <1>2, VeilsStay, PTL DEF Spec

\* Every part of the state of the service stays in its type: the veils, among
\* them those in the copies that requests write back, are numbers of flows, no
\* more flows are veiled than MaxFlows, and a conflict is met fewer times than
\* RetryOnConflict tries.
THEOREM OAuthServiceTypes == Spec => []TypeOK
<1>1. ServiceInv /\ VeilsStayHome => TypeOK
  <2> SUFFICES ASSUME ServiceInv, VeilsStayHome PROVE TypeOK
    OBVIOUS
  <2>1. ServiceTyped
    BY DEF ServiceInv
  <2>2. /\ Len(flows) \in Nat /\ DOMAIN flows = 1..Len(flows)
        /\ \A v \in DOMAIN flows : flows[v] \in FlowSet
    BY <2>1, FlowsLen
  <2>3. Len(flows) <= MaxFlows
    <3> DEFINE n == Cardinality(Pending(req))
    <3>1. n \in Nat /\ MaxFlows \in Nat /\ Len(flows) + n <= MaxFlows
      BY PendingFinite, ServiceConstants DEF ServiceInv, FlowsBounded
    <3> HIDE DEF n
    <3> QED
      BY <2>2, <3>1
  <2>4. DOMAIN flows \subseteq 1..MaxFlows /\ 0 \in 0..MaxFlows /\ 1..MaxFlows \subseteq 0..MaxFlows
    BY <2>2, <2>3, ServiceConstants
  <2>5. ASSUME NEW c \in SessionSet, NEW s, SessionOK(c, s)
        PROVE  c \in SessionData
    <3>1. c.veils \subseteq 1..MaxFlows
      BY <2>4, <2>5 DEF SessionOK, VeilOf
    <3> QED
      BY <3>1 DEF SessionSet, SessionData
  <2>6. sess \in [Sessions -> SessionData]
    BY <2>1, <2>5 DEF ServiceTyped, VeilsStayHome, StoreOK
  <2>7. ASSUME NEW r \in Requests
        PROVE  req[r].sess \in SessionData /\ req[r].veil \in 0..MaxFlows
    <3>1. req[r] \in RequestSet /\ SessionOK(req[r].sess, req[r].s) /\ InStep(req[r], flows)
      BY <2>1 DEF ServiceTyped, VeilsStayHome, RequestsOK, ServiceInv, RequestsInStep
    <3>2. req[r].sess \in SessionData
      BY <2>5, <3>1 DEF RequestSet
    <3>3. req[r].veil \in DOMAIN flows \cup {0}
      BY <3>1 DEF InStep, RequestSet
    <3> QED
      BY <2>4, <3>2, <3>3
  <2>8. req \in [Requests ->
          [op : {"none", "authenticate", "callback", "login", "logout"},
           pc : {"idle", "route", "access", "config", "redirect", "exchange", "sync"},
           s : Sessions, sess : SessionData, veil : 0..MaxFlows, url : Urls \cup {NoUrl},
           own : BOOLEAN, alone : BOOLEAN, tries : 0..(DefaultRetry - 1)]]
    BY <2>1, <2>7 DEF ServiceTyped, RequestSet
  <2> QED
    BY <2>1, <2>2, <2>3, <2>6, <2>8 DEF TypeOK, ServiceTyped, FlowSet, DeliveredSet, Budgets
<1> QED
  BY <1>1, ServiceKept, PTL

\* The provider is asked for the scopes in the OAuth URL by every request that
\* runs alone, although it reads them back from the configuration the process
\* shares, and by every request that has a configuration of its own.
THEOREM ScopesAsIssued == Spec => []AskedScopes
<1>1. ServiceInv => AskedScopes
  BY FlowsLen DEF ServiceInv, FlowsAsked, FlowAsked, Entry, AskedScopes, FlowSet
<1> QED
  BY <1>1, ServiceKept, PTL

\* A callback that runs alone delivers to an object of the kind its flow is for:
\* findController has set the strategy it uses, and nobody else has set another.
THEOREM AloneIsRight == Spec => []AloneReachesItsKind
<1>1. ServiceInv => AloneReachesItsKind
  BY DEF ServiceInv, KindsReached, AloneReachesItsKind, ServiceTyped, DeliveredSet
<1> QED
  BY <1>1, ServiceKept, PTL

\* A flow started by a request that ran alone can return to its session while
\* that lives: every copy written back later was taken with the veil in it.
THEOREM FlowsCanReturn == Spec => []ReturnPossible
<1>1. ServiceInv => ReturnPossible
  BY FlowsLen DEF ServiceInv, FlowsReturn, ReturnPossible, FlowSet
<1> QED
  BY <1>1, ServiceKept, PTL
=============================================================================
