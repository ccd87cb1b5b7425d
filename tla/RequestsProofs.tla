--------------------------- MODULE RequestsProofs ---------------------------
(*****************************************************************************)
(* File content requests and access checks, for any tokens, credentials,     *)
(* secrets, providers and bounds: every variable keeps its type, an access   *)
(* check does not say what was not so, and a delivered file stays delivered. *)
(*****************************************************************************)
EXTENDS Requests, FiniteSetTheorems, TLAPS

Views == {"public", "private", "missing"} \cup {w.repo : w \in Worlds}
WorldSet == [host : {w.host : w \in Worlds}, parses : {w.parses : w \in Worlds}, repo : Views,
             fits : {w.fits : w \in Worlds}, policy : {w.policy : w \in Worlds},
             sp : {FromRepoUrl({}, w.host) : w \in Worlds}]
TokenSet == [data : Credentials \cup {None}, meta : Credentials \cup {None}]
ObjectSet == [st : {None, "live", "deleting", "gone"}, fin : BOOLEAN,
              perms : PermissionSets \cup {NoObject.perms}, status : Statuses]
Stages == {"idle", "got", "public", "lookup", "data", "secrets", "probe", "update"}
Answers == Credentials \cup {None, SCMCredential} \cup {r.cred : r \in RemoteKinds}
Workers == [pc : Stages, obj : ObjectSet, stale : BOOLEAN, tok : Tokens \cup {None}, cred : Answers,
            res : Statuses, again : BOOLEAN, saw : SUBSET Views]

\* The type invariant made inductive.
RequestsTyped ==
  /\ world \in WorldSet /\ remote \subseteq RemoteKinds /\ tokens \in [Tokens -> TokenSet]
  /\ obj \in [Kinds -> ObjectSet] /\ cache \in [Kinds -> ObjectSet]
  /\ lag \in [Kinds -> BOOLEAN] /\ queued \in [Kinds -> BOOLEAN]
  /\ timer \in [Kinds -> BOOLEAN] /\ expired \in [Kinds -> BOOLEAN]
  /\ wk \in [Kinds -> Workers]
  /\ \A k \in Kinds : wk[k].pc = "data" => wk[k].tok \in Tokens

\* A copy that is not outdated shows the status on the server, and a worker whose
\* copy is not outdated has found that the file is not yet delivered.
CopiesTrue ==
  /\ \A k \in Kinds : lag[k] = FALSE => cache[k] = obj[k]
  /\ \A k \in Kinds : wk[k].pc # "idle" /\ wk[k].stale = FALSE => wk[k].obj.status = obj[k].status
  /\ wk["file"].pc \notin {"idle", "got"} => wk["file"].obj.status.phase # "Delivered"

\* A worker has seen the present visibility, and Quay is asked with no answer
\* given yet.
AnswersTrue ==
  /\ wk["check"].pc # "idle" => world.repo \in wk["check"].saw
  /\ Type = "Quay" /\ wk["check"].pc \in {"lookup", "data", "secrets", "probe"}
       => wk["check"].res.vis = "unknown" /\ wk["check"].res.phase = "Inaccessible"

RequestsInv == RequestsTyped /\ CopiesTrue /\ AnswersTrue /\ CheckTellsTruth

-----------------------------------------------------------------------------
(* Types of small things, and the two ways a worker's step ends.              *)

\* The three kinds of results that CheckTellsTruth allows.
Says(res, w) ==
  /\ res.vis \in {"public", "private"} => res.vis \in w.saw
  /\ res.phase = "Accessible" => "public" \in w.saw \/ ("private" \in w.saw /\ w.cred \in Sees)
Repeats(res, w) ==
  /\ res.reason \in {"UnknownServiceProvider", "UnsupportedConfiguration"}
  /\ res = [w.obj.status EXCEPT !.reason = res.reason]
Trusts(res, w) == Type = "Quay" /\ w.cred \in Robots /\ res.vis = "private"
Truthful(w) == w.pc = "update" => Repeats(w.res, w) \/ Trusts(w.res, w) \/ Says(w.res, w)
Unanswered(w) == w.res.vis = "unknown" /\ w.res.phase = "Inaccessible"

LEMMA InitialTypes ==
  /\ NoStatus \in Statuses /\ NoStatus.vis = "" /\ NoStatus.phase = ""
  /\ NoObject \in ObjectSet /\ NoObject.status = NoStatus
  /\ IdleWorker \in Workers /\ IdleWorker.pc = "idle" /\ IdleWorker.res = NoStatus
  /\ IdleWorker.obj = NoObject
<1>1. NoStatus \in Statuses /\ NoStatus.vis = "" /\ NoStatus.phase = ""
  BY DEF NoStatus, Statuses
<1>2. NoObject \in ObjectSet /\ NoObject.status = NoStatus
  BY <1>1 DEF NoObject, ObjectSet
<1>3. IdleWorker \in Workers
  BY <1>1, <1>2 DEF IdleWorker, Workers, Stages, Answers
<1> QED
  BY <1>1, <1>2, <1>3 DEF IdleWorker

LEMMA StatusTypes ==
  /\ \A why \in {"unableToValidate", "noSuitableServiceProvider", "notSupported", "lookup", "noCredentials",
                 "download"} : FileError(why) \in Statuses
  /\ \A vis \in {"unknown", "public", "private"},
        why \in {"", "NotImplemented", "BadURL", "TokenLookupFailed", "RepoNotFound", "UnknownError"} :
       /\ Checked(FALSE, vis, why) \in Statuses /\ Checked(FALSE, vis, why).vis = vis
       /\ Checked(FALSE, vis, why).phase = "Inaccessible"
  /\ \A vis \in {"unknown", "public", "private"} : \A why : Checked(TRUE, vis, why).vis = vis
  /\ \A s \in Statuses, vis \in {"unknown", "public", "private"} : Checked(TRUE, vis, s.reason) \in Statuses
  /\ \A vis \in {"unknown", "public", "private"} : Checked(TRUE, vis, "") \in Statuses
  BY DEF FileError, Checked, Statuses

LEMMA WorldTypes ==
  ASSUME NEW v \in Worlds
  PROVE  Served(v) \in WorldSet
  BY DEF Served, WorldSet, Views

LEMMA InitRequests == Init => RequestsInv
<1> SUFFICES ASSUME Init PROVE RequestsInv
  OBVIOUS
<1>1. world \in WorldSet
  <2>1. PICK v \in Worlds : world = Served(v)
    BY DEF Init
  <2> QED
    BY <2>1, WorldTypes
<1>2. obj \in [Kinds -> ObjectSet] /\ \A k \in Kinds : obj[k].status = NoStatus
  <2>1. PICK kind \in Kinds, fin \in BOOLEAN, perms \in PermissionSets :
          obj = [k \in Kinds |->
                  IF k = kind THEN [NoObject EXCEPT !.st = "live", !.fin = fin, !.perms = perms]
                  ELSE NoObject]
    BY DEF Init
  <2>2. /\ [NoObject EXCEPT !.st = "live", !.fin = fin, !.perms = perms] \in ObjectSet
        /\ [NoObject EXCEPT !.st = "live", !.fin = fin, !.perms = perms].status = NoStatus
    BY InitialTypes DEF ObjectSet
  <2> QED
    BY <2>1, <2>2, InitialTypes
<1>3. wk \in [Kinds -> Workers] /\ \A k \in Kinds : wk[k] = IdleWorker
  BY InitialTypes DEF Init
<1>4. /\ lag \in [Kinds -> BOOLEAN] /\ timer \in [Kinds -> BOOLEAN] /\ expired \in [Kinds -> BOOLEAN]
      /\ queued \in [Kinds -> BOOLEAN] /\ cache = obj
  BY DEF Init
<1>5. tokens \in [Tokens -> TokenSet] /\ remote \subseteq RemoteKinds
  <2>1. {[data |-> c, meta |-> c] : c \in Credentials \cup {None}} \subseteq TokenSet
    BY DEF TokenSet
  <2> QED
    BY <2>1 DEF Init
<1>6. RequestsTyped
  BY <1>1, <1>2, <1>3, <1>4, <1>5, InitialTypes DEF RequestsTyped
<1>7. CopiesTrue
  BY <1>3, <1>4, InitialTypes DEF CopiesTrue, Kinds
<1>8. AnswersTrue
  BY <1>2, <1>3, <1>4, InitialTypes DEF AnswersTrue, Kinds
<1>9. CheckTellsTruth
  BY <1>3, InitialTypes DEF CheckTellsTruth, Kinds
<1> QED
  BY <1>6, <1>7, <1>8, <1>9 DEF RequestsInv

\* The worker goes on with the same copy.
LEMMA GoOnStep ==
  ASSUME RequestsInv, NEW k \in Kinds, NEW v \in Workers, wk' = [wk EXCEPT ![k] = v],
         UNCHANGED <<world, remote, objectVars>>, tokens' \in [Tokens -> TokenSet],
         wk[k].pc # "idle", v.pc \notin {"idle", "got"},
         v.obj = wk[k].obj, v.stale = wk[k].stale, v.saw = wk[k].saw,
         v.pc = "data" => v.tok \in Tokens,
         k = "file" /\ wk[k].pc = "got" => wk[k].obj.status.phase # "Delivered",
         k = "check" => Truthful(v),
         k = "check" /\ Type = "Quay" /\ v.pc # "update" => Unanswered(v)
  PROVE  RequestsInv'
<1> USE DEF RequestsInv
<1>1. UNCHANGED <<obj, cache, lag, queued, timer, expired>> /\ Kinds = {"file", "check"}
  BY DEF objectVars, Kinds
<1>2. wk \in [Kinds -> Workers]
  BY DEF RequestsTyped
<1>3. wk'[k] = v /\ \A j \in Kinds \ {k} : wk'[j] = wk[j]
  BY <1>2
<1>4. RequestsTyped'
  <2>1. wk' \in [Kinds -> Workers]
    BY <1>2
  <2>2. \A j \in Kinds : wk'[j].pc = "data" => wk'[j].tok \in Tokens
    BY <1>3 DEF RequestsTyped
  <2> QED
    BY <1>1, <2>1, <2>2 DEF RequestsTyped
<1>5. CopiesTrue'
  <2>1. ASSUME NEW j \in Kinds, wk'[j].pc # "idle", wk'[j].stale = FALSE
        PROVE  wk'[j].obj.status = obj[j].status
    <3>1. wk'[j].stale = wk[j].stale /\ wk'[j].obj = wk[j].obj /\ wk[j].pc # "idle"
      BY <1>3, <2>1
    <3>2. wk[j].stale = FALSE
      BY <2>1, <3>1
    <3> QED
      BY <3>1, <3>2 DEF CopiesTrue
  <2>2. wk'["file"].pc \notin {"idle", "got"} => wk'["file"].obj.status.phase # "Delivered"
    <3>1. CASE k = "file"
      BY <1>3, <3>1 DEF CopiesTrue
    <3>2. CASE k # "file"
      BY <1>1, <1>3, <3>2 DEF CopiesTrue
    <3> QED
      BY <3>1, <3>2
  <2> QED
    BY <1>1, <2>1, <2>2 DEF CopiesTrue
<1>6. AnswersTrue' /\ CheckTellsTruth'
  <2>1. CASE k = "file"
    <3>1. wk'["check"] = wk["check"]
      BY <1>1, <1>3, <2>1
    <3> QED
      BY <1>1, <3>1 DEF AnswersTrue, CheckTellsTruth, Type
  <2>2. CASE k = "check"
    <3>1. wk'["check"] = v
      BY <1>3, <2>2
    <3>2. CheckTellsTruth'
      BY <2>2, <3>1 DEF CheckTellsTruth, Truthful, Repeats, Trusts, Says, Type
    <3>3. world.repo \in v.saw
      BY <2>2 DEF AnswersTrue
    <3>4. v.pc \in {"lookup", "data", "secrets", "probe"} /\ Type = "Quay" => Unanswered(v)
      BY <2>2
    <3>5. AnswersTrue'
      BY <1>1, <2>2, <3>1, <3>3, <3>4 DEF AnswersTrue, Unanswered, Type
    <3> QED
      BY <3>2, <3>5
  <2> QED
    BY <1>1, <2>1, <2>2
<1> QED
  BY <1>4, <1>5, <1>6

\* The worker ends, and the object is as it was or has been written.
LEMMA EndsStep ==
  ASSUME RequestsInv, NEW k \in Kinds, wk' = [wk EXCEPT ![k] = IdleWorker],
         UNCHANGED <<scene, cache, expired>>,
         queued' \in [Kinds -> BOOLEAN], timer' \in [Kinds -> BOOLEAN],
         NEW new \in ObjectSet, NEW l \in BOOLEAN,
         obj' = [obj EXCEPT ![k] = new], lag' = [lag EXCEPT ![k] = l],
         l = FALSE => lag[k] = FALSE /\ new = obj[k]
  PROVE  RequestsInv'
<1> USE DEF RequestsInv
<1>1. UNCHANGED <<world, tokens, remote, cache, expired>> /\ Kinds = {"file", "check"}
  BY DEF scene, Kinds
<1>2. wk \in [Kinds -> Workers] /\ obj \in [Kinds -> ObjectSet] /\ lag \in [Kinds -> BOOLEAN]
  BY DEF RequestsTyped
<1>3. /\ wk'[k] = IdleWorker /\ obj'[k] = new /\ lag'[k] = l
      /\ \A j \in Kinds \ {k} : wk'[j] = wk[j] /\ obj'[j] = obj[j] /\ lag'[j] = lag[j]
  BY <1>2
<1>4. RequestsTyped'
  <2>1. wk' \in [Kinds -> Workers] /\ obj' \in [Kinds -> ObjectSet] /\ lag' \in [Kinds -> BOOLEAN]
    BY <1>2, InitialTypes
  <2>2. \A j \in Kinds : wk'[j].pc = "data" => wk'[j].tok \in Tokens
    BY <1>3, InitialTypes DEF RequestsTyped
  <2> QED
    BY <1>1, <2>1, <2>2 DEF RequestsTyped
<1>5. CopiesTrue'
  <2>1. \A j \in Kinds : lag'[j] = FALSE => cache'[j] = obj'[j]
    BY <1>1, <1>3 DEF CopiesTrue
  <2>2. \A j \in Kinds : wk'[j].pc # "idle" /\ wk'[j].stale = FALSE => wk'[j].obj.status = obj'[j].status
    BY <1>3, InitialTypes DEF CopiesTrue
  <2>3. wk'["file"].pc \notin {"idle", "got"} => wk'["file"].obj.status.phase # "Delivered"
    BY <1>1, <1>3, InitialTypes DEF CopiesTrue
  <2> QED
    BY <2>1, <2>2, <2>3 DEF CopiesTrue
<1>6. AnswersTrue' /\ CheckTellsTruth'
  <2>1. CASE k = "file"
    <3>1. wk'["check"] = wk["check"] /\ obj'["check"] = obj["check"]
      BY <1>1, <1>3, <2>1
    <3> QED
      BY <1>1, <3>1 DEF AnswersTrue, CheckTellsTruth, Type
  <2>2. CASE k = "check"
    <3>1. wk'["check"] = IdleWorker /\ obj'["check"] = new
      BY <1>3, <2>2
    <3>2. CheckTellsTruth'
      BY <3>1, InitialTypes DEF CheckTellsTruth
    <3>3. AnswersTrue'
      BY <3>1, InitialTypes DEF AnswersTrue
    <3> QED
      BY <3>2, <3>3
  <2> QED
    BY <1>1, <2>1, <2>2
<1> QED
  BY <1>4, <1>5, <1>6

\* A worker that has come to a result.
LEMMA ReportStep ==
  ASSUME RequestsInv, NEW k \in Kinds, NEW res \in Statuses, NEW again \in BOOLEAN,
         Report(k, res, again), UNCHANGED <<scene, objectVars>>, wk[k].pc # "idle",
         k = "file" /\ wk[k].pc = "got" => wk[k].obj.status.phase # "Delivered",
         k = "check" => Repeats(res, wk[k]) \/ Trusts(res, wk[k]) \/ Says(res, wk[k])
  PROVE  RequestsInv'
<1> DEFINE v == [wk[k] EXCEPT !.pc = "update", !.res = res, !.again = again]
<1>1. wk[k] \in Workers /\ tokens \in [Tokens -> TokenSet] /\ tokens' = tokens
  BY DEF RequestsInv, RequestsTyped, scene
<1>2. /\ v \in Workers /\ v.pc = "update" /\ v.res = res /\ v.obj = wk[k].obj /\ v.cred = wk[k].cred
      /\ v.saw = wk[k].saw /\ v.stale = wk[k].stale
  BY <1>1 DEF Workers, Stages
<1>3. wk' = [wk EXCEPT ![k] = v]
  BY DEF Report, GoOn
<1> HIDE DEF v
<1>4. k = "check" => Truthful(v)
  BY <1>2 DEF Truthful, Repeats, Trusts, Says
<1> QED
  BY <1>1, <1>2, <1>3, <1>4, GoOnStep DEF scene

\* A worker that goes on without a result.
LEMMA MoveStep ==
  ASSUME RequestsInv, NEW k \in Kinds,
         NEW pc \in {"public", "lookup", "data", "secrets", "probe"}, NEW t \in Tokens \cup {None},
         NEW c \in Answers, NEW res \in Statuses,
         wk' = [wk EXCEPT ![k] = [wk[k] EXCEPT !.pc = pc, !.tok = t, !.cred = c, !.res = res]],
         UNCHANGED <<world, remote, objectVars>>, tokens' \in [Tokens -> TokenSet],
         wk[k].pc # "idle", pc = "data" => t \in Tokens,
         k = "file" /\ wk[k].pc = "got" => wk[k].obj.status.phase # "Delivered",
         k = "check" /\ Type = "Quay" => res.vis = "unknown" /\ res.phase = "Inaccessible"
  PROVE  RequestsInv'
<1> DEFINE v == [wk[k] EXCEPT !.pc = pc, !.tok = t, !.cred = c, !.res = res]
<1>1. wk[k] \in Workers
  BY DEF RequestsInv, RequestsTyped
<1>2. /\ v \in Workers /\ v.pc = pc /\ v.res = res /\ v.obj = wk[k].obj /\ v.tok = t
      /\ v.saw = wk[k].saw /\ v.stale = wk[k].stale
  BY <1>1 DEF Workers, Stages
<1>3. wk' = [wk EXCEPT ![k] = v]
  OBVIOUS
<1> HIDE DEF v
<1>4. Truthful(v) /\ (k = "check" /\ Type = "Quay" => Unanswered(v))
  BY <1>2 DEF Truthful, Unanswered
<1>5. v.pc \notin {"idle", "got"} /\ (v.pc = "data" => v.tok \in Tokens)
  BY <1>2
<1> QED
  BY <1>2, <1>3, <1>4, <1>5, GoOnStep

\* A worker that only changes its stage.
LEMMA ToStep ==
  ASSUME RequestsInv, NEW k \in Kinds, NEW pc \in {"public", "lookup", "secrets", "probe"},
         To(k, pc), UNCHANGED <<world, remote, objectVars>>, tokens' \in [Tokens -> TokenSet],
         wk[k].pc # "idle",
         k = "file" /\ wk[k].pc = "got" => wk[k].obj.status.phase # "Delivered",
         k = "check" /\ Type = "Quay" => Unanswered(wk[k])
  PROVE  RequestsInv'
<1>1. wk[k] \in Workers
  BY DEF RequestsInv, RequestsTyped
<1> DEFINE t == wk[k].tok
           c == wk[k].cred
           res == wk[k].res
<1>2. [wk[k] EXCEPT !.pc = pc] = [wk[k] EXCEPT !.pc = pc, !.tok = t, !.cred = c, !.res = res]
  BY <1>1 DEF Workers
<1>3. wk' = [wk EXCEPT ![k] = [wk[k] EXCEPT !.pc = pc, !.tok = t, !.cred = c, !.res = res]]
  BY <1>2 DEF To, GoOn
<1>4. t \in Tokens \cup {None} /\ c \in Answers /\ res \in Statuses
  BY <1>1 DEF Workers
<1>5. k = "check" /\ Type = "Quay" => res.vis = "unknown" /\ res.phase = "Inaccessible"
  BY DEF Unanswered
<1> HIDE DEF t, c, res
<1> QED
  BY <1>3, <1>4, <1>5, MoveStep

LEMMA EndsTypes ==
  ASSUME RequestsTyped, NEW k \in Kinds, NEW again, NEW delay, Ends(k, again, delay)
  PROVE  /\ wk' = [wk EXCEPT ![k] = IdleWorker]
         /\ queued' \in [Kinds -> BOOLEAN] /\ timer' \in [Kinds -> BOOLEAN]
<1>1. (queued[k] \/ again) \in BOOLEAN /\ (timer[k] \/ delay) \in BOOLEAN
  OBVIOUS
<1>2. queued \in [Kinds -> BOOLEAN] /\ timer \in [Kinds -> BOOLEAN]
  BY DEF RequestsTyped
<1> QED
  BY <1>1, <1>2 DEF Ends, GoOn

\* The worker ends without a write.
LEMMA GivesUpStep ==
  ASSUME RequestsInv, NEW k \in Kinds, NEW again, NEW delay, Ends(k, again, delay),
         UNCHANGED <<scene, obj, cache, lag, expired>>
  PROVE  RequestsInv'
<1> DEFINE new == obj[k]
           l == lag[k]
<1>1. /\ wk' = [wk EXCEPT ![k] = IdleWorker]
      /\ queued' \in [Kinds -> BOOLEAN] /\ timer' \in [Kinds -> BOOLEAN]
  BY EndsTypes DEF RequestsInv
<1>2. new \in ObjectSet /\ l \in BOOLEAN /\ obj' = [obj EXCEPT ![k] = new] /\ lag' = [lag EXCEPT ![k] = l]
  BY DEF RequestsInv, RequestsTyped
<1>3. l = FALSE => lag[k] = FALSE /\ new = obj[k]
  OBVIOUS
<1> HIDE DEF new, l
<1> QED
  BY <1>1, <1>2, <1>3, EndsStep

\* The worker writes the object and ends.
LEMMA WritesStep ==
  ASSUME RequestsInv, NEW k \in Kinds, NEW again, NEW delay, Ends(k, again, delay),
         NEW new \in ObjectSet, Write(k, new), UNCHANGED <<scene, cache, expired>>
  PROVE  RequestsInv'
<1> DEFINE l == lag[k] \/ new # obj[k]
<1>1. /\ wk' = [wk EXCEPT ![k] = IdleWorker]
      /\ queued' \in [Kinds -> BOOLEAN] /\ timer' \in [Kinds -> BOOLEAN]
  BY EndsTypes DEF RequestsInv
<1>2. l \in BOOLEAN /\ obj' = [obj EXCEPT ![k] = new] /\ lag' = [lag EXCEPT ![k] = l]
  BY DEF Write
<1>3. l = FALSE => lag[k] = FALSE /\ new = obj[k]
  <2>1. lag[k] \in BOOLEAN
    BY DEF RequestsInv, RequestsTyped
  <2> QED
    BY <2>1
<1> HIDE DEF l
<1> QED
  BY <1>1, <1>2, <1>3, EndsStep

-----------------------------------------------------------------------------
(* The beginning and the end of a reconciliation.                             *)

LEMMA GetKeeps ==
  ASSUME RequestsInv, NEW k \in Kinds, Get(k)
  PROVE  RequestsInv'
<1> USE DEF RequestsInv
<1>1. UNCHANGED <<world, tokens, remote, obj, cache, lag, timer, expired>> /\ Kinds = {"file", "check"}
  BY DEF Get, scene, Kinds
<1>2. wk \in [Kinds -> Workers] /\ queued' \in [Kinds -> BOOLEAN]
  BY DEF RequestsTyped, Get
<1> DEFINE v == [IdleWorker EXCEPT !.pc = "got", !.obj = cache[k], !.stale = lag[k], !.saw = {world.repo}]
<1>3. CASE UNCHANGED wk
  <2>1. RequestsTyped'
    BY <1>1, <1>2, <1>3 DEF RequestsTyped
  <2> QED
    BY <1>1, <1>3, <2>1 DEF CopiesTrue, AnswersTrue, CheckTellsTruth, Type
<1>4. CASE wk' = [wk EXCEPT ![k] = v]
  <2>1. cache[k] \in ObjectSet /\ lag[k] \in BOOLEAN /\ world.repo \in Views
    BY DEF RequestsTyped, WorldSet
  <2>2. v \in Workers /\ v.pc = "got" /\ v.obj = cache[k] /\ v.stale = lag[k] /\ v.saw = {world.repo} /\ v.res = NoStatus
    BY <2>1, InitialTypes DEF Workers, Stages
  <2> HIDE DEF v
  <2>3. wk'[k] = v /\ \A j \in Kinds \ {k} : wk'[j] = wk[j]
    BY <1>2, <1>4
  <2>4. RequestsTyped'
    <3>1. wk' \in [Kinds -> Workers]
      BY <1>2, <1>4, <2>2
    <3>2. \A j \in Kinds : wk'[j].pc = "data" => wk'[j].tok \in Tokens
      BY <2>2, <2>3 DEF RequestsTyped
    <3> QED
      BY <1>1, <1>2, <3>1, <3>2 DEF RequestsTyped
  <2>5. CopiesTrue'
    <3>1. ASSUME NEW j \in Kinds, wk'[j].pc # "idle", wk'[j].stale = FALSE
          PROVE  wk'[j].obj.status = obj[j].status
      <4>1. CASE j = k
        <5>1. lag[k] = FALSE
          BY <2>2, <2>3, <3>1, <4>1
        <5> QED
          BY <2>2, <2>3, <4>1, <5>1 DEF CopiesTrue
      <4>2. CASE j # k
        BY <2>3, <3>1, <4>2 DEF CopiesTrue
      <4> QED
        BY <4>1, <4>2
    <3>2. wk'["file"].pc \notin {"idle", "got"} => wk'["file"].obj.status.phase # "Delivered"
      BY <1>1, <2>2, <2>3 DEF CopiesTrue
    <3> QED
      BY <1>1, <3>1, <3>2 DEF CopiesTrue
  <2>6. AnswersTrue' /\ CheckTellsTruth'
    <3>1. CASE k = "file"
      <4>1. wk'["check"] = wk["check"]
        BY <1>1, <2>3, <3>1
      <4> QED
        BY <1>1, <4>1 DEF AnswersTrue, CheckTellsTruth, Type
    <3>2. CASE k = "check"
      <4>1. wk'["check"] = v
        BY <2>3, <3>2
      <4>2. CheckTellsTruth'
        BY <2>2, <4>1 DEF CheckTellsTruth
      <4>3. AnswersTrue'
        BY <1>1, <2>2, <4>1 DEF AnswersTrue
      <4> QED
        BY <4>2, <4>3
    <3> QED
      BY <1>1, <3>1, <3>2
  <2> QED
    BY <2>4, <2>5, <2>6
<1> QED
  BY <1>3, <1>4 DEF Get, GoOn

\* The worker's own write is no news to the worker.
LEMMA DropOldFinalizerKeeps ==
  ASSUME RequestsInv, NEW k \in Kinds, DropOldFinalizer(k)
  PROVE  RequestsInv'
<1> USE DEF RequestsInv
<1>1. UNCHANGED <<scene, cache, expired>> /\ wk[k].pc = "got" /\ Kinds = {"file", "check"}
  BY DEF DropOldFinalizer, Kinds
<1>2. CASE Ends(k, TRUE, FALSE) /\ UNCHANGED <<obj, lag>>
  BY <1>1, <1>2, GivesUpStep
<1> DEFINE new == [obj[k] EXCEPT !.fin = FALSE, !.st = IF @ = "deleting" THEN "gone" ELSE @]
           v == [wk[k] EXCEPT !.obj = [new EXCEPT !.st = obj[k].st]]
<1>3. CASE Write(k, new) /\ GoOn(k, v) /\ UNCHANGED <<queued, timer>> /\ ~wk[k].stale
  <2>1. wk \in [Kinds -> Workers] /\ obj \in [Kinds -> ObjectSet] /\ lag \in [Kinds -> BOOLEAN]
    BY DEF RequestsTyped
  <2>2. wk[k] \in Workers /\ obj[k] \in ObjectSet
    BY <2>1
  <2>3. new \in ObjectSet /\ new.status = obj[k].status
    BY <2>2 DEF ObjectSet
  <2>4. [new EXCEPT !.st = obj[k].st] \in ObjectSet /\ [new EXCEPT !.st = obj[k].st].status = obj[k].status
    BY <2>2, <2>3 DEF ObjectSet
  <2>5. obj' = [obj EXCEPT ![k] = new] /\ wk' = [wk EXCEPT ![k] = v]
    BY <1>3 DEF Write, GoOn
  <2> HIDE DEF new
  <2>6. /\ v \in Workers /\ v.pc = "got" /\ v.obj.status = obj[k].status /\ v.saw = wk[k].saw
        /\ v.res = wk[k].res
    BY <1>1, <2>2, <2>4 DEF Workers
  <2> HIDE DEF v
  <2> DEFINE l == lag[k] \/ new # obj[k]
  <2>7. l \in BOOLEAN /\ lag' = [lag EXCEPT ![k] = l]
    BY <1>3 DEF Write
  <2>8. l = FALSE => lag[k] = FALSE /\ new = obj[k]
    <3>1. lag[k] \in BOOLEAN
      BY <2>1
    <3> QED
      BY <3>1
  <2> HIDE DEF l
  <2>9. /\ wk'[k] = v /\ obj'[k] = new /\ lag'[k] = l
        /\ \A j \in Kinds \ {k} : wk'[j] = wk[j] /\ obj'[j] = obj[j] /\ lag'[j] = lag[j]
    BY <2>1, <2>5, <2>7
  <2>10. UNCHANGED <<world, tokens, remote, cache, expired, queued, timer>>
    BY <1>1, <1>3 DEF scene
  <2>11. RequestsTyped'
    <3>1. wk' \in [Kinds -> Workers] /\ obj' \in [Kinds -> ObjectSet] /\ lag' \in [Kinds -> BOOLEAN]
      BY <2>1, <2>3, <2>5, <2>6, <2>7
    <3>2. \A j \in Kinds : wk'[j].pc = "data" => wk'[j].tok \in Tokens
      BY <2>6, <2>9 DEF RequestsTyped
    <3> QED
      BY <2>10, <3>1, <3>2 DEF RequestsTyped
  <2>12. CopiesTrue'
    <3>1. \A j \in Kinds : lag'[j] = FALSE => cache'[j] = obj'[j]
      BY <2>8, <2>9, <2>10 DEF CopiesTrue
    <3>2. \A j \in Kinds : wk'[j].pc # "idle" /\ wk'[j].stale = FALSE => wk'[j].obj.status = obj'[j].status
      BY <2>3, <2>6, <2>9 DEF CopiesTrue
    <3>3. wk'["file"].pc \notin {"idle", "got"} => wk'["file"].obj.status.phase # "Delivered"
      BY <1>1, <2>6, <2>9 DEF CopiesTrue
    <3> QED
      BY <3>1, <3>2, <3>3 DEF CopiesTrue
  <2>13. AnswersTrue' /\ CheckTellsTruth'
    <3>1. CASE k = "file"
      <4>1. wk'["check"] = wk["check"] /\ obj'["check"] = obj["check"]
        BY <1>1, <2>9, <3>1
      <4> QED
        BY <2>10, <4>1 DEF AnswersTrue, CheckTellsTruth, Type
    <3>2. CASE k = "check"
      <4>1. wk'["check"] = v /\ obj'["check"] = new
        BY <2>9, <3>2
      <4>2. CheckTellsTruth'
        BY <2>6, <4>1 DEF CheckTellsTruth
      <4>3. world.repo \in v.saw
        BY <1>1, <2>6, <3>2 DEF AnswersTrue
      <4>4. AnswersTrue'
        BY <2>6, <2>10, <4>1, <4>3 DEF AnswersTrue
      <4> QED
        BY <4>2, <4>4
    <3> QED
      BY <1>1, <3>1, <3>2
  <2> QED
    BY <2>11, <2>12, <2>13
<1> QED
  BY <1>2, <1>3 DEF DropOldFinalizer

LEMMA NothingToDoKeeps == RequestsInv /\ NothingToDo => RequestsInv'
  BY GivesUpStep DEF NothingToDo, Kinds

LEMMA CleanupKeeps ==
  ASSUME RequestsInv, NEW k \in Kinds, Cleanup(k)
  PROVE  RequestsInv'
<1>1. UNCHANGED <<scene, cache, expired>>
  BY DEF Cleanup
<1>2. CASE Ends(k, TRUE, FALSE) /\ UNCHANGED <<obj, lag>>
  BY <1>1, <1>2, GivesUpStep
<1> DEFINE new == [obj[k] EXCEPT !.st = "gone"]
<1>3. CASE Write(k, new) /\ Ends(k, FALSE, FALSE)
  <2>1. obj[k] \in ObjectSet
    BY DEF RequestsInv, RequestsTyped
  <2>2. new \in ObjectSet /\ new.status = obj[k].status
    BY <2>1 DEF ObjectSet
  <2>3. Write(k, new)
    BY <1>3
  <2> HIDE DEF new
  <2> QED
    BY <1>1, <1>3, <2>2, <2>3, WritesStep
<1> QED
  BY <1>2, <1>3 DEF Cleanup

LEMMA UpdateStatusKeeps ==
  ASSUME RequestsInv, NEW k \in Kinds, UpdateStatus(k)
  PROVE  RequestsInv'
<1>1. UNCHANGED <<scene, cache, expired>>
  BY DEF UpdateStatus
<1>2. CASE Ends(k, TRUE, FALSE) /\ UNCHANGED <<obj, lag>>
  BY <1>1, <1>2, GivesUpStep
<1> DEFINE new == [obj[k] EXCEPT !.status = wk[k].res]
           delay == ~wk[k].again /\ (k = "check" \/ ~expired[k])
<1>3. CASE Write(k, new) /\ Ends(k, wk[k].again, delay)
  <2>1. obj[k] \in ObjectSet /\ wk[k] \in Workers
    BY DEF RequestsInv, RequestsTyped
  <2>2. new \in ObjectSet /\ new.status = wk[k].res
    BY <2>1 DEF ObjectSet, Workers
  <2>3. Write(k, new) /\ Ends(k, wk[k].again, delay)
    BY <1>3
  <2> HIDE DEF new, delay
  <2> QED
    BY <1>1, <2>2, <2>3, WritesStep
<1> QED
  BY <1>2, <1>3 DEF UpdateStatus

-----------------------------------------------------------------------------
(* The provider, the lookup and the answers.                                  *)

\* What a worker in the middle of its work knows.
LEMMA UnderWay ==
  ASSUME RequestsInv, NEW k \in Kinds, wk[k].pc \in {"public", "lookup", "data", "secrets", "probe"}
  PROVE  /\ wk[k] \in Workers /\ wk[k].pc # "idle" /\ wk[k].pc # "got" /\ wk[k].pc # "update"
         /\ k = "check" => world.repo \in wk[k].saw
         /\ k = "check" /\ Type = "Quay" /\ wk[k].pc # "public" => Unanswered(wk[k])
  BY DEF RequestsInv, RequestsTyped, AnswersTrue, Unanswered

\* Without configuration secrets there are not two of a kind.
LEMMA NoSecretsNoConflict == ASSUME NEW t, NEW h PROVE SpConfig({}, t, h).st # "multiple"
<1>1. findUserServiceProviderConfigSecret({}, t, h) = {}
  BY DEF findUserServiceProviderConfigSecret
<1>2. SpConfigFromUserSecret({}, t, h) = NoConfig("none")
  <2>1. ~(Cardinality({}) > 1)
    BY FS_EmptySet
  <2> QED
    BY <1>1, <2>1 DEF SpConfigFromUserSecret
<1>3. NoConfig("none").st = "none" /\ \A own, oauth : Config(own, oauth).st = "ok"
  BY DEF NoConfig, Config
<1>4. SpConfig({}, t, h) = SpConfigFromGlobalConfig(t, h)
  BY <1>2, <1>3 DEF SpConfig
<1>5. SpConfigFromGlobalConfig(t, h).st \in {"ok", "none"}
  BY <1>3 DEF SpConfigFromGlobalConfig
<1> QED
  BY <1>4, <1>5

\* Apart from failing calls FromRepoUrl answers with a provider or a validation
\* error.
LEMMA ErrTypes == RequestsTyped => world.sp.err \in {"", "validation"}
<1>1. \A t, h, o : Provided(t, h, o).err \in {"", "validation"}
  BY DEF Provided
<1>2. ASSUME NEW h PROVE FromRepoUrl({}, h).err \in {"", "validation"}
  <2> DEFINE Cfg(i) == SpConfig({}, SupportedServiceProviderTypes[i], h)
             configured == {i \in 1..3 : Cfg(i).st # "none"}
             first == CHOOSE i \in configured : \A j \in configured : i <= j
             sp == initializeServiceProvider(SupportedServiceProviderTypes[first], h, Cfg(first))
  <2>1. sp.err \in {"", "validation"}
    <3> HIDE DEF first, Cfg
    <3> QED
      BY DEF initializeServiceProvider, Provided
  <2>2. createHostCredentialsProvider(h).err \in {"", "validation"}
    BY <1>1 DEF createHostCredentialsProvider
  <2>3. Cfg(first).st # "multiple"
    BY NoSecretsNoConflict
  <2>4. FromRepoUrl({}, h) = CASE configured = {} -> createHostCredentialsProvider(h)
          [] configured # {} /\ Cfg(first).st = "multiple" -> [sp EXCEPT !.err = "retry", !.oauth = FALSE]
          [] OTHER -> sp
    BY DEF FromRepoUrl
  <2> HIDE DEF configured, first, Cfg, sp
  <2> QED
    BY <2>1, <2>2, <2>3, <2>4
<1> QED
  BY <1>2 DEF RequestsTyped, WorldSet

LEMMA FileProviderKeeps == RequestsInv /\ FileProvider => RequestsInv'
<1> SUFFICES ASSUME RequestsInv, FileProvider PROVE RequestsInv'
  OBVIOUS
<1>1. /\ UNCHANGED <<scene, objectVars>> /\ "file" \in Kinds /\ wk["file"].pc = "got"
      /\ wk["file"].obj.status.phase # "Delivered"
  BY DEF FileProvider, Ready, Quietly, Kinds
<1>2. \/ \E why \in {"unableToValidate", "noSuitableServiceProvider", "notSupported"} :
           Report("file", FileError(why), FALSE)
      \/ To("file", "lookup")
  BY DEF FileProvider
<1>3. CASE To("file", "lookup")
  <2>1. tokens' \in [Tokens -> TokenSet] /\ UNCHANGED <<world, remote>>
    BY <1>1 DEF RequestsInv, RequestsTyped, scene
  <2> QED
    BY <1>1, <1>3, <2>1, ToStep
<1>4. ASSUME NEW why \in {"unableToValidate", "noSuitableServiceProvider", "notSupported"},
             Report("file", FileError(why), FALSE)
      PROVE  RequestsInv'
  <2>1. FileError(why) \in Statuses
    BY StatusTypes
  <2> QED
    BY <1>1, <1>4, <2>1, ReportStep
<1> QED
  BY <1>2, <1>3, <1>4

LEMMA CheckProviderKeeps == RequestsInv /\ CheckProvider => RequestsInv'
<1> SUFFICES ASSUME RequestsInv, CheckProvider PROVE RequestsInv'
  OBVIOUS
<1>1. UNCHANGED <<scene, objectVars>> /\ "check" \in Kinds /\ wk["check"].pc = "got"
  BY DEF CheckProvider, Ready, Quietly, Kinds
<1>2. wk["check"] \in Workers /\ wk["check"].obj.status \in Statuses
  BY <1>1 DEF RequestsInv, RequestsTyped, Workers, ObjectSet
<1>3. tokens' \in [Tokens -> TokenSet] /\ UNCHANGED <<world, remote>>
  BY <1>1 DEF RequestsInv, RequestsTyped, scene
<1>4. ASSUME NEW why \in {"UnsupportedConfiguration", "UnknownServiceProvider"},
             Report("check", [wk["check"].obj.status EXCEPT !.reason = why], FALSE)
      PROVE  RequestsInv'
  <2> DEFINE res == [wk["check"].obj.status EXCEPT !.reason = why]
  <2>1. res \in Statuses /\ res.reason = why
    BY <1>2 DEF Statuses
  <2>2. Report("check", res, FALSE) /\ Repeats(res, wk["check"])
    BY <1>4, <2>1 DEF Repeats
  <2> HIDE DEF res
  <2> QED
    BY <1>1, <2>1, <2>2, ReportStep
<1>5. ASSUME NEW why \in {"NotImplemented", "BadURL"},
             Report("check", Checked(FALSE, "unknown", why), FALSE)
      PROVE  RequestsInv'
  <2>1. /\ Checked(FALSE, "unknown", why) \in Statuses /\ Checked(FALSE, "unknown", why).vis = "unknown"
        /\ Checked(FALSE, "unknown", why).phase = "Inaccessible"
    BY DEF Checked, Statuses
  <2>2. Says(Checked(FALSE, "unknown", why), wk["check"])
    BY <2>1 DEF Says
  <2> QED
    BY <1>1, <1>5, <2>1, <2>2, ReportStep
<1>6. CASE Type # "Quay" /\ To("check", "public")
  BY <1>1, <1>3, <1>6, ToStep
<1>7. CASE GoOn("check", [wk["check"] EXCEPT !.pc = "lookup", !.res = Checked(FALSE, "unknown", "")])
  <2> DEFINE res == Checked(FALSE, "unknown", "")
             t == wk["check"].tok
             c == wk["check"].cred
  <2>1. res \in Statuses /\ res.vis = "unknown" /\ res.phase = "Inaccessible"
    BY StatusTypes
  <2>2. t \in Tokens \cup {None} /\ c \in Answers
    BY <1>2 DEF Workers
  <2>3. wk' = [wk EXCEPT !["check"] = [wk["check"] EXCEPT !.pc = "lookup", !.res = res]]
    BY <1>7 DEF GoOn
  <2>4. [wk["check"] EXCEPT !.pc = "lookup", !.res = res]
          = [wk["check"] EXCEPT !.pc = "lookup", !.tok = t, !.cred = c, !.res = res]
    BY <1>2 DEF Workers
  <2>5. wk' = [wk EXCEPT !["check"] = [wk["check"] EXCEPT !.pc = "lookup", !.tok = t, !.cred = c, !.res = res]]
    BY <2>3, <2>4
  <2> HIDE DEF res, t, c
  <2> QED
    BY <1>1, <1>3, <1>7, <2>1, <2>2, <2>5, MoveStep
<1>8. CASE Report("check", [wk["check"].obj.status EXCEPT !.reason = "UnknownServiceProvider"], FALSE)
  BY <1>4, <1>8
<1>9. CASE world.sp.err = "validation"
  BY <1>4, <1>8, <1>9 DEF CheckProvider
<1>10. CASE world.sp.err = "" /\ world.sp.type = "HostCredentials"
  BY <1>5, <1>8, <1>10 DEF CheckProvider
<1>11. CASE world.sp.err = "" /\ world.sp.type = "Quay"
  BY <1>5, <1>7, <1>8, <1>11 DEF CheckProvider
<1>12. CASE world.sp.err = "" /\ world.sp.type \notin {"HostCredentials", "Quay"}
  BY <1>6, <1>8, <1>12 DEF CheckProvider, Type
<1> QED
  BY <1>9, <1>10, <1>11, <1>12, ErrTypes DEF RequestsInv

\* Results of the kinds that are given in several places.
LEMMA NegativeStep ==
  ASSUME RequestsInv, NEW k \in Kinds, Quietly,
         wk[k].pc \in {"public", "lookup", "data", "secrets", "probe"},
         \/ \E why \in {"lookup", "noCredentials", "download"}, again \in BOOLEAN :
              k = "file" /\ Report(k, FileError(why), again)
         \/ \E why \in {"", "BadURL", "TokenLookupFailed", "RepoNotFound", "UnknownError"} :
              k = "check" /\ Report(k, Checked(FALSE, "unknown", why), FALSE)
  PROVE  RequestsInv'
<1>1. wk[k].pc # "idle" /\ wk[k].pc # "got" /\ UNCHANGED <<scene, objectVars>>
  BY UnderWay DEF Quietly
<1>2. ASSUME NEW why \in {"lookup", "noCredentials", "download"}, NEW again \in BOOLEAN,
             k = "file", Report(k, FileError(why), again)
      PROVE  RequestsInv'
  <2>1. FileError(why) \in Statuses
    BY StatusTypes
  <2> QED
    BY <1>1, <1>2, <2>1, ReportStep
<1>3. ASSUME NEW why \in {"", "BadURL", "TokenLookupFailed", "RepoNotFound", "UnknownError"},
             k = "check", Report(k, Checked(FALSE, "unknown", why), FALSE)
      PROVE  RequestsInv'
  <2>1. /\ Checked(FALSE, "unknown", why) \in Statuses /\ Checked(FALSE, "unknown", why).vis = "unknown"
        /\ Checked(FALSE, "unknown", why).phase = "Inaccessible"
    BY DEF Checked, Statuses
  <2>2. Says(Checked(FALSE, "unknown", why), wk[k])
    BY <2>1 DEF Says
  <2> QED
    BY <1>1, <1>3, <2>1, <2>2, ReportStep
<1> QED
  BY <1>2, <1>3

LEMMA CheckPublicKeeps == RequestsInv /\ CheckPublic /\ Type # "Quay" => RequestsInv'
<1> SUFFICES ASSUME RequestsInv, CheckPublic, Type # "Quay" PROVE RequestsInv'
  OBVIOUS
<1>1. wk["check"].pc = "public" /\ "check" \in Kinds
  BY DEF CheckPublic, Kinds
<1>2. wk["check"].pc # "idle" /\ world.repo \in wk["check"].saw
  BY <1>1, UnderWay
<1>3. CASE Ends("check", TRUE, FALSE) /\ UNCHANGED <<scene, obj, cache, lag, expired>>
  BY <1>1, <1>3, GivesUpStep
<1>4. CASE Quietly /\ world.repo = "public" /\ Report("check", Checked(TRUE, "public", ""), FALSE)
  <2>1. Checked(TRUE, "public", "") \in Statuses /\ Checked(TRUE, "public", "").vis = "public"
    BY StatusTypes
  <2>2. Says(Checked(TRUE, "public", ""), wk["check"])
    BY <1>2, <1>4, <2>1 DEF Says
  <2> QED
    BY <1>1, <1>2, <1>4, <2>1, <2>2, ReportStep DEF Quietly
<1>5. CASE Quietly /\ Report("check", Checked(FALSE, "unknown", "BadURL"), FALSE)
  BY <1>1, <1>5, NegativeStep
<1>6. CASE Quietly /\ To("check", "lookup")
  <2>1. tokens' \in [Tokens -> TokenSet] /\ UNCHANGED <<world, remote, objectVars>>
    BY <1>6 DEF RequestsInv, RequestsTyped, scene, Quietly
  <2> QED
    BY <1>1, <1>2, <1>6, <2>1, ToStep
<1> QED
  BY <1>3, <1>4, <1>5, <1>6 DEF CheckPublic

LEMMA LookupFailsStep ==
  ASSUME RequestsInv, NEW k \in Kinds, wk[k].pc \in {"lookup", "data", "secrets"}, LookupFails(k), Quietly
  PROVE  RequestsInv'
<1>1. /\ wk[k] \in Workers /\ wk[k].pc # "idle" /\ wk[k].pc # "got" /\ k \in {"file", "check"}
      /\ k = "check" /\ Type = "Quay" => Unanswered(wk[k])
  BY UnderWay DEF Kinds
<1>2. CASE k = "file" /\ Report(k, FileError("lookup"), TRUE)
  BY <1>2, NegativeStep
<1>3. CASE k = "check" /\ Report(k, Checked(FALSE, "unknown", "TokenLookupFailed"), FALSE)
  BY <1>3, NegativeStep
<1>4. CASE k = "check" /\ Type = "Quay" /\ GoOn(k, [wk[k] EXCEPT !.pc = "probe", !.res.reason = "TokenLookupFailed"])
  <2> DEFINE res == [wk[k].res EXCEPT !.reason = "TokenLookupFailed"]
             t == wk[k].tok
             c == wk[k].cred
  <2>1. wk[k].res \in Statuses /\ t \in Tokens \cup {None} /\ c \in Answers
    BY <1>1 DEF Workers
  <2>2. res \in Statuses /\ res.vis = wk[k].res.vis /\ res.phase = wk[k].res.phase
    BY <2>1 DEF Statuses
  <2>3. res.vis = "unknown" /\ res.phase = "Inaccessible"
    BY <1>1, <1>4, <2>2 DEF Unanswered
  <2>4. [wk[k] EXCEPT !.pc = "probe", !.res.reason = "TokenLookupFailed"]
          = [wk[k] EXCEPT !.pc = "probe", !.tok = t, !.cred = c, !.res = res]
    BY <1>1 DEF Workers
  <2>5. wk' = [wk EXCEPT ![k] = [wk[k] EXCEPT !.pc = "probe", !.tok = t, !.cred = c, !.res = res]]
    BY <1>4, <2>4 DEF GoOn
  <2>6. tokens' \in [Tokens -> TokenSet] /\ UNCHANGED <<world, remote, objectVars>>
    BY DEF RequestsInv, RequestsTyped, scene, Quietly
  <2> HIDE DEF res, t, c
  <2> QED
    BY <1>1, <1>4, <2>1, <2>2, <2>3, <2>5, <2>6, MoveStep
<1> QED
  BY <1>1, <1>2, <1>3, <1>4 DEF LookupFails

LEMMA FoundStep ==
  ASSUME RequestsInv, NEW k \in Kinds, wk[k].pc \in {"lookup", "data", "secrets"}, NEW c \in Answers,
         Found(k, c), Quietly
  PROVE  RequestsInv'
<1>1. /\ wk[k] \in Workers /\ wk[k].pc # "idle" /\ wk[k].pc # "got"
      /\ k = "check" /\ Type = "Quay" => Unanswered(wk[k])
  BY UnderWay
<1> DEFINE res == wk[k].res
           t == wk[k].tok
<1>2. res \in Statuses /\ t \in Tokens \cup {None}
  BY <1>1 DEF Workers
<1>3. k = "check" /\ Type = "Quay" => res.vis = "unknown" /\ res.phase = "Inaccessible"
  BY <1>1 DEF Unanswered
<1>4. [wk[k] EXCEPT !.pc = "probe", !.cred = c] = [wk[k] EXCEPT !.pc = "probe", !.tok = t, !.cred = c, !.res = res]
  BY <1>1 DEF Workers
<1>5. wk' = [wk EXCEPT ![k] = [wk[k] EXCEPT !.pc = "probe", !.tok = t, !.cred = c, !.res = res]]
  BY <1>4 DEF Found, GoOn
<1>6. tokens' \in [Tokens -> TokenSet] /\ UNCHANGED <<world, remote, objectVars>>
  BY DEF RequestsInv, RequestsTyped, scene, Quietly
<1> HIDE DEF res, t
<1> QED
  BY <1>1, <1>2, <1>3, <1>5, <1>6, MoveStep

LEMMA NotFoundStep ==
  ASSUME RequestsInv, NEW k \in Kinds, wk[k].pc \in {"lookup", "data", "secrets"}, NotFound(k), Quietly
  PROVE  RequestsInv'
<1>1. /\ wk[k].pc # "idle" /\ wk[k].pc # "got" /\ k \in {"file", "check"}
      /\ k = "check" /\ Type = "Quay" => Unanswered(wk[k])
  BY UnderWay DEF Kinds
<1>2. CASE k = "file" /\ Report(k, FileError("noCredentials"), FALSE)
  BY <1>2, NegativeStep
<1>3. CASE k = "check" /\ Report(k, Checked(FALSE, "unknown", ""), FALSE)
  BY <1>3, NegativeStep
<1>4. CASE k = "check" /\ Type = "Quay" /\ To(k, "probe")
  <2>1. tokens' \in [Tokens -> TokenSet] /\ UNCHANGED <<world, remote, objectVars>>
    BY DEF RequestsInv, RequestsTyped, scene, Quietly
  <2> QED
    BY <1>1, <1>4, <2>1, ToStep
<1> QED
  BY <1>1, <1>2, <1>3, <1>4 DEF NotFound

LEMMA LookupTokensKeeps ==
  ASSUME RequestsInv, NEW k \in Kinds, LookupTokens(k)
  PROVE  RequestsInv'
<1>1. wk[k].pc = "lookup"
  BY DEF LookupTokens
<1>2. /\ wk[k] \in Workers /\ wk[k].pc # "idle" /\ wk[k].pc # "got"
      /\ k = "check" /\ Type = "Quay" => Unanswered(wk[k])
  BY <1>1, UnderWay
<1>3. CASE LookupFails(k) /\ Quietly
  BY <1>1, <1>3, LookupFailsStep
<1>4. ASSUME NEW meta, NEW match \in SUBSET Tokens,
             \A t \in Tokens : meta[t] \in Credentials \cup {None},
             tokens' = [t \in Tokens |-> [tokens[t] EXCEPT !.meta = meta[t]]],
             \/ \E t \in match : GoOn(k, [wk[k] EXCEPT !.pc = "data", !.tok = t])
             \/ To(k, "secrets"),
             UNCHANGED <<world, remote, objectVars>>
      PROVE  RequestsInv'
  <2>1. tokens' \in [Tokens -> TokenSet]
    BY <1>4 DEF RequestsInv, RequestsTyped, TokenSet
  <2>2. CASE To(k, "secrets")
    BY <1>2, <1>4, <2>1, <2>2, ToStep
  <2>3. ASSUME NEW t \in match, GoOn(k, [wk[k] EXCEPT !.pc = "data", !.tok = t])
        PROVE  RequestsInv'
    <3> DEFINE c == wk[k].cred
               res == wk[k].res
    <3>1. c \in Answers /\ res \in Statuses /\ t \in Tokens
      BY <1>2 DEF Workers
    <3>2. [wk[k] EXCEPT !.pc = "data", !.tok = t] = [wk[k] EXCEPT !.pc = "data", !.tok = t, !.cred = c, !.res = res]
      BY <1>2 DEF Workers
    <3>3. wk' = [wk EXCEPT ![k] = [wk[k] EXCEPT !.pc = "data", !.tok = t, !.cred = c, !.res = res]]
      BY <2>3, <3>2 DEF GoOn
    <3>4. k = "check" /\ Type = "Quay" => res.vis = "unknown" /\ res.phase = "Inaccessible"
      BY <1>2 DEF Unanswered
    <3> HIDE DEF c, res
    <3> QED
      BY <1>2, <1>4, <2>1, <3>1, <3>3, <3>4, MoveStep
  <2> QED
    BY <1>4, <2>2, <2>3
<1>5. CASE ~(LookupFails(k) /\ Quietly)
  <2>1. PICK refetched \in IF MetadataExpires(Type) THEN BOOLEAN ELSE {FALSE} :
          LET ready == ReadyTokens
              meta  == [t \in Tokens |-> IF refetched /\ t \in ready THEN tokens[t].data ELSE tokens[t].meta]
              match == {t \in ready : TokenMatches(Type, world.policy, Perms(k), world.host, Metadata(meta[t]))}
          IN /\ tokens' = [t \in Tokens |-> [tokens[t] EXCEPT !.meta = meta[t]]]
             /\ \/ \E t \in match : GoOn(k, [wk[k] EXCEPT !.pc = "data", !.tok = t])
                \/ match = {} /\ To(k, "secrets")
             /\ UNCHANGED <<world, remote, objectVars>>
    BY <1>5 DEF LookupTokens
  <2> DEFINE ready == ReadyTokens
             meta  == [t \in Tokens |-> IF refetched /\ t \in ready THEN tokens[t].data ELSE tokens[t].meta]
             match == {t \in ready : TokenMatches(Type, world.policy, Perms(k), world.host, Metadata(meta[t]))}
  <2>2. /\ tokens' = [t \in Tokens |-> [tokens[t] EXCEPT !.meta = meta[t]]]
        /\ \/ \E t \in match : GoOn(k, [wk[k] EXCEPT !.pc = "data", !.tok = t])
           \/ match = {} /\ To(k, "secrets")
        /\ UNCHANGED <<world, remote, objectVars>>
    BY <2>1
  <2>3. match \subseteq Tokens
    BY DEF ReadyTokens
  <2> HIDE DEF match
  <2>4. \A t \in Tokens : meta[t] \in Credentials \cup {None}
    BY DEF RequestsInv, RequestsTyped, TokenSet
  <2> HIDE DEF meta
  <2> QED
    BY <1>4, <2>2, <2>3, <2>4
<1> QED
  BY <1>3, <1>5

LEMMA TokenDataKeeps ==
  ASSUME RequestsInv, NEW k \in Kinds, TokenData(k)
  PROVE  RequestsInv'
<1>1. wk[k].pc = "data" /\ Quietly
  BY DEF TokenData
<1>2. tokens[wk[k].tok].data \in Answers
  BY <1>1 DEF RequestsInv, RequestsTyped, TokenSet, Answers
<1>3. CASE LookupFails(k)
  BY <1>1, <1>3, LookupFailsStep
<1>4. CASE Found(k, tokens[wk[k].tok].data)
  BY <1>1, <1>2, <1>4, FoundStep
<1> QED
  BY <1>3, <1>4 DEF TokenData

LEMMA LookupSecretsKeeps ==
  ASSUME RequestsInv, NEW k \in Kinds, LookupSecrets(k)
  PROVE  RequestsInv'
<1>1. wk[k].pc = "secrets" /\ Quietly
  BY DEF LookupSecrets
<1>2. CASE LookupFails(k)
  BY <1>1, <1>2, LookupFailsStep
<1>3. CASE NotFound(k)
  BY <1>1, <1>3, NotFoundStep
<1>4. CASE Found(k, SCMCredential)
  BY <1>1, <1>4, FoundStep DEF Answers
<1>5. ASSUME NEW r \in Preferred, Found(k, r.cred) PROVE RequestsInv'
  <2>1. r \in RemoteKinds
    BY DEF Preferred, Usable, RequestsInv, RequestsTyped
  <2>2. r.cred \in Answers
    BY <2>1 DEF Answers
  <2> QED
    BY <1>1, <1>5, <2>2, FoundStep
<1> QED
  BY <1>2, <1>3, <1>4, <1>5 DEF LookupSecrets, lookupSCMSecret

LEMMA DownloadKeeps == RequestsInv /\ Download => RequestsInv'
<1> SUFFICES ASSUME RequestsInv, Download PROVE RequestsInv'
  OBVIOUS
<1>1. wk["file"].pc = "probe" /\ "file" \in Kinds /\ Quietly
  BY DEF Download, Kinds
<1>2. CASE Report("file", FileError("download"), TRUE)
  BY <1>1, <1>2, NegativeStep
<1>3. CASE Report("file", [phase |-> "Delivered", vis |-> "", reason |-> ""], FALSE)
  <2>1. [phase |-> "Delivered", vis |-> "", reason |-> ""] \in Statuses
    BY DEF Statuses
  <2> QED
    BY <1>1, <1>3, <2>1, ReportStep DEF Quietly
<1> QED
  BY <1>2, <1>3 DEF Download

LEMMA CheckPrivateKeeps == RequestsInv /\ CheckPrivate => RequestsInv'
<1> SUFFICES ASSUME RequestsInv, CheckPrivate PROVE RequestsInv'
  OBVIOUS
<1>1. wk["check"].pc = "probe" /\ "check" \in Kinds /\ Quietly
  BY DEF CheckPrivate, Kinds
<1>2. wk["check"].pc # "idle" /\ world.repo \in wk["check"].saw
  BY <1>1, UnderWay
<1>3. CASE \E why \in {"UnknownError", "RepoNotFound"} : Report("check", Checked(FALSE, "unknown", why), FALSE)
  BY <1>1, <1>3, NegativeStep
<1>4. CASE world.repo = "public" /\ Report("check", Checked(TRUE, "unknown", ""), FALSE)
  <2>1. Checked(TRUE, "unknown", "") \in Statuses /\ Checked(TRUE, "unknown", "").vis = "unknown"
    BY StatusTypes
  <2>2. Says(Checked(TRUE, "unknown", ""), wk["check"])
    BY <1>2, <1>4, <2>1 DEF Says
  <2> QED
    BY <1>1, <1>2, <1>4, <2>1, <2>2, ReportStep DEF Quietly
<1>5. CASE /\ world.repo = "private" /\ wk["check"].cred \in Sees
           /\ Report("check", Checked(TRUE, "private", ""), FALSE)
  <2>1. Checked(TRUE, "private", "") \in Statuses /\ Checked(TRUE, "private", "").vis = "private"
    BY StatusTypes
  <2>2. Says(Checked(TRUE, "private", ""), wk["check"])
    BY <1>2, <1>5, <2>1 DEF Says
  <2> QED
    BY <1>1, <1>2, <1>5, <2>1, <2>2, ReportStep DEF Quietly
<1> QED
  BY <1>3, <1>4, <1>5 DEF CheckPrivate

LEMMA CheckQuayKeeps == RequestsInv /\ CheckQuay => RequestsInv'
<1> SUFFICES ASSUME RequestsInv, CheckQuay PROVE RequestsInv'
  OBVIOUS
<1>1. wk["check"].pc = "probe" /\ "check" \in Kinds /\ Type = "Quay"
  BY DEF CheckQuay, Kinds
<1>2. /\ wk["check"].pc # "idle" /\ world.repo \in wk["check"].saw
      /\ wk["check"].res.vis = "unknown" /\ wk["check"].res.phase = "Inaccessible"
      /\ wk["check"].res \in Statuses
  BY <1>1, UnderWay DEF Unanswered, Workers
<1>3. CASE Ends("check", TRUE, FALSE) /\ UNCHANGED <<scene, obj, cache, lag, expired>>
  BY <1>1, <1>3, GivesUpStep
<1>4. CASE Quietly /\ world.repo = "public" /\ Report("check", Checked(TRUE, "public", ""), FALSE)
  <2>1. Checked(TRUE, "public", "") \in Statuses /\ Checked(TRUE, "public", "").vis = "public"
    BY StatusTypes
  <2>2. Says(Checked(TRUE, "public", ""), wk["check"])
    BY <1>2, <1>4, <2>1 DEF Says
  <2> QED
    BY <1>1, <1>2, <1>4, <2>1, <2>2, ReportStep DEF Quietly
<1>5. CASE /\ Quietly /\ world.repo = "private" /\ wk["check"].cred \in Sees
           /\ Report("check", Checked(TRUE, "private", ""), FALSE)
  <2>1. Checked(TRUE, "private", "") \in Statuses /\ Checked(TRUE, "private", "").vis = "private"
    BY StatusTypes
  <2>2. Says(Checked(TRUE, "private", ""), wk["check"])
    BY <1>2, <1>5, <2>1 DEF Says
  <2> QED
    BY <1>1, <1>2, <1>5, <2>1, <2>2, ReportStep DEF Quietly
<1>6. CASE Quietly /\ Report("check", Checked(FALSE, "unknown", "RepoNotFound"), FALSE)
  BY <1>1, <1>6, NegativeStep
<1>7. CASE Quietly /\ Report("check", wk["check"].res, FALSE)
  <2>1. Says(wk["check"].res, wk["check"])
    BY <1>2 DEF Says
  <2> QED
    BY <1>1, <1>2, <1>7, <2>1, ReportStep DEF Quietly
<1>8. CASE Quietly /\ wk["check"].cred \in Robots /\ Report("check", Checked(TRUE, "private", wk["check"].res.reason), FALSE)
  <2>1. /\ Checked(TRUE, "private", wk["check"].res.reason) \in Statuses
        /\ Checked(TRUE, "private", wk["check"].res.reason).vis = "private"
    BY <1>2, StatusTypes
  <2>2. Trusts(Checked(TRUE, "private", wk["check"].res.reason), wk["check"])
    BY <1>1, <1>8, <2>1 DEF Trusts
  <2> QED
    BY <1>1, <1>2, <1>8, <2>1, <2>2, ReportStep DEF Quietly
<1> QED
  BY <1>3, <1>4, <1>5, <1>6, <1>7, <1>8 DEF CheckQuay

-----------------------------------------------------------------------------
(* Everybody else.                                                            *)

LEMMA DeliverKeeps ==
  ASSUME RequestsInv, NEW k \in Kinds, Deliver(k)
  PROVE  RequestsInv'
<1> USE DEF RequestsInv
<1>1. UNCHANGED <<world, tokens, remote, obj, timer, expired, wk>> /\ Kinds = {"file", "check"}
  BY DEF Deliver, scene, Kinds
<1>2. cache' = [cache EXCEPT ![k] = obj[k]] /\ lag' = [lag EXCEPT ![k] = FALSE] /\ queued' = [queued EXCEPT ![k] = TRUE]
  BY DEF Deliver
<1>3. RequestsTyped'
  BY <1>1, <1>2 DEF RequestsTyped
<1>4. \A j \in Kinds : cache'[j] = (IF j = k THEN obj[k] ELSE cache[j]) /\ lag'[j] = (IF j = k THEN FALSE ELSE lag[j])
  BY <1>2 DEF RequestsTyped
<1>5. CopiesTrue'
  BY <1>1, <1>4 DEF CopiesTrue
<1>6. cache'["check"] \in {cache["check"], obj["check"]}
  BY <1>1, <1>4
<1>7. AnswersTrue' /\ CheckTellsTruth'
  BY <1>1, <1>6 DEF AnswersTrue, CheckTellsTruth, Type
<1> QED
  BY <1>3, <1>5, <1>7

\* Steps that change queues, timers, ages and tokens only.
LEMMA AsideStep ==
  ASSUME RequestsInv, UNCHANGED <<world, remote, obj, cache, lag, wk>>, tokens' \in [Tokens -> TokenSet],
         queued' \in [Kinds -> BOOLEAN], timer' \in [Kinds -> BOOLEAN], expired' \in [Kinds -> BOOLEAN]
  PROVE  RequestsInv'
<1> USE DEF RequestsInv
<1>1. RequestsTyped'
  BY DEF RequestsTyped
<1>2. CopiesTrue' /\ AnswersTrue' /\ CheckTellsTruth'
  BY DEF CopiesTrue, AnswersTrue, CheckTellsTruth, Type
<1> QED
  BY <1>1, <1>2

LEMMA TimersKeep ==
  ASSUME RequestsInv, NEW k \in Kinds, TimerFires(k) \/ Expire(k)
  PROVE  RequestsInv'
<1>1. UNCHANGED <<world, tokens, remote, obj, cache, lag, wk>>
  BY DEF TimerFires, Expire, scene
<1>2. /\ tokens' \in [Tokens -> TokenSet] /\ queued' \in [Kinds -> BOOLEAN] /\ timer' \in [Kinds -> BOOLEAN]
      /\ expired' \in [Kinds -> BOOLEAN]
  BY <1>1 DEF RequestsInv, RequestsTyped, TimerFires, Expire
<1> QED
  BY <1>1, <1>2, AsideStep

LEMMA TokensKeep ==
  ASSUME RequestsInv, StoreData \/ \E t \in Tokens : TokenSettles(t)
  PROVE  RequestsInv'
<1>1. UNCHANGED <<world, remote, obj, cache, lag, queued, timer, expired, wk>>
  BY DEF StoreData, TokenSettles, objectVars
<1>2. tokens \in [Tokens -> TokenSet]
  BY DEF RequestsInv, RequestsTyped
<1>3. tokens' \in [Tokens -> TokenSet]
  <2>1. CASE StoreData
    <3>1. PICK t \in Tokens, c \in Credentials \cup {None} :
            tokens' = [tokens EXCEPT ![t] = [data |-> c, meta |-> IF c = None THEN None ELSE @.meta]]
      BY <2>1 DEF StoreData
    <3> QED
      BY <1>2, <3>1 DEF TokenSet
  <2>2. CASE \E t \in Tokens : TokenSettles(t)
    <3>1. PICK t \in Tokens : tokens' = [tokens EXCEPT ![t].meta = tokens[t].data]
      BY <2>2 DEF TokenSettles
    <3>2. tokens[t] \in TokenSet
      BY <1>2
    <3>3. [tokens[t] EXCEPT !.meta = tokens[t].data] \in TokenSet
      BY <3>2 DEF TokenSet
    <3> QED
      BY <1>2, <3>1, <3>3
  <2> QED
    BY <2>1, <2>2
<1>4. queued' \in [Kinds -> BOOLEAN] /\ timer' \in [Kinds -> BOOLEAN] /\ expired' \in [Kinds -> BOOLEAN]
  BY <1>1 DEF RequestsInv, RequestsTyped
<1> QED
  BY <1>1, <1>3, <1>4, AsideStep

LEMMA DeleteObjectKeeps ==
  ASSUME RequestsInv, NEW k \in Kinds, DeleteObject(k)
  PROVE  RequestsInv'
<1> USE DEF RequestsInv
<1> DEFINE new == [obj[k] EXCEPT !.st = IF obj[k].fin THEN "deleting" ELSE "gone"]
           l == lag[k] \/ new # obj[k]
           st == wk[k].stale \/ wk[k].pc # "idle"
           v == [wk[k] EXCEPT !.stale = st]
<1>1. UNCHANGED <<world, tokens, remote, cache, queued, timer, expired>> /\ Kinds = {"file", "check"}
  BY DEF DeleteObject, scene, Kinds
<1>2. wk \in [Kinds -> Workers] /\ obj \in [Kinds -> ObjectSet] /\ lag \in [Kinds -> BOOLEAN]
  BY DEF RequestsTyped
<1>3. obj[k] \in ObjectSet /\ wk[k] \in Workers /\ lag[k] \in BOOLEAN
  BY <1>2
<1>4. new \in ObjectSet /\ new.status = obj[k].status
  BY <1>3 DEF ObjectSet
<1>5. st \in BOOLEAN /\ l \in BOOLEAN /\ (wk[k].pc # "idle" => st = TRUE) /\ (l = FALSE => lag[k] = FALSE /\ new = obj[k])
  BY <1>3
<1>6. obj' = [obj EXCEPT ![k] = new] /\ lag' = [lag EXCEPT ![k] = l] /\ wk' = [wk EXCEPT ![k] = v]
  <2>1. wk' = [wk EXCEPT ![k].stale = @ \/ wk[k].pc # "idle"]
    BY DEF DeleteObject
  <2> QED
    BY <2>1 DEF DeleteObject, Write
<1> HIDE DEF st, l, new
<1>7. /\ v \in Workers /\ v.stale = st /\ v.pc = wk[k].pc /\ v.obj = wk[k].obj /\ v.tok = wk[k].tok
      /\ v.res = wk[k].res /\ v.saw = wk[k].saw /\ v.cred = wk[k].cred
  BY <1>3, <1>5 DEF Workers
<1> HIDE DEF v
<1>8. /\ wk'[k] = v /\ obj'[k] = new /\ lag'[k] = l
      /\ \A j \in Kinds \ {k} : wk'[j] = wk[j] /\ obj'[j] = obj[j] /\ lag'[j] = lag[j]
  BY <1>2, <1>6
<1>9. RequestsTyped'
  <2>1. wk' \in [Kinds -> Workers] /\ obj' \in [Kinds -> ObjectSet] /\ lag' \in [Kinds -> BOOLEAN]
    BY <1>2, <1>4, <1>5, <1>6, <1>7
  <2>2. \A j \in Kinds : wk'[j].pc = "data" => wk'[j].tok \in Tokens
    BY <1>7, <1>8 DEF RequestsTyped
  <2> QED
    BY <1>1, <2>1, <2>2 DEF RequestsTyped
<1>10. CopiesTrue'
  <2>1. \A j \in Kinds : lag'[j] = FALSE => cache'[j] = obj'[j]
    BY <1>1, <1>5, <1>8 DEF CopiesTrue
  <2>2. ASSUME NEW j \in Kinds, wk'[j].pc # "idle", wk'[j].stale = FALSE
        PROVE  wk'[j].obj.status = obj'[j].status
    <3>1. CASE j = k
      <4>1. st = TRUE /\ wk'[j].stale = st
        BY <1>5, <1>7, <1>8, <2>2, <3>1
      <4> QED
        BY <2>2, <4>1
    <3>2. CASE j # k
      BY <1>8, <2>2, <3>2 DEF CopiesTrue
    <3> QED
      BY <3>1, <3>2
  <2>3. wk'["file"].pc \notin {"idle", "got"} => wk'["file"].obj.status.phase # "Delivered"
    BY <1>1, <1>7, <1>8 DEF CopiesTrue
  <2> QED
    BY <2>1, <2>2, <2>3 DEF CopiesTrue
<1>11. /\ wk'["check"].pc = wk["check"].pc /\ wk'["check"].obj = wk["check"].obj
       /\ wk'["check"].res = wk["check"].res /\ wk'["check"].saw = wk["check"].saw
       /\ wk'["check"].cred = wk["check"].cred /\ obj'["check"].status = obj["check"].status
  BY <1>1, <1>4, <1>7, <1>8
<1>12. AnswersTrue' /\ CheckTellsTruth'
  BY <1>1, <1>11 DEF AnswersTrue, CheckTellsTruth, Type
<1> QED
  BY <1>9, <1>10, <1>12

\* A new visibility is seen by the workers that are busy.
LEMMA ChangeVisibilityKeeps == RequestsInv /\ ChangeVisibility => RequestsInv'
<1> SUFFICES ASSUME RequestsInv, ChangeVisibility PROVE RequestsInv'
  OBVIOUS
<1> USE DEF RequestsInv
<1>1. PICK v \in {"public", "private", "missing"} :
        /\ world' = [world EXCEPT !.repo = v]
        /\ wk' = [k \in Kinds |-> [wk[k] EXCEPT !.saw = IF wk[k].pc = "idle" THEN @ ELSE @ \cup {v}]]
  BY DEF ChangeVisibility
<1>2. UNCHANGED <<tokens, remote, obj, cache, lag, queued, timer, expired>> /\ Kinds = {"file", "check"}
  BY DEF ChangeVisibility, objectVars, Kinds
<1>3. world' \in WorldSet /\ world'.repo = v /\ world'.sp = world.sp
  BY <1>1 DEF RequestsTyped, WorldSet, Views
<1>4. ASSUME NEW k \in Kinds
      PROVE  /\ wk'[k] \in Workers /\ wk'[k].pc = wk[k].pc /\ wk'[k].obj = wk[k].obj /\ wk'[k].stale = wk[k].stale
             /\ wk'[k].tok = wk[k].tok /\ wk'[k].cred = wk[k].cred /\ wk'[k].res = wk[k].res
             /\ wk[k].saw \subseteq wk'[k].saw /\ (wk[k].pc # "idle" => v \in wk'[k].saw)
  <2>1. wk[k] \in Workers /\ v \in Views
    BY DEF RequestsTyped, Views
  <2>2. wk'[k] = [wk[k] EXCEPT !.saw = IF wk[k].pc = "idle" THEN @ ELSE @ \cup {v}]
    BY <1>1
  <2> QED
    BY <2>1, <2>2 DEF Workers
<1>5. wk' \in [Kinds -> Workers]
  BY <1>1, <1>4
<1>6. RequestsTyped'
  BY <1>2, <1>3, <1>4, <1>5 DEF RequestsTyped
<1>7. CopiesTrue'
  <2>1. ASSUME NEW j \in Kinds, wk'[j].pc # "idle", wk'[j].stale = FALSE
        PROVE  wk'[j].obj.status = obj'[j].status
    <3>1. wk[j].stale = FALSE
      BY <1>4, <2>1
    <3> QED
      BY <1>2, <1>4, <2>1, <3>1 DEF CopiesTrue
  <2> QED
    BY <1>2, <1>4, <2>1 DEF CopiesTrue
<1>8. AnswersTrue'
  BY <1>2, <1>3, <1>4 DEF AnswersTrue, Type
<1>9. CheckTellsTruth'
  <2>1. Type' = Type /\ "check" \in Kinds
    BY <1>2, <1>3 DEF Type
  <2> QED
    BY <1>4, <2>1 DEF CheckTellsTruth
<1> QED
  BY <1>6, <1>7, <1>8, <1>9

LEMMA StartOverKeeps == RequestsInv /\ StartOver => RequestsInv'
<1> SUFFICES ASSUME RequestsInv, StartOver PROVE RequestsInv'
  OBVIOUS
<1> USE DEF RequestsInv
<1>1. UNCHANGED <<world, tokens, remote, obj, expired>> /\ cache' = obj /\ Kinds = {"file", "check"}
  BY DEF StartOver, scene, Kinds
<1>2. wk' \in [Kinds -> Workers] /\ \A k \in Kinds : wk'[k] = IdleWorker
  BY InitialTypes DEF StartOver
<1>3. timer' \in [Kinds -> BOOLEAN] /\ lag' \in [Kinds -> BOOLEAN] /\ queued' \in [Kinds -> BOOLEAN]
  BY DEF StartOver
<1>4. RequestsTyped'
  BY <1>1, <1>2, <1>3, InitialTypes DEF RequestsTyped
<1>5. CopiesTrue'
  BY <1>1, <1>2, InitialTypes DEF CopiesTrue
<1>6. AnswersTrue' /\ CheckTellsTruth'
  BY <1>1, <1>2, InitialTypes DEF AnswersTrue, CheckTellsTruth
<1> QED
  BY <1>4, <1>5, <1>6

-----------------------------------------------------------------------------
(* The theorems.                                                              *)

LEMMA RequestsNext == RequestsInv /\ [Next]_vars => RequestsInv'
<1> SUFFICES ASSUME RequestsInv, [Next]_vars PROVE RequestsInv'
  OBVIOUS
<1>1. "file" \in Kinds /\ "check" \in Kinds
  BY DEF Kinds
<1>2. ASSUME NEW k \in Kinds, Lookups(k) PROVE RequestsInv'
  BY <1>2, LookupTokensKeeps, TokenDataKeeps, LookupSecretsKeeps DEF Lookups
<1>3. CASE FileSteps
  BY <1>1, <1>2, <1>3, GetKeeps, DropOldFinalizerKeeps, NothingToDoKeeps, CleanupKeeps, FileProviderKeeps,
     DownloadKeeps, UpdateStatusKeeps
  DEF FileSteps, DownloadGitHub, DownloadGitLab
<1>4. CASE CheckSteps
  BY <1>1, <1>2, <1>4, GetKeeps, CleanupKeeps, CheckProviderKeeps, CheckPublicKeeps, CheckPrivateKeeps,
     CheckQuayKeeps, UpdateStatusKeeps, StartOverKeeps
  DEF CheckSteps, CheckGitHub, CheckGitLab, LookupPanics
<1>5. CASE \E k \in Kinds : Deliver(k) \/ TimerFires(k) \/ Expire(k) \/ DeleteObject(k)
  BY <1>5, DeliverKeeps, TimersKeep, DeleteObjectKeeps
<1>6. CASE ChangeVisibility \/ StoreData \/ (\E t \in Tokens : TokenSettles(t)) \/ Restart
  BY <1>6, ChangeVisibilityKeeps, TokensKeep, StartOverKeeps DEF Restart
<1>7. CASE UNCHANGED vars
  <2>1. UNCHANGED <<world, tokens, remote, obj, cache, lag, queued, timer, expired, wk>>
    BY <1>7 DEF vars, scene, objectVars
  <2>2. /\ tokens' \in [Tokens -> TokenSet] /\ queued' \in [Kinds -> BOOLEAN] /\ timer' \in [Kinds -> BOOLEAN]
        /\ expired' \in [Kinds -> BOOLEAN]
    BY <2>1 DEF RequestsInv, RequestsTyped
  <2> QED
    BY <2>1, <2>2, AsideStep
<1> QED
  BY <1>3, <1>4, <1>5, <1>6, <1>7 DEF Next

LEMMA RequestsInvHolds == Spec => []RequestsInv
  BY InitRequests, RequestsNext, PTL DEF Spec

\* Every variable of the two controllers keeps its type; in particular a worker
\* that reads the data of a token has found one.
THEOREM RequestsTypes == Spec => []TypeOK
<1>1. RequestsInv => TypeOK
  <2> SUFFICES ASSUME RequestsInv PROVE TypeOK
    OBVIOUS
  <2>1. tokens \in [Tokens -> [data : Credentials \cup {None}, meta : Credentials \cup {None}]]
    BY DEF RequestsInv, RequestsTyped, TokenSet
  <2>2. ASSUME NEW k \in Kinds
        PROVE  /\ {obj[k], cache[k]} \subseteq
                    [st : {None, "live", "deleting", "gone"}, fin : BOOLEAN, perms : PermissionSets
                       \cup {NoObject.perms}, status : Statuses]
               /\ {lag[k], queued[k], timer[k], expired[k], wk[k].stale, wk[k].again} \subseteq BOOLEAN
               /\ wk[k].pc \in {"idle", "got", "public", "lookup", "data", "secrets", "probe", "update"}
               /\ wk[k].res \in Statuses /\ (wk[k].pc = "data" => wk[k].tok \in Tokens)
    <3>1. obj[k] \in ObjectSet /\ cache[k] \in ObjectSet /\ wk[k] \in Workers
      BY DEF RequestsInv, RequestsTyped
    <3>2. lag[k] \in BOOLEAN /\ queued[k] \in BOOLEAN /\ timer[k] \in BOOLEAN /\ expired[k] \in BOOLEAN
      BY DEF RequestsInv, RequestsTyped
    <3>3. wk[k].stale \in BOOLEAN /\ wk[k].again \in BOOLEAN /\ wk[k].pc \in Stages /\ wk[k].res \in Statuses
      BY <3>1 DEF Workers
    <3> QED
      BY <3>1, <3>2, <3>3 DEF RequestsInv, RequestsTyped, ObjectSet, Stages
  <2> QED
    BY <2>1, <2>2 DEF TypeOK
<1> QED
  BY <1>1, RequestsInvHolds, PTL

\* CheckRepositoryAccess of GitHub, GitLab and Quay: what a check reports was so
\* at some time since it began, for any tokens, secrets, providers and changes; if
\* the provider could not be determined it repeats the earlier verdict and says so,
\* and the robot tokens of Quay are trusted.
THEOREM ChecksTellTheTruth == Spec => []CheckTellsTruth
<1>1. RequestsInv => CheckTellsTruth
  BY DEF RequestsInv
<1> QED
  BY <1>1, RequestsInvHolds, PTL

\* Reconcile of SPIFileContentRequest with an old copy never takes a delivered
\* file back: the conflict check of Status().Update is enough.
THEOREM DeliveredForGood == Spec => DeliveredStays
<1> DEFINE Stays == obj["file"].status.phase = "Delivered" => obj'["file"].status.phase = "Delivered"
<1>1. RequestsInv /\ [Next]_vars => Stays
  <2> SUFFICES ASSUME RequestsInv, [Next]_vars, obj["file"].status.phase = "Delivered"
               PROVE  obj'["file"].status.phase = "Delivered"
    OBVIOUS
  <2>1. /\ Kinds = {"file", "check"} /\ obj \in [Kinds -> ObjectSet] /\ wk["file"] \in Workers
        /\ obj["file"] \in ObjectSet
    BY DEF Kinds, RequestsInv, RequestsTyped
  <2>2. CASE obj'["file"] = obj["file"]
    BY <2>2
  <2>3. ASSUME NEW new, obj' = [obj EXCEPT !["check"] = new] PROVE obj'["file"] = obj["file"]
    BY <2>1, <2>3
  <2>4. ASSUME NEW new, obj' = [obj EXCEPT !["file"] = new] PROVE obj'["file"] = new
    BY <2>1, <2>4
  <2>5. CASE DropOldFinalizer("file")
    <3> DEFINE new == [obj["file"] EXCEPT !.fin = FALSE, !.st = IF @ = "deleting" THEN "gone" ELSE @]
    <3>1. new.status = obj["file"].status
      BY <2>1 DEF ObjectSet
    <3>2. obj' = obj \/ obj' = [obj EXCEPT !["file"] = new]
      BY <2>5 DEF DropOldFinalizer, Write
    <3> HIDE DEF new
    <3> QED
      BY <2>4, <3>1, <3>2
  <2>6. CASE Cleanup("file")
    <3> DEFINE new == [obj["file"] EXCEPT !.st = "gone"]
    <3>1. new.status = obj["file"].status
      BY <2>1 DEF ObjectSet
    <3>2. obj' = obj \/ obj' = [obj EXCEPT !["file"] = new]
      BY <2>6 DEF Cleanup, Write
    <3> HIDE DEF new
    <3> QED
      BY <2>4, <3>1, <3>2
  <2>7. CASE UpdateStatus("file")
    <3>1. CASE obj' = obj
      BY <3>1
    <3>2. CASE ~wk["file"].stale
      <4>1. wk["file"].stale = FALSE /\ wk["file"].pc = "update"
        BY <2>1, <2>7, <3>2 DEF UpdateStatus, Workers
      <4>2. wk["file"].obj.status = obj["file"].status /\ wk["file"].obj.status.phase # "Delivered"
        BY <2>1, <4>1 DEF RequestsInv, CopiesTrue
      <4> QED
        BY <4>2
    <3> QED
      BY <2>7, <3>1, <3>2 DEF UpdateStatus
  <2>8. CASE DeleteObject("file")
    <3> DEFINE new == [obj["file"] EXCEPT !.st = IF obj["file"].fin THEN "deleting" ELSE "gone"]
    <3>1. new.status = obj["file"].status
      BY <2>1 DEF ObjectSet
    <3>2. obj' = [obj EXCEPT !["file"] = new]
      BY <2>8 DEF DeleteObject, Write
    <3> HIDE DEF new
    <3> QED
      BY <2>4, <3>1, <3>2
  <2>9. CASE \/ Get("file") \/ NothingToDo \/ FileProvider \/ Lookups("file") \/ DownloadGitHub
             \/ DownloadGitLab
    BY <2>9 DEF Get, NothingToDo, FileProvider, Lookups, LookupTokens, TokenData, LookupSecrets,
                DownloadGitHub, DownloadGitLab, Download, Quietly, objectVars
  <2>10. CASE Cleanup("check") \/ UpdateStatus("check") \/ DeleteObject("check")
    BY <2>2, <2>3, <2>10 DEF Cleanup, UpdateStatus, DeleteObject, Write
  <2>11. CASE \/ Get("check") \/ CheckProvider \/ CheckGitHub \/ CheckGitLab \/ Lookups("check")
              \/ LookupPanics \/ CheckQuay
    BY <2>11 DEF Get, CheckProvider, CheckGitHub, CheckGitLab, CheckPublic, CheckPrivate, Lookups,
                 LookupTokens, TokenData, LookupSecrets, LookupPanics, StartOver, CheckQuay, Quietly, objectVars
  <2>12. CASE \E k \in Kinds : Deliver(k) \/ TimerFires(k) \/ Expire(k)
    BY <2>12 DEF Deliver, TimerFires, Expire
  <2>13. CASE ChangeVisibility \/ StoreData \/ (\E t \in Tokens : TokenSettles(t)) \/ Restart
    BY <2>13 DEF ChangeVisibility, StoreData, TokenSettles, Restart, StartOver, objectVars
  <2>14. CASE UNCHANGED vars
    BY <2>14 DEF vars, objectVars
  <2>15. CASE \E k \in Kinds : DeleteObject(k)
    BY <2>1, <2>8, <2>10, <2>15
  <2> QED
    BY <2>5, <2>6, <2>7, <2>9, <2>10, <2>11, <2>12, <2>13, <2>14, <2>15 DEF Next, FileSteps, CheckSteps
<1>2. RequestsInv /\ [Next]_vars => [Stays]_vars
  BY <1>1
<1> QED
  BY <1>2, RequestsInvHolds, PTL DEF Spec, DeliveredStays
=============================================================================
