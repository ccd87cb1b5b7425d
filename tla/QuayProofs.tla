----------------------------- MODULE QuayProofs -----------------------------
(*****************************************************************************)
(* The metadata of a Quay token, for any repositories, changes of rights,    *)
(* TTL and bounds: every variable keeps its type, no scope older than the    *)
(* TTL gets into a Secret, records are only replaced by newer ones, and the  *)
(* probe for writing leaves descriptions that need no escaping alone.        *)
(*****************************************************************************)
EXTENDS QuayMetadata, TLAPS

Metas == [st : {None, "set"}, recs : [Entities -> Records]]
Probing == {"org", "repo", "write", "rest", "persist"}
Workers == [pc : {"idle", "data", "sync"} \cup Probing, repo : Repos \cup {None}, copy : Metas,
            current : BOOLEAN, tdata : Credentials \cup {None}, login : Levels, loggedIn : BOOLEAN,
            changed : BOOLEAN, desc : Descriptions \cup {None}, edited : BOOLEAN,
            scopes : SUBSET Scopes, mapped : Secrets]
Budgets == [ops : Nat, faults : Nat]

\* The type invariant made inductive: a worker that probes has what it probes
\* with and for, and has not mapped anything yet.
QuayTyped ==
  /\ now \in Times /\ lag \in BOOLEAN /\ data \in Credentials \cup {None}
  /\ grants \in [Credentials -> [Entities -> Levels]]
  /\ desc \in [Entities \ {"org"} -> Descriptions]
  /\ meta \in Metas /\ cached \in Metas /\ w \in Workers /\ budget \in Budgets
  /\ recent \subseteq Credentials /\ heldAt \in [Entities -> [Scopes -> Times]]
  /\ w.pc \in Probing => w.repo \in Entities \ {"org"} /\ w.tdata \in recent
  /\ w.pc \in Probing \cup {"data"} => w.mapped.repo = w.repo /\ w.repo \in Repos /\ w.mapped.scopes = {}
  /\ w.pc = "data" => w.login = None
  /\ w.pc = "write" => w.desc # None
  /\ w.pc = "sync" => w.mapped.scopes = {} \/ w.mapped.repo \in Entities

\* The history is up to date after every step.
HistoryTrue ==
  /\ data # None => data \in recent
  /\ \A e \in Entities, s \in Scopes : heldAt[e][s] <= now
  /\ \A c \in recent, e \in Entities : \A s \in Held(c, e) : heldAt[e][s] = now

\* A record, wherever it is kept, has only scopes that a stored credential had
\* when the record was made, or later.
RecordsTrue ==
  \A m \in {meta, cached, w.copy} : \A e \in Entities :
    m.recs[e].st = "set" => /\ m.recs[e].at <= now
                            /\ \A s \in m.recs[e].scopes : heldAt[e][s] >= m.recs[e].at

\* What the worker has found out so far held when the clock last ticked or later,
\* since requests take no time: the scopes probed for, the login of a robot, and
\* the validity of the records it will map.
ProbesTrue ==
  /\ w.pc \in {"write", "rest"} => w.tdata = "oauth" /\ \A s \in w.scopes : heldAt[w.repo][s] = now
  /\ w.pc \in Probing /\ w.tdata = "robot" => \A s \in RobotScopes(w.login) : heldAt[w.repo][s] = now
  /\ w.pc \in Probing \ {"org"} => Valid("org")
  /\ w.pc = "persist" => Valid(w.repo)

\* A copy that would be written without a conflict differs from the token only in
\* records made since the clock last ticked.
CopyCurrent ==
  /\ ~lag => cached = meta
  /\ w.current => /\ w.pc \in Probing \cup {"data"}
                  /\ \A e \in Entities : w.copy.recs[e] # meta.recs[e]
                       => w.copy.recs[e].st = "set" /\ w.copy.recs[e].at = now

\* The description that is to be sent back is the current one.
DescriptionKnown == w.pc = "write" /\ ~w.edited => w.desc = desc[w.repo]

QuayInv ==
  /\ QuayTyped /\ HistoryTrue /\ RecordsTrue /\ ProbesTrue /\ CopyCurrent /\ DescriptionKnown
  /\ ScopesFresh

-----------------------------------------------------------------------------
(* The history and the types of small things.                                *)

LEMMA TtlTypes == Ttl \in Nat /\ MaxTime \in Nat /\ MaxOps \in Nat /\ MaxFaults \in Nat
  BY QuayConstants

LEMMA RobotScopesType == \A l : RobotScopes(l) \subseteq Scopes
  BY DEF RobotScopes, Scopes

LEMMA HeldType == \A c, e : Held(c, e) \subseteq Scopes
  BY RobotScopesType DEF Held, Scopes

LEMMA RecordTypes ==
  /\ NoRecord \in Records /\ NoMeta \in Metas /\ Idle \in Workers /\ NoSecret \in Secrets
  /\ \A e \in Entities : NoMeta.recs[e].st = None
<1>1. 0 \in Times
  BY TtlTypes DEF Times
<1>2. NoRecord \in Records
  BY <1>1 DEF NoRecord, Records
<1>3. [e \in Entities |-> NoRecord] \in [Entities -> Records]
  BY <1>2
<1>4. NoMeta \in Metas /\ \A e \in Entities : NoMeta.recs[e].st = None
  BY <1>3 DEF NoMeta, Metas, NoRecord
<1>5. NoSecret \in Secrets
  BY DEF NoSecret, Secrets
<1>6. Idle \in Workers
  BY <1>4, <1>5 DEF Idle, Workers, Levels
<1> QED
  BY <1>2, <1>4, <1>5, <1>6

LEMMA BudgetSteps ==
  ASSUME budget \in Budgets
  PROVE  (Fault \/ NoFault \/ UserActs) => budget' \in Budgets
<1>1. CASE Fault
  BY <1>1 DEF Fault, Budgets
<1>2. CASE UserActs
  BY <1>2 DEF UserActs, Budgets
<1>3. CASE NoFault
  BY <1>3 DEF NoFault
<1> QED
  BY <1>1, <1>2, <1>3

\* After a step that updates the history it is true again, and nothing in it has
\* become older.
LEMMA HistoryStep ==
  ASSUME QuayTyped, HistoryTrue, HistoryGrows,
         now' \in Times, now' >= now, data' \in Credentials \cup {None}
  PROVE  /\ recent' \subseteq Credentials /\ heldAt' \in [Entities -> [Scopes -> Times]]
         /\ HistoryTrue'
         /\ \A e \in Entities, s \in Scopes : heldAt'[e][s] >= heldAt[e][s]
         /\ now' = now => recent \subseteq recent'
<1>1. now \in Nat /\ now' \in Nat /\ Times \subseteq Nat
  BY TtlTypes DEF QuayTyped, Times
<1>2. recent' \subseteq Credentials /\ (now' = now => recent \subseteq recent')
  BY DEF HistoryGrows, QuayTyped
<1> DEFINE Now(e, s) == \E c \in recent' : s \in Held(c, e)'
<1>3. heldAt' = [e \in Entities |-> [s \in Scopes |-> IF Now(e, s) THEN now' ELSE heldAt[e][s]]]
  BY DEF HistoryGrows
<1>4. \A c \in recent', e \in Entities : \A s \in Held(c, e)' : Now(e, s)
  OBVIOUS
<1>5. \A c, e : Held(c, e)' \subseteq Scopes
  BY RobotScopesType DEF Held, Scopes
<1> HIDE DEF Now
<1>6. \A e \in Entities, s \in Scopes : heldAt[e][s] \in Times /\ heldAt[e][s] <= now
  BY DEF QuayTyped, HistoryTrue
<1>7. \A e \in Entities, s \in Scopes : heldAt'[e][s] = IF Now(e, s) THEN now' ELSE heldAt[e][s]
  BY <1>3
<1>8. heldAt' \in [Entities -> [Scopes -> Times]]
  BY <1>3, <1>6
<1>9. \A e \in Entities, s \in Scopes : heldAt'[e][s] >= heldAt[e][s] /\ heldAt'[e][s] <= now'
  <2> SUFFICES ASSUME NEW e \in Entities, NEW s \in Scopes
               PROVE  heldAt'[e][s] >= heldAt[e][s] /\ heldAt'[e][s] <= now'
    OBVIOUS
  <2>1. heldAt[e][s] \in Nat /\ heldAt[e][s] <= now
    BY <1>1, <1>6
  <2>2. heldAt'[e][s] = now' \/ heldAt'[e][s] = heldAt[e][s]
    BY <1>7
  <2> QED
    BY <1>1, <2>1, <2>2
<1>10. \A c \in recent', e \in Entities : \A s \in Held(c, e)' : heldAt'[e][s] = now'
  BY <1>4, <1>5, <1>7
<1>11. data' # None => data' \in recent'
  BY DEF HistoryGrows
<1>12. HistoryTrue'
  BY <1>9, <1>10, <1>11 DEF HistoryTrue
<1> QED
  BY <1>2, <1>8, <1>9, <1>12

-----------------------------------------------------------------------------
(* Steps of the clock, of users, of the token controller and of the informer. *)

LEMMA InitQuay == Init => QuayInv
<1> SUFFICES ASSUME Init PROVE QuayInv
  OBVIOUS
<1>1. now \in Times /\ 0 \in Times /\ now \in Nat
  BY TtlTypes DEF Init, Times
<1>2. w.pc = "idle" /\ w.current = FALSE /\ w.copy = NoMeta /\ meta = NoMeta /\ cached = NoMeta
  BY DEF Init, Idle
<1>3. \A e \in Entities : heldAt[e] = [s \in Scopes |-> IF s \in Held(data, e) THEN now ELSE 0]
  BY DEF Init
<1>4. heldAt \in [Entities -> [Scopes -> Times]]
  BY <1>1 DEF Init
<1>5. budget \in Budgets
  BY TtlTypes DEF Init, Budgets
<1>6. /\ grants \in [Credentials -> [Entities -> Levels]] /\ desc \in [Entities \ {"org"} -> Descriptions]
      /\ data \in Credentials /\ recent = {data} /\ w \in Workers /\ lag = FALSE
  BY RecordTypes DEF Init, Levels, Descriptions
<1>7. QuayTyped
  BY <1>1, <1>2, <1>4, <1>5, <1>6, RecordTypes DEF QuayTyped, Probing
<1>8. HistoryTrue
  <2>1. \A e \in Entities, s \in Scopes : heldAt[e][s] <= now
    <3> SUFFICES ASSUME NEW e \in Entities, NEW s \in Scopes PROVE heldAt[e][s] <= now
      OBVIOUS
    <3>1. heldAt[e][s] = now \/ heldAt[e][s] = 0
      BY <1>3
    <3> QED
      BY <3>1, <1>1
  <2>2. \A c \in recent, e \in Entities : \A s \in Held(c, e) : heldAt[e][s] = now
    BY <1>3, <1>6, HeldType
  <2> QED
    BY <2>1, <2>2, <1>6 DEF HistoryTrue
<1>9. RecordsTrue
  BY <1>2, RecordTypes DEF RecordsTrue, None
<1>10. ProbesTrue /\ CopyCurrent /\ DescriptionKnown /\ ScopesFresh
  BY <1>2 DEF ProbesTrue, CopyCurrent, DescriptionKnown, ScopesFresh, Probing
<1> QED
  BY <1>7, <1>8, <1>9, <1>10 DEF QuayInv

\* The clock, the rights and the data change: nothing that the token or the
\* worker holds becomes untrue, as a worker that is busy stops the clock.
LEMMA WorldStep ==
  ASSUME QuayInv, HistoryGrows, UNCHANGED <<desc, meta, cached, lag, w>>,
         now' \in Times, now' = now \/ (w.pc = "idle" /\ now' = now + 1),
         data' \in Credentials \cup {None}, grants' \in [Credentials -> [Entities -> Levels]],
         budget' \in Budgets
  PROVE  QuayInv'
<1> USE DEF QuayInv
<1>1. now \in Nat /\ now' \in Nat /\ Times \subseteq Nat /\ now' >= now
  BY TtlTypes DEF QuayTyped, Times
<1>2. /\ recent' \subseteq Credentials /\ heldAt' \in [Entities -> [Scopes -> Times]]
      /\ HistoryTrue'
      /\ \A e \in Entities, s \in Scopes : heldAt'[e][s] >= heldAt[e][s]
      /\ now' = now => recent \subseteq recent'
  BY <1>1, HistoryStep
<1>3. w.pc # "idle" => now' = now
  OBVIOUS
<1>4. QuayTyped'
  BY <1>2, <1>3 DEF QuayTyped, Probing
<1>5. \A e \in Entities, s \in Scopes : heldAt[e][s] \in Nat /\ heldAt'[e][s] \in Nat
  <2> SUFFICES ASSUME NEW e \in Entities, NEW s \in Scopes
               PROVE  heldAt[e][s] \in Times /\ heldAt'[e][s] \in Times
    BY <1>1
  <2> QED
    BY <1>2 DEF QuayTyped
<1>6. \A e \in Entities, s \in Scopes : now' = now /\ heldAt[e][s] = now => heldAt'[e][s] = now'
  <2> SUFFICES ASSUME NEW e \in Entities, NEW s \in Scopes, now' = now, heldAt[e][s] = now
               PROVE  heldAt'[e][s] = now'
    OBVIOUS
  <2>1. heldAt'[e][s] >= heldAt[e][s] /\ heldAt'[e][s] <= now'
    BY <1>2 DEF HistoryTrue
  <2>2. heldAt'[e][s] \in Nat
    BY <1>5
  <2> QED
    BY <1>1, <2>1, <2>2
<1>7. RecordsTrue'
  <2> SUFFICES ASSUME NEW m \in {meta, cached, w.copy}, NEW e \in Entities, m.recs[e].st = "set"
               PROVE  m.recs[e].at <= now' /\ \A s \in m.recs[e].scopes : heldAt'[e][s] >= m.recs[e].at
    BY DEF RecordsTrue
  <2>1. m \in Metas
    BY DEF QuayTyped, Workers
  <2>2. m.recs[e].at \in Nat /\ m.recs[e].scopes \subseteq Scopes
    BY <2>1, <1>1 DEF Metas, Records
  <2>3. m.recs[e].at <= now /\ \A s \in m.recs[e].scopes : heldAt[e][s] >= m.recs[e].at
    BY DEF RecordsTrue
  <2>4. m.recs[e].at <= now'
    <3> HIDE DEF QuayInv
    <3> QED
      BY <2>2, <2>3, <1>1
  <2>5. ASSUME NEW s \in m.recs[e].scopes
        PROVE  heldAt'[e][s] >= m.recs[e].at
    <3> HIDE DEF QuayInv
    <3>1. s \in Scopes
      BY <2>2
    <3>2. heldAt[e][s] \in Nat /\ heldAt'[e][s] \in Nat
      BY <3>1, <1>5
    <3>3. heldAt'[e][s] >= heldAt[e][s]
      BY <3>1, <1>2
    <3>4. heldAt[e][s] >= m.recs[e].at
      BY <2>3
    <3> QED
      BY <2>2, <3>2, <3>3, <3>4
  <2> QED
    BY <2>4, <2>5
<1>8. ProbesTrue'
  <2>1. w.pc \in {"write", "rest"} => \A s \in w.scopes : heldAt'[w.repo][s] = now'
    BY <1>3, <1>6 DEF ProbesTrue, QuayTyped, Workers, Probing
  <2>2. w.pc \in Probing /\ w.tdata = "robot" => \A s \in RobotScopes(w.login) : heldAt'[w.repo][s] = now'
    BY <1>3, <1>6, RobotScopesType DEF ProbesTrue, QuayTyped, Probing
  <2>3. w.pc \in Probing => now' = now
    BY <1>3 DEF Probing
  <2> QED
    BY <2>1, <2>2, <2>3 DEF ProbesTrue, Valid, Probing
<1>9. CopyCurrent'
  BY <1>3 DEF CopyCurrent, Probing
<1>10. DescriptionKnown'
  BY DEF DescriptionKnown
<1>11. ScopesFresh'
  <2> SUFFICES ASSUME w.pc = "sync", NEW s \in w.mapped.scopes
               PROVE  \E e \in {w.mapped.repo, "org"} : now' <= heldAt'[e][s] + Ttl
    BY DEF ScopesFresh
  <2>1. PICK e \in {w.mapped.repo, "org"} : now <= heldAt[e][s] + Ttl
    BY DEF ScopesFresh
  <2>2. e \in Entities /\ s \in Scopes
    BY DEF QuayTyped, Workers, Secrets, Entities
  <2>3. heldAt[e][s] \in Nat /\ heldAt'[e][s] \in Nat /\ heldAt'[e][s] >= heldAt[e][s]
    BY <1>2, <1>5, <2>2
  <2>4. now' = now
    BY <1>3
  <2> QED
    BY <1>1, <2>1, <2>3, <2>4, TtlTypes
<1> QED
  BY <1>2, <1>4, <1>7, <1>8, <1>9, <1>10, <1>11

LEMMA TickKeeps == QuayInv /\ Tick => QuayInv'
<1> SUFFICES ASSUME QuayInv, Tick PROVE QuayInv'
  OBVIOUS
<1>1. now' \in Times /\ now' = now + 1
  BY TtlTypes DEF Tick, QuayInv, QuayTyped, Times
<1>2. HistoryGrows /\ w.pc = "idle" /\ UNCHANGED <<grants, desc, data, meta, cached, lag, w, budget>>
  BY DEF Tick
<1>3. data' \in Credentials \cup {None} /\ grants' \in [Credentials -> [Entities -> Levels]] /\ budget' \in Budgets
  BY <1>2 DEF QuayInv, QuayTyped
<1> QED
  BY <1>1, <1>2, <1>3, WorldStep

LEMMA ChangeGrantKeeps == QuayInv /\ ChangeGrant => QuayInv'
<1> SUFFICES ASSUME QuayInv, ChangeGrant PROVE QuayInv'
  OBVIOUS
<1>1. HistoryGrows /\ UNCHANGED <<now, desc, data, meta, cached, lag, w>>
  BY DEF ChangeGrant
<1>2. grants' \in [Credentials -> [Entities -> Levels]]
  <2>1. PICK c \in Credentials, e \in Entities, l \in Changes : grants' = [grants EXCEPT ![c][e] = l]
    BY DEF ChangeGrant
  <2>2. l \in Levels
    BY QuayConstants
  <2> QED
    BY <2>1, <2>2 DEF QuayInv, QuayTyped
<1>3. data' \in Credentials \cup {None} /\ now' \in Times /\ budget' \in Budgets
  BY <1>1, BudgetSteps DEF QuayInv, QuayTyped, ChangeGrant
<1> QED
  BY <1>1, <1>2, <1>3, WorldStep

LEMMA ReplaceDataKeeps == QuayInv /\ ReplaceData => QuayInv'
<1> SUFFICES ASSUME QuayInv, ReplaceData PROVE QuayInv'
  OBVIOUS
<1>1. HistoryGrows /\ UNCHANGED <<now, grants, desc, meta, cached, lag, w>>
  BY DEF ReplaceData
<1>2. data' \in Credentials \cup {None}
  BY DEF ReplaceData
<1>3. grants' \in [Credentials -> [Entities -> Levels]] /\ now' \in Times /\ budget' \in Budgets
  BY <1>1, BudgetSteps DEF QuayInv, QuayTyped, ReplaceData
<1> QED
  BY <1>1, <1>2, <1>3, WorldStep

\* The history does not change while the world stands still.
LEMMA StillHistory ==
  ASSUME HistoryTrue, UNCHANGED <<now, grants, data, history>>
  PROVE  HistoryTrue'
<1>1. \A c, e : Held(c, e)' = Held(c, e)
  BY DEF Held
<1>2. heldAt' = heldAt /\ recent' = recent
  BY DEF history
<1> QED
  BY <1>1, <1>2 DEF HistoryTrue

LEMMA EditDescriptionKeeps == QuayInv /\ EditDescription => QuayInv'
<1> SUFFICES ASSUME QuayInv, EditDescription PROVE QuayInv'
  OBVIOUS
<1> USE DEF QuayInv
<1>1. PICK r \in DOMAIN desc, d \in Descriptions :
        desc' = [desc EXCEPT ![r] = d] /\ w' = [w EXCEPT !.edited = @ \/ w.repo = r]
  BY DEF EditDescription
<1>2. UNCHANGED <<now, grants, data, meta, cached, lag, recent, heldAt>> /\ budget' \in Budgets
  BY BudgetSteps DEF EditDescription, history, QuayTyped
<1>3. HistoryTrue'
  BY <1>2, StillHistory DEF history
<1>4. w \in Workers
  BY DEF QuayTyped
<1>5. /\ w'.pc = w.pc /\ w'.repo = w.repo /\ w'.copy = w.copy /\ w'.tdata = w.tdata /\ w'.login = w.login
      /\ w'.scopes = w.scopes /\ w'.mapped = w.mapped /\ w'.desc = w.desc /\ w'.current = w.current
  BY <1>1, <1>4 DEF Workers
<1>6. w' \in Workers
  <2>1. (w.edited \/ w.repo = r) \in BOOLEAN
    OBVIOUS
  <2> QED
    BY <1>1, <1>4, <2>1 DEF Workers
<1>7. desc' \in [Entities \ {"org"} -> Descriptions]
  BY <1>1 DEF QuayTyped
<1>8. QuayTyped'
  BY <1>2, <1>5, <1>6, <1>7 DEF QuayTyped
<1>9. RecordsTrue'
  BY <1>2, <1>5 DEF RecordsTrue
<1>10. ProbesTrue'
  BY <1>2, <1>5 DEF ProbesTrue, Valid
<1>11. CopyCurrent'
  BY <1>2, <1>5 DEF CopyCurrent
<1>12. DescriptionKnown'
  <2> SUFFICES ASSUME w.pc = "write", ~w'.edited PROVE w.desc = desc'[w.repo]
    BY <1>5 DEF DescriptionKnown
  <2>1. w'.edited = (w.edited \/ w.repo = r)
    BY <1>1, <1>4 DEF Workers
  <2>2. ~w.edited /\ w.repo # r
    BY <2>1
  <2>3. w.desc = desc[w.repo]
    BY <2>2 DEF DescriptionKnown
  <2>4. w.repo \in Entities \ {"org"}
    BY DEF QuayTyped, Probing
  <2> QED
    BY <1>1, <2>2, <2>3, <2>4 DEF QuayTyped
<1>13. ScopesFresh'
  BY <1>2, <1>5 DEF ScopesFresh
<1> QED
  BY <1>3, <1>8, <1>9, <1>10, <1>11, <1>12, <1>13

\* The token controller writes metadata without records: a worker that has a copy
\* of the token will meet a conflict.
LEMMA TokenStep ==
  ASSUME QuayInv, TokenWritten, meta' \in Metas, \A e \in Entities : meta'.recs[e].st = None,
         UNCHANGED <<now, grants, desc, data, cached, history, budget>>
  PROVE  QuayInv'
<1> USE DEF QuayInv
<1>1. w \in Workers /\ w' = [w EXCEPT !.current = FALSE] /\ lag' = TRUE /\ recent' = recent /\ heldAt' = heldAt
  BY DEF QuayTyped, TokenWritten, history
<1>2. /\ w'.pc = w.pc /\ w'.repo = w.repo /\ w'.copy = w.copy /\ w'.tdata = w.tdata /\ w'.login = w.login
      /\ w'.scopes = w.scopes /\ w'.mapped = w.mapped /\ w'.desc = w.desc /\ w'.edited = w.edited
      /\ w'.current = FALSE /\ w' \in Workers
  BY <1>1 DEF Workers
<1>3. HistoryTrue'
  BY StillHistory
<1>4. QuayTyped'
  BY <1>1, <1>2 DEF QuayTyped
<1>5. RecordsTrue'
  BY <1>1, <1>2 DEF RecordsTrue, None
<1>6. ProbesTrue'
  BY <1>1, <1>2 DEF ProbesTrue, Valid
<1>7. CopyCurrent' /\ ScopesFresh'
  BY <1>1, <1>2 DEF CopyCurrent, ScopesFresh
<1>8. DescriptionKnown'
  BY <1>1, <1>2 DEF DescriptionKnown
<1> QED
  BY <1>3, <1>4, <1>5, <1>6, <1>7, <1>8

LEMMA EnsureKeeps == QuayInv /\ Ensure => QuayInv'
<1> SUFFICES ASSUME QuayInv, Ensure PROVE QuayInv'
  OBVIOUS
<1>1. meta' = [NoMeta EXCEPT !.st = "set"]
  BY DEF Ensure
<1>2. meta' \in Metas /\ \A e \in Entities : meta'.recs[e].st = None
  BY <1>1, RecordTypes DEF Metas
<1> QED
  BY <1>2, TokenStep DEF Ensure

LEMMA ClearMetadataKeeps == QuayInv /\ ClearMetadata => QuayInv'
  BY RecordTypes, TokenStep DEF ClearMetadata

LEMMA WatchKeeps == QuayInv /\ Watch => QuayInv'
<1> SUFFICES ASSUME QuayInv, Watch PROVE QuayInv'
  OBVIOUS
<1> USE DEF QuayInv
<1>1. /\ UNCHANGED <<now, grants, desc, data, meta, w, recent, heldAt, budget>>
      /\ cached' = meta /\ lag' = FALSE
  BY DEF Watch, history
<1>2. HistoryTrue'
  BY <1>1, StillHistory DEF history
<1>3. QuayTyped'
  BY <1>1 DEF QuayTyped
<1>4. RecordsTrue'
  BY <1>1 DEF RecordsTrue
<1>5. ProbesTrue' /\ DescriptionKnown' /\ ScopesFresh'
  BY <1>1 DEF ProbesTrue, Valid, DescriptionKnown, ScopesFresh
<1>6. CopyCurrent'
  BY <1>1 DEF CopyCurrent
<1> QED
  BY <1>2, <1>3, <1>4, <1>5, <1>6

-----------------------------------------------------------------------------
(* Steps of the worker.                                                       *)

\* Begin takes a copy of the token out of the cache.
LEMMA BeginKeeps == QuayInv /\ Begin => QuayInv'
<1> SUFFICES ASSUME QuayInv, Begin PROVE QuayInv'
  OBVIOUS
<1> USE DEF QuayInv
<1>1. PICK r \in Repos :
        w' = [Idle EXCEPT !.pc = "data", !.repo = r, !.copy = cached, !.current = ~lag,
                          !.mapped = [repo |-> r, cred |-> data, scopes |-> {}]]
  BY DEF Begin
<1>2. UNCHANGED <<now, grants, data, cached, recent, heldAt, meta, desc, lag, budget>> /\ data # None
  BY DEF Begin, Quiet, NoFault, history
<1>3. /\ w'.pc = "data" /\ w'.repo = r /\ w'.copy = cached /\ w'.current = ~lag /\ w'.mapped.repo = r
      /\ w'.mapped.scopes = {} /\ w'.login = None
  BY <1>1 DEF Idle
<1>4. w' \in Workers
  <2>1. [repo |-> r, cred |-> data, scopes |-> {}] \in Secrets
    BY DEF QuayTyped, Secrets
  <2>2. (~lag) \in BOOLEAN /\ cached \in Metas
    BY DEF QuayTyped
  <2> QED
    BY <1>1, <2>1, <2>2, RecordTypes DEF Workers
<1>5. QuayTyped'
  BY <1>2, <1>3, <1>4 DEF QuayTyped, Probing
<1>6. HistoryTrue'
  BY <1>2, StillHistory DEF history
<1>7. RecordsTrue'
  BY <1>2, <1>3 DEF RecordsTrue
<1>8. ProbesTrue' /\ DescriptionKnown' /\ ScopesFresh'
  BY <1>3 DEF ProbesTrue, DescriptionKnown, ScopesFresh, Probing
<1>9. CopyCurrent'
  BY <1>2, <1>3 DEF CopyCurrent, Probing
<1> QED
  BY <1>5, <1>6, <1>7, <1>8, <1>9

\* The fetch ends, with scopes that are fresh; on the way the copy may have been
\* written to the token.
LEMMA MapsStep ==
  ASSUME QuayInv, Quiet, NEW m \in Secrets, w' = [Idle EXCEPT !.pc = "sync", !.mapped = m],
         m.scopes = {} \/ m.repo \in Entities,
         \A s \in m.scopes : \E e \in {m.repo, "org"} : now <= heldAt[e][s] + Ttl,
         desc' \in [Entities \ {"org"} -> Descriptions], budget' \in Budgets,
         (meta' = meta /\ lag' = lag) \/ (meta' = w.copy /\ lag' = TRUE)
  PROVE  QuayInv'
<1> USE DEF QuayInv
<1>1. w'.pc = "sync" /\ w'.mapped = m /\ w'.current = FALSE /\ w'.copy = NoMeta
  BY DEF Idle
<1>2. UNCHANGED <<now, grants, data, cached, recent, heldAt>>
  BY DEF Quiet, history
<1>3. w' \in Workers
  BY RecordTypes DEF Workers
<1>4. meta' \in Metas
  BY DEF QuayTyped, Workers
<1>5. lag' \in BOOLEAN
  BY DEF QuayTyped
<1>6. QuayTyped'
  BY <1>1, <1>2, <1>3, <1>4, <1>5 DEF QuayTyped, Probing
<1>7. HistoryTrue'
  BY <1>2, StillHistory DEF history
<1>8. RecordsTrue'
  BY <1>1, <1>2, RecordTypes DEF RecordsTrue, None
<1>9. ProbesTrue' /\ DescriptionKnown'
  BY <1>1 DEF ProbesTrue, DescriptionKnown, Probing
<1>10. CopyCurrent'
  BY <1>1, <1>2 DEF CopyCurrent
<1>11. ScopesFresh'
  BY <1>1, <1>2 DEF ScopesFresh
<1> QED
  BY <1>6, <1>7, <1>8, <1>9, <1>10, <1>11

LEMMA FailsStep ==
  ASSUME QuayInv, Quiet, FetchFails, UNCHANGED <<meta, desc, lag>>, budget' \in Budgets
  PROVE  QuayInv'
<1> DEFINE m == [NoSecret EXCEPT !.repo = w.repo]
<1>1. m \in Secrets /\ m.scopes = {}
  BY DEF QuayInv, QuayTyped, Workers, NoSecret, Secrets
<1>2. w' = [Idle EXCEPT !.pc = "sync", !.mapped = m]
  BY DEF FetchFails, MapsTo
<1>3. desc' \in [Entities \ {"org"} -> Descriptions]
  BY DEF QuayInv, QuayTyped
<1> HIDE DEF m
<1> QED
  BY <1>1, <1>2, <1>3, MapsStep

\* Between two requests the worker still probes; a record that it has made is of
\* now.
LEMMA ProbingStep ==
  ASSUME QuayInv, Quiet, UNCHANGED <<meta, lag>>, budget' \in Budgets,
         desc' \in [Entities \ {"org"} -> Descriptions],
         w.pc \in Probing \cup {"data"}, w.repo \in Entities \ {"org"},
         w' \in Workers, w'.pc \in Probing, w'.repo = w.repo, w'.mapped = w.mapped,
         w'.current = w.current, w'.tdata \in recent, w'.pc = "write" => w'.desc # None,
         \A e \in Entities :
           \/ w'.copy.recs[e] = w.copy.recs[e]
           \/ /\ w'.copy.recs[e].st = "set" /\ w'.copy.recs[e].at = now
              /\ \A s \in w'.copy.recs[e].scopes : heldAt[e][s] = now,
         ProbesTrue', DescriptionKnown'
  PROVE  QuayInv'
<1> USE DEF QuayInv
<1>1. UNCHANGED <<now, grants, data, cached, recent, heldAt>>
  BY DEF Quiet, history
<1>2. now \in Nat
  BY TtlTypes DEF QuayTyped, Times
<1>3. QuayTyped'
  BY <1>1 DEF QuayTyped, Probing
<1>4. HistoryTrue'
  BY <1>1, StillHistory DEF history
<1>5. RecordsTrue'
  <2> SUFFICES ASSUME NEW e \in Entities, w'.copy.recs[e].st = "set"
               PROVE  /\ w'.copy.recs[e].at <= now
                      /\ \A s \in w'.copy.recs[e].scopes : heldAt[e][s] >= w'.copy.recs[e].at
    BY <1>1 DEF RecordsTrue
  <2>1. CASE w'.copy.recs[e] = w.copy.recs[e]
    BY <2>1 DEF RecordsTrue
  <2>2. CASE w'.copy.recs[e] # w.copy.recs[e]
    BY <2>2, <1>2
  <2> QED
    BY <2>1, <2>2
<1>6. CopyCurrent'
  BY <1>1 DEF CopyCurrent
<1>7. ScopesFresh'
  BY DEF ScopesFresh, Probing
<1> QED
  BY <1>3, <1>4, <1>5, <1>6, <1>7

\* The login of a robot shows what the robot may do now.
LEMMA LoggedInFacts ==
  ASSUME QuayInv, w.pc \in Probing
  PROVE  LET in == LoggedIn(w) IN
         /\ in \in Workers /\ in.pc = w.pc /\ in.repo = w.repo /\ in.copy = w.copy /\ in.current = w.current
         /\ in.tdata = w.tdata /\ in.mapped = w.mapped /\ in.desc = w.desc /\ in.edited = w.edited
         /\ in.scopes = w.scopes
         /\ w.tdata = "robot" => \A s \in RobotScopes(in.login) : heldAt[w.repo][s] = now
<1> USE DEF QuayInv
<1>1. w \in Workers /\ w.tdata \in recent /\ w.repo \in Entities \ {"org"} /\ recent \subseteq Credentials
  BY DEF QuayTyped
<1>2. CASE w.loggedIn
  BY <1>1, <1>2 DEF LoggedIn, ProbesTrue
<1>3. CASE ~w.loggedIn
  <2> DEFINE l == DockerLogin(w)
  <2>1. l \in Levels
    BY <1>1 DEF DockerLogin, QuayTyped
  <2>2. LoggedIn(w) = [w EXCEPT !.login = l, !.loggedIn = l # None]
    BY <1>3 DEF LoggedIn
  <2>3. w.tdata = "robot" => RobotScopes(l) = Held("robot", w.repo)
    BY <1>1 DEF Held, DockerLogin
  <2>4. w.tdata = "robot" => \A s \in RobotScopes(l) : heldAt[w.repo][s] = now
    BY <1>1, <2>3 DEF HistoryTrue
  <2>5. (l # None) \in BOOLEAN
    OBVIOUS
  <2> HIDE DEF l
  <2> QED
    BY <1>1, <2>1, <2>2, <2>4, <2>5 DEF Workers
<1> QED
  BY <1>2, <1>3

\* A new record in the copy of a worker.
LEMMA RecordedFacts ==
  ASSUME QuayInv, NEW in \in Workers, in.copy = w.copy, NEW e \in Entities, NEW S \in SUBSET Scopes,
         \A s \in S : heldAt[e][s] = now, NEW pc \in Probing,
         w' = [Recorded(in, e, S) EXCEPT !.pc = pc]
  PROVE  /\ w' \in Workers /\ w'.pc = pc /\ w'.repo = in.repo /\ w'.current = in.current
         /\ w'.login = in.login /\ w'.tdata = in.tdata /\ w'.mapped = in.mapped
         /\ w'.copy.recs[e].st = "set" /\ w'.copy.recs[e].at = now
         /\ \A s \in w'.copy.recs[e].scopes : heldAt[e][s] = now
         /\ \A f \in Entities \ {e} : w'.copy.recs[f] = w.copy.recs[f]
<1> DEFINE rec == [st |-> "set", at |-> now, scopes |-> S]
           copy == [in.copy EXCEPT !.recs[e] = rec]
<1>1. rec \in Records /\ rec.st = "set" /\ rec.at = now /\ rec.scopes = S
  BY DEF Records, QuayInv, QuayTyped
<1> HIDE DEF rec
<1>2. in.copy \in Metas
  BY DEF Workers
<1>3. /\ copy \in Metas /\ copy.recs[e] = rec
      /\ \A f \in Entities \ {e} : copy.recs[f] = in.copy.recs[f]
  BY <1>1, <1>2 DEF Metas
<1>4. w' = [in EXCEPT !.copy = copy, !.changed = TRUE, !.pc = pc]
  BY DEF Recorded, Workers, rec
<1> HIDE DEF copy
<1>5. w' \in Workers
  BY <1>3, <1>4 DEF Workers
<1>6. /\ w'.pc = pc /\ w'.repo = in.repo /\ w'.current = in.current /\ w'.login = in.login
      /\ w'.tdata = in.tdata /\ w'.mapped = in.mapped /\ w'.copy = copy
  BY <1>4 DEF Workers
<1> QED
  BY <1>1, <1>3, <1>5, <1>6

LEMMA FetchDataKeeps == QuayInv /\ FetchData => QuayInv'
<1> SUFFICES ASSUME QuayInv, FetchData PROVE QuayInv'
  OBVIOUS
<1> USE DEF QuayInv
<1>1. Quiet /\ UNCHANGED <<meta, desc, lag>> /\ budget' \in Budgets /\ w \in Workers
  BY BudgetSteps DEF FetchData, QuayTyped
<1>2. desc' \in [Entities \ {"org"} -> Descriptions]
  BY <1>1 DEF QuayTyped
<1>3. CASE FetchFails
  BY <1>1, <1>3, FailsStep
<1>4. CASE MapsTo(w.mapped)
  <2>1. w.mapped \in Secrets /\ w.mapped.scopes = {}
    BY <1>1 DEF Workers, QuayTyped, FetchData
  <2>2. w' = [Idle EXCEPT !.pc = "sync", !.mapped = w.mapped]
    BY <1>4 DEF MapsTo
  <2> QED
    BY <1>1, <1>2, <2>1, <2>2, MapsStep
<1>5. CASE data # None /\ w.repo \notin BadRepos /\ w' = [w EXCEPT !.pc = "org", !.tdata = data]
  <2>1. data \in recent /\ data \in Credentials
    BY <1>5 DEF HistoryTrue, QuayTyped
  <2>2. w.repo \in Entities \ {"org"} /\ w.pc = "data"
    BY <1>5, QuayConstants DEF QuayTyped, FetchData, Entities
  <2>3. /\ w' \in Workers /\ w'.pc = "org" /\ w'.repo = w.repo /\ w'.mapped = w.mapped /\ w'.copy = w.copy
        /\ w'.current = w.current /\ w'.tdata = data /\ w'.login = w.login
    BY <1>1, <1>5, <2>1 DEF Workers, Probing
  <2>4. w.login = None
    BY <2>2 DEF QuayTyped
  <2>5. RobotScopes(w'.login) = {}
    BY <2>3, <2>4 DEF RobotScopes, AnalyzeLoginToken, Reads, Writes, None
  <2>6. ProbesTrue'
    BY <2>3, <2>5 DEF ProbesTrue, Probing
  <2>7. DescriptionKnown'
    BY <2>3 DEF DescriptionKnown
  <2> QED
    BY <1>1, <1>2, <2>1, <2>2, <2>3, <2>6, <2>7, ProbingStep DEF Probing
<1> QED
  BY <1>3, <1>4, <1>5 DEF FetchData

LEMMA FetchOrganizationKeeps == QuayInv /\ FetchOrganization => QuayInv'
<1> SUFFICES ASSUME QuayInv, FetchOrganization PROVE QuayInv'
  OBVIOUS
<1> USE DEF QuayInv
<1>1. /\ Quiet /\ UNCHANGED <<meta, desc, lag>> /\ budget' \in Budgets /\ w \in Workers /\ w.pc = "org"
      /\ now' = now /\ heldAt' = heldAt
  BY BudgetSteps DEF FetchOrganization, QuayTyped, Quiet, history
<1>2. desc' \in [Entities \ {"org"} -> Descriptions]
  BY <1>1 DEF QuayTyped
<1>3. w.pc \in Probing /\ w.repo \in Entities \ {"org"} /\ w.tdata \in recent /\ "org" \in Entities
  BY <1>1 DEF QuayTyped, Probing, Entities
<1>4. CASE FetchFails
  BY <1>1, <1>4, FailsStep
<1>5. CASE Valid("org") /\ w' = [w EXCEPT !.pc = "repo"]
  <2>1. /\ w' \in Workers /\ w'.pc = "repo" /\ w'.repo = w.repo /\ w'.mapped = w.mapped /\ w'.copy = w.copy
        /\ w'.current = w.current /\ w'.tdata = w.tdata /\ w'.login = w.login
    BY <1>1, <1>5 DEF Workers, Probing
  <2>2. Valid("org")'
    BY <1>1, <1>5, <2>1 DEF Valid
  <2>3. ProbesTrue'
    BY <1>1, <1>3, <2>1, <2>2 DEF ProbesTrue, Probing
  <2>4. DescriptionKnown'
    BY <2>1 DEF DescriptionKnown
  <2> QED
    BY <1>1, <1>2, <1>3, <2>1, <2>3, <2>4, ProbingStep DEF Probing
<1>6. CASE w' = [Recorded(LoggedIn(w), "org", Held(w.tdata, "org")) EXCEPT !.pc = "repo"]
  <2> DEFINE in == LoggedIn(w)
  <2>1. /\ in \in Workers /\ in.pc = w.pc /\ in.repo = w.repo /\ in.copy = w.copy /\ in.current = w.current
        /\ in.tdata = w.tdata /\ in.mapped = w.mapped
        /\ w.tdata = "robot" => \A s \in RobotScopes(in.login) : heldAt[w.repo][s] = now
    BY <1>3, LoggedInFacts
  <2>2. Held(w.tdata, "org") \in SUBSET Scopes /\ \A s \in Held(w.tdata, "org") : heldAt["org"][s] = now
    BY <1>3, HeldType DEF HistoryTrue
  <2> DEFINE S == Held(w.tdata, "org")
  <2>3. /\ w' = [Recorded(in, "org", S) EXCEPT !.pc = "repo"]
        /\ S \in SUBSET Scopes /\ \A s \in S : heldAt["org"][s] = now
    BY <1>6, <2>2
  <2> HIDE DEF in, S
  <2>4. /\ w' \in Workers /\ w'.pc = "repo" /\ w'.repo = in.repo /\ w'.current = in.current
        /\ w'.login = in.login /\ w'.tdata = in.tdata /\ w'.mapped = in.mapped
        /\ w'.copy.recs["org"].st = "set" /\ w'.copy.recs["org"].at = now
        /\ \A s \in w'.copy.recs["org"].scopes : heldAt["org"][s] = now
        /\ \A f \in Entities \ {"org"} : w'.copy.recs[f] = w.copy.recs[f]
    BY <1>3, <2>1, <2>3, RecordedFacts DEF Probing
  <2>5. Valid("org")'
    BY <1>1, <2>4, TtlTypes DEF Valid, QuayTyped, Times
  <2>6. ProbesTrue'
    BY <1>1, <2>1, <2>4, <2>5 DEF ProbesTrue, Probing
  <2>7. DescriptionKnown'
    BY <2>4 DEF DescriptionKnown
  <2> QED
    BY <1>1, <1>2, <1>3, <2>1, <2>4, <2>6, <2>7, ProbingStep DEF Probing
<1> QED
  BY <1>4, <1>5, <1>6 DEF FetchOrganization

LEMMA FetchRepositoryKeeps == QuayInv /\ FetchRepository => QuayInv'
<1> SUFFICES ASSUME QuayInv, FetchRepository PROVE QuayInv'
  OBVIOUS
<1> USE DEF QuayInv
<1>1. /\ Quiet /\ UNCHANGED <<meta, desc, lag>> /\ budget' \in Budgets /\ w \in Workers /\ w.pc = "repo"
      /\ now' = now /\ heldAt' = heldAt /\ grants' = grants
  BY BudgetSteps DEF FetchRepository, QuayTyped, Quiet, history
<1>2. desc' \in [Entities \ {"org"} -> Descriptions]
  BY <1>1 DEF QuayTyped
<1>3. w.pc \in Probing /\ w.repo \in Entities \ {"org"} /\ w.tdata \in recent /\ Valid("org")
  BY <1>1 DEF QuayTyped, Probing, ProbesTrue
<1> DEFINE in == LoggedIn(w)
           reads == Reads(grants[w.tdata][w.repo])
<1>4. /\ in \in Workers /\ in.pc = w.pc /\ in.repo = w.repo /\ in.copy = w.copy /\ in.current = w.current
      /\ in.tdata = w.tdata /\ in.mapped = w.mapped
      /\ w.tdata = "robot" => \A s \in RobotScopes(in.login) : heldAt[w.repo][s] = now
  BY <1>3, LoggedInFacts
<1>5. CASE FetchFails
  BY <1>1, <1>5, FailsStep
<1>6. CASE Valid(w.repo) /\ w' = [w EXCEPT !.pc = "persist"]
  <2>1. /\ w' \in Workers /\ w'.pc = "persist" /\ w'.repo = w.repo /\ w'.mapped = w.mapped /\ w'.copy = w.copy
        /\ w'.current = w.current /\ w'.tdata = w.tdata /\ w'.login = w.login
    BY <1>1, <1>6 DEF Workers, Probing
  <2>2. Valid("org")' /\ Valid(w.repo)'
    BY <1>1, <1>3, <1>6, <2>1 DEF Valid
  <2>3. ProbesTrue'
    BY <1>1, <1>3, <2>1, <2>2 DEF ProbesTrue, Probing
  <2>4. DescriptionKnown'
    BY <2>1 DEF DescriptionKnown
  <2> QED
    BY <1>1, <1>2, <1>3, <2>1, <2>3, <2>4, ProbingStep DEF Probing
<1>7. CASE w.tdata = "robot" /\ w' = [Recorded(in, w.repo, RobotScopes(in.login)) EXCEPT !.pc = "persist"]
  <2> HIDE DEF in
  <2>1. RobotScopes(in.login) \in SUBSET Scopes
    BY RobotScopesType
  <2>2. /\ w' \in Workers /\ w'.pc = "persist" /\ w'.repo = in.repo /\ w'.current = in.current
        /\ w'.login = in.login /\ w'.tdata = in.tdata /\ w'.mapped = in.mapped
        /\ w'.copy.recs[w.repo].st = "set" /\ w'.copy.recs[w.repo].at = now
        /\ \A s \in w'.copy.recs[w.repo].scopes : heldAt[w.repo][s] = now
        /\ \A f \in Entities \ {w.repo} : w'.copy.recs[f] = w.copy.recs[f]
    BY <1>3, <1>4, <1>7, <2>1, RecordedFacts DEF Probing
  <2>3. Valid("org")' /\ Valid(w.repo)'
    <3>1. now \in Nat
      BY TtlTypes DEF QuayTyped, Times
    <3>2. "org" \in Entities \ {w.repo}
      BY <1>3 DEF Entities
    <3>3. w'.copy.recs["org"] = w.copy.recs["org"]
      BY <2>2, <3>2
    <3>4. Valid("org")'
      BY <1>1, <1>3, <3>3 DEF Valid
    <3>5. Valid(w.repo)'
      BY <1>1, <1>4, <2>2, <3>1, TtlTypes DEF Valid
    <3> QED
      BY <3>4, <3>5
  <2>4. ProbesTrue'
    BY <1>1, <1>4, <2>2, <2>3 DEF ProbesTrue, Probing
  <2>5. DescriptionKnown'
    BY <2>2 DEF DescriptionKnown
  <2> QED
    BY <1>1, <1>2, <1>3, <1>4, <2>2, <2>4, <2>5, ProbingStep DEF Probing
<1>8. CASE /\ w.tdata = "oauth"
           /\ w' = [in EXCEPT !.pc = IF reads THEN "write" ELSE "rest",
                              !.desc = IF reads THEN desc[w.repo] ELSE None,
                              !.edited = FALSE,
                              !.scopes = IF reads THEN {"repo:read", "pull"} ELSE {}]
  <2>1. reads => {"repo:read", "pull"} \subseteq Held("oauth", w.repo)
    BY <1>3, <1>8 DEF Held
  <2>2. \A s \in Held("oauth", w.repo) : heldAt[w.repo][s] = now
    BY <1>3, <1>8 DEF HistoryTrue
  <2>3. desc[w.repo] \in Descriptions
    BY <1>3 DEF QuayTyped
  <2> HIDE DEF in, reads
  <2>4. /\ w' \in Workers /\ w'.repo = w.repo /\ w'.mapped = w.mapped /\ w'.copy = w.copy
        /\ w'.current = w.current /\ w'.tdata = w.tdata
        /\ w'.pc = (IF reads THEN "write" ELSE "rest")
        /\ w'.desc = (IF reads THEN desc[w.repo] ELSE None)
        /\ w'.scopes = (IF reads THEN {"repo:read", "pull"} ELSE {})
    BY <1>4, <1>8, <2>3 DEF Workers, Probing, Scopes
  <2>5. /\ w'.pc \in {"write", "rest"} /\ \A s \in w'.scopes : heldAt[w.repo][s] = now
        /\ w'.pc = "write" => w'.desc # None
    BY <2>1, <2>2, <2>3, <2>4 DEF Descriptions, None
  <2>6. Valid("org")'
    BY <1>1, <1>3, <2>4 DEF Valid
  <2>7. ProbesTrue'
    BY <1>1, <1>8, <2>4, <2>5, <2>6 DEF ProbesTrue, Probing
  <2>8. DescriptionKnown'
    BY <1>1, <2>4 DEF DescriptionKnown
  <2> QED
    BY <1>1, <1>2, <1>3, <2>4, <2>5, <2>7, <2>8, ProbingStep DEF Probing
<1> QED
  BY <1>5, <1>6, <1>7, <1>8 DEF FetchRepository

LEMMA ProbeWriteKeeps == QuayInv /\ ProbeWrite => QuayInv'
<1> SUFFICES ASSUME QuayInv, ProbeWrite PROVE QuayInv'
  OBVIOUS
<1> USE DEF QuayInv
<1>1. /\ Quiet /\ UNCHANGED <<meta, lag>> /\ budget' \in Budgets /\ w \in Workers /\ w.pc = "write"
      /\ now' = now /\ heldAt' = heldAt
  BY BudgetSteps DEF ProbeWrite, QuayTyped, Quiet, history
<1>2. /\ w.pc \in Probing /\ w.repo \in Entities \ {"org"} /\ w.tdata \in recent /\ Valid("org")
      /\ w.tdata = "oauth" /\ \A s \in w.scopes : heldAt[w.repo][s] = now
  BY <1>1 DEF QuayTyped, Probing, ProbesTrue
<1>3. CASE FetchFails /\ UNCHANGED desc
  BY <1>1, <1>3, FailsStep
<1>4. ASSUME NEW more, more \subseteq Held("oauth", w.repo), desc' \in [Entities \ {"org"} -> Descriptions],
             w' = [w EXCEPT !.pc = "rest", !.scopes = @ \cup more]
      PROVE  QuayInv'
  <2>2. more \subseteq Scopes /\ \A s \in more : heldAt[w.repo][s] = now
    BY <1>2, <1>4, HeldType DEF HistoryTrue
  <2>4. desc' \in [Entities \ {"org"} -> Descriptions]
    BY <1>4
  <2>5. /\ w' \in Workers /\ w'.pc = "rest" /\ w'.repo = w.repo /\ w'.mapped = w.mapped /\ w'.copy = w.copy
        /\ w'.current = w.current /\ w'.tdata = w.tdata /\ w'.scopes = w.scopes \cup more
    BY <1>1, <1>4, <2>2 DEF Workers, Probing
  <2>6. Valid("org")'
    BY <1>1, <1>2, <2>5 DEF Valid
  <2>7. ProbesTrue'
    BY <1>1, <1>2, <2>2, <2>5, <2>6 DEF ProbesTrue, Probing
  <2>8. DescriptionKnown'
    BY <2>5 DEF DescriptionKnown
  <2> QED
    BY <1>1, <1>2, <2>4, <2>5, <2>7, <2>8, ProbingStep DEF Probing
<1>5. ASSUME NEW d \in Understood(w.desc), Writes(grants[w.tdata][w.repo]),
             desc' = [desc EXCEPT ![w.repo] = d],
             w' = [w EXCEPT !.pc = "rest", !.scopes = @ \cup {"repo:write", "push"}]
      PROVE  QuayInv'
  <2>1. {"repo:write", "push"} \subseteq Held("oauth", w.repo)
    BY <1>2, <1>5 DEF Held
  <2>2. w.desc \in Descriptions
    BY <1>1 DEF QuayTyped, Workers
  <2>3. d \in Descriptions
    BY <1>5, <2>2 DEF Understood
  <2>4. desc' \in [Entities \ {"org"} -> Descriptions]
    BY <1>5, <2>3 DEF QuayTyped
  <2> QED
    BY <1>4, <1>5, <2>1, <2>4
<1>6. CASE UNCHANGED desc /\ w' = [w EXCEPT !.pc = "rest"]
  <2>1. w' = [w EXCEPT !.pc = "rest", !.scopes = @ \cup {}]
    BY <1>1, <1>6 DEF Workers
  <2> QED
    BY <1>4, <1>6, <2>1 DEF QuayTyped
<1> QED
  BY <1>3, <1>5, <1>6 DEF ProbeWrite

LEMMA ProbeRestKeeps == QuayInv /\ ProbeRest => QuayInv'
<1> SUFFICES ASSUME QuayInv, ProbeRest PROVE QuayInv'
  OBVIOUS
<1> USE DEF QuayInv
<1>1. /\ Quiet /\ UNCHANGED <<meta, desc, lag>> /\ budget' \in Budgets /\ w \in Workers /\ w.pc = "rest"
      /\ now' = now /\ heldAt' = heldAt
  BY BudgetSteps DEF ProbeRest, QuayTyped, Quiet, history
<1>2. /\ w.pc \in Probing /\ w.repo \in Entities \ {"org"} /\ w.tdata \in recent /\ Valid("org")
      /\ w.tdata = "oauth" /\ \A s \in w.scopes : heldAt[w.repo][s] = now
  BY <1>1 DEF QuayTyped, Probing, ProbesTrue
<1>3. desc' \in [Entities \ {"org"} -> Descriptions]
  BY <1>1 DEF QuayTyped
<1>4. CASE FetchFails
  BY <1>1, <1>4, FailsStep
<1> DEFINE more == {s \in {"repo:admin", "repo:create"} : grants[w.tdata][w.repo] = "admin"}
           S == w.scopes \cup more
<1>5. CASE w' = [Recorded(w, w.repo, S) EXCEPT !.pc = "persist"]
  <2>1. more \subseteq Held("oauth", w.repo)
    BY <1>2 DEF Held
  <2>2. more \subseteq Scopes /\ \A s \in more : heldAt[w.repo][s] = now
    BY <1>2, <2>1, HeldType DEF HistoryTrue
  <2>3. S \in SUBSET Scopes /\ \A s \in S : heldAt[w.repo][s] = now
    BY <1>1, <1>2, <2>2 DEF Workers
  <2> HIDE DEF S
  <2>4. /\ w' \in Workers /\ w'.pc = "persist" /\ w'.repo = w.repo /\ w'.current = w.current
        /\ w'.login = w.login /\ w'.tdata = w.tdata /\ w'.mapped = w.mapped
        /\ w'.copy.recs[w.repo].st = "set" /\ w'.copy.recs[w.repo].at = now
        /\ \A s \in w'.copy.recs[w.repo].scopes : heldAt[w.repo][s] = now
        /\ \A f \in Entities \ {w.repo} : w'.copy.recs[f] = w.copy.recs[f]
    BY <1>1, <1>2, <1>5, <2>3, RecordedFacts DEF Probing
  <2>5. now \in Nat /\ "org" \in Entities \ {w.repo}
    BY <1>2, TtlTypes DEF QuayTyped, Times, Entities
  <2>6. Valid("org")'
    BY <1>1, <1>2, <2>4, <2>5 DEF Valid
  <2>7. Valid(w.repo)'
    BY <1>1, <2>4, <2>5, TtlTypes DEF Valid
  <2>8. ProbesTrue'
    BY <1>2, <2>4, <2>6, <2>7 DEF ProbesTrue, Probing
  <2>9. DescriptionKnown'
    BY <2>4 DEF DescriptionKnown
  <2> QED
    BY <1>1, <1>2, <1>3, <2>4, <2>8, <2>9, ProbingStep DEF Probing
<1> QED
  BY <1>4, <1>5 DEF ProbeRest

\* The records that are mapped are valid, and so their scopes are fresh.
LEMMA PersistKeeps == QuayInv /\ Persist => QuayInv'
<1> SUFFICES ASSUME QuayInv, Persist PROVE QuayInv'
  OBVIOUS
<1> USE DEF QuayInv
<1>1. Quiet /\ UNCHANGED desc /\ budget' \in Budgets /\ w \in Workers /\ w.pc = "persist"
  BY BudgetSteps DEF Persist, QuayTyped
<1>2. /\ w.repo \in Entities \ {"org"} /\ "org" \in Entities /\ Valid("org") /\ Valid(w.repo)
      /\ w.mapped.repo = w.repo /\ w.mapped \in Secrets
  BY <1>1 DEF QuayTyped, Probing, ProbesTrue, Workers, Entities
<1>3. desc' \in [Entities \ {"org"} -> Descriptions]
  BY <1>1 DEF QuayTyped
<1>4. CASE FetchFails /\ UNCHANGED <<meta, lag>>
  BY <1>1, <1>4, FailsStep
<1>5. CASE Mapped /\ (UNCHANGED <<meta, lag>> \/ (meta' = w.copy /\ lag' = TRUE))
  <2> DEFINE m == [w.mapped EXCEPT !.scopes = Fetched]
  <2>1. \A e \in {w.repo, "org"} : /\ w.copy.recs[e].scopes \subseteq Scopes
                                   /\ \A s \in w.copy.recs[e].scopes : now <= heldAt[e][s] + Ttl
    <3> SUFFICES ASSUME NEW e \in {w.repo, "org"}
                 PROVE  /\ w.copy.recs[e].scopes \subseteq Scopes
                        /\ \A s \in w.copy.recs[e].scopes : now <= heldAt[e][s] + Ttl
      OBVIOUS
    <3>1. w.copy \in Metas /\ e \in Entities
      BY <1>1, <1>2 DEF Workers
    <3>2. w.copy.recs[e] \in Records
      BY <3>1 DEF Metas
    <3>3. w.copy.recs[e].scopes \subseteq Scopes /\ w.copy.recs[e].at \in Nat
      BY <3>2, TtlTypes DEF Records, Times
    <3>4. w.copy.recs[e].st = "set" /\ now <= w.copy.recs[e].at + Ttl
      BY <1>2 DEF Valid
    <3>5. ASSUME NEW s \in w.copy.recs[e].scopes PROVE now <= heldAt[e][s] + Ttl
      <4>1. heldAt[e][s] >= w.copy.recs[e].at
        BY <3>1, <3>4, <3>5 DEF RecordsTrue
      <4>2. heldAt[e][s] \in Times /\ now \in Times
        BY <3>1, <3>3, <3>5 DEF QuayTyped
      <4> QED
        BY <3>3, <3>4, <4>1, <4>2, TtlTypes DEF Times
    <3> QED
      BY <3>3, <3>5
  <2>2. m.repo = w.repo /\ m.scopes = Fetched
    BY <1>2 DEF Secrets
  <2>3. m.scopes = w.copy.recs[w.repo].scopes \cup w.copy.recs["org"].scopes
    BY <2>2 DEF Fetched
  <2>4. m \in Secrets
    <3>1. Fetched \in SUBSET Scopes
      BY <2>1 DEF Fetched
    <3> QED
      BY <1>2, <3>1 DEF Secrets
  <2>5. \A s \in m.scopes : \E e \in {m.repo, "org"} : now <= heldAt[e][s] + Ttl
    BY <2>1, <2>2, <2>3
  <2>6. w' = [Idle EXCEPT !.pc = "sync", !.mapped = m]
    BY <1>5 DEF Mapped, MapsTo
  <2> HIDE DEF m
  <2> QED
    BY <1>1, <1>2, <1>3, <1>5, <2>2, <2>4, <2>5, <2>6, MapsStep
<1> QED
  BY <1>4, <1>5 DEF Persist

LEMMA SyncKeeps == QuayInv /\ Sync => QuayInv'
<1> SUFFICES ASSUME QuayInv, Sync PROVE QuayInv'
  OBVIOUS
<1> USE DEF QuayInv
<1>1. UNCHANGED <<now, grants, desc, data, meta, cached, lag, recent, heldAt, budget>> /\ w' = Idle
  BY DEF Sync, NoFault, history
<1>2. w'.pc = "idle" /\ w'.current = FALSE /\ w'.copy = NoMeta /\ w' \in Workers
  BY <1>1, RecordTypes DEF Idle
<1>3. QuayTyped'
  BY <1>1, <1>2 DEF QuayTyped, Probing
<1>4. HistoryTrue'
  BY <1>1, StillHistory DEF history
<1>5. RecordsTrue'
  BY <1>1, <1>2, RecordTypes DEF RecordsTrue, None
<1>6. ProbesTrue' /\ CopyCurrent' /\ DescriptionKnown' /\ ScopesFresh'
  BY <1>1, <1>2 DEF ProbesTrue, CopyCurrent, DescriptionKnown, ScopesFresh, Probing
<1> QED
  BY <1>3, <1>4, <1>5, <1>6

-----------------------------------------------------------------------------
(* The theorems.                                                              *)

LEMMA StutterKeeps == QuayInv /\ UNCHANGED vars => QuayInv'
<1> SUFFICES ASSUME QuayInv, UNCHANGED vars PROVE QuayInv'
  OBVIOUS
<1> USE DEF QuayInv
<1>1. UNCHANGED <<now, grants, desc, data, meta, cached, lag, w, recent, heldAt, budget>>
  BY DEF vars, history
<1>2. HistoryTrue'
  BY <1>1, StillHistory DEF history
<1>3. QuayTyped' /\ RecordsTrue' /\ CopyCurrent' /\ DescriptionKnown' /\ ScopesFresh'
  BY <1>1 DEF QuayTyped, RecordsTrue, CopyCurrent, DescriptionKnown, ScopesFresh
<1>4. ProbesTrue'
  BY <1>1 DEF ProbesTrue, Valid
<1> QED
  BY <1>2, <1>3, <1>4

LEMMA NextKeeps == QuayInv /\ [Next]_vars => QuayInv'
  BY TickKeeps, ChangeGrantKeeps, ReplaceDataKeeps, EditDescriptionKeeps, EnsureKeeps, ClearMetadataKeeps,
     WatchKeeps, BeginKeeps, FetchDataKeeps, FetchOrganizationKeeps, FetchRepositoryKeeps,
     ProbeWriteKeeps, ProbeRestKeeps, PersistKeeps, SyncKeeps, StutterKeeps
  DEF Next, GetData, Users

LEMMA QuayInvHolds == Spec => []QuayInv
  BY InitQuay, NextKeeps, PTL DEF Spec

\* What the worker of the binding controller relies on between its requests to
\* Quay: every variable keeps its type, there is data to probe with, and records
\* of all that doFetchRepo maps.
THEOREM QuayTypes == Spec => []TypeOK
<1>1. QuayInv => TypeOK
  <2> SUFFICES ASSUME QuayInv PROVE TypeOK
    OBVIOUS
  <2> USE DEF QuayInv
  <2>1. w.copy \in Metas /\ w.mapped \in Secrets
    BY DEF QuayTyped, Workers
  <2>2. \A m \in {meta, cached, w.copy} : \A e \in Entities : m.recs[e] \in Records
    BY <2>1 DEF QuayTyped, Metas
  <2>3. w.pc \in {"org", "repo", "write", "rest", "persist"} => w.tdata # None /\ w.repo \in Entities
    BY DEF QuayTyped, Probing, Credentials, None
  <2>4. w.pc = "persist" => \A e \in {w.repo, "org"} : w.copy.recs[e].st = "set"
    BY DEF ProbesTrue, Valid, Probing
  <2> QED
    BY <2>1, <2>2, <2>3, <2>4 DEF QuayTyped, TypeOK
<1> QED
  BY <1>1, QuayInvHolds, PTL

\* No scope gets into a Secret that the credential stored by users did not have
\* within TokenLookupCacheTtl, for any repositories, changes and TTL.
THEOREM MappedScopesFresh == Spec => []ScopesFresh
<1>1. QuayInv => ScopesFresh
  BY DEF QuayInv
<1> QED
  BY <1>1, QuayInvHolds, PTL

\* persistTokenState never brings old records back: the conflict check of the API
\* server protects what other reconciliations have written.
THEOREM RecordsNeverRegress == Spec => RecordsMoveForward
<1> DEFINE Forward ==
      \A e \in Entities : meta.st = "set" /\ meta'.st = "set" /\ meta'.recs[e] # meta.recs[e]
        => meta'.recs[e].st = "set" /\ meta'.recs[e].at = now
<1>1. QuayInv /\ [Next]_vars => Forward
  <2> SUFFICES ASSUME QuayInv, [Next]_vars PROVE Forward
    OBVIOUS
  <2>1. CASE UNCHANGED meta
    BY <2>1
  <2>2. CASE Ensure \/ ClearMetadata
    BY <2>2, RecordTypes DEF Ensure, ClearMetadata, NoMeta, None
  <2>3. CASE w.current /\ meta' = w.copy
    BY <2>3 DEF QuayInv, CopyCurrent
  <2>4. CASE Tick \/ Users \/ Watch
    BY <2>1, <2>4 DEF Tick, Users, ChangeGrant, EditDescription, ReplaceData, Watch
  <2>5. CASE Persist
    BY <2>1, <2>3, <2>5 DEF Persist
  <2>6. CASE GetData /\ ~Persist
    BY <2>1, <2>6
    DEF GetData, Begin, FetchData, FetchOrganization, FetchRepository, ProbeWrite, ProbeRest, Sync
  <2>7. CASE UNCHANGED vars
    BY <2>1, <2>7 DEF vars
  <2> QED
    BY <2>2, <2>4, <2>5, <2>6, <2>7 DEF Next
<1>2. QuayInv /\ [Next]_vars => [Forward]_vars
  BY <1>1
<1> QED
  BY <1>2, QuayInvHolds, PTL DEF Spec, RecordsMoveForward

\* hasRepoWrite leaves the description alone whatever else happens, unless
\* somebody edits it between the two requests or it means something else once
\* put between quotes unescaped.
THEOREM DescriptionsSurviveProbes == Spec => ProbeKeepsDescription
<1> DEFINE Keeps == w.pc = "write" /\ w'.pc # "write" /\ ~w.edited /\ w.desc # "escaped" => UNCHANGED desc
<1>1. QuayInv /\ [Next]_vars => Keeps
  <2> SUFFICES ASSUME QuayInv, [Next]_vars, w.pc = "write", w'.pc # "write", ~w.edited, w.desc # "escaped"
               PROVE  desc' = desc
    OBVIOUS
  <2>1. w \in Workers
    BY DEF QuayInv, QuayTyped
  <2>2. w' # w
    OBVIOUS
  <2>3. CASE ProbeWrite
    <3>1. w.desc = desc[w.repo] /\ w.repo \in Entities \ {"org"}
      BY DEF QuayInv, DescriptionKnown, QuayTyped, Probing
    <3>2. [desc EXCEPT ![w.repo] = w.desc] = desc
      BY <3>1 DEF QuayInv, QuayTyped
    <3>3. Understood(w.desc) \subseteq {w.desc}
      BY DEF Understood
    <3> QED
      BY <2>3, <3>2, <3>3 DEF ProbeWrite
  <2>4. CASE EditDescription
    <3>1. w'.pc = w.pc
      BY <2>1, <2>4 DEF EditDescription, Workers
    <3> QED
      BY <3>1
  <2>5. CASE Ensure \/ ClearMetadata
    BY <2>5 DEF Ensure, ClearMetadata
  <2>6. CASE Tick \/ ChangeGrant \/ ReplaceData \/ Watch \/ UNCHANGED vars
    BY <2>2, <2>6 DEF Tick, ChangeGrant, ReplaceData, Watch, vars
  <2>7. CASE GetData /\ ~ProbeWrite
    BY <2>7 DEF GetData, Begin, FetchData, FetchOrganization, FetchRepository, ProbeRest, Persist, Sync
  <2> QED
    BY <2>3, <2>4, <2>5, <2>6, <2>7 DEF Next, Users
<1>2. QuayInv /\ [Next]_vars => [Keeps]_vars
  BY <1>1
<1> QED
  BY <1>2, QuayInvHolds, PTL DEF Spec, ProbeKeepsDescription
=============================================================================
