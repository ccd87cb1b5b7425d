-------------------------- MODULE AlgorithmProofs ---------------------------
(***************************************************************************)
(* Two parts of the operator that compute without keeping state.           *)
(*                                                                         *)
(* Service providers: the places where a provider interprets permissions   *)
(* agree, for every request: the validation of the request, the scopes     *)
(* that the OAuth URL asks for, and, for GitHub and GitLab, the filter that *)
(* decides whether the token that comes back serves the request.           *)
(*                                                                         *)
(* Object marker: what its callers rely on, for any number of bindings     *)
(* that share an object.                                                   *)
(***************************************************************************)
EXTENDS ServiceProviders, ObjectMarker, TLAPS

\* GitLab: a token that was granted what its OAuth URL asks for is not refused
\* by the filter afterwards; otherwise the binding would be reported to have a
\* token that does not match, and no OAuth flow could ever change that.
THEOREM GitLabFlowMatches ==
  ASSUME NEW perms, NEW meta, meta.present, GitLabOAuthScopesFor(perms) \subseteq meta.scopes
  PROVE  GitLabMatches(perms, meta)
BY DEF GitLabMatches, GitLabOAuthScopesFor, GitLabImplies

\* GitHub: the same for every repository that the user of the token sees.
THEOREM GitHubFlowMatches ==
  ASSUME NEW perms, NEW meta, NEW rec \in meta.repos, meta.present, Enables(rec.permission),
         OAuthScopesFor("GitHub", perms) \subseteq meta.scopes
  PROVE  GitHubMatches(perms, rec.url, meta)
<1>1. GetAllScopes(translateToScopes, perms) \subseteq meta.scopes
  BY DEF OAuthScopesFor
<1>2. GitHubPermsMatch(perms, rec, meta.scopes)
  BY <1>1 DEF GitHubPermsMatch, GitHubImplies
<1>. QED BY <1>2 DEF GitHubMatches

----------------------------------------------------------------------------
\* The scopes that a provider knows.
KnownScopes(type) ==
  CASE type = "GitHub" -> GitHubScopes
    [] type = "GitLab" -> GitLabScopes
    [] type = "Quay"   -> QuayScopes

\* A request that Validate accepts leads to an OAuth URL that asks only for scopes
\* the provider knows, whatever it requires.
THEOREM ValidRequestsAskKnownScopes ==
  ASSUME NEW type \in {"GitHub", "GitLab", "Quay"}, NEW perms,
         perms.required \subseteq Permissions, Validate(type, perms)
  PROVE  OAuthScopesFor(type, perms) \subseteq KnownScopes(type)
<1>1. CASE type = "GitHub"
  <2>1. perms.additional \subseteq GitHubScopes
    BY <1>1 DEF Validate, GitHubValidate
  <2>2. \A p \in perms.required : translateToScopes(p) \subseteq GitHubScopes
    <3>1. {<<"", "repo">>, <<"", "user">>, <<"read", "user">>} \subseteq GitHubScopes
      BY DEF GitHubScopes
    <3>2. {<<"write", "repo_hook">>, <<"read", "repo_hook">>} \subseteq GitHubScopes
      BY DEF GitHubScopes
    <3>. QED BY <3>1, <3>2 DEF translateToScopes
  <2>3. GetAllScopes(translateToScopes, perms) \subseteq GitHubScopes
    BY <2>1, <2>2 DEF GetAllScopes
  <2>. QED BY <1>1, <2>3 DEF OAuthScopesFor, KnownScopes
<1>2. CASE type = "GitLab"
  <2>1. perms.additional \subseteq GitLabScopes
    BY <1>2 DEF Validate, GitLabValidate
  <2>2. \A p \in perms.required : translateToGitlabScopes(p) \subseteq GitLabScopes
    BY DEF translateToGitlabScopes, GitLabScopes
  <2>3. {"read_user", "read_api"} \subseteq GitLabScopes
    BY DEF GitLabScopes
  <2>4. GitLabOAuthScopesFor(perms) \subseteq GitLabScopes
    BY <2>1, <2>2, <2>3 DEF GitLabOAuthScopesFor, GetAllScopes
  <2>. QED BY <1>2, <2>4 DEF OAuthScopesFor, KnownScopes
<1>3. CASE type = "Quay"
  <2>1. perms.additional \subseteq QuayScopes
    BY <1>3 DEF Validate, QuayValidate
  <2>2. QuayOAuthScopesFor(perms) \subseteq QuayScopes
    BY <2>1 DEF QuayOAuthScopesFor, QuayScopes
  <2>. QED BY <1>3, <2>2 DEF OAuthScopesFor, KnownScopes
<1>. QED BY <1>1, <1>2, <1>3

----------------------------------------------------------------------------
\* A scope that GitLab grants includes what the included ones include.
LEMMA GitLabImpliesTransitive ==
  ASSUME NEW a, NEW b, NEW c, GitLabImplies(a, b), GitLabImplies(b, c)
  PROVE  GitLabImplies(a, c)
BY DEF GitLabImplies

\* GitLab: a token that can do at least as much as one that matches a request
\* matches it, too, so that an upload of stronger data never unlinks a binding.
THEOREM StrongerGitLabTokenMatches ==
  ASSUME NEW perms, NEW weak, NEW strong, GitLabMatches(perms, weak), strong.present,
         \A s \in weak.scopes : \E t \in strong.scopes : GitLabImplies(t, s)
  PROVE  GitLabMatches(perms, strong)
<1>. SUFFICES ASSUME NEW r \in GetAllScopes(translateToGitlabScopes, perms)
     PROVE  \E t \in strong.scopes : GitLabImplies(t, r)
  BY DEF GitLabMatches
<1>1. PICK s \in weak.scopes : GitLabImplies(s, r)
  BY DEF GitLabMatches
<1>2. PICK t \in strong.scopes : GitLabImplies(t, s)
  BY <1>1
<1>. QED BY <1>1, <1>2, GitLabImpliesTransitive

-----------------------------------------------------------------------------
(* The object marker.                                                          *)

\* The caller skips the write to the cluster when an operation reports no change:
\* no operation of the marker changes the object without reporting it.
THEOREM NoMarkLost ==
  ASSUME NEW b \in Names, NEW o \in Objects, NEW m \in Marks(b, o), m.obj # o
  PROVE  m.changed
<1>1. o = [links |-> o.links, manager |-> o.manager]
  BY DEF Objects
<1>2. CASE m = MarkReferenced(b, o)
  <2>1. b \in o.links => o.links \cup {b} = o.links
    OBVIOUS
  <2>. QED BY <1>1, <1>2, <2>1 DEF MarkReferenced, Objects
<1>3. CASE m = MarkManaged(b, o)
  <2>1. b \in o.links => o.links \cup {b} = o.links
    OBVIOUS
  <2>2. m.obj = [links |-> o.links \cup {b}, manager |-> b]
    BY <1>3 DEF MarkManaged, MarkReferenced, Objects
  <2>. QED BY <1>1, <1>3, <2>1, <2>2 DEF MarkManaged, MarkReferenced
<1>4. CASE m = UnmarkReferenced(b, o)
  <2>1. b \notin o.links => o.links \ {b} = o.links
    OBVIOUS
  <2>. QED BY <1>1, <1>4, <2>1 DEF UnmarkReferenced, Objects
<1>5. CASE m = UnmarkManaged(b, o)
  BY <1>1, <1>5 DEF UnmarkManaged, Objects
<1>. QED BY <1>2, <1>3, <1>4, <1>5 DEF Marks

\* A ServiceAccount is shared: whatever is done to the marks of one binding, the
\* references of the other bindings to the object stay as they are.
THEOREM OtherReferencesKept ==
  ASSUME NEW b \in Names, NEW c \in Names, b # c, NEW o \in Objects, NEW m \in Marks(b, o)
  PROVE  c \in GetReferencingTargets(m.obj) <=> IsReferencedBy(c, o)
<1>1. CASE m = MarkReferenced(b, o)
  <2>1. m.obj.links = o.links \cup {b}
    BY <1>1 DEF MarkReferenced, Objects
  <2>. QED BY <2>1 DEF GetReferencingTargets, IsReferencedBy
<1>2. CASE m = MarkManaged(b, o)
  <2>1. m.obj.links = o.links \cup {b}
    BY <1>2 DEF MarkManaged, MarkReferenced, Objects
  <2>. QED BY <2>1 DEF GetReferencingTargets, IsReferencedBy
<1>3. CASE m = UnmarkReferenced(b, o)
  <2>1. m.obj.links = o.links \ {b}
    BY <1>3 DEF UnmarkReferenced, Objects
  <2>. QED BY <2>1 DEF GetReferencingTargets, IsReferencedBy
<1>4. CASE m = UnmarkManaged(b, o)
  <2>1. m.obj.links = o.links
    BY <1>4 DEF UnmarkManaged, Objects
  <2>. QED BY <2>1 DEF GetReferencingTargets, IsReferencedBy
<1>. QED BY <1>1, <1>2, <1>3, <1>4 DEF Marks

\* Taking away the marks of one binding, linked or managing or neither, leaves none
\* of them and takes nothing from any other binding, whether that is linked or
\* manages the object; and a binding that unmarks what it has marked leaves no
\* trace on an object that nobody managed and that it was not linked to.
THEOREM UnmarkedAsBefore ==
  ASSUME NEW b \in Names, NEW o \in Objects, b # ""
  PROVE  LET Unmarked(x) == UnmarkManaged(b, UnmarkReferenced(b, x).obj).obj
         IN /\ ~IsReferencedBy(b, Unmarked(o)) /\ ~IsManagedBy(b, Unmarked(o)) /\ Unmarked(o).manager # b
            /\ \A c \in Names \ {b, ""} :
                 /\ IsReferencedBy(c, Unmarked(o)) <=> IsReferencedBy(c, o)
                 /\ IsManagedBy(c, Unmarked(o)) <=> IsManagedBy(c, o)
            /\ b \notin o.links /\ o.manager = "" => Unmarked(MarkManaged(b, o).obj) = o
<1>. DEFINE Unmarked(x) == UnmarkManaged(b, UnmarkReferenced(b, x).obj).obj
<1>1. ASSUME NEW x \in Objects
      PROVE  Unmarked(x) = [links |-> x.links \ {b}, manager |-> IF x.manager = b THEN "" ELSE x.manager]
  <2>1. UnmarkReferenced(b, x).obj = [links |-> x.links \ {b}, manager |-> x.manager]
    BY DEF UnmarkReferenced, Objects
  <2>2. UnmarkManaged(b, [links |-> x.links \ {b}, manager |-> x.manager]).obj
          = [links |-> x.links \ {b}, manager |-> IF x.manager = b THEN "" ELSE x.manager]
    BY DEF UnmarkManaged
  <2>. QED BY <2>1, <2>2
<1>2. MarkManaged(b, o).obj = [links |-> o.links \cup {b}, manager |-> b]
  BY DEF MarkManaged, MarkReferenced, Objects
<1>3. MarkManaged(b, o).obj \in Objects
  <2>1. o.links \cup {b} \in SUBSET Names
    BY DEF Objects
  <2>2. \A l \in SUBSET Names, m \in Names \cup {""} : [links |-> l, manager |-> m] \in Objects
    BY DEF Objects
  <2>. QED BY <1>2, <2>1, <2>2
<1>4. b \notin o.links /\ o.manager = "" => Unmarked(MarkManaged(b, o).obj) = o
  <2>1. Unmarked(MarkManaged(b, o).obj) = [links |-> (o.links \cup {b}) \ {b}, manager |-> ""]
    BY <1>1, <1>2, <1>3
  <2>2. o = [links |-> o.links, manager |-> o.manager]
    BY DEF Objects
  <2>3. b \notin o.links => (o.links \cup {b}) \ {b} = o.links
    OBVIOUS
  <2>. QED BY <2>1, <2>2, <2>3
<1>5. PICK m : m = (IF o.manager = b THEN "" ELSE o.manager)
  OBVIOUS
<1>6. PICK u : u = [links |-> o.links \ {b}, manager |-> m]
  OBVIOUS
<1>7. u = Unmarked(o)
  BY <1>1, <1>5, <1>6
<1>8. u.links = o.links \ {b}
  BY <1>6
<1>9. u.manager = m
  BY <1>6
<1>10. ~IsReferencedBy(b, u) /\ ~IsManagedBy(b, u) /\ u.manager # b
  BY <1>5, <1>8, <1>9 DEF IsReferencedBy, IsManagedBy
<1>11. ASSUME NEW c \in Names \ {b, ""}
       PROVE  (IsReferencedBy(c, u) <=> IsReferencedBy(c, o)) /\ (IsManagedBy(c, u) <=> IsManagedBy(c, o))
  BY <1>5, <1>8, <1>9 DEF IsReferencedBy, IsManagedBy
<1>. QED BY <1>4, <1>7, <1>10, <1>11
=============================================================================
