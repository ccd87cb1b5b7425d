-------------------------- MODULE ServiceProviders --------------------------
(***************************************************************************)
(* What the service providers know of permissions, scopes and repositories:*)
(* GitHub, GitLab, Quay and the provider of host credentials.  Pure        *)
(* operators; the modules that use them supply the state.                  *)
(*                                                                         *)
(* A permission is [area, type], the permissions of a request are          *)
(* [required, additional], additional a set of scopes.  A scope of GitHub  *)
(* or Quay is a pair: <<"read", "org">> is read:org and <<"", "gist">> is  *)
(* gist, without a colon; a scope of GitLab is its name.                   *)
(***************************************************************************)
EXTENDS Naturals, FiniteSets

Areas == {"repository", "repositoryMetadata", "webhooks", "user", "registry", "registryMetadata"}
PermissionTypes == {"r", "w", "rw"}
Permissions == [area : Areas, type : PermissionTypes]

IsWrite(type) == type \in {"w", "rw"}

GetAllScopes(translate(_), perms) ==
  perms.additional \cup UNION {translate(p) : p \in perms.required}

\* The metadata of a token without any.
NoMetadata == [present |-> FALSE, scopes |-> {}, repos |-> {}]

----------------------------------------------------------------------------
(* GitHub.                                                                  *)

GitHubScopes ==
  {<<"", "repo">>, <<"repo", "status">>, <<"", "repo_deployment">>, <<"", "public_repo">>,
   <<"repo", "invite">>, <<"", "security_event">>, <<"", "gist">>, <<"", "notifications">>,
   <<"", "user">>, <<"read", "user">>, <<"user", "email">>, <<"user", "follow">>,
   <<"", "delete_repo">>, <<"delete", "packages">>, <<"admin", "org_hook">>,
   <<"", "codespace">>, <<"", "workflow">>}
    \cup ({"admin", "write", "read"} \X {"repo_hook", "org", "public_key", "gpg_key"})
    \cup ({"write", "read"} \X {"discussion", "packages"})

\* Scopes whose names begin with "repo".
BeginsWithRepo(s) == s[1] = "repo" \/ (s[1] = "" /\ s[2] \in {"repo", "repo_deployment"})

GitHubImplies(s, other) ==
  \/ s = other
  \/ s = <<"read", "user">> /\ other \in {<<"user", "email">>, <<"user", "follow">>}
  \/ s = <<"", "repo">> /\ (other = <<"", "public_repo">> \/ BeginsWithRepo(other))
  \/ s = <<"", "user">> /\ other = <<"read", "user">>
  \/ /\ s \notin {<<"read", "user">>, <<"", "repo">>, <<"", "user">>}
     /\ s[1] # "" /\ other[1] # "" /\ s[2] = other[2]
     /\ s[1] = "admin" \/ (s[1] = "write" /\ other[1] = "read")

translateToScopes(p) ==
  CASE p.area \in {"repository", "repositoryMetadata"} -> {<<"", "repo">>}
    [] p.area = "webhooks" -> {<<IF IsWrite(p.type) THEN "write" ELSE "read", "repo_hook">>}
    [] p.area = "user" -> {IF IsWrite(p.type) THEN <<"", "user">> ELSE <<"read", "user">>}
    [] OTHER -> {}

GitHubValidate(perms) == perms.additional \subseteq GitHubScopes

\* Every viewer permission GitHub reports enables every scope.
Enables(permission) == permission \in {"ADMIN", "MAINTAIN", "TRIAGE", "WRITE", "READ"}

\* permsMatch, for the record of a repository [url, permission].
GitHubPermsMatch(perms, rec, scopes) ==
  \A r \in GetAllScopes(translateToScopes, perms) :
    (\E s \in scopes : GitHubImplies(s, r)) /\ Enables(rec.permission)

GitHubMatches(perms, url, meta) ==
  meta.present /\ \E rec \in meta.repos : rec.url = url /\ GitHubPermsMatch(perms, rec, meta.scopes)

----------------------------------------------------------------------------
(* GitLab.                                                                  *)

GitLabScopes ==
  {"api", "read_api", "read_user", "read_repository", "write_repository", "read_registry",
   "write_registry", "sudo", "openid", "profile", "email"}

GitLabImplies(s, other) ==
  \/ s = other
  \/ s = "api" /\ other \in {"read_api", "read_user", "read_repository", "write_repository",
                             "read_registry", "write_registry"}
  \/ s = "read_api" /\ other \in {"read_user", "read_repository", "read_registry"}
  \/ s = "write_repository" /\ other = "read_repository"
  \/ s = "write_registry" /\ other = "read_registry"

translateToGitlabScopes(p) ==
  CASE p.area \in {"repository", "repositoryMetadata"} ->
         {IF IsWrite(p.type) THEN "write_repository" ELSE "read_repository"}
    [] p.area = "registry" -> {IF IsWrite(p.type) THEN "write_registry" ELSE "read_registry"}
    [] p.area = "user" -> {"read_user"}
    [] OTHER -> {}

GitLabOAuthScopesFor(perms) ==
  GetAllScopes(translateToGitlabScopes, perms) \cup {"read_user", "read_api"}

GitLabValidate(perms) ==
  /\ \A p \in perms.required :
       \/ p.area \in {"repository", "repositoryMetadata", "registry"}
       \/ p.area = "user" /\ ~IsWrite(p.type)
  /\ perms.additional \subseteq GitLabScopes

\* Only the scopes count, the repository does not.
GitLabMatches(perms, meta) ==
  /\ meta.present
  /\ \A r \in GetAllScopes(translateToGitlabScopes, perms) :
       \E s \in meta.scopes : GitLabImplies(s, r)

----------------------------------------------------------------------------
(* Quay.  <<"", "pull">> and <<"", "push">> stand for what robots may do.   *)
(* There is no filter: the one that newQuay makes never answers.            *)

Pull == <<"", "pull">>
Push == <<"", "push">>
RepoRead   == <<"repo", "read">>
RepoWrite  == <<"repo", "write">>
RepoCreate == <<"repo", "create">>
RepoAdmin  == <<"repo", "admin">>
OrgAdmin   == <<"org", "admin">>

QuayScopes == {Pull, Push, RepoRead, RepoWrite, RepoCreate, RepoAdmin, OrgAdmin}

\* The widest useful set, whatever is required.
QuayOAuthScopesFor(perms) == {RepoRead, RepoWrite, RepoCreate, RepoAdmin} \cup perms.additional

QuayValidate(perms) ==
  /\ \A p \in perms.required : p.area \in {"registry", "registryMetadata"}
  /\ perms.additional \subseteq QuayScopes

----------------------------------------------------------------------------
(* The providers side by side.                                              *)

OAuthScopesFor(type, perms) ==
  CASE type = "GitHub" -> GetAllScopes(translateToScopes, perms)
    [] type = "GitLab" -> GitLabOAuthScopesFor(perms)
    [] type = "Quay"   -> QuayOAuthScopesFor(perms)

Validate(type, perms) ==
  CASE type = "GitHub" -> GitHubValidate(perms)
    [] type = "GitLab" -> GitLabValidate(perms)
    [] type = "Quay"   -> QuayValidate(perms)
    [] OTHER -> TRUE

\* What the constructors decide: whether files can be downloaded, whether the
\* metadata expire or are fetched once (Quay's records of single repositories
\* expire on their own), and whether the filter for the exact policy has what it
\* needs: Quay's is made without the metadata provider that it calls.
newGithub == [type |-> "GitHub", downloads |-> TRUE, expires |-> TRUE, filters |-> TRUE]
newGitlab == [type |-> "GitLab", downloads |-> TRUE, expires |-> FALSE, filters |-> TRUE]
newQuay   == [type |-> "Quay", downloads |-> FALSE, expires |-> FALSE, filters |-> FALSE]
newHostCredentialsProvider ==
  [type |-> "HostCredentials", downloads |-> FALSE, expires |-> FALSE, filters |-> TRUE]
Constructed == {newGithub, newGitlab, newQuay, newHostCredentialsProvider}

HasDownloadCapability(type) == \E sp \in Constructed : sp.type = type /\ sp.downloads
MetadataExpires(type) == \E sp \in Constructed : sp.type = type /\ sp.expires
\* Matches dereferences nil for any token that has metadata.
FilterPanics(type, policy) == policy = "exact" /\ \E sp \in Constructed : sp.type = type /\ ~sp.filters

\* NewFilter, and the filter of host credentials.
TokenMatches(type, policy, perms, url, meta) ==
  \/ policy = "any" \/ type = "HostCredentials"
  \/ type = "GitHub" /\ GitHubMatches(perms, url, meta)
  \/ type = "GitLab" /\ GitLabMatches(perms, meta)
=============================================================================
