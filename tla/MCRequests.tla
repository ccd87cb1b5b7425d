----------------------------- MODULE MCRequests -----------------------------
(* Instances of module Requests: one repository at each provider. *)
EXTENDS Requests

MCConfig == <<[type |-> "GitHub", host |-> "", oauth |-> TRUE]>>
MCPerms == {[required |-> {[area |-> "repository", type |-> "rw"]}, additional |-> {}]}
\* What c2 may do is enough for GitLab's filter, but c2 does not see the private
\* repository; c3 is the token of a robot, which only a RemoteSecret brings.
MCScopes == [GitHub |-> [c1 |-> {<<"", "repo">>}, c2 |-> {<<"read", "org">>}],
             GitLab |-> [c1 |-> {"api"}, c2 |-> {"api"}]]
MCRemotes ==
  {[obtained |-> TRUE, basic |-> TRUE, local |-> TRUE, lists |-> FALSE, cred |-> "c3"],
   [obtained |-> TRUE, basic |-> TRUE, local |-> TRUE, lists |-> TRUE, cred |-> None]}
World(host, repo, policy) == [host |-> host, parses |-> TRUE, repo |-> repo, fits |-> TRUE, policy |-> policy]
MCWorlds ==
  {World("github.com", "private", "exact"), World("gitlab.com", "private", "exact"),
   World("quay.io", "private", "any"), World("quay.io", "private", "exact"), World("host.org", "private", "any"),
   World("bad", "private", "any"),
   [World("gitlab.com", "missing", "any") EXCEPT !.parses = FALSE],
   [World("quay.io", "missing", "any") EXCEPT !.parses = FALSE]}
=============================================================================
