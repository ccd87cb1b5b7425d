-------------------------- MODULE MCRemoteSecrets --------------------------
(* RemoteSecrets on a small instance: GitHub with OAuth, GitLab without, a   *)
(* malformed host, two environments with targets of their own.               *)
EXTENDS RemoteSecrets, TLC

File == <<[type |-> "GitHub", host |-> "", oauth |-> TRUE]>>
Malformed == {"bad_host"}
AllHosts == {"github.com", "gitlab.com", "bad_host"}
Targets == [e \in Environments |-> e]
Fresh(host, a, envs, build) ==
  [Absent("live") EXCEPT !.host = host, !.app = a, !.envs = envs, !.build = build]
Kinds == {Fresh("github.com", "a1", {"e1"}, FALSE), Fresh(None, "a1", {"e1"}, TRUE)}
AllOps == {"create", "host", "url", "addEnv", "deleteEnv", "deleteApp", "data", "restart"}
=============================================================================
