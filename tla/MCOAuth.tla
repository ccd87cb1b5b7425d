------------------------------ MODULE MCOAuth ------------------------------
(* OAuthService on small instances.                                         *)
EXTENDS OAuthService, TLC

CONSTANTS r1, r2

File == <<[type |-> "GitHub", host |-> "", oauth |-> TRUE],
          [type |-> "Quay", host |-> "", oauth |-> FALSE]>>
NoMalformedHosts == {"not-a-host"}

Obj(kind, host, sc) == [kind |-> kind, name |-> "o", ns |-> "ns", host |-> host, scopes |-> sc]
SharedObjects == {Obj("SPIAccessToken", "github.com", "A"), Obj("RemoteSecret", "github.com", "B")}
OwnObjects == {Obj("SPIAccessToken", "ghe.example", "A"), Obj("RemoteSecret", "github.com", "B")}
OwnSecrets == {[type |-> "GitHub", host |-> "ghe.example", oauth |-> TRUE]}
QuayObjects == {Obj("RemoteSecret", "quay.example", "A")}
QuaySecrets == {[type |-> "Quay", host |-> "quay.example", oauth |-> TRUE]}
OneWorkspace == <<{"ns"}>>
MixedObjects == SharedObjects \cup {Obj("SPIAccessToken", "ghe.example", "A")}
RequestSymmetry == Permutations(Requests)
=============================================================================
