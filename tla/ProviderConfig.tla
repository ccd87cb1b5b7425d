--------------------------- MODULE ProviderConfig ---------------------------
(***************************************************************************)
(* Which service provider serves a host, and with which OAuth application: *)
(* the configuration file, the configuration secrets of users, the         *)
(* operator's Factory.FromRepoUrl and the OAuth service's                  *)
(* obtainOauthConfig.  Base URLs are https URLs and stand for their hosts. *)
(***************************************************************************)
EXTENDS Naturals, Sequences, FiniteSets

CONSTANTS
  PersistedConfig,  \* the configuration file: a sequence of [type, host, oauth],
                    \* host "" where the base URL is omitted
  MalformedHosts    \* hosts that do not pass the https_only validation

ServiceProviderTypeGitHub == [name |-> "GitHub", host |-> "github.com"]
ServiceProviderTypeGitLab == [name |-> "GitLab", host |-> "gitlab.com"]
ServiceProviderTypeQuay   == [name |-> "Quay", host |-> "quay.io"]
KnownTypes == {ServiceProviderTypeGitHub, ServiceProviderTypeGitLab, ServiceProviderTypeQuay}

SupportedServiceProviderTypes == <<"GitHub", "GitLab", "Quay">>
ProviderTypes == {t.name : t \in KnownTypes}
DefaultHost(type) == (CHOOSE t \in KnownTypes : t.name = type).host

\* GetServiceProviderTypeByName and the validation of the loaded file: the
\* process does not start with an unknown type or a malformed base URL.
ConfigLoads ==
  \A i \in DOMAIN PersistedConfig :
    PersistedConfig[i].type \in ProviderTypes /\ PersistedConfig[i].host \notin MalformedHosts

\* persistedConfiguration.convert: omitted hosts get the default, and a type
\* without an entry gets one without OAuth.
SharedConfiguration ==
  LET explicit == [i \in DOMAIN PersistedConfig |->
                     [PersistedConfig[i] EXCEPT
                        !.host = IF @ = "" THEN DefaultHost(PersistedConfig[i].type) ELSE @]]
      missing == SelectSeq(SupportedServiceProviderTypes,
                   LAMBDA t : \A i \in DOMAIN explicit : explicit[i].type # t)
  IN explicit \o [i \in DOMAIN missing |->
                    [type |-> missing[i], host |-> DefaultHost(missing[i]), oauth |-> FALSE]]

\* InitController refuses two configurations of one type for one host.
RouterStarts ==
  \A i, j \in DOMAIN SharedConfiguration :
    /\ SharedConfiguration[i].type = SharedConfiguration[j].type
    /\ SharedConfiguration[i].host = SharedConfiguration[j].host
    => i = j

ASSUME ConfigurationAccepted == ConfigLoads /\ RouterStarts

\* A configuration: st "ok", or why there is none; "own" tells a fresh copy made
\* from a secret from the entry of the process-wide configuration, "oauth"
\* whether the client id and the client secret are there.
Config(own, oauth) == [st |-> "ok", own |-> own, oauth |-> oauth]
NoConfig(why) == [st |-> why, own |-> FALSE, oauth |-> FALSE]

\* A secret [type, host, oauth] with the label for this host wins over one
\* without a host label, which serves the default host of its type only; two of
\* a kind are an error.
findUserServiceProviderConfigSecret(secrets, type, host) ==
  LET withHost    == {s \in secrets : s.type = type /\ s.host = host}
      withoutHost == {s \in secrets : s.type = type /\ s.host = "" /\ host = DefaultHost(type)}
  IN IF withHost # {} THEN withHost ELSE withoutHost

createServiceProviderConfigurationFromSecret(s) == Config(TRUE, s.oauth)

SpConfigFromUserSecret(secrets, type, host) ==
  LET found == findUserServiceProviderConfigSecret(secrets, type, host)
  IN CASE found = {} -> NoConfig("none")
       [] Cardinality(found) > 1 -> NoConfig("multiple")
       [] OTHER -> createServiceProviderConfigurationFromSecret(CHOOSE s \in found : TRUE)

\* The default host of a type always has a configuration, if need be without
\* OAuth.
SpConfigFromGlobalConfig(type, host) ==
  LET match == {i \in DOMAIN SharedConfiguration :
                  SharedConfiguration[i].type = type /\ SharedConfiguration[i].host = host}
  IN IF match # {} \/ host = DefaultHost(type)
     THEN Config(FALSE, \E i \in match : SharedConfiguration[i].oauth)
     ELSE NoConfig("none")

\* The user's secret is used before the global configuration.
SpConfig(secrets, type, host) ==
  LET user == SpConfigFromUserSecret(secrets, type, host)
  IN IF user.st = "none" THEN SpConfigFromGlobalConfig(type, host) ELSE user

\* A provider that is constructed, unless its configuration is not valid.
\* Quay's GetBaseUrl is always the default one.
Provided(type, host, oauth) ==
  [err |-> IF host \in MalformedHosts THEN "validation" ELSE "", type |-> type,
   oauth |-> oauth /\ host \notin MalformedHosts,
   base |-> IF type = "Quay" THEN DefaultHost("Quay") ELSE host]

\* Probes only know the default hosts, which the global configuration serves
\* already.
initializeServiceProvider(type, host, cfg) == Provided(type, host, cfg.oauth)
createHostCredentialsProvider(host) == Provided("HostCredentials", host, FALSE)

\* Factory.FromRepoUrl: the first supported type with a configuration for the
\* host; else the host credentials provider, without OAuth.
FromRepoUrl(secrets, host) ==
  LET Cfg(i) == SpConfig(secrets, SupportedServiceProviderTypes[i], host)
      configured == {i \in 1..3 : Cfg(i).st # "none"}
      first == CHOOSE i \in configured : \A j \in configured : i <= j
      sp == initializeServiceProvider(SupportedServiceProviderTypes[first], host, Cfg(first))
  IN CASE configured = {} -> createHostCredentialsProvider(host)
       [] configured # {} /\ Cfg(first).st = "multiple" -> [sp EXCEPT !.err = "retry", !.oauth = FALSE]
       [] OTHER -> sp

\* obtainOauthConfig of the OAuth service, for the type and the base URL that
\* the operator wrote into the OAuth URL.
obtainOauthConfig(secrets, type, host) ==
  LET cfg == SpConfig(secrets, type, host)
  IN CASE cfg.st # "ok" -> NoConfig("error")
       [] cfg.st = "ok" /\ ~cfg.oauth -> NoConfig("errConfigNoOAuth")
       [] OTHER -> cfg
=============================================================================
