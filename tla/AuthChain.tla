----------------------------- MODULE AuthChain -----------------------------
(***************************************************************************)
(* Which identity a client authenticates with (pkg/backend/auth): the      *)
(* tiers GetAuthCred assembles from an AuthConfig, highest priority first. *)
(***************************************************************************)
EXTENDS Sequences

AuthConfigs == [
    sa     : BOOLEAN,                          \* an explicit serviceAccountRef
    oidc   : {"none", "explicit", "derived"},  \* derived from cluster-id and uid
    role   : BOOLEAN,                          \* a RAM role ARN
    ak     : {"none", "half", "pair"},         \* access key id and secret
    worker : BOOLEAN ]                         \* --enable-worker-role

\* resolveOidcProviderArn: from what is configured and from cluster-id and uid.
\* With a uid that is no number there is no configuration and no client.
ResolvedOidc(configured, cluster) ==
    CASE configured = "valid"                              -> "explicit"
      [] configured # "valid" /\ cluster = "known"         -> "derived"
      [] configured # "valid" /\ cluster = "malformed"     -> "failed"
      [] configured = "invalid" /\ cluster = "unknown"     -> "explicit"
      [] configured = "none" /\ cluster = "unknown"        -> "none"

\* BuildAuthConfig reads no access key for a store that names a ServiceAccount;
\* BuildAuthConfigFromEnv knows of no ServiceAccount and derives nothing.
StoreConfigs == {a \in AuthConfigs : a.sa => a.ak = "none"}
EnvConfigs == {a \in AuthConfigs : ~a.sa /\ a.oidc # "derived"}

\* oidcTierAllowed
DerivedGoesFirst(a) == a.oidc # "none" /\ a.role
OidcTierAllowed(a) ==
    /\ a.oidc # "none" /\ a.role
    /\ a.sa \/ a.oidc = "explicit" \/ a.ak # "pair"

\* createOIDCProvider: dynamic tokens of the ServiceAccount, or the token file.
Tier(wanted, name) == IF wanted THEN <<name>> ELSE <<>>
Chain(a) ==
       Tier(OidcTierAllowed(a), IF a.sa THEN "dynamic" ELSE "file")
    \o Tier(a.ak = "pair" /\ a.role, "assume")
    \o Tier(a.ak = "pair", "key")
    \o Tier(a.worker, "worker")

\* GetAuthCred fails rather than authenticate as somebody else.
Refused(a) == (a.sa /\ (a.oidc = "none" \/ ~a.role)) \/ Chain(a) = <<>>

Identity(a) == Head(Chain(a))
=============================================================================
