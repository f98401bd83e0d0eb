----------------------------- MODULE ServerConfig -----------------------------
(***************************************************************************)
(* How the configuration of a validation is put together: the fields of a   *)
(* quack_oauth_server SECRET, the settings, and the presets of the known     *)
(* identity providers (secrets.cpp, settings.cpp, providers.cpp and          *)
(* LoadServerConfig of check_token_function.cpp).                            *)
(*                                                                          *)
(* A SECRET is a record of type, issuer, audience, jwksUri, endpoint (the     *)
(* introspection_endpoint), clientId, clientSecret and tenant                *)
(* (tenant_or_realm).  URLs and the tenant are records of HttpUrl, other      *)
(* fields texts; an absent field is empty.                                   *)
(***************************************************************************)
EXTENDS Integers, HttpUrl

CONSTANT MaxSkewS      \* the largest quack_oauth_clock_skew_s

ASSUME ServerConfigAssumption == MaxSkewS \in Nat /\ {"/", "certs", "introspect"} \subseteq Lexemes

NoSecret == [type |-> "", issuer |-> <<>>, audience |-> "", jwksUri |-> NoUrl, endpoint |-> NoUrl,
             clientId |-> <<>>, clientSecret |-> <<>>, tenant |-> NoUrl]

\* A SECRET as an operator writes it down.
WellFormedSecret(s) == WellFormed(s.jwksUri) /\ WellFormed(s.endpoint) /\ WellFormed(s.tenant)

NoConfig == [mode |-> "", issuer |-> <<>>, audience |-> "", skew |-> 0, jwksUri |-> NoUrl,
             endpoint |-> NoUrl, clientId |-> <<>>, clientSecret |-> <<>>]

\* CREATE SECRET raises nothing.  A SECRET that is read back from disk is not
\* validated again.
CreateServerSecret(s) ==
  ValidHttpUrl(Text(s.jwksUri)) /\ ValidHttpUrl(Text(s.endpoint)) /\ ValidTenantOrRealm(Text(s.tenant))

\* SET quack_oauth_clock_skew_s raises nothing.
OnClockSkewSeconds(s) == s \in 0..MaxSkewS

ReadServerConfigCore(s, mode, skew) ==
  [mode |-> IF mode = "" THEN "jwks" ELSE mode, issuer |-> s.issuer, audience |-> s.audience,
   skew |-> IF skew < 0 THEN 0 ELSE IF skew > MaxSkewS THEN MaxSkewS ELSE skew,
   jwksUri |-> s.jwksUri, endpoint |-> s.endpoint, clientId |-> s.clientId, clientSecret |-> s.clientSecret]

\* "GitHub" stands for the spellings with capitals.
ProviderFromString(name) ==
  CASE name = "GitHub"                                                  -> "github"
    [] name \in {"entra", "google", "keycloak", "okta", "github"}       -> name
    [] OTHER                                                            -> "generic"

On(host, rest) == [NoUrl EXCEPT !.scheme = Https, !.host = <<host>>, !.rest = rest]
Below(u, path) == [u EXCEPT !.rest = @ \o path]

\* The URLs of a provider's templates with the tenant in place of {tenant}.
ResolveProvider(id, tenant) ==
  LET t == Text(tenant) IN
  CASE id = "entra"    -> [issuer   |-> Text(On("login.microsoftonline.com", <<"/">> \o t \o <<"/", "v2.0">>)),
                           jwksUri  |-> On("login.microsoftonline.com", <<"/">> \o t \o <<"/", "keys">>),
                           endpoint |-> NoUrl]
    [] id = "google"   -> [issuer   |-> Text(On("accounts.google.com", <<>>)),
                           jwksUri  |-> On("www.googleapis.com", <<"/", "certs">>),
                           endpoint |-> On("oauth2.googleapis.com", <<"/", "tokeninfo">>)]
    [] id = "keycloak" -> [issuer   |-> t,
                           jwksUri  |-> Below(tenant, <<"/", "certs">>),
                           endpoint |-> Below(tenant, <<"/", "introspect">>)]
    [] id = "github"   -> [issuer   |-> Text(On("api.github.com", <<>>)),
                           jwksUri  |-> NoUrl,
                           endpoint |-> On("api.github.com", <<"/", "applications", "/">> \o t \o <<"/", "token">>)]
    [] OTHER           -> [issuer |-> <<>>, jwksUri |-> NoUrl, endpoint |-> NoUrl]

NoPreset(provider) == provider \in {"", "generic"}

\* The preset can be applied: okta needs explicit fields, all but google a tenant.
PresetApplies(provider, s) ==
  \/ NoPreset(provider)
  \/ /\ ProviderFromString(provider) = "okta" => s.issuer # <<>> /\ s.jwksUri # NoUrl
     /\ ProviderFromString(provider) # "google" => s.tenant # NoUrl

\* A field that the SECRET sets stays.
FillEmpty(cfg, r) ==
  [cfg EXCEPT !.issuer   = IF @ = <<>> THEN r.issuer ELSE @,
              !.jwksUri  = IF @ = NoUrl THEN r.jwksUri ELSE @,
              !.endpoint = IF @ = NoUrl THEN r.endpoint ELSE @]

ApplyProviderPreset(provider, s, cfg) ==
  LET id     == ProviderFromString(provider)
      filled == FillEmpty(cfg, ResolveProvider(id, s.tenant)) IN
  CASE NoPreset(provider)                       -> cfg
    [] ~NoPreset(provider) /\ id = "github"     ->
         [filled EXCEPT !.clientId = IF @ = <<>> THEN Text(s.tenant) ELSE @,
                        !.mode = IF @ = "jwks" THEN "github_check" ELSE @]
    [] OTHER                                    -> filled

\* Mutant: the URLs were checked when the SECRET was created.
TrustServerConfig(cfg) ==
  CASE cfg.mode = "jwks" -> cfg.jwksUri # NoUrl
    [] cfg.mode \in {"introspect", "tokeninfo", "github_check"} -> cfg.endpoint # NoUrl
    [] OTHER -> FALSE

\* ValidateServerConfig returns, i.e. does not throw.
ValidateServerConfig(cfg) ==
  CASE cfg.mode = "jwks" -> cfg.jwksUri # NoUrl /\ ValidHttpUrl(Text(cfg.jwksUri))
    [] cfg.mode \in {"introspect", "tokeninfo"} -> cfg.endpoint # NoUrl /\ ValidHttpUrl(Text(cfg.endpoint))
    [] cfg.mode = "github_check" ->
         /\ cfg.endpoint # NoUrl /\ cfg.clientId # <<>> /\ cfg.clientSecret # <<>>
         /\ ValidHttpUrl(Text(cfg.endpoint))
    [] OTHER -> FALSE

\* LoadServerConfig on one state of the settings and SECRETs; NoConfig if it throws.
LoadServerConfig(settings, secrets) ==
  LET s   == secrets[settings.secretName]
      cfg == ApplyProviderPreset(settings.provider, s,
                                 ReadServerConfigCore(s, settings.mode, settings.skew)) IN
  IF /\ settings.secretName # "" /\ s # NoSecret
     /\ PresetApplies(settings.provider, s) /\ ValidateServerConfig(cfg)
  THEN cfg ELSE NoConfig
==============================================================================
