-------------------------- MODULE MCOpaqueValidator --------------------------
(***************************************************************************)
(* Instances of OpaqueValidator for TLC: tokens, their claims and server    *)
(* configurations.                                                          *)
(***************************************************************************)
EXTENDS OpaqueValidator

Claim(idp, exp, iss, aud) == [idp |-> idp, exp |-> exp, iss |-> iss, aud |-> aud]
Config(mode, iss, aud) == [mode |-> mode, iss |-> iss, aud |-> aud]

\* The empty token is never looked at.
MCClaims ==
  [k \in Tokens |->
     CASE k = "long"  -> Claim("introspect", 4, "https://idp", {"api"})
       [] k = "short" -> Claim("tokeninfo", 2, "", {"api", "azp"})
       [] OTHER       -> Claim("github_check", 0, "", {})]

\* One configuration of each mode.
MCConfigs ==
  { Config("introspect", "https://idp", "api"), Config("tokeninfo", "", "api"),
    Config("github_check", "", "") }

ThreadSymmetry == Permutations(Threads)
==============================================================================
