---------------------------- MODULE MCClientTokens ----------------------------
(***************************************************************************)
(* Instances of ClientTokens for TLC: what operators put on the SECRET.     *)
(***************************************************************************)
EXTENDS ClientTokens

Secret(clientSecret, deviceEndpoint, at, expiresAt, rt) ==
  [ clientId |-> TRUE, clientSecret |-> clientSecret, tokenEndpoint |-> TRUE,
    deviceEndpoint |-> deviceEndpoint, at |-> at, expiresAt |-> expiresAt, rt |-> rt ]

\* A service with a refresh token, a user's device, and a token put there by
\* hand with an expiry that cannot be read.
MCSecrets ==
  { Secret(TRUE, FALSE, NoToken, Unreadable, 1),
    Secret(FALSE, TRUE, NoToken, Unreadable, NoRt),
    [Secret(FALSE, FALSE, [until |-> 2], Unreadable, NoRt) EXCEPT !.clientId = FALSE] }
==============================================================================
