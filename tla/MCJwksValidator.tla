-------------------------- MODULE MCJwksValidator --------------------------
(***************************************************************************)
(* Instances of JwksValidator for TLC: the keys, documents and tokens the   *)
(* configurations choose from.                                              *)
(***************************************************************************)
EXTENDS JwksValidator

\* a, b and c are usable signing keys; weak is an RSA key below 2048 bits,
\* enc an encryption key; ec has an algorithm of its own.
MCKeys       == {"a", "b", "c", "weak", "enc", "ec"}
MCAlgs       == {"RS256", "ES256"}
MCAlgsOf     == [x \in MCKeys |-> IF x = "ec" THEN {"ES256"} ELSE {"RS256"}]
MCSigKeys    == MCKeys \ {"enc"}
MCUsableKeys == MCKeys \ {"enc", "weak"}

\* Documents: the keys under k1, the keys under k2.
Listing(k1, k2) == [kid \in Kids |-> IF kid = "k1" THEN k1 ELSE IF kid = "k2" THEN k2 ELSE <<>>]

Before     == Listing(<<"a">>, <<"b">>)
Rotated    == Listing(<<"c">>, <<"b">>)            \* k1 has new material
Withdrawn  == Listing(<<>>, <<"b">>)               \* k1 is gone
Overlap    == Listing(<<"a", "enc", "b", "a", "c">>, <<"weak", "b">>)  \* above the cap of two keys
Odd        == Listing(<<"enc", "c", "ec", "c">>, <<"weak", "b">>)  \* repeated, unusable, other alg
Weakened   == Listing(<<>>, <<"weak">>)            \* k1 is gone, k2 listed but unusable

PlainDocs      == {Before, Rotated, Withdrawn}
RotationDocs   == PlainDocs \union {Overlap}
TenantDocs     == {Withdrawn, Odd, Weakened}

Token(kid, alg, signer, claims, early) ==
  [kid |-> kid, alg |-> alg, signer |-> signer, claims |-> claims, early |-> early]

NewToken   == Token("k1", "RS256", "c", "Ok", "None")
BToken     == Token("k2", "RS256", "b", "Expired", "None")
ForgedB    == Token("k2", "RS256", "a", "Ok", "None")
BadToken   == Token("k1", "RS256", "a", "Ok", "Malformed")

RotationTokens == {NewToken, BToken}
TenantTokens   == {NewToken, ForgedB, BadToken}
\* ForgedB makes the kid k2, whose own key does not change, be refreshed.
StaleTokens    == {NewToken, ForgedB}

\* The endpoints are interchangeable: the one an idle row holds is never read.
ThreadSymmetry == Permutations(Threads)
UriSymmetry    == Permutations(Uris)
============================================================================
