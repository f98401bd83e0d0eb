------------------------------ MODULE JwtVerify ------------------------------
(***************************************************************************)
(* The verdict on one JWT: VerifyJwt of jwt_verify.cpp, run on each key that *)
(* is cached under the token's kid (VerifyWithCachedKeys of validator.cpp).   *)
(*                                                                          *)
(* A token is a record: alg; signer, the id of the key that made the          *)
(* signature; iss and aud (a set); exp, nbf and iat, NoTime where absent;     *)
(* malformed, when it does not decode.  A JWK is a record: kty, bits, crv,    *)
(* use, alg, id, complete (its members are there and decode) and sound (they  *)
(* make a key).  opts is VerifyOptions.  Since jwt-cpp checks the claims in    *)
(* the order of a hash map, an operator that depends on that order yields the  *)
(* set of the possible results.                                               *)
(***************************************************************************)
EXTENDS Integers, Sequences, FiniteSetsExt

NoTime == -1

DefaultAllowedAlgorithms == {"RS256", "RS384", "RS512", "ES256", "ES384", "EdDSA"}
IsForbiddenAlgorithm(alg) == alg \in {"", "none", "HS256", "HS384", "HS512"}
IsAlgorithmAllowed(alg)   == alg \in DefaultAllowedAlgorithms

\* A decoded key as OpenSSL takes it: sound if its numbers are a key of its
\* kind (a modulus with an exponent, a point of the curve).
RsaPublicKeyToPem(jwk) ==
  CASE ~jwk.sound \/ jwk.bits < 512       -> "None"
    [] jwk.sound /\ jwk.bits \in 512..2047 -> "Sub2048"
    [] OTHER                              -> "Pem"
EcPublicKeyToPem(jwk)  == IF jwk.sound THEN "Pem" ELSE "None"
OkpPublicKeyToPem(jwk) == IF jwk.sound THEN "Pem" ELSE "None"

\* A key is complete if the fields of its type are there and are base64url.
JwkRsaToPem(jwk) == IF jwk.complete THEN RsaPublicKeyToPem(jwk) ELSE "None"
JwkEcToPem(jwk)  == IF jwk.complete /\ jwk.crv \in {"P-256", "P-384"} THEN EcPublicKeyToPem(jwk) ELSE "None"
JwkOkpToPem(jwk) == IF jwk.complete /\ jwk.crv = "Ed25519" THEN OkpPublicKeyToPem(jwk) ELSE "None"
ToPem(jwk) ==
  CASE jwk.kty = "RSA" -> JwkRsaToPem(jwk)
    [] jwk.kty = "EC"  -> JwkEcToPem(jwk)
    [] jwk.kty = "OKP" -> JwkOkpToPem(jwk)
    [] OTHER           -> "None"

KnownKeyTypes == {"RSA", "EC", "OKP"}
IsUsableSigningKey(jwk) == jwk.kty \in KnownKeyTypes /\ ToPem(jwk) = "Pem"

\* The key shapes that jwt-cpp's algorithm constructors accept.
FitsAlgorithm(alg, jwk) ==
  CASE alg \in {"RS256", "RS384", "RS512"} -> jwk.kty = "RSA"
    [] alg = "ES256"                       -> jwk.kty = "EC" /\ jwk.crv = "P-256"
    [] alg = "ES384"                       -> jwk.kty = "EC" /\ jwk.crv = "P-384"
    [] OTHER                               -> jwk.kty = "OKP"

\* What jwt-cpp finds wrong with the claims, by its error codes.  A required
\* aud that is absent is a missing claim or a mismatch, by the library's version.
ClaimErrors(tok, opts) ==
  {e \in {"token_expired", "claim_value_missmatch", "audience_missmatch", "missing_claim"} :
     CASE e = "token_expired"         -> \/ tok.exp # NoTime /\ opts.now > tok.exp + opts.skew
                                         \/ tok.nbf # NoTime /\ opts.now < tok.nbf - opts.skew
                                         \/ tok.iat # NoTime /\ opts.now < tok.iat - opts.skew
       [] e = "claim_value_missmatch" -> opts.issuer # <<>> /\ tok.iss # opts.issuer
       [] e = "audience_missmatch"    -> opts.audience # "" /\ opts.audience \notin tok.aud
       [] e = "missing_claim"         -> opts.audience # "" /\ tok.aud = {}}

\* Mutant: every time-based error is an expiry.
MapTimeToExpired(e, tok, opts) ==
  CASE e = "token_expired" -> "Expired" [] e = "audience_missmatch" -> "WrongAudience" [] OTHER -> "WrongIssuer"

\* MapVerificationError, after token_expired has been told apart by nbf.
MapVerificationError(e, tok, opts) ==
  CASE e = "token_expired"         -> IF tok.nbf # NoTime /\ opts.now + opts.skew < tok.nbf
                                      THEN "NotYetValid" ELSE "Expired"
    [] e = "audience_missmatch"    -> "WrongAudience"
    [] OTHER                       -> "WrongIssuer"

VerifyWithVerifier(tok, jwk, opts) ==
  CASE ~FitsAlgorithm(tok.alg, jwk) \/ tok.signer # jwk.id  -> {"InvalidSignature"}
    [] FitsAlgorithm(tok.alg, jwk) /\ tok.signer = jwk.id /\ ClaimErrors(tok, opts) = {} -> {"Ok"}
    [] OTHER -> {MapVerificationError(e, tok, opts) : e \in ClaimErrors(tok, opts)}

VerifyJwt(tok, jwk, opts) ==
  CASE tok.malformed                                                        -> {"Malformed"}
    [] ~tok.malformed /\ (IsForbiddenAlgorithm(tok.alg) \/ ~IsAlgorithmAllowed(tok.alg))
                                                                            -> {"DisallowedAlgorithm"}
    [] OTHER -> CASE jwk.kty \notin KnownKeyTypes \/ ToPem(jwk) = "Sub2048" -> {"UnsupportedKeyType"}
                  [] jwk.kty \in KnownKeyTypes /\ ToPem(jwk) = "None"       -> {"UnusableKey"}
                  [] OTHER                                                  -> VerifyWithVerifier(tok, jwk, opts)

SignatureMatchesCandidate(res) == res \in {"Ok", "Expired", "NotYetValid", "WrongIssuer", "WrongAudience"}

JwkMatchesTokenHeader(jwk, alg) == jwk.use \in {"", "sig"} /\ jwk.alg \in {"", alg}

\* The keys tried are those of listed at the positions tried, in this order.  The
\* first key whose signature matches decides; without one, a failed signature
\* goes before an unsupported key, and that before the rest.
VerifyWithCachedKeys(tok, listed, tried, opts) ==
  LET results == [i \in tried |-> VerifyJwt(tok, listed[i], opts)]
      matches == {i \in tried : \A x \in results[i] : SignatureMatchesCandidate(x)}
      all     == UNION {results[i] : i \in tried} IN
  CASE tried = {}                                                     -> {"UnknownKid"}
    [] tried # {} /\ matches # {}                                     -> results[Min(matches)]
    [] tried # {} /\ matches = {} /\ "InvalidSignature" \in all        -> {"InvalidSignature"}
    [] tried # {} /\ matches = {} /\ all = {"UnsupportedKeyType"}      -> all
    [] OTHER -> results[Max({i \in tried : results[i] # {"UnsupportedKeyType"}})]

\* A token judged by the keys listed under its kid: usable ones are cached,
\* those whose use and alg fit its header are tried.
ValidateToken(tok, listed, opts) ==
  LET cached   == {i \in DOMAIN listed : IsUsableSigningKey(listed[i])}
      matching == {i \in cached : JwkMatchesTokenHeader(listed[i], tok.alg)} IN
  CASE tok.malformed                                                        -> {"Malformed"}
    [] ~tok.malformed /\ (IsForbiddenAlgorithm(tok.alg) \/ ~IsAlgorithmAllowed(tok.alg))
                                                                            -> {"DisallowedAlgorithm"}
    [] OTHER -> CASE cached = {}                      -> {"UnknownKid"}
                  [] cached # {} /\ matching = {}     -> {"NoMatchingKey"}
                  [] OTHER                            -> VerifyWithCachedKeys(tok, listed, matching, opts)

PrincipalFromJwt(tok) == [issuer |-> tok.iss, exp |-> IF tok.exp = NoTime THEN 0 ELSE tok.exp]
IsPrincipalExpired(p, now, skew) == p.exp > 0 /\ now > p.exp + skew
==============================================================================
