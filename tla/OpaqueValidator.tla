--------------------------- MODULE OpaqueValidator ---------------------------
(***************************************************************************)
(* The validation modes for opaque tokens: introspect and tokeninfo         *)
(* (validator.cpp) and github_check (github_check.cpp).  Each asks the      *)
(* identity provider about a token and caches a positive answer in the one  *)
(* DecisionCache of the process, while tokens are revoked at the provider   *)
(* and the clock moves.                                                     *)
(*                                                                          *)
(* As in JwksValidator, a thread validates the rows of a chunk with one     *)
(* reading of the clock and one configuration, taken before it has the      *)
(* mutex, and drops the mutex around every POST.  Here each stretch with    *)
(* the mutex held is one action.                                            *)
(***************************************************************************)
EXTENDS DecisionCache

CONSTANTS
  Threads,
  EmptyToken,       \* the empty string, a member of Tokens
  Claims,           \* Claims[k]: issuing provider, exp (0: none), iss ("": none), aud
  Configs,          \* server configurations: mode, issuer, audience
  ClockSkewS,       \* quack_oauth_clock_skew_s
  MaxRetries,       \* max_retries of RetryingHttpClient
  ClockDeltas,      \* how the system clock may move
  MaxClockSteps,    \* bound: clock movements
  MaxRows           \* bound: tokens presented, over all threads

Modes == {"introspect", "tokeninfo", "github_check"}

ASSUME OpaqueAssumption ==
  /\ EmptyToken \in Tokens /\ Configs # {}
  /\ \A k \in Tokens : Claims[k].idp \in Modes /\ Claims[k].exp \in Nat
  /\ \A cfg \in Configs : cfg.mode \in Modes
  /\ ClockSkewS \in Nat /\ MaxRetries \in Nat
  /\ ClockDeltas \subseteq Int /\ MaxClockSteps \in Nat /\ MaxRows \in Nat

VARIABLES
  decisions,   \* QuackOauthState::decision_cache
  row,         \* per thread: the locals of the row being validated
  clock,       \* the system clock, in seconds
  steps,       \* clock movements so far
  revokedAt,   \* per token: when the provider revoked it, or NotRevoked
  rows         \* tokens presented so far

vars == <<decisions, row, clock, steps, revokedAt, rows>>
env  == <<clock, steps, revokedAt, rows>>

NotRevoked == 0

IdleRow ==
  [ pc      |-> "Idle",
    now     |-> 0,                 \* opts.now_s, fixed for the chunk
    cfg     |-> CHOOSE cfg \in Configs : TRUE,
    tok     |-> EmptyToken,
    attempt |-> 0,                 \* HTTP attempts already failed
    resp    |-> "None",
    result  |-> "None",
    cached  |-> FALSE ]            \* the result came from the decision cache

Init ==
  /\ decisions = EmptyDecisions
  /\ row = [t \in Threads |-> IdleRow]
  /\ clock = 1
  /\ steps = 0
  /\ revokedAt = [k \in Tokens |-> NotRevoked]
  /\ rows = 0

(***************************************************************************)
(* The environment: clock and identity provider.                            *)
(***************************************************************************)
Tick(d) ==
  /\ steps < MaxClockSteps
  /\ clock + d >= 1
  /\ clock' = clock + d
  /\ steps' = steps + 1
  /\ UNCHANGED <<decisions, row, revokedAt, rows>>

Revoke(k) ==
  /\ k # EmptyToken /\ revokedAt[k] = NotRevoked
  /\ revokedAt' = [revokedAt EXCEPT ![k] = clock]
  /\ UNCHANGED <<decisions, row, clock, steps, rows>>

(***************************************************************************)
(* Rows of a chunk.                                                         *)
(***************************************************************************)
Present(t, cfg, k, now) ==
  /\ rows < MaxRows
  /\ rows' = rows + 1
  /\ row' = [row EXCEPT ![t] = [IdleRow EXCEPT !.pc = "Ready", !.now = now, !.cfg = cfg, !.tok = k]]
  /\ UNCHANGED <<decisions, clock, steps, revokedAt>>

StartChunk(t, cfg, k) == row[t].pc = "Idle" /\ Present(t, cfg, k, clock)

NextRow(t, k) == row[t].pc = "Done" /\ Present(t, row[t].cfg, k, row[t].now)

FinishChunk(t) ==
  /\ row[t].pc = "Done"
  /\ row' = [row EXCEPT ![t] = IdleRow]
  /\ UNCHANGED decisions /\ UNCHANGED env

Return(t, result, cached) ==
  row' = [row EXCEPT ![t] = [@ EXCEPT !.pc = "Done", !.attempt = 0, !.resp = "None",
                                      !.result = result, !.cached = cached]]

RejectEmpty(t) ==
  /\ row[t].pc = "Ready"
  /\ row[t].tok = EmptyToken
  /\ Return(t, "Malformed", FALSE)
  /\ UNCHANGED decisions /\ UNCHANGED env

AcceptCached(t) ==
  /\ row[t].pc = "Ready" /\ row[t].tok # EmptyToken
  /\ Covers(decisions, row[t].tok, row[t].now)
  /\ decisions' = Touch(decisions, row[t].tok, row[t].now)
  /\ Return(t, "Ok", TRUE)
  /\ UNCHANGED env

\* No decision: POST to the provider without the mutex.
Ask(t) ==
  /\ row[t].pc = "Ready" /\ row[t].tok # EmptyToken
  /\ ~Covers(decisions, row[t].tok, row[t].now)
  /\ decisions' = Touch(decisions, row[t].tok, row[t].now)
  /\ row' = [row EXCEPT ![t].pc = "Asking"]
  /\ UNCHANGED env

(***************************************************************************)
(* The provider vouches only for tokens it issued and has not revoked; it   *)
(* may also deny one, refuse the request or answer garbage.  5xx answers    *)
(* and transport failures are tried again.                                  *)
(***************************************************************************)
Respond(t, resp) ==
  /\ row' = [row EXCEPT ![t] = [@ EXCEPT !.pc = "Answered", !.attempt = 0, !.resp = resp]]
  /\ UNCHANGED decisions /\ UNCHANGED env

Vouches(t) == revokedAt[row[t].tok] = NotRevoked /\ Claims[row[t].tok].idp = row[t].cfg.mode

Answer(t) ==
  /\ row[t].pc = "Asking"
  /\ \/ Vouches(t) /\ Respond(t, "Active")
     \/ \E resp \in {"Inactive", "Refused", "Garbled"} : Respond(t, resp)

\* Mutant: the loop over max_retries runs once more.
AttemptFailsOnceMore(t) ==
  /\ row[t].pc = "Asking"
  /\ \/ /\ row[t].attempt <= MaxRetries
        /\ row' = [row EXCEPT ![t].attempt = @ + 1]
        /\ UNCHANGED decisions /\ UNCHANGED env
     \/ row[t].attempt > MaxRetries /\ Respond(t, "Refused")

AttemptFails(t) ==
  /\ row[t].pc = "Asking"
  /\ \/ /\ row[t].attempt < MaxRetries
        /\ row' = [row EXCEPT ![t].attempt = @ + 1]
        /\ UNCHANGED decisions /\ UNCHANGED env
     \/ row[t].attempt = MaxRetries /\ Respond(t, "Refused")

(***************************************************************************)
(* The mutex is back and the response is at hand.                           *)
(***************************************************************************)
\* Issuer and audience are advisory when the provider does not return them.
IntrospectOutcome(cfg, c) ==
  CASE cfg.iss # "" /\ c.iss # "" /\ c.iss # cfg.iss -> "WrongIssuer"
    [] ~(cfg.iss # "" /\ c.iss # "" /\ c.iss # cfg.iss)
       /\ cfg.aud # "" /\ c.aud # {} /\ cfg.aud \notin c.aud -> "WrongAudience"
    [] OTHER -> "Ok"

\* c.aud holds aud and azp.
TokeninfoOutcome(cfg, c, now) ==
  CASE cfg.aud # "" /\ cfg.aud \notin c.aud -> "WrongAudience"
    [] ~(cfg.aud # "" /\ cfg.aud \notin c.aud) /\ c.exp > 0 /\ now > c.exp + ClockSkewS -> "Expired"
    [] OTHER -> "Ok"

Outcome(r) ==
  CASE r.resp = "Refused"  -> "JwksFetchFailed"
    [] r.resp = "Garbled"  -> IF r.cfg.mode = "github_check" THEN "Malformed" ELSE "JwksFetchFailed"
    [] r.resp = "Inactive" -> "InvalidSignature"
    [] r.resp = "Active" /\ r.cfg.mode = "introspect" -> IntrospectOutcome(r.cfg, Claims[r.tok])
    [] r.resp = "Active" /\ r.cfg.mode = "tokeninfo"  -> TokeninfoOutcome(r.cfg, Claims[r.tok], r.now)
    [] OTHER -> "Ok"

\* GitHub's expires_at is not parsed: the principal has no expiry.
PrincipalExp(r) == IF r.cfg.mode = "github_check" THEN 0 ELSE Claims[r.tok].exp

\* Mutant: the decision is stamped when the answer arrives.
StampAtStore(r) == clock

StoreStamp(r) == r.now

Decide(t) ==
  /\ row[t].pc = "Answered"
  /\ decisions' = IF Outcome(row[t]) = "Ok"
                  THEN Store(decisions, row[t].tok, PrincipalExp(row[t]), StoreStamp(row[t]))
                  ELSE decisions
  /\ Return(t, Outcome(row[t]), FALSE)
  /\ UNCHANGED env

(***************************************************************************)
(* The specification.                                                       *)
(***************************************************************************)
Environment == (\E d \in ClockDeltas : Tick(d)) \/ (\E k \in Tokens : Revoke(k))

Caller(t) ==
  \/ \E cfg \in Configs, k \in Tokens : StartChunk(t, cfg, k)
  \/ \E k \in Tokens : NextRow(t, k)
  \/ FinishChunk(t)

Validate(t) ==
  RejectEmpty(t) \/ AcceptCached(t) \/ Ask(t) \/ Answer(t) \/ AttemptFails(t) \/ Decide(t)

Next == Environment \/ \E t \in Threads : Caller(t) \/ Validate(t)

Spec == Init /\ [][Next]_vars

(***************************************************************************)
(* Properties.                                                              *)
(***************************************************************************)
Results == {"None", "Ok", "Malformed", "JwksFetchFailed", "InvalidSignature", "WrongIssuer",
            "WrongAudience", "Expired"}

RowTypeOK(r) ==
  /\ DOMAIN r = {"pc", "now", "cfg", "tok", "attempt", "resp", "result", "cached"}
  /\ r.pc \in {"Idle", "Ready", "Asking", "Answered", "Done"}
  /\ r.now \in Nat /\ r.cfg \in Configs /\ r.tok \in Tokens
  /\ r.attempt \in 0..MaxRetries /\ (r.attempt > 0 => r.pc = "Asking")
  /\ r.resp \in {"None", "Active", "Inactive", "Refused", "Garbled"}
  /\ r.pc = "Answered" <=> r.resp # "None"
  /\ r.result \in Results /\ r.cached \in BOOLEAN

\* Every variable keeps its type; a POST that fails is sent again at most
\* max_retries times, and the count starts afresh with each token
\* (RunWithRetries of retry_http_client.cpp).
TypeOK ==
  /\ DecisionsTypeOK(decisions)
  /\ DOMAIN row = Threads /\ \A t \in Threads : RowTypeOK(row[t])
  /\ clock \in Nat \ {0}
  /\ revokedAt \in [Tokens -> Nat]

\* index_ and entries_ hold the same tokens, each once, within max_entries,
\* and a dropped decision leaves nothing behind (decision_cache.cpp).
DecisionsConsistent ==
  /\ decisions.held = ToSet(decisions.lru) /\ IsInjective(decisions.lru)
  /\ Len(decisions.lru) <= MaxDecisions
  /\ \A k \in Tokens \ decisions.held : decisions.entry[k] = NoDecision

\* The clock is never set back.
ForwardClock == ClockDeltas \subseteq Nat

\* The last moment at which the provider may have vouched for k.
LastVouch(k) == IF revokedAt[k] = NotRevoked THEN clock ELSE revokedAt[k]

\* While the clock runs forward, no stored decision reaches further than a
\* cache lifetime past the last moment the provider may have vouched for its
\* token, and no row holds a positive answer or verdict newer than that:
\* what RevocationTakesEffect follows from.
RevocationInv ==
  /\ \A k \in Tokens : revokedAt[k] <= clock
  /\ \A k \in decisions.held : decisions.entry[k].expiresAt <= LastVouch(k) + DecisionTtlS
  /\ \A t \in Threads :
       /\ row[t].now <= clock
       /\ row[t].resp = "Active" => row[t].now <= LastVouch(row[t].tok)
       /\ row[t].pc = "Done" /\ row[t].result = "Ok"
            => row[t].now < LastVouch(row[t].tok) + DecisionTtlS

\* While the clock runs forward, revocation takes effect: no chunk that read
\* the clock a whole cache lifetime after the revocation accepts the token,
\* although answers given before it may be stored long after it.
RevocationTakesEffect ==
  \A t \in Threads :
    row[t].pc = "Done" /\ row[t].result = "Ok" /\ revokedAt[row[t].tok] # NotRevoked
      => row[t].now < revokedAt[row[t].tok] + DecisionTtlS

\* A decision is never served at or past the expiry its provider reported,
\* whichever of several chunks stored it last; a tokeninfo answer is accepted
\* at most the clock skew after it.
ExpiryRespected ==
  \A t \in Threads :
    LET c == Claims[row[t].tok] IN
    row[t].pc = "Done" /\ row[t].result = "Ok" /\ c.exp > 0 =>
      /\ row[t].cached /\ c.idp # "github_check" => row[t].now < c.exp
      /\ c.idp = "tokeninfo" => row[t].now <= c.exp + ClockSkewS
==============================================================================
