# TLA+ models of quack-oauth

quack-oauth is a DuckDB extension that puts OAuth 2.0 / OIDC in front of the
`quack` server. The server asks it two questions: *is this bearer token good?*
(`quack_oauth_check_token`) and *may this session run this query?*
(`quack_oauth_check_authorization`). Everything it remembers between calls lives
in one process-wide object, `QuackOauthState`, behind one mutex. Several DuckDB
threads use it at once, and they let go of the mutex whenever they talk to the
identity provider. On the client side it obtains, refreshes and forgets tokens
that DuckDB's secret manager stores. This directory models both, checks them with
TLC on small instances, and proves their safety properties with TLAPS for every
value of the parameters. Section 4 says from which assumptions, and what is left
to TLC.

Paths below are relative to the repository root (`src/jwks_cache.cpp`, ...).

## 1. Inventory

| Component | State | Operations | What makes it correct |
|---|---|---|---|
| JWKS key cache (`src/jwks_cache.cpp`) | `hits_`, `misses_` with an LRU list each, global fetch stamp, stamp per endpoint, reservation counter | lookup, reserve/commit a refresh, ingest (active, passive), record a miss, count absences, reconcile | maps and lists agree; bounds hold; an older refresh never replaces a newer one; a kid is dropped only on corroborated absence or for room; the budget holds |
| JWT validation (`src/validator.cpp`) | locals of a row | `ValidateToken`: hit, throttle, cold fetch, refresh, sibling ingestion, re-verification | a token passes only by a key its endpoint listed under its kid; an outage costs no keys; every row is decided |
| Decision cache (`src/decision_cache.cpp`) | LRU map token → principal and end of validity | lookup, store | index and list agree; nothing is served past its window |
| Opaque validation (`src/validator.cpp`, `src/github_check.cpp`, `src/tokeninfo.cpp`, `src/introspect.cpp`) | locals of a row | introspect, tokeninfo, github_check | revocation takes effect after one cache lifetime; expiry is respected |
| HTTP client stack (`src/retry_http_client.cpp`, `UnlockingHttpClient` in `src/check_token_function.cpp`) | attempts | GET, POST, retry on 5xx and transport failure | mutex released during I/O and sleep, held again afterwards |
| check_token (`src/check_token_function.cpp`) | `session_principals` | validate a chunk of rows, file the principal under the session, audit | bounded map, the right victim; audit without deadlock |
| check_authorization (`src/check_authorization_function.cpp`, `src/principal_expiry.cpp`) | – | look up, expire, apply policy, audit | allowed only under the current, unexpired principal and a loaded policy |
| Audit (`src/audit.cpp`, `src/audit_sink.cpp`) | ring buffer | push, snapshot | the snapshot is the window of the most recent events |
| Policy (`src/policy.cpp`, `src/policy_table.cpp`, `src/authz.cpp`) | a table per chunk | load, match, evaluate | fail closed; the first rule by priority decides each cell, and every cell has to be allowed |
| SQL inspection (`src/sql_inspect.cpp`, `src/inspect_sql_function.cpp`) | one `AuthzRequest` per text | classify statements, walk their parse trees | the request names all that the text reaches and nothing hides under its action; what cannot be read is unsafe |
| JWT verification (`src/jwt_verify.cpp`, `src/jwt_parse.cpp`) | – | verify a signature and the claims by one key | accepted exactly if a usable key signed it and the claims fit; a rejection names a check that failed |
| Configuration (`src/secrets.cpp`, `src/providers.cpp`, `src/plaintext_guard.cpp`, `LoadServerConfig` in `src/check_token_function.cpp`) | SECRETs and settings, kept by DuckDB | CREATE SECRET, read, fill from a preset, validate, guard | no token goes to an unprotected endpoint; a change takes effect |
| Settings (`src/settings.cpp`) | refresh window and its floor | SET callbacks | the floor cannot be lowered |
| Client side (`src/acquire_*.cpp`, `src/refresh_function.cpp`, `src/login_function.cpp`, `src/logout_function.cpp`, `src/device_*.cpp`, `src/secret_accessor.cpp`) | the stored secret | acquire, refresh, login, device login, logout | a logout is not undone, a rotated refresh token is not lost |
| Throttle log (`LogThrottledEvents` in `src/check_token_function.cpp`) | `last_throttle_logged_s` | log once per window, prune | a chatty client does not flood the log, the map stays bounded |
| Diagnostics (`src/diagnose.cpp`, `src/idp_probe.cpp`) | a probe cache | reports; one HTTP probe | a cached probe is recent and of the right URI |

**Interaction.** quack calls the two scalar functions from any of its threads.
`ValidateChunk` reads the configuration, setting by setting, and the clock, takes
the mutex, and runs
one of four validators over its rows. Each goes through `RetryingHttpClient` to
`UnlockingHttpClient`, which releases the mutex for the call. After each row the
mutex is released again so that `EmitAuditEvent` can take it. All readings of
the clock in a chunk are the one taken at its start. check_authorization takes
the mutex for each access to the sessions, and once more in `EmitAuditEvent`.
The client functions share no memory: they meet in the SECRET, which each reads,
holds across its HTTP calls and writes back as a whole, and at the provider.

**What is hard.** State is looked up before an HTTP call and acted upon after
it; documents arrive late and out of order; clock readings of different ages
meet in one cache; bounded maps evict what another thread relies on; expiry is
checked under one lock and acted on under another; settings change between two
reads of one call; aliases and nested statements hide what a query does.
`PROJECT.json` lists these
hazards at their lines, with the properties that watch them.

## 2. Modules

| Module | Models |
|---|---|
| `Lru` | the recency lists of both caches |
| `JwksCache` | the methods of `JwksCache` as operators from cache to cache |
| `JwksValidator` | `ValidateToken` on several threads, with the identity provider, the clock and the operator |
| `DecisionCache` | the methods of `DecisionCache` |
| `OpaqueValidator` | the three opaque modes on several threads, with revocation |
| `AuditRing` | the ring buffer |
| `Policy` | policy tables: loading, patterns, evaluation; the default policy; a reference semantics of a table |
| `AuditWindow` | abstract: the most recent events, oldest first |
| `SessionAuthz` | both callbacks, the sessions, the policy, the audit and the mutex; shows that the ring implements `AuditWindow` |
| `SqlInspect` | the walk over the parse tree of a statement, as operators |
| `SqlAuthz` | a request from text to decision: `InspectSql`'s loop, then `Policy`; a reference for what statements reach and change |
| `HttpUrl` | parsing and validation of URLs and listener URIs |
| `ServerConfig` | SECRET fields, settings, presets, validation |
| `JwtVerify` | the verdict on a JWT by the keys of its kid |
| `ThrottleLog` | the map of logged warnings and its pruning |
| `CheckToken` | check_token from the plaintext guard to the end of the chunk, with `diagnose()` and an operator beside it; composes the four above with `DecisionCache` |
| `ClientTokens` | acquire, refresh, login, device login and logout from several connections on one SECRET, with the provider and DuckDB's transactions |
| `MCJwksValidator`, `MCOpaqueValidator`, `MCSessionAuthz`, `MCClientTokens`, `MCSqlAuthz`, `MCCheckToken` | instances for TLC |
| `CacheProofs`, `PolicyProofs` | TLAPS: lemmas about recency lists and the decision cache, one operation at a time; what a pattern matches and a policy table decides |
| `JwksValidatorProofs`, `OpaqueValidatorProofs`, `SessionAuthzProofs`, `ClientTokensProofs`, `CheckTokenProofs`, `SqlAuthzProofs` | TLAPS: theorems about the components |

**How actions correspond to code.** A stretch of code that runs with the mutex
held and ends with its release is one action if it makes a bounded number of
cache calls. The two loops over the kids of a document (evict, ingest) are one
action per iteration, with the variable `mu` recording that the mutex stays
held; their order, that of an `unordered_map`, is arbitrary in the model too. So
a refresh is `StartRefresh` (lookup, budget, reservation, budget stamp), `Answer`
or `AttemptFails` (without the mutex), one of `RefreshFailed`, `TargetAbsent`,
`TargetUnusable`, `TargetCommitted`, `TargetSuperseded` (`CommitTargetKid` and
the counting loop of `ReconcileAbsentKids`), then `EvictAbsent` and `IngestKid`
steps, and `FinishRefresh` (`ReverifyAfterCommit`).

**Data.** A key is a value that equals another iff `SameKeyMaterial` says so. A
token carries its kid, its header algorithm, the key that really signed it, and
the outcome of its claim checks; verification succeeds only for that key. A
document maps kids to lists of keys; one that does not parse is empty. The
SHA-256 of a token stands for itself. In SessionAuthz a query is the
`AuthzRequest` that `InspectSql` makes of it: an action, objects and columns, or
unsafe; SqlAuthz has the query itself. Names and
patterns are sequences of characters, since `GlobMatch` is about them; a
document of rules is ordered by priority, with ties in any order. Log lines,
counters for diagnostics, issuers and claims beyond what a decision
depends on are left out. `exp` is not negative. In JwksValidator and
OpaqueValidator an HTTP client that throws is not modelled; in SessionAuthz it
ends the chunk (`FinishTokenChunk`). `jwks_uri` is never empty, as
`ValidateServerConfig` demands for the jwks mode.

**Parse trees.** A node of SqlInspect is a record with its sort (the C++ type),
its kind, its name and, under the names of DuckDB's members, its children. Each
function of `src/sql_inspect.cpp` is an operator that says what it adds to the
request for one node and which calls it makes on the nodes below, with which
aliases in scope. The code goes down depth first; since it only ever adds to the
request, the order of the calls does not matter, and `Walk` makes them level by
level, so that it is a recursive function of the depth. Members that the walk
treats alike are one member. The reference in SqlAuthz does not follow the walk:
it lists every path from the root to a node (`Trails`), resolves a name by the
definitions on that path, and reads off what each node touches and changes.
`Parsed` says what the parser builds: under which members a node of a kind has
parts, of which sort, and which pointers are never null; the query that defines
a type is a SELECT. What neither has: tables that a
FOREIGN KEY refers to, the column names of USING, SET and INSERT lists, and the
direction of a COPY that is nested in another one.

**A call of check_token.** In CheckToken each setting is read in a step of its
own, as the code reads it, so that `SET`, `CREATE SECRET`, `DROP SECRET` or a new
listener comes between any two; the fields of the SECRET are one snapshot
(`SecretAccessor`). A chunk has one row. The keys of an endpoint and the answers
of a provider are taken as given, since their caches are the subject of
JwksValidator and OpaqueValidator; the decision cache is here again because it
outlives the configuration its decisions were made under. A URL is a record of
its parts, and a sequence of lexemes for the code that parses it; the properties
look at the parts, the code at the lexemes. `Starts` may hold any SECRET, valid
or not, as one restored from disk is not validated again.

**The SECRET.** ClientTokens takes three things of DuckDB's secret manager on
trust, as the comment at `src/acquire_function.cpp:90-97` relies on them: a
transaction sees the SECRET as of its beginning with its own writes on top; the
first of two concurrent writers wins and the other one throws; an exception ends
the transaction. `Conflict`, `Commit` and `Rollback` stand for it and are marked
external. An access token is the second until which the provider honours it, a
refresh token a number, and the provider may rotate at every grant: the response
then has a new refresh token, and the one used is spent. Providers that do not
spend it allow more, so nothing here depends on rotation. `expires_at` can be
read back iff it was written in the format of `FormatUtcIso8601` with a
four-digit year. The deadline of the device flow is on the steady clock and is
modelled as what is left of it.

**History.** `hist` (JwksValidator), `latest` and `source` (SessionAuthz), `lost`, `missed`
and `spent` (ClientTokens), `vouch`, `used` and `lines` (CheckToken) record what has
happened for the sake of properties; no action's guard reads them.

## 3. Runs

All runs have `CHECK_DEADLOCK FALSE`: the bounds on rows, publications and clock
steps make every behaviour come to rest. That no thread is stuck before is what
`EveryRowDecided`, `EveryDecisionEmitted` and `EveryCallEnds` say.

| Run | Checks |
|---|---|
| `JwksRotation` | two threads, one endpoint that rotates or withdraws a kid, with more keys under it than the cap, encryption keys, weak keys and repeated material. Types and mutex (`TypeOK`); reservations and budget stamp (`RefreshInv`); lists and maps (`LruConsistent`); `EntriesSound`; `AcceptedKeyWasListed`; `RefreshAcceptsCachedKey`; `BudgetRespected` with clock readings up to a reset apart; `CommitsInOrder`; `EvictionCorroborated`; `KeysOutliveOutage` |
| `JwksTenants` | two endpoints in a cache for two kids, documents as large as the cache and one that lists a kid with unusable keys only: the isolation that does hold (`AcceptedKeyWasListed`, `EvictionCorroborated`), and `UsableKidNotMissed` |
| `JwksLiveness` | `EveryRowDecided`, with HTTP retries and an operator who changes the refresh window |
| `OpaqueTokens` | two threads, three modes over one decision cache, retries, a clock that runs forward: `TypeOK` with the bound on retries; `DecisionsConsistent`, `RevocationInv`, `RevocationTakesEffect`, `ExpiryRespected` |
| `AuthzSessions` | two threads, three sessions in a map for two, renewal and expiry: `AllowIsCurrent`, `EvictsFirstToExpire` |
| `AuthzAudit` | two threads decide requests under six policies, the README's column-level table among them: `DecisionFollowsPolicy` compares each decision with what the table itself says. They fill a ring of two beyond its capacity: `RingIsWindow` (refinement), `EveryDecisionEmitted` (liveness) |
| `ClientTokens` | two connections on one SECRET, three calls in transactions of one or several, lost answers and rollbacks. No commit leaves a spent refresh token unless its successor was lost (`SpentOnlyIfLost`), or a working one out (`RefreshTokenKept`); `LogoutHolds`; `CachedUnexpired`; `EveryCallEnds` (liveness) |
| `SqlAuthz` | every kind of table reference in every position of every kind of query, that in every position of every kind of statement, and texts of two statements, under policy tables: `NamesWhatItReaches`, `DoesWhatItSays`, `OpaqueIsUnsafe`, `AllowedInEveryPart` |
| `CheckToken` | two connections and an operator: `TrafficProtected`, `VerdictIsTrue`, `ConfigTakesEffect`, `OneLinePerWindow`, `ProbeIsRecent` |

`MCSessionAuthz` also has an ASSUME, `GlobMatchIsMatching`, which TLC evaluates
in every run of it: `GlobMatch` agrees with `Matches`, the definition of matching
from the end, on all patterns of up to four characters and values of up to five.
The theorem `GlobMatchMatches` says so for all lengths.

`VerdictIsTrue` says exactly when a token is accepted, and that a rejected one
fails a check that the code returns the reason for. It does not say that the reason
is the documented one, and for two reasons it is not: `Expired` is also returned
for a token that is early by `iat`, its `exp` past or not, and `WrongIssuer` for a
token of the right issuer that lacks the required `aud`. `API_REFERENCE.md:424-426`
has other reasons for both (see the list below). The operator `TrueOf` names the
two cases.

**Bounds.** Two threads suffice for every race between a check and its use,
since each involves one thread that waits and one that acts. Four rows let a
cold fetch be followed by two overlapping refreshes and a later reader, which
is what eviction on two absences and out-of-order commits need. Three rows
suffice for a decision, its renewal and a later reader, or for three sessions
in a map for two. `MaxEntries = 2`, `MaxKeysPerKid = 2`, `MaxDecisions = 1`,
`MaxSessions` of 1 or 2 and `Capacity = 2` are reached and exceeded. Windows of one or two seconds with
clock steps of one or two put every comparison on both sides of its boundary.
In ClientTokens two connections and three calls allow a refresh, a logout or
second refresh that overlaps with it, and a reader afterwards; the defaults of
the device flow (5 s, 600 s) are scaled down to 1 s and 2 s, so that it may poll
twice or, after `slow_down`, run out after one poll; a provider may also name an
interval of 2 s, as long as the default lifetime, or a lifetime of 1 s. The renewal
skew is 0 there; a skew above 0 is left to the theorem `CachedTokenLives`. In
OpaqueTokens no token is one of GitHub's, so that a positive answer of
github_check is left to `RevocationEffective` and `ExpiryEnforced`; its other
answers are in the run. CheckToken starts from six groups of
states, one per question, each with a budget of its own: 25 URLs in every field
of a SECRET and under every preset; 11 listeners, with another one appearing; 14
tokens with a skew of 0 and 1 against ten keys, good and bad, under one kid; three calls
in an opaque mode with a change of the configuration; four calls that log, in a
log for two of three keys; three diagnoses with a change of the URI. The clock
of CheckToken runs forward, as `ConfigTakesEffect` needs. SqlAuthz has no
concurrency: its states are texts, nested three deep, in parse trees of at most
twelve levels (`MaxDepth`). Symmetry, of the threads and
in JwksTenants of the endpoints, is used in the safety runs only. That the bounds are large
enough is also shown by the mutants: each property is violated, within the same
bounds, by a plausible mistake in the definition it guards.

**Fairness.** Weak fairness of the steps of a running thread and of its HTTP
attempts, which end by an answer or by DuckDB's timeout; strong fairness of
taking the mutex. `std::mutex` itself promises no order, but critical sections
are short and a thread that waits is not overtaken for ever by any scheduler
the extension runs on. In ClientTokens, weak fairness of a call's own steps: its
HTTP attempts have timeouts (5 s to connect, 10 s to read,
`src/http_client_duckdb.cpp:65-66`) and the polling loop sleeps on a clock that
runs. No fairness is assumed of the clock, the provider's
publications or the callers.

### Where documentation and code part

Three runs state what a comment or document of the repository says, and TLC finds
a behaviour of the code that does otherwise. `PROJECT.json` quotes each line.

| Run | What happens |
|---|---|
| `JwksStaleCommit` | two refreshes overlap, of `k1` answered before `k1` rotates and of `k2` answered after it; the one of `k2`, started because a token forged with `a` fails its key, commits first and ingests the new key of `k1`, over which the one of `k1` then commits. An overlapping cold fetch of `k2` would do the same |
| `AuthzRenewal` | an unexpired, just renewed session is dropped |
| `AuthzStar` | the README's table for column-level protection allows `SELECT *`, by its rule without a column pattern |

Smaller ones met on the way. The models behave as the code does in each of
them; no run is spent on them.

* A document that lists a kid with unusable keys only does not reset its absence
  count (`src/validator.cpp:314`); `src/include/jwks_cache.hpp:125-126` speaks of
  two consecutive absences.
* `refresh_superseded` is reported when a later reservation was merely handed
  out (`src/jwks_cache.cpp:291`); `API_REFERENCE.md:441` says another one
  committed first.
* One LRU map serves all endpoints (`src/jwks_cache.cpp:113`), so a document of
  one tenant can evict a kid of another; `API_REFERENCE.md:621` rules that out.
* A kid with a usable key is put on the negative list if the document, or what
  another thread has cached meanwhile, pushes it out of a full cache
  (`src/validator.cpp:479`); trust policy 3 at `src/validator.cpp:4` says never.
  `UsableKidNotMissed` states when.
* A late row of a chunk is served a decision by the clock reading of the chunk's
  start, beyond the 30 s of the comment at `src/github_check.cpp:112`.
* No code reads `quack_oauth_introspect_cache_s`; the lifetime is 30 s
  (`src/quack_oauth_state.cpp:12`, `API_REFERENCE.md:83-84`).
* With the session map full, the session just accepted may itself be the one
  evicted (`src/check_token_function.cpp:366`); `API_REFERENCE.md:149-152` says
  its principal is cached on success.
* `DoLogin` does not store a refresh token that the answer to a login contains
  (`src/login_function.cpp:64`); `docs/requirements.md:209-210` and
  `API_REFERENCE.md:243-244` say it is persisted.
* A poll of the device flow that fails is repeated by `RetryingHttpClient` after
  its own delay, not the interval that `src/device_login_function.cpp:73-74`
  wants respected; and since the deadline is checked before the sleep, the last
  poll may come after it.
* A cold fetch records no miss before it is answered, and none when it fails
  (`src/validator.cpp:453`), so a second one for the kid is limited by the
  two-second budget only; `docs/requirements.md:114-115` asks for at most one per
  `quack_oauth_jwks_min_refresh_s` and kid.
* A token with `iat` in the future is rejected as `expired`, also when its `exp` is
  not past or absent (`src/jwt_verify.cpp:351-358`); `API_REFERENCE.md:424-425` has
  it under `not_yet_valid`. `VerdictIsTrue` has the code's side.
* A token of the configured issuer that lacks the required `aud` is rejected as
  `wrong_issuer`, since a missing claim is mapped to it
  (`src/jwt_verify.cpp:278-282`) and jwt-cpp 0.7.x reports one; the comment there
  says that of the configured claims only `iss` gets to this branch, and
  `API_REFERENCE.md:426-427` has `wrong_audience` for an `aud` that does not match.
  `VerdictIsTrue` has the code's side.
* A text of several statements with different actions is unsafe
  (`src/sql_inspect.cpp:937`); `src/include/sql_inspect.hpp:62-64` says that it
  is classified by its first statement. `DoesWhatItSays` holds by the code.
* Of the system views only `information_schema.tables` is open
  (`src/sql_inspect.cpp:65-69`); the description of `quack_oauth_inspect_sql`
  (`src/inspect_sql_function.cpp:93-95`) names whole schemas.
* The provider name `Generic` is not the `generic` that needs no tenant
  (`src/check_token_function.cpp:111`), although `ProviderFromString` ignores
  case.
* `diagnose()` probes the URI that is written in the SECRET
  (`src/diagnose.cpp:153`); one that a preset would fill in is `unconfigured`.
* A NULL token is rejected without an audit event
  (`src/check_token_function.cpp:497`, `README.md:57`).

## 4. Proofs

Every invariant and every action property that a passing run checks is a
theorem, and so is the refinement of `AuditWindow` by SessionAuthz. They hold for
any sets of threads, connections, endpoints, kids, keys, documents, tokens,
sessions, URLs, policy tables and parse trees, any clock movements and any bounds,
under the ASSUMEs of the modules.
These say what the constants are and that caches, ring and windows are not
empty. Beyond that they ask for a few things:

* documents are finite (`ValidatorAssumption`), as the bytes of an answer are;
* the keys of the throttle log are finitely many (`ThrottleLogAssumption`),
  since `src/check_token_function.cpp:434-435` cuts their parts to 256 and 512
  characters;
* a policy table is finite and its rows have their columns' types
  (`WellFormedSource`), as a table of DuckDB has; lower-casing a character gives
  one that it leaves alone, and no star (`PolicyAssumption`), as that of
  `src/policy.cpp:31-33` does on ASCII;
* a URL in a SECRET is cut into scheme, user, host, port and rest where the
  grammar of URLs cuts it (`WellFormed`), since `TrafficProtected` speaks of the
  host that a client would connect to. A tenant or realm, which has no scheme,
  does not begin like one. A listener is an address as
  `src/plaintext_guard.cpp` gets it (`ListenUri`): an IPv6 address without
  brackets is `::1` or comes with its port;
* a text is a list of parse trees as DuckDB's parser builds them
  (`QueriesAssumption` with `Parsed`): a node has parts under the members of its
  type only, and a statement that writes has its node. Kinds that the inspector
  does not know are free to appear wherever DuckDB's types leave room for them,
  with anything below them. `MaxDepth` is any bound on the depth of the trees;
* the last two theorems about OpaqueValidator have `ForwardClock` as a
  hypothesis: the system clock is never set back.

**The method.** A property is first traced to the invariant it rests on. Where
there are many actions, each step is then reduced to one of a few *kinds of
steps* that say only what matters to the invariants (`Steps` and `Kinds` in
`CheckTokenProofs`, and their counterparts in `ClientTokensProofs`), so that an
invariant needs one case per kind. The caches'
methods have lemmas of their own, which the proofs about actions cite instead of
their definitions. What a loop computes is proved by the least counterexample
(`NatMin`: a nonempty set of naturals has a least element), since the
library's induction theorems are out of the provers' reach; that a recursive
function satisfies its own equation is proved the same way, from the functions
that satisfy it up to a bound (`WalkExists`, `FitsExist`, `RunsExist`).

### JwksValidatorProofs

| Theorem | Property | Rests on |
|---|---|---|
| `TypeCorrect`, `RefreshInvariant` | `TypeOK`, `RefreshInv` | `IInv`, their conjunction, is inductive |
| `BudgetHolds` | `BudgetRespected` | the budget stamp is that of the last fetch started (`BudgetStamped`) |
| `CommitsOrdered` | `CommitsInOrder` | a cached kid's reservation is the newest handed out and newer than any committed one (`ReservationsOrdered`); no erasure, ingestion or absence brings an old one back |
| `LruStaysConsistent`, `EntriesStaySound`, `AcceptedKeysListed` | `LruConsistent`, `EntriesSound`, `AcceptedKeyWasListed` | `KeyInv` |
| `KeysSurviveOutages` | `KeysOutliveOutage` | `KeyInv` |
| `RefreshKeepsAccepted` | `RefreshAcceptsCachedKey` | `VerifiedInv` |
| `EvictionsCorroborated` | `EvictionCorroborated` | `AbsenceInv` |
| `UsableKidsKept` | `UsableKidNotMissed` | `DocsFinite`, `ColdInv` |

`KeyInv` says, of the cache, of what the provider has published and of the
documents on their way alike, that their keys were listed under their kid by
their endpoint, and that maps and lists agree; only together do they survive a
document that arrives late. `AbsenceInv` says that an absence count is at most
the number of refreshes that missed the kid: for this, refreshes under way have
to hold different reservations, none of which has been counted yet. `ColdInv`
says that in the LRU list only kids of the same document stand before the kid
of a cold fetch, so that the bound reaches it last.

The attempt to prove `UsableKidNotMissed` as it was first stated failed, and for
a reason: another thread may cache the kid while the cold fetch is under way.
The passive union then leaves the kid where it is in the LRU list
(`src/jwks_cache.cpp:125-147`), the other kids of the document push it out of a
full cache, and the code records a miss for a kid that the document does list
with a usable key (`src/validator.cpp:473-479`), which trust policy 3 at
`src/validator.cpp:4` says never happens. The bounds of `JwksTenants`
did not reach this. The property now names the case, and `hist.cold` records
which cold fetches found their kid uncached when they began to ingest.

### OpaqueValidatorProofs

`OpaqueTypeCorrect` proves `TypeOK`, the bound on the retries of a POST included, `CacheConsistent` `DecisionsConsistent`, and
`ExpiryEnforced` `ExpiryRespected` by `ExpiryInv`: no entry's window reaches past
the expiry its provider reported. `RevocationInvariant` and
`RevocationEffective` prove `RevocationInv` and `RevocationTakesEffect` for a
clock that is never set back. The point is the stamp: a decision is stored with
the clock reading of the chunk, which is older than the answer, so its window
ends at most one lifetime after the last moment the provider may have vouched
for the token.

### SessionAuthzProofs

`AuthzInv` is inductive: the types, the mutex discipline, the bound of the
session map, and that what is filed under a session was accepted last for it.
`AuthzTypes` proves `TypeOK` from it, `AllowedIsCurrent` `AllowIsCurrent`, and
`EvictionInOrder`
`EvictsFirstToExpire`, the latter from what the scan over the sessions chooses.
`RingImplementsWindow` is the refinement `RingIsWindow`: the empty ring maps to
the empty window, a push to a push, and every other step leaves the window
alone. The case that matters is a push to a full ring, where `head` and the
oldest slot wrap around.

`GlobMatchMatches`, in `PolicyProofs`, proves the loop of `GlobMatch` correct for every pattern and
value: a mismatch goes back to the last star only, and that is enough because the
earlier stars have already matched as early as they can (`OnTrack`, the invariant
of the loop). `DecisionsFollowPolicy` proves `DecisionFollowsPolicy` from it:
normalising a pattern does not change what it matches, sorting the rules by
priority and taking the first that matches gives the verdict of the rows with the
least priority among those that apply (`CellVerdict`), and a request is allowed if
every cell is. `PolicyInv` carries the policy from the moment the table is read
to the decisions of the chunk.

### ClientTokensProofs

| Theorem | Property | Rests on |
|---|---|---|
| `TransactionsSound`, `TypesKept` | `TypeOK` | `TxnInv`: what a transaction is made of |
| `LogoutsHold` | `LogoutHolds` | `TxnInv` |
| `NoSpentTokenCommitted` | `SpentOnlyIfLost` | `SpentInv`: a transaction that may still write would not put back a refresh token that it has had rotated itself |
| `WorkingTokenKept` | `RefreshTokenKept` | `PrivateInv`: a refresh token that is not committed is known to one connection only; `KeptInv` |
| `CachedTokenLives` | `CachedUnexpired` | `TxnInv` |

### CheckTokenProofs

| Theorem | Property | Rests on |
|---|---|---|
| `ProbesRecent` | `ProbeIsRecent` | `CallsInv`, `ProbeInv`: a probe was sent no earlier than its stamp |
| `LogNotFlooded` | `OneLinePerWindow` | `LinesInv`: unless the map overflowed since, the log has the stamp of the last line written for a key |
| `ConfigChangesApply` | `ConfigTakesEffect` | `VouchInv`: no decision outlives the last use of the configuration it rests on by more than one lifetime |
| `TrafficStaysProtected` | `TrafficProtected` | `SoundInv`, and lemmas on where `HostAndPort` and `HostFromQuackUri` cut a text |
| `VerdictsAreTrue` | `VerdictIsTrue` | `SoundInv`, and lemmas on the order of the checks of a claim and of the keys |

`CheckInv`, the conjunction of the first three, is inductive, and so is
`WrittenInv /\ SoundInv` given it: what is written in SECRETs and settings is well
formed, and a call carries only what its position vouches for, a validated
configuration from the preset on, a listener it has seen from the guard on. The
lemmas about URLs are the larger part: whatever the code takes for the host of an
accepted text is the host that the grammar designates, so user parts, brackets,
ports and paths cannot pass for a loopback address.

### SqlAuthzProofs

| Theorem | Property | Rests on |
|---|---|---|
| `RequestIsInvariant` | – | `RequestInv`: between two statements, a request that is not unsafe is right about the statements read so far |
| `NamesAreTrue` | `NamesWhatItReaches` | `RequestInv` |
| `ActionIsTrue` | `DoesWhatItSays` | `RequestInv` |
| `NothingOpaquePasses` | `OpaqueIsUnsafe` | `RequestInv` |
| `AllowedThroughout` | `AllowedInEveryPart` | `RequestInv`, `DecisionInv`, and what `PolicyProofs` has on tables |

The property of a tree is proved along its levels, not by an induction over
nodes. `LevelInv` relates the rounds of the walk to the trails of the reference:
after `d` rounds that found nothing unsafe, the calls to be made are exactly
those on the ends of the trails of length `d`, each with the aliases that the
reference finds along its trail, and what has been found is what the trails
shorter than `d` touch and do. Two lemmas carry it to the next level, each put
together from one lemma per sort of node and kind of statement:

* `PartRead`: the walk of a node, unless unsafe, finds what the reference says of
  the node and calls *every* child that is there, each in its scope. This is
  where a member that the code forgets, or a scope that is too wide, would show.
* `NodeDoes`: a node whose walk is not unsafe changes nothing but what the
  action of its statement says, and its children may do no more, unless EXPLAIN
  without ANALYZE stands above them.

No trail is longer than `MaxDepth`, so after that many rounds nothing is left to
call (`WalkReads`). The loop over the statements adds that they all have the
action of the first. `AllowedThroughout` joins this with the policy: each cell
of the request is decided by the rows that `PolicyVerdicts` speaks of, and the
cells of the request are those of the statements.

The proof changed two definitions. A `CASE` in `CheckAuthorization` had guards
that overlap for an unsafe request under the default policy, which leaves its
value open; TLC takes the first branch, as the code does, and the prover rightly takes none.
It is now a conjunction. And `Walk` and `Trails` were recursive operators over
nodes, about which nothing can be proved here.

### Only model-checked

Liveness, which is out of the prover's reach: `EveryRowDecided`,
`EveryDecisionEmitted`, `EveryCallEnds`.

## 5. Not modelled, and the plan

Worth adding next: more than one row to a chunk of CheckToken, an HTTP client
that throws in JwksValidator and OpaqueValidator, and the direction of a COPY
nested in another one in SqlInspect.

Not modelled, and why:

* Cryptography, JSON, base64 and ASN.1 (`src/jwks_parse.cpp`,
  `src/picojson_helpers.cpp`, parts of `src/jwt_verify.cpp` and
  `src/jwt_parse.cpp`): libraries or byte-level conversions; the models have
  their outcomes.
* DuckDB's parser, catalog, secret manager and HTTP client, and the thin
  `src/http_client_duckdb.cpp` over the latter: external, present as the
  environment.
* The reports of `diagnose()`, `quack_oauth_audit_log` and
  `quack_oauth_current_principal` beside the probe: they copy state under the
  mutex and format it.
* The audit table and log line of `src/audit_sink.cpp`, `src/tracing_redact.cpp`,
  `src/secure_scrub.cpp`, telemetry: output that nothing reads back.
* Registration (`src/quack_oauth_extension.cpp`, the `Register*` functions) and
  defaults from the environment (`src/env_overrides.cpp`): run once at load.
