---------------------------- MODULE JwksValidator ----------------------------
(***************************************************************************)
(* ValidateToken (validator.cpp) as several DuckDB threads run it against   *)
(* the one JwksCache of the process, while the identity provider publishes  *)
(* new key documents and the clock moves.                                   *)
(*                                                                          *)
(* A thread validates a chunk of rows (ValidateChunk).  It reads the clock  *)
(* once per chunk, before it has the mutex, and keeps that reading for      *)
(* every row.  The mutex is held while a row is validated and dropped       *)
(* around every HTTP call (UnlockingHttpClient) and between rows            *)
(* (EmitAuditsAndScrub).  A stretch of code between two releases is one     *)
(* action when it makes a bounded number of cache calls; the loops over the *)
(* kids of a document are one action per iteration, with mu held.           *)
(*                                                                          *)
(* A document maps each kid to the keys listed under it.  A token names a   *)
(* kid and a header algorithm, carries the key that really signed it, and   *)
(* the outcome `claims' of the claim checks once a signature matches.       *)
(***************************************************************************)
EXTENDS JwksCache

CONSTANTS
  Threads,
  Algs,
  AlgsOf,           \* AlgsOf[x]: the header algorithms key x matches (all when its alg is empty)
  SigKeys,          \* keys whose use is empty or "sig"
  UsableKeys,       \* keys IsUsableSigningKey accepts
  Documents,        \* documents the identity provider may publish
  Jwts,             \* tokens callers present
  StartupMinRefreshS,  \* g_startup_min_refresh_s, the floor fixed when the process starts
  MinRefreshChoices,\* values operators SET quack_oauth_jwks_min_refresh_s to
  MaxRetries,       \* max_retries of RetryingHttpClient
  ClockDeltas,      \* how the system clock may move
  MaxClockSteps,    \* bound: clock movements
  MaxPublishes,     \* bound: publications after the initial documents
  MaxRows           \* bound: tokens presented, over all threads

\* Outcomes of VerifyJwt after the signature has matched.
SignatureMatches == {"Ok", "Expired", "NotYetValid", "WrongIssuer", "WrongAudience"}

ASSUME ValidatorAssumption ==
  /\ AlgsOf \in [Keys -> SUBSET Algs]
  /\ SigKeys \subseteq Keys /\ UsableKeys \subseteq Keys
  /\ \A d \in Documents : d \in [Kids -> Seq(Keys)] /\ IsFiniteSet({kid \in Kids : d[kid] # <<>>})
  /\ Jwts # {} /\ Uris # {}
  /\ \A tok \in Jwts : /\ tok.kid \in Kids /\ tok.alg \in Algs /\ tok.signer \in Keys
                         /\ tok.claims \in SignatureMatches
                         /\ tok.early \in {"None", "Malformed", "DisallowedAlgorithm", "UnknownKid"}
  /\ StartupMinRefreshS \in 1..MaxMinRefreshS /\ MinRefreshChoices \subseteq Int
  /\ "free" \notin Threads
  /\ MaxRetries \in Nat /\ ClockDeltas \subseteq Int
  /\ MaxClockSteps \in Nat /\ MaxPublishes \in Nat /\ MaxRows \in Nat

VARIABLES
  cache,       \* QuackOauthState::jwks_cache
  mu,          \* the thread inside a multi-step critical section, or Free
  row,         \* per thread: the locals of the row being validated
  clock,       \* the system clock, in seconds
  steps,       \* clock movements so far
  published,   \* per endpoint: the document the provider serves now
  publishes,   \* publications so far
  rows,        \* tokens presented so far
  hist         \* history of the behaviour, read by properties only

vars == <<cache, mu, row, clock, steps, published, publishes, rows, hist>>
env  == <<clock, steps, published, publishes, rows>>

Free == "free"

\* What the HTTP client hands back: a document, or a failure.
NoDocument == [kid \in Kids |-> <<>>]
NoResponse == [status |-> "None",   doc |-> NoDocument]
HttpFailed == [status |-> "Failed", doc |-> NoDocument]
Http200(d) == [status |-> "200",    doc |-> d]

IdleRow ==
  [ pc          |-> "Idle",
    now         |-> NoStamp,          \* opts.now_s, fixed for the chunk
    key         |-> CHOOSE k \in CacheKey : TRUE,   \* (ctx.jwks_uri, parsed->kid)
    tok         |-> CHOOSE tok \in Jwts : TRUE,
    mode        |-> "None",           \* which fetch is under way: "Cold" or "Refresh"
    prior       |-> "None",           \* result to fall back on when a refresh brings nothing
    reservation |-> NoReservation,
    attempt     |-> 0,                \* HTTP attempts already failed
    resp        |-> NoResponse,
    evict       |-> {},               \* to_evict of ReconcileAbsentKids, not yet erased
    todo        |-> {},               \* kids of the document not yet ingested
    verified    |-> "None",           \* cold_verified / verified_candidate
    result      |-> "None",
    reason      |-> "None" ]          \* RefreshEvent::reason

Init ==
  /\ cache = EmptyCache(StartupMinRefreshS)
  /\ mu = Free
  /\ row = [t \in Threads |-> IdleRow]
  /\ clock = 1
  /\ steps = 0
  /\ published \in [Uris -> Documents]
  /\ publishes = 0
  /\ rows = 0
  /\ hist = [ fetchAt    |-> NoStamp,                       \* stamp of the last fetch started
              listed     |-> [k \in CacheKey |-> ToSet(published[k[1]][k[2]])],
              reserved   |-> [k \in CacheKey |-> 0],        \* newest reservation handed out
              committed  |-> [k \in CacheKey |-> 0],        \* newest reservation committed
              absentIn   |-> [k \in CacheKey |-> {}],       \* refreshes that missed a cached kid
              cold       |-> {} ]             \* threads whose kid nobody had cached when their document came

(***************************************************************************)
(* Keys and documents.                                                      *)
(***************************************************************************)
MatchingKeys(keys, tok) == {x \in ToSet(keys) : tok.alg \in AlgsOf[x]}

\* Mutant: the signature is not compared.
VerifyAlgOnly(keys, tok) == IF MatchingKeys(keys, tok) # {} THEN tok.claims ELSE "InvalidSignature"

\* VerifyJwt on a screened key succeeds only for the key that signed.
VerifyWithCachedKeys(keys, tok) ==
  IF tok.signer \in MatchingKeys(keys, tok) THEN tok.claims ELSE "InvalidSignature"

VerifyAgainstCachedKid(keys, tok) ==
  IF MatchingKeys(keys, tok) = {} THEN "NoMatchingKey" ELSE VerifyWithCachedKeys(keys, tok)

GroupSigningKeysByKid(doc) ==
  [kid \in Kids |-> SubSeqAt(doc[kid], {i \in DOMAIN doc[kid] : doc[kid][i] \in SigKeys})]
PresentKids(doc) == {kid \in Kids : GroupSigningKeysByKid(doc)[kid] # <<>>}

\* The usable keys, each material once, in document order.
ScreenUsableKeys(keys) == SubSeqAt(keys, {i \in Firsts(keys) : keys[i] \in UsableKeys})
Usable(doc, kid) == ScreenUsableKeys(GroupSigningKeysByKid(doc)[kid])

\* Mutant: the document's order is kept.
KeepDocumentOrder(keys, tok) == keys

\* With more than one candidate, the one that verifies the token goes first.
PrioritizeMatchingKey(keys, tok) ==
  IF Len(keys) > 1 /\ tok.signer \in MatchingKeys(keys, tok)
  THEN LET i == CHOOSE i \in 1..Len(keys) : keys[i] = tok.signer IN
       [keys EXCEPT ![1] = keys[i], ![i] = keys[1]]
  ELSE keys

VerifiedCandidate(keys, tok) ==
  IF Len(keys) > 1 /\ tok.signer \in MatchingKeys(keys, tok) THEN tok.claims ELSE "None"

PrioritizeNewKeys(keys, existing) ==
  IF Len(keys) <= MaxKeysPerKid \/ existing = <<>> THEN keys
  ELSE LET old == {i \in DOMAIN keys : keys[i] \in ToSet(existing)} IN
       SubSeqAt(keys, DOMAIN keys \ old) \o SubSeqAt(keys, old)

(***************************************************************************)
(* The environment: clock, identity provider, operator.                     *)
(***************************************************************************)
Tick(d) ==
  /\ steps < MaxClockSteps
  /\ clock + d >= 1
  /\ clock' = clock + d
  /\ steps' = steps + 1
  /\ UNCHANGED <<cache, mu, row, published, publishes, rows, hist>>

Publish(uri, d) ==
  /\ publishes < MaxPublishes
  /\ d # published[uri]
  /\ published' = [published EXCEPT ![uri] = d]
  /\ publishes' = publishes + 1
  /\ hist' = [hist EXCEPT !.listed = [k \in CacheKey |->
                 IF k[1] = uri THEN @[k] \cup ToSet(d[k[2]]) ELSE @[k]]]
  /\ UNCHANGED <<cache, mu, row, clock, steps, rows>>

\* OnJwksMinRefreshSeconds refuses a value outside its range, and otherwise
\* takes the mutex and forwards it.
Reconfigure(m) ==
  /\ m \in StartupMinRefreshS..MaxMinRefreshS
  /\ mu = Free
  /\ cache' = SetMinRefreshSeconds(cache, m)
  /\ cache' # cache
  /\ UNCHANGED <<mu, row, hist>> /\ UNCHANGED env

(***************************************************************************)
(* Rows of a chunk.                                                         *)
(***************************************************************************)
Present(t, uri, tok, now) ==
  /\ rows < MaxRows
  /\ rows' = rows + 1
  /\ row' = [row EXCEPT ![t] = [IdleRow EXCEPT !.pc = "Ready", !.now = now, !.tok = tok,
                                               !.key = <<uri, tok.kid>>]]
  /\ UNCHANGED <<cache, mu, clock, steps, published, publishes, hist>>

StartChunk(t, uri, tok) ==
  /\ row[t].pc = "Idle"
  /\ Present(t, uri, tok, clock)

\* The next row of the same chunk: the same clock reading, the same endpoint.
NextRow(t, tok) ==
  /\ row[t].pc = "Done"
  /\ Present(t, row[t].key[1], tok, row[t].now)

FinishChunk(t) ==
  /\ row[t].pc = "Done"
  /\ row' = [row EXCEPT ![t] = IdleRow]
  /\ UNCHANGED <<cache, mu, hist>> /\ UNCHANGED env

\* ValidateToken returns: the row keeps its outcome and nothing of the fetch.
Return(t, result, reason) ==
  row' = [row EXCEPT ![t] = [IdleRow EXCEPT !.pc = "Done", !.now = row[t].now, !.tok = row[t].tok,
                                            !.key = row[t].key, !.result = result, !.reason = reason]]

(***************************************************************************)
(* ValidateToken up to its return or to the HTTP call that drops the mutex. *)
(***************************************************************************)
HasMutex(t) == mu = Free /\ row[t].pc = "Ready"
First(t) == Lookup(cache, row[t].key, row[t].now)
CachedResult(t) == VerifyAgainstCachedKid(First(t).keys, row[t].tok)

\* Not a JWT, algorithm not allowed, or no kid.
RejectEarly(t) ==
  /\ HasMutex(t)
  /\ row[t].tok.early # "None"
  /\ Return(t, row[t].tok.early, "None")
  /\ UNCHANGED <<cache, mu, hist>> /\ UNCHANGED env

AcceptCached(t) ==
  /\ HasMutex(t) /\ row[t].tok.early = "None"
  /\ First(t).status = "Hit"
  /\ CachedResult(t) \in SignatureMatches
  /\ Return(t, CachedResult(t), "None")
  /\ UNCHANGED <<cache, mu, hist>> /\ UNCHANGED env

\* No cached key verifies the token: TryRefreshRotatedKid.
WantsRefresh(t) ==
  /\ HasMutex(t) /\ row[t].tok.early = "None"
  /\ First(t).status = "Hit"
  /\ CachedResult(t) \notin SignatureMatches

ThrottleRefresh(t) ==
  /\ WantsRefresh(t)
  /\ \/ /\ ~CanFetchJwks(cache, row[t].now)
        /\ Return(t, CachedResult(t), "BudgetThrottled")
     \/ /\ CanFetchJwks(cache, row[t].now)
        /\ ~CanReserveRefresh(cache, row[t].key, row[t].now)
        /\ Return(t, CachedResult(t), "Throttled")
  /\ UNCHANGED <<cache, mu, hist>> /\ UNCHANGED env

\* Every fetch first spends the global budget, then drops the mutex.
Fetch(t, c, mode, prior, reservation) ==
  /\ cache' = RecordJwksFetch(c, row[t].now)
  /\ row' = [row EXCEPT ![t] = [@ EXCEPT !.pc = "Fetching", !.mode = mode, !.prior = prior,
                                         !.reservation = reservation]]
  /\ hist' = [hist EXCEPT !.fetchAt = row[t].now,
                          !.reserved[row[t].key] = IF mode = "Refresh" THEN reservation ELSE @]
  /\ UNCHANGED mu /\ UNCHANGED env

StartRefresh(t) ==
  /\ WantsRefresh(t)
  /\ CanFetchJwks(cache, row[t].now)
  /\ CanReserveRefresh(cache, row[t].key, row[t].now)
  /\ Fetch(t, ReserveRefresh(cache, row[t].key, row[t].now), "Refresh", CachedResult(t),
           cache.nextReservation)

Misses(t) == HasMutex(t) /\ row[t].tok.early = "None" /\ First(t).status # "Hit"

RejectMiss(t) ==
  /\ Misses(t)
  /\ \/ First(t).status = "RateLimited" /\ Return(t, "JwksThrottled", "Throttled")
     \/ /\ First(t).status = "Miss"
        /\ \/ /\ HasFreshJwksDocument(cache, row[t].now, row[t].key[1])
              /\ Return(t, "UnknownKid", "None")
           \/ /\ ~HasFreshJwksDocument(cache, row[t].now, row[t].key[1])
              /\ ~CanFetchJwks(cache, row[t].now)
              /\ Return(t, "JwksThrottled", "BudgetThrottled")
  /\ UNCHANGED <<cache, mu, hist>> /\ UNCHANGED env

StartColdFetch(t) ==
  /\ Misses(t) /\ First(t).status = "Miss"
  /\ ~HasFreshJwksDocument(cache, row[t].now, row[t].key[1])
  /\ CanFetchJwks(cache, row[t].now)
  /\ Fetch(t, cache, "Cold", "None", NoReservation)

(***************************************************************************)
(* The HTTP exchange, without the mutex.  The provider may answer at any    *)
(* time with what it serves then, answer garbage, refuse, or be unreachable *)
(* (transport failure or 5xx), which RetryingHttpClient tries again.        *)
(***************************************************************************)
Respond(t, resp) ==
  /\ row' = [row EXCEPT ![t] = [@ EXCEPT !.pc = "Answered", !.attempt = 0, !.resp = resp]]
  /\ UNCHANGED <<cache, mu, hist>> /\ UNCHANGED env

Answer(t) ==
  /\ row[t].pc = "Fetching"
  /\ \E resp \in {Http200(published[row[t].key[1]]), Http200(NoDocument), HttpFailed} :
       Respond(t, resp)

AttemptFails(t) ==
  /\ row[t].pc = "Fetching"
  /\ \/ /\ row[t].attempt < MaxRetries
        /\ row' = [row EXCEPT ![t].attempt = @ + 1]
        /\ UNCHANGED <<cache, mu, hist>> /\ UNCHANGED env
     \/ row[t].attempt = MaxRetries /\ Respond(t, HttpFailed)

(***************************************************************************)
(* The mutex is back and the response is at hand.                           *)
(***************************************************************************)
Resumes(t, mode) == mu = Free /\ row[t].pc = "Answered" /\ row[t].mode = mode
Doc(t) == row[t].resp.doc
Parsed(t) == row[t].resp.status = "200" /\ Doc(t) # NoDocument
Kid(t) == row[t].key[2]
Uri(t) == row[t].key[1]

ColdFetchFailed(t) ==
  /\ Resumes(t, "Cold")
  /\ ~Parsed(t)
  /\ IF row[t].resp.status = "200"
     THEN /\ cache' = OnFetchMiss(cache, row[t].key, row[t].now)
          /\ Return(t, "UnknownKid", "None")
     ELSE /\ Return(t, "JwksFetchFailed", "None")
          /\ UNCHANGED cache
  /\ UNCHANGED <<mu, hist>> /\ UNCHANGED env

ColdFetchOk(t) ==
  /\ Resumes(t, "Cold")
  /\ Parsed(t)
  /\ cache' = RecordJwksFetchSuccess(cache, row[t].now, Uri(t))
  /\ mu' = t
  /\ row' = [row EXCEPT ![t] = [@ EXCEPT !.pc = "Ingesting",
                                         !.todo = {kid \in Kids : Usable(Doc(t), kid) # <<>>}]]
  /\ hist' = [hist EXCEPT !.cold = IF row[t].key \in cache.hits THEN @ \ {t} ELSE @ \cup {t}]
  /\ UNCHANGED env

\* Mutant: a failed refresh drops the entry.
RefreshFailedErases(t) ==
  /\ Resumes(t, "Refresh")
  /\ ~Parsed(t)
  /\ Return(t, row[t].prior, "FetchFailed")
  /\ cache' = EraseHit(cache, row[t].key)
  /\ UNCHANGED <<mu, hist>> /\ UNCHANGED env

\* FetchAndParseJwks fails: the reservation stays where it is.
RefreshFailed(t) ==
  /\ Resumes(t, "Refresh")
  /\ ~Parsed(t)
  /\ Return(t, row[t].prior, IF row[t].resp.status = "200" THEN "ParseFailed" ELSE "FetchFailed")
  /\ UNCHANGED <<cache, mu, hist>> /\ UNCHANGED env

(***************************************************************************)
(* A refresh got its document.  CommitTargetKid has four outcomes, then     *)
(* IngestSiblingKeys reconciles the other cached kids of the endpoint.      *)
(***************************************************************************)
Refreshed(t) == Resumes(t, "Refresh") /\ Parsed(t)
Fetched(t) == RecordJwksFetchSuccess(cache, row[t].now, Uri(t))
Siblings(t) == {k \in cache.hits : k[1] = Uri(t) /\ k[2] # Kid(t)}

\* absentIn after this refresh looked for the other cached kids.
Corroborated(t) ==
  [k \in CacheKey |->
     CASE k \in Siblings(t) /\ k[2] \in PresentKids(Doc(t))    -> {}
       [] k \in Siblings(t) /\ k[2] \notin PresentKids(Doc(t)) -> hist.absentIn[k] \cup {row[t].reservation}
       [] OTHER                                                -> hist.absentIn[k]]

\* c is the cache CommitTargetKid leaves behind.
Reconcile(t, c, verified, reason) ==
  /\ cache' = CountAbsences(c, PresentKids(Doc(t)), Uri(t), Kid(t))
  /\ row' = [row EXCEPT ![t] =
       [@ EXCEPT !.pc = "Ingesting", !.verified = verified, !.reason = reason,
                 !.evict = AbsentTwice(c, PresentKids(Doc(t)), Uri(t), Kid(t)),
                 !.todo = {kid \in Kids \ {Kid(t)} : Usable(Doc(t), kid) # <<>>}]]
  /\ mu' = t
  /\ UNCHANGED env

TargetAbsent(t) ==
  /\ Refreshed(t)
  /\ Kid(t) \notin PresentKids(Doc(t))
  /\ LET k == row[t].key
         owned == OwnsRefresh(cache, k, row[t].reservation)
     IN /\ Reconcile(t, RecordKidAbsent(Fetched(t), k, row[t].reservation, row[t].now), "None",
                     IF owned /\ EvictsOnAbsence(cache, k) THEN "KidEvicted" ELSE "KidAbsent")
        /\ hist' = [hist EXCEPT
              !.absentIn = IF owned THEN [Corroborated(t) EXCEPT ![k] = @ \cup {row[t].reservation}]
                           ELSE Corroborated(t)]

\* The kid is listed, but none of its keys is usable: the entry, its
\* reservation and its absence count stay.
TargetUnusable(t) ==
  /\ Refreshed(t)
  /\ Kid(t) \in PresentKids(Doc(t)) /\ Usable(Doc(t), Kid(t)) = <<>>
  /\ Reconcile(t, Fetched(t), "None", "ParseFailed")
  /\ hist' = [hist EXCEPT !.absentIn = Corroborated(t)]

LiveKeys(t) == Lookup(cache, row[t].key, row[t].now).keys
Candidates(t) ==
  LET keys == PrioritizeMatchingKey(Usable(Doc(t), Kid(t)), row[t].tok) IN
  IF VerifiedCandidate(Usable(Doc(t), Kid(t)), row[t].tok) # "None" THEN keys
  ELSE PrioritizeNewKeys(keys, LiveKeys(t))

RefreshReason(candidates, live) ==
  CASE ToSet(candidates) \ ToSet(live) # {}     -> "Rotated"
    [] ToSet(candidates) \subseteq ToSet(live)
         /\ ToSet(live) \ ToSet(candidates) # {} -> "Revoked"
    [] OTHER                                    -> "NoRotation"

Commits(t) == CanCommitRefresh(cache, row[t].key, row[t].reservation, Candidates(t), row[t].now)

TargetCommitted(t) ==
  /\ Refreshed(t)
  /\ Usable(Doc(t), Kid(t)) # <<>> /\ Commits(t)
  /\ Reconcile(t, CommitRefresh(Fetched(t), row[t].key, Candidates(t), row[t].now),
               VerifiedCandidate(Usable(Doc(t), Kid(t)), row[t].tok),
               RefreshReason(Candidates(t), LiveKeys(t)))
  /\ hist' = [hist EXCEPT !.committed[row[t].key] = row[t].reservation,
                          !.absentIn = [Corroborated(t) EXCEPT ![row[t].key] = {}]]

TargetSuperseded(t) ==
  /\ Refreshed(t)
  /\ Usable(Doc(t), Kid(t)) # <<>> /\ ~Commits(t)
  /\ Reconcile(t, Fetched(t), "None", "Superseded")
  /\ hist' = [hist EXCEPT !.absentIn = Corroborated(t)]

(***************************************************************************)
(* The loops over kids, with the mutex held: first to_evict, then the kids  *)
(* of the document in the order of the unordered_map.                       *)
(***************************************************************************)
EvictAbsent(t, k) ==
  /\ row[t].pc = "Ingesting" /\ k \in row[t].evict
  /\ cache' = EraseHit(cache, k)
  /\ row' = [row EXCEPT ![t].evict = @ \ {k}]
  /\ UNCHANGED <<mu, hist>> /\ UNCHANGED env

\* Only the cold path meets the token's own kid here.
IngestedKeys(t, kid) ==
  IF kid = Kid(t) THEN PrioritizeMatchingKey(Usable(Doc(t), kid), row[t].tok) ELSE Usable(Doc(t), kid)

IngestKid(t, kid) ==
  /\ row[t].pc = "Ingesting" /\ row[t].evict = {} /\ kid \in row[t].todo
  /\ cache' = OnPassiveFetchSuccess(cache, <<Uri(t), kid>>, IngestedKeys(t, kid), row[t].now)
  /\ row' = [row EXCEPT
       ![t].todo = @ \ {kid},
       ![t].verified = IF kid = Kid(t) THEN VerifiedCandidate(Usable(Doc(t), kid), row[t].tok) ELSE @]
  /\ hist' = [hist EXCEPT !.absentIn[<<Uri(t), kid>>] = {}]
  /\ UNCHANGED mu /\ UNCHANGED env

\* Mutant: the mutex is not released.
IngestedKeepsMutex(t, mode) ==
  /\ row[t].pc = "Ingesting" /\ row[t].evict = {} /\ row[t].todo = {} /\ row[t].mode = mode
  /\ UNCHANGED mu

Ingested(t, mode) ==
  /\ row[t].pc = "Ingesting" /\ row[t].evict = {} /\ row[t].todo = {} /\ row[t].mode = mode
  /\ mu' = Free

\* UnsupportedKeyType (RSA below 2048 bits) counts as UnusableKey.
FinishCold(t) ==
  /\ Ingested(t, "Cold")
  /\ LET second == Lookup(cache, row[t].key, row[t].now) IN
     \/ /\ second.status # "Hit"
        /\ cache' = OnFetchMiss(cache, row[t].key, row[t].now)
        /\ Return(t, CASE Kid(t) \in PresentKids(Doc(t)) -> "UnusableKey"
                       [] Kid(t) \notin PresentKids(Doc(t)) /\ Doc(t)[Kid(t)] # <<>> -> "NoMatchingKey"
                       [] OTHER -> "UnknownKid", "None")
     \/ /\ second.status = "Hit"
        /\ Return(t, IF row[t].verified # "None" THEN row[t].verified
                     ELSE VerifyAgainstCachedKid(second.keys, row[t].tok), "None")
        /\ UNCHANGED cache
  /\ UNCHANGED hist /\ UNCHANGED env

ReverifyAfterCommit(t) ==
  CASE row[t].verified # "None"                            -> row[t].verified
    [] row[t].verified = "None" /\ row[t].key \in cache.hits ->
         VerifyAgainstCachedKid(cache.entry[row[t].key].keys, row[t].tok)
    [] OTHER                                               -> "InvalidSignature"

FinishRefresh(t) ==
  /\ Ingested(t, "Refresh")
  /\ Return(t, ReverifyAfterCommit(t), row[t].reason)
  /\ UNCHANGED <<cache, hist>> /\ UNCHANGED env

(***************************************************************************)
(* The specification.                                                       *)
(***************************************************************************)
Environment ==
  \/ \E d \in ClockDeltas : Tick(d)
  \/ \E uri \in Uris, d \in Documents : Publish(uri, d)
  \/ \E m \in MinRefreshChoices : Reconfigure(m)

Caller(t) ==
  \/ \E uri \in Uris, tok \in Jwts : StartChunk(t, uri, tok)
  \/ \E tok \in Jwts : NextRow(t, tok)
  \/ FinishChunk(t)

\* ValidateToken, from taking the mutex to the HTTP call or the return.
Begin(t) ==
  \/ RejectEarly(t) \/ AcceptCached(t) \/ ThrottleRefresh(t) \/ StartRefresh(t)
  \/ RejectMiss(t) \/ StartColdFetch(t)

Http(t) == Answer(t) \/ AttemptFails(t)

\* The mutex again, after the HTTP call.
Resume(t) ==
  \/ ColdFetchFailed(t) \/ ColdFetchOk(t) \/ RefreshFailed(t)
  \/ TargetAbsent(t) \/ TargetUnusable(t) \/ TargetCommitted(t) \/ TargetSuperseded(t)

Ingest(t) ==
  \/ \E k \in CacheKey : EvictAbsent(t, k)
  \/ \E kid \in Kids : IngestKid(t, kid)
  \/ FinishCold(t) \/ FinishRefresh(t)

Next == Environment \/ \E t \in Threads : Caller(t) \/ Begin(t) \/ Http(t) \/ Resume(t) \/ Ingest(t)

Spec == Init /\ [][Next]_vars

\* A thread keeps running while it needs nobody, every HTTP attempt ends
\* within its time limit, and a thread that asks for the mutex again and
\* again while it becomes free is eventually given it.
Fairness ==
  \A t \in Threads : /\ WF_vars(Http(t)) /\ WF_vars(Ingest(t))
                     /\ SF_vars(Begin(t)) /\ SF_vars(Resume(t))

FairSpec == Spec /\ Fairness

(***************************************************************************)
(* Invariants.                                                              *)
(***************************************************************************)
Results == SignatureMatches \cup
  {"None", "Malformed", "DisallowedAlgorithm", "UnknownKid", "NoMatchingKey", "InvalidSignature",
   "UnusableKey", "JwksThrottled", "JwksFetchFailed"}
Reasons == {"None", "Throttled", "BudgetThrottled", "FetchFailed", "ParseFailed", "KidAbsent",
            "KidEvicted", "Rotated", "Revoked", "NoRotation", "Superseded"}

RowTypeOK(r) ==
  /\ DOMAIN r = {"pc", "now", "key", "tok", "mode", "prior", "reservation", "attempt", "resp",
                 "evict", "todo", "verified", "result", "reason"}
  /\ r.pc \in {"Idle", "Ready", "Fetching", "Answered", "Ingesting", "Done"}
  /\ r.now \in Nat /\ r.key \in CacheKey /\ r.tok \in Jwts
  /\ r.mode \in {"None", "Cold", "Refresh"} /\ r.prior \in Results
  /\ r.reservation \in Nat /\ r.attempt \in 0..MaxRetries
  /\ r.resp.status \in {"None", "Failed", "200"}
  /\ r.evict \subseteq CacheKey /\ r.todo \subseteq Kids
  /\ r.verified \in Results /\ r.result \in Results /\ r.reason \in Reasons

HistTypeOK ==
  /\ DOMAIN hist = {"fetchAt", "listed", "reserved", "committed", "absentIn", "cold"}
  /\ hist.fetchAt \in Nat
  /\ hist.reserved \in [CacheKey -> Nat] /\ hist.committed \in [CacheKey -> Nat]

\* Every variable keeps its type, and the mutex is held across steps exactly
\* by the thread that is in the middle of applying a document.
TypeOK ==
  /\ CacheTypeOK(cache)
  /\ DOMAIN row = Threads /\ \A t \in Threads : RowTypeOK(row[t])
  /\ \A t \in Threads : row[t].pc = "Ingesting" <=> mu = t
  /\ clock \in Nat
  /\ HistTypeOK

\* The budget stamp in the cache is the time of the last fetch any thread
\* started, although threads arrive with readings of the clock of any age.
BudgetStamped == cache.lastGlobalFetch = hist.fetchAt

\* The reservation a cached kid carries is the newest one handed out for it
\* and newer than any committed one: dropping an entry, committing it, or
\* finding the kid absent never brings back an older reservation.
ReservationsOrdered ==
  \A k \in CacheKey :
    /\ hist.committed[k] <= hist.reserved[k]
    /\ hist.reserved[k] < cache.nextReservation
    /\ cache.entry[k].reservation # NoReservation =>
         /\ cache.entry[k].reservation = hist.reserved[k]
         /\ cache.entry[k].reservation > hist.committed[k]

\* What CommitsInOrder and BudgetRespected follow from.
RefreshInv == BudgetStamped /\ ReservationsOrdered

\* The two LRU lists and their maps name the same kids, each once, within
\* max_entries; a miss stamp and an entry survive no erasure (jwks_cache.cpp
\* keeps an iterator into the list in every map element).
LruConsistent ==
  /\ cache.hits = ToSet(cache.hitLru) /\ IsInjective(cache.hitLru)
  /\ cache.misses = ToSet(cache.missLru) /\ IsInjective(cache.missLru)
  /\ Len(cache.hitLru) <= MaxEntries /\ Len(cache.missLru) <= MaxEntries
  /\ \A k \in CacheKey \ cache.hits : cache.entry[k] = NoEntry

\* However commits, cold fetches and passive unions interleave, a cached kid
\* has between one key and the cap, no key twice, each of them usable and
\* once listed under this very kid by this very endpoint.
EntriesSound ==
  \A k \in cache.hits :
    LET keys == cache.entry[k].keys IN
    /\ Len(keys) \in 1..MaxKeysPerKid /\ IsInjective(keys)
    /\ ToSet(keys) \subseteq UsableKeys \cap SigKeys \cap hist.listed[k]

\* A token passes the signature check only by a key that its own endpoint
\* has listed under the token's kid, whatever was fetched for other kids and
\* other endpoints, and however late the document arrived.
AcceptedKeyWasListed ==
  \A t \in Threads :
    row[t].pc = "Done" /\ row[t].result \in SignatureMatches /\ row[t].tok.early = "None"
      => row[t].tok.signer \in hist.listed[row[t].key]

(***************************************************************************)
(* Action properties.                                                       *)
(***************************************************************************)
\* Two JWKS fetches start at least kGlobalFetchBudgetWindowSeconds apart on
\* the clock the threads read, whichever threads, kids and endpoints they are
\* for, unless the clock was set back by more than the reset threshold.
BudgetRespected ==
  [][\A t \in Threads :
       row[t].pc = "Ready" /\ row'[t].pc = "Fetching" =>
         \/ hist.fetchAt = NoStamp
         \/ row[t].now >= hist.fetchAt + BudgetWindowS
         \/ hist.fetchAt - row[t].now > ClockResetS]_vars

CommitsIn(t) ==
  /\ row[t].pc = "Answered" /\ row[t].mode = "Refresh" /\ row'[t].pc = "Ingesting"
  /\ row'[t].reason \in {"Rotated", "Revoked", "NoRotation"}

\* A refresh is committed only while no later one of its kid was started, and
\* never twice: completions out of order are dropped.
CommitsInOrder ==
  [][\A t \in Threads : CommitsIn(t) =>
       /\ row[t].reservation = hist.reserved[row[t].key]
       /\ row[t].reservation > hist.committed[row[t].key]]_vars

\* A refresh accepts its token only by a key that it leaves in the cache: a
\* superseded refresh never accepts by material it could not commit, and the
\* cap never trims the key that verified.
RefreshAcceptsCachedKey ==
  [][\A t \in Threads :
       /\ row[t].pc = "Ingesting" /\ row[t].mode = "Refresh"
       /\ row'[t].pc = "Done" /\ row'[t].result \in SignatureMatches
       => \/ row[t].tok.signer \in ToSet(cache'.entry[row[t].key].keys)
          \/ row[t].key \notin cache'.hits]_vars

\* A kid leaves the cache only for lack of room, or when the documents of two
\* different refreshes of its endpoint did not list it.
EvictionCorroborated ==
  [][\A k \in cache.hits \ cache'.hits :
       \/ Cardinality(cache.hits) = MaxEntries /\ cache'.hits \ cache.hits # {}
       \/ Cardinality(hist'.absentIn[k]) >= 2]_vars

\* A cached key is dropped only by a thread that is applying a document: of
\* the key's endpoint, or of another one when the cache is full.  No failed,
\* empty or pending fetch costs a key (API_REFERENCE.md: "If a fetch fails or
\* times out, all existing cached keys are preserved").
KeysOutliveOutage ==
  [][\A k \in cache.hits :
       ~(ToSet(cache.entry[k].keys) \subseteq ToSet(cache'.entry[k].keys)) =>
         \E t \in Threads :
           /\ row'[t] # row[t] /\ Parsed(t)
           /\ Uri(t) = k[1] \/ Cardinality(cache.hits) = MaxEntries]_vars

\* A cold fetch whose document holds a usable key for the kid does not put the
\* kid on the negative list (validator.cpp, trust policy 3).  It does so only
\* when the cache is full, and then only if the document alone is larger than
\* the cache, or another thread had cached the kid meanwhile: the passive union
\* leaves such a kid where it is in the LRU list, and the rest of the document
\* may push it out.
UsableKidNotMissed ==
  [][\A t \in Threads :
       /\ row[t].pc = "Ingesting" /\ row[t].mode = "Cold" /\ row'[t].pc = "Done"
       /\ Usable(Doc(t), Kid(t)) # <<>>
       => \/ row[t].key \in cache'.hits
          \/ /\ Cardinality(cache.hits) = MaxEntries
             /\ Cardinality(PresentKids(Doc(t))) > MaxEntries \/ t \notin hist.cold]_vars

(***************************************************************************)
(* Liveness.                                                                *)
(***************************************************************************)
\* Every presented token is eventually decided: no order of mutex hand-overs,
\* HTTP failures and retries leaves a row waiting for ever.
EveryRowDecided == \A t \in Threads : row[t].pc = "Ready" ~> row[t].pc = "Done"

(***************************************************************************)
(* What the documentation says and the code does not do.                    *)
(***************************************************************************)
\* jwks_cache.hpp: CommitRefresh drops "stale out-of-order completions so
\* they cannot overwrite newer keys".  Stated as: a commit drops no key that
\* the endpoint lists now, unless the entry is at its cap.
CommitKeepsNewerKeys ==
  [][\A t \in Threads : CommitsIn(t) =>
       \A x \in ToSet(cache.entry[row[t].key].keys) \cap ToSet(published[Uri(t)][Kid(t)]) :
         \/ x \in ToSet(cache'.entry[row[t].key].keys)
         \/ Len(cache'.entry[row[t].key].keys) = MaxKeysPerKid]_vars
==============================================================================
