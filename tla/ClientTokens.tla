----------------------------- MODULE ClientTokens -----------------------------
(***************************************************************************)
(* The client side: quack_oauth_acquire, _refresh, _login, _device_login    *)
(* and _logout, called from several connections on one client SECRET.       *)
(*                                                                          *)
(* Every call reads the SECRET, talks to the token endpoint, and writes the *)
(* whole SECRET back.  The SECRET lives in DuckDB's catalog: the calls of a *)
(* transaction see it as it was when the transaction began, with their own  *)
(* writes on top; the first of two concurrent writers wins, and the other   *)
(* one fails.  A call that throws takes its transaction with it.            *)
(*                                                                          *)
(* The provider may rotate refresh tokens: a grant then returns a new one   *)
(* and the old one is spent.  HTTP calls are retried, and an answer may be  *)
(* lost after the provider has acted.                                       *)
(***************************************************************************)
EXTENDS Integers

CONSTANTS
  Connections,
  ClientSecrets,       \* the SECRETs an operator may have created
  ExpiresIn,           \* expires_in of token responses; 0 when absent
  DeviceLifetimes,     \* expires_in of device authorizations; 0 when absent
  DeviceIntervals,     \* interval of device authorizations
  DefaultIntervalS,    \* 5
  DefaultLifetimeS,    \* 600
  SlowDownStepS,       \* 5
  RenewSkewS,          \* quack_oauth_renew_skew_s
  MaxIsoS,             \* the last second of the year 9999
  MaxRetries,          \* RetryingHttpClient's max_retries
  Latencies,           \* seconds a poll may take beyond the sleep before it
  MaxClock,            \* bound: the system clock
  MaxCalls             \* bound: calls over all connections

NoToken == [until |-> 0]            \* access_token is absent
NoRt == 0                           \* refresh_token is absent
Unreadable == -1                    \* expires_at is absent or not in the format written here
NoResponse == [at |-> NoToken, rt |-> NoRt, expiresIn |-> 0]

SecretFields == {"clientId", "clientSecret", "tokenEndpoint", "deviceEndpoint", "at", "expiresAt", "rt"}

ASSUME ClientAssumption ==
  /\ \A s \in ClientSecrets :
       /\ DOMAIN s = SecretFields
       /\ \A f \in {"clientId", "clientSecret", "tokenEndpoint", "deviceEndpoint"} : s[f] \in BOOLEAN
       /\ s.at \in [until : Nat] /\ s.expiresAt \in Nat \cup {Unreadable} /\ s.rt \in {NoRt, 1}
  /\ ExpiresIn \subseteq Nat /\ DeviceLifetimes \subseteq Nat /\ DeviceIntervals \subseteq Nat
  /\ Latencies \subseteq Nat
  /\ DefaultIntervalS \in Nat \ {0} /\ DefaultLifetimeS \in Nat \ {0} /\ SlowDownStepS \in Nat
  /\ RenewSkewS \in Nat /\ MaxIsoS \in Nat /\ MaxRetries \in Nat /\ MaxClock \in Nat /\ MaxCalls \in Nat

VARIABLES
  secret,   \* the SECRET as committed
  conn,     \* per connection: its transaction and the call it is in
  idp,      \* the provider: refresh tokens that work, and the next to issue
  lost,     \* history: refresh tokens that were rotated away and whose successor was lost
  clock,    \* the system clock, in seconds
  calls     \* calls so far

vars == <<secret, conn, idp, lost, clock, calls>>

IdleConn(view) ==
  [ pc       |-> "Idle",
    fn       |-> "none",        \* the flow that runs: refresh, login or device
    view     |-> view,          \* the SECRET as the transaction sees it
    wrote    |-> FALSE,         \* the transaction has written it
    stale    |-> FALSE,         \* another writer has committed since it began
    cleared  |-> FALSE,         \* it has logged out
    missed   |-> FALSE,         \* history: another transaction's logout was committed since it began
    spent    |-> {},            \* history: refresh tokens it has had rotated
    attempt  |-> 0,             \* RunWithRetries
    resp     |-> NoResponse,
    interval |-> 0,             \* device flow: seconds between polls
    left     |-> 0 ]            \* device flow: seconds to the deadline

Init ==
  /\ secret \in ClientSecrets
  /\ conn = [c \in Connections |-> IdleConn(secret)]
  /\ idp = [live |-> {1}, next |-> 2]
  /\ lost = {}
  /\ clock = 1
  /\ calls = 0

(***************************************************************************)
(* Timestamps: written as YYYY-MM-DDTHH:MM:SSZ, read back only in that form.*)
(***************************************************************************)
FormatUtcIso8601(s) == IF s <= MaxIsoS THEN s ELSE Unreadable
ParseIso8601ToUnixSeconds(iso) == IF iso = Unreadable THEN 0 ELSE iso

(***************************************************************************)
(* Which flow quack_oauth_acquire takes.                                    *)
(***************************************************************************)
\* Mutant: an expiry that is not known counts as no expiry.
FreshWhenUnknown(v, now) ==
  /\ v.at # NoToken
  /\ LET exp == ParseIso8601ToUnixSeconds(v.expiresAt) IN exp = 0 \/ exp > now + RenewSkewS

AccessTokenIsFresh(v, now) ==
  /\ v.at # NoToken
  /\ LET exp == ParseIso8601ToUnixSeconds(v.expiresAt) IN exp > 0 /\ exp > now + RenewSkewS

CanRefresh(v) == v.rt # NoRt /\ v.tokenEndpoint /\ v.clientId
CanClientCredentials(v) == v.clientId /\ v.clientSecret /\ v.tokenEndpoint
CanDeviceCode(v) == v.clientId /\ v.tokenEndpoint /\ v.deviceEndpoint

DecideAcquireFlow(v, now) ==
  CASE AccessTokenIsFresh(v, now) -> "cached"
    [] ~AccessTokenIsFresh(v, now) /\ CanRefresh(v) -> "refresh"
    [] ~AccessTokenIsFresh(v, now) /\ ~CanRefresh(v) /\ CanClientCredentials(v) -> "login"
    [] ~AccessTokenIsFresh(v, now) /\ ~CanRefresh(v) /\ ~CanClientCredentials(v) /\ CanDeviceCode(v) -> "device"
    [] OTHER -> "unconfigured"

\* The checks at the head of DoRefresh, DoLogin and DoDeviceLoginImpl.
Configured(fn, v) ==
  CASE fn = "refresh" -> v.tokenEndpoint /\ v.rt # NoRt
    [] fn = "login"   -> CanClientCredentials(v)
    [] fn = "device"  -> CanDeviceCode(v)

(***************************************************************************)
(* The catalog: one SECRET, transactions, first writer wins.                *)
(***************************************************************************)
\* What OpenSecret finds; the first call of a transaction begins it.
OpenSecret(c) == IF conn[c].pc = "Idle" THEN secret ELSE conn[c].view

Conflict(c) == conn[c].stale \/ \E d \in Connections \ {c} : conn[d].wrote

\* An exception ends the transaction; rotations it was told of are lost.
Throw(c) ==
  /\ conn' = [conn EXCEPT ![c] = IdleConn(secret)]
  /\ lost' = lost \cup conn[c].spent
  /\ UNCHANGED secret

\* The call returns, and its locals are gone.
Returned(c, v) ==
  [conn[c] EXCEPT !.pc = "Txn", !.view = v, !.fn = "none", !.attempt = 0, !.resp = NoResponse,
                  !.interval = 0, !.left = 0]

\* Mutant: the write goes through whoever has written in the meantime.
WriteRegardless(c, v, cleared) ==
  /\ conn' = [conn EXCEPT ![c] = [Returned(c, v) EXCEPT !.wrote = TRUE, !.cleared = @ \/ cleared]]
  /\ UNCHANGED <<secret, lost>>

\* RegisterSecret with REPLACE_ON_CONFLICT.
RegisterSecret(c, v, cleared) ==
  IF Conflict(c) THEN Throw(c)
  ELSE /\ conn' = [conn EXCEPT ![c] = [Returned(c, v) EXCEPT !.wrote = TRUE, !.cleared = @ \/ cleared]]
       /\ UNCHANGED <<secret, lost>>

\* The statement, or the explicit transaction around several of them, ends.
Commit(c) ==
  /\ conn[c].pc = "Txn"
  /\ secret' = IF conn[c].wrote THEN conn[c].view ELSE secret
  /\ conn' = [d \in Connections |->
       IF d = c THEN IdleConn(secret')
       ELSE IF conn[d].pc = "Idle" THEN IdleConn(secret')
       ELSE [conn[d] EXCEPT !.stale = @ \/ conn[c].wrote, !.missed = @ \/ conn[c].cleared]]
  /\ UNCHANGED <<idp, lost, clock, calls>>

\* Rolled back by the user, or by another row or statement that failed.
Rollback(c) ==
  /\ conn[c].pc = "Txn"
  /\ Throw(c)
  /\ UNCHANGED <<idp, clock, calls>>

(***************************************************************************)
(* The calls.                                                               *)
(***************************************************************************)
Call(c) ==
  /\ conn[c].pc \in {"Idle", "Txn"}
  /\ calls < MaxCalls
  /\ calls' = calls + 1
  /\ UNCHANGED <<idp, clock>>

Enter(c, fn) ==
  /\ conn' = [conn EXCEPT ![c] = [@ EXCEPT !.pc = IF fn = "device" THEN "Authorizing" ELSE "Asking",
                                           !.fn = fn, !.view = OpenSecret(c), !.attempt = 0]]
  /\ UNCHANGED <<secret, lost>>

\* quack_oauth_refresh, _login and _device_login.
RunFlow(c, fn) == Call(c) /\ IF Configured(fn, OpenSecret(c)) THEN Enter(c, fn) ELSE Throw(c)

UseCached(c) ==
  /\ Call(c)
  /\ DecideAcquireFlow(OpenSecret(c), clock) = "cached"
  /\ conn' = [conn EXCEPT ![c] = Returned(c, OpenSecret(c))]
  /\ UNCHANGED <<secret, lost>>

\* The flow persists, and acquire reads back from its own transaction.
AcquireByFlow(c) ==
  /\ Call(c)
  /\ LET flow == DecideAcquireFlow(OpenSecret(c), clock) IN
     /\ flow # "cached"
     /\ IF flow = "unconfigured" THEN Throw(c) ELSE Enter(c, flow)

Logout(c) ==
  /\ Call(c)
  /\ RegisterSecret(c, [OpenSecret(c) EXCEPT !.at = NoToken, !.expiresAt = Unreadable, !.rt = NoRt], TRUE)

(***************************************************************************)
(* The provider and RetryingHttpClient.                                     *)
(***************************************************************************)
Delivered(c, r) == conn' = [conn EXCEPT ![c] = [@ EXCEPT !.pc = "Answered", !.resp = r, !.attempt = 0]]

\* A transport failure or a 5xx answer: another attempt, if there is one left.
Undelivered(c) ==
  IF conn[c].attempt < MaxRetries
  THEN conn' = [conn EXCEPT ![c].attempt = @ + 1]
  ELSE Delivered(c, NoResponse)

AttemptFails(c) ==
  /\ conn[c].pc \in {"Authorizing", "Asking"}
  /\ Undelivered(c)
  /\ UNCHANGED <<secret, idp, lost, clock, calls>>

\* A status or a body that is no token response; for a poll, access_denied,
\* expired_token or any other error.
Refuse(c) ==
  /\ conn[c].pc \in {"Authorizing", "Asking"}
  /\ Delivered(c, NoResponse)
  /\ UNCHANGED <<secret, idp, lost, clock, calls>>

\* The grant succeeds; with a refresh token in the response, the one it was
\* asked with is spent.  The answer arrives, or is lost, and nobody knows of
\* the tokens in it.
Grant(c, withRt, expiresIn) ==
  LET used == IF conn[c].fn = "refresh" /\ withRt THEN {conn[c].view.rt} ELSE {}
      rt   == IF withRt THEN idp.next ELSE NoRt
      r    == [at |-> [until |-> clock + expiresIn], rt |-> rt, expiresIn |-> expiresIn]
  IN /\ conn[c].pc = "Asking"
     /\ conn[c].fn = "refresh" => conn[c].view.rt \in idp.live
     /\ \/ /\ conn' = [conn EXCEPT ![c] = [@ EXCEPT !.pc = "Answered", !.resp = r, !.attempt = 0,
                                                 !.spent = conn[c].spent \cup used]]
           /\ idp' = IF withRt THEN [live |-> (idp.live \ used) \cup {rt}, next |-> idp.next + 1] ELSE idp
           /\ UNCHANGED lost
        \/ /\ Undelivered(c)
           /\ idp' = [idp EXCEPT !.live = @ \ used]
           /\ lost' = lost \cup used
     /\ UNCHANGED <<secret, clock, calls>>

(***************************************************************************)
(* The device flow: authorization, then polls until an answer or the        *)
(* deadline.  The deadline is on the steady clock, which only this call     *)
(* reads: left is what remains of it.                                       *)
(***************************************************************************)
\* Mutant: the interval is taken as offered.
PollAsOffered(interval) == interval
PollInterval(interval) == IF interval > 0 THEN interval ELSE DefaultIntervalS

AuthorizeDevice(c, lifetime, interval) ==
  /\ conn[c].pc = "Authorizing"
  /\ conn' = [conn EXCEPT ![c] = [@ EXCEPT !.pc = "Loop", !.interval = PollInterval(interval),
                                           !.left = IF lifetime > 0 THEN lifetime ELSE DefaultLifetimeS]]
  /\ UNCHANGED <<secret, idp, lost, clock, calls>>

Sleep(c, latency) ==
  /\ conn[c].pc = "Loop" /\ conn[c].left > 0
  /\ LET left == conn[c].left - conn[c].interval - latency IN
     conn' = [conn EXCEPT ![c] = [@ EXCEPT !.pc = "Asking", !.attempt = 0, !.left = IF left > 0 THEN left ELSE 0]]
  /\ UNCHANGED <<secret, idp, lost, clock, calls>>

\* authorization_pending, or slow_down.
PollAgain(c, slowDown) ==
  /\ conn[c].pc = "Asking" /\ conn[c].fn = "device"
  /\ conn' = [conn EXCEPT ![c].pc = "Loop", ![c].interval = IF slowDown THEN @ + SlowDownStepS ELSE @]
  /\ UNCHANGED <<secret, idp, lost, clock, calls>>

PollingTimedOut(c) ==
  /\ conn[c].pc = "Loop" /\ conn[c].left = 0
  /\ Throw(c)
  /\ UNCHANGED <<idp, clock, calls>>

(***************************************************************************)
(* The end of a flow.                                                       *)
(***************************************************************************)
\* Mutant: an absent refresh token overwrites the stored one.
PersistAlsoEmpty(v, at, iso, rt) == [v EXCEPT !.at = at, !.expiresAt = iso, !.rt = rt]

\* Mutant: a rotated refresh token is not stored.
PersistAccessOnly(v, at, iso, rt) == [v EXCEPT !.at = at, !.expiresAt = iso]

PersistTokenFields(v, at, iso, rt) ==
  [v EXCEPT !.at = at, !.expiresAt = iso, !.rt = IF rt # NoRt THEN rt ELSE @]

\* DoLogin passes no refresh token on.
Persist(c) ==
  LET r == conn[c].resp IN
  /\ conn[c].pc = "Answered"
  /\ IF r = NoResponse THEN Throw(c)
     ELSE RegisterSecret(c, PersistTokenFields(conn[c].view, r.at, FormatUtcIso8601(clock + r.expiresIn),
                                               IF conn[c].fn = "login" THEN NoRt ELSE r.rt), FALSE)
  /\ UNCHANGED <<idp, clock, calls>>

(***************************************************************************)
(* The specification.                                                       *)
(***************************************************************************)
Tick ==
  /\ clock < MaxClock
  /\ clock' = clock + 1
  /\ UNCHANGED <<secret, conn, idp, lost, calls>>

Start(c) ==
  \/ \E fn \in {"refresh", "login", "device"} : RunFlow(c, fn)
  \/ UseCached(c) \/ AcquireByFlow(c) \/ Logout(c)

Run(c) ==
  \/ AttemptFails(c) \/ Refuse(c) \/ Persist(c) \/ PollingTimedOut(c)
  \/ \E withRt \in BOOLEAN, e \in ExpiresIn : Grant(c, withRt, e)
  \/ \E lifetime \in DeviceLifetimes, interval \in DeviceIntervals : AuthorizeDevice(c, lifetime, interval)
  \/ \E latency \in Latencies : Sleep(c, latency)
  \/ \E slowDown \in BOOLEAN : PollAgain(c, slowDown)

Next == Tick \/ \E c \in Connections : Start(c) \/ Run(c) \/ Commit(c) \/ Rollback(c)

\* A call runs on, and every HTTP attempt ends by an answer or a timeout.
FairSpec == Init /\ [][Next]_vars /\ \A c \in Connections : WF_vars(Run(c))

(***************************************************************************)
(* Properties.                                                              *)
(***************************************************************************)
SecretTypeOK(s) ==
  /\ DOMAIN s = SecretFields
  /\ \A f \in {"clientId", "clientSecret", "tokenEndpoint", "deviceEndpoint"} : s[f] \in BOOLEAN
  /\ s.at \in [until : Nat] /\ s.expiresAt \in Nat \cup {Unreadable} /\ s.rt \in Nat

ConnTypeOK(r) ==
  /\ DOMAIN r = DOMAIN IdleConn(secret)
  /\ r.pc \in {"Idle", "Txn", "Authorizing", "Loop", "Asking", "Answered"}
  /\ r.fn \in {"none", "refresh", "login", "device"}
  /\ SecretTypeOK(r.view) /\ r.spent \subseteq 1..(idp.next - 1)
  /\ r.wrote \in BOOLEAN /\ r.stale \in BOOLEAN /\ r.cleared \in BOOLEAN /\ r.missed \in BOOLEAN
  /\ r.attempt \in 0..MaxRetries /\ r.interval \in Nat /\ r.left \in Nat
  /\ r.resp \in [at : [until : Nat], rt : Nat, expiresIn : Nat]

\* Every variable keeps its type, no two transactions hold a write of the
\* SECRET at the same time, and one that does has missed no other write.
TypeOK ==
  /\ SecretTypeOK(secret)
  /\ DOMAIN conn = Connections /\ \A c \in Connections : ConnTypeOK(conn[c])
  /\ idp.next \in Nat \ {0} /\ idp.live \subseteq 1..(idp.next - 1) /\ lost \subseteq 1..(idp.next - 1)
  /\ clock \in Nat /\ calls \in Nat
  /\ \A c \in Connections : conn[c].wrote => ~Conflict(c)

\* The refresh token on the SECRET works, unless a connection is about to
\* replace it or its replacement was lost to a dropped answer, a failure or a
\* rollback: no commit by itself leaves a spent token behind.
SpentOnlyIfLost ==
  secret.rt = NoRt \/ secret.rt \in idp.live \cup lost \cup UNION {conn[c].spent : c \in Connections}

\* Only a logout takes away a refresh token that still works without putting
\* another one that works in its place.
RefreshTokenKept ==
  [][\A c \in Connections :
       conn[c].pc = "Txn" /\ conn'[c].pc = "Idle" /\ secret.rt \in idp.live /\ ~conn[c].cleared
         => secret'.rt \in idp.live]_vars

\* No transaction that began before a logout was committed puts tokens back
\* on the SECRET after it.
LogoutHolds ==
  [][\A c \in Connections :
       conn[c].missed /\ conn'[c].pc = "Idle" => secret' = secret]_vars

\* A token that acquire takes from the SECRET has not expired at the provider,
\* if it was stored within the renewal skew of its being issued.
CachedUnexpired ==
  [][\A c \in Connections :
       UseCached(c) => LET v == OpenSecret(c) IN
         v.expiresAt - v.at.until <= RenewSkewS => v.at.until > clock]_vars

\* Every call returns or throws: the device flow too, whatever interval and
\* lifetime the provider names and however often it answers "pending".
EveryCallEnds ==
  \A c \in Connections : conn[c].pc \notin {"Idle", "Txn"} ~> conn[c].pc \in {"Idle", "Txn"}
==============================================================================
