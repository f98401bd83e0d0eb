------------------------- MODULE ClientTokensProofs -------------------------
(***************************************************************************)
(* Theorems about ClientTokens, for any number of connections, any SECRETs   *)
(* and any bounds.                                                          *)
(*                                                                          *)
(* Every step is first reduced to one of a few kinds: a call goes on, throws *)
(* or writes the SECRET into its transaction; a grant is delivered or lost;  *)
(* a transaction commits.  The invariants are proved over these kinds:       *)
(* TxnInv (what a transaction is made of), SpentInv (a transaction that may   *)
(* still write holds no spent refresh token), PrivateInv (a refresh token     *)
(* that is not committed yet is known to one connection only) and KeptInv.   *)
(***************************************************************************)
EXTENDS ClientTokens, TLAPS

Safety == Init /\ [][Next]_vars

ConnFields == {"pc", "fn", "view", "wrote", "stale", "cleared", "missed", "spent", "attempt", "resp",
               "interval", "left"}

\* The type of a connection that may hold refresh tokens below n.
RowOK(r, n) ==
  /\ DOMAIN r = ConnFields
  /\ r.pc \in {"Idle", "Txn", "Authorizing", "Loop", "Asking", "Answered"}
  /\ r.fn \in {"none", "refresh", "login", "device"}
  /\ SecretTypeOK(r.view) /\ r.spent \subseteq 1..(n - 1)
  /\ r.wrote \in BOOLEAN /\ r.stale \in BOOLEAN /\ r.cleared \in BOOLEAN /\ r.missed \in BOOLEAN
  /\ r.attempt \in 0..MaxRetries /\ r.interval \in Nat /\ r.left \in Nat
  /\ r.resp \in [at : [until : Nat], rt : Nat, expiresIn : Nat]
  /\ r.view.rt < n /\ r.resp.rt < n
  /\ r.pc # "Answered" => r.resp = NoResponse
  /\ r.missed => r.stale
  /\ r.cleared => r.wrote
  /\ r.spent # {} => r.wrote \/ r.pc = "Answered"

\* What a transaction is made of: a connection outside one sees the committed
\* SECRET, missing a logout means missing a write, and a refresh token it has
\* had rotated is either written over or in the answer at hand.
TxnInv ==
  /\ SecretTypeOK(secret) /\ secret.rt < idp.next
  /\ DOMAIN conn = Connections
  /\ \A c \in Connections : RowOK(conn[c], idp.next) /\ (conn[c].pc = "Idle" => conn[c] = IdleConn(secret))
  /\ DOMAIN idp = {"live", "next"} /\ idp.next \in Nat \ {0}
  /\ idp.live \subseteq 1..(idp.next - 1) /\ lost \subseteq 1..(idp.next - 1)
  /\ clock \in Nat \ {0} /\ calls \in Nat
  /\ \A c \in Connections : conn[c].wrote => ~Conflict(c)

\* The fields that a connection keeps while its call goes on.
SameTxn(q, r) ==
  /\ r.view = q.view /\ r.wrote = q.wrote /\ r.stale = q.stale /\ r.cleared = q.cleared
  /\ r.missed = q.missed

RefreshAsked(r) == r.pc = "Asking" /\ r.fn = "refresh"

\* A call goes on: an answer that is no token response, or no answer yet.
GoesOn(q, r) ==
  /\ SameTxn(q, r) /\ r.spent = q.spent /\ r.pc # "Idle"
  /\ \/ r.pc = "Answered" /\ r.resp = NoResponse
     \/ /\ r.pc # "Answered" /\ q.pc # "Answered" /\ (RefreshAsked(q) => RefreshAsked(r))

Moves(c) ==
  /\ UNCHANGED <<secret, idp, lost>>
  /\ \E r : conn' = [conn EXCEPT ![c] = r] /\ RowOK(r, idp.next) /\ GoesOn(conn[c], r)

Throws(c) == Throw(c) /\ UNCHANGED idp

\* The refresh token the SECRET gets from the answer at hand.
NewRt(r) == IF r.fn # "login" /\ r.resp.rt # NoRt THEN r.resp.rt ELSE r.view.rt

\* A logout, or the end of a flow.
Writes(c) ==
  /\ UNCHANGED <<secret, idp, lost>> /\ ~Conflict(c)
  /\ \E r : /\ conn' = [conn EXCEPT ![c] = r] /\ RowOK(r, idp.next)
            /\ r.pc = "Txn" /\ r.wrote = TRUE /\ r.stale = conn[c].stale /\ r.missed = conn[c].missed
            /\ r.spent = conn[c].spent
            /\ \/ r.cleared = TRUE /\ r.view.rt = NoRt
               \/ /\ r.cleared = conn[c].cleared /\ r.view.rt = NewRt(conn[c])
                  /\ conn[c].pc = "Answered" /\ conn[c].resp # NoResponse

\* The refresh token that a grant spends.
Used(c, withRt) == IF conn[c].fn = "refresh" /\ withRt THEN {conn[c].view.rt} ELSE {}

DeliversAs(c, withRt) ==
  \E r :
    /\ conn[c].pc = "Asking" /\ (conn[c].fn = "refresh" => conn[c].view.rt \in idp.live)
    /\ conn' = [conn EXCEPT ![c] = r] /\ RowOK(r, idp'.next) /\ UNCHANGED <<secret, lost>>
    /\ SameTxn(conn[c], r) /\ r.pc = "Answered" /\ r.fn = conn[c].fn /\ r.resp # NoResponse
    /\ r.spent = conn[c].spent \cup Used(c, withRt)
    /\ r.resp.rt = IF withRt THEN idp.next ELSE NoRt
    /\ idp' = IF withRt THEN [live |-> (idp.live \ Used(c, withRt)) \cup {idp.next}, next |-> idp.next + 1]
              ELSE idp

Delivers(c) == \E withRt \in BOOLEAN : DeliversAs(c, withRt)

LosesAs(c, withRt) ==
  \E r :
    /\ conn[c].pc = "Asking" /\ (conn[c].fn = "refresh" => conn[c].view.rt \in idp.live)
    /\ conn' = [conn EXCEPT ![c] = r] /\ RowOK(r, idp.next) /\ UNCHANGED secret
    /\ GoesOn(conn[c], r)
    /\ idp' = [idp EXCEPT !.live = @ \ Used(c, withRt)]
    /\ lost' = lost \cup Used(c, withRt)

Loses(c) == \E withRt \in BOOLEAN : LosesAs(c, withRt)

Kinds(c) == Moves(c) \/ Throws(c) \/ Writes(c) \/ Delivers(c) \/ Loses(c) \/ Commit(c)

\* A connection outside a transaction.
LEMMA IdleConnIs ==
  ASSUME NEW v, SecretTypeOK(v), NEW n \in Nat \ {0}, v.rt < n
  PROVE  /\ RowOK(IdleConn(v), n) /\ IdleConn(v).pc = "Idle" /\ IdleConn(v).view = v
         /\ IdleConn(v).wrote = FALSE /\ IdleConn(v).stale = FALSE /\ IdleConn(v).spent = {}
         /\ IdleConn(v).missed = FALSE /\ IdleConn(v).cleared = FALSE
         /\ IdleConn(v).resp = NoResponse /\ IdleConn(v).fn = "none"
<1>1. NoResponse \in [at : [until : Nat], rt : Nat, expiresIn : Nat] /\ NoResponse.rt = 0
  BY DEF NoResponse, NoToken, NoRt
<1>2. MaxRetries \in Nat
  BY ClientAssumption
<1> DEFINE r == IdleConn(v)
<1>3. /\ DOMAIN r = ConnFields /\ r.pc = "Idle" /\ r.fn = "none" /\ r.view = v /\ r.wrote = FALSE
      /\ r.stale = FALSE /\ r.cleared = FALSE /\ r.missed = FALSE /\ r.spent = {} /\ r.attempt = 0
      /\ r.resp = NoResponse /\ r.interval = 0 /\ r.left = 0
  BY DEF IdleConn, ConnFields
<1> HIDE DEF r
<1>4. RowOK(r, n)
  <2>1. r.attempt \in 0..MaxRetries /\ r.interval \in Nat /\ r.left \in Nat
    BY <1>2, <1>3
  <2>2. r.wrote \in BOOLEAN /\ r.stale \in BOOLEAN /\ r.cleared \in BOOLEAN /\ r.missed \in BOOLEAN
    BY <1>3
  <2>3. r.view.rt < n /\ r.resp.rt < n
    <3>1. NoResponse.rt < n
      BY <1>1
    <3> QED BY <3>1, <1>3
  <2>4. r.resp \in [at : [until : Nat], rt : Nat, expiresIn : Nat]
    BY <1>1, <1>3
  <2>5. r.spent \subseteq 1..(n - 1) /\ r.spent = {}
    BY <1>3
  <2>6. ~r.missed /\ ~r.cleared
    BY <1>3
  <2>7. SecretTypeOK(r.view)
    BY <1>3
  <2> QED BY <1>3, <2>1, <2>2, <2>3, <2>4, <2>5, <2>6, <2>7 DEF RowOK
<1> QED BY <1>3, <1>4 DEF r

\* The invariant holds initially.
LEMMA InitTxnInv == Init => TxnInv
<1> SUFFICES ASSUME Init PROVE TxnInv
  OBVIOUS
<1>1. SecretTypeOK(secret) /\ secret.rt \in {0, 1}
  <2>1. secret \in ClientSecrets
    BY DEF Init
  <2> QED BY <2>1, ClientAssumption DEF SecretTypeOK, NoRt
<1>2. idp.live = {1} /\ idp.next = 2 /\ DOMAIN idp = {"live", "next"} /\ lost = {}
  BY DEF Init
<1>3. \A c \in Connections : conn[c] = IdleConn(secret)
  BY DEF Init
<1>4. RowOK(IdleConn(secret), 2) /\ IdleConn(secret).wrote = FALSE
  <2>1. 2 \in Nat \ {0} /\ secret.rt < 2
    BY <1>1
  <2> QED BY <1>1, <2>1, IdleConnIs
<1>6. DOMAIN conn = Connections /\ clock \in Nat \ {0} /\ calls \in Nat
  BY DEF Init
<1>7. idp.live \subseteq 1..(idp.next - 1) /\ idp.next \in Nat \ {0} /\ secret.rt < idp.next
  BY <1>1, <1>2
<1>8. \A c \in Connections : RowOK(conn[c], idp.next) /\ ~conn[c].wrote
  BY <1>2, <1>3, <1>4
<1> QED BY <1>1, <1>2, <1>3, <1>6, <1>7, <1>8 DEF TxnInv

\* The facts about a connection that its call needs.
LEMMA OpenIs ==
  ASSUME TxnInv, NEW c \in Connections
  PROVE  /\ OpenSecret(c) = conn[c].view /\ SecretTypeOK(conn[c].view) /\ RowOK(conn[c], idp.next)
         /\ conn[c].pc = "Idle" => conn[c].resp = NoResponse
         /\ idp.next \in Nat \ {0}
<1>1. conn[c].pc = "Idle" => conn[c].view = secret /\ conn[c].resp = NoResponse
  <2>1. SecretTypeOK(secret) /\ secret.rt < idp.next /\ idp.next \in Nat \ {0}
    BY DEF TxnInv
  <2>2. IdleConn(secret).view = secret /\ IdleConn(secret).resp = NoResponse
    BY <2>1, IdleConnIs
  <2> QED BY <2>2 DEF TxnInv
<1> QED BY <1>1 DEF OpenSecret, TxnInv, RowOK


\* A call that goes on keeps the type of its connection.
LEMMA RowGoesOn ==
  ASSUME NEW n \in Nat \ {0}, NEW q, RowOK(q, n), NEW r, DOMAIN r = ConnFields, SameTxn(q, r),
         r.spent = q.spent, r.pc \in {"Txn", "Authorizing", "Loop", "Asking", "Answered"},
         r.fn \in {"none", "refresh", "login", "device"}, r.attempt \in 0..MaxRetries,
         r.interval \in Nat, r.left \in Nat, r.resp = NoResponse,
         r.pc = "Answered" \/ q.pc # "Answered"
  PROVE  RowOK(r, n)
<1>1. NoResponse \in [at : [until : Nat], rt : Nat, expiresIn : Nat] /\ NoResponse.rt = 0
  BY DEF NoResponse, NoToken, NoRt
<1>2. r.view.rt < n /\ r.resp.rt < n /\ r.resp \in [at : [until : Nat], rt : Nat, expiresIn : Nat]
  <2>1. NoResponse.rt < n
    BY <1>1
  <2> QED BY <1>1, <2>1 DEF RowOK, SameTxn
<1>3. r.wrote \in BOOLEAN /\ r.stale \in BOOLEAN /\ r.cleared \in BOOLEAN /\ r.missed \in BOOLEAN
  BY DEF RowOK, SameTxn
<1>4. (r.missed => r.stale) /\ (r.cleared => r.wrote) /\ (r.spent # {} => r.wrote \/ r.pc = "Answered")
  BY DEF RowOK, SameTxn
<1>5. SecretTypeOK(r.view) /\ r.spent \subseteq 1..(n - 1)
  BY DEF RowOK, SameTxn
<1> QED BY <1>2, <1>3, <1>4, <1>5 DEF RowOK

\* A flow that is entered goes on.
LEMMA EnterMoves ==
  ASSUME TxnInv, NEW c \in Connections, NEW fn \in {"refresh", "login", "device"},
         conn[c].pc \in {"Idle", "Txn"}, Enter(c, fn), UNCHANGED idp
  PROVE  Moves(c)
<1>1. /\ OpenSecret(c) = conn[c].view /\ RowOK(conn[c], idp.next) /\ idp.next \in Nat \ {0}
  BY OpenIs
<1> DEFINE r == [conn[c] EXCEPT !.pc = IF fn = "device" THEN "Authorizing" ELSE "Asking",
                                !.fn = fn, !.view = OpenSecret(c), !.attempt = 0]
<1>2. conn' = [conn EXCEPT ![c] = r] /\ UNCHANGED <<secret, idp, lost>>
  BY DEF Enter, TxnInv
<1>3. DOMAIN conn[c] = ConnFields
  BY <1>1 DEF RowOK
<1>4. /\ DOMAIN r = ConnFields /\ r.pc \in {"Authorizing", "Asking"} /\ r.fn = fn /\ r.view = conn[c].view
      /\ r.attempt = 0 /\ r.wrote = conn[c].wrote /\ r.stale = conn[c].stale
      /\ r.cleared = conn[c].cleared /\ r.missed = conn[c].missed /\ r.spent = conn[c].spent
      /\ r.interval = conn[c].interval /\ r.left = conn[c].left /\ r.resp = conn[c].resp
  BY <1>1, <1>3 DEF ConnFields
<1> HIDE DEF r
<1>5. conn[c].resp = NoResponse /\ conn[c].interval \in Nat /\ conn[c].left \in Nat /\ 0 \in 0..MaxRetries
  BY <1>1, ClientAssumption DEF RowOK
<1>6. SameTxn(conn[c], r)
  BY <1>4 DEF SameTxn
<1>7. RowOK(r, idp.next)
  BY <1>1, <1>4, <1>5, <1>6, RowGoesOn
<1>8. GoesOn(conn[c], r)
  BY <1>4, <1>6 DEF GoesOn, RefreshAsked
<1> QED BY <1>2, <1>7, <1>8 DEF Moves

\* A cached token is returned: the call goes on, with its locals gone.
LEMMA CachedMoves ==
  ASSUME TxnInv, NEW c \in Connections, UseCached(c)
  PROVE  Moves(c)
<1>1. /\ OpenSecret(c) = conn[c].view /\ RowOK(conn[c], idp.next) /\ idp.next \in Nat \ {0}
  BY OpenIs
<1>2. conn[c].pc \in {"Idle", "Txn"}
  BY DEF UseCached, Call
<1> DEFINE r == Returned(c, conn[c].view)
<1>3. conn' = [conn EXCEPT ![c] = r] /\ UNCHANGED <<secret, idp, lost>>
  BY <1>1 DEF UseCached, Call
<1>4. DOMAIN conn[c] = ConnFields
  BY <1>1 DEF RowOK
<1>5. /\ DOMAIN r = ConnFields /\ r.pc = "Txn" /\ r.fn = "none" /\ r.view = conn[c].view
      /\ r.attempt = 0 /\ r.wrote = conn[c].wrote /\ r.stale = conn[c].stale
      /\ r.cleared = conn[c].cleared /\ r.missed = conn[c].missed /\ r.spent = conn[c].spent
      /\ r.interval = 0 /\ r.left = 0 /\ r.resp = NoResponse
  BY <1>4 DEF ConnFields, Returned
<1> HIDE DEF r
<1>6. 0 \in Nat /\ 0 \in 0..MaxRetries
  BY ClientAssumption
<1>7. SameTxn(conn[c], r)
  BY <1>5 DEF SameTxn
<1>8. RowOK(r, idp.next)
  BY <1>1, <1>2, <1>5, <1>6, <1>7, RowGoesOn
<1>9. GoesOn(conn[c], r)
  BY <1>2, <1>5, <1>7 DEF GoesOn, RefreshAsked
<1> QED BY <1>3, <1>8, <1>9 DEF Moves

\* An attempt that brings no answer leaves the call waiting, or answered with
\* no response.
LEMMA UndeliveredIs ==
  ASSUME TxnInv, NEW c \in Connections, conn[c].pc \in {"Authorizing", "Asking"},
         Undelivered(c) \/ Delivered(c, NoResponse)
  PROVE  \E r : conn' = [conn EXCEPT ![c] = r] /\ RowOK(r, idp.next) /\ GoesOn(conn[c], r)
<1>1. RowOK(conn[c], idp.next) /\ idp.next \in Nat \ {0}
  BY OpenIs
<1>2. /\ DOMAIN conn[c] = ConnFields /\ conn[c].resp = NoResponse /\ conn[c].attempt \in 0..MaxRetries
      /\ conn[c].fn \in {"none", "refresh", "login", "device"}
      /\ conn[c].interval \in Nat /\ conn[c].left \in Nat
  BY <1>1 DEF RowOK
<1>3. MaxRetries \in Nat
  BY ClientAssumption
<1>4. CASE conn[c].attempt < MaxRetries /\ Undelivered(c)
  <2> DEFINE r == [conn[c] EXCEPT !.attempt = @ + 1]
  <2>1. conn' = [conn EXCEPT ![c] = r]
    BY <1>4 DEF Undelivered
  <2>2. /\ DOMAIN r = ConnFields /\ r.pc = conn[c].pc /\ r.fn = conn[c].fn /\ r.view = conn[c].view
        /\ r.attempt = conn[c].attempt + 1 /\ r.wrote = conn[c].wrote /\ r.stale = conn[c].stale
        /\ r.cleared = conn[c].cleared /\ r.missed = conn[c].missed /\ r.spent = conn[c].spent
        /\ r.interval = conn[c].interval /\ r.left = conn[c].left /\ r.resp = conn[c].resp
    BY <1>2 DEF ConnFields
  <2> HIDE DEF r
  <2>3. conn[c].attempt + 1 \in 0..MaxRetries
    BY <1>2, <1>3, <1>4
  <2>4. SameTxn(conn[c], r)
    BY <2>2 DEF SameTxn
  <2>5. RowOK(r, idp.next)
    BY <1>1, <1>2, <2>2, <2>3, <2>4, RowGoesOn
  <2>6. GoesOn(conn[c], r)
    BY <2>2, <2>4 DEF GoesOn, RefreshAsked
  <2> QED BY <2>1, <2>5, <2>6
<1>5. CASE Delivered(c, NoResponse)
  <2> DEFINE r == [conn[c] EXCEPT !.pc = "Answered", !.resp = NoResponse, !.attempt = 0]
  <2>1. conn' = [conn EXCEPT ![c] = r]
    BY <1>5 DEF Delivered
  <2>2. /\ DOMAIN r = ConnFields /\ r.pc = "Answered" /\ r.fn = conn[c].fn /\ r.view = conn[c].view
        /\ r.attempt = 0 /\ r.wrote = conn[c].wrote /\ r.stale = conn[c].stale
        /\ r.cleared = conn[c].cleared /\ r.missed = conn[c].missed /\ r.spent = conn[c].spent
        /\ r.interval = conn[c].interval /\ r.left = conn[c].left /\ r.resp = NoResponse
    BY <1>2 DEF ConnFields
  <2> HIDE DEF r
  <2>3. 0 \in 0..MaxRetries
    BY <1>3
  <2>4. SameTxn(conn[c], r)
    BY <2>2 DEF SameTxn
  <2>5. RowOK(r, idp.next)
    BY <1>1, <1>2, <2>2, <2>3, <2>4, RowGoesOn
  <2>6. GoesOn(conn[c], r)
    BY <2>2, <2>4 DEF GoesOn
  <2> QED BY <2>1, <2>5, <2>6
<1> QED BY <1>4, <1>5 DEF Undelivered

\* A step of the device flow that changes its timers only.
LEMMA TimersMove ==
  ASSUME TxnInv, NEW c \in Connections, NEW r, conn' = [conn EXCEPT ![c] = r],
         UNCHANGED <<secret, idp, lost>>, DOMAIN r = ConnFields, r.pc \in {"Loop", "Asking"},
         SameTxn(conn[c], r), r.spent = conn[c].spent, r.fn = conn[c].fn, r.resp = conn[c].resp,
         r.attempt \in 0..MaxRetries, r.interval \in Nat, r.left \in Nat,
         conn[c].pc \in {"Authorizing", "Loop", "Asking"}, conn[c].pc = "Asking" => conn[c].fn = "device"
  PROVE  Moves(c)
<1>1. RowOK(conn[c], idp.next) /\ idp.next \in Nat \ {0}
  BY OpenIs
<1>2. conn[c].resp = NoResponse /\ conn[c].fn \in {"none", "refresh", "login", "device"}
  BY <1>1 DEF RowOK
<1>3. RowOK(r, idp.next)
  BY <1>1, <1>2, RowGoesOn
<1>4. GoesOn(conn[c], r)
  BY DEF GoesOn, RefreshAsked
<1> QED BY <1>3, <1>4 DEF Moves

\* The device flow goes on: authorized, asleep, or told to poll again.
LEMMA DeviceMoves ==
  ASSUME TxnInv, NEW c \in Connections,
         \/ \E lifetime \in DeviceLifetimes, interval \in DeviceIntervals : AuthorizeDevice(c, lifetime, interval)
         \/ \E latency \in Latencies : Sleep(c, latency)
         \/ \E slowDown \in BOOLEAN : PollAgain(c, slowDown)
  PROVE  Moves(c)
<1>1. RowOK(conn[c], idp.next)
  BY OpenIs
<1>2. /\ DOMAIN conn[c] = ConnFields /\ conn[c].attempt \in 0..MaxRetries /\ MaxRetries \in Nat
      /\ conn[c].interval \in Nat /\ conn[c].left \in Nat
  BY <1>1, ClientAssumption DEF RowOK
<1>3. ASSUME NEW lifetime \in DeviceLifetimes, NEW interval \in DeviceIntervals,
             AuthorizeDevice(c, lifetime, interval)
      PROVE  Moves(c)
  <2> DEFINE i == PollInterval(interval)
             l == IF lifetime > 0 THEN lifetime ELSE DefaultLifetimeS
             r == [conn[c] EXCEPT !.pc = "Loop", !.interval = i, !.left = l]
  <2>1. i \in Nat /\ l \in Nat
    BY ClientAssumption DEF PollInterval
  <2>2. conn[c].pc = "Authorizing" /\ UNCHANGED <<secret, idp, lost>> /\ conn' = [conn EXCEPT ![c] = r]
    BY <1>3 DEF AuthorizeDevice
  <2> HIDE DEF i, l
  <2>3. /\ DOMAIN r = ConnFields /\ r.pc = "Loop" /\ r.spent = conn[c].spent /\ r.fn = conn[c].fn
        /\ r.resp = conn[c].resp /\ r.attempt = conn[c].attempt /\ r.interval = i /\ r.left = l
        /\ SameTxn(conn[c], r)
    BY <1>2 DEF ConnFields, SameTxn
  <2> HIDE DEF r
  <2>4. r.attempt \in 0..MaxRetries /\ r.interval \in Nat /\ r.left \in Nat
    BY <1>2, <2>1, <2>3
  <2> QED BY <2>2, <2>3, <2>4, TimersMove
<1>4. ASSUME NEW latency \in Latencies, Sleep(c, latency)
      PROVE  Moves(c)
  <2> DEFINE m == conn[c].left - conn[c].interval - latency
             l == IF m > 0 THEN m ELSE 0
             r == [conn[c] EXCEPT !.pc = "Asking", !.attempt = 0, !.left = l]
  <2>1. l \in Nat /\ 0 \in 0..MaxRetries
    <3>1. m \in Int
      BY <1>2, ClientAssumption
    <3> HIDE DEF m
    <3> QED BY <1>2, <3>1
  <2>2. conn[c].pc = "Loop" /\ UNCHANGED <<secret, idp, lost>> /\ conn' = [conn EXCEPT ![c] = r]
    BY <1>4 DEF Sleep
  <2> HIDE DEF l
  <2>3. /\ DOMAIN r = ConnFields /\ r.pc = "Asking" /\ r.spent = conn[c].spent /\ r.fn = conn[c].fn
        /\ r.resp = conn[c].resp /\ r.attempt = 0 /\ r.interval = conn[c].interval /\ r.left = l
        /\ SameTxn(conn[c], r)
    BY <1>2 DEF ConnFields, SameTxn
  <2> HIDE DEF r
  <2>4. r.attempt \in 0..MaxRetries /\ r.interval \in Nat /\ r.left \in Nat
    BY <1>2, <2>1, <2>3
  <2> QED BY <2>2, <2>3, <2>4, TimersMove
<1>5. ASSUME NEW slowDown \in BOOLEAN, PollAgain(c, slowDown)
      PROVE  Moves(c)
  <2> DEFINE i == IF slowDown THEN conn[c].interval + SlowDownStepS ELSE conn[c].interval
             r == [conn[c] EXCEPT !.pc = "Loop", !.interval = IF slowDown THEN @ + SlowDownStepS ELSE @]
  <2>1. i \in Nat
    BY <1>2, ClientAssumption
  <2>2. /\ conn[c].pc = "Asking" /\ conn[c].fn = "device" /\ UNCHANGED <<secret, idp, lost>>
        /\ conn' = [conn EXCEPT ![c] = r]
    BY <1>5 DEF PollAgain
  <2>3. /\ DOMAIN r = ConnFields /\ r.pc = "Loop" /\ r.spent = conn[c].spent /\ r.fn = conn[c].fn
        /\ r.resp = conn[c].resp /\ r.attempt = conn[c].attempt /\ r.interval = i
        /\ r.left = conn[c].left /\ SameTxn(conn[c], r)
    BY <1>2 DEF ConnFields, SameTxn
  <2> HIDE DEF r
  <2>4. r.attempt \in 0..MaxRetries /\ r.interval \in Nat /\ r.left \in Nat
    BY <1>2, <2>1, <2>3
  <2> QED BY <2>2, <2>3, <2>4, TimersMove
<1> QED BY <1>3, <1>4, <1>5

\* RegisterSecret throws, or writes a SECRET with the given refresh token.
LEMMA RegisterIs ==
  ASSUME TxnInv, NEW c \in Connections, conn[c].pc # "Asking", NEW v, SecretTypeOK(v), v.rt < idp.next,
         NEW cleared \in BOOLEAN, RegisterSecret(c, v, cleared), UNCHANGED idp,
         \/ cleared = TRUE /\ v.rt = NoRt
         \/ /\ cleared = FALSE /\ v.rt = NewRt(conn[c])
            /\ conn[c].pc = "Answered" /\ conn[c].resp # NoResponse
  PROVE  Throws(c) \/ Writes(c)
<1>1. RowOK(conn[c], idp.next) /\ idp.next \in Nat \ {0}
  BY OpenIs
<1>2. CASE Conflict(c)
  BY <1>2 DEF RegisterSecret, Throws
<1>3. CASE ~Conflict(c)
  <2> DEFINE r == [Returned(c, v) EXCEPT !.wrote = TRUE, !.cleared = @ \/ cleared]
  <2>1. conn' = [conn EXCEPT ![c] = r] /\ UNCHANGED <<secret, idp, lost>>
    BY <1>3 DEF RegisterSecret
  <2>2. DOMAIN conn[c] = ConnFields
    BY <1>1 DEF RowOK
  <2>3. /\ DOMAIN r = ConnFields /\ r.pc = "Txn" /\ r.fn = "none" /\ r.view = v
        /\ r.attempt = 0 /\ r.wrote = TRUE /\ r.stale = conn[c].stale
        /\ r.cleared = (conn[c].cleared \/ cleared) /\ r.missed = conn[c].missed
        /\ r.spent = conn[c].spent /\ r.interval = 0 /\ r.left = 0 /\ r.resp = NoResponse
    BY <2>2 DEF ConnFields, Returned
  <2> HIDE DEF r
  <2>4. RowOK(r, idp.next)
    <3>1. NoResponse \in [at : [until : Nat], rt : Nat, expiresIn : Nat] /\ NoResponse.rt = 0
      BY DEF NoResponse, NoToken, NoRt
    <3>2. NoResponse.rt < idp.next /\ 0 \in 0..MaxRetries
      BY <1>1, <3>1, ClientAssumption
    <3>3. r.wrote \in BOOLEAN /\ r.stale \in BOOLEAN /\ r.cleared \in BOOLEAN /\ r.missed \in BOOLEAN
      BY <1>1, <2>3 DEF RowOK
    <3>4. (r.missed => r.stale) /\ (r.cleared => r.wrote) /\ (r.spent # {} => r.wrote)
      BY <1>1, <2>3 DEF RowOK
    <3>5. r.spent \subseteq 1..(idp.next - 1)
      BY <1>1, <2>3 DEF RowOK
    <3>6. r.resp \in [at : [until : Nat], rt : Nat, expiresIn : Nat] /\ r.resp.rt < idp.next
      BY <3>1, <3>2, <2>3
    <3>7. SecretTypeOK(r.view) /\ r.view.rt < idp.next /\ r.interval \in Nat /\ r.left \in Nat
      BY <2>3
    <3> QED BY <2>3, <3>2, <3>3, <3>4, <3>5, <3>6, <3>7 DEF RowOK
  <2>5. \/ r.cleared = TRUE /\ r.view.rt = NoRt
        \/ /\ r.cleared = conn[c].cleared /\ r.view.rt = NewRt(conn[c])
           /\ conn[c].pc = "Answered" /\ conn[c].resp # NoResponse
    <3>1. conn[c].cleared \in BOOLEAN
      BY <1>1 DEF RowOK
    <3>2. cleared = TRUE => r.cleared = TRUE
      BY <2>3, <3>1
    <3>3. cleared = FALSE => r.cleared = conn[c].cleared
      BY <2>3, <3>1
    <3>4. r.view.rt = v.rt
      BY <2>3
    <3> QED BY <3>2, <3>3, <3>4
  <2> QED BY <1>3, <2>1, <2>3, <2>4, <2>5 DEF Writes
<1> QED BY <1>2, <1>3

\* A logout leaves no token on the SECRET.
LEMMA LogoutWrites ==
  ASSUME TxnInv, NEW c \in Connections, Logout(c)
  PROVE  Throws(c) \/ Writes(c)
<1>1. OpenSecret(c) = conn[c].view /\ SecretTypeOK(conn[c].view) /\ idp.next \in Nat \ {0}
  BY OpenIs
<1> DEFINE v == [conn[c].view EXCEPT !.at = NoToken, !.expiresAt = Unreadable, !.rt = NoRt]
<1>2. RegisterSecret(c, v, TRUE) /\ UNCHANGED idp /\ conn[c].pc # "Asking"
  BY <1>1 DEF Logout, Call
<1>3. v.rt = NoRt
  BY <1>1 DEF SecretTypeOK, SecretFields
<1>4. SecretTypeOK(v)
  <2>1. /\ v.clientId = conn[c].view.clientId /\ v.clientSecret = conn[c].view.clientSecret
        /\ v.tokenEndpoint = conn[c].view.tokenEndpoint /\ v.deviceEndpoint = conn[c].view.deviceEndpoint
    BY <1>1 DEF SecretTypeOK, SecretFields
  <2>2. DOMAIN v = SecretFields /\ v.at = NoToken /\ v.expiresAt = Unreadable
    BY <1>1 DEF SecretTypeOK, SecretFields
  <2>3. NoToken \in [until : Nat] /\ NoRt \in Nat
    BY DEF NoToken, NoRt
  <2> HIDE DEF v
  <2>4. \A f \in {"clientId", "clientSecret", "tokenEndpoint", "deviceEndpoint"} : v[f] \in BOOLEAN
    BY <1>1, <2>1 DEF SecretTypeOK
  <2> QED BY <1>3, <2>2, <2>3, <2>4 DEF SecretTypeOK
<1>5. v.rt < idp.next
  BY <1>1, <1>3 DEF NoRt
<1> HIDE DEF v
<1> QED BY <1>2, <1>3, <1>4, <1>5, RegisterIs

\* The end of a flow stores the refresh token of the answer, if there is one.
LEMMA PersistWrites ==
  ASSUME TxnInv, NEW c \in Connections, Persist(c)
  PROVE  Throws(c) \/ Writes(c)
<1>1. SecretTypeOK(conn[c].view) /\ RowOK(conn[c], idp.next) /\ idp.next \in Nat \ {0}
  BY OpenIs
<1>2. conn[c].pc = "Answered" /\ UNCHANGED idp
  BY DEF Persist
<1>3. CASE conn[c].resp = NoResponse
  BY <1>2, <1>3 DEF Persist, Throws
<1>4. CASE conn[c].resp # NoResponse
  <2> DEFINE at == conn[c].resp.at
             iso == FormatUtcIso8601(clock + conn[c].resp.expiresIn)
             rt == IF conn[c].fn = "login" THEN NoRt ELSE conn[c].resp.rt
             v == PersistTokenFields(conn[c].view, at, iso, rt)
  <2>1. RegisterSecret(c, v, FALSE)
    BY <1>4 DEF Persist
  <2>2. /\ conn[c].resp \in [at : [until : Nat], rt : Nat, expiresIn : Nat]
        /\ conn[c].view.rt < idp.next /\ conn[c].resp.rt < idp.next
    BY <1>1 DEF RowOK
  <2>3. at \in [until : Nat] /\ iso \in Nat \cup {Unreadable}
    <3>1. clock \in Nat /\ conn[c].resp.expiresIn \in Nat
      BY <2>2 DEF TxnInv
    <3>2. clock + conn[c].resp.expiresIn \in Nat
      BY <3>1
    <3> QED BY <2>2, <3>2 DEF FormatUtcIso8601
  <2> HIDE DEF at, iso
  <2>4. /\ v.clientId = conn[c].view.clientId /\ v.clientSecret = conn[c].view.clientSecret
        /\ v.tokenEndpoint = conn[c].view.tokenEndpoint /\ v.deviceEndpoint = conn[c].view.deviceEndpoint
        /\ DOMAIN v = SecretFields /\ v.at = at /\ v.expiresAt = iso
        /\ v.rt = IF rt # NoRt THEN rt ELSE conn[c].view.rt
    BY <1>1 DEF SecretTypeOK, SecretFields, PersistTokenFields
  <2> HIDE DEF v
  <2>5. v.rt = NewRt(conn[c])
    BY <2>4 DEF NewRt
  <2>6. v.rt \in {conn[c].view.rt, conn[c].resp.rt}
    BY <2>5 DEF NewRt
  <2>7. v.rt < idp.next /\ v.rt \in Nat
    <3>1. conn[c].view.rt \in Nat /\ conn[c].resp.rt \in Nat
      BY <1>1, <2>2 DEF SecretTypeOK
    <3> QED BY <2>2, <2>6, <3>1
  <2>8. SecretTypeOK(v)
    <3>1. \A f \in {"clientId", "clientSecret", "tokenEndpoint", "deviceEndpoint"} : v[f] \in BOOLEAN
      BY <1>1, <2>4 DEF SecretTypeOK
    <3> QED BY <2>3, <2>4, <2>7, <3>1 DEF SecretTypeOK
  <2> QED BY <1>2, <1>4, <2>1, <2>5, <2>7, <2>8, RegisterIs
<1> QED BY <1>3, <1>4

\* A grant is delivered, with a response that is one, or lost on its way.
LEMMA GrantIs ==
  ASSUME TxnInv, NEW c \in Connections, NEW withRt \in BOOLEAN, NEW e \in ExpiresIn, Grant(c, withRt, e)
  PROVE  Delivers(c) \/ Loses(c)
<1> DEFINE used == Used(c, withRt)
           rt   == IF withRt THEN idp.next ELSE NoRt
           a    == [at |-> [until |-> clock + e], rt |-> rt, expiresIn |-> e]
<1>1. RowOK(conn[c], idp.next) /\ idp.next \in Nat \ {0}
  BY OpenIs
<1>2. conn[c].pc = "Asking" /\ (conn[c].fn = "refresh" => conn[c].view.rt \in idp.live)
  BY DEF Grant
<1>3. CASE /\ conn' = [conn EXCEPT ![c] = [@ EXCEPT !.pc = "Answered", !.resp = a, !.attempt = 0,
                                                 !.spent = conn[c].spent \cup used]]
           /\ idp' = IF withRt THEN [live |-> (idp.live \ used) \cup {rt}, next |-> idp.next + 1] ELSE idp
           /\ UNCHANGED <<secret, lost>>
  <2> DEFINE r == [conn[c] EXCEPT !.pc = "Answered", !.resp = a, !.attempt = 0,
                                  !.spent = conn[c].spent \cup used]
  <2>1. conn' = [conn EXCEPT ![c] = r]
    BY <1>3
  <2>2. /\ a \in [at : [until : Nat], rt : Nat, expiresIn : Nat] /\ a.rt = rt /\ a # NoResponse
    <3>1. clock \in Nat \ {0} /\ e \in Nat
      BY ClientAssumption DEF TxnInv
    <3>2. clock + e \in Nat /\ clock + e # 0 /\ rt \in Nat
      BY <3>1, <1>1 DEF NoRt
    <3>3. a.at.until = clock + e /\ NoResponse.at.until = 0
      BY DEF NoResponse, NoToken
    <3> QED BY <3>1, <3>2, <3>3
  <2> HIDE DEF a
  <2>3. DOMAIN conn[c] = ConnFields
    BY <1>1 DEF RowOK
  <2>4. /\ DOMAIN r = ConnFields /\ r.pc = "Answered" /\ r.fn = conn[c].fn /\ r.attempt = 0
        /\ r.view = conn[c].view /\ r.wrote = conn[c].wrote /\ r.stale = conn[c].stale
        /\ r.cleared = conn[c].cleared /\ r.missed = conn[c].missed
        /\ r.spent = conn[c].spent \cup used /\ r.interval = conn[c].interval /\ r.left = conn[c].left
        /\ r.resp = a
    BY <2>3 DEF ConnFields
  <2> HIDE DEF r
  <2>5. idp'.next \in Nat \ {0} /\ idp.next <= idp'.next /\ rt < idp'.next
    <3>1. CASE withRt
      <4>1. idp'.next = idp.next + 1 /\ rt = idp.next
        BY <1>3, <3>1
      <4> QED BY <1>1, <4>1
    <3>2. CASE ~withRt
      <4>1. idp'.next = idp.next /\ rt = 0
        BY <1>3, <3>2 DEF NoRt
      <4> QED BY <1>1, <4>1
    <3> QED BY <3>1, <3>2
  <2>6. used \subseteq 1..(idp.next - 1) /\ conn[c].spent \subseteq 1..(idp.next - 1)
    BY <1>1, <1>2 DEF Used, RowOK, TxnInv
  <2> HIDE DEF used, rt
  <2>7. RowOK(r, idp'.next)
    <3>1. r.spent \subseteq 1..(idp'.next - 1)
      <4>1. 1..(idp.next - 1) \subseteq 1..(idp'.next - 1)
        BY <1>1, <2>5
      <4> QED BY <4>1, <2>4, <2>6
    <3>2. r.view.rt < idp'.next /\ r.resp.rt < idp'.next
      <4>1. conn[c].view.rt < idp.next /\ conn[c].view.rt \in Nat
        BY <1>1 DEF RowOK, SecretTypeOK
      <4>2. conn[c].view.rt < idp'.next
        BY <1>1, <2>5, <4>1
      <4> QED BY <4>2, <2>2, <2>4, <2>5
    <3>3. r.wrote \in BOOLEAN /\ r.stale \in BOOLEAN /\ r.cleared \in BOOLEAN /\ r.missed \in BOOLEAN
      BY <1>1, <2>4 DEF RowOK
    <3>4. (r.missed => r.stale) /\ (r.cleared => r.wrote)
      BY <1>1, <2>4 DEF RowOK
    <3>5. r.attempt \in 0..MaxRetries /\ r.interval \in Nat /\ r.left \in Nat
      BY <1>1, <2>4, ClientAssumption DEF RowOK
    <3>6. SecretTypeOK(r.view) /\ r.fn \in {"none", "refresh", "login", "device"}
      BY <1>1, <2>4 DEF RowOK
    <3> QED BY <2>2, <2>4, <3>1, <3>2, <3>3, <3>4, <3>5, <3>6 DEF RowOK
  <2>8. SameTxn(conn[c], r)
    BY <2>4 DEF SameTxn
  <2>9. r.resp.rt = IF withRt THEN idp.next ELSE NoRt
    BY <2>2, <2>4 DEF rt
  <2>10. idp' = IF withRt THEN [live |-> (idp.live \ Used(c, withRt)) \cup {idp.next}, next |-> idp.next + 1]
                ELSE idp
    BY <1>3 DEF used, rt
  <2>11. r.spent = conn[c].spent \cup Used(c, withRt) /\ r.resp # NoResponse /\ UNCHANGED <<secret, lost>>
    BY <1>3, <2>2, <2>4 DEF used
  <2>12. DeliversAs(c, withRt)
    BY <1>2, <2>1, <2>4, <2>7, <2>8, <2>9, <2>10, <2>11 DEF DeliversAs
  <2> QED BY <2>12 DEF Delivers
<1>4. CASE Undelivered(c) /\ idp' = [idp EXCEPT !.live = @ \ used] /\ lost' = lost \cup used /\ UNCHANGED secret
  <2>1. PICK r : conn' = [conn EXCEPT ![c] = r] /\ RowOK(r, idp.next) /\ GoesOn(conn[c], r)
    BY <1>2, <1>4, UndeliveredIs
  <2>2. LosesAs(c, withRt)
    BY <1>2, <1>4, <2>1 DEF LosesAs
  <2> QED BY <2>2 DEF Loses
<1> QED BY <1>3, <1>4 DEF Grant, Used

\* Every step is the clock's, or one of the kinds.
LEMMA Steps ==
  ASSUME TxnInv, Next
  PROVE  \/ Tick
         \/ (\E c \in Connections : Kinds(c)) /\ clock' = clock /\ calls' \in {calls, calls + 1}
<1>1. ASSUME NEW c \in Connections, Start(c)
      PROVE  Kinds(c) /\ clock' = clock /\ calls' = calls + 1
  <2>1. ASSUME NEW fn \in {"refresh", "login", "device"}, RunFlow(c, fn)
        PROVE  Kinds(c) /\ Call(c)
    <3>1. conn[c].pc \in {"Idle", "Txn"} /\ UNCHANGED idp /\ Call(c) /\ (Enter(c, fn) \/ Throw(c))
      BY <2>1 DEF RunFlow, Call
    <3> QED BY <3>1, EnterMoves DEF Kinds, Throws
  <2>2. ASSUME UseCached(c)
        PROVE  Kinds(c) /\ Call(c)
    BY <2>2, CachedMoves DEF Kinds, UseCached
  <2>3. ASSUME AcquireByFlow(c)
        PROVE  Kinds(c) /\ Call(c)
    <3>1. conn[c].pc \in {"Idle", "Txn"} /\ UNCHANGED idp /\ Call(c)
      BY <2>3 DEF AcquireByFlow, Call
    <3>2. Throw(c) \/ \E fn \in {"refresh", "login", "device"} : Enter(c, fn)
      BY <2>3 DEF AcquireByFlow, DecideAcquireFlow
    <3> QED BY <3>1, <3>2, EnterMoves DEF Kinds, Throws
  <2>4. ASSUME Logout(c)
        PROVE  Kinds(c) /\ Call(c)
    BY <2>4, LogoutWrites DEF Kinds, Logout
  <2>5. Call(c) => clock' = clock /\ calls' = calls + 1
    BY DEF Call
  <2> QED BY <1>1, <2>1, <2>2, <2>3, <2>4, <2>5 DEF Start
<1>2. ASSUME NEW c \in Connections, Run(c)
      PROVE  Kinds(c) /\ clock' = clock /\ calls' = calls
  <2>1. ASSUME AttemptFails(c) \/ Refuse(c)
        PROVE  Moves(c) /\ UNCHANGED <<clock, calls>>
    <3>1. /\ conn[c].pc \in {"Authorizing", "Asking"} /\ UNCHANGED <<secret, idp, lost, clock, calls>>
          /\ Undelivered(c) \/ Delivered(c, NoResponse)
      BY <2>1 DEF AttemptFails, Refuse
    <3> QED BY <3>1, UndeliveredIs DEF Moves
  <2>2. ASSUME Persist(c)
        PROVE  Kinds(c) /\ UNCHANGED <<clock, calls>>
    BY <2>2, PersistWrites DEF Kinds, Persist
  <2>3. ASSUME PollingTimedOut(c)
        PROVE  Kinds(c) /\ UNCHANGED <<clock, calls>>
    BY <2>3 DEF Kinds, PollingTimedOut, Throws
  <2>4. ASSUME NEW withRt \in BOOLEAN, NEW e \in ExpiresIn, Grant(c, withRt, e)
        PROVE  Kinds(c) /\ UNCHANGED <<clock, calls>>
    BY <2>4, GrantIs DEF Kinds, Grant
  <2> DEFINE D == \/ \E lifetime \in DeviceLifetimes, interval \in DeviceIntervals : AuthorizeDevice(c, lifetime, interval)
                  \/ \E latency \in Latencies : Sleep(c, latency)
                  \/ \E slowDown \in BOOLEAN : PollAgain(c, slowDown)
  <2>5. ASSUME D
        PROVE  Kinds(c) /\ UNCHANGED <<clock, calls>>
    <3>1. Moves(c)
      BY <2>5, DeviceMoves
    <3>2. UNCHANGED <<clock, calls>>
      BY <2>5 DEF AuthorizeDevice, Sleep, PollAgain
    <3> QED BY <3>1, <3>2 DEF Kinds
  <2> QED BY <1>2, <2>1, <2>2, <2>3, <2>4, <2>5 DEF Run, Kinds
<1>3. ASSUME NEW c \in Connections, Commit(c) \/ Rollback(c)
      PROVE  Kinds(c) /\ clock' = clock /\ calls' = calls
  BY <1>3 DEF Kinds, Commit, Rollback, Throws
<1> QED BY <1>1, <1>2, <1>3 DEF Next

\* More tokens issued: a connection keeps its type.
LEMMA RowGrows ==
  ASSUME NEW n \in Nat, NEW m \in Nat, n <= m, NEW r, RowOK(r, n)
  PROVE  RowOK(r, m)
<1>1. 1..(n - 1) \subseteq 1..(m - 1)
  OBVIOUS
<1>2. r.view.rt < m /\ r.resp.rt < m
  <2>1. r.view.rt \in Nat /\ r.resp.rt \in Nat /\ r.view.rt < n /\ r.resp.rt < n
    BY DEF RowOK, SecretTypeOK
  <2> QED BY <2>1
<1> QED BY <1>1, <1>2 DEF RowOK

\* A step that changes one connection.
LEMMA OneRowTxn ==
  ASSUME TxnInv, NEW c \in Connections, NEW r, conn' = [conn EXCEPT ![c] = r], secret' = secret,
         DOMAIN idp' = {"live", "next"}, idp'.next \in Nat \ {0}, idp.next <= idp'.next,
         idp'.live \subseteq 1..(idp'.next - 1), lost' \subseteq 1..(idp'.next - 1),
         RowOK(r, idp'.next), r.pc = "Idle" => r = IdleConn(secret),
         r.wrote => /\ conn[c].wrote \/ ~Conflict(c)
                    /\ r.stale = conn[c].stale,
         clock' = clock, calls' \in {calls, calls + 1}
  PROVE  TxnInv'
<1>1. conn'[c] = r /\ (\A d \in Connections \ {c} : conn'[d] = conn[d]) /\ DOMAIN conn' = Connections
  BY DEF TxnInv
<1>2. SecretTypeOK(secret') /\ secret'.rt < idp'.next
  <2>1. SecretTypeOK(secret) /\ secret.rt \in Nat /\ secret.rt < idp.next /\ idp.next \in Nat
    BY DEF TxnInv, SecretTypeOK
  <2>2. secret.rt < idp'.next
    BY <2>1
  <2> QED BY <2>1, <2>2
<1>3. \A d \in Connections : RowOK(conn'[d], idp'.next) /\ (conn'[d].pc = "Idle" => conn'[d] = IdleConn(secret)')
  <2> SUFFICES ASSUME NEW d \in Connections
               PROVE  RowOK(conn'[d], idp'.next) /\ (conn'[d].pc = "Idle" => conn'[d] = IdleConn(secret))
    BY DEF IdleConn
  <2>1. CASE d = c
    BY <1>1, <2>1
  <2>2. CASE d # c
    <3>1. RowOK(conn[d], idp.next) /\ idp.next \in Nat /\ (conn[d].pc = "Idle" => conn[d] = IdleConn(secret))
      BY DEF TxnInv
    <3>2. RowOK(conn[d], idp'.next)
      BY <3>1, RowGrows
    <3> QED BY <1>1, <2>2, <3>1, <3>2
  <2> QED BY <2>1, <2>2
<1>4. clock' \in Nat \ {0} /\ calls' \in Nat
  BY DEF TxnInv
<1>5. \A d \in Connections : conn'[d].wrote => ~Conflict(d)'
  <2> SUFFICES ASSUME NEW d \in Connections, conn'[d].wrote
               PROVE  ~conn'[d].stale /\ \A e \in Connections \ {d} : ~conn'[e].wrote
    BY DEF Conflict
  <2>1. ~Conflict(d)
    BY <1>1 DEF TxnInv, Conflict
  <2>2. ~conn'[d].stale
    BY <1>1, <2>1 DEF Conflict
  <2>3. ASSUME NEW e \in Connections \ {d}, conn'[e].wrote
        PROVE  FALSE
    <3>1. ~Conflict(e)
      BY <1>1, <2>3 DEF TxnInv, Conflict
    <3>2. CASE d = c
      <4>1. conn[e].wrote
        BY <1>1, <2>3, <3>2
      <4> QED BY <2>1, <4>1 DEF Conflict
    <3>3. CASE d # c
      <4>1. conn[d].wrote
        BY <1>1, <3>3
      <4> QED BY <3>1, <4>1 DEF Conflict
    <3> QED BY <3>2, <3>3
  <2> QED BY <2>2, <2>3
<1> QED BY <1>1, <1>2, <1>3, <1>4, <1>5 DEF TxnInv

\* What a commit does to the connections: the one that commits and the idle
\* ones see the SECRET it leaves, the others have missed what it wrote.
LEMMA CommitIs ==
  ASSUME TxnInv, NEW c \in Connections, Commit(c)
  PROVE  /\ conn[c].pc = "Txn" /\ secret' = (IF conn[c].wrote THEN conn[c].view ELSE secret)
         /\ SecretTypeOK(secret') /\ secret'.rt < idp.next
         /\ UNCHANGED <<idp, lost>> /\ DOMAIN conn' = Connections
         /\ \A d \in Connections : d = c \/ conn[d].pc = "Idle" => conn'[d] = IdleConn(secret')
         /\ \A d \in Connections : d # c /\ conn[d].pc # "Idle" =>
              /\ RowOK(conn'[d], idp.next) /\ conn'[d].pc = conn[d].pc /\ conn'[d].fn = conn[d].fn
              /\ conn'[d].view = conn[d].view /\ conn'[d].wrote = conn[d].wrote
              /\ conn'[d].spent = conn[d].spent /\ conn'[d].resp = conn[d].resp
              /\ conn'[d].cleared = conn[d].cleared
              /\ conn'[d].stale = (conn[d].stale \/ conn[c].wrote)
              /\ conn'[d].missed = (conn[d].missed \/ conn[c].cleared)
<1>1. /\ conn[c].pc = "Txn" /\ secret' = (IF conn[c].wrote THEN conn[c].view ELSE secret)
      /\ UNCHANGED <<idp, lost>> /\ DOMAIN conn' = Connections
      /\ \A d \in Connections : conn'[d] =
           IF d = c THEN IdleConn(secret')
           ELSE IF conn[d].pc = "Idle" THEN IdleConn(secret')
           ELSE [conn[d] EXCEPT !.stale = @ \/ conn[c].wrote, !.missed = @ \/ conn[c].cleared]
  BY DEF Commit
<1>2. RowOK(conn[c], idp.next) /\ SecretTypeOK(secret) /\ secret.rt < idp.next
  BY DEF TxnInv
<1>3. SecretTypeOK(secret') /\ secret'.rt < idp.next
  <2>1. SecretTypeOK(conn[c].view) /\ conn[c].view.rt < idp.next
    BY <1>2 DEF RowOK
  <2>2. secret' = conn[c].view \/ secret' = secret
    BY <1>1
  <2> QED BY <1>2, <2>1, <2>2
<1>4. ASSUME NEW d \in Connections, d # c, conn[d].pc # "Idle"
      PROVE  /\ RowOK(conn'[d], idp.next) /\ conn'[d].pc = conn[d].pc /\ conn'[d].fn = conn[d].fn
             /\ conn'[d].view = conn[d].view /\ conn'[d].wrote = conn[d].wrote
             /\ conn'[d].spent = conn[d].spent /\ conn'[d].resp = conn[d].resp
             /\ conn'[d].cleared = conn[d].cleared
             /\ conn'[d].stale = (conn[d].stale \/ conn[c].wrote)
             /\ conn'[d].missed = (conn[d].missed \/ conn[c].cleared)
  <2> DEFINE q == conn[d]
             r == [conn[d] EXCEPT !.stale = @ \/ conn[c].wrote, !.missed = @ \/ conn[c].cleared]
  <2>1. conn'[d] = r
    BY <1>1, <1>4
  <2>2. RowOK(conn[d], idp.next)
    BY DEF TxnInv
  <2>3. DOMAIN conn[d] = ConnFields
    BY <2>2 DEF RowOK
  <2>4. /\ DOMAIN r = ConnFields /\ r.pc = conn[d].pc /\ r.fn = conn[d].fn /\ r.attempt = conn[d].attempt
        /\ r.view = conn[d].view /\ r.wrote = conn[d].wrote /\ r.cleared = conn[d].cleared
        /\ r.spent = conn[d].spent /\ r.interval = conn[d].interval /\ r.left = conn[d].left
        /\ r.resp = conn[d].resp
        /\ r.stale = (conn[d].stale \/ conn[c].wrote) /\ r.missed = (conn[d].missed \/ conn[c].cleared)
    BY <2>3 DEF ConnFields
  <2> HIDE DEF r
  <2>5. r.stale \in BOOLEAN /\ r.missed \in BOOLEAN
    BY <1>2, <2>2, <2>4 DEF RowOK
  <2>6. r.missed => r.stale
    BY <1>2, <2>2, <2>4 DEF RowOK
  <2>7. RowOK(r, idp.next)
    BY <2>2, <2>4, <2>5, <2>6 DEF RowOK
  <2> QED BY <2>1, <2>4, <2>7
<1> QED BY <1>1, <1>3, <1>4

\* A commit keeps the invariant.
LEMMA CommitTxn ==
  ASSUME TxnInv, NEW c \in Connections, Commit(c), clock' = clock, calls' \in {calls, calls + 1}
  PROVE  TxnInv'
<1>1. /\ SecretTypeOK(secret') /\ secret'.rt < idp.next /\ UNCHANGED <<idp, lost>>
      /\ DOMAIN conn' = Connections
      /\ \A d \in Connections : d = c \/ conn[d].pc = "Idle" => conn'[d] = IdleConn(secret')
      /\ \A d \in Connections : d # c /\ conn[d].pc # "Idle" =>
           /\ RowOK(conn'[d], idp.next) /\ conn'[d].pc = conn[d].pc /\ conn'[d].wrote = conn[d].wrote
           /\ conn'[d].stale = (conn[d].stale \/ conn[c].wrote)
  BY CommitIs
<1>2. /\ RowOK(IdleConn(secret'), idp.next) /\ IdleConn(secret').wrote = FALSE
  <2>1. idp.next \in Nat \ {0}
    BY DEF TxnInv
  <2> QED BY <1>1, <2>1, IdleConnIs
<1>3. \A d \in Connections : RowOK(conn'[d], idp.next) /\ (conn'[d].pc = "Idle" => conn'[d] = IdleConn(secret'))
  BY <1>1, <1>2
<1>4. \A d \in Connections : conn'[d].wrote => conn[d].wrote /\ d # c /\ conn[d].pc # "Idle"
  BY <1>1, <1>2
<1>5. \A d \in Connections : conn'[d].wrote => ~Conflict(d)'
  <2> SUFFICES ASSUME NEW d \in Connections, conn'[d].wrote
               PROVE  ~conn'[d].stale /\ \A e \in Connections \ {d} : ~conn'[e].wrote
    BY DEF Conflict
  <2>1. ~conn[d].stale /\ \A e \in Connections \ {d} : ~conn[e].wrote
    BY <1>4 DEF TxnInv, Conflict
  <2> QED BY <1>1, <1>4, <2>1
<1>6. clock' \in Nat \ {0} /\ calls' \in Nat
  BY DEF TxnInv
<1> QED BY <1>1, <1>3, <1>5, <1>6 DEF TxnInv, IdleConn

\* Every step keeps the invariant.
LEMMA NextTxnInv == TxnInv /\ [Next]_vars => TxnInv'
<1> SUFFICES ASSUME TxnInv, [Next]_vars PROVE TxnInv'
  OBVIOUS
<1>1. CASE UNCHANGED vars
  BY <1>1 DEF vars, TxnInv, RowOK, IdleConn, Conflict, SecretTypeOK
<1>2. CASE Tick
  <2>1. UNCHANGED <<secret, conn, idp, lost, calls>> /\ clock' \in Nat \ {0}
    BY <1>2 DEF Tick, TxnInv
  <2> QED BY <2>1 DEF TxnInv, RowOK, IdleConn, Conflict, SecretTypeOK
<1>3. ASSUME NEW c \in Connections, Kinds(c), clock' = clock, calls' \in {calls, calls + 1}
      PROVE  TxnInv'
  <2>1. /\ RowOK(conn[c], idp.next) /\ idp.next \in Nat \ {0} /\ idp.next <= idp.next
        /\ DOMAIN idp = {"live", "next"} /\ idp.live \subseteq 1..(idp.next - 1)
        /\ lost \subseteq 1..(idp.next - 1)
    BY DEF TxnInv
  <2>2. CASE Moves(c)
    <3>1. PICK r : conn' = [conn EXCEPT ![c] = r] /\ RowOK(r, idp.next) /\ GoesOn(conn[c], r)
      BY <2>2 DEF Moves
    <3>2. r.wrote = conn[c].wrote /\ r.stale = conn[c].stale /\ r.pc # "Idle"
      BY <3>1 DEF GoesOn, SameTxn
    <3>3. UNCHANGED <<secret, idp, lost>>
      BY <2>2 DEF Moves
    <3> QED BY <1>3, <2>1, <3>1, <3>2, <3>3, OneRowTxn
  <2>3. CASE Throws(c)
    <3>1. conn' = [conn EXCEPT ![c] = IdleConn(secret)] /\ lost' = lost \cup conn[c].spent /\ UNCHANGED <<secret, idp>>
      BY <2>3 DEF Throws, Throw
    <3>2. RowOK(IdleConn(secret), idp.next) /\ ~IdleConn(secret).wrote
      <4>1. SecretTypeOK(secret) /\ secret.rt < idp.next
        BY DEF TxnInv
      <4> QED BY <2>1, <4>1, IdleConnIs
    <3>3. lost' \subseteq 1..(idp.next - 1)
      BY <2>1, <3>1 DEF RowOK
    <3> DEFINE r == IdleConn(secret)
    <3>4. /\ conn' = [conn EXCEPT ![c] = r] /\ RowOK(r, idp'.next) /\ (r.pc = "Idle" => r = IdleConn(secret))
          /\ ~r.wrote
      BY <3>1, <3>2
    <3> HIDE DEF r
    <3> QED BY <1>3, <2>1, <3>1, <3>3, <3>4, OneRowTxn
  <2>4. CASE Writes(c)
    <3>1. PICK r : /\ conn' = [conn EXCEPT ![c] = r] /\ RowOK(r, idp.next) /\ r.pc = "Txn"
                   /\ r.stale = conn[c].stale
      BY <2>4 DEF Writes
    <3>2. UNCHANGED <<secret, idp, lost>> /\ ~Conflict(c) /\ r.pc # "Idle"
      BY <2>4, <3>1 DEF Writes
    <3> QED BY <1>3, <2>1, <3>1, <3>2, OneRowTxn
  <2>5. CASE Delivers(c)
    <3>0. PICK withRt \in BOOLEAN : DeliversAs(c, withRt)
      BY <2>5 DEF Delivers
    <3>1. PICK r :
            /\ conn' = [conn EXCEPT ![c] = r] /\ RowOK(r, idp'.next) /\ UNCHANGED <<secret, lost>>
            /\ SameTxn(conn[c], r) /\ r.pc = "Answered"
            /\ idp' = IF withRt THEN [live |-> (idp.live \ Used(c, withRt)) \cup {idp.next}, next |-> idp.next + 1]
                      ELSE idp
      BY <3>0 DEF DeliversAs
    <3>2. /\ DOMAIN idp' = {"live", "next"} /\ idp'.next \in Nat \ {0} /\ idp.next <= idp'.next
          /\ idp'.live \subseteq 1..(idp'.next - 1) /\ lost' \subseteq 1..(idp'.next - 1)
      <4>1. CASE withRt
        <5>1. /\ idp'.next = idp.next + 1 /\ DOMAIN idp' = {"live", "next"}
              /\ idp'.live \subseteq idp.live \cup {idp.next}
          BY <3>1, <4>1
        <5>2. 1..(idp.next - 1) \cup {idp.next} = 1..idp.next /\ idp'.next - 1 = idp.next
          BY <2>1, <5>1
        <5> QED BY <2>1, <3>1, <5>1, <5>2
      <4>2. CASE ~withRt
        <5>1. idp' = idp
          BY <3>1, <4>2
        <5> QED BY <2>1, <3>1, <5>1
      <4> QED BY <4>1, <4>2
    <3>3. r.wrote = conn[c].wrote /\ r.stale = conn[c].stale /\ r.pc # "Idle"
      BY <3>1 DEF SameTxn
    <3> QED BY <1>3, <3>1, <3>2, <3>3, OneRowTxn
  <2>6. CASE Loses(c)
    <3>0. PICK withRt \in BOOLEAN : LosesAs(c, withRt)
      BY <2>6 DEF Loses
    <3>1. PICK r :
            /\ conn[c].pc = "Asking" /\ (conn[c].fn = "refresh" => conn[c].view.rt \in idp.live)
            /\ conn' = [conn EXCEPT ![c] = r] /\ RowOK(r, idp.next) /\ UNCHANGED secret
            /\ GoesOn(conn[c], r)
            /\ idp' = [idp EXCEPT !.live = @ \ Used(c, withRt)]
            /\ lost' = lost \cup Used(c, withRt)
      BY <3>0 DEF LosesAs
    <3>2. Used(c, withRt) \subseteq idp.live
      BY <3>1 DEF Used
    <3>3. /\ DOMAIN idp' = {"live", "next"} /\ idp'.next = idp.next /\ idp'.live \subseteq idp.live
      BY <2>1, <3>1
    <3>4. idp'.live \subseteq 1..(idp'.next - 1) /\ lost' \subseteq 1..(idp'.next - 1)
      BY <2>1, <3>1, <3>2, <3>3
    <3>5. r.wrote = conn[c].wrote /\ r.stale = conn[c].stale /\ r.pc # "Idle"
      BY <3>1 DEF GoesOn, SameTxn
    <3>6. idp'.next \in Nat \ {0} /\ idp.next <= idp'.next /\ RowOK(r, idp'.next)
      BY <2>1, <3>1, <3>3
    <3> QED BY <1>3, <3>1, <3>3, <3>4, <3>5, <3>6, OneRowTxn
  <2>7. CASE Commit(c)
    BY <1>3, <2>7, CommitTxn
  <2> QED BY <1>3, <2>2, <2>3, <2>4, <2>5, <2>6, <2>7 DEF Kinds
<1> QED BY <1>1, <1>2, <1>3, Steps

\* Every behaviour of the specification is one of its safety part.
LEMMA FairIsSafe == FairSpec => Safety
BY PTL DEF FairSpec, Safety

\* Transactions keep their shape, whatever calls, answers and commits interleave.
THEOREM TransactionsSound == FairSpec => []TxnInv
<1>1. Safety => []TxnInv
  BY InitTxnInv, NextTxnInv, PTL DEF Safety
<1> QED BY <1>1, FairIsSafe, PTL

\* TypeOK holds throughout: no two transactions hold a write of the SECRET at
\* the same time (RegisterSecret fails the second one), and one that does has
\* missed no other write.
THEOREM TypesKept == FairSpec => []TypeOK
<1>1. TxnInv => TypeOK
  <2> SUFFICES ASSUME TxnInv PROVE TypeOK
    OBVIOUS
  <2>1. DOMAIN IdleConn(secret) = ConnFields
    BY DEF IdleConn, ConnFields
  <2>2. \A c \in Connections : ConnTypeOK(conn[c])
    BY <2>1 DEF TxnInv, RowOK, ConnTypeOK
  <2> QED BY <2>2 DEF TxnInv, TypeOK
<1> QED BY <1>1, TransactionsSound, PTL

\* LogoutHolds: a transaction that another one's logout overtook ends without
\* a write, since a write of its own would have failed or had the logout fail.
THEOREM LogoutsHold == FairSpec => LogoutHolds
<1>1. TxnInv /\ [Next]_vars => [\A c \in Connections : conn[c].missed /\ conn'[c].pc = "Idle" => secret' = secret]_vars
  <2> SUFFICES ASSUME TxnInv, Next, NEW c \in Connections, conn[c].missed, conn'[c].pc = "Idle"
               PROVE  secret' = secret
    OBVIOUS
  <2>1. conn[c].stale /\ ~conn[c].wrote /\ conn[c].pc # "Idle"
    <3>1. RowOK(conn[c], idp.next)
      BY DEF TxnInv
    <3>2. conn[c].stale /\ ~conn[c].wrote
      BY <3>1 DEF RowOK, TxnInv, Conflict
    <3>3. ~IdleConn(secret).missed
      BY DEF IdleConn
    <3> QED BY <3>2, <3>3 DEF TxnInv
  <2>2. ASSUME NEW d \in Connections, Commit(d)
        PROVE  secret' = secret
    <3>1. CASE d = c
      BY <2>1, <2>2, <3>1 DEF Commit
    <3>2. CASE d # c
      <4>1. conn'[c].pc = conn[c].pc
        BY <2>1, <2>2, <3>2, CommitIs
      <4> QED BY <2>1, <4>1
    <3> QED BY <3>1, <3>2
  <2>3. ASSUME NEW d \in Connections, Moves(d) \/ Throws(d) \/ Writes(d) \/ Delivers(d) \/ Loses(d)
        PROVE  secret' = secret
    BY <2>3 DEF Moves, Throws, Throw, Writes, Delivers, Loses, DeliversAs, LosesAs
  <2> QED BY <2>2, <2>3, Steps DEF Kinds, Tick
<1>2. Safety /\ []TxnInv => LogoutHolds
  BY <1>1, PTL DEF Safety, LogoutHolds
<1> QED BY <1>2, FairIsSafe, TransactionsSound, PTL

(***************************************************************************)
(* Refresh tokens.                                                          *)
(***************************************************************************)
\* The refresh token that a transaction would leave on the SECRET.
RtOf(r) == IF r.pc = "Answered" THEN NewRt(r) ELSE r.view.rt

\* A transaction that may still commit a write.
Writable(r) == r.pc # "Idle" /\ ~r.stale /\ (r.pc = "Answered" => r.resp # NoResponse)

\* The token works, or its replacement is lost, or is with one of D.
Known(x, D) == x = NoRt \/ x \in idp.live \/ x \in lost \/ \E d \in D : x \in conn[d].spent

\* No transaction that may still write would put back a token that it has had
\* rotated itself.
SpentInv ==
  /\ Known(secret.rt, Connections)
  /\ \A c \in Connections : Writable(conn[c]) => Known(RtOf(conn[c]), Connections \ {c})

\* SpentInv over the steps that change one connection.
LEMMA OneRowSpent ==
  ASSUME TxnInv, SpentInv, NEW c \in Connections, NEW r, conn' = [conn EXCEPT ![c] = r], secret' = secret,
         idp.live \subseteq idp'.live \cup lost' \cup r.spent, lost \subseteq lost',
         conn[c].spent \subseteq r.spent \cup lost',
         Writable(r) => Known(RtOf(r), Connections \ {c})'
  PROVE  SpentInv'
<1>1. conn'[c] = r /\ \A d \in Connections \ {c} : conn'[d] = conn[d]
  BY DEF TxnInv
<1>2. ASSUME NEW x, NEW D, D \subseteq Connections, c \in D, Known(x, D)
      PROVE  Known(x, D)'
  BY <1>1, <1>2 DEF Known
<1>3. Known(secret.rt, Connections)'
  <2>1. Known(secret.rt, Connections)
    BY DEF SpentInv
  <2>2. Known(secret.rt, Connections)' <=> \/ secret.rt = NoRt \/ secret.rt \in idp'.live \/ secret.rt \in lost'
                                           \/ \E d \in Connections : secret.rt \in conn'[d].spent
    BY DEF Known
  <2> QED BY <1>1, <2>1, <2>2 DEF Known
<1>4. ASSUME NEW d \in Connections, Writable(conn[d])'
      PROVE  Known(RtOf(conn[d]), Connections \ {d})'
  <2>1. CASE d = c
    BY <1>1, <1>4, <2>1 DEF Writable, RtOf, NewRt, Known
  <2>2. CASE d # c
    <3>1. conn'[d] = conn[d]
      BY <1>1, <2>2
    <3>2. Writable(conn[d])
      BY <1>4, <3>1 DEF Writable
    <3>3. Known(RtOf(conn[d]), Connections \ {d}) /\ c \in Connections \ {d}
      BY <2>2, <3>2 DEF SpentInv
    <3>4. RtOf(conn[d])' = RtOf(conn[d])
      BY <3>1 DEF RtOf, NewRt
    <3> DEFINE x == RtOf(conn[d])
    <3> HIDE DEF x
    <3>5. \/ x = NoRt \/ x \in idp'.live \/ x \in lost' \/ \E e \in Connections \ {d} : x \in conn'[e].spent
      BY <1>1, <3>3 DEF Known, x
    <3> QED BY <3>4, <3>5 DEF Known, x
  <2> QED BY <2>1, <2>2
<1> QED BY <1>3, <1>4 DEF SpentInv

\* What a call that goes on would write was known before.
LEMMA GoesOnKnown ==
  ASSUME TxnInv, SpentInv, NEW c \in Connections, NEW r, RowOK(r, idp.next), GoesOn(conn[c], r), Writable(r)
  PROVE  /\ RtOf(r) = conn[c].view.rt /\ Known(conn[c].view.rt, Connections \ {c})
         /\ conn[c].pc = "Idle" => conn[c].view = secret
         /\ conn[c].pc # "Idle" => Writable(conn[c]) /\ RtOf(conn[c]) = conn[c].view.rt
<1>1. r.pc # "Answered" /\ conn[c].pc # "Answered" /\ r.view = conn[c].view /\ r.stale = conn[c].stale
  BY DEF GoesOn, Writable, SameTxn
<1>2. RtOf(r) = conn[c].view.rt
  BY <1>1 DEF RtOf
<1>3. CASE conn[c].pc = "Idle"
  <2>1. IdleConn(secret).view = secret /\ IdleConn(secret).spent = {}
    BY DEF IdleConn
  <2>2. conn[c].view = secret /\ conn[c].spent = {}
    BY <1>3, <2>1 DEF TxnInv
  <2>3. Known(secret.rt, Connections \ {c})
    BY <2>2 DEF SpentInv, Known
  <2> QED BY <1>2, <1>3, <2>2, <2>3
<1>4. CASE conn[c].pc # "Idle"
  <2>1. Writable(conn[c]) /\ RtOf(conn[c]) = conn[c].view.rt
    BY <1>1, <1>4 DEF Writable, RtOf
  <2> QED BY <1>2, <1>4, <2>1 DEF SpentInv
<1> QED BY <1>3, <1>4

\* Every step keeps SpentInv.
LEMMA NextSpentInv == TxnInv /\ SpentInv /\ [Next]_vars => SpentInv'
<1> SUFFICES ASSUME TxnInv, SpentInv, [Next]_vars PROVE SpentInv'
  OBVIOUS
<1>1. CASE UNCHANGED vars \/ Tick
  <2>1. UNCHANGED <<secret, conn, idp, lost>>
    BY <1>1 DEF vars, Tick
  <2> QED BY <2>1 DEF SpentInv, Known, Writable, RtOf, NewRt
<1>2. ASSUME NEW c \in Connections, Kinds(c)
      PROVE  SpentInv'
  <2>1. CASE Moves(c)
    <3>1. PICK r : conn' = [conn EXCEPT ![c] = r] /\ RowOK(r, idp.next) /\ GoesOn(conn[c], r)
      BY <2>1 DEF Moves
    <3>2. UNCHANGED <<secret, idp, lost>> /\ r.spent = conn[c].spent
      BY <2>1, <3>1 DEF Moves, GoesOn
    <3>3. \A d \in Connections \ {c} : conn'[d] = conn[d]
      BY <3>1 DEF TxnInv
    <3>4. ASSUME Writable(r) PROVE Known(RtOf(r), Connections \ {c})'
      <4>1. RtOf(r) = conn[c].view.rt /\ Known(conn[c].view.rt, Connections \ {c})
        BY <3>1, <3>4, GoesOnKnown
      <4>2. Known(RtOf(r), Connections \ {c})
        BY <4>1
      <4> DEFINE x == RtOf(r)
      <4> HIDE DEF x
      <4> QED BY <3>2, <3>3, <4>2 DEF Known
    <3> QED BY <3>1, <3>2, <3>4, OneRowSpent
  <2>2. CASE Throws(c)
    <3> DEFINE r == IdleConn(secret)
    <3>1. conn' = [conn EXCEPT ![c] = r] /\ lost' = lost \cup conn[c].spent /\ UNCHANGED <<secret, idp>>
      BY <2>2 DEF Throws, Throw
    <3>2. ~Writable(r)
      BY DEF IdleConn, Writable
    <3> HIDE DEF r
    <3>3. /\ idp.live \subseteq idp'.live \cup lost' \cup r.spent /\ lost \subseteq lost'
          /\ conn[c].spent \subseteq r.spent \cup lost'
      BY <3>1
    <3> QED BY <3>1, <3>2, <3>3, OneRowSpent
  <2>3. CASE Writes(c)
    <3>1. PICK r : /\ conn' = [conn EXCEPT ![c] = r] /\ r.pc = "Txn" /\ r.spent = conn[c].spent
                   /\ \/ r.view.rt = NoRt
                      \/ /\ r.view.rt = NewRt(conn[c])
                         /\ conn[c].pc = "Answered" /\ conn[c].resp # NoResponse
      BY <2>3 DEF Writes
    <3>2. UNCHANGED <<secret, idp, lost>> /\ ~conn[c].stale
      BY <2>3 DEF Writes, Conflict
    <3>3. \A d \in Connections \ {c} : conn'[d] = conn[d]
      BY <3>1 DEF TxnInv
    <3>4. RtOf(r) = r.view.rt
      BY <3>1 DEF RtOf
    <3>5. Known(r.view.rt, Connections \ {c})
      <4>1. CASE r.view.rt = NoRt
        BY <4>1 DEF Known
      <4>2. CASE r.view.rt = NewRt(conn[c]) /\ conn[c].pc = "Answered" /\ conn[c].resp # NoResponse
        <5>1. Writable(conn[c]) /\ RtOf(conn[c]) = r.view.rt
          BY <3>2, <4>2 DEF Writable, RtOf
        <5> QED BY <5>1 DEF SpentInv
      <4> QED BY <3>1, <4>1, <4>2
    <3>6. Known(RtOf(r), Connections \ {c})'
      <4> DEFINE x == RtOf(r)
      <4>1. Known(x, Connections \ {c})
        BY <3>4, <3>5
      <4> HIDE DEF x
      <4> QED BY <3>2, <3>3, <4>1 DEF Known, x
    <3> QED BY <3>1, <3>2, <3>6, OneRowSpent
  <2>4. CASE Delivers(c)
    <3>0. PICK withRt \in BOOLEAN : DeliversAs(c, withRt)
      BY <2>4 DEF Delivers
    <3>1. PICK r :
            /\ conn[c].pc = "Asking"
            /\ conn' = [conn EXCEPT ![c] = r] /\ UNCHANGED <<secret, lost>>
            /\ SameTxn(conn[c], r) /\ r.pc = "Answered" /\ r.fn = conn[c].fn
            /\ r.spent = conn[c].spent \cup Used(c, withRt)
            /\ r.resp.rt = IF withRt THEN idp.next ELSE NoRt
            /\ idp' = IF withRt THEN [live |-> (idp.live \ Used(c, withRt)) \cup {idp.next}, next |-> idp.next + 1]
                      ELSE idp
      BY <3>0 DEF DeliversAs
    <3>2. \A d \in Connections \ {c} : conn'[d] = conn[d]
      BY <3>1 DEF TxnInv
    <3>3. idp.live \subseteq idp'.live \cup Used(c, withRt)
      BY <3>1
    <3>4. ASSUME Writable(r) PROVE Known(RtOf(r), Connections \ {c})'
      <4>1. RtOf(r) = NewRt(r) /\ r.view = conn[c].view /\ r.stale = conn[c].stale
        BY <3>1 DEF RtOf, SameTxn
      <4>2. Writable(conn[c]) /\ RtOf(conn[c]) = conn[c].view.rt
        BY <3>1, <3>4, <4>1 DEF Writable, RtOf
      <4>3. Known(conn[c].view.rt, Connections \ {c})
        BY <4>2 DEF SpentInv
      <4>4. CASE withRt /\ r.fn # "login"
        <5>1. idp.next # NoRt
          BY DEF TxnInv, NoRt
        <5>2. RtOf(r) = idp.next /\ idp.next \in idp'.live
          BY <3>1, <4>1, <4>4, <5>1 DEF NewRt
        <5> DEFINE x == RtOf(r)
        <5> HIDE DEF x
        <5> QED BY <5>2 DEF Known, x
      <4>5. CASE ~(withRt /\ r.fn # "login")
        <5>1. RtOf(r) = conn[c].view.rt
          BY <3>1, <4>1, <4>5 DEF NewRt
        <5>2. idp.live \subseteq idp'.live
          BY <3>1, <4>5 DEF Used
        <5> DEFINE x == RtOf(r)
        <5>3. Known(x, Connections \ {c})
          BY <4>3, <5>1
        <5> HIDE DEF x
        <5> QED BY <3>1, <3>2, <5>2, <5>3 DEF Known, x
      <4> QED BY <4>4, <4>5
    <3>5. /\ idp.live \subseteq idp'.live \cup lost' \cup r.spent /\ lost \subseteq lost'
          /\ conn[c].spent \subseteq r.spent \cup lost'
      BY <3>1, <3>3
    <3> QED BY <3>1, <3>4, <3>5, OneRowSpent
  <2>5. CASE Loses(c)
    <3>0. PICK withRt \in BOOLEAN : LosesAs(c, withRt)
      BY <2>5 DEF Loses
    <3>1. PICK r :
            /\ conn' = [conn EXCEPT ![c] = r] /\ RowOK(r, idp.next) /\ UNCHANGED secret
            /\ GoesOn(conn[c], r)
            /\ idp' = [idp EXCEPT !.live = @ \ Used(c, withRt)]
            /\ lost' = lost \cup Used(c, withRt)
      BY <3>0 DEF LosesAs
    <3>2. \A d \in Connections \ {c} : conn'[d] = conn[d]
      BY <3>1 DEF TxnInv
    <3>3. idp'.live = idp.live \ Used(c, withRt)
      BY <3>1 DEF TxnInv
    <3>4. ASSUME Writable(r) PROVE Known(RtOf(r), Connections \ {c})'
      <4> DEFINE x == RtOf(r)
      <4>1. Known(x, Connections \ {c})
        BY <3>1, <3>4, GoesOnKnown
      <4> HIDE DEF x
      <4> QED BY <3>1, <3>2, <3>3, <4>1 DEF Known, x
    <3>5. /\ idp.live \subseteq idp'.live \cup lost' \cup r.spent /\ lost \subseteq lost'
          /\ conn[c].spent \subseteq r.spent \cup lost'
      BY <3>1, <3>3 DEF GoesOn
    <3> QED BY <3>1, <3>4, <3>5, OneRowSpent
  <2>6. CASE Commit(c)
    <3>1. /\ conn[c].pc = "Txn" /\ secret' = (IF conn[c].wrote THEN conn[c].view ELSE secret)
          /\ UNCHANGED <<idp, lost>>
          /\ \A d \in Connections : d = c \/ conn[d].pc = "Idle" => conn'[d] = IdleConn(secret')
          /\ \A d \in Connections : d # c /\ conn[d].pc # "Idle" =>
               /\ conn'[d].pc = conn[d].pc /\ conn'[d].fn = conn[d].fn
               /\ conn'[d].view = conn[d].view
               /\ conn'[d].spent = conn[d].spent /\ conn'[d].resp = conn[d].resp
               /\ conn'[d].stale = (conn[d].stale \/ conn[c].wrote)
      BY <2>6, CommitIs
    <3>2. ~conn[c].wrote => conn[c].spent = {}
      BY <3>1 DEF TxnInv, RowOK
    <3>3. IdleConn(secret).spent = {} /\ ~Writable(IdleConn(secret'))
      BY DEF IdleConn, Writable
    <3>4. \A d \in Connections \ {c} : conn[d].spent \subseteq conn'[d].spent
      <4>1. \A d \in Connections : conn[d].pc = "Idle" => conn[d].spent = {}
        BY <3>3 DEF TxnInv
      <4> QED BY <3>1, <4>1
    <3>5. Known(secret.rt, Connections)'
      <4>1. CASE conn[c].wrote
        <5>1. Writable(conn[c]) /\ RtOf(conn[c]) = conn[c].view.rt
          BY <3>1, <4>1 DEF TxnInv, Conflict, Writable, RtOf
        <5>2. Known(conn[c].view.rt, Connections \ {c})
          BY <5>1 DEF SpentInv
        <5> DEFINE x == conn[c].view.rt
        <5>3. secret'.rt = x
          BY <3>1, <4>1
        <5> HIDE DEF x
        <5> QED BY <3>1, <3>4, <5>2, <5>3 DEF Known, x
      <4>2. CASE ~conn[c].wrote
        <5>1. secret' = secret /\ Known(secret.rt, Connections)
          BY <3>1, <4>2 DEF SpentInv
        <5> QED BY <3>1, <3>2, <3>4, <4>2, <5>1 DEF Known
      <4> QED BY <4>1, <4>2
    <3>6. ASSUME NEW d \in Connections, Writable(conn[d])'
          PROVE  Known(RtOf(conn[d]), Connections \ {d})'
      <4>1. Writable(conn'[d])
        BY <3>6 DEF Writable
      <4>2. d # c /\ conn[d].pc # "Idle"
        BY <3>1, <3>3, <4>1
      <4>3. Writable(conn[d]) /\ ~conn[c].wrote
        BY <3>1, <4>1, <4>2 DEF Writable
      <4> DEFINE x == RtOf(conn[d])
      <4>4. RtOf(conn[d])' = x
        BY <3>1, <4>2 DEF RtOf, NewRt
      <4>5. Known(x, Connections \ {d})
        BY <4>3 DEF SpentInv
      <4> HIDE DEF x
      <4>6. \/ x = NoRt \/ x \in idp'.live \/ x \in lost' \/ \E e \in Connections \ {d} : x \in conn'[e].spent
        BY <3>1, <3>2, <3>4, <4>3, <4>5 DEF Known
      <4> QED BY <4>4, <4>6 DEF Known
    <3> QED BY <3>5, <3>6 DEF SpentInv
  <2> QED BY <1>2, <2>1, <2>2, <2>3, <2>4, <2>5, <2>6 DEF Kinds
<1> QED BY <1>1, <1>2, Steps

\* SpentOnlyIfLost: no commit leaves a spent refresh token on the SECRET,
\* unless its replacement is with a connection or was lost.
THEOREM NoSpentTokenCommitted == FairSpec => []SpentOnlyIfLost
<1>1. Init => SpentInv
  <2> SUFFICES ASSUME Init PROVE SpentInv
    OBVIOUS
  <2>1. secret.rt \in {NoRt, 1} /\ idp.live = {1}
    <3>1. secret \in ClientSecrets /\ idp.live = {1}
      BY DEF Init
    <3> QED BY <3>1, ClientAssumption
  <2>2. \A c \in Connections : conn[c].pc = "Idle"
    BY DEF Init, IdleConn
  <2> QED BY <2>1, <2>2 DEF SpentInv, Known, Writable
<1>2. SpentInv => SpentOnlyIfLost
  BY DEF SpentInv, SpentOnlyIfLost, Known
<1>3. Safety /\ []TxnInv => []SpentInv
  BY <1>1, NextSpentInv, PTL DEF Safety
<1> QED BY <1>2, <1>3, FairIsSafe, TransactionsSound, PTL

\* A refresh token that connection q holds and the SECRET does not is unknown
\* to the connection r.
Apart(q, r, rt) ==
  /\ ~q.stale /\ q.view.rt # NoRt /\ q.view.rt # rt => q.view.rt # r.view.rt /\ q.view.rt # r.resp.rt
  /\ q.resp.rt # NoRt => q.resp.rt # rt /\ q.resp.rt # r.view.rt /\ q.resp.rt # r.resp.rt

PrivateInv == \A c, d \in Connections : c # d => Apart(conn[c], conn[d], secret.rt)

\* What a transaction would leave on the SECRET is the token that is there, or
\* one that works; while it asks for a refresh, its own may be rotated away.
KeptInv ==
  \A c \in Connections : Writable(conn[c]) /\ ~conn[c].cleared /\ ~RefreshAsked(conn[c]) =>
    RtOf(conn[c]) = secret.rt \/ RtOf(conn[c]) \in idp.live

\* PrivateInv over the steps that change one connection.
LEMMA OneRowPrivate ==
  ASSUME TxnInv, PrivateInv, NEW c \in Connections, NEW r, conn' = [conn EXCEPT ![c] = r], secret' = secret,
         \A d \in Connections \ {c} : Apart(r, conn[d], secret.rt) /\ Apart(conn[d], r, secret.rt)
  PROVE  PrivateInv'
<1>1. conn'[c] = r /\ \A d \in Connections \ {c} : conn'[d] = conn[d]
  BY DEF TxnInv
<1>2. ASSUME NEW a \in Connections, NEW b \in Connections, a # b
      PROVE  Apart(conn'[a], conn'[b], secret.rt)
  <2>1. CASE a = c
    BY <1>1, <1>2, <2>1
  <2>2. CASE b = c
    BY <1>1, <1>2, <2>2
  <2>3. CASE a # c /\ b # c
    BY <1>1, <1>2, <2>3 DEF PrivateInv
  <2> QED BY <2>1, <2>2, <2>3
<1>3. \A a, b \in Connections : a # b => Apart(conn'[a], conn'[b], secret'.rt)
  BY <1>2
<1> QED BY <1>3 DEF PrivateInv, Apart

\* Replacing a row by one that knows no more tokens.
LEMMA NoMoreTokens ==
  ASSUME NEW q, NEW r, NEW e, NEW rt, Apart(q, e, rt), Apart(e, q, rt), r.stale = q.stale \/ r.view.rt = rt,
         r.resp.rt = NoRt, r.view.rt \in {q.view.rt, q.resp.rt, rt, NoRt}
  PROVE  Apart(r, e, rt) /\ Apart(e, r, rt)
<1>1. CASE r.view.rt = rt
  BY <1>1 DEF Apart
<1>2. CASE r.view.rt = NoRt
  BY <1>2 DEF Apart
<1>3. CASE r.view.rt = q.view.rt /\ r.stale = q.stale
  BY <1>3 DEF Apart
<1>4. CASE r.view.rt = q.resp.rt /\ r.view.rt # NoRt
  BY <1>4 DEF Apart
<1> QED BY <1>1, <1>2, <1>3, <1>4

\* Every step keeps PrivateInv.
LEMMA NextPrivateInv == TxnInv /\ PrivateInv /\ [Next]_vars => PrivateInv'
<1> SUFFICES ASSUME TxnInv, PrivateInv, [Next]_vars PROVE PrivateInv'
  OBVIOUS
<1>1. CASE UNCHANGED vars \/ Tick
  <2>1. UNCHANGED <<secret, conn>>
    BY <1>1 DEF vars, Tick
  <2> QED BY <2>1 DEF PrivateInv, Apart
<1>2. NoResponse.rt = NoRt
  BY DEF NoResponse
<1>3. ASSUME NEW c \in Connections, Kinds(c)
      PROVE  PrivateInv'
  <2>1. \A d \in Connections \ {c} : Apart(conn[c], conn[d], secret.rt) /\ Apart(conn[d], conn[c], secret.rt)
    BY DEF PrivateInv
  <2>2. CASE Moves(c) \/ Loses(c)
    <3>1. PICK r : /\ conn' = [conn EXCEPT ![c] = r] /\ RowOK(r, idp.next) /\ GoesOn(conn[c], r)
                   /\ secret' = secret
      BY <2>2 DEF Moves, Loses, LosesAs
    <3>2. r.view = conn[c].view /\ r.stale = conn[c].stale
      BY <3>1 DEF GoesOn, SameTxn
    <3>3. r.resp = NoResponse
      BY <3>1 DEF GoesOn, RowOK
    <3>4. r.resp.rt = NoRt /\ r.view.rt = conn[c].view.rt
      BY <1>2, <3>2, <3>3
    <3>5. \A d \in Connections \ {c} : Apart(r, conn[d], secret.rt) /\ Apart(conn[d], r, secret.rt)
      BY <2>1, <3>2, <3>4, NoMoreTokens
    <3> QED BY <3>1, <3>5, OneRowPrivate
  <2>3. CASE Throws(c)
    <3> DEFINE r == IdleConn(secret)
    <3>1. conn' = [conn EXCEPT ![c] = r] /\ secret' = secret
      BY <2>3 DEF Throws, Throw
    <3>2. r.view.rt = secret.rt /\ r.resp.rt = NoRt
      BY <1>2 DEF IdleConn
    <3> HIDE DEF r
    <3>3. \A d \in Connections \ {c} : Apart(r, conn[d], secret.rt) /\ Apart(conn[d], r, secret.rt)
      BY <2>1, <3>2, NoMoreTokens
    <3> QED BY <3>1, <3>3, OneRowPrivate
  <2>4. CASE Writes(c)
    <3>1. PICK r : /\ conn' = [conn EXCEPT ![c] = r] /\ RowOK(r, idp.next) /\ r.pc = "Txn"
                   /\ r.stale = conn[c].stale /\ r.view.rt \in {NoRt, NewRt(conn[c])}
      BY <2>4 DEF Writes
    <3>2. secret' = secret
      BY <2>4 DEF Writes
    <3>3. r.resp.rt = NoRt
      BY <1>2, <3>1 DEF RowOK
    <3>4. r.view.rt \in {conn[c].view.rt, conn[c].resp.rt, NoRt}
      BY <3>1 DEF NewRt
    <3>5. \A d \in Connections \ {c} : Apart(r, conn[d], secret.rt) /\ Apart(conn[d], r, secret.rt)
      BY <2>1, <3>1, <3>3, <3>4, NoMoreTokens
    <3> QED BY <3>1, <3>2, <3>5, OneRowPrivate
  <2>5. CASE Delivers(c)
    <3>0. PICK withRt \in BOOLEAN : DeliversAs(c, withRt)
      BY <2>5 DEF Delivers
    <3>1. PICK r :
            /\ conn' = [conn EXCEPT ![c] = r] /\ secret' = secret /\ SameTxn(conn[c], r)
            /\ r.resp.rt = IF withRt THEN idp.next ELSE NoRt
      BY <3>0 DEF DeliversAs
    <3>2. r.view = conn[c].view /\ r.stale = conn[c].stale
      BY <3>1 DEF SameTxn
    <3>3. /\ idp.next \in Nat /\ secret.rt \in Nat /\ secret.rt < idp.next
          /\ \A d \in Connections : /\ conn[d].view.rt \in Nat /\ conn[d].view.rt < idp.next
                                    /\ conn[d].resp.rt \in Nat /\ conn[d].resp.rt < idp.next
      BY DEF TxnInv, RowOK, SecretTypeOK
    <3>4. ASSUME NEW d \in Connections \ {c}
          PROVE  Apart(r, conn[d], secret.rt) /\ Apart(conn[d], r, secret.rt)
      <4>1. Apart(conn[c], conn[d], secret.rt) /\ Apart(conn[d], conn[c], secret.rt)
        BY <2>1
      <4>2. /\ secret.rt # idp.next /\ conn[d].view.rt # idp.next /\ conn[d].resp.rt # idp.next
        BY <3>3
      <4>3. CASE withRt
        BY <3>1, <3>2, <4>1, <4>2, <4>3 DEF Apart
      <4>4. CASE ~withRt
        <5>1. r.resp.rt = NoRt /\ r.view.rt = conn[c].view.rt
          BY <3>1, <3>2, <4>4
        <5> QED BY <3>2, <4>1, <5>1, NoMoreTokens
      <4> QED BY <4>3, <4>4
    <3> QED BY <3>1, <3>4, OneRowPrivate
  <2>6. CASE Commit(c)
    <3>1. /\ conn[c].pc = "Txn" /\ secret' = (IF conn[c].wrote THEN conn[c].view ELSE secret)
          /\ \A d \in Connections : d = c \/ conn[d].pc = "Idle" => conn'[d] = IdleConn(secret')
          /\ \A d \in Connections : d # c /\ conn[d].pc # "Idle" =>
               /\ conn'[d].view = conn[d].view /\ conn'[d].resp = conn[d].resp
               /\ conn'[d].stale = (conn[d].stale \/ conn[c].wrote)
      BY <2>6, CommitIs
    <3>2. IdleConn(secret').view = secret' /\ IdleConn(secret').resp.rt = NoRt
      BY <1>2 DEF IdleConn
    <3>3. \A d \in Connections : d = c \/ conn[d].pc = "Idle" =>
            conn'[d].view.rt = secret'.rt /\ conn'[d].resp.rt = NoRt
      BY <3>1, <3>2
    <3>4. \A d \in Connections : d # c /\ conn[d].pc # "Idle" =>
            conn'[d].view.rt = conn[d].view.rt /\ conn'[d].resp.rt = conn[d].resp.rt
      BY <3>1
    <3>5. \A d \in Connections \ {c} : conn[d].resp.rt # NoRt => conn[d].resp.rt # secret'.rt
      BY <3>1 DEF PrivateInv, Apart
    <3>6. ASSUME NEW a \in Connections, NEW b \in Connections, a # b
          PROVE  Apart(conn'[a], conn'[b], secret'.rt)
      <4>1. CASE a = c \/ conn[a].pc = "Idle"
        BY <3>3, <4>1 DEF Apart
      <4>2. CASE a # c /\ conn[a].pc # "Idle"
        <5>1. /\ conn'[a].view.rt = conn[a].view.rt /\ conn'[a].resp.rt = conn[a].resp.rt
              /\ conn[a].resp.rt # NoRt => conn[a].resp.rt # secret'.rt
          BY <3>4, <3>5, <4>2
        <5>2. ~conn'[a].stale => ~conn[a].stale /\ secret' = secret
          BY <3>1, <4>2
        <5>3. Apart(conn[a], conn[b], secret.rt)
          BY <3>6 DEF PrivateInv
        <5>4. CASE b = c \/ conn[b].pc = "Idle"
          BY <3>3, <5>1, <5>4 DEF Apart
        <5>5. CASE b # c /\ conn[b].pc # "Idle"
          <6>1. conn'[b].view.rt = conn[b].view.rt /\ conn'[b].resp.rt = conn[b].resp.rt
            BY <3>4, <5>5
          <6> QED BY <5>1, <5>2, <5>3, <6>1 DEF Apart
        <5> QED BY <5>4, <5>5
      <4> QED BY <4>1, <4>2
    <3> QED BY <3>6 DEF PrivateInv, Apart
  <2> QED BY <1>3, <2>2, <2>3, <2>4, <2>5, <2>6 DEF Kinds
<1> QED BY <1>1, <1>3, Steps

\* KeptInv over the steps that change one connection: a token that goes out of
\* use is the SECRET's, or no other connection's.
LEMMA OneRowKept ==
  ASSUME TxnInv, PrivateInv, KeptInv, NEW c \in Connections, NEW r, conn' = [conn EXCEPT ![c] = r],
         secret' = secret, NEW withRt \in BOOLEAN, idp.live \subseteq idp'.live \cup Used(c, withRt),
         Writable(r) /\ ~r.cleared /\ ~RefreshAsked(r) => RtOf(r) = secret.rt \/ RtOf(r) \in idp'.live
  PROVE  KeptInv'
<1>1. conn'[c] = r /\ \A d \in Connections \ {c} : conn'[d] = conn[d]
  BY DEF TxnInv
<1> DEFINE Kept(q) == Writable(q) /\ ~q.cleared /\ ~RefreshAsked(q) => RtOf(q) = secret.rt \/ RtOf(q) \in idp'.live
<1>2. ASSUME NEW d \in Connections \ {c}
      PROVE  Kept(conn[d])
  <2> SUFFICES ASSUME Writable(conn[d]), ~conn[d].cleared, ~RefreshAsked(conn[d]), RtOf(conn[d]) # secret.rt
               PROVE  RtOf(conn[d]) \in idp'.live
    OBVIOUS
  <2>1. RtOf(conn[d]) \in idp.live /\ Apart(conn[d], conn[c], secret.rt)
    BY DEF KeptInv, PrivateInv
  <2>2. RtOf(conn[d]) # NoRt
    BY <2>1 DEF TxnInv, NoRt
  <2>3. RtOf(conn[d]) # conn[c].view.rt
    <3>1. RtOf(conn[d]) \in {conn[d].view.rt, conn[d].resp.rt}
      BY DEF RtOf, NewRt
    <3>2. ~conn[d].stale
      BY DEF Writable
    <3> QED BY <2>1, <2>2, <3>1, <3>2 DEF Apart
  <2> QED BY <2>1, <2>3 DEF Used
<1>3. Kept(r)
  OBVIOUS
<1>4. \A d \in Connections : Kept(conn'[d])
  BY <1>1, <1>2, <1>3
<1> QED BY <1>4 DEF KeptInv, Writable, RefreshAsked, RtOf, NewRt

\* Every step keeps KeptInv.
LEMMA NextKeptInv == TxnInv /\ PrivateInv /\ KeptInv /\ [Next]_vars => KeptInv'
<1> SUFFICES ASSUME TxnInv, PrivateInv, KeptInv, [Next]_vars PROVE KeptInv'
  OBVIOUS
<1>1. CASE UNCHANGED vars \/ Tick
  <2>1. UNCHANGED <<secret, conn, idp>>
    BY <1>1 DEF vars, Tick
  <2> QED BY <2>1 DEF KeptInv, Writable, RefreshAsked, RtOf, NewRt
<1>2. ASSUME NEW c \in Connections, Kinds(c)
      PROVE  KeptInv'
  <2>1. ASSUME NEW r, RowOK(r, idp.next), GoesOn(conn[c], r), Writable(r), ~r.cleared, ~RefreshAsked(r)
        PROVE  /\ RtOf(r) = secret.rt \/ RtOf(r) \in idp.live
               /\ ~RefreshAsked(conn[c])
    <3>1. /\ r.pc # "Answered" /\ conn[c].pc # "Answered" /\ ~RefreshAsked(conn[c])
          /\ r.view = conn[c].view /\ r.stale = conn[c].stale /\ r.cleared = conn[c].cleared
      BY <2>1 DEF GoesOn, SameTxn, Writable
    <3>2. RtOf(r) = conn[c].view.rt
      BY <3>1 DEF RtOf
    <3>3. CASE conn[c].pc = "Idle"
      <4>1. IdleConn(secret).view = secret
        BY DEF IdleConn
      <4>2. conn[c].view = secret
        BY <3>3, <4>1 DEF TxnInv
      <4> QED BY <3>1, <3>2, <4>2
    <3>4. CASE conn[c].pc # "Idle"
      <4>1. Writable(conn[c]) /\ ~conn[c].cleared /\ RtOf(conn[c]) = conn[c].view.rt
        BY <2>1, <3>1, <3>4 DEF Writable, RtOf
      <4> QED BY <3>1, <3>2, <4>1 DEF KeptInv
    <3> QED BY <3>3, <3>4
  <2>2. CASE Moves(c)
    <3>1. PICK r : conn' = [conn EXCEPT ![c] = r] /\ RowOK(r, idp.next) /\ GoesOn(conn[c], r)
      BY <2>2 DEF Moves
    <3>2. UNCHANGED <<secret, idp>>
      BY <2>2 DEF Moves
    <3>3. idp.live \subseteq idp'.live \cup Used(c, FALSE) /\ FALSE \in BOOLEAN
      BY <3>2
    <3>4. Writable(r) /\ ~r.cleared /\ ~RefreshAsked(r) => RtOf(r) = secret.rt \/ RtOf(r) \in idp'.live
      BY <2>1, <3>1, <3>2
    <3> QED BY <3>1, <3>2, <3>3, <3>4, OneRowKept
  <2>3. CASE Throws(c)
    <3> DEFINE r == IdleConn(secret)
    <3>1. conn' = [conn EXCEPT ![c] = r] /\ UNCHANGED <<secret, idp>>
      BY <2>3 DEF Throws, Throw
    <3>2. ~Writable(r)
      BY DEF IdleConn, Writable
    <3> HIDE DEF r
    <3>3. idp.live \subseteq idp'.live \cup Used(c, FALSE) /\ FALSE \in BOOLEAN
      BY <3>1
    <3> QED BY <3>1, <3>2, <3>3, OneRowKept
  <2>4. CASE Writes(c)
    <3>1. PICK r : /\ conn' = [conn EXCEPT ![c] = r] /\ r.pc = "Txn"
                   /\ \/ r.cleared = TRUE
                      \/ /\ r.cleared = conn[c].cleared /\ r.view.rt = NewRt(conn[c])
                         /\ conn[c].pc = "Answered" /\ conn[c].resp # NoResponse
      BY <2>4 DEF Writes
    <3>2. UNCHANGED <<secret, idp>> /\ ~conn[c].stale
      BY <2>4 DEF Writes, Conflict
    <3>3. idp.live \subseteq idp'.live \cup Used(c, FALSE) /\ FALSE \in BOOLEAN
      BY <3>2
    <3>4. ASSUME Writable(r), ~r.cleared, ~RefreshAsked(r)
          PROVE  RtOf(r) = secret.rt \/ RtOf(r) \in idp'.live
      <4>1. Writable(conn[c]) /\ ~conn[c].cleared /\ ~RefreshAsked(conn[c])
        BY <3>1, <3>2, <3>4 DEF Writable, RefreshAsked
      <4>2. RtOf(r) = RtOf(conn[c])
        BY <3>1, <3>4 DEF RtOf
      <4> QED BY <3>2, <4>1, <4>2 DEF KeptInv
    <3> QED BY <3>1, <3>2, <3>3, <3>4, OneRowKept
  <2>5. CASE Delivers(c)
    <3>0. PICK withRt \in BOOLEAN : DeliversAs(c, withRt)
      BY <2>5 DEF Delivers
    <3>1. PICK r :
            /\ conn[c].pc = "Asking" /\ (conn[c].fn = "refresh" => conn[c].view.rt \in idp.live)
            /\ conn' = [conn EXCEPT ![c] = r] /\ secret' = secret
            /\ SameTxn(conn[c], r) /\ r.pc = "Answered" /\ r.fn = conn[c].fn
            /\ r.resp.rt = IF withRt THEN idp.next ELSE NoRt
            /\ idp' = IF withRt THEN [live |-> (idp.live \ Used(c, withRt)) \cup {idp.next}, next |-> idp.next + 1]
                      ELSE idp
      BY <3>0 DEF DeliversAs
    <3>2. idp.live \subseteq idp'.live \cup Used(c, withRt)
      BY <3>1
    <3>3. ASSUME Writable(r), ~r.cleared, ~RefreshAsked(r)
          PROVE  RtOf(r) = secret.rt \/ RtOf(r) \in idp'.live
      <4>1. /\ RtOf(r) = NewRt(r) /\ r.view = conn[c].view /\ r.stale = conn[c].stale
            /\ r.cleared = conn[c].cleared
        BY <3>1 DEF RtOf, SameTxn
      <4>2. Writable(conn[c]) /\ RtOf(conn[c]) = conn[c].view.rt /\ ~conn[c].cleared
        BY <3>1, <3>3, <4>1 DEF Writable, RtOf
      <4>3. CASE withRt /\ r.fn # "login"
        <5>1. idp.next # NoRt
          BY DEF TxnInv, NoRt
        <5> QED BY <3>1, <4>1, <4>3, <5>1 DEF NewRt
      <4>4. CASE ~(withRt /\ r.fn # "login")
        <5>1. RtOf(r) = conn[c].view.rt
          BY <3>1, <4>1, <4>4 DEF NewRt
        <5>2. idp.live \subseteq idp'.live
          BY <3>1, <4>4 DEF Used
        <5>3. conn[c].view.rt = secret.rt \/ conn[c].view.rt \in idp.live
          BY <3>1, <4>2 DEF KeptInv, RefreshAsked
        <5> QED BY <5>1, <5>2, <5>3
      <4> QED BY <4>3, <4>4
    <3> QED BY <3>1, <3>2, <3>3, OneRowKept
  <2>6. CASE Loses(c)
    <3>0. PICK withRt \in BOOLEAN : LosesAs(c, withRt)
      BY <2>6 DEF Loses
    <3>1. PICK r :
            /\ conn[c].pc = "Asking"
            /\ conn' = [conn EXCEPT ![c] = r] /\ RowOK(r, idp.next) /\ secret' = secret
            /\ GoesOn(conn[c], r)
            /\ idp' = [idp EXCEPT !.live = @ \ Used(c, withRt)]
      BY <3>0 DEF LosesAs
    <3>2. idp'.live = idp.live \ Used(c, withRt)
      BY <3>1 DEF TxnInv
    <3>3. ASSUME Writable(r), ~r.cleared, ~RefreshAsked(r)
          PROVE  RtOf(r) = secret.rt \/ RtOf(r) \in idp'.live
      <4>1. (RtOf(r) = secret.rt \/ RtOf(r) \in idp.live) /\ ~RefreshAsked(conn[c])
        BY <2>1, <3>1, <3>3
      <4>2. Used(c, withRt) = {}
        BY <3>1, <4>1 DEF RefreshAsked, Used
      <4> QED BY <3>2, <4>1, <4>2
    <3>4. idp.live \subseteq idp'.live \cup Used(c, withRt)
      BY <3>2
    <3> QED BY <3>1, <3>3, <3>4, OneRowKept
  <2>7. CASE Commit(c)
    <3>1. /\ secret' = (IF conn[c].wrote THEN conn[c].view ELSE secret) /\ UNCHANGED idp
          /\ \A d \in Connections : d = c \/ conn[d].pc = "Idle" => conn'[d] = IdleConn(secret')
          /\ \A d \in Connections : d # c /\ conn[d].pc # "Idle" =>
               /\ conn'[d].pc = conn[d].pc /\ conn'[d].fn = conn[d].fn /\ conn'[d].cleared = conn[d].cleared
               /\ conn'[d].view = conn[d].view /\ conn'[d].resp = conn[d].resp
               /\ conn'[d].stale = (conn[d].stale \/ conn[c].wrote)
      BY <2>7, CommitIs
    <3>2. ~Writable(IdleConn(secret'))
      BY DEF IdleConn, Writable
    <3>3. ASSUME NEW d \in Connections, Writable(conn'[d]), ~conn'[d].cleared, ~RefreshAsked(conn'[d])
          PROVE  RtOf(conn'[d]) = secret'.rt \/ RtOf(conn'[d]) \in idp'.live
      <4>1. d # c /\ conn[d].pc # "Idle"
        BY <3>1, <3>2, <3>3
      <4>2. Writable(conn[d]) /\ ~conn[c].wrote /\ ~conn[d].cleared /\ ~RefreshAsked(conn[d])
        BY <3>1, <3>3, <4>1 DEF Writable, RefreshAsked
      <4>3. RtOf(conn'[d]) = RtOf(conn[d])
        BY <3>1, <4>1 DEF RtOf, NewRt
      <4> QED BY <3>1, <4>2, <4>3 DEF KeptInv
    <3> QED BY <3>3 DEF KeptInv, Writable, RefreshAsked, RtOf, NewRt
  <2> QED BY <1>2, <2>2, <2>3, <2>4, <2>5, <2>6, <2>7 DEF Kinds
<1> QED BY <1>1, <1>2, Steps

\* RefreshTokenKept: a transaction that does not log out leaves a refresh
\* token that works where there was one, whichever flows it ran and whatever
\* other connections had rotated meanwhile.
THEOREM WorkingTokenKept == FairSpec => RefreshTokenKept
<1>1. Init => PrivateInv /\ KeptInv
  <2> SUFFICES ASSUME Init PROVE PrivateInv /\ KeptInv
    OBVIOUS
  <2>1. \A c \in Connections : conn[c].pc = "Idle" /\ conn[c].view = secret /\ conn[c].resp.rt = NoRt
    BY DEF Init, IdleConn, NoResponse
  <2> QED BY <2>1 DEF PrivateInv, KeptInv, Apart, Writable
<1>2. ASSUME TxnInv, KeptInv, Next, NEW c \in Connections, conn[c].pc = "Txn", conn'[c].pc = "Idle",
             secret.rt \in idp.live, ~conn[c].cleared
      PROVE  secret'.rt \in idp.live
  <2>1. ASSUME NEW d \in Connections, Moves(d) \/ Throws(d) \/ Writes(d) \/ Delivers(d) \/ Loses(d)
        PROVE  secret' = secret
    BY <2>1 DEF Moves, Throws, Throw, Writes, Delivers, Loses, DeliversAs, LosesAs
  <2>2. ASSUME NEW d \in Connections, Commit(d)
        PROVE  secret'.rt \in idp.live
    <3>1. CASE d # c
      <4>1. conn'[c].pc = conn[c].pc
        BY <1>2, <2>2, <3>1, CommitIs
      <4> QED BY <1>2, <4>1
    <3>2. CASE d = c /\ ~conn[c].wrote
      <4>1. secret' = secret
        BY <2>2, <3>2 DEF Commit
      <4> QED BY <1>2, <4>1
    <3>3. CASE d = c /\ conn[c].wrote
      <4>1. secret' = conn[c].view
        BY <2>2, <3>3 DEF Commit
      <4>2. Writable(conn[c]) /\ ~RefreshAsked(conn[c]) /\ RtOf(conn[c]) = conn[c].view.rt
        BY <1>2, <3>3 DEF TxnInv, Conflict, Writable, RefreshAsked, RtOf
      <4> QED BY <1>2, <4>1, <4>2 DEF KeptInv
    <3> QED BY <3>1, <3>2, <3>3
  <2>3. CASE Tick
    BY <1>2, <2>3 DEF Tick
  <2> QED BY <1>2, <2>1, <2>2, <2>3, Steps DEF Kinds
<1>3. TxnInv /\ KeptInv /\ [Next]_vars =>
        [\A c \in Connections :
           conn[c].pc = "Txn" /\ conn'[c].pc = "Idle" /\ secret.rt \in idp.live /\ ~conn[c].cleared
             => secret'.rt \in idp.live]_vars
  BY <1>2
<1>4. Safety /\ []TxnInv => []PrivateInv /\ []KeptInv
  BY <1>1, NextPrivateInv, NextKeptInv, PTL DEF Safety
<1>5. Safety /\ []TxnInv /\ []KeptInv => RefreshTokenKept
  BY <1>3, PTL DEF Safety, RefreshTokenKept
<1> QED BY <1>4, <1>5, FairIsSafe, TransactionsSound, PTL

\* CachedUnexpired: acquire returns the stored token only while it is known to
\* be fresh, with the skew to spare.
THEOREM CachedTokenLives == FairSpec => CachedUnexpired
<1>1. ASSUME TxnInv, NEW c \in Connections, UseCached(c),
             OpenSecret(c).expiresAt - OpenSecret(c).at.until <= RenewSkewS
      PROVE  OpenSecret(c).at.until > clock
  <2> DEFINE v == OpenSecret(c)
  <2>1. SecretTypeOK(v) /\ clock \in Nat /\ RenewSkewS \in Nat
    BY <1>1, OpenIs, ClientAssumption DEF TxnInv
  <2>2. AccessTokenIsFresh(v, clock)
    BY <1>1 DEF UseCached, DecideAcquireFlow
  <2> HIDE DEF v
  <2>3. v.expiresAt \in Nat \cup {Unreadable} /\ v.at.until \in Nat
    BY <2>1 DEF SecretTypeOK
  <2>4. v.expiresAt # Unreadable /\ v.expiresAt > clock + RenewSkewS
    BY <2>1, <2>2, <2>3 DEF AccessTokenIsFresh, ParseIso8601ToUnixSeconds
  <2>5. v.expiresAt - v.at.until <= RenewSkewS
    BY <1>1 DEF v
  <2>6. v.at.until > clock
    BY <2>1, <2>3, <2>4, <2>5
  <2> QED BY <2>6 DEF v
<1>2. TxnInv /\ [Next]_vars =>
        [\A c \in Connections :
           UseCached(c) => LET v == OpenSecret(c) IN
             v.expiresAt - v.at.until <= RenewSkewS => v.at.until > clock]_vars
  BY <1>1
<1>3. Safety /\ []TxnInv => CachedUnexpired
  BY <1>2, PTL DEF Safety, CachedUnexpired
<1> QED BY <1>3, FairIsSafe, TransactionsSound, PTL
==============================================================================
