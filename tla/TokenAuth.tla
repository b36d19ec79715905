------------------------------ MODULE TokenAuth ------------------------------
(***************************************************************************)
(* Client-token authentication of the proxy: the SQLite table             *)
(* client_tokens, the in-memory verification cache in front of it, the     *)
(* request middleware that reads through the cache, the endpoints that     *)
(* mint and revoke tokens, and the three ways a revocation reaches the     *)
(* cache (in-process invalidate, INVALIDATE_TOKENS over the reload socket, *)
(* SIGHUP).  Sources: src/src/client_auth/*.rs, src/src/admin/mod.rs,      *)
(* src/src/console/{handlers,reload}.rs, src/src/reload.rs.                *)
(*                                                                         *)
(* Granularity.  `lookup' has three critical sections (cache mutex, SQLite *)
(* mutex, cache mutex again), each an action here.  There is no await      *)
(* between them, so a lookup and an admin revoke hold a tokio worker from  *)
(* their first step to their last; `Workers' is the size of the runtime.   *)
(* The console is a separate process: its SQLite writes interleave freely. *)
(***************************************************************************)
EXTENDS Integers, FiniteSets

CONSTANTS
  Wires,      \* full bearer tokens; a wire also stands for its SHA-256 hash
  Prefixes,   \* 10-character lookup prefixes, UNIQUE in client_tokens
  PrefixOf,   \* wire_prefix: [Wires -> Prefixes], not injective
  Users,      \* owners of tokens
  Expiries,   \* expires_at values a mint may ask for (clock values or Never)
  Requests,   \* HTTP requests that reach verify_request, one id each
  Minters,    \* create requests (admin API or console), one id each
  Revokers,   \* revoke requests (admin API or console), one id each
  Workers,    \* tokio worker threads of the proxy
  Capacity,   \* [auth].cache_capacity
  TTL,        \* [auth].cache_ttl_secs, in clock ticks
  MaxLookup,  \* longest a verification holds a worker, in clock ticks
  MaxClock,   \* bound on the clock
  Method,     \* how the console reaches the proxy: socket, sighup or none
  NoRow       \* placeholder for a row not read yet

Never == -1   \* SQL NULL of expires_at and revoked_at

ASSUME ConstantsAssumption ==
  /\ PrefixOf \in [Wires -> Prefixes]
  /\ Expiries \subseteq Nat \cup {Never}
  /\ IsFiniteSet(Prefixes) /\ IsFiniteSet(Requests) /\ IsFiniteSet(Revokers)
  /\ Workers \in Nat \ {0}
  /\ Capacity \in Nat
  /\ TTL \in Nat /\ MaxLookup \in Nat /\ MaxClock \in Nat
  /\ Method \in {"socket", "sighup", "none"}

MaxMintAttempts == 3

VARIABLES
  now,      \* wall clock, also the monotonic Instant of the cache
  rows,     \* client_tokens: prefix -> row, for the prefixes minted so far
  cache,    \* TokenCache.map: prefix -> entry
  counter,  \* TokenCache.counter, the LRU clock
  req,      \* the verification of each request
  mint,     \* the progress of each mint
  rev,      \* the progress of each revocation
  acked,    \* prefixes whose revocation was reported effective to its caller
  late,     \* requests that began after that report for their prefix
  sighup    \* SIGHUP pending at the proxy (signals coalesce)

vars == <<now, rows, cache, counter, req, mint, rev, acked, late, sighup>>

Time == 0..MaxClock

Row == [hash : Wires, user : Users, expires : Nat \cup {Never},
        revokedAt : Time \cup {Never}]

Entry == [row : Row, insertedAt : Time, lastUsed : Nat]

Verdicts == {"none", "accepted", "unauthorized", "error"}

Request == [pc : {"idle", "read", "fill", "decide", "done"},
            wire : Wires \cup {NoRow}, row : Row \cup {NoRow}, start : Time,
            verdict : Verdicts]

Mint == [pc : {"minting", "created", "failed"}, attempt : 1..MaxMintAttempts,
         wire : Wires \cup {NoRow}]

Revocation == [pc : {"idle", "invalidate", "notify", "await", "acked", "failed"},
               targets : SUBSET Prefixes, cmd : {"none", "sent", "executed"}]

Init ==
  /\ now = 0
  /\ rows = [p \in {} |-> NoRow]
  /\ cache = [p \in {} |-> NoRow]
  /\ counter = 0
  /\ req = [r \in Requests |-> [pc |-> "idle", wire |-> NoRow, row |-> NoRow,
                                start |-> 0, verdict |-> "none"]]
  /\ mint = [m \in Minters |-> [pc |-> "minting", attempt |-> 1, wire |-> NoRow]]
  /\ rev = [v \in Revokers |-> [pc |-> "idle", targets |-> {}, cmd |-> "none"]]
  /\ acked = {}
  /\ late = {}
  /\ sighup = FALSE

-----------------------------------------------------------------------------
(* Workers: which requests and admin revocations occupy a thread.          *)

BusyRequests == {r \in Requests : req[r].pc \in {"read", "fill", "decide"}}
BusyRevokers == {v \in Revokers : rev[v].pc = "invalidate"}

FreeWorker == Cardinality(BusyRequests) + Cardinality(BusyRevokers) < Workers

-----------------------------------------------------------------------------
(* TokenCache                                                              *)

Fresh(e) == now - e.insertedAt < TTL

Drop(c, P) == [p \in DOMAIN c \ P |-> c[p]]

Put(c, p, e) == [q \in DOMAIN c \cup {p} |-> IF q = p THEN e ELSE c[q]]

\* Seeded fault: the eviction pass picks the most recently used entry.
MutVictims(c) ==
  {p \in DOMAIN c : \A q \in DOMAIN c : c[p].lastUsed >= c[q].lastUsed}

\* evict_one: some expired entry if there is one (HashMap order decides
\* which), else the least recently used.
Victims(c) ==
  LET expired == {p \in DOMAIN c : ~Fresh(c[p])}
  IN  IF expired # {}
      THEN expired
      ELSE {p \in DOMAIN c : \A q \in DOMAIN c : c[p].lastUsed <= c[q].lastUsed}

\* Seeded fault: insert checks `len > capacity' before making room.
MutMakeRoom(c, p) ==
  IF p \in DOMAIN c \/ Cardinality(DOMAIN c) <= Capacity \/ DOMAIN c = {}
  THEN {c}
  ELSE {Drop(c, {v}) : v \in Victims(c)}

\* The caches that `insert' may continue with once it has made room for p.
MakeRoom(c, p) ==
  IF p \in DOMAIN c \/ Cardinality(DOMAIN c) < Capacity \/ DOMAIN c = {}
  THEN {c}
  ELSE {Drop(c, {v}) : v \in Victims(c)}

\* Seeded fault: a hit restarts the entry's TTL.
MutTouch(c, p) ==
  Put(c, p, [c[p] EXCEPT !.lastUsed = counter + 1, !.insertedAt = now])

\* A fresh hit of `get': only last_used moves.
Touch(c, p) == Put(c, p, [c[p] EXCEPT !.lastUsed = counter + 1])

-----------------------------------------------------------------------------
(* verify_request                                                          *)

\* Early returns before the lookup: plain HTTP under require_https, no
\* bearer header, a token that does not parse.
Refuse(r) ==
  /\ req[r].pc = "idle"
  /\ FreeWorker
  /\ req' = [req EXCEPT ![r] = [pc |-> "done", wire |-> NoRow, row |-> NoRow,
                                start |-> now, verdict |-> "unauthorized"]]
  /\ UNCHANGED <<now, rows, cache, counter, mint, rev, acked, late, sighup>>

Begin(r, w, next) ==
  [req[r] EXCEPT !.pc = next, !.wire = w, !.start = now]

\* Requests that begin after the revocation of their prefix was acknowledged.
LateIf(r, w) == IF PrefixOf[w] \in acked THEN late \cup {r} ELSE late

\* TokenCache::get, fresh hit: the cached row goes straight to the decision.
GetHit(r, w) ==
  LET p == PrefixOf[w] IN
  /\ req[r].pc = "idle"
  /\ FreeWorker
  /\ p \in DOMAIN cache /\ Fresh(cache[p])
  /\ counter' = counter + 1
  /\ cache' = Touch(cache, p)
  /\ req' = [req EXCEPT ![r] = [Begin(r, w, "decide") EXCEPT !.row = cache[p].row]]
  /\ late' = LateIf(r, w)
  /\ UNCHANGED <<now, rows, mint, rev, acked, sighup>>

\* TokenCache::get, miss: absent, or expired and dropped on the spot.
GetMiss(r, w) ==
  LET p == PrefixOf[w] IN
  /\ req[r].pc = "idle"
  /\ FreeWorker
  /\ p \in DOMAIN cache => ~Fresh(cache[p])
  /\ cache' = Drop(cache, {p})
  /\ req' = [req EXCEPT ![r] = Begin(r, w, "read")]
  /\ late' = LateIf(r, w)
  /\ UNCHANGED <<now, rows, counter, mint, rev, acked, sighup>>

\* store::lookup_by_prefix finds no row: 401, and nothing is cached.
ReadAbsent(r) ==
  /\ req[r].pc = "read"
  /\ PrefixOf[req[r].wire] \notin DOMAIN rows
  /\ req' = [req EXCEPT ![r].pc = "done", ![r].verdict = "unauthorized"]
  /\ UNCHANGED <<now, rows, cache, counter, mint, rev, acked, late, sighup>>

\* store::lookup_by_prefix returns the row as it is now.
ReadRow(r) ==
  LET p == PrefixOf[req[r].wire] IN
  /\ req[r].pc = "read"
  /\ p \in DOMAIN rows
  /\ req' = [req EXCEPT ![r].pc = "fill", ![r].row = rows[p]]
  /\ UNCHANGED <<now, rows, cache, counter, mint, rev, acked, late, sighup>>

\* The SQLite read fails: 500.
ReadError(r) ==
  /\ req[r].pc = "read"
  /\ req' = [req EXCEPT ![r].pc = "done", ![r].verdict = "error"]
  /\ UNCHANGED <<now, rows, cache, counter, mint, rev, acked, late, sighup>>

\* TokenCache::insert of the row read in the previous critical section.
Fill(r) ==
  LET p == PrefixOf[req[r].wire] IN
  /\ req[r].pc = "fill"
  /\ counter' = counter + 1
  /\ \E room \in MakeRoom(cache, p) :
       cache' = Put(room, p, [row |-> req[r].row, insertedAt |-> now,
                              lastUsed |-> counter + 1])
  /\ req' = [req EXCEPT ![r].pc = "decide"]
  /\ UNCHANGED <<now, rows, mint, rev, acked, late, sighup>>

\* Seeded fault: the hash comparison is skipped.
MutAdmits(row, w) ==
  /\ row.revokedAt = Never
  /\ row.expires # Never => row.expires >= now

\* The checks after the lookup: hash, revoked_at, expires_at (is_past is a
\* strict comparison, so a token is still good at its expiry instant).
Admits(row, w) ==
  /\ row.hash = w
  /\ row.revokedAt = Never
  /\ row.expires # Never => row.expires >= now

Decide(r) ==
  /\ req[r].pc = "decide"
  /\ req' = [req EXCEPT ![r].pc = "done",
                        ![r].verdict = IF Admits(req[r].row, req[r].wire)
                                       THEN "accepted" ELSE "unauthorized"]
  /\ UNCHANGED <<now, rows, cache, counter, mint, rev, acked, late, sighup>>

-----------------------------------------------------------------------------
(* create_client and api_create_token                                      *)

\* Seeded fault: INSERT OR REPLACE instead of INSERT.
MutMintInsert(m, w, u, x) ==
  LET p == PrefixOf[w] IN
  /\ mint[m].pc = "minting"
  /\ rows' = Put(rows, p, [hash |-> w, user |-> u, expires |-> x,
                           revokedAt |-> Never])
  /\ mint' = [mint EXCEPT ![m].pc = "created", ![m].wire = w]
  /\ UNCHANGED <<now, cache, counter, req, rev, acked, late, sighup>>

\* A generated wire whose prefix is free is inserted.
MintInsert(m, w, u, x) ==
  LET p == PrefixOf[w] IN
  /\ mint[m].pc = "minting"
  /\ p \notin DOMAIN rows
  /\ rows' = Put(rows, p, [hash |-> w, user |-> u, expires |-> x,
                           revokedAt |-> Never])
  /\ mint' = [mint EXCEPT ![m].pc = "created", ![m].wire = w]
  /\ UNCHANGED <<now, cache, counter, req, rev, acked, late, sighup>>

\* Seeded fault: the retry loop makes one attempt too many.
MutMintCollision(m, w) ==
  /\ mint[m].pc = "minting"
  /\ PrefixOf[w] \in DOMAIN rows
  /\ IF mint[m].attempt <= MaxMintAttempts
     THEN mint' = [mint EXCEPT ![m].attempt = mint[m].attempt + 1]
     ELSE mint' = [mint EXCEPT ![m].pc = "failed"]
  /\ UNCHANGED <<now, rows, cache, counter, req, rev, acked, late, sighup>>

\* UNIQUE(prefix) fails: retry with a fresh token, at most three attempts.
MintCollision(m, w) ==
  /\ mint[m].pc = "minting"
  /\ PrefixOf[w] \in DOMAIN rows
  /\ IF mint[m].attempt < MaxMintAttempts
     THEN mint' = [mint EXCEPT ![m].attempt = mint[m].attempt + 1]
     ELSE mint' = [mint EXCEPT ![m].pc = "failed"]
  /\ UNCHANGED <<now, rows, cache, counter, req, rev, acked, late, sighup>>

\* Label or expiry refused, or any other SQLite error: give up at once.
MintFail(m) ==
  /\ mint[m].pc = "minting"
  /\ mint' = [mint EXCEPT ![m].pc = "failed"]
  /\ UNCHANGED <<now, rows, cache, counter, req, rev, acked, late, sighup>>

-----------------------------------------------------------------------------
(* Revocation                                                              *)

\* Seeded fault: revoke without `AND revoked_at IS NULL'.
MutRevoked(P) ==
  [p \in DOMAIN rows |-> IF p \in P THEN [rows[p] EXCEPT !.revokedAt = now]
                                    ELSE rows[p]]

\* store::revoke and store::revoke_all_for_user: live rows get revoked_at,
\* rows already revoked keep the original one.
Revoked(P) ==
  [p \in DOMAIN rows |-> IF p \in P /\ rows[p].revokedAt = Never
                         THEN [rows[p] EXCEPT !.revokedAt = now]
                         ELSE rows[p]]

\* admin revoke_client: SELECT prefix and UPDATE in one with_conn.
AdminRevoke(v, p) ==
  /\ rev[v].pc = "idle"
  /\ FreeWorker
  /\ p \in DOMAIN rows
  /\ rows' = Revoked({p})
  /\ rev' = [rev EXCEPT ![v].pc = "invalidate", ![v].targets = {p}]
  /\ UNCHANGED <<now, cache, counter, req, mint, acked, late, sighup>>

\* Seeded fault: the handler answers without touching the cache.
MutAdminInvalidate(v) ==
  /\ rev[v].pc = "invalidate"
  /\ rev' = [rev EXCEPT ![v].pc = "acked"]
  /\ acked' = acked \cup rev[v].targets
  /\ UNCHANGED <<now, rows, cache, counter, req, mint, late, sighup>>

\* ... then invalidate_cached(prefix), then 200 {"status":"revoked"}.
AdminInvalidate(v) ==
  /\ rev[v].pc = "invalidate"
  /\ cache' = Drop(cache, rev[v].targets)
  /\ rev' = [rev EXCEPT ![v].pc = "acked"]
  /\ acked' = acked \cup rev[v].targets
  /\ UNCHANGED <<now, rows, counter, req, mint, late, sighup>>

\* console api_revoke_token: the caller's own token p.
ConsoleRevoke(v, p) ==
  /\ rev[v].pc = "idle"
  /\ p \in DOMAIN rows
  /\ rows' = Revoked({p})
  /\ rev' = [rev EXCEPT ![v].pc = "notify", ![v].targets = {p}]
  /\ UNCHANGED <<now, cache, counter, req, mint, acked, late, sighup>>

\* console api_force_revoke_user_tokens: every live token of user u.
ConsoleRevokeAll(v, u) ==
  LET P == {p \in DOMAIN rows : rows[p].user = u} IN
  /\ rev[v].pc = "idle"
  /\ rows' = Revoked(P)
  /\ rev' = [rev EXCEPT ![v].pc = "notify", ![v].targets = P]
  /\ UNCHANGED <<now, cache, counter, req, mint, acked, late, sighup>>

\* The database refuses (id not owned, row absent, SQLite error): no change.
RevokeFail(v) ==
  /\ rev[v].pc = "idle"
  /\ rev' = [rev EXCEPT ![v].pc = "failed"]
  /\ UNCHANGED <<now, rows, cache, counter, req, mint, acked, late, sighup>>

\* dispatch_blocking over [reload].socket: the command is on its way.
SocketSend(v) ==
  /\ Method = "socket"
  /\ rev[v].pc = "notify"
  /\ rev' = [rev EXCEPT ![v].pc = "await", ![v].cmd = "sent"]
  /\ UNCHANGED <<now, rows, cache, counter, req, mint, acked, late, sighup>>

\* The proxy's connection task runs INVALIDATE_TOKENS.
SocketFlush(v) ==
  /\ rev[v].cmd = "sent"
  /\ FreeWorker
  /\ cache' = Drop(cache, DOMAIN cache)
  /\ rev' = [rev EXCEPT ![v].cmd = "executed"]
  /\ UNCHANGED <<now, rows, counter, req, mint, acked, late, sighup>>

\* OK read back from the socket: 200 with reload.triggered = true.
SocketOk(v) ==
  /\ rev[v].pc = "await"
  /\ rev[v].cmd = "executed"
  /\ rev' = [rev EXCEPT ![v].pc = "acked"]
  /\ acked' = acked \cup rev[v].targets
  /\ UNCHANGED <<now, rows, cache, counter, req, mint, late, sighup>>

\* Connect refused, read timeout, no method configured or kill(2) failed:
\* 200 with reload.triggered = false.  A command already sent may still run.
NotifyFail(v) ==
  /\ rev[v].pc \in {"notify", "await"}
  /\ rev' = [rev EXCEPT ![v].pc = "failed"]
  /\ UNCHANGED <<now, rows, cache, counter, req, mint, acked, late, sighup>>

\* dispatch_blocking over [reload].pid_file: the signal is posted and
\* reload.triggered = true is reported at once.
SighupSend(v) ==
  /\ Method = "sighup"
  /\ rev[v].pc = "notify"
  /\ sighup' = TRUE
  /\ rev' = [rev EXCEPT ![v].pc = "acked"]
  /\ acked' = acked \cup rev[v].targets
  /\ UNCHANGED <<now, rows, cache, counter, req, mint, late>>

\* run_reload_task: the state is rebuilt around the ClientAuth handle of
\* RuntimeHandles, so the cache is the one that was there before.
SighupReload ==
  /\ sighup
  /\ sighup' = FALSE
  /\ UNCHANGED <<now, rows, cache, counter, req, mint, rev, acked, late>>

\* Time passes; no verification outlasts MaxLookup.
Tick ==
  /\ now < MaxClock
  /\ \A r \in BusyRequests : now < req[r].start + MaxLookup
  /\ now' = now + 1
  /\ UNCHANGED <<rows, cache, counter, req, mint, rev, acked, late, sighup>>

-----------------------------------------------------------------------------

RequestStep(r) ==
  \/ ReadAbsent(r)
  \/ ReadRow(r)
  \/ ReadError(r)
  \/ Fill(r)
  \/ Decide(r)

RevokerStep(v) ==
  \/ AdminInvalidate(v)
  \/ SocketSend(v)
  \/ SocketFlush(v)
  \/ SocketOk(v)
  \/ NotifyFail(v)
  \/ SighupSend(v)

Next ==
  \/ Tick
  \/ SighupReload
  \/ \E r \in Requests :
       \/ Refuse(r)
       \/ \E w \in Wires : GetHit(r, w) \/ GetMiss(r, w)
       \/ RequestStep(r)
  \/ \E m \in Minters :
       \/ \E w \in Wires, u \in Users, x \in Expiries : MintInsert(m, w, u, x)
       \/ \E w \in Wires : MintCollision(m, w)
       \/ MintFail(m)
  \/ \E v \in Revokers :
       \/ \E p \in Prefixes : AdminRevoke(v, p) \/ ConsoleRevoke(v, p)
       \/ \E u \in Users : ConsoleRevokeAll(v, u)
       \/ RevokeFail(v)
       \/ RevokerStep(v)

Spec == Init /\ [][Next]_vars

-----------------------------------------------------------------------------
(* Properties                                                              *)

Table(t, S) == DOMAIN t \subseteq Prefixes /\ t \in [DOMAIN t -> S]

RowsOK == Table(rows, Row)
CacheOK == Table(cache, Entry)
ReqOK == req \in [Requests -> Request]
ReqShape ==
  \A r \in Requests :
    /\ req[r].pc \in {"read", "fill", "decide"} \/ req[r].verdict = "accepted"
         => req[r].wire \in Wires
    /\ req[r].pc \in {"fill", "decide"} => req[r].row \in Row
    /\ req[r].verdict = "accepted" => req[r].pc = "done"
MintOK == mint \in [Minters -> Mint]
RevOK == rev \in [Revokers -> Revocation]

TypeOK ==
  /\ now \in Time
  /\ counter \in Nat
  /\ acked \subseteq Prefixes
  /\ late \subseteq Requests
  /\ sighup \in BOOLEAN
  /\ RowsOK /\ CacheOK /\ ReqOK /\ ReqShape /\ MintOK /\ RevOK

\* The cache never holds more than cache_capacity entries (one, when the
\* capacity is configured as 0: insert finds nothing to evict and goes on).
CacheBounded ==
  Cardinality(DOMAIN cache) <= IF Capacity = 0 THEN 1 ELSE Capacity

\* A copy of the row of p that may only be missing a later revocation.
Copy(row, p) ==
  /\ p \in DOMAIN rows
  /\ row.hash = rows[p].hash
  /\ row.expires = rows[p].expires
  /\ row.revokedAt \in {Never, rows[p].revokedAt}

Stale(row, p) == row.revokedAt = Never /\ rows[p].revokedAt # Never

\* Whatever the cache serves under a prefix is the row SQLite holds for it,
\* except that a later revocation may be missing from the copy.
CacheMatchesStore == \A p \in DOMAIN cache : Copy(cache[p].row, p)

ReqPrefix(r) == PrefixOf[req[r].wire]

\* Only the holder of the very wire that was minted under its prefix is let
\* in: a wire that merely shares the prefix of a live (or cached) token never.
AcceptedWasMinted ==
  \A r \in Requests :
    req[r].verdict = "accepted" =>
      ReqPrefix(r) \in DOMAIN rows /\ rows[ReqPrefix(r)].hash = req[r].wire

\* A request may be answered from a copy that is older than a revocation at t
\* only if it began before t, or in the TTL (plus one lookup) after it.
WithinTTL(start, t) == start <= t \/ start < t + TTL + MaxLookup

\* The staleness bound behind "the TTL is the fallback": a token revoked at
\* time t by whatever path is refused to every request that begins TTL (plus
\* the longest lookup that was in flight) after t.
StaleBoundedByTTL ==
  \A r \in Requests :
    req[r].verdict = "accepted" /\ rows[ReqPrefix(r)].revokedAt # Never =>
      WithinTTL(req[r].start, rows[ReqPrefix(r)].revokedAt)

\* "Effective on the very next request": a request that begins after a
\* revocation was reported effective is never accepted under that prefix.
RevokeEffectiveNextRequest ==
  \A r \in late : req[r].verdict # "accepted"

\* What makes the bound inductive: rows in the hands of a lookup are copies
\* too, and a stale copy was read, cached or hit within its time.
InFlightMatchesStore ==
  \A r \in Requests :
    req[r].pc \in {"fill", "decide"} => Copy(req[r].row, ReqPrefix(r))

ClockOrder ==
  /\ \A p \in DOMAIN rows : rows[p].revokedAt <= now
  /\ \A p \in DOMAIN cache : cache[p].insertedAt <= now
  /\ \A r \in Requests :
       /\ req[r].start <= now
       /\ req[r].pc \in {"read", "fill", "decide"} => now <= req[r].start + MaxLookup

StaleAges ==
  /\ \A p \in DOMAIN cache :
       Stale(cache[p].row, p) =>
         cache[p].insertedAt <= rows[p].revokedAt + MaxLookup
  /\ \A r \in Requests :
       /\ req[r].pc = "fill" /\ Stale(req[r].row, ReqPrefix(r)) =>
            req[r].start <= rows[ReqPrefix(r)].revokedAt
       /\ req[r].pc = "decide" /\ Stale(req[r].row, ReqPrefix(r)) =>
            WithinTTL(req[r].start, rows[ReqPrefix(r)].revokedAt)

StaleInv ==
  /\ TypeOK
  /\ CacheMatchesStore
  /\ InFlightMatchesStore
  /\ ClockOrder
  /\ StaleAges
  /\ AcceptedWasMinted
  /\ StaleBoundedByTTL

\* A stored row is never replaced or deleted, a revocation is never undone
\* and its timestamp never moves.
RowsOnlyRevoke ==
  [][\A p \in DOMAIN rows :
       /\ p \in DOMAIN rows'
       /\ rows'[p].hash = rows[p].hash
       /\ rows'[p].expires = rows[p].expires
       /\ rows[p].revokedAt # Never => rows'[p] = rows[p]]_vars

\* Using the cache pushes out at most one entry, and a live one only when
\* every other entry is live and was used later.
EvictionSparesLive ==
  [][counter' # counter =>
       LET gone == DOMAIN cache \ DOMAIN cache' IN
       /\ Cardinality(gone) <= 1
       /\ \A p \in gone : Fresh(cache[p]) =>
            \A q \in DOMAIN cache \ {p} :
              Fresh(cache[q]) /\ cache[q].lastUsed > cache[p].lastUsed]_vars

=============================================================================
