--------------------------- MODULE TokenAuthProofs ---------------------------
(***************************************************************************)
(* Proofs about TokenAuth, for every set of tokens, requests and revokers, *)
(* every cache size and every TTL.                                         *)
(***************************************************************************)
EXTENDS TokenAuth, TLAPS, FiniteSetTheorems

(* What adding one key to a partial function, and dropping some, returns:  *)
(* the shape of every change to the cache (insert, get, invalidate, clear) *)
(* and of the INSERT into client_tokens.                                   *)
LEMMA PutFacts ==
  ASSUME NEW S, NEW c, Table(c, S), NEW p \in Prefixes, NEW e \in S
  PROVE  /\ DOMAIN Put(c, p, e) = DOMAIN c \cup {p}
         /\ Table(Put(c, p, e), S)
         /\ Put(c, p, e)[p] = e
         /\ \A q \in DOMAIN c : q # p => Put(c, p, e)[q] = c[q]
  BY DEF Put, Table

LEMMA DropFacts ==
  ASSUME NEW S, NEW c, Table(c, S), NEW P
  PROVE  /\ DOMAIN Drop(c, P) = DOMAIN c \ P
         /\ Table(Drop(c, P), S)
         /\ \A q \in DOMAIN c \ P : Drop(c, P)[q] = c[q]
  BY DEF Drop, Table

(* insert continues with the cache itself or with it less some entries.    *)
LEMMA MakeRoomFacts ==
  ASSUME NEW S, NEW c, Table(c, S), NEW p, NEW room \in MakeRoom(c, p)
  PROVE  /\ DOMAIN room \subseteq DOMAIN c
         /\ Table(room, S)
         /\ \A q \in DOMAIN room : room[q] = c[q]
<1>1. CASE room = c
  BY <1>1
<1>2. CASE room # c
  <2>1. PICK v \in Victims(c) : room = Drop(c, {v})
    BY <1>2 DEF MakeRoom
  <2>2. /\ DOMAIN Drop(c, {v}) = DOMAIN c \ {v}
        /\ Table(Drop(c, {v}), S)
        /\ \A q \in DOMAIN c \ {v} : Drop(c, {v})[q] = c[q]
    BY DropFacts
  <2> QED BY <2>1, <2>2, Zenon
<1> QED BY <1>1, <1>2

(* The table a revocation leaves: only revokedAt of live targets moves.    *)
LEMMA RevokedFacts ==
  ASSUME RowsOK, now \in Time, NEW P
  PROVE  /\ DOMAIN Revoked(P) = DOMAIN rows
         /\ Table(Revoked(P), Row)
         /\ \A p \in DOMAIN rows :
              /\ Revoked(P)[p].hash = rows[p].hash
              /\ Revoked(P)[p].expires = rows[p].expires
              /\ rows[p].revokedAt # Never => Revoked(P)[p] = rows[p]
              /\ rows[p].revokedAt = Never =>
                   Revoked(P)[p].revokedAt \in {Never, now}
  BY DEF Revoked, RowsOK, Row, Table

(* A row, an entry found under its prefix.                                 *)
LEMMA TableElement ==
  ASSUME NEW S, NEW c, Table(c, S), NEW p \in DOMAIN c
  PROVE  p \in Prefixes /\ c[p] \in S
  BY DEF Table

-----------------------------------------------------------------------------
(* TypeOK holds at the start and every action of the proxy and the console *)
(* preserves it.                                                           *)
LEMMA TypeInit == Init => TypeOK
<1> SUFFICES ASSUME Init PROVE TypeOK
  OBVIOUS
<1>1. RowsOK /\ CacheOK
  BY DEF Init, RowsOK, CacheOK, Table
<1>2. ReqOK
  BY ConstantsAssumption DEF Init, ReqOK, Request, Verdicts, Time
<1>3. ReqShape
  BY DEF Init, ReqShape
<1>4. MintOK
  BY DEF Init, MintOK, Mint, MaxMintAttempts
<1>5. RevOK
  BY DEF Init, RevOK, Revocation
<1>6. now \in Time /\ counter \in Nat
  BY ConstantsAssumption DEF Init, Time
<1> QED BY <1>1, <1>2, <1>3, <1>4, <1>5, <1>6 DEF Init, TypeOK

LEMMA TypeNext == TypeOK /\ [Next]_vars => TypeOK'
<1> SUFFICES ASSUME TypeOK, [Next]_vars PROVE TypeOK'
  OBVIOUS
<1>0. /\ now \in Time /\ now \in Nat /\ counter + 1 \in Nat
      /\ RowsOK /\ CacheOK /\ ReqOK /\ ReqShape /\ MintOK /\ RevOK
  BY ConstantsAssumption DEF TypeOK, Time
<1>1. CASE Tick
  BY <1>1, ConstantsAssumption
     DEF Tick, TypeOK, Time, RowsOK, CacheOK, ReqOK, ReqShape, MintOK, RevOK
<1>2. CASE SighupReload
  BY <1>2 DEF SighupReload, TypeOK, RowsOK, CacheOK, ReqOK, ReqShape, MintOK, RevOK
<1>3. ASSUME NEW r \in Requests, Refuse(r) PROVE TypeOK'
  <2>1. ReqOK'
    BY <1>0, <1>3 DEF Refuse, ReqOK, Request, Verdicts
  <2>2. ReqShape'
    BY <1>0, <1>3 DEF Refuse, ReqOK, ReqShape
  <2> QED BY <1>3, <2>1, <2>2 DEF Refuse, TypeOK, RowsOK, CacheOK, MintOK, RevOK
<1>4. ASSUME NEW r \in Requests, NEW w \in Wires, GetHit(r, w) PROVE TypeOK'
  <2> DEFINE p == PrefixOf[w]
  <2>1. p \in DOMAIN cache /\ cache[p] \in Entry /\ p \in Prefixes
    BY <1>0, <1>4, TableElement DEF GetHit, CacheOK
  <2>2. [cache[p] EXCEPT !.lastUsed = counter + 1] \in Entry
    BY <2>1, <1>0 DEF Entry
  <2>3. CacheOK'
    BY <1>4, <2>1, <2>2, <1>0, PutFacts DEF GetHit, Touch, CacheOK
  <2>4. cache[p].row \in Row
    BY <2>1 DEF Entry
  <2>5. ReqOK'
    BY <1>4, <1>0, <2>4 DEF GetHit, Begin, ReqOK, Request, Verdicts
  <2>6. ReqShape'
    BY <1>4, <1>0, <2>4 DEF GetHit, Begin, ReqOK, ReqShape, Request
  <2> QED BY <1>4, <1>0, <2>3, <2>5, <2>6
       DEF GetHit, LateIf, TypeOK, RowsOK, MintOK, RevOK
<1>5. ASSUME NEW r \in Requests, NEW w \in Wires, GetMiss(r, w) PROVE TypeOK'
  <2>1. CacheOK'
    BY <1>5, <1>0, DropFacts DEF GetMiss, CacheOK
  <2>2. ReqOK'
    BY <1>5, <1>0 DEF GetMiss, Begin, ReqOK, Request, Verdicts
  <2>3. ReqShape'
    BY <1>5, <1>0 DEF GetMiss, Begin, ReqOK, ReqShape, Request
  <2> QED BY <1>5, <2>1, <2>2, <2>3
       DEF GetMiss, LateIf, TypeOK, RowsOK, MintOK, RevOK
<1>6. ASSUME NEW r \in Requests, ReadAbsent(r) \/ ReadError(r) \/ Decide(r)
      PROVE  TypeOK'
  <2>1. ReqOK'
    BY <1>6, <1>0 DEF ReadAbsent, ReadError, Decide, ReqOK, Request, Verdicts
  <2>2. ReqShape'
    BY <1>6, <1>0 DEF ReadAbsent, ReadError, Decide, ReqOK, ReqShape, Request
  <2> QED BY <1>6, <2>1, <2>2
       DEF ReadAbsent, ReadError, Decide, TypeOK, RowsOK, CacheOK, MintOK, RevOK
<1>7. ASSUME NEW r \in Requests, ReadRow(r) PROVE TypeOK'
  <2> DEFINE p == PrefixOf[req[r].wire]
  <2>1. rows[p] \in Row
    BY <1>7, <1>0, TableElement DEF ReadRow, RowsOK
  <2>2. ReqOK'
    BY <1>7, <1>0, <2>1 DEF ReadRow, ReqOK, Request
  <2>3. ReqShape'
    BY <1>7, <1>0, <2>1 DEF ReadRow, ReqOK, ReqShape, Request
  <2> QED BY <1>7, <2>2, <2>3 DEF ReadRow, TypeOK, RowsOK, CacheOK, MintOK, RevOK
<1>8. ASSUME NEW r \in Requests, Fill(r) PROVE TypeOK'
  <2> DEFINE p == PrefixOf[req[r].wire]
             e == [row |-> req[r].row, insertedAt |-> now, lastUsed |-> counter + 1]
  <2>1. PICK room \in MakeRoom(cache, p) : cache' = Put(room, p, e)
    BY <1>8 DEF Fill
  <2>2. req[r].wire \in Wires /\ req[r].row \in Row
    BY <1>0, <1>8 DEF Fill, ReqShape
  <2>3. p \in Prefixes /\ e \in Entry
    BY <1>0, <2>2, ConstantsAssumption DEF Entry
  <2>4. CacheOK'
    BY <1>0, <2>1, <2>3, MakeRoomFacts, PutFacts DEF CacheOK
  <2>5. ReqOK'
    BY <1>0, <1>8 DEF Fill, ReqOK, Request
  <2>6. ReqShape'
    BY <1>0, <1>8 DEF Fill, ReqOK, ReqShape, Request
  <2> QED BY <1>0, <1>8, <2>4, <2>5, <2>6 DEF Fill, TypeOK, RowsOK, MintOK, RevOK
<1>9. ASSUME NEW m \in Minters, NEW w \in Wires, NEW u \in Users,
             NEW x \in Expiries, MintInsert(m, w, u, x)
      PROVE  TypeOK'
  <2> DEFINE p == PrefixOf[w]
             row == [hash |-> w, user |-> u, expires |-> x, revokedAt |-> Never]
  <2>1. row \in Row /\ p \in Prefixes
    BY ConstantsAssumption DEF Row
  <2>2. RowsOK'
    BY <1>9, <1>0, <2>1, PutFacts DEF MintInsert, RowsOK
  <2>3. MintOK'
    BY <1>9, <1>0 DEF MintInsert, MintOK, Mint
  <2> QED BY <1>9, <2>2, <2>3
       DEF MintInsert, TypeOK, CacheOK, ReqOK, ReqShape, RevOK
<1>10. ASSUME NEW m \in Minters,
              MintFail(m) \/ \E w \in Wires : MintCollision(m, w)
       PROVE  TypeOK'
  <2>1. MintOK'
    BY <1>10, <1>0 DEF MintFail, MintCollision, MintOK, Mint, MaxMintAttempts
  <2> QED BY <1>10, <2>1
       DEF MintFail, MintCollision, TypeOK, RowsOK, CacheOK, ReqOK, ReqShape, RevOK
<1>11. ASSUME NEW v \in Revokers,
              \/ \E p \in Prefixes : AdminRevoke(v, p) \/ ConsoleRevoke(v, p)
              \/ \E u \in Users : ConsoleRevokeAll(v, u)
       PROVE  TypeOK'
  <2>1. RowsOK'
    BY <1>11, <1>0, RevokedFacts
       DEF AdminRevoke, ConsoleRevoke, ConsoleRevokeAll, RowsOK
  <2>2. RevOK'
    <3>1. PICK P \in SUBSET Prefixes, next \in {"invalidate", "notify"} :
            rev' = [rev EXCEPT ![v].pc = next, ![v].targets = P]
      BY <1>11, <1>0 DEF AdminRevoke, ConsoleRevoke, ConsoleRevokeAll, RowsOK, Table
    <3> QED BY <3>1, <1>0 DEF RevOK, Revocation
  <2> QED BY <1>11, <2>1, <2>2
       DEF AdminRevoke, ConsoleRevoke, ConsoleRevokeAll, TypeOK, CacheOK, ReqOK,
           ReqShape, MintOK
<1>12. ASSUME NEW v \in Revokers, RevokeFail(v) \/ RevokerStep(v) PROVE TypeOK'
  <2> USE DEF RevokerStep, AdminInvalidate, SocketSend, SocketFlush, SocketOk,
              NotifyFail, SighupSend, RevokeFail
  <2>1. RevOK'
    BY <1>12, <1>0 DEF RevOK, Revocation
  <2>2. CacheOK'
    <3>1. CASE AdminInvalidate(v)
      BY <3>1, <1>0, DropFacts DEF CacheOK
    <3>2. CASE SocketFlush(v)
      BY <3>2, <1>0, DropFacts DEF CacheOK
    <3> QED BY <3>1, <3>2, <1>12, <1>0 DEF CacheOK
  <2>3. rev[v].targets \subseteq Prefixes
    BY <1>0 DEF RevOK, Revocation
  <2> QED BY <1>12, <2>1, <2>2, <2>3 DEF TypeOK, RowsOK, ReqOK, ReqShape, MintOK
<1>13. CASE UNCHANGED vars
  BY <1>13 DEF vars, TypeOK, RowsOK, CacheOK, ReqOK, ReqShape, MintOK, RevOK
<1> QED
  BY <1>1, <1>2, <1>3, <1>4, <1>5, <1>6, <1>7, <1>8, <1>9, <1>10, <1>11,
     <1>12, <1>13 DEF Next, RequestStep

(* The states of TokenAuth are well typed: in particular a row that was    *)
(* read, cached or decided upon is a complete client_tokens row.           *)
THEOREM TypeCorrect == Spec => []TypeOK
  BY TypeInit, TypeNext, PTL DEF Spec

-----------------------------------------------------------------------------
(* The parts of StaleInv that an action can disturb.                       *)
Ages == CacheMatchesStore /\ InFlightMatchesStore /\ ClockOrder /\ StaleAges
        /\ AcceptedWasMinted /\ StaleBoundedByTTL

LEMMA Numbers ==
  ASSUME TypeOK
  PROVE  /\ now \in Nat /\ TTL \in Nat /\ MaxLookup \in Nat /\ Never = -1
         /\ \A p \in DOMAIN rows : rows[p] \in Row /\ rows[p].revokedAt \in Int
         /\ \A p \in DOMAIN cache :
              /\ cache[p] \in Entry /\ cache[p].row \in Row
              /\ cache[p].insertedAt \in Nat
         /\ \A r \in Requests : req[r] \in Request /\ req[r].start \in Nat
<1> USE ConstantsAssumption
<1>1. now \in Nat /\ TTL \in Nat /\ MaxLookup \in Nat /\ Never = -1
  BY DEF TypeOK, Time, Never
<1>2. RowsOK /\ CacheOK /\ ReqOK
  BY DEF TypeOK
<1>3. \A p \in DOMAIN rows : rows[p] \in Row /\ rows[p].revokedAt \in Int
  <2> TAKE p \in DOMAIN rows
  <2>1. rows[p] \in Row
    BY <1>2, TableElement DEF RowsOK
  <2> QED BY <2>1 DEF Row, Time, Never
<1>4. \A p \in DOMAIN cache :
        /\ cache[p] \in Entry /\ cache[p].row \in Row
        /\ cache[p].insertedAt \in Nat
  <2> TAKE p \in DOMAIN cache
  <2>1. cache[p] \in Entry
    BY <1>2, TableElement DEF CacheOK
  <2> QED BY <2>1 DEF Entry, Time
<1>5. \A r \in Requests : req[r] \in Request /\ req[r].start \in Nat
  BY <1>2 DEF ReqOK, Request, Time
<1> QED BY <1>1, <1>3, <1>4, <1>5

(* Steps that leave the clock, the table and the requests alone, and at    *)
(* most drop cache entries: invalidate, clear, the socket and the signal,  *)
(* failed mints and failed revocations.                                    *)
LEMMA DropKeepsAges ==
  ASSUME TypeOK, Ages, UNCHANGED <<now, rows, req>>,
         DOMAIN cache' \subseteq DOMAIN cache,
         \A q \in DOMAIN cache' : cache'[q] = cache[q]
  PROVE  Ages'
<1>1. CacheMatchesStore'
  BY DEF Ages, CacheMatchesStore, Copy
<1>2. InFlightMatchesStore' /\ AcceptedWasMinted' /\ StaleBoundedByTTL'
  BY DEF Ages, InFlightMatchesStore, AcceptedWasMinted, StaleBoundedByTTL, Copy,
         ReqPrefix, WithinTTL
<1>3. ClockOrder' /\ StaleAges'
  BY DEF Ages, ClockOrder, StaleAges, Stale, ReqPrefix, WithinTTL
<1> QED BY <1>1, <1>2, <1>3 DEF Ages

(* A revocation happens now, and nothing was read, cached or begun later.  *)
LEMMA RevokeKeepsAges ==
  ASSUME TypeOK, Ages, UNCHANGED <<now, cache, req>>, NEW P, rows' = Revoked(P)
  PROVE  Ages'
<1>1. /\ DOMAIN rows' = DOMAIN rows
      /\ \A p \in DOMAIN rows :
           /\ rows'[p].hash = rows[p].hash
           /\ rows'[p].expires = rows[p].expires
           /\ rows[p].revokedAt # Never => rows'[p] = rows[p]
           /\ rows[p].revokedAt = Never => rows'[p].revokedAt \in {Never, now}
  BY RevokedFacts DEF TypeOK
<1>2. CacheMatchesStore' /\ InFlightMatchesStore'
  BY <1>1 DEF Ages, CacheMatchesStore, InFlightMatchesStore, Copy, ReqPrefix
<1>3. AcceptedWasMinted'
  BY <1>1 DEF Ages, AcceptedWasMinted, ReqPrefix
<1>4. ClockOrder'
  BY <1>1, Numbers DEF Ages, ClockOrder
<1>5. StaleAges'
  <2>1. \A p \in DOMAIN cache :
          Stale(cache[p].row, p)' => cache[p].insertedAt <= rows'[p].revokedAt + MaxLookup
    BY <1>1, Numbers DEF Ages, StaleAges, Stale, ClockOrder, CacheMatchesStore, Copy
  <2>2. \A r \in Requests :
          /\ req[r].pc = "fill" /\ Stale(req[r].row, ReqPrefix(r))' =>
               req[r].start <= rows'[ReqPrefix(r)].revokedAt
          /\ req[r].pc = "decide" /\ Stale(req[r].row, ReqPrefix(r))' =>
               WithinTTL(req[r].start, rows'[ReqPrefix(r)].revokedAt)
    BY <1>1, Numbers DEF Ages, StaleAges, Stale, ClockOrder, InFlightMatchesStore,
       Copy, WithinTTL, ReqPrefix
  <2> QED BY <2>1, <2>2 DEF StaleAges, Stale, ReqPrefix, WithinTTL
<1>6. StaleBoundedByTTL'
  BY <1>1, Numbers DEF Ages, StaleBoundedByTTL, ClockOrder, AcceptedWasMinted,
     WithinTTL, ReqPrefix
<1> QED BY <1>2, <1>3, <1>4, <1>5, <1>6 DEF Ages

(* A request whose own step leaves the table alone: enough to look at that *)
(* request and at the cache entries it wrote.                              *)
LEMMA RequestKeepsAges ==
  ASSUME TypeOK, TypeOK', Ages, UNCHANGED <<now, rows>>, NEW r \in Requests,
         \A q \in Requests : q # r => req'[q] = req[q],
         req'[r].start <= now,
         req'[r].pc \in {"read", "fill", "decide"} => now <= req'[r].start + MaxLookup,
         req'[r].pc \in {"fill", "decide"} => Copy(req'[r].row, ReqPrefix(r)'),
         req'[r].pc = "fill" /\ Stale(req'[r].row, ReqPrefix(r)') =>
           req'[r].start <= rows[ReqPrefix(r)'].revokedAt,
         req'[r].pc = "decide" /\ Stale(req'[r].row, ReqPrefix(r)') =>
           WithinTTL(req'[r].start, rows[ReqPrefix(r)'].revokedAt),
         req'[r].verdict = "accepted" =>
           /\ ReqPrefix(r)' \in DOMAIN rows
           /\ rows[ReqPrefix(r)'].hash = req'[r].wire
           /\ rows[ReqPrefix(r)'].revokedAt # Never =>
                WithinTTL(req'[r].start, rows[ReqPrefix(r)'].revokedAt),
         \A p \in DOMAIN cache' :
           \/ p \in DOMAIN cache /\ cache'[p].row = cache[p].row
              /\ cache'[p].insertedAt = cache[p].insertedAt
           \/ /\ Copy(cache'[p].row, p) /\ cache'[p].insertedAt = now
              /\ Stale(cache'[p].row, p) => now <= rows[p].revokedAt + MaxLookup
  PROVE  Ages'
<1>1. CacheMatchesStore'
  BY DEF Ages, CacheMatchesStore, Copy
<1>2. InFlightMatchesStore'
  BY DEF Ages, InFlightMatchesStore, Copy, ReqPrefix
<1>3. AcceptedWasMinted'
  BY DEF Ages, AcceptedWasMinted, ReqPrefix
<1>4. ClockOrder'
  <2>1. \A p \in DOMAIN cache' : cache'[p].insertedAt <= now
    BY Numbers DEF Ages, ClockOrder
  <2> QED BY <2>1, Numbers DEF Ages, ClockOrder
<1>5. StaleAges'
  <2>1. \A p \in DOMAIN cache' :
          Stale(cache'[p].row, p) => cache'[p].insertedAt <= rows[p].revokedAt + MaxLookup
    BY DEF Ages, StaleAges, Stale
  <2>2. \A q \in Requests :
          /\ req'[q].pc = "fill" /\ Stale(req'[q].row, ReqPrefix(q)') =>
               req'[q].start <= rows[ReqPrefix(q)'].revokedAt
          /\ req'[q].pc = "decide" /\ Stale(req'[q].row, ReqPrefix(q)') =>
               WithinTTL(req'[q].start, rows[ReqPrefix(q)'].revokedAt)
    BY DEF Ages, StaleAges, ReqPrefix
  <2> QED BY <2>1, <2>2 DEF StaleAges, Stale, WithinTTL
<1>6. StaleBoundedByTTL'
  BY DEF Ages, StaleBoundedByTTL, ReqPrefix, WithinTTL
<1> QED BY <1>1, <1>2, <1>3, <1>4, <1>5, <1>6 DEF Ages

(* A freshly minted row is not revoked and no copy of it exists yet.       *)
LEMMA MintKeepsAges ==
  ASSUME TypeOK, Ages, NEW m \in Minters, NEW w \in Wires, NEW u \in Users,
         NEW x \in Expiries, MintInsert(m, w, u, x)
  PROVE  Ages'
<1> DEFINE p == PrefixOf[w]
           row == [hash |-> w, user |-> u, expires |-> x, revokedAt |-> Never]
<1>1. row \in Row /\ row.revokedAt = Never /\ p \in Prefixes /\ RowsOK
  BY ConstantsAssumption DEF Row, TypeOK
<1>a. rows' = Put(rows, p, row) /\ p \notin DOMAIN rows
  BY DEF MintInsert
<1> HIDE DEF row
<1>2. /\ DOMAIN rows' = DOMAIN rows \cup {p} /\ p \notin DOMAIN rows
      /\ rows'[p].revokedAt = Never
      /\ \A q \in DOMAIN rows : rows'[q] = rows[q]
  <2>2. /\ DOMAIN Put(rows, p, row) = DOMAIN rows \cup {p}
        /\ Put(rows, p, row)[p] = row
        /\ \A q \in DOMAIN rows : q # p => Put(rows, p, row)[q] = rows[q]
    BY <1>1, PutFacts DEF RowsOK
  <2> QED BY <1>1, <1>a, <2>2
<1>3. UNCHANGED <<now, cache, req>>
  BY DEF MintInsert
<1>4. CacheMatchesStore' /\ InFlightMatchesStore' /\ AcceptedWasMinted'
  BY <1>2, <1>3 DEF Ages, CacheMatchesStore, InFlightMatchesStore,
     AcceptedWasMinted, Copy, ReqPrefix
<1>5. ClockOrder'
  BY <1>2, <1>3, Numbers DEF Ages, ClockOrder
<1>6. StaleAges' /\ StaleBoundedByTTL'
  BY <1>2, <1>3 DEF Ages, StaleAges, StaleBoundedByTTL, CacheMatchesStore,
     InFlightMatchesStore, AcceptedWasMinted, Copy, Stale, ReqPrefix, WithinTTL
<1> QED BY <1>4, <1>5, <1>6 DEF Ages

LEMMA AgesNext ==
  ASSUME TypeOK, TypeOK', Ages, [Next]_vars
  PROVE  Ages'
<1> USE DEF ReqPrefix
<1>0. /\ RowsOK /\ CacheOK /\ ReqOK /\ ReqShape
      /\ CacheMatchesStore /\ InFlightMatchesStore /\ ClockOrder /\ StaleAges
      /\ AcceptedWasMinted /\ StaleBoundedByTTL
  BY DEF TypeOK, Ages
<1>1. CASE Tick
  <2>1. UNCHANGED <<rows, cache, req>> /\ now' = now + 1
        /\ \A r \in BusyRequests : now < req[r].start + MaxLookup
    BY <1>1 DEF Tick
  <2>2. ClockOrder'
    BY <2>1, <1>0, Numbers DEF ClockOrder, BusyRequests
  <2> QED BY <2>1, <2>2 DEF Ages, CacheMatchesStore, InFlightMatchesStore, StaleAges,
       AcceptedWasMinted, StaleBoundedByTTL, Copy, Stale, WithinTTL
<1>2. ASSUME NEW r \in Requests, Refuse(r) PROVE Ages'
  BY <1>2, <1>0, Numbers, RequestKeepsAges DEF Refuse, ReqOK
<1>3. ASSUME NEW r \in Requests, NEW w \in Wires, GetHit(r, w) PROVE Ages'
  <2> DEFINE p == PrefixOf[w]
  <2>1. p \in DOMAIN cache /\ cache[p] \in Entry /\ p \in Prefixes
    BY <1>0, <1>3, TableElement DEF GetHit, CacheOK
  <2> DEFINE e == [cache[p] EXCEPT !.lastUsed = counter + 1]
  <2>2. /\ e \in Entry /\ e.row = cache[p].row
        /\ e.insertedAt = cache[p].insertedAt
    BY <2>1 DEF Entry, TypeOK
  <2>a. cache' = Put(cache, p, e)
    BY <1>3 DEF GetHit, Touch
  <2> HIDE DEF e
  <2>3. /\ cache'[p].row = cache[p].row /\ cache'[p].insertedAt = cache[p].insertedAt
        /\ \A q \in DOMAIN cache : q # p => cache'[q] = cache[q]
        /\ DOMAIN cache' = DOMAIN cache
    <3>1. /\ DOMAIN Put(cache, p, e) = DOMAIN cache \cup {p}
          /\ Put(cache, p, e)[p] = e
          /\ \A q \in DOMAIN cache : q # p => Put(cache, p, e)[q] = cache[q]
      BY <1>0, <2>1, <2>2, PutFacts DEF CacheOK
    <3> QED BY <2>1, <2>2, <2>a, <3>1
  <2>4. /\ req'[r].pc = "decide" /\ req'[r].wire = w /\ req'[r].row = cache[p].row
        /\ req'[r].start = now /\ req'[r].verdict = req[r].verdict
        /\ \A q \in Requests : q # r => req'[q] = req[q]
    BY <1>0, <1>3 DEF GetHit, Begin, ReqOK, Request
  <2>5. Copy(cache[p].row, p) /\ Fresh(cache[p])
    BY <1>0, <1>3, <2>1 DEF GetHit, CacheMatchesStore
  <2>6. Stale(cache[p].row, p) => WithinTTL(now, rows[p].revokedAt)
    BY <1>0, <2>1, <2>5, Numbers DEF StaleAges, WithinTTL, Fresh, Copy
  <2>7. req[r].verdict # "accepted"
    BY <1>0, <1>3 DEF GetHit, ReqShape
  <2>8. UNCHANGED <<now, rows>>
    BY <1>3 DEF GetHit
  <2> QED BY <2>3, <2>4, <2>5, <2>6, <2>7, <2>8, Numbers, RequestKeepsAges
<1>4. ASSUME NEW r \in Requests, NEW w \in Wires, GetMiss(r, w) PROVE Ages'
  <2>1. /\ req'[r].pc = "read" /\ req'[r].start = now
        /\ req'[r].verdict = req[r].verdict
        /\ \A q \in Requests : q # r => req'[q] = req[q]
    BY <1>0, <1>4 DEF GetMiss, Begin, ReqOK, Request
  <2>2. DOMAIN cache' \subseteq DOMAIN cache /\ \A q \in DOMAIN cache' : cache'[q] = cache[q]
    <3> DEFINE P == {PrefixOf[w]}
    <3>a. cache' = Drop(cache, P)
      BY <1>4 DEF GetMiss
    <3> HIDE DEF P
    <3>1. /\ DOMAIN Drop(cache, P) = DOMAIN cache \ P
          /\ \A q \in DOMAIN cache \ P : Drop(cache, P)[q] = cache[q]
      BY <1>0, DropFacts DEF CacheOK
    <3> QED BY <3>a, <3>1
  <2>3. req[r].verdict # "accepted"
    BY <1>0, <1>4 DEF GetMiss, ReqShape
  <2>4. UNCHANGED <<now, rows>>
    BY <1>4 DEF GetMiss
  <2> QED BY <2>1, <2>2, <2>3, <2>4, Numbers, RequestKeepsAges
<1>5. ASSUME NEW r \in Requests, ReadAbsent(r) \/ ReadError(r) PROVE Ages'
  <2>1. /\ req'[r].pc = "done" /\ req'[r].start = req[r].start
        /\ req'[r].verdict # "accepted"
        /\ \A q \in Requests : q # r => req'[q] = req[q]
    BY <1>0, <1>5 DEF ReadAbsent, ReadError, ReqOK, Request
  <2>2. UNCHANGED <<now, rows, cache>>
    BY <1>5 DEF ReadAbsent, ReadError
  <2> QED BY <1>0, <2>1, <2>2, RequestKeepsAges DEF ClockOrder
<1>6. ASSUME NEW r \in Requests, ReadRow(r) PROVE Ages'
  <2> DEFINE p == PrefixOf[req[r].wire]
  <2>1. /\ req'[r].pc = "fill" /\ req'[r].start = req[r].start
        /\ req'[r].wire = req[r].wire /\ req'[r].row = rows[p]
        /\ req'[r].verdict = req[r].verdict
        /\ \A q \in Requests : q # r => req'[q] = req[q]
    BY <1>0, <1>6 DEF ReadRow, ReqOK, Request
  <2>2. UNCHANGED <<now, rows, cache>> /\ p \in DOMAIN rows /\ req[r].pc = "read"
    BY <1>6 DEF ReadRow
  <2>3. Copy(rows[p], p) /\ ~ Stale(rows[p], p)
    BY <2>2 DEF Copy, Stale
  <2>4. req[r].verdict # "accepted"
    BY <1>0, <2>2 DEF ReqShape
  <2> QED BY <1>0, <2>1, <2>2, <2>3, <2>4, RequestKeepsAges DEF ClockOrder
<1>7. ASSUME NEW r \in Requests, Fill(r) PROVE Ages'
  <2> DEFINE p == PrefixOf[req[r].wire]
             e == [row |-> req[r].row, insertedAt |-> now, lastUsed |-> counter + 1]
  <2>1. PICK room \in MakeRoom(cache, p) : cache' = Put(room, p, e)
    BY <1>7 DEF Fill
  <2>2. req[r].wire \in Wires /\ req[r].row \in Row /\ p \in Prefixes
        /\ req[r].verdict # "accepted"
    BY <1>0, <1>7, ConstantsAssumption DEF Fill, ReqShape
  <2>3. e \in Entry /\ e.row = req[r].row /\ e.insertedAt = now
    BY <2>2 DEF Entry, TypeOK
  <2> HIDE DEF e
  <2>4. /\ DOMAIN room \subseteq DOMAIN cache /\ Table(room, Entry)
        /\ \A q \in DOMAIN room : room[q] = cache[q]
    BY <1>0, <2>1, MakeRoomFacts DEF CacheOK
  <2>5. /\ DOMAIN cache' = DOMAIN room \cup {p} /\ cache'[p] = e
        /\ \A q \in DOMAIN room : q # p => cache'[q] = room[q]
    <3>1. /\ DOMAIN Put(room, p, e) = DOMAIN room \cup {p}
          /\ Put(room, p, e)[p] = e
          /\ \A q \in DOMAIN room : q # p => Put(room, p, e)[q] = room[q]
      BY DEF Put
    <3> QED BY <2>1, <3>1
  <2>6. /\ req'[r].pc = "decide" /\ req'[r].start = req[r].start
        /\ req'[r].wire = req[r].wire /\ req'[r].row = req[r].row
        /\ req'[r].verdict = req[r].verdict
        /\ \A q \in Requests : q # r => req'[q] = req[q]
    BY <1>0, <1>7 DEF Fill, ReqOK, Request
  <2>7. UNCHANGED <<now, rows>> /\ req[r].pc = "fill"
    BY <1>7 DEF Fill
  <2>8. Copy(req[r].row, p) /\ (Stale(req[r].row, p) => req[r].start <= rows[p].revokedAt)
    BY <1>0, <2>7 DEF InFlightMatchesStore, StaleAges
  <2>9. req[r].start <= now /\ now <= req[r].start + MaxLookup
    BY <1>0, <2>7 DEF ClockOrder
  <2>10. Stale(req[r].row, p) => now <= rows[p].revokedAt + MaxLookup
    BY <2>8, <2>9, Numbers DEF Copy
  <2>11. Stale(req[r].row, p) => WithinTTL(req[r].start, rows[p].revokedAt)
    BY <2>8 DEF WithinTTL
  <2> QED BY <2>2, <2>3, <2>4, <2>5, <2>6, <2>7, <2>8, <2>9, <2>10, <2>11,
       RequestKeepsAges
<1>8. ASSUME NEW r \in Requests, Decide(r) PROVE Ages'
  <2> DEFINE p == PrefixOf[req[r].wire]
  <2>1. /\ req'[r].pc = "done" /\ req'[r].start = req[r].start
        /\ req'[r].wire = req[r].wire
        /\ req'[r].verdict = "accepted" => Admits(req[r].row, req[r].wire)
        /\ \A q \in Requests : q # r => req'[q] = req[q]
    BY <1>0, <1>8 DEF Decide, ReqOK, Request
  <2>2. UNCHANGED <<now, rows, cache>> /\ req[r].pc = "decide"
    BY <1>8 DEF Decide
  <2>3. Copy(req[r].row, p)
        /\ (Stale(req[r].row, p) => WithinTTL(req[r].start, rows[p].revokedAt))
    BY <1>0, <2>2 DEF InFlightMatchesStore, StaleAges
  <2>4. req'[r].verdict = "accepted" =>
          /\ p \in DOMAIN rows /\ rows[p].hash = req'[r].wire
          /\ rows[p].revokedAt # Never => WithinTTL(req'[r].start, rows[p].revokedAt)
    BY <2>1, <2>3 DEF Admits, Copy, Stale
  <2> QED BY <1>0, <2>1, <2>2, <2>4, RequestKeepsAges DEF ClockOrder
<1>9. ASSUME NEW m \in Minters, NEW w \in Wires, NEW u \in Users,
             NEW x \in Expiries, MintInsert(m, w, u, x)
      PROVE  Ages'
  BY <1>9, MintKeepsAges
<1>10. ASSUME NEW v \in Revokers,
              \/ \E p \in Prefixes : AdminRevoke(v, p) \/ ConsoleRevoke(v, p)
              \/ \E u \in Users : ConsoleRevokeAll(v, u)
       PROVE  Ages'
  BY <1>10, RevokeKeepsAges DEF AdminRevoke, ConsoleRevoke, ConsoleRevokeAll
<1>11. ASSUME NEW v \in Revokers, AdminInvalidate(v) \/ SocketFlush(v) PROVE Ages'
  <2>1. PICK P : cache' = Drop(cache, P) /\ UNCHANGED <<now, rows, req>>
    BY <1>11 DEF AdminInvalidate, SocketFlush
  <2>2. DOMAIN cache' \subseteq DOMAIN cache /\ \A q \in DOMAIN cache' : cache'[q] = cache[q]
    <3>1. /\ DOMAIN Drop(cache, P) = DOMAIN cache \ P
          /\ \A q \in DOMAIN cache \ P : Drop(cache, P)[q] = cache[q]
      BY <1>0, DropFacts DEF CacheOK
    <3> QED BY <2>1, <3>1
  <2> QED BY <2>1, <2>2, DropKeepsAges
<1>12. CASE UNCHANGED <<now, rows, cache, req>>
  BY <1>12, DropKeepsAges
<1>13. ASSUME NEW m \in Minters, MintFail(m) \/ \E w \in Wires : MintCollision(m, w)
       PROVE  Ages'
  BY <1>13, <1>12 DEF MintFail, MintCollision
<1>14. ASSUME NEW v \in Revokers,
              \/ RevokeFail(v) \/ SocketSend(v) \/ SocketOk(v)
              \/ NotifyFail(v) \/ SighupSend(v)
       PROVE  Ages'
  BY <1>14, <1>12 DEF RevokeFail, SocketSend, SocketOk, NotifyFail, SighupSend
<1>15. CASE SighupReload \/ UNCHANGED vars
  BY <1>15, <1>12 DEF SighupReload, vars
<1> QED
  BY <1>1, <1>2, <1>3, <1>4, <1>5, <1>6, <1>7, <1>8, <1>9, <1>10, <1>11, <1>13,
     <1>14, <1>15 DEF Next, RequestStep, RevokerStep

(* StaleInv, the strengthening of the staleness bound, is an invariant.    *)
THEOREM StaleInvariant == Spec => []StaleInv
<1>1. Init => StaleInv
  <2> SUFFICES ASSUME Init PROVE StaleInv
    OBVIOUS
  <2>1. TypeOK
    BY TypeInit
  <2> QED BY <2>1, ConstantsAssumption
       DEF Init, StaleInv, CacheMatchesStore, InFlightMatchesStore, ClockOrder,
           StaleAges, AcceptedWasMinted, StaleBoundedByTTL, Time
<1>2. StaleInv /\ [Next]_vars => StaleInv'
  BY TypeNext, AgesNext DEF StaleInv, Ages
<1> QED BY <1>1, <1>2, PTL DEF Spec

(* Whatever the number of workers and however the console reaches the      *)
(* proxy, a revoked token is refused TTL plus one lookup after its         *)
(* revocation, although the cache may have been filled with a stale row.   *)
THEOREM TTLBoundsRevocation == Spec => []StaleBoundedByTTL
<1>1. StaleInv => StaleBoundedByTTL
  BY DEF StaleInv
<1> QED BY <1>1, StaleInvariant, PTL

(* The cache only ever serves rows of client_tokens, and only the minted   *)
(* wire is accepted under its prefix.                                      *)
THEOREM OnlyMintedAccepted == Spec => [](CacheMatchesStore /\ AcceptedWasMinted)
<1>1. StaleInv => CacheMatchesStore /\ AcceptedWasMinted
  BY DEF StaleInv
<1> QED BY <1>1, StaleInvariant, PTL

(* What lookups and the admin API read through the cache is a copy of the  *)
(* stored row, so the cache can never invent or resurrect a token.         *)
THEOREM CacheServesStore == Spec => []CacheMatchesStore
<1>1. StaleInv => CacheMatchesStore
  BY DEF StaleInv
<1> QED BY <1>1, StaleInvariant, PTL

-----------------------------------------------------------------------------
(* The table under one step: `rows' changes by an INSERT under a free      *)
(* prefix or by an UPDATE of revoked_at, and by nothing else.              *)
LEMMA RowsStep ==
  ASSUME TypeOK, [Next]_vars
  PROVE  \/ UNCHANGED rows
         \/ \E P : rows' = Revoked(P)
         \/ \E p \in Prefixes, e \in Row : p \notin DOMAIN rows /\ rows' = Put(rows, p, e)
<1>1. ASSUME NEW m \in Minters, NEW w \in Wires, NEW u \in Users,
             NEW x \in Expiries, MintInsert(m, w, u, x)
      PROVE  \E p \in Prefixes, e \in Row : p \notin DOMAIN rows /\ rows' = Put(rows, p, e)
  <2> DEFINE row == [hash |-> w, user |-> u, expires |-> x, revokedAt |-> Never]
  <2>1. row \in Row /\ PrefixOf[w] \in Prefixes
    BY ConstantsAssumption DEF Row
  <2>2. PrefixOf[w] \notin DOMAIN rows /\ rows' = Put(rows, PrefixOf[w], row)
    BY <1>1 DEF MintInsert
  <2> HIDE DEF row
  <2> QED BY <2>1, <2>2
<1>2. ASSUME NEW v \in Revokers,
             \/ \E p \in Prefixes : AdminRevoke(v, p) \/ ConsoleRevoke(v, p)
             \/ \E u \in Users : ConsoleRevokeAll(v, u)
      PROVE  \E P : rows' = Revoked(P)
  BY <1>2 DEF AdminRevoke, ConsoleRevoke, ConsoleRevokeAll
<1>3. ASSUME NEW r \in Requests,
             \/ Refuse(r) \/ RequestStep(r)
             \/ \E w \in Wires : GetHit(r, w) \/ GetMiss(r, w)
      PROVE  UNCHANGED rows
  BY <1>3 DEF Refuse, GetHit, GetMiss, RequestStep, ReadAbsent, ReadRow, ReadError,
     Fill, Decide
<1>4. ASSUME NEW m \in Minters, MintFail(m) \/ \E w \in Wires : MintCollision(m, w)
      PROVE  UNCHANGED rows
  BY <1>4 DEF MintFail, MintCollision
<1>5. ASSUME NEW v \in Revokers, RevokeFail(v) \/ RevokerStep(v)
      PROVE  UNCHANGED rows
  BY <1>5 DEF RevokeFail, RevokerStep, AdminInvalidate, SocketSend, SocketFlush,
     SocketOk, NotifyFail, SighupSend
<1>6. CASE Tick \/ SighupReload \/ UNCHANGED vars
  BY <1>6 DEF Tick, SighupReload, vars
<1> QED BY <1>1, <1>2, <1>3, <1>4, <1>5, <1>6 DEF Next

(* The same for a single row: it stays, its hash and expiry stay, and once *)
(* it is revoked nothing of it changes.                                    *)
LEMMA RowKept ==
  ASSUME TypeOK, [Next]_vars, NEW p \in DOMAIN rows
  PROVE  /\ p \in DOMAIN rows'
         /\ rows'[p].hash = rows[p].hash
         /\ rows'[p].expires = rows[p].expires
         /\ rows[p].revokedAt # Never => rows'[p] = rows[p]
<1>0. RowsOK /\ now \in Time
  BY DEF TypeOK
<1>1. CASE UNCHANGED rows
  BY <1>1
<1>2. ASSUME NEW P, rows' = Revoked(P)
      PROVE  /\ p \in DOMAIN rows'
             /\ rows'[p].hash = rows[p].hash
             /\ rows'[p].expires = rows[p].expires
             /\ rows[p].revokedAt # Never => rows'[p] = rows[p]
  BY <1>0, <1>2, RevokedFacts
<1>3. ASSUME NEW q \in Prefixes, NEW e \in Row, q \notin DOMAIN rows,
             rows' = Put(rows, q, e)
      PROVE  p \in DOMAIN rows' /\ rows'[p] = rows[p]
  BY <1>3 DEF Put
<1> QED BY <1>1, <1>2, <1>3, RowsStep

(* No step of the proxy, the admin API or the console replaces or deletes  *)
(* a stored token or undoes a revocation, whatever the table holds.        *)
THEOREM RowsNeverReplaced == Spec => RowsOnlyRevoke
<1>1. TypeOK /\ [Next]_vars =>
        [\A p \in DOMAIN rows :
           /\ p \in DOMAIN rows'
           /\ rows'[p].hash = rows[p].hash
           /\ rows'[p].expires = rows[p].expires
           /\ rows[p].revokedAt # Never => rows'[p] = rows[p]]_vars
  BY RowKept
<1> QED BY <1>1, TypeCorrect, PTL DEF Spec, RowsOnlyRevoke

-----------------------------------------------------------------------------
(* The size of the cache and the order of its eviction.                    *)

(* The LRU clock orders the entries: every use got a number of its own.    *)
UseOrder ==
  /\ \A p \in DOMAIN cache : cache[p].lastUsed <= counter
  /\ \A p, q \in DOMAIN cache : p # q => cache[p].lastUsed # cache[q].lastUsed

(* How a step changes the cache: it touches an entry, fills one after      *)
(* making room, or drops some.                                             *)
LEMMA CacheStep ==
  ASSUME TypeOK, [Next]_vars
  PROVE  \/ /\ counter' = counter /\ DOMAIN cache' \subseteq DOMAIN cache
            /\ \A q \in DOMAIN cache' : cache'[q] = cache[q]
         \/ /\ counter' = counter + 1
            /\ \E p \in DOMAIN cache :
                 /\ DOMAIN cache' = DOMAIN cache
                 /\ cache'[p].lastUsed = counter + 1 /\ cache'[p].row = cache[p].row
                 /\ \A q \in DOMAIN cache : q # p => cache'[q] = cache[q]
         \/ /\ counter' = counter + 1
            /\ \E r \in Requests, p \in Prefixes : \E room \in MakeRoom(cache, p) :
                 /\ req[r].pc = "fill" /\ p = ReqPrefix(r)
                 /\ DOMAIN cache' = DOMAIN room \cup {p}
                 /\ cache'[p].lastUsed = counter + 1 /\ cache'[p].row = req[r].row
                 /\ \A q \in DOMAIN room : q # p => cache'[q] = room[q]
<1> DEFINE Dropped == /\ counter' = counter /\ DOMAIN cache' \subseteq DOMAIN cache
                      /\ \A q \in DOMAIN cache' : cache'[q] = cache[q]
<1>0. CacheOK /\ ReqShape /\ now \in Time /\ counter \in Nat
  BY DEF TypeOK
<1>1. ASSUME NEW r \in Requests, NEW w \in Wires, GetHit(r, w)
      PROVE  /\ counter' = counter + 1
             /\ \E p \in DOMAIN cache :
                  /\ DOMAIN cache' = DOMAIN cache
                  /\ cache'[p].lastUsed = counter + 1 /\ cache'[p].row = cache[p].row
                  /\ \A q \in DOMAIN cache : q # p => cache'[q] = cache[q]
  <2> DEFINE p == PrefixOf[w]
             e == [cache[p] EXCEPT !.lastUsed = counter + 1]
  <2>1. p \in DOMAIN cache /\ cache' = Put(cache, p, e) /\ counter' = counter + 1
    BY <1>1 DEF GetHit, Touch
  <2>2. cache[p] \in Entry
    BY <1>0, <2>1, TableElement DEF CacheOK
  <2>3. e.lastUsed = counter + 1 /\ e.row = cache[p].row
    BY <2>2 DEF Entry
  <2> HIDE DEF e
  <2>4. /\ DOMAIN cache' = DOMAIN cache /\ cache'[p] = e
        /\ \A q \in DOMAIN cache : q # p => cache'[q] = cache[q]
    BY <2>1 DEF Put
  <2> QED BY <2>1, <2>3, <2>4
<1>2. ASSUME NEW r \in Requests, Fill(r)
      PROVE  /\ counter' = counter + 1
             /\ \E p \in Prefixes : \E room \in MakeRoom(cache, p) :
                  /\ req[r].pc = "fill" /\ p = ReqPrefix(r)
                  /\ DOMAIN cache' = DOMAIN room \cup {p}
                  /\ cache'[p].lastUsed = counter + 1 /\ cache'[p].row = req[r].row
                  /\ \A q \in DOMAIN room : q # p => cache'[q] = room[q]
  <2> DEFINE p == PrefixOf[req[r].wire]
             e == [row |-> req[r].row, insertedAt |-> now, lastUsed |-> counter + 1]
  <2>1. PICK room \in MakeRoom(cache, p) : cache' = Put(room, p, e)
    BY <1>2 DEF Fill
  <2>2. counter' = counter + 1 /\ req[r].pc = "fill" /\ p = ReqPrefix(r)
    BY <1>2 DEF Fill, ReqPrefix
  <2>3. p \in Prefixes
    BY <1>0, <2>2, ConstantsAssumption DEF ReqShape
  <2>4. e.lastUsed = counter + 1 /\ e.row = req[r].row
    OBVIOUS
  <2> HIDE DEF e
  <2>5. /\ DOMAIN cache' = DOMAIN room \cup {p} /\ cache'[p] = e
        /\ \A q \in DOMAIN room : q # p => cache'[q] = room[q]
    BY <2>1 DEF Put
  <2> QED BY <2>2, <2>3, <2>4, <2>5
<1>3. ASSUME NEW P, counter' = counter, cache' = Drop(cache, P) PROVE Dropped
  BY <1>3 DEF Drop
<1>4. ASSUME NEW r \in Requests, NEW w \in Wires, GetMiss(r, w) PROVE Dropped
  BY <1>3, <1>4 DEF GetMiss
<1>5. ASSUME NEW v \in Revokers, AdminInvalidate(v) \/ SocketFlush(v) PROVE Dropped
  BY <1>3, <1>5 DEF AdminInvalidate, SocketFlush
<1>6. CASE UNCHANGED <<cache, counter>>
  BY <1>6
<1>7. ASSUME NEW r \in Requests,
             Refuse(r) \/ ReadAbsent(r) \/ ReadRow(r) \/ ReadError(r) \/ Decide(r)
      PROVE  Dropped
  BY <1>6, <1>7 DEF Refuse, ReadAbsent, ReadRow, ReadError, Decide
<1>8. ASSUME NEW m \in Minters,
             \/ MintFail(m) \/ \E w \in Wires : MintCollision(m, w)
             \/ \E w \in Wires, u \in Users, x \in Expiries : MintInsert(m, w, u, x)
      PROVE  Dropped
  BY <1>6, <1>8 DEF MintFail, MintCollision, MintInsert
<1>9. ASSUME NEW v \in Revokers,
             \/ \E p \in Prefixes : AdminRevoke(v, p) \/ ConsoleRevoke(v, p)
             \/ \E u \in Users : ConsoleRevokeAll(v, u)
             \/ RevokeFail(v) \/ SocketSend(v) \/ SocketOk(v) \/ NotifyFail(v)
             \/ SighupSend(v)
      PROVE  Dropped
  BY <1>6, <1>9 DEF AdminRevoke, ConsoleRevoke, ConsoleRevokeAll, RevokeFail,
     SocketSend, SocketOk, NotifyFail, SighupSend
<1>10. CASE Tick \/ SighupReload \/ UNCHANGED vars
  BY <1>6, <1>10 DEF Tick, SighupReload, vars
<1> HIDE DEF Dropped
<1>11. CASE Dropped
  BY <1>11 DEF Dropped
<1> QED BY <1>1, <1>2, <1>4, <1>5, <1>7, <1>8, <1>9, <1>10, <1>11
     DEF Next, RequestStep, RevokerStep

(* What insert leaves when it evicts: the cache was full, and one victim   *)
(* of evict_one is gone.                                                   *)
LEMMA EvictionFacts ==
  ASSUME CacheOK, NEW p, NEW room \in MakeRoom(cache, p), room # cache
  PROVE  /\ p \notin DOMAIN cache /\ ~ (Cardinality(DOMAIN cache) < Capacity)
         /\ \E v \in Victims(cache) : DOMAIN room = DOMAIN cache \ {v}
<1>1. /\ p \notin DOMAIN cache /\ ~ (Cardinality(DOMAIN cache) < Capacity)
      /\ room \in {Drop(cache, {v}) : v \in Victims(cache)}
  BY DEF MakeRoom
<1>2. \A v : DOMAIN Drop(cache, {v}) = DOMAIN cache \ {v}
  BY DEF Drop
<1> QED BY <1>1, <1>2

LEMMA VictimsFacts ==
  ASSUME NEW v \in Victims(cache)
  PROVE  /\ v \in DOMAIN cache
         /\ Fresh(cache[v]) =>
              /\ \A q \in DOMAIN cache : Fresh(cache[q])
              /\ \A q \in DOMAIN cache : cache[v].lastUsed <= cache[q].lastUsed
  BY DEF Victims

LEMMA CacheFinite ==
  ASSUME TypeOK
  PROVE  IsFiniteSet(DOMAIN cache) /\ Cardinality(DOMAIN cache) \in Nat
<1>1. DOMAIN cache \subseteq Prefixes /\ IsFiniteSet(Prefixes)
  BY ConstantsAssumption DEF TypeOK, CacheOK, Table
<1>2. IsFiniteSet(DOMAIN cache)
  BY <1>1, FS_Subset
<1> QED BY <1>2, FS_CardinalityType

LEMMA LastUsedNat ==
  ASSUME TypeOK
  PROVE  \A p \in DOMAIN cache : cache[p].lastUsed \in Nat
<1> TAKE p \in DOMAIN cache
<1>1. cache[p] \in Entry
  BY TableElement DEF TypeOK, CacheOK
<1> QED BY <1>1 DEF Entry

LEMMA BoundedNext ==
  ASSUME TypeOK, CacheBounded, [Next]_vars
  PROVE  CacheBounded'
<1> DEFINE bound == IF Capacity = 0 THEN 1 ELSE Capacity
<1>0. /\ IsFiniteSet(DOMAIN cache) /\ Cardinality(DOMAIN cache) \in Nat
      /\ Cardinality(DOMAIN cache) <= bound /\ Capacity \in Nat /\ bound \in Nat
      /\ bound >= 1 /\ bound >= Capacity
  BY CacheFinite, ConstantsAssumption DEF CacheBounded
<1>1. ASSUME DOMAIN cache' \subseteq DOMAIN cache PROVE CacheBounded'
  <2>1. Cardinality(DOMAIN cache') \in Nat
        /\ Cardinality(DOMAIN cache') <= Cardinality(DOMAIN cache)
    BY <1>0, <1>1, FS_Subset, FS_CardinalityType
  <2> QED BY <1>0, <2>1 DEF CacheBounded
<1>2. ASSUME NEW p \in Prefixes, NEW room \in MakeRoom(cache, p),
             DOMAIN cache' = DOMAIN room \cup {p}
      PROVE  CacheBounded'
  <2>1. CASE p \in DOMAIN cache
    <3>1. room = cache
      BY <2>1 DEF MakeRoom
    <3> QED BY <2>1, <3>1, <1>1, <1>2
  <2>2. CASE p \notin DOMAIN cache /\ room = cache
    <3>1. Cardinality(DOMAIN cache') = Cardinality(DOMAIN cache) + 1
      BY <1>0, <1>2, <2>2, FS_AddElement
    <3>2. CASE Cardinality(DOMAIN cache) < Capacity
      BY <1>0, <3>1, <3>2 DEF CacheBounded
    <3>3. CASE DOMAIN cache = {}
      <4>1. Cardinality(DOMAIN cache) = 0
        BY <3>3, FS_EmptySet
      <4> QED BY <1>0, <3>1, <4>1 DEF CacheBounded
    <3>4. CASE /\ ~ (Cardinality(DOMAIN cache) < Capacity) /\ DOMAIN cache # {}
      <4>1. PICK v \in Victims(cache) : cache = Drop(cache, {v})
        BY <2>2, <3>4 DEF MakeRoom
      <4>2. v \in DOMAIN cache /\ v \notin DOMAIN Drop(cache, {v})
        BY VictimsFacts DEF Drop
      <4> QED BY <4>1, <4>2
    <3> QED BY <3>2, <3>3, <3>4
  <2>3. CASE p \notin DOMAIN cache /\ room # cache
    <3>1. PICK v \in Victims(cache) : DOMAIN room = DOMAIN cache \ {v}
      BY <2>3, EvictionFacts DEF TypeOK
    <3>2. v \in DOMAIN cache
      BY VictimsFacts
    <3>3. /\ IsFiniteSet(DOMAIN room)
          /\ Cardinality(DOMAIN room) = Cardinality(DOMAIN cache) - 1
      BY <1>0, <3>1, <3>2, FS_RemoveElement
    <3>4. p \notin DOMAIN room
      BY <2>3, <3>1
    <3>5. Cardinality(DOMAIN cache') = Cardinality(DOMAIN room) + 1
      BY <1>2, <3>3, <3>4, FS_AddElement
    <3> QED BY <1>0, <3>3, <3>5 DEF CacheBounded
  <2> QED BY <2>1, <2>2, <2>3
<1> QED BY <1>1, <1>2, CacheStep

(* However many lookups fill it at once, the cache keeps to the capacity   *)
(* of [auth]; with capacity 0 it keeps to one entry.                       *)
THEOREM CapacityKept == Spec => []CacheBounded
<1>1. Init => CacheBounded
  <2> SUFFICES ASSUME Init PROVE CacheBounded
    OBVIOUS
  <2>1. DOMAIN cache = {}
    BY DEF Init
  <2>2. Cardinality(DOMAIN cache) = 0
    BY <2>1, FS_EmptySet
  <2> QED BY <2>2, ConstantsAssumption DEF CacheBounded
<1>2. TypeOK /\ CacheBounded /\ [Next]_vars => CacheBounded'
  BY BoundedNext
<1> QED BY <1>1, <1>2, TypeCorrect, PTL DEF Spec

LEMMA UseOrderNext ==
  ASSUME TypeOK, UseOrder, [Next]_vars
  PROVE  UseOrder'
<1>0. counter \in Nat /\ \A p \in DOMAIN cache : cache[p].lastUsed \in Nat
  BY LastUsedNat DEF TypeOK
<1>1. ASSUME counter' = counter, DOMAIN cache' \subseteq DOMAIN cache,
             \A q \in DOMAIN cache' : cache'[q] = cache[q]
      PROVE  UseOrder'
  BY <1>1 DEF UseOrder
<1>2. ASSUME counter' = counter + 1, NEW p,
             cache'[p].lastUsed = counter + 1,
             \A q \in DOMAIN cache' : q # p => q \in DOMAIN cache /\ cache'[q] = cache[q]
      PROVE  UseOrder'
  <2>1. \A q \in DOMAIN cache' : cache'[q].lastUsed <= counter'
    BY <1>0, <1>2 DEF UseOrder
  <2>2. \A q1, q2 \in DOMAIN cache' :
          q1 # q2 => cache'[q1].lastUsed # cache'[q2].lastUsed
    BY <1>0, <1>2 DEF UseOrder
  <2> QED BY <2>1, <2>2 DEF UseOrder
<1>3. ASSUME NEW p, NEW room \in MakeRoom(cache, p),
             DOMAIN cache' = DOMAIN room \cup {p},
             \A q \in DOMAIN room : q # p => cache'[q] = room[q]
      PROVE  \A q \in DOMAIN cache' : q # p => q \in DOMAIN cache /\ cache'[q] = cache[q]
  <2>1. DOMAIN room \subseteq DOMAIN cache /\ \A q \in DOMAIN room : room[q] = cache[q]
    BY MakeRoomFacts DEF TypeOK, CacheOK
  <2> QED BY <1>3, <2>1
<1> QED BY <1>1, <1>2, <1>3, CacheStep

(* evict_one sacrifices a live entry only when all entries are live, and   *)
(* then the one used before all the others.                                *)
THEOREM EvictionFair == Spec => EvictionSparesLive
<1> DEFINE Step ==
      counter' # counter =>
        LET gone == DOMAIN cache \ DOMAIN cache' IN
        /\ Cardinality(gone) <= 1
        /\ \A p \in gone : Fresh(cache[p]) =>
             \A q \in DOMAIN cache \ {p} :
               Fresh(cache[q]) /\ cache[q].lastUsed > cache[p].lastUsed
<1>1. Init => UseOrder
  BY DEF Init, UseOrder
<1>2. TypeOK /\ UseOrder /\ [Next]_vars => UseOrder'
  BY UseOrderNext
<1>3. ASSUME TypeOK, UseOrder, [Next]_vars PROVE Step
  <2> SUFFICES ASSUME counter' # counter PROVE Step
    OBVIOUS
  <2> DEFINE gone == DOMAIN cache \ DOMAIN cache'
  <2>1. CASE DOMAIN cache' = DOMAIN cache
    <3>1. gone = {}
      BY <2>1
    <3>2. Cardinality(gone) = 0
      BY <3>1, FS_EmptySet
    <3> QED BY <3>1, <3>2
  <2>2. ASSUME NEW p \in Prefixes, NEW room \in MakeRoom(cache, p),
               DOMAIN cache' = DOMAIN room \cup {p}
        PROVE  Step
    <3>1. CASE room = cache
      <4>1. gone = {}
        BY <2>2, <3>1
      <4>2. Cardinality(gone) = 0
        BY <4>1, FS_EmptySet
      <4> QED BY <4>1, <4>2
    <3>2. CASE room # cache
      <4>1. p \notin DOMAIN cache /\ ~ (Cardinality(DOMAIN cache) < Capacity)
        BY <1>3, <3>2, EvictionFacts DEF TypeOK
      <4>2. PICK v \in Victims(cache) : DOMAIN room = DOMAIN cache \ {v}
        BY <1>3, <3>2, EvictionFacts DEF TypeOK
      <4>3. v \in DOMAIN cache
        BY VictimsFacts
      <4>4. gone = {v}
        BY <2>2, <4>1, <4>2, <4>3
      <4>5. Cardinality(gone) = 1
        BY <4>4, FS_Singleton
      <4>6. ASSUME Fresh(cache[v]), NEW q \in DOMAIN cache \ {v}
            PROVE  Fresh(cache[q]) /\ cache[q].lastUsed > cache[v].lastUsed
        <5>1. Fresh(cache[q]) /\ cache[v].lastUsed <= cache[q].lastUsed
          BY <4>6, VictimsFacts
        <5>2. cache[v].lastUsed # cache[q].lastUsed
          BY <1>3, <4>3 DEF UseOrder
        <5> QED BY <1>3, <4>3, <5>1, <5>2, LastUsedNat
      <4> QED BY <4>4, <4>5, <4>6
    <3> QED BY <3>1, <3>2
  <2> HIDE DEF Step
  <2> QED BY <1>3, <2>1, <2>2, CacheStep
<1>4. TypeOK /\ UseOrder /\ [Next]_vars => [Step]_vars
  BY <1>3
<1> QED BY <1>1, <1>2, <1>4, TypeCorrect, PTL DEF Spec, EvictionSparesLive

-----------------------------------------------------------------------------
(* "Effective on the very next request", with one worker.                  *)

RowRevoked(p) == p \in DOMAIN rows /\ rows[p].revokedAt # Never

(* No copy of the row of p that misses its revocation is left, neither in  *)
(* the cache nor in the hands of a lookup.                                 *)
Clean(p) ==
  /\ RowRevoked(p)
  /\ p \in DOMAIN cache => cache[p].row.revokedAt # Never
  /\ \A r \in Requests :
       req[r].pc \in {"fill", "decide"} /\ ReqPrefix(r) = p => req[r].row.revokedAt # Never

(* A lookup and an admin revocation do not share the worker.               *)
Alone == BusyRequests = {} \/ BusyRevokers = {}

(* Targets are revoked in the table from the start, and clean of copies    *)
(* once INVALIDATE_TOKENS has run.                                         *)
TargetsInv ==
  \A v \in Revokers :
    /\ rev[v].pc = "idle" => rev[v].targets = {} /\ rev[v].cmd = "none"
    /\ \A p \in rev[v].targets :
         RowRevoked(p) /\ (rev[v].cmd = "executed" => Clean(p))

AckedInv == \A p \in acked : Clean(p)

LateInv ==
  \A r \in late : /\ req[r].pc # "idle" /\ ReqPrefix(r) \in acked
                  /\ req[r].verdict # "accepted"

RevokeInv == Alone /\ TargetsInv /\ AckedInv /\ LateInv

LEMMA OneWorkerFree ==
  ASSUME Workers = 1, FreeWorker
  PROVE  BusyRequests = {} /\ BusyRevokers = {}
<1>1. IsFiniteSet(BusyRequests) /\ IsFiniteSet(BusyRevokers)
  BY ConstantsAssumption, FS_Subset DEF BusyRequests, BusyRevokers
<1>2. Cardinality(BusyRequests) \in Nat /\ Cardinality(BusyRevokers) \in Nat
  BY <1>1, FS_CardinalityType
<1>3. Cardinality(BusyRequests) = 0 /\ Cardinality(BusyRevokers) = 0
  BY <1>2 DEF FreeWorker
<1> QED BY <1>1, <1>3, FS_EmptySet

LEMMA RowRevokedKept ==
  ASSUME TypeOK, [Next]_vars, NEW p, RowRevoked(p)
  PROVE  RowRevoked(p)'
<1>1. p \in DOMAIN rows' /\ rows'[p] = rows[p]
  BY RowKept DEF RowRevoked
<1> QED BY <1>1 DEF RowRevoked

(* The requests under one step: only the row of a hit, or the row just     *)
(* read, enters a lookup.                                                  *)
LEMMA RowInHand ==
  ASSUME TypeOK, [Next]_vars, NEW r \in Requests, req'[r].pc \in {"fill", "decide"}
  PROVE  \/ /\ req[r].pc \in {"fill", "decide"}
            /\ req'[r].wire = req[r].wire /\ req'[r].row = req[r].row
         \/ ReqPrefix(r)' \in DOMAIN cache /\ req'[r].row = cache[ReqPrefix(r)'].row
         \/ ReqPrefix(r)' \in DOMAIN rows /\ req'[r].row = rows[ReqPrefix(r)']
<1> DEFINE Kept == /\ req[r].pc \in {"fill", "decide"}
                   /\ req'[r].wire = req[r].wire /\ req'[r].row = req[r].row
           Hit == ReqPrefix(r)' \in DOMAIN cache /\ req'[r].row = cache[ReqPrefix(r)'].row
           Fresher == ReqPrefix(r)' \in DOMAIN rows /\ req'[r].row = rows[ReqPrefix(r)']
<1>0. ReqOK
  BY DEF TypeOK
<1>1. ASSUME req'[r] = req[r] PROVE Kept \/ Hit \/ Fresher
  BY <1>1
<1>2. ASSUME NEW w \in Wires, GetHit(r, w) PROVE Hit
  BY <1>0, <1>2 DEF GetHit, Begin, ReqOK, Request, ReqPrefix
<1>3. ASSUME ReadRow(r) PROVE Fresher
  BY <1>0, <1>3 DEF ReadRow, ReqOK, Request, ReqPrefix
<1>4. ASSUME Fill(r) PROVE Kept
  BY <1>0, <1>4 DEF Fill, ReqOK, Request
<1>5. ASSUME \/ Refuse(r) \/ ReadAbsent(r) \/ ReadError(r) \/ Decide(r)
             \/ \E w \in Wires : GetMiss(r, w)
      PROVE  FALSE
  <2>1. ASSUME NEW w \in Wires, GetMiss(r, w) PROVE req'[r].pc = "read"
    BY <1>0, <2>1 DEF GetMiss, Begin, ReqOK, Request
  <2>2. ASSUME Refuse(r) \/ ReadAbsent(r) \/ ReadError(r) PROVE req'[r].pc = "done"
    BY <1>0, <2>2 DEF Refuse, ReadAbsent, ReadError, ReqOK, Request
  <2>3. ASSUME Decide(r) PROVE req'[r].pc = "done"
    BY <1>0, <2>3 DEF Decide, ReqOK, Request
  <2> QED BY <1>5, <2>1, <2>2, <2>3
<1>6. ASSUME NEW q \in Requests, q # r,
             \/ Refuse(q) \/ RequestStep(q)
             \/ \E w \in Wires : GetHit(q, w) \/ GetMiss(q, w)
      PROVE  req'[r] = req[r]
  BY <1>0, <1>6 DEF Refuse, RequestStep, ReadAbsent, ReadRow, ReadError, Fill, Decide,
     GetHit, GetMiss, ReqOK
<1>7. ASSUME NEW m \in Minters,
             \/ MintFail(m) \/ \E w \in Wires : MintCollision(m, w)
             \/ \E w \in Wires, u \in Users, x \in Expiries : MintInsert(m, w, u, x)
      PROVE  req'[r] = req[r]
  BY <1>7 DEF MintFail, MintCollision, MintInsert
<1>8. ASSUME NEW v \in Revokers,
             \/ \E p \in Prefixes : AdminRevoke(v, p) \/ ConsoleRevoke(v, p)
             \/ \E u \in Users : ConsoleRevokeAll(v, u)
             \/ RevokeFail(v) \/ RevokerStep(v)
      PROVE  req'[r] = req[r]
  BY <1>8 DEF AdminRevoke, ConsoleRevoke, ConsoleRevokeAll, RevokeFail, RevokerStep,
     AdminInvalidate, SocketSend, SocketFlush, SocketOk, NotifyFail, SighupSend
<1>9. ASSUME Tick \/ SighupReload \/ UNCHANGED vars PROVE req'[r] = req[r]
  BY <1>9 DEF Tick, SighupReload, vars
<1>10. SUFFICES Kept \/ Hit \/ Fresher
  OBVIOUS
<1> HIDE DEF Kept, Hit, Fresher
<1> QED BY <1>1, <1>2, <1>3, <1>4, <1>5, <1>6, <1>7, <1>8, <1>9 DEF Next, RequestStep

(* Once a prefix is clean it stays clean: nothing is left to copy from.    *)
LEMMA CleanKept ==
  ASSUME TypeOK, [Next]_vars, NEW p, Clean(p)
  PROVE  Clean(p)'
<1>1. RowRevoked(p)'
  BY RowRevokedKept DEF Clean
<1>2. ASSUME p \in DOMAIN cache' PROVE cache'[p].row.revokedAt # Never
  <2>1. CASE p \in DOMAIN cache /\ cache'[p].row = cache[p].row
    BY <2>1 DEF Clean
  <2>2. ASSUME NEW r \in Requests, NEW q \in Prefixes, NEW room \in MakeRoom(cache, q),
               req[r].pc = "fill", q = ReqPrefix(r), DOMAIN cache' = DOMAIN room \cup {q},
               cache'[q].row = req[r].row,
               \A x \in DOMAIN room : x # q => cache'[x] = room[x]
        PROVE  cache'[p].row.revokedAt # Never
    <3>1. DOMAIN room \subseteq DOMAIN cache /\ \A x \in DOMAIN room : room[x] = cache[x]
      BY MakeRoomFacts DEF TypeOK, CacheOK
    <3>2. CASE p = q
      BY <2>2, <3>2 DEF Clean
    <3>3. CASE p # q
      <4>1. p \in DOMAIN room
        BY <1>2, <2>2, <3>3
      <4> QED BY <2>1, <2>2, <3>1, <3>3, <4>1
    <3> QED BY <3>2, <3>3
  <2> QED BY <1>2, <2>1, <2>2, CacheStep
<1>3. ASSUME NEW r \in Requests, req'[r].pc \in {"fill", "decide"}, ReqPrefix(r)' = p
      PROVE  req'[r].row.revokedAt # Never
  BY <1>3, RowInHand DEF Clean, RowRevoked, ReqPrefix
<1> QED BY <1>1, <1>2, <1>3 DEF Clean

LEMMA AloneNext ==
  ASSUME Workers = 1, TypeOK, Alone, [Next]_vars
  PROVE  Alone'
<1> USE DEF Alone, BusyRequests, BusyRevokers
<1>0. ReqOK /\ RevOK
  BY DEF TypeOK
<1>1. ASSUME NEW r \in Requests, Refuse(r) \/ \E w \in Wires : GetHit(r, w) \/ GetMiss(r, w)
      PROVE  Alone'
  <2>1. BusyRevokers = {} /\ rev' = rev
    BY <1>1, OneWorkerFree DEF Refuse, GetHit, GetMiss
  <2> QED BY <2>1
<1>2. ASSUME NEW r \in Requests, RequestStep(r) PROVE Alone'
  <2>1. r \in BusyRequests /\ rev' = rev
    BY <1>2 DEF RequestStep, ReadAbsent, ReadRow, ReadError, Fill, Decide
  <2> QED BY <2>1
<1>3. ASSUME NEW v \in Revokers, NEW p \in Prefixes, AdminRevoke(v, p) PROVE Alone'
  <2>1. BusyRequests = {} /\ req' = req
    BY <1>3, OneWorkerFree DEF AdminRevoke
  <2> QED BY <2>1
<1>4. ASSUME NEW v \in Revokers,
             \/ \E p \in Prefixes : ConsoleRevoke(v, p)
             \/ \E u \in Users : ConsoleRevokeAll(v, u)
             \/ RevokeFail(v) \/ RevokerStep(v)
      PROVE  Alone'
  <2>1. req' = req /\ \A x \in Revokers : rev'[x].pc = "invalidate" => rev[x].pc = "invalidate"
    <3> DEFINE Same == /\ req' = req
                       /\ \A x \in Revokers : rev'[x].pc = "invalidate" => rev[x].pc = "invalidate"
    <3>1. ASSUME NEW p \in Prefixes, ConsoleRevoke(v, p) PROVE Same
      BY <1>0, <3>1 DEF ConsoleRevoke, RevOK, Revocation
    <3>2. ASSUME NEW u \in Users, ConsoleRevokeAll(v, u) PROVE Same
      BY <1>0, <3>2 DEF ConsoleRevokeAll, RevOK, Revocation
    <3>3. CASE RevokeFail(v)
      BY <1>0, <3>3 DEF RevokeFail, RevOK, Revocation
    <3>4. CASE AdminInvalidate(v)
      BY <1>0, <3>4 DEF AdminInvalidate, RevOK, Revocation
    <3>5. CASE SocketSend(v) \/ SocketFlush(v)
      BY <1>0, <3>5 DEF SocketSend, SocketFlush, RevOK, Revocation
    <3>6. CASE SocketOk(v) \/ NotifyFail(v) \/ SighupSend(v)
      BY <1>0, <3>6 DEF SocketOk, NotifyFail, SighupSend, RevOK, Revocation
    <3> QED BY <1>4, <3>1, <3>2, <3>3, <3>4, <3>5, <3>6 DEF RevokerStep
  <2> QED BY <2>1
<1>5. ASSUME NEW m \in Minters,
             \/ MintFail(m) \/ \E w \in Wires : MintCollision(m, w)
             \/ \E w \in Wires, u \in Users, x \in Expiries : MintInsert(m, w, u, x)
      PROVE  Alone'
  BY <1>5 DEF MintFail, MintCollision, MintInsert
<1>6. CASE Tick \/ SighupReload \/ UNCHANGED vars
  BY <1>6 DEF Tick, SighupReload, vars
<1> QED BY <1>1, <1>2, <1>3, <1>4, <1>5, <1>6 DEF Next

(* The tables of a revocation that starts: every target is revoked now.    *)
LEMMA TargetsRevoked ==
  ASSUME TypeOK, NEW P \in SUBSET DOMAIN rows, rows' = Revoked(P), NEW p \in P
  PROVE  RowRevoked(p)'
<1>1. rows[p] \in Row /\ now # Never
  BY Numbers, TableElement DEF TypeOK, RowsOK
<1>2. p \in DOMAIN rows' /\ rows'[p].revokedAt # Never
  BY <1>1 DEF Revoked, Row
<1> QED BY <1>2 DEF RowRevoked

LEMMA TargetsNext ==
  ASSUME Workers = 1, TypeOK, RevokeInv, [Next]_vars
  PROVE  TargetsInv'
<1>0. RevOK /\ TargetsInv /\ RowsOK
  BY DEF TypeOK, RevokeInv
<1>1. ASSUME NEW v \in Revokers, rev'[v].targets = rev[v].targets,
             rev'[v].pc = "idle" => rev[v].pc = "idle" /\ rev'[v].cmd = rev[v].cmd,
             rev'[v].cmd = "executed" =>
               rev[v].cmd = "executed" \/ \A p \in rev[v].targets : Clean(p)'
      PROVE  /\ rev'[v].pc = "idle" => rev'[v].targets = {} /\ rev'[v].cmd = "none"
             /\ \A p \in rev'[v].targets :
                  RowRevoked(p)' /\ (rev'[v].cmd = "executed" => Clean(p)')
  BY <1>0, <1>1, RowRevokedKept, CleanKept DEF TargetsInv
<1>2. CASE UNCHANGED rev
  BY <1>1, <1>2 DEF TargetsInv
<1>3. ASSUME NEW v \in Revokers, NEW P \in SUBSET DOMAIN rows, rev[v].pc = "idle",
             NEW next \in {"invalidate", "notify"}, rows' = Revoked(P),
             rev' = [rev EXCEPT ![v].pc = next, ![v].targets = P]
      PROVE  TargetsInv'
  <2>1. /\ rev'[v].pc # "idle" /\ rev'[v].targets = P /\ rev'[v].cmd = rev[v].cmd
        /\ \A x \in Revokers : x # v => rev'[x] = rev[x]
    BY <1>0, <1>3 DEF RevOK, Revocation
  <2>2. rev[v].cmd = "none"
    BY <1>0, <1>3 DEF TargetsInv
  <2>3. \A p \in P : RowRevoked(p)'
    BY <1>3, TargetsRevoked
  <2> QED BY <1>1, <2>1, <2>2, <2>3 DEF TargetsInv
<1>4. ASSUME NEW v \in Revokers,
             \/ \E p \in Prefixes : AdminRevoke(v, p) \/ ConsoleRevoke(v, p)
             \/ \E u \in Users : ConsoleRevokeAll(v, u)
      PROVE  TargetsInv'
  <2>1. PICK P \in SUBSET DOMAIN rows, next \in {"invalidate", "notify"} :
          /\ rev[v].pc = "idle" /\ rows' = Revoked(P)
          /\ rev' = [rev EXCEPT ![v].pc = next, ![v].targets = P]
    BY <1>4 DEF AdminRevoke, ConsoleRevoke, ConsoleRevokeAll
  <2> QED BY <1>3, <2>1
<1>5. ASSUME NEW v \in Revokers, SocketFlush(v) PROVE TargetsInv'
  <2>1. /\ rev'[v].targets = rev[v].targets /\ rev'[v].pc = rev[v].pc
        /\ rev[v].cmd = "sent"
        /\ \A x \in Revokers : x # v => rev'[x] = rev[x]
    BY <1>0, <1>5 DEF SocketFlush, RevOK, Revocation
  <2>2. rev[v].pc # "idle"
    BY <1>0, <2>1 DEF TargetsInv
  <2>3. BusyRequests = {} /\ req' = req
    BY <1>5, OneWorkerFree DEF SocketFlush
  <2>4. DOMAIN cache' = {}
    BY <1>5 DEF SocketFlush, Drop
  <2>5. \A p \in rev[v].targets : Clean(p)'
    <3> TAKE p \in rev[v].targets
    <3>1. RowRevoked(p)'
      BY <1>0, RowRevokedKept DEF TargetsInv
    <3> QED BY <2>3, <2>4, <3>1 DEF Clean, BusyRequests
  <2> QED BY <1>1, <2>1, <2>2, <2>5 DEF TargetsInv
<1>6. ASSUME NEW v \in Revokers,
             \/ RevokeFail(v) \/ AdminInvalidate(v) \/ SocketSend(v) \/ SocketOk(v)
             \/ NotifyFail(v) \/ SighupSend(v)
      PROVE  TargetsInv'
  <2>1. /\ rev'[v].targets = rev[v].targets /\ rev'[v].pc # "idle"
        /\ rev'[v].cmd = "executed" => rev[v].cmd = "executed"
        /\ \A x \in Revokers : x # v => rev'[x] = rev[x]
    BY <1>0, <1>6 DEF RevokeFail, AdminInvalidate, SocketSend, SocketOk, NotifyFail,
       SighupSend, RevOK, Revocation
  <2> QED BY <1>1, <2>1 DEF TargetsInv
<1>7. ASSUME NEW r \in Requests,
             \/ Refuse(r) \/ RequestStep(r)
             \/ \E w \in Wires : GetHit(r, w) \/ GetMiss(r, w)
      PROVE  UNCHANGED rev
  BY <1>7 DEF Refuse, GetHit, GetMiss, RequestStep, ReadAbsent, ReadRow, ReadError,
     Fill, Decide
<1>8. ASSUME NEW m \in Minters,
             \/ MintFail(m) \/ \E w \in Wires : MintCollision(m, w)
             \/ \E w \in Wires, u \in Users, x \in Expiries : MintInsert(m, w, u, x)
      PROVE  UNCHANGED rev
  BY <1>8 DEF MintFail, MintCollision, MintInsert
<1>9. ASSUME Tick \/ SighupReload \/ UNCHANGED vars PROVE UNCHANGED rev
  BY <1>9 DEF Tick, SighupReload, vars
<1> QED BY <1>2, <1>4, <1>5, <1>6, <1>7, <1>8, <1>9 DEF Next, RevokerStep

LEMMA AckedNext ==
  ASSUME Method # "sighup", TypeOK, RevokeInv, [Next]_vars
  PROVE  AckedInv' /\ acked \subseteq acked'
<1>0. RevOK /\ AckedInv /\ TargetsInv /\ Alone
  BY DEF TypeOK, RevokeInv
<1>1. ASSUME acked' = acked PROVE AckedInv' /\ acked \subseteq acked'
  BY <1>0, <1>1, CleanKept DEF AckedInv
<1>2. ASSUME NEW v \in Revokers, AdminInvalidate(v)
      PROVE  AckedInv' /\ acked \subseteq acked'
  <2>1. acked' = acked \cup rev[v].targets /\ req' = req
    BY <1>2 DEF AdminInvalidate
  <2>2. BusyRequests = {}
    BY <1>0, <1>2 DEF AdminInvalidate, Alone, BusyRevokers
  <2>3. \A p \in rev[v].targets : p \notin DOMAIN cache'
    BY <1>2 DEF AdminInvalidate, Drop
  <2>4. \A p \in rev[v].targets : Clean(p)'
    <3> TAKE p \in rev[v].targets
    <3>1. RowRevoked(p)'
      BY <1>0, RowRevokedKept DEF TargetsInv
    <3> QED BY <2>1, <2>2, <2>3, <3>1 DEF Clean, BusyRequests
  <2> QED BY <1>0, <2>1, <2>4, CleanKept DEF AckedInv
<1>3. ASSUME NEW v \in Revokers, SocketOk(v)
      PROVE  AckedInv' /\ acked \subseteq acked'
  <2>1. acked' = acked \cup rev[v].targets /\ rev[v].cmd = "executed"
    BY <1>3 DEF SocketOk
  <2> QED BY <1>0, <2>1, CleanKept DEF AckedInv, TargetsInv
<1>4. ASSUME NEW v \in Revokers, SighupSend(v) PROVE FALSE
  BY <1>4 DEF SighupSend
<1>5. ASSUME NEW v \in Revokers,
             \/ \E p \in Prefixes : AdminRevoke(v, p) \/ ConsoleRevoke(v, p)
             \/ \E u \in Users : ConsoleRevokeAll(v, u)
             \/ RevokeFail(v) \/ SocketSend(v) \/ SocketFlush(v) \/ NotifyFail(v)
      PROVE  acked' = acked
  BY <1>5 DEF AdminRevoke, ConsoleRevoke, ConsoleRevokeAll, RevokeFail, SocketSend,
     SocketFlush, NotifyFail
<1>6. ASSUME NEW r \in Requests,
             \/ Refuse(r) \/ RequestStep(r)
             \/ \E w \in Wires : GetHit(r, w) \/ GetMiss(r, w)
      PROVE  acked' = acked
  BY <1>6 DEF Refuse, GetHit, GetMiss, RequestStep, ReadAbsent, ReadRow, ReadError,
     Fill, Decide
<1>7. ASSUME NEW m \in Minters,
             \/ MintFail(m) \/ \E w \in Wires : MintCollision(m, w)
             \/ \E w \in Wires, u \in Users, x \in Expiries : MintInsert(m, w, u, x)
      PROVE  acked' = acked
  BY <1>7 DEF MintFail, MintCollision, MintInsert
<1>8. ASSUME Tick \/ SighupReload \/ UNCHANGED vars PROVE acked' = acked
  BY <1>8 DEF Tick, SighupReload, vars
<1> QED BY <1>1, <1>2, <1>3, <1>4, <1>5, <1>6, <1>7, <1>8 DEF Next, RevokerStep

LEMMA LateNext ==
  ASSUME TypeOK, RevokeInv, acked \subseteq acked', [Next]_vars
  PROVE  LateInv'
<1> DEFINE Good(r) == /\ req'[r].pc # "idle" /\ ReqPrefix(r)' \in acked'
                      /\ req'[r].verdict # "accepted"
<1>0. ReqOK /\ ReqShape /\ AckedInv /\ LateInv /\ late \subseteq Requests
  BY DEF TypeOK, RevokeInv
<1>1. ASSUME NEW r \in late, req'[r] = req[r] PROVE Good(r)
  BY <1>0, <1>1 DEF LateInv, ReqPrefix
<1>2. ASSUME UNCHANGED <<late, req>> PROVE LateInv'
  BY <1>1, <1>2 DEF LateInv
<1>3. ASSUME NEW r \in Requests, late' = late, \A q \in Requests : q # r => req'[q] = req[q],
             r \in late => Good(r)
      PROVE  LateInv'
  BY <1>0, <1>1, <1>3 DEF LateInv
<1>4. ASSUME NEW r \in Requests, Refuse(r) PROVE LateInv'
  <2>1. r \notin late
    BY <1>0, <1>4 DEF Refuse, LateInv
  <2> QED BY <1>0, <1>3, <1>4, <2>1 DEF Refuse, ReqOK
<1>5. ASSUME NEW r \in Requests, NEW w \in Wires, GetHit(r, w) \/ GetMiss(r, w)
      PROVE  LateInv'
  <2>1. /\ req'[r].pc # "idle" /\ req'[r].wire = w /\ req'[r].verdict = req[r].verdict
        /\ \A q \in Requests : q # r => req'[q] = req[q]
    <3>1. CASE GetHit(r, w)
      BY <1>0, <3>1 DEF GetHit, Begin, ReqOK, Request
    <3>2. CASE GetMiss(r, w)
      BY <1>0, <3>2 DEF GetMiss, Begin, ReqOK, Request
    <3> QED BY <1>5, <3>1, <3>2
  <2>2. req[r].pc = "idle" /\ acked' = acked /\ late' = LateIf(r, w)
    BY <1>5 DEF GetHit, GetMiss
  <2>3. req[r].verdict # "accepted" /\ r \notin late
    BY <1>0, <2>2 DEF ReqShape, LateInv
  <2>4. \A q \in late : Good(q)
    BY <1>0, <1>1, <2>1, <2>3
  <2>5. PrefixOf[w] \in acked => Good(r)
    BY <2>1, <2>2, <2>3 DEF ReqPrefix
  <2> QED BY <2>2, <2>4, <2>5 DEF LateInv, LateIf
<1>6. ASSUME NEW r \in Requests, ReadAbsent(r) \/ ReadRow(r) \/ ReadError(r) \/ Fill(r)
      PROVE  LateInv'
  <2>1. /\ req'[r].pc # "idle" /\ req'[r].wire = req[r].wire
        /\ req'[r].verdict = "accepted" => req[r].verdict = "accepted"
        /\ \A q \in Requests : q # r => req'[q] = req[q]
        /\ late' = late
    BY <1>0, <1>6 DEF ReadAbsent, ReadRow, ReadError, Fill, ReqOK, Request
  <2>2. r \in late => Good(r)
    BY <1>0, <2>1 DEF LateInv, ReqPrefix
  <2> QED BY <1>3, <2>1, <2>2
<1>7. ASSUME NEW r \in Requests, Decide(r) PROVE LateInv'
  <2>1. /\ req'[r].pc # "idle" /\ req'[r].wire = req[r].wire /\ req[r].pc = "decide"
        /\ req'[r].verdict = "accepted" => Admits(req[r].row, req[r].wire)
        /\ \A q \in Requests : q # r => req'[q] = req[q]
        /\ late' = late
    BY <1>0, <1>7 DEF Decide, ReqOK, Request
  <2>2. ASSUME r \in late PROVE Good(r)
    <3>1. ReqPrefix(r) \in acked /\ ReqPrefix(r)' = ReqPrefix(r)
      BY <1>0, <2>1, <2>2 DEF LateInv, ReqPrefix
    <3>2. req[r].row.revokedAt # Never
      BY <1>0, <2>1, <3>1 DEF AckedInv, Clean
    <3> QED BY <2>1, <3>1, <3>2 DEF Admits
  <2> QED BY <1>3, <2>1, <2>2
<1>8. ASSUME NEW m \in Minters,
             \/ MintFail(m) \/ \E w \in Wires : MintCollision(m, w)
             \/ \E w \in Wires, u \in Users, x \in Expiries : MintInsert(m, w, u, x)
      PROVE  LateInv'
  BY <1>2, <1>8 DEF MintFail, MintCollision, MintInsert
<1>9. ASSUME NEW v \in Revokers,
             \/ \E p \in Prefixes : AdminRevoke(v, p) \/ ConsoleRevoke(v, p)
             \/ \E u \in Users : ConsoleRevokeAll(v, u)
             \/ RevokeFail(v) \/ RevokerStep(v)
      PROVE  LateInv'
  BY <1>2, <1>9 DEF AdminRevoke, ConsoleRevoke, ConsoleRevokeAll, RevokeFail, RevokerStep,
     AdminInvalidate, SocketSend, SocketFlush, SocketOk, NotifyFail, SighupSend
<1>10. CASE Tick \/ SighupReload \/ UNCHANGED vars
  BY <1>2, <1>10 DEF Tick, SighupReload, vars
<1> QED BY <1>4, <1>5, <1>6, <1>7, <1>8, <1>9, <1>10 DEF Next, RequestStep

(* In a proxy with one worker, where a lookup cannot straddle an           *)
(* invalidation, the promise of the admin API and of the reload socket     *)
(* holds to the letter: a request that begins after the revocation was     *)
(* acknowledged is refused.  With two workers it does not hold: the run    *)
(* TokenAuth_race exhibits the lookup that refills the cache.              *)
THEOREM RevokedAtOnce ==
  ASSUME Workers = 1, Method # "sighup"
  PROVE  Spec => []RevokeEffectiveNextRequest
<1>1. Init => RevokeInv
  BY DEF Init, RevokeInv, Alone, BusyRequests, BusyRevokers, TargetsInv, AckedInv, LateInv
<1>2. TypeOK /\ RevokeInv /\ [Next]_vars => RevokeInv'
  <2> SUFFICES ASSUME TypeOK, RevokeInv, [Next]_vars PROVE RevokeInv'
    OBVIOUS
  <2>1. Alone'
    BY AloneNext DEF RevokeInv
  <2>2. TargetsInv'
    BY TargetsNext
  <2>3. AckedInv' /\ acked \subseteq acked'
    BY AckedNext
  <2>4. LateInv'
    BY <2>3, LateNext
  <2> QED BY <2>1, <2>2, <2>3, <2>4 DEF RevokeInv
<1>3. RevokeInv => RevokeEffectiveNextRequest
  BY DEF RevokeInv, LateInv, RevokeEffectiveNextRequest
<1> QED BY <1>1, <1>2, <1>3, TypeCorrect, PTL DEF Spec
=============================================================================
