------------------------- MODULE ChatPipelineProofs -------------------------
(***************************************************************************)
(* Proofs about the request path: the types of its state, that the budget  *)
(* counter and the spend log agree, and the bound on how far a budget can  *)
(* be overrun.                                                             *)
(***************************************************************************)
EXTENDS ChatPipeline, TLAPS, FiniteSetTheorems

Labels == {"new", "limit", "usage", "finish", "done"} \cup Unsettled

\* Every chain has a backend: the default, or the primary of a rule.
LEMMA ChainNonEmpty ==
  ASSUME NEW m \in Models
  PROVE  RouteChain(m) \in Seq(Backends) /\ Len(RouteChain(m)) > 0
<1>1. CASE \E i \in 1..Len(Rules) : FirstMatch(m, i)
  <2> DEFINE i == CHOOSE i \in 1..Len(Rules) : FirstMatch(m, i)
  <2>1. i \in 1..Len(Rules)
    BY <1>1
  <2>2. RouteChain(m) = <<Rules[i].backend>> \o Rules[i].fallback
    BY <1>1 DEF RouteChain
  <2>3. Rules[i].backend \in Backends /\ Rules[i].fallback \in Seq(Backends)
    BY <2>1, ConstantsAssumption DEF ValidRule
  <2> HIDE DEF i
  <2> QED BY <2>2, <2>3
<1>2. CASE ~ \E i \in 1..Len(Rules) : FirstMatch(m, i)
  BY <1>2, ConstantsAssumption DEF RouteChain
<1> QED BY <1>1, <1>2

\* Multiplication by a natural number is monotone.
LEMMA Monotone ==
  ASSUME NEW m \in Nat, NEW a \in Nat, NEW b \in Nat, a <= b
  PROVE  m * a <= m * b /\ m * a \in Nat /\ m * b \in Nat
  OBVIOUS

\* One factor less is one product less.
LEMMA Product ==
  ASSUME NEW m \in Nat, NEW a \in Nat, a > 0
  PROVE  m * a \in Nat /\ m * (a - 1) = m * a - m
  OBVIOUS

\* The statuses handlers answer with are HTTP statuses.
LEMMA StatusFacts ==
  /\ 400 \in HttpStatus /\ 429 \in HttpStatus /\ 502 \in HttpStatus
  /\ \A s \in Statuses : s \in HttpStatus /\ s \in Nat
  BY ConstantsAssumption DEF HttpStatus

\* Audit trails grow by verdicts.
LEMMA TrailFacts ==
  /\ <<>> \in AuditTrail /\ <<"block">> \in AuditTrail
  /\ \A a \in AuditTrail : Append(a, "allow") \in AuditTrail
  BY DEF AuditTrail

\* What being let in does to the handler.
LEMMA LetInGoes ==
  ASSUME NEW q \in Requests, NEW l, LetIn(q, l)
  PROVE  pc' = [pc EXCEPT ![q] = "forward"]
  BY DEF LetIn, Goto

\* Every request has a budget key; the free mutex is held by no request.
LEMMA KeyFacts ==
  /\ \A q \in Requests : KeyOf[q] \in Keys
  /\ NoOne \notin Requests
  BY ConstantsAssumption

\* Only finitely many requests are in flight, whatever the labels `at'.
LEMMA InFlightCard ==
  ASSUME NEW k, NEW at
  PROVE  IsFiniteSet(InFlight(k, at)) /\ Cardinality(InFlight(k, at)) \in Nat
<1>1. InFlight(k, at) \subseteq Requests
  BY DEF InFlight
<1> QED BY <1>1, FS_Subset, FS_CardinalityType, ConstantsAssumption

\* What being let in does to the bounds remembered for the key.
LEMMA LetInBounds ==
  ASSUME NEW q \in Requests, NEW l \in Nat \cup {NoLimit}, LetIn(q, l), TableTypes
  PROVE  /\ cap' \in [Keys -> Nat \cup {NoLimit}]
         /\ peak' \in [Keys -> Nat]
         /\ \A k \in Keys :
              k # KeyOf[q] => cap'[k] = cap[k] /\ peak'[k] = peak[k]
         /\ cap'[KeyOf[q]] # NoLimit =>
              l # NoLimit /\ cap[KeyOf[q]] # NoLimit /\ l <= cap'[KeyOf[q]]
         /\ Cardinality(InFlight(KeyOf[q], pc')) <= peak'[KeyOf[q]]
<1> DEFINE k == KeyOf[q]
           c == Cardinality(InFlight(k, pc'))
           newCap == IF l = NoLimit \/ cap[k] = NoLimit THEN NoLimit ELSE Higher(cap[k], l)
<1>1. k \in Keys /\ c \in Nat
  BY KeyFacts, InFlightCard
<1>2. cap' = [cap EXCEPT ![k] = newCap] /\ peak' = [peak EXCEPT ![k] = Higher(peak[k], c)]
  BY DEF LetIn
<1>3. cap[k] \in Nat \cup {NoLimit} /\ peak[k] \in Nat
  BY <1>1 DEF TableTypes
<1>4. newCap \in Nat \cup {NoLimit} /\ (newCap # NoLimit => l # NoLimit /\ cap[k] # NoLimit /\ l <= newCap)
  BY <1>3 DEF Higher, NoLimit
<1>5. Higher(peak[k], c) \in Nat /\ c <= Higher(peak[k], c)
  BY <1>1, <1>3 DEF Higher
<1> HIDE DEF newCap, c
<1> QED BY <1>1, <1>2, <1>4, <1>5 DEF TableTypes, c

\* Noting the outcome of the last attempt keeps the list of attempts.
LEMMA OutcomeFacts ==
  ASSUME NEW q \in Requests, NEW o \in {"pending", "answered", "5xx", "error"},
         AttemptTypes, Len(attempts[q]) > 0, Outcome(q, o)
  PROVE  /\ attempts' \in [Requests -> Seq(Attempt)]
         /\ \A r \in Requests : Len(attempts'[r]) = Len(attempts[r])
<1> DEFINE s == attempts[q]
           n == Len(s)
           x == [s[n] EXCEPT !.outcome = o]
<1>1. s \in Seq(Attempt) /\ n \in Nat /\ n > 0
  BY DEF AttemptTypes
<1>2. s[n] \in Attempt
  BY <1>1
<1>3. x \in Attempt
  BY <1>2 DEF Attempt
<1>4. attempts' = [attempts EXCEPT ![q] = [s EXCEPT ![n] = x]]
  BY DEF Outcome
<1> HIDE DEF x
<1>5. [s EXCEPT ![n] = x] \in Seq(Attempt) /\ Len([s EXCEPT ![n] = x]) = n
  BY <1>1, <1>3
<1> QED BY <1>4, <1>5 DEF AttemptTypes

\* A forward adds one attempt to the list.
LEMMA ForwardFacts ==
  ASSUME NEW q \in Requests, HandlerTypes, AttemptTypes, Forward(q)
  PROVE  /\ attempts' \in [Requests -> Seq(Attempt)]
         /\ Len(attempts'[q]) = Len(attempts[q]) + 1
         /\ Len(attempts[q]) + 1 <= Len(chain[q])
         /\ \A r \in Requests \ {q} : attempts'[r] = attempts[r]
<1> DEFINE s == attempts[q]
           b == chain[q][Len(s) + 1]
           x == [backend |-> b, body |-> body[q], outcome |-> "pending"]
<1>1. s \in Seq(Attempt) /\ chain[q] \in Seq(Backends) /\ Len(s) + 1 \in 1..Len(chain[q])
  BY DEF AttemptTypes, Forward
<1>2. b \in Backends
  BY <1>1
<1>3. x \in Attempt
  BY <1>2 DEF Attempt, HandlerTypes
<1>4. attempts' = [attempts EXCEPT ![q] = Append(s, x)]
  BY DEF Forward
<1> HIDE DEF x, b
<1>5. Append(s, x) \in Seq(Attempt) /\ Len(Append(s, x)) = Len(s) + 1
  BY <1>1, <1>3
<1> QED BY <1>1, <1>4, <1>5 DEF AttemptTypes

\* Steps that leave the tables and the recording in progress alone.
LEMMA LedgerKept ==
  ASSUME LedgerAgrees, UNCHANGED <<mutex, usage, logged, clean>>,
         mutex # NoOne => toks'[mutex] = toks[mutex]
  PROVE  LedgerAgrees'
  BY DEF LedgerAgrees, Pending

\* The tokens of the recording in progress are a number.
LEMMA PendingNat ==
  ASSUME RecordTypes, NEW k \in Keys
  PROVE  Pending(k) \in Nat
<1>1. Tokens \subseteq Nat
  BY ConstantsAssumption DEF Tokens
<1> QED BY <1>1 DEF RecordTypes, Pending

\* A step of one handler that does not let it in adds nobody to those in flight.
LEMMA Shrinks ==
  ASSUME NEW q \in Requests, NEW lab, HandlerTypes, pc' = [pc EXCEPT ![q] = lab],
         pc[q] \in Unsettled \/ lab \notin Unsettled
  PROVE  \A k \in Keys : InFlight(k, pc') \subseteq InFlight(k, pc)
  BY DEF InFlight, HandlerTypes

\* Fewer requests in flight and no more usage: the bound survives.
LEMMA OvershootKept ==
  ASSUME TableTypes, OvershootInv, UNCHANGED <<cap, peak>>, usage' \in [Keys -> Nat],
         \A k \in Keys : usage'[k] <= usage[k],
         \A k \in Keys : InFlight(k, pc') \subseteq InFlight(k, pc)
  PROVE  OvershootInv'
<1> SUFFICES ASSUME NEW k \in Keys, cap[k] # NoLimit
             PROVE  \/ usage'[k] = 0 /\ InFlight(k, pc') = {}
                    \/ usage'[k] + MaxTok * Cardinality(InFlight(k, pc'))
                         < cap[k] + MaxTok * peak[k]
  BY DEF OvershootInv, InFlight
<1> DEFINE a == Cardinality(InFlight(k, pc'))
           b == Cardinality(InFlight(k, pc))
<1>1. a \in Nat /\ b \in Nat /\ a <= b
  BY InFlightCard, FS_Subset
<1>2. MaxTok * a <= MaxTok * b /\ MaxTok * a \in Nat /\ MaxTok * b \in Nat
  BY <1>1, Monotone, ConstantsAssumption
<1>3. cap[k] \in Nat /\ peak[k] \in Nat /\ MaxTok * peak[k] \in Nat
      /\ usage[k] \in Nat /\ usage'[k] \in Nat
  BY ConstantsAssumption DEF TableTypes
<1>4. CASE usage[k] = 0 /\ InFlight(k, pc) = {}
  BY <1>3, <1>4
<1>5. CASE usage[k] + MaxTok * b < cap[k] + MaxTok * peak[k]
  <2> HIDE DEF a, b
  <2>1. \A u, v, x, y, z \in Nat : v + y < z /\ u <= v /\ x <= y => u + x < z
    OBVIOUS
  <2>2. cap[k] + MaxTok * peak[k] \in Nat
    BY <1>3
  <2> QED BY <1>2, <1>3, <1>5, <2>1, <2>2 DEF a
<1> QED BY <1>4, <1>5 DEF OvershootInv

\* A request is let in only below the limit it read, and is then counted.
LEMMA OvershootLetIn ==
  ASSUME NEW q \in Requests, NEW l \in Nat \cup {NoLimit}, HandlerTypes, TableTypes,
         OvershootInv, LetIn(q, l), UNCHANGED usage,
         l # NoLimit => usage[KeyOf[q]] < l
  PROVE  OvershootInv'
<1> SUFFICES ASSUME NEW k \in Keys, cap'[k] # NoLimit
             PROVE  \/ usage[k] = 0 /\ InFlight(k, pc') = {}
                    \/ usage[k] + MaxTok * Cardinality(InFlight(k, pc'))
                         < cap'[k] + MaxTok * peak'[k]
  BY DEF OvershootInv, InFlight
<1>1. CASE k # KeyOf[q]
  <2>1. cap'[k] = cap[k] /\ peak'[k] = peak[k]
    BY <1>1, LetInBounds
  <2>2. InFlight(k, pc') = InFlight(k, pc)
    BY <1>1, LetInGoes DEF InFlight, HandlerTypes
  <2> QED BY <2>1, <2>2 DEF OvershootInv
<1>2. CASE k = KeyOf[q]
  <2> DEFINE c == Cardinality(InFlight(k, pc'))
  <2>1. l \in Nat /\ l <= cap'[k] /\ c <= peak'[k] /\ cap'[k] \in Nat /\ peak'[k] \in Nat
    BY <1>2, LetInBounds
  <2>2. c \in Nat
    BY InFlightCard
  <2> HIDE DEF c
  <2>3. MaxTok * c <= MaxTok * peak'[k] /\ MaxTok * c \in Nat /\ MaxTok * peak'[k] \in Nat
    <3>1. MaxTok \in Nat
      BY ConstantsAssumption
    <3> QED BY <2>1, <2>2, <3>1, Monotone
  <2>4. usage[k] < l /\ usage[k] \in Nat
    BY <1>2, <2>1 DEF TableTypes, NoLimit
  <2>5. \A u, v, w, x, y \in Nat : u < v /\ v <= w /\ x <= y => u + x < w + y
    OBVIOUS
  <2> QED BY <2>1, <2>3, <2>4, <2>5 DEF c
<1> QED BY <1>1, <1>2

\* A request that settles stops being in flight and adds at most MaxTok.
LEMMA OvershootRecord ==
  ASSUME NEW q \in Requests, HandlerTypes, RecordTypes, TableTypes, OvershootInv,
         RecordUsage(q)
  PROVE  OvershootInv'
<1> DEFINE t == toks[q]
<1>1. t \in Nat /\ t <= MaxTok /\ MaxTok \in Nat /\ KeyOf[q] \in Keys
  BY ConstantsAssumption DEF RecordUsage, RecordTypes, Tokens
<1>2. /\ UNCHANGED <<cap, peak>>
      /\ usage' = [usage EXCEPT ![KeyOf[q]] = usage[KeyOf[q]] + t]
      /\ pc[q] = "upsert"
      /\ pc' = [pc EXCEPT ![q] = "done"] \/ pc' = [pc EXCEPT ![q] = "finish"]
  BY DEF RecordUsage, Added, AfterRecord, Goto, ghostVars
<1> HIDE DEF t
<1> SUFFICES ASSUME NEW k \in Keys, cap[k] # NoLimit
             PROVE  \/ usage'[k] = 0 /\ InFlight(k, pc') = {}
                    \/ usage'[k] + MaxTok * Cardinality(InFlight(k, pc'))
                         < cap[k] + MaxTok * peak[k]
  BY <1>2 DEF OvershootInv, InFlight
<1>3. CASE k # KeyOf[q]
  <2>1. InFlight(k, pc') = InFlight(k, pc)
    BY <1>2, <1>3 DEF InFlight, HandlerTypes
  <2>2. usage'[k] = usage[k]
    BY <1>2, <1>3 DEF TableTypes
  <2> QED BY <2>1, <2>2 DEF OvershootInv
<1>4. CASE k = KeyOf[q]
  <2> DEFINE S == InFlight(k, pc)
             c == Cardinality(S)
  <2>1. q \in S /\ InFlight(k, pc') = S \ {q}
    BY <1>2, <1>4 DEF InFlight, HandlerTypes, Unsettled
  <2>2. IsFiniteSet(S) /\ c \in Nat
    BY InFlightCard
  <2>3. Cardinality(S \ {q}) = c - 1 /\ c > 0
    <3> HIDE DEF S
    <3>1. IsFiniteSet(S \ {q}) /\ Cardinality(S \ {q}) = c - 1
      BY <2>1, <2>2, FS_RemoveElement
    <3>2. Cardinality(S \ {q}) \in Nat
      BY <3>1, FS_CardinalityType
    <3> QED BY <2>2, <3>1, <3>2
  <2>4. usage'[k] = usage[k] + t /\ usage[k] \in Nat
    BY <1>2, <1>4 DEF TableTypes
  <2>5. usage[k] + MaxTok * c < cap[k] + MaxTok * peak[k]
    BY <2>1 DEF OvershootInv
  <2> HIDE DEF c, S
  <2>6. MaxTok * (c - 1) = MaxTok * c - MaxTok /\ MaxTok * c \in Nat
    BY <1>1, <2>2, <2>3, Product
  <2>7. cap[k] + MaxTok * peak[k] \in Nat
    BY <1>1 DEF TableTypes
  <2>8. \A u, x, m, z, y \in Nat : u + x < z /\ y <= m => u + y + (x - m) < z
    OBVIOUS
  <2> QED BY <1>1, <2>1, <2>3, <2>4, <2>5, <2>6, <2>7, <2>8
<1> QED BY <1>3, <1>4

\* The initial states are typed.
LEMMA TypeInit == Init => TypeOK
<1> SUFFICES ASSUME Init PROVE TypeOK
  OBVIOUS
<1>1. HandlerTypes
  BY DEF Init, HandlerTypes, NoStatus, HttpStatus, AuditTrail
<1>2. AttemptTypes
  BY DEF Init, AttemptTypes
<1>3. RecordTypes
  BY ConstantsAssumption DEF Init, RecordTypes, NoLimit, NoUsage
<1>4. TableTypes
  BY ConstantsAssumption DEF Init, TableTypes, NoLimit
<1> QED BY <1>1, <1>2, <1>3, <1>4, ConstantsAssumption DEF TypeOK, Counters, Init

\* Every step keeps the types of the handler's state.
LEMMA HandlerTypesNext ==
  ASSUME HandlerTypes
  PROVE  [Next]_vars => HandlerTypes'
<1> USE DEF HandlerTypes, handlerVars, budgetVars, ghostVars, Goto, Done, Unsettled
<1>0. ASSUME UNCHANGED vars
      PROVE  HandlerTypes'
  BY <1>0 DEF vars
<1>1. ASSUME NEW q \in Requests, NEW e \in {"chat", "messages"}, Block(q, e)
      PROVE  HandlerTypes'
  BY <1>1, StatusFacts, TrailFacts DEF Block
<1>2. ASSUME NEW q \in Requests, NEW e \in {"chat", "messages"}, NEW m \in Models, Pass(q, e, m)
      PROVE  HandlerTypes'
  BY <1>2, LetInGoes DEF Pass
<1>3. ASSUME NEW q \in Requests, RefuseStream(q)
      PROVE  HandlerTypes'
  BY <1>3, StatusFacts DEF RefuseStream
<1>4. ASSUME NEW q \in Requests, GetLimit(q)
      PROVE  HandlerTypes'
  BY <1>4, LetInGoes DEF GetLimit
<1>5. ASSUME NEW q \in Requests, GetUsage(q)
      PROVE  HandlerTypes'
  BY <1>5, StatusFacts, LetInGoes DEF GetUsage
<1>6. ASSUME NEW q \in Requests, CheckError(q)
      PROVE  HandlerTypes'
  BY <1>6, LetInGoes DEF CheckError
<1>7. ASSUME NEW q \in Requests, Forward(q)
      PROVE  HandlerTypes'
  BY <1>7 DEF Forward
<1>8. ASSUME NEW q \in Requests, NEW s \in Statuses, Respond(q, s)
      PROVE  HandlerTypes'
  BY <1>8, StatusFacts DEF Respond
<1>9. ASSUME NEW q \in Requests, NetError(q)
      PROVE  HandlerTypes'
  BY <1>9, StatusFacts DEF NetError
<1>10. ASSUME NEW q \in Requests, NEW t \in Tokens, Chunk(q, t)
      PROVE  HandlerTypes'
  BY <1>10 DEF Chunk
<1>11. ASSUME NEW q \in Requests, ParseFail(q)
      PROVE  HandlerTypes'
  BY <1>11, StatusFacts DEF ParseFail
<1>12. ASSUME NEW q \in Requests, NEW t \in Tokens, Parse(q, t)
      PROVE  HandlerTypes'
  BY <1>12 DEF Parse
<1>13. ASSUME NEW q \in Requests, StartStream(q)
      PROVE  HandlerTypes'
  BY <1>13, TrailFacts DEF StartStream, WriteAudit
<1>14. ASSUME NEW q \in Requests, StreamAbort(q)
      PROVE  HandlerTypes'
  BY <1>14 DEF StreamAbort
<1>15. ASSUME NEW q \in Requests, StreamEnd(q)
      PROVE  HandlerTypes'
  BY <1>15 DEF StreamEnd
<1>16. ASSUME NEW q \in Requests, RecordLog(q)
      PROVE  HandlerTypes'
  BY <1>16 DEF RecordLog
<1>17. ASSUME NEW q \in Requests, RecordUsage(q)
      PROVE  HandlerTypes'
  BY <1>17 DEF RecordUsage, AfterRecord
<1>18. ASSUME NEW q \in Requests, RecordFail(q)
      PROVE  HandlerTypes'
  BY <1>18 DEF RecordFail, AfterRecord
<1>19. ASSUME NEW q \in Requests, NEW rejected \in BOOLEAN, Finish(q, rejected)
      PROVE  HandlerTypes'
  BY <1>19, StatusFacts, TrailFacts DEF Finish, WriteAudit
<1>20. ASSUME NEW q \in Requests, Disconnect(q)
      PROVE  HandlerTypes'
  BY <1>20 DEF Disconnect
<1>21. ASSUME NEW k \in Keys, NEW l \in Limits, AdminSetLimit(k, l)
      PROVE  HandlerTypes'
  BY <1>21 DEF AdminSetLimit
<1>22. ASSUME NEW k \in Keys, NEW l \in Limits \cup {NoLimit}, ConsoleSetLimit(k, l)
      PROVE  HandlerTypes'
  BY <1>22 DEF ConsoleSetLimit
<1>23. ASSUME NEW k \in Keys, AdminReset(k)
      PROVE  HandlerTypes'
  BY <1>23 DEF AdminReset
<1>24. ASSUME NEW k \in Keys, ConsoleReset(k)
      PROVE  HandlerTypes'
  BY <1>24 DEF ConsoleReset
<1>25. ASSUME Crash
      PROVE  HandlerTypes'
  BY <1>25 DEF Crash
<1>26. ASSUME NEW q \in Requests, Handler(q) \/ Disconnect(q)
      PROVE  HandlerTypes'
  BY <1>26, <1>1, <1>2, <1>3, <1>4, <1>5, <1>6, <1>7, <1>8, <1>9, <1>10,
     <1>11, <1>12, <1>13, <1>14, <1>15, <1>16, <1>17, <1>18, <1>19, <1>20
  DEF Handler, Settle
<1>27. ASSUME NEW k \in Keys, Operator(k)
      PROVE  HandlerTypes'
  BY <1>27, <1>21, <1>22, <1>23, <1>24
  DEF Operator
<1> QED
  BY <1>0, <1>25, <1>26, <1>27 DEF Next

\* Every step keeps the types of what record_spend and check work on.
LEMMA RecordTypesNext ==
  ASSUME HandlerTypes, TableTypes, RecordTypes
  PROVE  [Next]_vars => RecordTypes'
<1> USE DEF RecordTypes, HandlerTypes, TableTypes, Unsettled, handlerVars, budgetVars, ghostVars, Goto, Done
<1>0. ASSUME UNCHANGED vars
      PROVE  RecordTypes'
  BY <1>0 DEF vars
<1>1. ASSUME NEW q \in Requests, NEW e \in {"chat", "messages"}, Block(q, e)
      PROVE  RecordTypes'
  BY <1>1 DEF Block
<1>2. ASSUME NEW q \in Requests, NEW e \in {"chat", "messages"}, NEW m \in Models, Pass(q, e, m)
      PROVE  RecordTypes'
  BY <1>2, LetInGoes DEF Pass
<1>3. ASSUME NEW q \in Requests, RefuseStream(q)
      PROVE  RecordTypes'
  BY <1>3 DEF RefuseStream
<1>4. ASSUME NEW q \in Requests, GetLimit(q)
      PROVE  RecordTypes'
  BY <1>4, LetInGoes, KeyFacts DEF GetLimit, NoLimit
<1>5. ASSUME NEW q \in Requests, GetUsage(q)
      PROVE  RecordTypes'
  BY <1>5, LetInGoes DEF GetUsage
<1>6. ASSUME NEW q \in Requests, CheckError(q)
      PROVE  RecordTypes'
  BY <1>6, LetInGoes DEF CheckError
<1>7. ASSUME NEW q \in Requests, Forward(q)
      PROVE  RecordTypes'
  BY <1>7 DEF Forward
<1>8. ASSUME NEW q \in Requests, NEW s \in Statuses, Respond(q, s)
      PROVE  RecordTypes'
  BY <1>8 DEF Respond
<1>9. ASSUME NEW q \in Requests, NetError(q)
      PROVE  RecordTypes'
  BY <1>9 DEF NetError
<1>10. ASSUME NEW q \in Requests, NEW t \in Tokens, Chunk(q, t)
      PROVE  RecordTypes'
  BY <1>10 DEF Chunk
<1>11. ASSUME NEW q \in Requests, ParseFail(q)
      PROVE  RecordTypes'
  BY <1>11 DEF ParseFail
<1>12. ASSUME NEW q \in Requests, NEW t \in Tokens, Parse(q, t)
      PROVE  RecordTypes'
  BY <1>12 DEF Parse
<1>13. ASSUME NEW q \in Requests, StartStream(q)
      PROVE  RecordTypes'
  BY <1>13 DEF StartStream, WriteAudit
<1>14. ASSUME NEW q \in Requests, StreamAbort(q)
      PROVE  RecordTypes'
  BY <1>14 DEF StreamAbort
<1>15. ASSUME NEW q \in Requests, StreamEnd(q)
      PROVE  RecordTypes'
  BY <1>15 DEF StreamEnd
<1>16. ASSUME NEW q \in Requests, RecordLog(q)
      PROVE  RecordTypes'
  BY <1>16, KeyFacts DEF RecordLog
<1>17. ASSUME NEW q \in Requests, RecordUsage(q)
      PROVE  RecordTypes'
  BY <1>17, KeyFacts DEF RecordUsage, AfterRecord
<1>18. ASSUME NEW q \in Requests, RecordFail(q)
      PROVE  RecordTypes'
  BY <1>18, KeyFacts DEF RecordFail, AfterRecord
<1>19. ASSUME NEW q \in Requests, NEW rejected \in BOOLEAN, Finish(q, rejected)
      PROVE  RecordTypes'
  BY <1>19 DEF Finish, WriteAudit
<1>20. ASSUME NEW q \in Requests, Disconnect(q)
      PROVE  RecordTypes'
  BY <1>20 DEF Disconnect
<1>21. ASSUME NEW k \in Keys, NEW l \in Limits, AdminSetLimit(k, l)
      PROVE  RecordTypes'
  BY <1>21 DEF AdminSetLimit
<1>22. ASSUME NEW k \in Keys, NEW l \in Limits \cup {NoLimit}, ConsoleSetLimit(k, l)
      PROVE  RecordTypes'
  BY <1>22 DEF ConsoleSetLimit
<1>23. ASSUME NEW k \in Keys, AdminReset(k)
      PROVE  RecordTypes'
  BY <1>23 DEF AdminReset
<1>24. ASSUME NEW k \in Keys, ConsoleReset(k)
      PROVE  RecordTypes'
  BY <1>24 DEF ConsoleReset
<1>25. ASSUME Crash
      PROVE  RecordTypes'
  BY <1>25, KeyFacts DEF Crash
<1>26. ASSUME NEW q \in Requests, Handler(q) \/ Disconnect(q)
      PROVE  RecordTypes'
  BY <1>26, <1>1, <1>2, <1>3, <1>4, <1>5, <1>6, <1>7, <1>8, <1>9, <1>10,
     <1>11, <1>12, <1>13, <1>14, <1>15, <1>16, <1>17, <1>18, <1>19, <1>20
  DEF Handler, Settle
<1>27. ASSUME NEW k \in Keys, Operator(k)
      PROVE  RecordTypes'
  BY <1>27, <1>21, <1>22, <1>23, <1>24
  DEF Operator
<1> QED
  BY <1>0, <1>25, <1>26, <1>27 DEF Next

\* Every step keeps the types of the budget tables.
LEMMA TableTypesNext ==
  ASSUME HandlerTypes, RecordTypes, TableTypes
  PROVE  [Next]_vars => TableTypes'
<1> USE DEF TableTypes, handlerVars, budgetVars, ghostVars, Goto, Done
<1>0. ASSUME UNCHANGED vars
      PROVE  TableTypes'
  BY <1>0 DEF vars
<1>1. ASSUME NEW q \in Requests, NEW e \in {"chat", "messages"}, Block(q, e)
      PROVE  TableTypes'
  BY <1>1 DEF Block
<1>2. ASSUME NEW q \in Requests, NEW e \in {"chat", "messages"}, NEW m \in Models, Pass(q, e, m)
      PROVE  TableTypes'
  BY <1>2, LetInBounds, KeyFacts DEF Pass
<1>3. ASSUME NEW q \in Requests, RefuseStream(q)
      PROVE  TableTypes'
  BY <1>3 DEF RefuseStream
<1>4. ASSUME NEW q \in Requests, GetLimit(q)
      PROVE  TableTypes'
  BY <1>4, LetInBounds, KeyFacts DEF GetLimit
<1>5. ASSUME NEW q \in Requests, GetUsage(q)
      PROVE  TableTypes'
  BY <1>5, LetInBounds DEF GetUsage, RecordTypes
<1>6. ASSUME NEW q \in Requests, CheckError(q)
      PROVE  TableTypes'
  BY <1>6, LetInBounds DEF CheckError
<1>7. ASSUME NEW q \in Requests, Forward(q)
      PROVE  TableTypes'
  BY <1>7 DEF Forward
<1>8. ASSUME NEW q \in Requests, NEW s \in Statuses, Respond(q, s)
      PROVE  TableTypes'
  BY <1>8 DEF Respond
<1>9. ASSUME NEW q \in Requests, NetError(q)
      PROVE  TableTypes'
  BY <1>9 DEF NetError
<1>10. ASSUME NEW q \in Requests, NEW t \in Tokens, Chunk(q, t)
      PROVE  TableTypes'
  BY <1>10 DEF Chunk
<1>11. ASSUME NEW q \in Requests, ParseFail(q)
      PROVE  TableTypes'
  BY <1>11 DEF ParseFail
<1>12. ASSUME NEW q \in Requests, NEW t \in Tokens, Parse(q, t)
      PROVE  TableTypes'
  BY <1>12 DEF Parse
<1>13. ASSUME NEW q \in Requests, StartStream(q)
      PROVE  TableTypes'
  BY <1>13 DEF StartStream, WriteAudit
<1>14. ASSUME NEW q \in Requests, StreamAbort(q)
      PROVE  TableTypes'
  BY <1>14 DEF StreamAbort
<1>15. ASSUME NEW q \in Requests, StreamEnd(q)
      PROVE  TableTypes'
  BY <1>15 DEF StreamEnd
<1>16. ASSUME NEW q \in Requests, RecordLog(q)
      PROVE  TableTypes'
  BY <1>16, KeyFacts, ConstantsAssumption DEF RecordLog, RecordTypes, Tokens
<1>17. ASSUME NEW q \in Requests, RecordUsage(q)
      PROVE  TableTypes'
  BY <1>17, KeyFacts, ConstantsAssumption DEF RecordUsage, Added, RecordTypes, AfterRecord, Tokens
<1>18. ASSUME NEW q \in Requests, RecordFail(q)
      PROVE  TableTypes'
  BY <1>18 DEF RecordFail
<1>19. ASSUME NEW q \in Requests, NEW rejected \in BOOLEAN, Finish(q, rejected)
      PROVE  TableTypes'
  BY <1>19 DEF Finish, WriteAudit
<1>20. ASSUME NEW q \in Requests, Disconnect(q)
      PROVE  TableTypes'
  BY <1>20 DEF Disconnect
<1>21. ASSUME NEW k \in Keys, NEW l \in Limits, AdminSetLimit(k, l)
      PROVE  TableTypes'
  BY <1>21, ConstantsAssumption DEF AdminSetLimit
<1>22. ASSUME NEW k \in Keys, NEW l \in Limits \cup {NoLimit}, ConsoleSetLimit(k, l)
      PROVE  TableTypes'
  BY <1>22, ConstantsAssumption DEF ConsoleSetLimit
<1>23. ASSUME NEW k \in Keys, AdminReset(k)
      PROVE  TableTypes'
  BY <1>23 DEF AdminReset
<1>24. ASSUME NEW k \in Keys, ConsoleReset(k)
      PROVE  TableTypes'
  BY <1>24 DEF ConsoleReset
<1>25. ASSUME Crash
      PROVE  TableTypes'
  BY <1>25 DEF Crash
<1>26. ASSUME NEW q \in Requests, Handler(q) \/ Disconnect(q)
      PROVE  TableTypes'
  BY <1>26, <1>1, <1>2, <1>3, <1>4, <1>5, <1>6, <1>7, <1>8, <1>9, <1>10,
     <1>11, <1>12, <1>13, <1>14, <1>15, <1>16, <1>17, <1>18, <1>19, <1>20
  DEF Handler, Settle
<1>27. ASSUME NEW k \in Keys, Operator(k)
      PROVE  TableTypes'
  BY <1>27, <1>21, <1>22, <1>23, <1>24
  DEF Operator
<1> QED
  BY <1>0, <1>25, <1>26, <1>27 DEF Next

\* Every step keeps the types of the fallback loop.
LEMMA AttemptTypesNext ==
  ASSUME HandlerTypes, AttemptTypes
  PROVE  [Next]_vars => AttemptTypes'
<1> USE DEF AttemptTypes, HandlerTypes, handlerVars, budgetVars, ghostVars, Goto, Done
<1>0. ASSUME UNCHANGED vars
      PROVE  AttemptTypes'
  BY <1>0 DEF vars
<1>1. ASSUME NEW q \in Requests, NEW e \in {"chat", "messages"}, Block(q, e)
      PROVE  AttemptTypes'
  BY <1>1 DEF Block
<1>2. ASSUME NEW q \in Requests, NEW e \in {"chat", "messages"}, NEW m \in Models, Pass(q, e, m)
      PROVE  AttemptTypes'
  <2> DEFINE c == RouteChain(m)
  <2>1. /\ chain' = [chain EXCEPT ![q] = c]
        /\ UNCHANGED attempts
        /\ Len(attempts[q]) = 0
    BY <1>2 DEF Pass
  <2>2. pc' = [pc EXCEPT ![q] = "limit"] \/ pc' = [pc EXCEPT ![q] = "forward"]
    BY <1>2, LetInGoes DEF Pass
  <2>3. c \in Seq(Backends) /\ Len(c) > 0
    BY ChainNonEmpty
  <2> HIDE DEF c
  <2> QED BY <2>1, <2>2, <2>3
<1>3. ASSUME NEW q \in Requests, RefuseStream(q)
      PROVE  AttemptTypes'
  BY <1>3 DEF RefuseStream
<1>4. ASSUME NEW q \in Requests, GetLimit(q)
      PROVE  AttemptTypes'
  BY <1>4, LetInGoes DEF GetLimit
<1>5. ASSUME NEW q \in Requests, GetUsage(q)
      PROVE  AttemptTypes'
  BY <1>5, LetInGoes DEF GetUsage
<1>6. ASSUME NEW q \in Requests, CheckError(q)
      PROVE  AttemptTypes'
  BY <1>6, LetInGoes DEF CheckError
<1>7. ASSUME NEW q \in Requests, Forward(q)
      PROVE  AttemptTypes'
  <2>1. pc' = [pc EXCEPT ![q] = "waiting"] /\ UNCHANGED chain
    BY <1>7 DEF Forward
  <2>2. /\ attempts' \in [Requests -> Seq(Attempt)]
        /\ Len(attempts'[q]) = Len(attempts[q]) + 1
        /\ Len(attempts[q]) + 1 <= Len(chain[q])
        /\ \A r \in Requests \ {q} : attempts'[r] = attempts[r]
    BY <1>7, ForwardFacts
  <2>3. \A r \in Requests :
          /\ Len(attempts'[r]) = IF r = q THEN Len(attempts[q]) + 1 ELSE Len(attempts[r])
          /\ Len(attempts[r]) \in Nat /\ Len(chain[r]) \in Nat
    BY <2>2
  <2>4. \A r \in Requests :
          /\ Len(attempts'[r]) <= Len(chain'[r])
          /\ pc'[r] \in {"limit", "usage", "forward"} => Len(attempts'[r]) < Len(chain'[r])
          /\ pc'[r] = "waiting" => Len(attempts'[r]) > 0
          /\ pc'[r] = "new" => Len(attempts'[r]) = 0
    BY <2>1, <2>2, <2>3
  <2> QED BY <2>1, <2>2, <2>4
<1>8. ASSUME NEW q \in Requests, NEW s \in Statuses, Respond(q, s)
      PROVE  AttemptTypes'
  <2>1. Len(attempts[q]) > 0 /\ UNCHANGED chain /\ Outcome(q, IF s >= 500 THEN "5xx" ELSE "answered")
    BY <1>8 DEF Respond
  <2>2. /\ attempts' \in [Requests -> Seq(Attempt)]
        /\ \A r \in Requests : Len(attempts'[r]) = Len(attempts[r])
    BY <2>1, OutcomeFacts
  <2>3. \/ pc' = [pc EXCEPT ![q] = "commit"]
        \/ pc' = [pc EXCEPT ![q] = "forward"] /\ Len(attempts[q]) # Len(chain[q])
    BY <1>8 DEF Respond, FallsThrough, LastTry
  <2> QED BY <2>1, <2>2, <2>3
<1>9. ASSUME NEW q \in Requests, NetError(q)
      PROVE  AttemptTypes'
  <2>1. Len(attempts[q]) > 0 /\ UNCHANGED chain /\ Outcome(q, "error")
    BY <1>9 DEF NetError
  <2>2. /\ attempts' \in [Requests -> Seq(Attempt)]
        /\ \A r \in Requests : Len(attempts'[r]) = Len(attempts[r])
    BY <2>1, OutcomeFacts
  <2>3. \/ pc' = [pc EXCEPT ![q] = "done"]
        \/ pc' = [pc EXCEPT ![q] = "forward"] /\ Len(attempts[q]) # Len(chain[q])
    BY <1>9 DEF NetError, LastTry
  <2> QED BY <2>1, <2>2, <2>3
<1>10. ASSUME NEW q \in Requests, NEW t \in Tokens, Chunk(q, t)
      PROVE  AttemptTypes'
  BY <1>10 DEF Chunk
<1>11. ASSUME NEW q \in Requests, ParseFail(q)
      PROVE  AttemptTypes'
  BY <1>11 DEF ParseFail
<1>12. ASSUME NEW q \in Requests, NEW t \in Tokens, Parse(q, t)
      PROVE  AttemptTypes'
  BY <1>12 DEF Parse
<1>13. ASSUME NEW q \in Requests, StartStream(q)
      PROVE  AttemptTypes'
  BY <1>13 DEF StartStream, WriteAudit
<1>14. ASSUME NEW q \in Requests, StreamAbort(q)
      PROVE  AttemptTypes'
  BY <1>14 DEF StreamAbort
<1>15. ASSUME NEW q \in Requests, StreamEnd(q)
      PROVE  AttemptTypes'
  BY <1>15 DEF StreamEnd
<1>16. ASSUME NEW q \in Requests, RecordLog(q)
      PROVE  AttemptTypes'
  BY <1>16 DEF RecordLog
<1>17. ASSUME NEW q \in Requests, RecordUsage(q)
      PROVE  AttemptTypes'
  BY <1>17 DEF RecordUsage, AfterRecord
<1>18. ASSUME NEW q \in Requests, RecordFail(q)
      PROVE  AttemptTypes'
  BY <1>18 DEF RecordFail, AfterRecord
<1>19. ASSUME NEW q \in Requests, NEW rejected \in BOOLEAN, Finish(q, rejected)
      PROVE  AttemptTypes'
  BY <1>19 DEF Finish, WriteAudit
<1>20. ASSUME NEW q \in Requests, Disconnect(q)
      PROVE  AttemptTypes'
  BY <1>20 DEF Disconnect
<1>21. ASSUME NEW k \in Keys, NEW l \in Limits, AdminSetLimit(k, l)
      PROVE  AttemptTypes'
  BY <1>21 DEF AdminSetLimit
<1>22. ASSUME NEW k \in Keys, NEW l \in Limits \cup {NoLimit}, ConsoleSetLimit(k, l)
      PROVE  AttemptTypes'
  BY <1>22 DEF ConsoleSetLimit
<1>23. ASSUME NEW k \in Keys, AdminReset(k)
      PROVE  AttemptTypes'
  BY <1>23 DEF AdminReset
<1>24. ASSUME NEW k \in Keys, ConsoleReset(k)
      PROVE  AttemptTypes'
  BY <1>24 DEF ConsoleReset
<1>25. ASSUME Crash
      PROVE  AttemptTypes'
  BY <1>25 DEF Crash
<1>26. ASSUME NEW q \in Requests, Handler(q) \/ Disconnect(q)
      PROVE  AttemptTypes'
  BY <1>26, <1>1, <1>2, <1>3, <1>4, <1>5, <1>6, <1>7, <1>8, <1>9, <1>10,
     <1>11, <1>12, <1>13, <1>14, <1>15, <1>16, <1>17, <1>18, <1>19, <1>20
  DEF Handler, Settle
<1>27. ASSUME NEW k \in Keys, Operator(k)
      PROVE  AttemptTypes'
  BY <1>27, <1>21, <1>22, <1>23, <1>24
  DEF Operator
<1> QED
  BY <1>0, <1>25, <1>26, <1>27 DEF Next

\* The bounds on operations and restarts are kept.
LEMMA CountersNext ==
  ASSUME Counters
  PROVE  [Next]_vars => Counters'
<1> USE DEF Counters, handlerVars, budgetVars, ghostVars, Goto, Done
<1>0. ASSUME UNCHANGED vars
      PROVE  Counters'
  BY <1>0 DEF vars
<1>1. ASSUME NEW q \in Requests, NEW e \in {"chat", "messages"}, Block(q, e)
      PROVE  Counters'
  BY <1>1 DEF Block
<1>2. ASSUME NEW q \in Requests, NEW e \in {"chat", "messages"}, NEW m \in Models, Pass(q, e, m)
      PROVE  Counters'
  BY <1>2 DEF Pass
<1>3. ASSUME NEW q \in Requests, RefuseStream(q)
      PROVE  Counters'
  BY <1>3 DEF RefuseStream
<1>4. ASSUME NEW q \in Requests, GetLimit(q)
      PROVE  Counters'
  BY <1>4 DEF GetLimit
<1>5. ASSUME NEW q \in Requests, GetUsage(q)
      PROVE  Counters'
  BY <1>5 DEF GetUsage
<1>6. ASSUME NEW q \in Requests, CheckError(q)
      PROVE  Counters'
  BY <1>6 DEF CheckError
<1>7. ASSUME NEW q \in Requests, Forward(q)
      PROVE  Counters'
  BY <1>7 DEF Forward
<1>8. ASSUME NEW q \in Requests, NEW s \in Statuses, Respond(q, s)
      PROVE  Counters'
  BY <1>8 DEF Respond
<1>9. ASSUME NEW q \in Requests, NetError(q)
      PROVE  Counters'
  BY <1>9 DEF NetError
<1>10. ASSUME NEW q \in Requests, NEW t \in Tokens, Chunk(q, t)
      PROVE  Counters'
  BY <1>10 DEF Chunk
<1>11. ASSUME NEW q \in Requests, ParseFail(q)
      PROVE  Counters'
  BY <1>11 DEF ParseFail
<1>12. ASSUME NEW q \in Requests, NEW t \in Tokens, Parse(q, t)
      PROVE  Counters'
  BY <1>12 DEF Parse
<1>13. ASSUME NEW q \in Requests, StartStream(q)
      PROVE  Counters'
  BY <1>13 DEF StartStream
<1>14. ASSUME NEW q \in Requests, StreamAbort(q)
      PROVE  Counters'
  BY <1>14 DEF StreamAbort
<1>15. ASSUME NEW q \in Requests, StreamEnd(q)
      PROVE  Counters'
  BY <1>15 DEF StreamEnd
<1>16. ASSUME NEW q \in Requests, RecordLog(q)
      PROVE  Counters'
  BY <1>16 DEF RecordLog
<1>17. ASSUME NEW q \in Requests, RecordUsage(q)
      PROVE  Counters'
  BY <1>17 DEF RecordUsage
<1>18. ASSUME NEW q \in Requests, RecordFail(q)
      PROVE  Counters'
  BY <1>18 DEF RecordFail
<1>19. ASSUME NEW q \in Requests, NEW rejected \in BOOLEAN, Finish(q, rejected)
      PROVE  Counters'
  BY <1>19 DEF Finish
<1>20. ASSUME NEW q \in Requests, Disconnect(q)
      PROVE  Counters'
  BY <1>20 DEF Disconnect
<1>21. ASSUME NEW k \in Keys, NEW l \in Limits, AdminSetLimit(k, l)
      PROVE  Counters'
  BY <1>21, ConstantsAssumption DEF AdminSetLimit
<1>22. ASSUME NEW k \in Keys, NEW l \in Limits \cup {NoLimit}, ConsoleSetLimit(k, l)
      PROVE  Counters'
  BY <1>22, ConstantsAssumption DEF ConsoleSetLimit
<1>23. ASSUME NEW k \in Keys, AdminReset(k)
      PROVE  Counters'
  BY <1>23, ConstantsAssumption DEF AdminReset
<1>24. ASSUME NEW k \in Keys, ConsoleReset(k)
      PROVE  Counters'
  BY <1>24, ConstantsAssumption DEF ConsoleReset
<1>25. ASSUME Crash
      PROVE  Counters'
  BY <1>25, ConstantsAssumption DEF Crash
<1>26. ASSUME NEW q \in Requests, Handler(q) \/ Disconnect(q)
      PROVE  Counters'
  BY <1>26, <1>1, <1>2, <1>3, <1>4, <1>5, <1>6, <1>7, <1>8, <1>9, <1>10,
     <1>11, <1>12, <1>13, <1>14, <1>15, <1>16, <1>17, <1>18, <1>19, <1>20
  DEF Handler, Settle
<1>27. ASSUME NEW k \in Keys, Operator(k)
      PROVE  Counters'
  BY <1>27, <1>21, <1>22, <1>23, <1>24
  DEF Operator
<1> QED
  BY <1>0, <1>25, <1>26, <1>27 DEF Next

\* Every step keeps the counter and the spend log in agreement.
LEMMA LedgerNext ==
  ASSUME HandlerTypes, RecordTypes, TableTypes, LedgerAgrees
  PROVE  [Next]_vars => LedgerAgrees'
<1> USE DEF handlerVars, budgetVars, ghostVars, Goto, Done
<1>0. ASSUME UNCHANGED vars
      PROVE  LedgerAgrees'
  BY <1>0, LedgerKept DEF vars
<1>1. ASSUME NEW q \in Requests, NEW e \in {"chat", "messages"}, Block(q, e)
      PROVE  LedgerAgrees'
  BY <1>1, LedgerKept DEF Block
<1>2. ASSUME NEW q \in Requests, NEW e \in {"chat", "messages"}, NEW m \in Models, Pass(q, e, m)
      PROVE  LedgerAgrees'
  BY <1>2, LedgerKept DEF Pass
<1>3. ASSUME NEW q \in Requests, RefuseStream(q)
      PROVE  LedgerAgrees'
  BY <1>3, LedgerKept DEF RefuseStream
<1>4. ASSUME NEW q \in Requests, GetLimit(q)
      PROVE  LedgerAgrees'
  BY <1>4, LedgerKept DEF GetLimit
<1>5. ASSUME NEW q \in Requests, GetUsage(q)
      PROVE  LedgerAgrees'
  BY <1>5, LedgerKept DEF GetUsage
<1>6. ASSUME NEW q \in Requests, CheckError(q)
      PROVE  LedgerAgrees'
  BY <1>6, LedgerKept DEF CheckError
<1>7. ASSUME NEW q \in Requests, Forward(q)
      PROVE  LedgerAgrees'
  BY <1>7, LedgerKept DEF Forward
<1>8. ASSUME NEW q \in Requests, NEW s \in Statuses, Respond(q, s)
      PROVE  LedgerAgrees'
  BY <1>8, LedgerKept DEF Respond
<1>9. ASSUME NEW q \in Requests, NetError(q)
      PROVE  LedgerAgrees'
  BY <1>9, LedgerKept DEF NetError
<1>10. ASSUME NEW q \in Requests, NEW t \in Tokens, Chunk(q, t)
      PROVE  LedgerAgrees'
  <2>1. mutex # NoOne => toks'[mutex] = toks[mutex]
    BY <1>10 DEF Chunk, RecordTypes
  <2> QED BY <1>10, <2>1, LedgerKept DEF Chunk
<1>11. ASSUME NEW q \in Requests, ParseFail(q)
      PROVE  LedgerAgrees'
  BY <1>11, LedgerKept DEF ParseFail
<1>12. ASSUME NEW q \in Requests, NEW t \in Tokens, Parse(q, t)
      PROVE  LedgerAgrees'
  <2>1. mutex # NoOne => toks'[mutex] = toks[mutex]
    BY <1>12 DEF Parse, RecordTypes
  <2> QED BY <1>12, <2>1, LedgerKept DEF Parse
<1>13. ASSUME NEW q \in Requests, StartStream(q)
      PROVE  LedgerAgrees'
  BY <1>13, LedgerKept DEF StartStream
<1>14. ASSUME NEW q \in Requests, StreamAbort(q)
      PROVE  LedgerAgrees'
  BY <1>14, LedgerKept DEF StreamAbort
<1>15. ASSUME NEW q \in Requests, StreamEnd(q)
      PROVE  LedgerAgrees'
  BY <1>15, LedgerKept DEF StreamEnd
<1>16. ASSUME NEW q \in Requests, RecordLog(q)
      PROVE  LedgerAgrees'
  <2>1. /\ mutex = NoOne /\ mutex' = q /\ toks[q] \in Nat
        /\ UNCHANGED <<toks, usage, clean>>
        /\ logged' = [logged EXCEPT ![KeyOf[q]] = logged[KeyOf[q]] + toks[q]]
    BY <1>16, ConstantsAssumption DEF RecordLog, RecordTypes, Tokens
  <2> QED BY <2>1, KeyFacts DEF LedgerAgrees, Pending, TableTypes
<1>17. ASSUME NEW q \in Requests, RecordUsage(q)
      PROVE  LedgerAgrees'
  <2>1. /\ mutex = q /\ mutex' = NoOne /\ toks[q] \in Nat
        /\ UNCHANGED <<logged, clean>>
        /\ usage' = [usage EXCEPT ![KeyOf[q]] = usage[KeyOf[q]] + toks[q]]
    BY <1>17, ConstantsAssumption DEF RecordUsage, RecordTypes, Tokens, Added
  <2> QED BY <2>1, KeyFacts DEF LedgerAgrees, Pending, TableTypes
<1>18. ASSUME NEW q \in Requests, RecordFail(q)
      PROVE  LedgerAgrees'
  <2>1. CASE pc[q] = "record"
    <3>1. mutex = NoOne
      BY <1>18, <2>1, KeyFacts DEF RecordFail, RecordTypes
    <3> QED BY <1>18, <2>1, <3>1, LedgerKept DEF RecordFail
  <2>2. CASE pc[q] = "upsert"
    <3>1. /\ mutex = q /\ mutex' = NoOne /\ toks[q] \in Nat
          /\ UNCHANGED <<usage, logged>>
          /\ clean' = clean \ {KeyOf[q]}
      BY <1>18, <2>2, ConstantsAssumption DEF RecordFail, RecordTypes, Tokens
    <3> QED BY <3>1, KeyFacts DEF LedgerAgrees, Pending, TableTypes
  <2> QED BY <1>18, <2>1, <2>2 DEF RecordFail
<1>19. ASSUME NEW q \in Requests, NEW rejected \in BOOLEAN, Finish(q, rejected)
      PROVE  LedgerAgrees'
  BY <1>19, LedgerKept DEF Finish
<1>20. ASSUME NEW q \in Requests, Disconnect(q)
      PROVE  LedgerAgrees'
  BY <1>20, LedgerKept DEF Disconnect
<1>21. ASSUME NEW k \in Keys, NEW l \in Limits, AdminSetLimit(k, l)
      PROVE  LedgerAgrees'
  BY <1>21, LedgerKept DEF AdminSetLimit
<1>22. ASSUME NEW k \in Keys, NEW l \in Limits \cup {NoLimit}, ConsoleSetLimit(k, l)
      PROVE  LedgerAgrees'
  BY <1>22, LedgerKept DEF ConsoleSetLimit
<1>23. ASSUME NEW k \in Keys, AdminReset(k)
      PROVE  LedgerAgrees'
  <2>1. \A j \in Keys : Pending(j) \in Nat /\ Pending(j)' = Pending(j)
    BY <1>23, PendingNat DEF AdminReset, Pending
  <2> QED BY <1>23, <2>1 DEF AdminReset, LedgerAgrees, TableTypes
<1>24. ASSUME NEW k \in Keys, ConsoleReset(k)
      PROVE  LedgerAgrees'
  <2>1. \A j \in Keys : Pending(j) \in Nat /\ Pending(j)' = Pending(j)
    BY <1>24, PendingNat DEF ConsoleReset, Pending
  <2> QED BY <1>24, <2>1 DEF ConsoleReset, LedgerAgrees, TableTypes
<1>25. ASSUME Crash
      PROVE  LedgerAgrees'
  <2>1. mutex' = NoOne /\ UNCHANGED <<usage, logged>>
    BY <1>25 DEF Crash
  <2>2. \A j \in Keys : Pending(j) \in Nat /\ Pending(j)' = 0
    BY <2>1, PendingNat DEF Pending
  <2>3. \A j \in Keys : j \in clean' => j \in clean /\ Pending(j) = 0
    <3> SUFFICES ASSUME NEW j \in Keys, j \in clean', Pending(j) # 0
                 PROVE  FALSE
      BY <1>25 DEF Crash
    <3>1. mutex \in Requests /\ KeyOf[mutex] = j
      BY DEF Pending, RecordTypes
    <3>2. pc[mutex] = "upsert"
      BY <3>1 DEF RecordTypes
    <3> QED BY <1>25, <3>1, <3>2 DEF Crash
  <2> QED BY <2>1, <2>2, <2>3 DEF LedgerAgrees, TableTypes
<1>26. ASSUME NEW q \in Requests, Handler(q) \/ Disconnect(q)
      PROVE  LedgerAgrees'
  BY <1>26, <1>1, <1>2, <1>3, <1>4, <1>5, <1>6, <1>7, <1>8, <1>9, <1>10,
     <1>11, <1>12, <1>13, <1>14, <1>15, <1>16, <1>17, <1>18, <1>19, <1>20
  DEF Handler, Settle
<1>27. ASSUME NEW k \in Keys, Operator(k)
      PROVE  LedgerAgrees'
  BY <1>27, <1>21, <1>22, <1>23, <1>24
  DEF Operator
<1> QED
  BY <1>0, <1>25, <1>26, <1>27 DEF Next

\* Every step keeps the types.
LEMMA TypeNext == TypeOK /\ [Next]_vars => TypeOK'
  BY HandlerTypesNext, RecordTypesNext, TableTypesNext, AttemptTypesNext, CountersNext
  DEF TypeOK

\* Type correctness of the request path: whatever the interleaving of
\* handlers, disconnects, restarts and operators, each handler's locals and
\* the budget tables stay well formed, and the connection mutex is held
\* exactly by the request between the two statements of record_spend.
THEOREM TypeCorrect == Spec => []TypeOK
<1>1. Init => TypeOK
  BY TypeInit
<1>2. TypeOK /\ [Next]_vars => TypeOK'
  BY TypeNext
<1> QED BY <1>1, <1>2, PTL DEF Spec

\* The budget counter never exceeds the spend log and equals it for every key
\* without a reset, failed statement or interrupted recording, although
\* record_spend writes the two in separate statements.
THEOREM LedgerCorrect == Spec => []LedgerAgrees
<1>1. Init => TypeOK /\ LedgerAgrees
  BY TypeInit, KeyFacts DEF Init, LedgerAgrees, Pending
<1>2. TypeOK /\ LedgerAgrees /\ [Next]_vars => (TypeOK /\ LedgerAgrees)'
  BY TypeNext, LedgerNext DEF TypeOK
<1> QED BY <1>1, <1>2, PTL DEF Spec

\* Every step keeps the strengthened bound on the overrun.
LEMMA OvershootNext ==
  ASSUME HandlerTypes, RecordTypes, TableTypes, OvershootInv
  PROVE  [Next]_vars => OvershootInv'
<1> USE DEF handlerVars, budgetVars, ghostVars, Goto, Done
<1>UsageSame. UNCHANGED usage => usage' \in [Keys -> Nat] /\ \A k \in Keys : usage'[k] <= usage[k]
  BY DEF TableTypes
<1>0. ASSUME UNCHANGED vars
      PROVE  OvershootInv'
  BY <1>0, <1>UsageSame, OvershootKept DEF vars
<1>1. ASSUME NEW q \in Requests, NEW e \in {"chat", "messages"}, Block(q, e)
      PROVE  OvershootInv'
  <2>1. \A k \in Keys : InFlight(k, pc') \subseteq InFlight(k, pc)
    BY <1>1, Shrinks DEF Block, Unsettled
  <2> QED BY <1>1, <2>1, <1>UsageSame, OvershootKept DEF Block
<1>2. ASSUME NEW q \in Requests, NEW e \in {"chat", "messages"}, NEW m \in Models, Pass(q, e, m)
      PROVE  OvershootInv'
  <2>1. CASE budgetOn
    <3>1. \A k \in Keys : InFlight(k, pc') \subseteq InFlight(k, pc)
      BY <1>2, <2>1, Shrinks DEF Pass, Unsettled
    <3> QED BY <1>2, <2>1, <3>1, <1>UsageSame, OvershootKept DEF Pass
  <2>2. CASE ~budgetOn
    BY <1>2, <2>2, OvershootLetIn DEF Pass
  <2> QED BY <2>1, <2>2
<1>3. ASSUME NEW q \in Requests, RefuseStream(q)
      PROVE  OvershootInv'
  <2>1. \A k \in Keys : InFlight(k, pc') \subseteq InFlight(k, pc)
    BY <1>3, Shrinks DEF RefuseStream, Unsettled
  <2> QED BY <1>3, <2>1, <1>UsageSame, OvershootKept DEF RefuseStream
<1>4. ASSUME NEW q \in Requests, GetLimit(q)
      PROVE  OvershootInv'
  <2>1. CASE limit[KeyOf[q]] = NoLimit
    BY <1>4, <2>1, OvershootLetIn DEF GetLimit
  <2>2. CASE limit[KeyOf[q]] # NoLimit
    <3>1. \A k \in Keys : InFlight(k, pc') \subseteq InFlight(k, pc)
      BY <1>4, <2>2, Shrinks DEF GetLimit, Unsettled
    <3> QED BY <1>4, <2>2, <3>1, <1>UsageSame, OvershootKept DEF GetLimit
  <2> QED BY <2>1, <2>2
<1>5. ASSUME NEW q \in Requests, GetUsage(q)
      PROVE  OvershootInv'
  <2> DEFINE k == KeyOf[q]
  <2>1. seenLimit[q] \in Nat /\ usage[k] \in Nat
    BY <1>5, KeyFacts DEF GetUsage, RecordTypes, TableTypes
  <2>2. CASE Spent(usage[k], seenLimit[q])
    <3>1. \A j \in Keys : InFlight(j, pc') \subseteq InFlight(j, pc)
      BY <1>5, <2>2, Shrinks DEF GetUsage, Unsettled
    <3> QED BY <1>5, <2>2, <3>1, <1>UsageSame, OvershootKept DEF GetUsage
  <2>3. CASE ~Spent(usage[k], seenLimit[q])
    <3>1. usage[k] < seenLimit[q]
      BY <2>1, <2>3 DEF Spent
    <3> QED BY <1>5, <2>1, <2>3, <3>1, OvershootLetIn DEF GetUsage
  <2> QED BY <2>2, <2>3
<1>6. ASSUME NEW q \in Requests, CheckError(q)
      PROVE  OvershootInv'
  BY <1>6, OvershootLetIn DEF CheckError
<1>7. ASSUME NEW q \in Requests, Forward(q)
      PROVE  OvershootInv'
  <2>1. \A k \in Keys : InFlight(k, pc') \subseteq InFlight(k, pc)
    BY <1>7, Shrinks DEF Forward, Unsettled
  <2> QED BY <1>7, <2>1, <1>UsageSame, OvershootKept DEF Forward
<1>8. ASSUME NEW q \in Requests, NEW s \in Statuses, Respond(q, s)
      PROVE  OvershootInv'
  <2>1. \A k \in Keys : InFlight(k, pc') \subseteq InFlight(k, pc)
    BY <1>8, Shrinks DEF Respond, Unsettled
  <2> QED BY <1>8, <2>1, <1>UsageSame, OvershootKept DEF Respond
<1>9. ASSUME NEW q \in Requests, NetError(q)
      PROVE  OvershootInv'
  <2>1. \A k \in Keys : InFlight(k, pc') \subseteq InFlight(k, pc)
    BY <1>9, Shrinks DEF NetError, Unsettled
  <2> QED BY <1>9, <2>1, <1>UsageSame, OvershootKept DEF NetError
<1>10. ASSUME NEW q \in Requests, NEW t \in Tokens, Chunk(q, t)
      PROVE  OvershootInv'
  BY <1>10, <1>UsageSame, OvershootKept DEF Chunk
<1>11. ASSUME NEW q \in Requests, ParseFail(q)
      PROVE  OvershootInv'
  <2>1. \A k \in Keys : InFlight(k, pc') \subseteq InFlight(k, pc)
    BY <1>11, Shrinks DEF ParseFail, Unsettled
  <2> QED BY <1>11, <2>1, <1>UsageSame, OvershootKept DEF ParseFail
<1>12. ASSUME NEW q \in Requests, NEW t \in Tokens, Parse(q, t)
      PROVE  OvershootInv'
  <2>1. \A k \in Keys : InFlight(k, pc') \subseteq InFlight(k, pc)
    BY <1>12, Shrinks DEF Parse, Unsettled
  <2> QED BY <1>12, <2>1, <1>UsageSame, OvershootKept DEF Parse
<1>13. ASSUME NEW q \in Requests, StartStream(q)
      PROVE  OvershootInv'
  <2>1. \A k \in Keys : InFlight(k, pc') \subseteq InFlight(k, pc)
    BY <1>13, Shrinks DEF StartStream, Unsettled
  <2> QED BY <1>13, <2>1, <1>UsageSame, OvershootKept DEF StartStream
<1>14. ASSUME NEW q \in Requests, StreamAbort(q)
      PROVE  OvershootInv'
  <2>1. \A k \in Keys : InFlight(k, pc') \subseteq InFlight(k, pc)
    BY <1>14, Shrinks DEF StreamAbort, Unsettled
  <2> QED BY <1>14, <2>1, <1>UsageSame, OvershootKept DEF StreamAbort
<1>15. ASSUME NEW q \in Requests, StreamEnd(q)
      PROVE  OvershootInv'
  <2>1. \A k \in Keys : InFlight(k, pc') \subseteq InFlight(k, pc)
    BY <1>15, Shrinks DEF StreamEnd, Unsettled
  <2> QED BY <1>15, <2>1, <1>UsageSame, OvershootKept DEF StreamEnd
<1>16. ASSUME NEW q \in Requests, RecordLog(q)
      PROVE  OvershootInv'
  <2>1. \A k \in Keys : InFlight(k, pc') \subseteq InFlight(k, pc)
    BY <1>16, Shrinks DEF RecordLog, Unsettled
  <2> QED BY <1>16, <2>1, <1>UsageSame, OvershootKept DEF RecordLog
<1>17. ASSUME NEW q \in Requests, RecordUsage(q)
      PROVE  OvershootInv'
  BY <1>17, OvershootRecord
<1>18. ASSUME NEW q \in Requests, RecordFail(q)
      PROVE  OvershootInv'
  <2>1. \A k \in Keys : InFlight(k, pc') \subseteq InFlight(k, pc)
    BY <1>18, Shrinks DEF RecordFail, AfterRecord, Unsettled
  <2> QED BY <1>18, <2>1, <1>UsageSame, OvershootKept DEF RecordFail
<1>19. ASSUME NEW q \in Requests, NEW rejected \in BOOLEAN, Finish(q, rejected)
      PROVE  OvershootInv'
  <2>1. \A k \in Keys : InFlight(k, pc') \subseteq InFlight(k, pc)
    BY <1>19, Shrinks DEF Finish, Unsettled
  <2> QED BY <1>19, <2>1, <1>UsageSame, OvershootKept DEF Finish
<1>20. ASSUME NEW q \in Requests, Disconnect(q)
      PROVE  OvershootInv'
  <2>1. \A k \in Keys : InFlight(k, pc') \subseteq InFlight(k, pc)
    BY <1>20, Shrinks DEF Disconnect, Unsettled
  <2> QED BY <1>20, <2>1, <1>UsageSame, OvershootKept DEF Disconnect
<1>21. ASSUME NEW k \in Keys, NEW l \in Limits, AdminSetLimit(k, l)
      PROVE  OvershootInv'
  BY <1>21, <1>UsageSame, OvershootKept DEF AdminSetLimit
<1>22. ASSUME NEW k \in Keys, NEW l \in Limits \cup {NoLimit}, ConsoleSetLimit(k, l)
      PROVE  OvershootInv'
  BY <1>22, <1>UsageSame, OvershootKept DEF ConsoleSetLimit
<1>23. ASSUME NEW k \in Keys, AdminReset(k)
      PROVE  OvershootInv'
  <2>1. /\ usage' = [usage EXCEPT ![k] = 0] /\ UNCHANGED <<pc, cap, peak>>
    BY <1>23 DEF AdminReset
  <2>2. usage' \in [Keys -> Nat] /\ \A j \in Keys : usage'[j] <= usage[j]
    BY <2>1 DEF TableTypes
  <2> QED BY <2>1, <2>2, OvershootKept
<1>24. ASSUME NEW k \in Keys, ConsoleReset(k)
      PROVE  OvershootInv'
  <2>1. /\ usage' = [usage EXCEPT ![k] = 0] /\ UNCHANGED <<pc, cap, peak>>
    BY <1>24 DEF ConsoleReset
  <2>2. usage' \in [Keys -> Nat] /\ \A j \in Keys : usage'[j] <= usage[j]
    BY <2>1 DEF TableTypes
  <2> QED BY <2>1, <2>2, OvershootKept
<1>25. ASSUME Crash
      PROVE  OvershootInv'
  <2>1. \A k \in Keys : InFlight(k, pc') \subseteq InFlight(k, pc)
    BY <1>25 DEF Crash, InFlight, Unsettled
  <2> QED BY <1>25, <2>1, <1>UsageSame, OvershootKept DEF Crash
<1>26. ASSUME NEW q \in Requests, Handler(q) \/ Disconnect(q)
      PROVE  OvershootInv'
  BY <1>26, <1>1, <1>2, <1>3, <1>4, <1>5, <1>6, <1>7, <1>8, <1>9, <1>10,
     <1>11, <1>12, <1>13, <1>14, <1>15, <1>16, <1>17, <1>18, <1>19, <1>20
  DEF Handler, Settle
<1>27. ASSUME NEW k \in Keys, Operator(k)
      PROVE  OvershootInv'
  BY <1>27, <1>21, <1>22, <1>23, <1>24
  DEF Operator
<1> QED
  BY <1>0, <1>25, <1>26, <1>27 DEF Next

\* For every number of requests and keys, every limit and every response size:
\* however the checks of concurrent requests interleave with the spends they
\* admit, with disconnects, resets and restarts, a key's usage stays below the
\* highest limit admitted under plus MaxTok per request in flight at once.
THEOREM OvershootCorrect == Spec => []OvershootBounded
<1>1. Init => TypeOK /\ OvershootInv
  BY TypeInit DEF Init, OvershootInv, InFlight, Unsettled
<1>2. TypeOK /\ OvershootInv /\ [Next]_vars => (TypeOK /\ OvershootInv)'
  BY TypeNext, OvershootNext DEF TypeOK
<1>3. TypeOK /\ OvershootInv => OvershootBounded
  <2> SUFFICES ASSUME TypeOK, OvershootInv, NEW k \in Keys, cap[k] # NoLimit
               PROVE  usage[k] = 0 \/ usage[k] < cap[k] + MaxTok * peak[k]
    BY DEF OvershootBounded
  <2> DEFINE x == MaxTok * Cardinality(InFlight(k, pc))
  <2>1. x \in Nat
    BY InFlightCard, Monotone, ConstantsAssumption
  <2>2. cap[k] + MaxTok * peak[k] \in Nat /\ usage[k] \in Nat
    BY ConstantsAssumption DEF TypeOK, TableTypes
  <2>3. usage[k] = 0 \/ usage[k] + x < cap[k] + MaxTok * peak[k]
    BY DEF OvershootInv
  <2> HIDE DEF x
  <2> QED BY <2>1, <2>2, <2>3
<1> QED BY <1>1, <1>2, <1>3, PTL DEF Spec

(***************************************************************************)
(* ChatPipeline implements the abstract ledger.                            *)
(***************************************************************************)

\* A request that was refused is over.
RefusedDone == \A q \in Refused : pc[q] = "done"

\* A step of a handler that is not over refuses nobody, unless it answers 429
\* without a forward.
LEMMA RefusedKept ==
  ASSUME RefusedDone, NEW q \in Requests, pc[q] # "done",
         \A r \in Requests \ {q} :
           pc'[r] = pc[r] /\ answer'[r] = answer[r] /\ attempts'[r] = attempts[r],
         \/ answer'[q] = answer[q] /\ attempts'[q] = attempts[q]
         \/ answer'[q] # 429
         \/ attempts'[q] # <<>>
  PROVE  Refused' = Refused /\ RefusedDone'
<1>1. q \notin Refused /\ q \notin Refused'
  BY DEF RefusedDone, Refused
<1>2. \A r \in Requests \ {q} : r \in Refused' <=> r \in Refused
  BY DEF Refused
<1>3. Refused' = Refused
  BY <1>1, <1>2 DEF Refused
<1> QED BY <1>1, <1>3 DEF RefusedDone, Refused

\* Only the budget check refuses.
LEMMA RefusedNext ==
  ASSUME HandlerTypes, AttemptTypes, RefusedDone, [Next]_vars
  PROVE  /\ RefusedDone'
         /\ Refused' = Refused \/ \E q \in Requests : GetUsage(q) /\ Refused' = Refused \cup {q}
<1> DEFINE Goal == /\ RefusedDone'
                   /\ \/ Refused' = Refused
                      \/ \E q \in Requests : GetUsage(q) /\ Refused' = Refused \cup {q}
<1> USE DEF HandlerTypes, AttemptTypes, handlerVars, budgetVars, ghostVars, Goto, Done
<1>0. ASSUME UNCHANGED vars
      PROVE  Goal
  BY <1>0 DEF vars, Refused, RefusedDone
<1>1. ASSUME NEW q \in Requests, NEW e \in {"chat", "messages"}, Block(q, e)
      PROVE  Goal
  BY <1>1, RefusedKept DEF Block
<1>2. ASSUME NEW q \in Requests, NEW e \in {"chat", "messages"}, NEW m \in Models, Pass(q, e, m)
      PROVE  Goal
  BY <1>2, LetInGoes, RefusedKept DEF Pass
<1>3. ASSUME NEW q \in Requests, RefuseStream(q)
      PROVE  Goal
  BY <1>3, RefusedKept DEF RefuseStream
<1>4. ASSUME NEW q \in Requests, GetLimit(q)
      PROVE  Goal
  BY <1>4, LetInGoes, RefusedKept DEF GetLimit
<1>5. ASSUME NEW q \in Requests, GetUsage(q)
      PROVE  Goal
  <2>1. CASE Spent(usage[KeyOf[q]], seenLimit[q])
    <3>1. /\ pc' = [pc EXCEPT ![q] = "done"] /\ answer' = [answer EXCEPT ![q] = 429]
          /\ UNCHANGED attempts
      BY <1>5, <2>1 DEF GetUsage
    <3>2. CASE attempts[q] = <<>>
      <4>1. Refused' = Refused \cup {q}
        BY <3>1, <3>2 DEF Refused
      <4>2. \A r \in Refused \cup {q} : pc'[r] = "done"
        BY <3>1 DEF RefusedDone, Refused
      <4>3. RefusedDone'
        BY <4>1, <4>2 DEF RefusedDone
      <4> QED BY <1>5, <4>1, <4>3
    <3>3. CASE attempts[q] # <<>>
      BY <1>5, <3>1, <3>3, RefusedKept DEF GetUsage
    <3> QED BY <3>2, <3>3
  <2>2. CASE ~Spent(usage[KeyOf[q]], seenLimit[q])
    BY <1>5, <2>2, LetInGoes, RefusedKept DEF GetUsage
  <2> QED BY <2>1, <2>2
<1>6. ASSUME NEW q \in Requests, CheckError(q)
      PROVE  Goal
  BY <1>6, LetInGoes, RefusedKept DEF CheckError
<1>7. ASSUME NEW q \in Requests, Forward(q)
      PROVE  Goal
  <2>0. Len(attempts[q]) \in Nat
    OBVIOUS
  <2>1. Len(attempts'[q]) = Len(attempts[q]) + 1
    BY <1>7, ForwardFacts
  <2>2. attempts'[q] # <<>>
    BY <2>0, <2>1
  <2>3. \A r \in Requests \ {q} : attempts'[r] = attempts[r]
    BY <1>7, ForwardFacts
  <2> QED BY <1>7, <2>2, <2>3, RefusedKept DEF Forward
<1>8. ASSUME NEW q \in Requests, NEW s \in Statuses, Respond(q, s)
      PROVE  Goal
  <2>1. /\ Len(attempts[q]) \in Nat /\ Len(attempts[q]) > 0
        /\ \A r \in Requests \ {q} : attempts'[r] = attempts[r]
    BY <1>8 DEF Respond, Outcome
  <2>2. Len(attempts'[q]) = Len(attempts[q])
    BY <1>8, <2>1, OutcomeFacts DEF Respond
  <2>3. attempts'[q] # <<>>
    BY <2>1, <2>2
  <2>4. \A r \in Requests \ {q} : pc'[r] = pc[r] /\ answer'[r] = answer[r]
    BY <1>8 DEF Respond
  <2> QED BY <1>8, <2>1, <2>3, <2>4, RefusedKept DEF Respond
<1>9. ASSUME NEW q \in Requests, NetError(q)
      PROVE  Goal
  <2>1. /\ Len(attempts[q]) \in Nat /\ Len(attempts[q]) > 0
        /\ \A r \in Requests \ {q} : attempts'[r] = attempts[r]
    BY <1>9 DEF NetError, Outcome
  <2>2. Len(attempts'[q]) = Len(attempts[q])
    BY <1>9, <2>1, OutcomeFacts DEF NetError
  <2>3. attempts'[q] # <<>>
    BY <2>1, <2>2
  <2>4. \A r \in Requests \ {q} : pc'[r] = pc[r] /\ answer'[r] = answer[r]
    BY <1>9 DEF NetError
  <2> QED BY <1>9, <2>1, <2>3, <2>4, RefusedKept DEF NetError
<1>10. ASSUME NEW q \in Requests, NEW t \in Tokens, Chunk(q, t)
      PROVE  Goal
  BY <1>10, RefusedKept DEF Chunk
<1>11. ASSUME NEW q \in Requests, ParseFail(q)
      PROVE  Goal
  BY <1>11, RefusedKept DEF ParseFail
<1>12. ASSUME NEW q \in Requests, NEW t \in Tokens, Parse(q, t)
      PROVE  Goal
  BY <1>12, RefusedKept DEF Parse
<1>13. ASSUME NEW q \in Requests, StartStream(q)
      PROVE  Goal
  BY <1>13, RefusedKept DEF StartStream
<1>14. ASSUME NEW q \in Requests, StreamAbort(q)
      PROVE  Goal
  BY <1>14, RefusedKept DEF StreamAbort
<1>15. ASSUME NEW q \in Requests, StreamEnd(q)
      PROVE  Goal
  BY <1>15, RefusedKept DEF StreamEnd
<1>16. ASSUME NEW q \in Requests, RecordLog(q)
      PROVE  Goal
  BY <1>16, RefusedKept DEF RecordLog
<1>17. ASSUME NEW q \in Requests, RecordUsage(q)
      PROVE  Goal
  BY <1>17, RefusedKept DEF RecordUsage, AfterRecord
<1>18. ASSUME NEW q \in Requests, RecordFail(q)
      PROVE  Goal
  BY <1>18, RefusedKept DEF RecordFail, AfterRecord
<1>19. ASSUME NEW q \in Requests, NEW rejected \in BOOLEAN, Finish(q, rejected)
      PROVE  Goal
  <2>1. pc[q] # "done"
    BY <1>19 DEF Finish
  <2>2. \A r \in Requests \ {q} :
          pc'[r] = pc[r] /\ answer'[r] = answer[r] /\ attempts'[r] = attempts[r]
    BY <1>19 DEF Finish
  <2>3. \/ answer'[q] = answer[q] /\ attempts'[q] = attempts[q]
        \/ answer'[q] # 429
    BY <1>19 DEF Finish
  <2> QED BY <2>1, <2>2, <2>3, RefusedKept
<1>20. ASSUME NEW q \in Requests, Disconnect(q)
      PROVE  Goal
  BY <1>20, RefusedKept DEF Disconnect
<1>21. ASSUME NEW k \in Keys, Operator(k)
      PROVE  Goal
  <2>1. UNCHANGED <<pc, answer, attempts>>
    BY <1>21 DEF Operator, AdminSetLimit, ConsoleSetLimit, AdminReset, ConsoleReset
  <2> QED BY <2>1 DEF Refused, RefusedDone
<1>22. ASSUME Crash
      PROVE  Goal
  <2>1. Refused' = Refused
    BY <1>22 DEF Crash, Refused
  <2>2. \A q \in Requests : pc[q] = "done" => pc'[q] = "done"
    BY <1>22 DEF Crash
  <2> QED BY <2>1, <2>2 DEF Refused, RefusedDone
<1>23. ASSUME NEW q \in Requests, Handler(q) \/ Disconnect(q)
      PROVE  Goal
  BY <1>23, <1>1, <1>2, <1>3, <1>4, <1>5, <1>6, <1>7, <1>8, <1>9, <1>10,
     <1>11, <1>12, <1>13, <1>14, <1>15, <1>16, <1>17, <1>18, <1>19, <1>20
  DEF Handler, Settle
<1> QED
  BY <1>0, <1>21, <1>22, <1>23 DEF Next

\* The counter of the ledger while the tables and the recording in progress
\* are left alone.
LEMMA CountedKept ==
  ASSUME UNCHANGED <<usage, mutex>>, mutex # NoOne => toks'[mutex] = toks[mutex]
  PROVE  Counted' = Counted
  BY DEF Counted, Pending

\* A reset of the counter, with or without a recording in progress.
LEMMA ResetCounted ==
  ASSUME RecordTypes, TableTypes, NEW k \in Keys,
         usage' = [usage EXCEPT ![k] = 0], UNCHANGED <<mutex, toks>>
  PROVE  \E t \in 0..MaxTok : Counted' = [Counted EXCEPT ![k] = t]
<1>0. 0 \in 0..MaxTok /\ Tokens = 0..MaxTok
  BY ConstantsAssumption DEF Tokens
<1>1. \A j \in Keys : Pending(j) \in 0..MaxTok /\ Pending(j)' = Pending(j)
  BY <1>0 DEF Pending, RecordTypes
<1>2. \A j \in Keys : usage'[j] + Pending(j)' =
                     IF j = k THEN Pending(k) ELSE usage[j] + Pending(j)
  BY <1>1, PendingNat DEF TableTypes
<1>3. Counted' = [Counted EXCEPT ![k] = Pending(k)]
  BY <1>2 DEF Counted
<1> QED BY <1>1, <1>3

\* A recording that is cut short is taken off the counter.
LEMMA LoseCounted ==
  ASSUME RecordTypes, TableTypes, NEW q \in Requests, mutex = q, toks[q] \in Tokens,
         mutex' = NoOne, UNCHANGED usage
  PROVE  \E t \in 0..MaxTok : Counted' = [Counted EXCEPT ![KeyOf[q]] = @ - t]
<1>1. /\ Pending(KeyOf[q]) = toks[q]
      /\ \A j \in Keys \ {KeyOf[q]} : Pending(j) = 0
      /\ \A j \in Keys : Pending(j)' = 0
  BY KeyFacts DEF Pending
<1>2. toks[q] \in 0..MaxTok /\ toks[q] \in Nat
  BY ConstantsAssumption DEF Tokens
<1>3. Counted' = [Counted EXCEPT ![KeyOf[q]] = @ - toks[q]]
  BY <1>1, <1>2, KeyFacts DEF Counted, TableTypes
<1> QED BY <1>2, <1>3

\* Every step of the request path is a step of the ledger or none.
LEMMA LedgerStep ==
  ASSUME TypeOK, RefusedDone, [Next]_vars
  PROVE  [L!Next]_(L!vars)
<1> DEFINE Still == UNCHANGED <<limit, Counted, logged, seenLimit, Refused>>
           Goal == Still \/ L!Next
<1> USE DEF handlerVars, budgetVars, ghostVars, Goto, Done
<1> HandlerTypes /\ AttemptTypes /\ RecordTypes /\ TableTypes
  BY DEF TypeOK
<1>1. \/ Refused' = Refused
      \/ \E q \in Requests : GetUsage(q) /\ Refused' = Refused \cup {q}
  BY RefusedNext
<1>2. ASSUME NEW q \in Requests, GetUsage(q), Refused' = Refused \cup {q}
      PROVE  Goal
  <2>1. q \in Refused'
    BY <1>2
  <2>2. Spent(usage[KeyOf[q]], seenLimit[q])
    <3> SUFFICES ASSUME ~Spent(usage[KeyOf[q]], seenLimit[q]) PROVE FALSE
      OBVIOUS
    <3>1. pc'[q] = "forward"
      BY <1>2, LetInGoes DEF GetUsage, HandlerTypes
    <3>2. RefusedDone'
      BY RefusedNext
    <3> QED BY <2>1, <3>1, <3>2 DEF RefusedDone
  <2>3. mutex = NoOne /\ UNCHANGED <<limit, logged, seenLimit, usage, mutex, toks>>
    BY <1>2 DEF GetUsage
  <2>4. UNCHANGED <<limit, Counted, logged, seenLimit>>
    BY <2>3, CountedKept
  <2>5. KeyOf[q] \in Keys /\ Counted[KeyOf[q]] = usage[KeyOf[q]]
    BY <2>3, KeyFacts DEF Counted, Pending, TableTypes
  <2>6. seenLimit[q] # NoLimit /\ Counted[KeyOf[q]] >= seenLimit[q]
    BY <1>2, <2>2, <2>5 DEF GetUsage, RecordTypes, Spent, NoLimit
  <2>7. L!Refuse(q)
    BY <1>2, <2>4, <2>6 DEF L!Refuse
  <2> QED BY <2>7 DEF L!Next
<1>3. ASSUME Refused' = Refused
      PROVE  Goal
  <2>0. ASSUME UNCHANGED <<limit, logged, seenLimit, usage, mutex>>,
               mutex # NoOne => toks'[mutex] = toks[mutex]
        PROVE  Goal
    BY <2>0, <1>3, CountedKept
  <2>1. ASSUME UNCHANGED vars
        PROVE  Goal
    BY <2>0, <2>1 DEF vars
  <2>2. ASSUME NEW q \in Requests,
               \/ \E e \in {"chat", "messages"} : Block(q, e) \/ \E m \in Models : Pass(q, e, m)
               \/ RefuseStream(q) \/ GetUsage(q) \/ CheckError(q) \/ Forward(q)
               \/ (\E s \in Statuses : Respond(q, s)) \/ NetError(q)
               \/ ParseFail(q) \/ StartStream(q) \/ StreamAbort(q) \/ StreamEnd(q)
               \/ (\E rejected \in BOOLEAN : Finish(q, rejected)) \/ Disconnect(q)
        PROVE  Goal
    <3>1. UNCHANGED <<limit, logged, seenLimit, usage, mutex, toks>>
      BY <2>2 DEF Block, Pass, RefuseStream, GetUsage, CheckError, Forward, Respond, NetError,
                  ParseFail, StartStream, StreamAbort, StreamEnd, Finish, Disconnect
    <3> QED BY <3>1, <2>0
  <2>3. ASSUME NEW q \in Requests, NEW t \in Tokens, Chunk(q, t) \/ Parse(q, t)
        PROVE  Goal
    <3>1. UNCHANGED <<limit, logged, seenLimit, usage, mutex>>
      BY <2>3 DEF Chunk, Parse
    <3>2. mutex # NoOne => toks'[mutex] = toks[mutex]
      BY <2>3 DEF Chunk, Parse, RecordTypes
    <3> QED BY <3>1, <3>2, <2>0
  <2>4. ASSUME NEW q \in Requests, GetLimit(q)
        PROVE  Goal
    <3>1. UNCHANGED <<limit, logged, usage, mutex, toks>>
      BY <2>4 DEF GetLimit
    <3>2. UNCHANGED <<limit, Counted, logged, Refused>>
      BY <3>1, <1>3, CountedKept
    <3>3. seenLimit' = [seenLimit EXCEPT ![q] = limit[KeyOf[q]]]
      BY <2>4 DEF GetLimit
    <3>4. L!Read(q)
      BY <3>2, <3>3 DEF L!Read
    <3> QED BY <3>4 DEF L!Next
  <2>5. ASSUME NEW q \in Requests, RecordLog(q)
        PROVE  Goal
    <3>1. /\ mutex = NoOne /\ mutex' = q /\ toks[q] \in 0..MaxTok /\ toks[q] \in Nat
          /\ logged' = [logged EXCEPT ![KeyOf[q]] = logged[KeyOf[q]] + toks[q]]
          /\ UNCHANGED <<limit, seenLimit, usage, toks>>
      BY <2>5, ConstantsAssumption DEF RecordLog, RecordTypes, Tokens
    <3>2. /\ Pending(KeyOf[q])' = toks[q]
          /\ \A j \in Keys \ {KeyOf[q]} : Pending(j)' = 0
          /\ \A j \in Keys : Pending(j) = 0
      BY <3>1, KeyFacts DEF Pending
    <3>3. Counted' = [Counted EXCEPT ![KeyOf[q]] = @ + toks[q]]
      BY <3>1, <3>2, KeyFacts DEF Counted, TableTypes
    <3>4. L!Record(KeyOf[q], toks[q])
      BY <3>1, <3>3, <1>3 DEF L!Record
    <3> QED BY <3>1, <3>4, KeyFacts DEF L!Next
  <2>6. ASSUME NEW q \in Requests, RecordUsage(q)
        PROVE  Goal
    <3>1. /\ mutex = q /\ mutex' = NoOne /\ toks[q] \in Nat
          /\ usage' = [usage EXCEPT ![KeyOf[q]] = usage[KeyOf[q]] + toks[q]]
          /\ UNCHANGED <<limit, seenLimit, logged, toks>>
      BY <2>6, ConstantsAssumption DEF RecordUsage, RecordTypes, Tokens, Added
    <3>2. /\ Pending(KeyOf[q]) = toks[q]
          /\ \A j \in Keys \ {KeyOf[q]} : Pending(j) = 0
          /\ \A j \in Keys : Pending(j)' = 0
      BY <3>1, KeyFacts DEF Pending
    <3>3. Counted' = Counted
      BY <3>1, <3>2, KeyFacts DEF Counted, TableTypes
    <3> QED BY <3>1, <3>3, <1>3
  <2>7. ASSUME NEW q \in Requests, RecordFail(q)
        PROVE  Goal
    <3>1. UNCHANGED <<limit, seenLimit, logged, usage, toks>> /\ mutex' = NoOne
      BY <2>7 DEF RecordFail
    <3>2. CASE pc[q] = "record"
      <4>1. mutex = NoOne
        BY <2>7, <3>2, KeyFacts DEF RecordFail, RecordTypes
      <4> QED BY <3>1, <4>1, <2>0
    <3>3. CASE pc[q] = "upsert"
      <4>1. mutex = q /\ toks[q] \in Tokens
        BY <3>3 DEF RecordTypes
      <4>2. PICK t \in 0..MaxTok : Counted' = [Counted EXCEPT ![KeyOf[q]] = @ - t]
        BY <3>1, <4>1, LoseCounted
      <4>3. L!Lose(KeyOf[q], t)
        BY <3>1, <4>2, <1>3 DEF L!Lose
      <4> QED BY <4>3, KeyFacts DEF L!Next
    <3> QED BY <2>7, <3>2, <3>3 DEF RecordFail
  <2>8. ASSUME NEW k \in Keys, Operator(k)
        PROVE  Goal
    <3>1. UNCHANGED <<seenLimit, logged, mutex, toks>>
      BY <2>8 DEF Operator, AdminSetLimit, ConsoleSetLimit, AdminReset, ConsoleReset
    <3>2. ASSUME NEW l \in Limits \cup {NoLimit}, limit' = [limit EXCEPT ![k] = l],
                 UNCHANGED usage
          PROVE  Goal
      <4>1. UNCHANGED <<Counted, logged, seenLimit, Refused>>
        BY <3>1, <3>2, <1>3, CountedKept
      <4>2. L!SetLimit(k, l)
        BY <3>2, <4>1 DEF L!SetLimit
      <4> QED BY <4>2 DEF L!Next
    <3>3. ASSUME usage' = [usage EXCEPT ![k] = 0], UNCHANGED limit
          PROVE  Goal
      <4>1. PICK t \in 0..MaxTok : Counted' = [Counted EXCEPT ![k] = t]
        BY <3>1, <3>3, ResetCounted
      <4>2. L!Reset(k, t)
        BY <3>1, <3>3, <4>1, <1>3 DEF L!Reset
      <4> QED BY <4>2 DEF L!Next
    <3> QED BY <2>8, <3>2, <3>3
         DEF Operator, AdminSetLimit, ConsoleSetLimit, AdminReset, ConsoleReset
  <2>9. ASSUME Crash
        PROVE  Goal
    <3>1. UNCHANGED <<limit, seenLimit, logged, usage, toks>> /\ mutex' = NoOne
      BY <2>9 DEF Crash
    <3>2. CASE mutex = NoOne
      BY <3>1, <3>2, <2>0
    <3>3. CASE mutex # NoOne
      <4>1. mutex \in Requests /\ toks[mutex] \in Tokens
        BY <3>3 DEF RecordTypes
      <4>2. PICK t \in 0..MaxTok : Counted' = [Counted EXCEPT ![KeyOf[mutex]] = @ - t]
        BY <3>1, <4>1, LoseCounted
      <4>3. L!Lose(KeyOf[mutex], t)
        BY <3>1, <4>2, <1>3 DEF L!Lose
      <4> QED BY <4>1, <4>3, KeyFacts DEF L!Next
    <3> QED BY <3>2, <3>3
  <2>10. ASSUME NEW q \in Requests, Handler(q) \/ Disconnect(q)
         PROVE  Goal
    BY <2>10, <2>2, <2>3, <2>4, <2>5, <2>6, <2>7 DEF Handler, Settle
  <2> HIDE DEF Goal
  <2> QED BY <2>1, <2>8, <2>9, <2>10 DEF Next
<1> HIDE DEF Goal
<1>4. Goal
  BY <1>1, <1>2, <1>3
<1> QED BY <1>4 DEF Goal, L!vars

\* The budget tables implement the atomic ledger for any number of requests,
\* keys and operators: record_spend as two statements, operations of the
\* console between them, failures and crashes included.
THEOREM LedgerImplemented == Spec => ImplementsLedger
<1>1. Init => TypeOK /\ RefusedDone /\ L!Init
  <2> SUFFICES ASSUME Init PROVE TypeOK /\ RefusedDone /\ L!Init
    OBVIOUS
  <2>1. TypeOK
    BY TypeInit
  <2>2. Refused = {}
    BY DEF Init, Refused, NoStatus
  <2>3. Counted = [k \in Keys |-> 0]
    BY DEF Init, Counted, Pending
  <2> QED BY <2>1, <2>2, <2>3 DEF RefusedDone, L!Init, Init
<1>2. TypeOK /\ RefusedDone /\ [Next]_vars => (TypeOK /\ RefusedDone)'
  BY TypeNext, RefusedNext DEF TypeOK
<1>3. TypeOK /\ RefusedDone /\ [Next]_vars => [L!Next]_(L!vars)
  BY LedgerStep
<1> QED BY <1>1, <1>2, <1>3, PTL DEF Spec, ImplementsLedger, L!Spec


-----------------------------------------------------------------------------
(* A single request on its way through the handler: the fallback chain it  *)
(* is tried on, the audit line it leaves, and the budget that stops it.    *)
(* All of them follow one request through what may happen to it in a step, *)
(* so that is established first (Moves).                                   *)

\* Where a handler is once it is committed to a response, or has given up.
Post == {"commit", "stream", "record", "upsert", "finish", "done"}

\* What a step leaves alone of a request besides its label and audit trail.
Held(q) ==
  /\ conn'[q] = conn[q] /\ chain'[q] = chain[q]
  /\ attempts'[q] = attempts[q] /\ body'[q] = body[q]

Same(q) == pc'[q] = pc[q] /\ audit'[q] = audit[q] /\ Held(q)

\* Refused before the budget check and the first forward.
Early(q) ==
  /\ pc[q] = "new" /\ pc'[q] = "done"
  /\ audit'[q] \in {audit[q], <<>>, <<"block">>}
  /\ Held(q)

\* Routed: the chain is fixed.
Enters(q) ==
  /\ pc[q] = "new" /\ pc'[q] \in {"limit", "forward"}
  /\ \E m \in Models : chain'[q] = RouteChain(m)
  /\ conn'[q] = conn[q] /\ audit'[q] = audit[q]
  /\ attempts'[q] = attempts[q] /\ body'[q] = body[q]

\* In the budget check.
Checked(q) ==
  /\ pc[q] \in {"limit", "usage"} /\ pc'[q] \in {"usage", "forward", "done"}
  /\ audit'[q] = audit[q] /\ Held(q)

\* The next backend of the chain is asked.
Sent(q) ==
  /\ pc[q] = "forward" /\ pc'[q] = "waiting"
  /\ attempts'[q] = Append(attempts[q],
                           [backend |-> chain[q][Len(attempts[q]) + 1], body |-> body[q],
                            outcome |-> "pending"])
  /\ body'[q] = IF TakesBody(q) THEN "taken" ELSE body[q]
  /\ conn'[q] = conn[q] /\ chain'[q] = chain[q] /\ audit'[q] = audit[q]

\* The backend asked last answers, or the connection to it fails.
Replied(q, o) ==
  /\ pc[q] = "waiting"
  /\ attempts'[q] = [attempts[q] EXCEPT ![Len(attempts[q])].outcome = o]
  /\ \/ pc'[q] = "forward" /\ o \in {"5xx", "error"} /\ ~LastTry(q)
     \/ pc'[q] = "commit" /\ o = "answered"
     \/ pc'[q] = "commit" /\ o = "5xx" /\ LastTry(q)
     \/ pc'[q] = "done" /\ o = "error" /\ LastTry(q)
  /\ conn'[q] = conn[q] /\ chain'[q] = chain[q] /\ body'[q] = body[q]
  /\ audit'[q] = audit[q]

\* On the way from the response to the end of the handler.
Settles(q) ==
  /\ pc[q] \in Post \ {"done"} /\ pc'[q] \in Post \ {"commit"}
  /\ pc'[q] = "finish" => audit[q] = <<>> \/ pc[q] = "commit"
  /\ \/ audit'[q] = audit[q]
     \/ /\ pc[q] \in {"commit", "finish"} /\ pc'[q] \in {"stream", "done"}
        /\ audit'[q] = Append(audit[q], "allow")
  /\ Held(q)

\* The client is gone, or the proxy restarted.
Dropped(q) ==
  /\ pc[q] # "new" /\ conn'[q] = "gone"
  /\ pc'[q] = "done" \/ (pc'[q] = pc[q] /\ pc[q] \in Post)
  /\ audit'[q] = audit[q] /\ chain'[q] = chain[q]
  /\ attempts'[q] = attempts[q] /\ body'[q] = body[q]

Moved(q) ==
  \/ Same(q) \/ Early(q) \/ Enters(q) \/ Checked(q) \/ Sent(q)
  \/ \E o \in {"answered", "5xx", "error"} : Replied(q, o)
  \/ Settles(q) \/ Dropped(q)

\* A step of one handler leaves the other requests as they are.
LEMMA OthersSame ==
  ASSUME HandlerTypes, AttemptTypes, NEW q \in Requests, NEW r \in Requests, r # q,
         Handler(q) \/ Disconnect(q)
  PROVE  Same(r)
<1> USE DEF HandlerTypes, AttemptTypes, handlerVars, budgetVars, ghostVars, Goto, Done, Same, Held
<1>1. ASSUME \/ \E e \in {"chat", "messages"} : Block(q, e)
             \/ RefuseStream(q)
      PROVE  Same(r)
  BY <1>1 DEF Block, RefuseStream
<1>2. ASSUME \/ \E e \in {"chat", "messages"}, m \in Models : Pass(q, e, m)
             \/ GetLimit(q) \/ GetUsage(q) \/ CheckError(q)
      PROVE  Same(r)
  BY <1>2, LetInGoes DEF Pass, GetLimit, GetUsage, CheckError
<1>3. ASSUME \/ Forward(q) \/ NetError(q) \/ \E s \in Statuses : Respond(q, s)
      PROVE  Same(r)
  BY <1>3 DEF Forward, NetError, Respond, Outcome
<1>4. ASSUME \/ \E t \in Tokens : Chunk(q, t) \/ Parse(q, t)
             \/ ParseFail(q) \/ StartStream(q) \/ StreamAbort(q) \/ StreamEnd(q)
      PROVE  Same(r)
  BY <1>4 DEF Chunk, Parse, ParseFail, StartStream, StreamAbort, StreamEnd, WriteAudit
<1>5. ASSUME \/ RecordLog(q) \/ RecordUsage(q) \/ RecordFail(q) \/ Disconnect(q)
             \/ \E rejected \in BOOLEAN : Finish(q, rejected)
      PROVE  Same(r)
  BY <1>5 DEF RecordLog, RecordUsage, RecordFail, Finish, AfterRecord, WriteAudit, Disconnect
<1> QED BY <1>1, <1>2, <1>3, <1>4, <1>5 DEF Handler, Settle

\* Everything that can happen to a request in one step.
LEMMA Moves ==
  ASSUME HandlerTypes, AttemptTypes, [Next]_vars, NEW q \in Requests
  PROVE  Moved(q)
<1> USE DEF HandlerTypes, AttemptTypes, handlerVars, budgetVars, ghostVars, Goto, Done
<1>1. ASSUME \/ \E e \in {"chat", "messages"} : Block(q, e)
             \/ RefuseStream(q)
      PROVE  Early(q)
  BY <1>1 DEF Block, RefuseStream, Early, Held
<1>2. ASSUME NEW e \in {"chat", "messages"}, NEW m \in Models, Pass(q, e, m)
      PROVE  Enters(q)
  <2>1. pc[q] = "new" /\ pc'[q] \in {"limit", "forward"}
    BY <1>2, LetInGoes DEF Pass
  <2>2. chain'[q] = RouteChain(m)
    BY <1>2 DEF Pass
  <2>3. UNCHANGED <<conn, attempts, body, audit>>
    BY <1>2 DEF Pass
  <2> QED BY <2>1, <2>2, <2>3 DEF Enters
<1>3. ASSUME GetLimit(q) \/ GetUsage(q) \/ CheckError(q) PROVE Checked(q)
  BY <1>3, LetInGoes DEF GetLimit, GetUsage, CheckError, Checked, Held
<1>4. ASSUME Forward(q) PROVE Sent(q)
  BY <1>4 DEF Forward, Sent
<1>5. ASSUME NEW s \in Statuses, Respond(q, s)
      PROVE  \E o \in {"answered", "5xx"} : Replied(q, o)
  <2> DEFINE o == IF s >= 500 THEN "5xx" ELSE "answered"
  <2>1. attempts'[q] = [attempts[q] EXCEPT ![Len(attempts[q])].outcome = o]
    BY <1>5 DEF Respond, Outcome
  <2>2. UNCHANGED <<conn, chain, body, audit>> /\ pc[q] = "waiting"
    BY <1>5 DEF Respond
  <2>3. CASE FallsThrough(q, s)
    <3>1. pc'[q] = "forward" /\ o = "5xx" /\ ~LastTry(q)
      BY <1>5, <2>3 DEF Respond, FallsThrough
    <3> QED BY <2>1, <2>2, <3>1 DEF Replied
  <2>4. CASE ~FallsThrough(q, s)
    <3>1. pc'[q] = "commit" /\ (o = "5xx" => LastTry(q))
      BY <1>5, <2>4 DEF Respond, FallsThrough
    <3> QED BY <2>1, <2>2, <3>1 DEF Replied
  <2> QED BY <2>3, <2>4
<1>6. ASSUME NetError(q) PROVE Replied(q, "error")
  BY <1>6 DEF NetError, Outcome, Replied
<1>7. ASSUME \/ ParseFail(q) \/ StreamAbort(q) \/ StreamEnd(q) \/ RecordLog(q)
             \/ \E t \in Tokens : Parse(q, t)
      PROVE  Settles(q)
  BY <1>7 DEF ParseFail, StreamAbort, StreamEnd, RecordLog, Parse, Settles, Held, Post
<1>8. ASSUME RecordUsage(q) \/ RecordFail(q) PROVE Settles(q)
  BY <1>8 DEF RecordUsage, RecordFail, AfterRecord, Streaming, Settles, Held, Post
<1>9. ASSUME StartStream(q) PROVE Settles(q)
  BY <1>9 DEF StartStream, WriteAudit, Settles, Held, Post
<1>10. ASSUME NEW rejected \in BOOLEAN, Finish(q, rejected) PROVE Settles(q)
  BY <1>10 DEF Finish, WriteAudit, Settles, Held, Post
<1>11. ASSUME NEW t \in Tokens, Chunk(q, t) PROVE Same(q)
  BY <1>11 DEF Chunk, Same, Held
<1>12. ASSUME Disconnect(q) PROVE Dropped(q)
  BY <1>12 DEF Disconnect, Dropped, Post
<1>13. ASSUME Crash PROVE Same(q) \/ Dropped(q)
  BY <1>13 DEF Crash, Same, Held, Dropped
<1>14. ASSUME NEW k \in Keys, Operator(k) PROVE Same(q)
  BY <1>14 DEF Operator, AdminSetLimit, ConsoleSetLimit, AdminReset, ConsoleReset, Same, Held
<1>15. ASSUME UNCHANGED vars PROVE Same(q)
  BY <1>15 DEF vars, Same, Held
<1>16. ASSUME Handler(q) \/ Disconnect(q) PROVE Moved(q)
  BY <1>16, <1>1, <1>2, <1>3, <1>4, <1>5, <1>6, <1>7, <1>8, <1>9, <1>10, <1>11, <1>12
     DEF Handler, Settle, Moved
<1>17. ASSUME NEW r \in Requests, r # q, Handler(r) \/ Disconnect(r) PROVE Same(q)
  BY <1>17, OthersSame
<1> QED BY <1>13, <1>14, <1>15, <1>16, <1>17 DEF Next, Moved

-----------------------------------------------------------------------------
(* The fallback chain.                                                     *)

Distinct(s) == \A i, j \in 1..Len(s) : s[i] = s[j] => i = j

\* What Config::pool checks of each rule makes every chain free of repeats.
LEMMA ChainDistinct ==
  ASSUME NEW m \in Models
  PROVE  Distinct(RouteChain(m))
<1>1. CASE \E i \in 1..Len(Rules) : FirstMatch(m, i)
  <2> DEFINE i == CHOOSE i \in 1..Len(Rules) : FirstMatch(m, i)
             b == Rules[i].backend
             f == Rules[i].fallback
             c == <<b>> \o f
  <2>1. i \in 1..Len(Rules)
    BY <1>1
  <2>2. RouteChain(m) = c
    BY <1>1 DEF RouteChain
  <2>3. /\ f \in Seq(Backends) /\ b \in Backends
        /\ \A x \in 1..Len(f) :
             f[x] # b /\ \A y \in 1..Len(f) : f[x] = f[y] => x = y
    <3>1. ValidRule(Rules[i])
      BY <2>1, ConstantsAssumption
    <3> HIDE DEF i
    <3> QED BY <3>1 DEF ValidRule
  <2> HIDE DEF i, b, f
  <2>4. Len(c) = Len(f) + 1 /\ Len(f) \in Nat
    BY <2>3
  <2>5. \A x \in 1..Len(c) : c[x] = IF x = 1 THEN b ELSE f[x - 1]
    BY <2>3, <2>4
  <2>6. \A x \in 1..Len(c) : x # 1 => x - 1 \in 1..Len(f)
    BY <2>4
  <2>7. ASSUME NEW x \in 1..Len(c), NEW y \in 1..Len(c), c[x] = c[y] PROVE x = y
    <3>1. CASE x = 1 \/ y = 1
      BY <2>3, <2>5, <2>6, <2>7, <3>1
    <3>2. CASE x # 1 /\ y # 1
      <4>1. x - 1 \in 1..Len(f) /\ y - 1 \in 1..Len(f) /\ f[x - 1] = f[y - 1]
        BY <2>5, <2>6, <2>7, <3>2
      <4>2. x - 1 = y - 1
        BY <2>3, <4>1
      <4> QED BY <2>4, <4>2
    <3> QED BY <3>1, <3>2
  <2> HIDE DEF c
  <2> QED BY <2>2, <2>7 DEF Distinct
<1>2. CASE ~ \E i \in 1..Len(Rules) : FirstMatch(m, i)
  <2>1. RouteChain(m) = <<Default>>
    BY <1>2 DEF RouteChain
  <2> QED BY <2>1 DEF Distinct
<1> QED BY <1>1, <1>2

\* The strengthening of FallbackSound: the chain has no repeats, what was
\* tried failed when the handler is about to forward again, and the body is
\* still there until the last attempt has taken it.
ChainInv(q) ==
  LET a == attempts[q]
      n == Len(a)
  IN  /\ Distinct(chain[q])
      /\ \A i \in 1..n : a[i].backend = chain[q][i] /\ a[i].body = "full"
      /\ \A i \in 1..n : i # n => Failed(a[i])
      /\ pc[q] \in {"new", "limit", "usage"} => n = 0
      /\ pc[q] = "forward" /\ n > 0 => Failed(a[n])
      /\ body[q] = "taken" => pc[q] \in Post \/ (pc[q] = "waiting" /\ n = Len(chain[q]))
      /\ n > 0 /\ conn[q] = "open" /\ pc[q] \in Post /\ Failed(a[n]) => n = Len(chain[q])

LEMMA ChainInvNext ==
  ASSUME HandlerTypes, AttemptTypes, [Next]_vars, NEW q \in Requests, ChainInv(q)
  PROVE  ChainInv(q)'
<1> DEFINE a == attempts[q]
           n == Len(a)
<1>0. /\ a \in Seq(Attempt) /\ n \in Nat /\ chain[q] \in Seq(Backends) /\ n <= Len(chain[q])
      /\ pc[q] \in Labels /\ body[q] \in {"full", "taken"} /\ Len(chain[q]) \in Nat
      /\ pc[q] \in {"limit", "usage", "forward"} => n < Len(chain[q])
      /\ pc[q] = "waiting" => n > 0
  BY DEF HandlerTypes, AttemptTypes, Labels
<1>1. CASE Same(q)
  BY <1>1 DEF Same, Held, ChainInv
<1>2. CASE Early(q)
  BY <1>0, <1>2 DEF Early, Held, ChainInv, Post
<1>3. CASE Enters(q)
  <2>1. n = 0 /\ body[q] # "taken"
    BY <1>3 DEF Enters, ChainInv, Post
  <2>2. Distinct(chain'[q])
    BY <1>3, ChainDistinct DEF Enters
  <2>3. attempts'[q] = a /\ body'[q] = body[q] /\ pc'[q] \in {"limit", "forward"}
    BY <1>3 DEF Enters
  <2> QED BY <1>0, <2>1, <2>2, <2>3 DEF ChainInv, Distinct, Post
<1>4. CASE Checked(q)
  <2>1. n = 0 /\ body[q] # "taken"
    BY <1>4 DEF Checked, ChainInv, Post
  <2> QED BY <1>4, <2>1 DEF Checked, Held, ChainInv
<1>5. CASE Sent(q)
  <2> DEFINE x == [backend |-> chain[q][n + 1], body |-> body[q], outcome |-> "pending"]
             b == attempts'[q]
  <2>1. b = Append(a, x) /\ x.backend = chain[q][n + 1] /\ x.body = body[q]
        /\ x.outcome = "pending"
    BY <1>5 DEF Sent
  <2> HIDE DEF x
  <2>2. /\ Len(b) = n + 1 /\ b[n + 1] = x
        /\ \A i \in 1..n : b[i] = a[i]
    BY <1>0, <2>1
  <2>3. body[q] = "full" /\ \A i \in 1..n : Failed(a[i])
    BY <1>0, <1>5 DEF Sent, ChainInv, Post
  <2>4. /\ pc'[q] = "waiting" /\ chain'[q] = chain[q]
        /\ body'[q] = "taken" => n + 1 = Len(chain[q])
    BY <1>5, <2>3 DEF Sent, TakesBody
  <2>5. \A i \in 1..Len(b) : b[i].backend = chain[q][i] /\ b[i].body = "full"
    BY <1>0, <2>1, <2>2, <2>3 DEF ChainInv
  <2>6. \A i \in 1..Len(b) : i # Len(b) => Failed(b[i])
    BY <1>0, <2>2, <2>3
  <2>7. Distinct(chain[q])
    BY DEF ChainInv
  <2> HIDE DEF b
  <2> QED BY <1>0, <2>2, <2>4, <2>5, <2>6, <2>7 DEF ChainInv, Post, b
<1>6. ASSUME NEW o \in {"answered", "5xx", "error"}, Replied(q, o) PROVE ChainInv(q)'
  <2> DEFINE b == attempts'[q]
             y == [a[n] EXCEPT !.outcome = o]
  <2>1. n > 0 /\ b = [a EXCEPT ![n] = y] /\ a[n] \in Attempt
    BY <1>0, <1>6 DEF Replied
  <2>2. y.backend = a[n].backend /\ y.body = a[n].body /\ y.outcome = o
    BY <2>1 DEF Attempt
  <2> HIDE DEF y
  <2>3. Len(b) = n /\ b[n] = y /\ \A i \in 1..n : i # n => b[i] = a[i]
    BY <1>0, <2>1
  <2>4. \A i \in 1..n : b[i].backend = chain[q][i] /\ b[i].body = "full"
    BY <1>0, <2>1, <2>2, <2>3 DEF ChainInv
  <2>5. \A i \in 1..n : i # n => Failed(b[i])
    BY <2>3 DEF ChainInv
  <2>6. Failed(b[n]) <=> o \in {"5xx", "error"}
    BY <2>2, <2>3 DEF Failed
  <2>7. /\ chain'[q] = chain[q] /\ body'[q] = body[q] /\ pc[q] = "waiting"
        /\ \/ pc'[q] = "forward" /\ o \in {"5xx", "error"} /\ n # Len(chain[q])
           \/ pc'[q] = "commit" /\ o = "answered"
           \/ pc'[q] \in {"commit", "done"} /\ n = Len(chain[q])
    BY <1>6 DEF Replied, LastTry
  <2>8. Distinct(chain[q]) /\ (body[q] = "taken" => n = Len(chain[q]))
    BY <2>7 DEF ChainInv, Post
  <2> HIDE DEF b
  <2> QED BY <1>0, <2>3, <2>4, <2>5, <2>6, <2>7, <2>8 DEF ChainInv, Post, b
<1>7. CASE Settles(q)
  BY <1>0, <1>7 DEF Settles, Held, ChainInv, Post
<1>8. CASE Dropped(q)
  BY <1>0, <1>8 DEF Dropped, ChainInv, Post
<1> QED BY <1>1, <1>2, <1>3, <1>4, <1>5, <1>6, <1>7, <1>8, Moves DEF Moved

\* For every routing table that Config::pool accepts: a request walks down
\* its chain in order, sends each backend the whole body at most once, moves
\* on only after a failure and reports a failure only at the chain's end.
THEOREM FallbackCorrect == Spec => []FallbackSound
<1> DEFINE Inv == \A q \in Requests : ChainInv(q)
<1>1. Init => Inv
  <2> SUFFICES ASSUME Init, NEW q \in Requests PROVE ChainInv(q)
    OBVIOUS
  <2>1. chain[q] = <<>> /\ attempts[q] = <<>> /\ body[q] = "full" /\ pc[q] = "new"
    BY DEF Init
  <2> QED BY <2>1 DEF ChainInv, Distinct, Post
<1>2. TypeOK /\ Inv /\ [Next]_vars => Inv'
  <2> SUFFICES ASSUME TypeOK, Inv, [Next]_vars, NEW q \in Requests PROVE ChainInv(q)'
    OBVIOUS
  <2> QED BY ChainInvNext DEF TypeOK
<1>3. TypeOK /\ Inv => FallbackSound
  <2> SUFFICES ASSUME TypeOK, NEW q \in Requests, ChainInv(q)
               PROVE  LET a == attempts[q] IN
                      /\ Len(a) <= Len(chain[q])
                      /\ \A i \in 1..Len(a) :
                           /\ a[i].backend = chain[q][i]
                           /\ a[i].body = "full"
                           /\ \A j \in 1..i - 1 : a[j].backend # a[i].backend /\ Failed(a[j])
                      /\ a # <<>> /\ conn[q] = "open" /\ pc[q] \in {"commit", "done"}
                           /\ Failed(a[Len(a)]) => Len(a) = Len(chain[q])
    BY DEF FallbackSound
  <2> DEFINE a == attempts[q]
             n == Len(a)
  <2>1. /\ n \in Nat /\ n <= Len(chain[q]) /\ Len(chain[q]) \in Nat
        /\ a \in Seq(Attempt)
    BY DEF TypeOK, AttemptTypes
  <2>2. \A i \in 1..n : a[i].backend = chain[q][i] /\ a[i].body = "full"
    BY DEF ChainInv
  <2>3. ASSUME NEW i \in 1..n, NEW j \in 1..i - 1
        PROVE  a[j].backend # a[i].backend /\ Failed(a[j])
    <3>1. j \in 1..n /\ j # n /\ j # i /\ i \in 1..Len(chain[q]) /\ j \in 1..Len(chain[q])
      BY <2>1
    <3>2. chain[q][i] # chain[q][j]
      BY <3>1 DEF ChainInv, Distinct
    <3> QED BY <2>2, <3>1, <3>2 DEF ChainInv
  <2>4. a # <<>> => n > 0
    BY <2>1
  <2> QED BY <2>1, <2>2, <2>3, <2>4 DEF ChainInv, Post
<1> QED BY <1>1, <1>2, <1>3, TypeCorrect, PTL DEF Spec

-----------------------------------------------------------------------------
(* The audit line.                                                         *)

\* The backend asked last has answered.
Heard(q) ==
  attempts[q] # <<>> /\ attempts[q][Len(attempts[q])].outcome \in {"answered", "5xx"}

\* The strengthening of AuditMatches: a handler that is still to write its
\* line has written none, and one that is past its forwards was answered.
TrailInv(q) ==
  /\ audit[q] \in {<<>>, <<"block">>, <<"allow">>}
  /\ audit[q] = <<"block">> => pc[q] = "done" /\ attempts[q] = <<>>
  /\ audit[q] = <<"allow">> => pc[q] \in Post \ {"commit", "finish"} /\ Heard(q)
  /\ pc[q] \in Post \ {"done"} => Heard(q)

LEMMA TrailInvNext ==
  ASSUME HandlerTypes, AttemptTypes, [Next]_vars, NEW q \in Requests, TrailInv(q)
  PROVE  TrailInv(q)'
<1>0. /\ attempts[q] \in Seq(Attempt) /\ pc[q] \in Labels
      /\ pc[q] = "new" => attempts[q] = <<>>
      /\ pc[q] = "waiting" => Len(attempts[q]) > 0
      /\ <<"block">> # <<"allow">> /\ <<"block">> # <<>> /\ <<"allow">> # <<>>
  <2>1. <<"block">>[1] # <<"allow">>[1] /\ Len(<<"block">>) # Len(<<>>)
        /\ Len(<<"allow">>) # Len(<<>>)
    OBVIOUS
  <2> QED BY <2>1 DEF HandlerTypes, AttemptTypes, Labels
<1>1. CASE Same(q)
  BY <1>1 DEF Same, Held, TrailInv, Heard
<1>2. CASE Early(q)
  <2>1. audit[q] = <<>> /\ attempts'[q] = <<>>
    BY <1>0, <1>2 DEF Early, Held, TrailInv, Post
  <2> QED BY <1>0, <1>2, <2>1 DEF Early, TrailInv, Post
<1>3. CASE Enters(q) \/ Checked(q)
  <2>1. audit[q] = <<>> /\ audit'[q] = audit[q] /\ pc'[q] \in {"limit", "usage", "forward", "done"}
    BY <1>3 DEF Enters, Checked, TrailInv, Post
  <2> QED BY <1>0, <2>1 DEF TrailInv, Post
<1>4. CASE Sent(q)
  <2>1. audit[q] = <<>> /\ audit'[q] = audit[q] /\ pc'[q] = "waiting"
    BY <1>4 DEF Sent, TrailInv, Post
  <2> QED BY <1>0, <2>1 DEF TrailInv, Post
<1>5. ASSUME NEW o \in {"answered", "5xx", "error"}, Replied(q, o) PROVE TrailInv(q)'
  <2>1. audit[q] = <<>> /\ audit'[q] = audit[q]
    BY <1>5 DEF Replied, TrailInv, Post
  <2>2. pc'[q] \in {"forward", "done"} \/ (pc'[q] = "commit" /\ o \in {"answered", "5xx"})
    BY <1>5 DEF Replied
  <2>3. Len(attempts'[q]) > 0 /\ attempts'[q][Len(attempts'[q])].outcome = o
    <3> DEFINE a == attempts[q]
               n == Len(a)
               y == [a[n] EXCEPT !.outcome = o]
    <3>1. n > 0 /\ n \in Nat /\ attempts'[q] = [a EXCEPT ![n] = y] /\ a[n] \in Attempt
      BY <1>0, <1>5 DEF Replied
    <3>2. y.outcome = o
      BY <3>1 DEF Attempt
    <3> HIDE DEF y
    <3>3. Len(attempts'[q]) = n /\ attempts'[q][n] = y
      BY <1>0, <3>1
    <3> QED BY <3>1, <3>2, <3>3
  <2>4. attempts'[q] # <<>>
    BY <2>3
  <2> QED BY <1>0, <2>1, <2>2, <2>3, <2>4 DEF TrailInv, Heard, Post
<1>6. CASE Settles(q)
  <2>1. Heard(q) /\ attempts[q] # <<>> /\ attempts'[q] = attempts[q]
    BY <1>6 DEF Settles, Held, TrailInv, Heard
  <2>2. Heard(q)'
    BY <2>1 DEF Heard
  <2>3. audit[q] \in {<<>>, <<"allow">>}
    BY <2>1 DEF TrailInv
  <2>4. CASE audit'[q] = audit[q]
    <3>1. audit[q] = <<"allow">> => pc'[q] \in Post \ {"commit", "finish"}
      BY <1>0, <1>6 DEF Settles, TrailInv, Post
    <3> QED BY <1>0, <2>1, <2>2, <2>3, <2>4, <3>1 DEF TrailInv
  <2>5. CASE audit'[q] = Append(audit[q], "allow") /\ pc[q] \in {"commit", "finish"}
             /\ pc'[q] \in {"stream", "done"}
    <3>1. audit[q] = <<>>
      BY <2>3, <2>5 DEF TrailInv
    <3>2. audit'[q] = <<"allow">>
      BY <2>5, <3>1
    <3> QED BY <1>0, <2>2, <2>5, <3>2 DEF TrailInv, Post
  <2> QED BY <1>6, <2>4, <2>5 DEF Settles
<1>7. CASE Dropped(q)
  BY <1>0, <1>7 DEF Dropped, TrailInv, Heard, Post
<1> QED BY <1>1, <1>2, <1>3, <1>4, <1>5, <1>6, <1>7, Moves DEF Moved

\* Whatever fails, disconnects or restarts on the way, a request leaves at
\* most one audit line; a Block line means no backend saw the request and an
\* Allow line that the backend asked last answered it.
THEOREM AuditCorrect == Spec => []AuditMatches
<1> DEFINE Inv == \A q \in Requests : TrailInv(q)
<1>1. Init => Inv
  <2> SUFFICES ASSUME Init, NEW q \in Requests PROVE TrailInv(q)
    OBVIOUS
  <2>1. attempts[q] = <<>> /\ audit[q] = <<>> /\ pc[q] = "new"
    BY DEF Init
  <2> QED BY <2>1 DEF TrailInv, Post
<1>2. TypeOK /\ Inv /\ [Next]_vars => Inv'
  <2> SUFFICES ASSUME TypeOK, Inv, [Next]_vars, NEW q \in Requests PROVE TrailInv(q)'
    OBVIOUS
  <2> QED BY TrailInvNext DEF TypeOK
<1>3. Inv => AuditMatches
  <2> SUFFICES ASSUME NEW q \in Requests, TrailInv(q)
               PROVE  /\ Len(audit[q]) <= 1
                      /\ audit[q] = <<"block">> => attempts[q] = <<>>
                      /\ audit[q] = <<"allow">> =>
                           /\ attempts[q] # <<>>
                           /\ attempts[q][Len(attempts[q])].outcome \in {"answered", "5xx"}
    BY DEF AuditMatches
  <2>1. audit[q] \in {<<>>, <<"block">>, <<"allow">>}
    BY DEF TrailInv
  <2>2. Len(audit[q]) <= 1
    <3>1. Len(<<>>) = 0 /\ Len(<<"block">>) = 1 /\ Len(<<"allow">>) = 1
      OBVIOUS
    <3>2. Len(audit[q]) = 0 \/ Len(audit[q]) = 1
      BY <2>1, <3>1, Zenon
    <3>3. 0 <= 1 /\ 1 <= 1
      OBVIOUS
    <3> QED BY <3>2, <3>3, Zenon
  <2> QED BY <2>2, Zenon DEF TrailInv, Heard
<1> QED BY <1>1, <1>2, <1>3, TypeCorrect, PTL DEF Spec

-----------------------------------------------------------------------------
(* The spent budget.                                                       *)

\* The strengthening of SpentBudgetStops: a request that began with its
\* budget spent is in the check or at its end, the budget is still spent
\* under the limit it has read, and it was never forwarded.
Stopped(q) ==
  LET k == KeyOf[q] IN
  /\ attempts[q] = <<>>
  /\ pc[q] \in {"limit", "usage", "done"}
  /\ pc[q] \in {"limit", "usage"} => limit[k] # NoLimit /\ usage[k] >= limit[k]
  /\ pc[q] = "usage" => seenLimit[q] = limit[k]

OverInv == \A q \in over : Stopped(q)

\* What the steps of one handler do to the budget of another request.
LEMMA OthersBudget ==
  ASSUME TypeOK, NEW q \in Requests, NEW r \in Requests, r # q,
         Handler(q) \/ Disconnect(q)
  PROVE  /\ limit' = limit /\ seenLimit'[r] = seenLimit[r]
         /\ r \in over' => r \in over
         /\ usage'[KeyOf[r]] >= usage[KeyOf[r]]
<1> USE DEF TypeOK, TableTypes, RecordTypes, handlerVars, budgetVars, ghostVars
<1>0. KeyOf[r] \in Keys /\ KeyOf[q] \in Keys /\ usage[KeyOf[r]] \in Nat
  BY KeyFacts
<1>1. ASSUME RecordUsage(q)
      PROVE  /\ limit' = limit /\ seenLimit' = seenLimit /\ over' = over
             /\ usage'[KeyOf[r]] >= usage[KeyOf[r]]
  <2>1. toks[q] \in Nat
    BY <1>1, ConstantsAssumption DEF RecordUsage, Tokens
  <2>2. usage' = [usage EXCEPT ![KeyOf[q]] = usage[KeyOf[q]] + toks[q]]
    BY <1>1 DEF RecordUsage, Added
  <2>3. usage'[KeyOf[r]] >= usage[KeyOf[r]]
    BY <1>0, <2>1, <2>2
  <2> QED BY <1>1, <2>3 DEF RecordUsage
<1>2. ASSUME \/ \E e \in {"chat", "messages"} : Block(q, e) \/ \E m \in Models : Pass(q, e, m)
             \/ RefuseStream(q) \/ GetLimit(q) \/ GetUsage(q) \/ CheckError(q)
      PROVE  /\ limit' = limit /\ seenLimit'[r] = seenLimit[r] /\ usage' = usage
             /\ r \in over' => r \in over
  BY <1>2 DEF Block, Pass, RefuseStream, GetLimit, GetUsage, CheckError
<1>3. ASSUME \/ Forward(q) \/ NetError(q) \/ \E s \in Statuses : Respond(q, s)
             \/ \E t \in Tokens : Chunk(q, t) \/ Parse(q, t)
             \/ ParseFail(q) \/ StartStream(q) \/ StreamAbort(q) \/ StreamEnd(q)
             \/ RecordLog(q) \/ RecordFail(q) \/ Disconnect(q)
             \/ \E rejected \in BOOLEAN : Finish(q, rejected)
      PROVE  UNCHANGED <<limit, seenLimit, usage, over>>
  BY <1>3 DEF Forward, NetError, Respond, Chunk, Parse, ParseFail, StartStream,
     StreamAbort, StreamEnd, RecordLog, RecordFail, Disconnect, Finish
<1>4. usage[KeyOf[r]] >= usage[KeyOf[r]]
  BY <1>0
<1> QED BY <1>1, <1>2, <1>3, <1>4 DEF Handler, Settle

LEMMA OverNext ==
  ASSUME TypeOK, OverInv, [Next]_vars
  PROVE  OverInv'
<1> USE DEF handlerVars, budgetVars, ghostVars, Goto, Done
<1>0. HandlerTypes /\ AttemptTypes /\ RecordTypes /\ TableTypes
  BY DEF TypeOK
<1> SUFFICES ASSUME NEW q \in over' PROVE Stopped(q)'
  BY DEF OverInv
<1>a. TypeOK'
  BY TypeNext
<1>b. q \in Requests /\ KeyOf[q] \in Keys
  BY <1>a, KeyFacts DEF TypeOK, TableTypes
<1>c. usage[KeyOf[q]] \in Nat /\ limit[KeyOf[q]] \in Nat \cup {NoLimit}
  BY <1>0, <1>b DEF TableTypes
<1>1. ASSUME NEW e \in {"chat", "messages"}, NEW m \in Models, Pass(q, e, m)
      PROVE  Stopped(q)'
  <2>1. q \notin over /\ attempts[q] = <<>>
    <3>1. pc[q] = "new"
      BY <1>1 DEF Pass
    <3>2. attempts[q] \in Seq(Attempt) /\ Len(attempts[q]) = 0
      BY <1>0, <1>b, <3>1 DEF AttemptTypes
    <3>3. q \notin over
      BY <3>1 DEF OverInv, Stopped
    <3> QED BY <3>2, <3>3
  <2>2. budgetOn /\ limit[KeyOf[q]] # NoLimit /\ usage[KeyOf[q]] >= limit[KeyOf[q]]
    BY <1>1, <2>1 DEF Pass
  <2>3. pc'[q] = "limit" /\ UNCHANGED <<attempts, limit, usage>>
    BY <1>0, <1>1, <1>b, <2>2 DEF Pass, HandlerTypes
  <2> QED BY <2>1, <2>2, <2>3 DEF Stopped
<1>2. CASE GetLimit(q)
  <2>1. Stopped(q) /\ pc[q] = "limit"
    BY <1>2 DEF GetLimit, OverInv
  <2>2. pc'[q] = "usage" /\ seenLimit'[q] = limit[KeyOf[q]]
        /\ UNCHANGED <<attempts, limit, usage>>
    BY <1>0, <1>2, <1>b, <2>1 DEF GetLimit, Stopped, HandlerTypes, RecordTypes
  <2> QED BY <2>1, <2>2 DEF Stopped
<1>3. CASE GetUsage(q)
  <2>1. Stopped(q) /\ pc[q] = "usage"
    BY <1>3 DEF GetUsage, OverInv
  <2>2. pc'[q] = "done" /\ UNCHANGED attempts
    BY <1>0, <1>3, <1>b, <2>1 DEF GetUsage, Spent, Stopped, HandlerTypes
  <2> QED BY <2>1, <2>2 DEF Stopped
<1>4. CASE CheckError(q)
  BY <1>4 DEF CheckError
<1>5. CASE Disconnect(q)
  <2>1. Stopped(q)
    BY <1>5 DEF Disconnect, OverInv
  <2>2. pc'[q] = "done" /\ UNCHANGED attempts
    BY <1>0, <1>5, <1>b, <2>1 DEF Disconnect, Stopped, HandlerTypes
  <2> QED BY <2>1, <2>2 DEF Stopped
<1>6. ASSUME Handler(q),
             ~ \/ \E e \in {"chat", "messages"}, m \in Models : Pass(q, e, m)
               \/ GetLimit(q) \/ GetUsage(q) \/ CheckError(q)
      PROVE  FALSE
  <2>1. ASSUME \/ RefuseStream(q) \/ \E e \in {"chat", "messages"} : Block(q, e)
        PROVE  over' = over /\ pc[q] = "new"
    BY <2>1 DEF Block, RefuseStream
  <2>2. ASSUME \/ Forward(q) \/ NetError(q) \/ \E s \in Statuses : Respond(q, s)
               \/ \E t \in Tokens : Chunk(q, t) \/ Parse(q, t)
               \/ ParseFail(q) \/ StartStream(q) \/ StreamAbort(q) \/ StreamEnd(q)
        PROVE  over' = over /\ pc[q] \in {"forward", "waiting", "commit", "stream"}
    BY <2>2 DEF Forward, NetError, Respond, Chunk, Parse, ParseFail, StartStream,
       StreamAbort, StreamEnd
  <2>3. ASSUME \/ RecordLog(q) \/ RecordUsage(q) \/ RecordFail(q)
               \/ \E rejected \in BOOLEAN : Finish(q, rejected)
        PROVE  over' = over /\ pc[q] \in {"record", "upsert", "finish"}
    BY <2>3 DEF RecordLog, RecordUsage, RecordFail, Finish
  <2>4. over' = over /\ pc[q] \notin {"limit", "usage", "done"}
    BY <1>6, <2>1, <2>2, <2>3 DEF Handler, Settle
  <2> QED BY <2>4 DEF OverInv, Stopped
<1>7. ASSUME NEW r \in Requests, r # q, Handler(r) \/ Disconnect(r) PROVE Stopped(q)'
  <2>1. Same(q)
    BY <1>0, <1>7, <1>b, OthersSame
  <2>2. /\ limit' = limit /\ seenLimit'[q] = seenLimit[q] /\ q \in over
        /\ usage'[KeyOf[q]] >= usage[KeyOf[q]]
    BY <1>7, <1>b, OthersBudget
  <2>3. Stopped(q)
    BY <2>2 DEF OverInv
  <2>4. usage'[KeyOf[q]] \in Nat
    BY <1>a, <1>b DEF TypeOK, TableTypes
  <2>5. limit[KeyOf[q]] # NoLimit /\ usage[KeyOf[q]] >= limit[KeyOf[q]] =>
          usage'[KeyOf[q]] >= limit[KeyOf[q]]
    BY <1>c, <2>2, <2>4
  <2> QED BY <2>1, <2>2, <2>3, <2>5 DEF Stopped, Same, Held
<1>8. ASSUME NEW k \in Keys, Operator(k) PROVE Stopped(q)'
  <2>1. /\ over' = over \ OfKey(k) /\ UNCHANGED <<pc, attempts, seenLimit>>
        /\ \A x \in Keys : x # k => limit'[x] = limit[x] /\ usage'[x] = usage[x]
    BY <1>0, <1>8 DEF Operator, AdminSetLimit, ConsoleSetLimit, AdminReset, ConsoleReset,
       TableTypes
  <2>2. KeyOf[q] # k /\ q \in over
    BY <1>b, <2>1 DEF OfKey
  <2> QED BY <1>b, <2>1, <2>2 DEF OverInv, Stopped
<1>9. CASE Crash
  <2>1. Stopped(q) /\ UNCHANGED attempts
    BY <1>9 DEF Crash, OverInv
  <2>2. pc'[q] = "done"
    BY <1>9, <1>b, <2>1 DEF Crash, Stopped
  <2> QED BY <2>1, <2>2 DEF Stopped
<1>10. CASE UNCHANGED vars
  BY <1>10 DEF vars, OverInv, Stopped
<1> QED BY <1>1, <1>2, <1>3, <1>4, <1>5, <1>6, <1>7, <1>8, <1>9, <1>10, <1>b DEF Next

\* However recordings, operators and restarts interleave with the two queries
\* of check: a request that begins with its budget spent is never forwarded,
\* as long as nobody changes the limit or the counter in its favour.
THEOREM SpentBudgetCorrect == Spec => []SpentBudgetStops
<1>1. Init => OverInv
  BY DEF Init, OverInv
<1>2. TypeOK /\ OverInv /\ [Next]_vars => OverInv'
  BY OverNext
<1>3. OverInv => SpentBudgetStops
  BY DEF OverInv, Stopped, SpentBudgetStops
<1> QED BY <1>1, <1>2, <1>3, TypeCorrect, PTL DEF Spec

=============================================================================
