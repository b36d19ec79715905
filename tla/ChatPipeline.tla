---------------------------- MODULE ChatPipeline ----------------------------
(***************************************************************************)
(* The request path of the proxy behind the token check: the handlers of   *)
(* POST /v1/chat/completions (streaming or not) and POST /v1/messages, the *)
(* fallback chain of the backend pool, the token budget in SQLite with the *)
(* admin and console operations on it, and the request audit log.          *)
(* Sources: src/src/proxy/{mod,anthropic}.rs, src/src/backend/mod.rs,      *)
(* src/src/budget/*.rs, src/src/config/mod.rs (pool), src/src/admin/mod.rs *)
(* and src/src/console/handlers.rs (budget), src/src/audit/mod.rs.         *)
(*                                                                         *)
(* Granularity.  A handler runs alone from one await to the next.  The     *)
(* proxy's budget calls hold the mutex of its one SQLite connection, the   *)
(* console writes the same file through a connection of its own.  Prompts, *)
(* responses and guard rules are abstracted to the verdicts they lead to;  *)
(* [audit] is taken to be enabled.                                         *)
(***************************************************************************)
EXTENDS Integers, Sequences, FiniteSets

CONSTANTS
  Requests,   \* HTTP requests, one id each
  Keys,       \* budget keys (token:<id>, or the body's user field)
  KeyOf,      \* the budget key of each request
  Models,     \* values of the body's model field
  Backends,   \* labels of [backends.*]
  Rules,      \* [routing].rules: sequence of [models, backend, fallback]
  Default,    \* [routing].default
  Statuses,   \* HTTP statuses an upstream answers with
  MaxTok,     \* most tokens one response reports in usage
  Limits,     \* token limits operators set
  MaxOps,     \* bound on budget operations
  MaxCrashes, \* bound on proxy restarts
  NoOne       \* the connection mutex is free

NoLimit == -1   \* no api_key_limits row
NoUsage == -1   \* no usage field seen in a stream
NoStatus == 0

Tokens == 0..MaxTok

\* What Config::pool checks before a routing table goes live.
ValidRule(r) ==
  /\ r.models \subseteq Models
  /\ r.backend \in Backends
  /\ r.fallback \in Seq(Backends)
  /\ \A i \in 1..Len(r.fallback) :
       /\ r.fallback[i] # r.backend
       /\ \A j \in 1..Len(r.fallback) : r.fallback[i] = r.fallback[j] => i = j

ASSUME ConstantsAssumption ==
  /\ IsFiniteSet(Requests)
  /\ KeyOf \in [Requests -> Keys]
  /\ Rules \in Seq([models : SUBSET Models, backend : Backends, fallback : Seq(Backends)])
  /\ \A i \in 1..Len(Rules) : ValidRule(Rules[i])
  /\ Default \in Backends
  /\ Statuses \subseteq 100..599
  /\ MaxTok \in Nat
  /\ Limits \subseteq Nat
  /\ MaxOps \in Nat /\ MaxCrashes \in Nat
  /\ NoOne \notin Requests

VARIABLES
  budgetOn,  \* [budget].enabled
  pc,        \* where each handler is
  endpoint,  \* chat or messages
  conn,      \* whether the client still waits for the answer
  chain,     \* backends to try, fixed by route_chain
  body,      \* the request body in the handler: full, or taken
  attempts,  \* forwards so far: [backend, body, outcome]
  last5xx,   \* last 5xx status that made the handler fall through
  toks,      \* tokens to record; NoUsage while a stream has shown none
  answer,    \* status of the answer, NoStatus before it
  audit,     \* verdicts of the request's audit lines
  seenLimit, \* limit that check has read
  mutex,     \* holder of the budget connection across two statements
  limit, usage, logged,   \* api_key_limits, api_key_usage, sum of spend_logs
  ops, crashes,           \* operations and restarts so far
  \* What the properties remember:
  cap,       \* highest limit a request was let in under, NoLimit if none was read
  peak,      \* most requests of a key between check and settlement at once
  over,      \* requests that began with the budget spent
  clean      \* keys with no reset and no failed or interrupted recording

handlerVars == <<endpoint, chain, body, attempts, last5xx, toks>>
budgetVars == <<mutex, limit, usage, logged>>
ghostVars == <<cap, peak, over, clean>>
vars == <<budgetOn, pc, conn, handlerVars, answer, audit, seenLimit, budgetVars,
          ops, crashes, ghostVars>>

\* Handlers that were let in and may still cost tokens.
Unsettled == {"forward", "waiting", "commit", "stream", "record", "upsert"}

\* Limits survive restarts: a start finds some already set.
Init ==
  /\ budgetOn \in BOOLEAN
  /\ pc = [q \in Requests |-> "new"]
  /\ endpoint = [q \in Requests |-> "chat"]
  /\ conn = [q \in Requests |-> "open"]
  /\ chain = [q \in Requests |-> <<>>]
  /\ body = [q \in Requests |-> "full"]
  /\ attempts = [q \in Requests |-> <<>>]
  /\ last5xx = [q \in Requests |-> NoStatus]
  /\ toks = [q \in Requests |-> NoUsage]
  /\ answer = [q \in Requests |-> NoStatus]
  /\ audit = [q \in Requests |-> <<>>]
  /\ seenLimit = [q \in Requests |-> NoLimit]
  /\ mutex = NoOne
  /\ limit \in [Keys -> Limits \cup {NoLimit}]
  /\ usage = [k \in Keys |-> 0]
  /\ logged = [k \in Keys |-> 0]
  /\ ops = 0
  /\ crashes = 0
  /\ cap = [k \in Keys |-> 0]
  /\ peak = [k \in Keys |-> 0]
  /\ over = {}
  /\ clean = Keys

-----------------------------------------------------------------------------
(* Routing                                                                 *)

FirstMatch(m, i) ==
  /\ m \in Rules[i].models
  /\ \A j \in 1..i - 1 : m \notin Rules[j].models

\* route_chain: the first rule that matches the model gives the primary and
\* its fallbacks; no rule, the default backend alone.
RouteChain(m) ==
  IF \E i \in 1..Len(Rules) : FirstMatch(m, i)
  THEN LET i == CHOOSE i \in 1..Len(Rules) : FirstMatch(m, i)
       IN  <<Rules[i].backend>> \o Rules[i].fallback
  ELSE <<Default>>

-----------------------------------------------------------------------------
(* The handler up to the first forward                                     *)

Goto(q, l) == pc' = [pc EXCEPT ![q] = l]

Done(q, status) ==
  /\ Goto(q, "done")
  /\ answer' = [answer EXCEPT ![q] = status]

\* write_audit: only /v1/chat/completions calls it.
WriteAudit(q, verdict) ==
  audit' = [audit EXCEPT ![q] = IF endpoint[q] = "chat" THEN Append(@, verdict) ELSE @]

\* Input guard or reject-class PII: 400, with a Block line on the chat endpoint.
Block(q, e) ==
  /\ pc[q] = "new"
  /\ endpoint' = [endpoint EXCEPT ![q] = e]
  /\ Done(q, 400)
  /\ audit' = [audit EXCEPT ![q] = IF e = "chat" THEN <<"block">> ELSE <<>>]
  /\ UNCHANGED <<budgetOn, conn, chain, body, attempts, last5xx, toks,
                 seenLimit, budgetVars, ops, crashes, ghostVars>>

\* /v1/messages with stream = true: 400 before anything else.
RefuseStream(q) ==
  /\ pc[q] = "new"
  /\ endpoint' = [endpoint EXCEPT ![q] = "messages"]
  /\ Done(q, 400)
  /\ UNCHANGED <<budgetOn, conn, chain, body, attempts, last5xx, toks,
                 audit, seenLimit, budgetVars, ops, crashes, ghostVars>>

InFlight(k, at) == {q \in Requests : KeyOf[q] = k /\ at[q] \in Unsettled}

Higher(a, b) == IF a >= b THEN a ELSE b

\* q of key k is let in under limit l.
LetIn(q, l) ==
  LET k == KeyOf[q] IN
  /\ Goto(q, "forward")
  /\ cap' = [cap EXCEPT ![k] = IF l = NoLimit \/ cap[k] = NoLimit
                               THEN NoLimit ELSE Higher(cap[k], l)]
  /\ peak' = [peak EXCEPT ![k] = Higher(peak[k], Cardinality(InFlight(k, pc')))]

\* The guards pass; masking and spotlighting rewrite the body in place.
Pass(q, e, m) ==
  /\ pc[q] = "new"
  /\ endpoint' = [endpoint EXCEPT ![q] = e]
  /\ chain' = [chain EXCEPT ![q] = RouteChain(m)]
  /\ IF budgetOn
     THEN Goto(q, "limit") /\ UNCHANGED <<cap, peak>>
     ELSE LetIn(q, NoLimit)
  /\ over' = IF limit[KeyOf[q]] # NoLimit /\ usage[KeyOf[q]] >= limit[KeyOf[q]] /\ budgetOn
             THEN over \cup {q} ELSE over
  /\ UNCHANGED <<budgetOn, conn, body, attempts, last5xx, toks, answer,
                 audit, seenLimit, budgetVars, ops, crashes, clean>>

\* BudgetStore::check, first query: no row means unlimited.
GetLimit(q) ==
  /\ pc[q] = "limit"
  /\ mutex = NoOne
  /\ seenLimit' = [seenLimit EXCEPT ![q] = limit[KeyOf[q]]]
  /\ IF limit[KeyOf[q]] = NoLimit
     THEN LetIn(q, NoLimit)
     ELSE Goto(q, "usage") /\ UNCHANGED <<cap, peak>>
  /\ UNCHANGED <<budgetOn, conn, handlerVars, answer, audit, budgetVars, ops,
                 crashes, over, clean>>

\* Seeded fault: the comparison is strict.
MutSpent(used, lim) == used > lim

Spent(used, lim) == used >= lim

\* BudgetStore::check, second query and the decision; 429 leaves no audit line.
GetUsage(q) ==
  /\ pc[q] = "usage"
  /\ mutex = NoOne
  /\ IF Spent(usage[KeyOf[q]], seenLimit[q])
     THEN Done(q, 429) /\ UNCHANGED <<cap, peak>>
     ELSE LetIn(q, seenLimit[q]) /\ UNCHANGED answer
  /\ UNCHANGED <<budgetOn, conn, handlerVars, audit, seenLimit, budgetVars, ops,
                 crashes, over, clean>>

\* A failing query lets the request through.
CheckError(q) ==
  /\ pc[q] \in {"limit", "usage"}
  /\ mutex = NoOne
  /\ LetIn(q, NoLimit)
  /\ over' = over \ {q}
  /\ UNCHANGED <<budgetOn, conn, handlerVars, answer, audit, seenLimit,
                 budgetVars, ops, crashes, clean>>

-----------------------------------------------------------------------------
(* The fallback loop                                                       *)

LastTry(q) == Len(attempts[q]) = Len(chain[q])

\* Seeded fault: the first attempt takes the body instead of cloning it.
MutTakesBody(q) == attempts[q] = <<>>

\* The body is moved out on the last attempt and cloned before.
TakesBody(q) == Len(attempts[q]) + 1 = Len(chain[q])

Forward(q) ==
  /\ pc[q] = "forward"
  /\ Goto(q, "waiting")
  /\ attempts' = [attempts EXCEPT ![q] =
                    Append(@, [backend |-> chain[q][Len(@) + 1], body |-> body[q],
                               outcome |-> "pending"])]
  /\ body' = [body EXCEPT ![q] = IF TakesBody(q) THEN "taken" ELSE @]
  /\ UNCHANGED <<budgetOn, conn, endpoint, chain, last5xx, toks, answer,
                 audit, seenLimit, budgetVars, ops, crashes, ghostVars>>

Outcome(q, o) == attempts' = [attempts EXCEPT ![q][Len(attempts[q])].outcome = o]

FallsThrough(q, s) == s >= 500 /\ ~LastTry(q)

\* The upstream answers: a 5xx moves on to the next backend while there is
\* one, anything else is the response this request is committed to.
Respond(q, s) ==
  /\ pc[q] = "waiting"
  /\ Outcome(q, IF s >= 500 THEN "5xx" ELSE "answered")
  /\ IF FallsThrough(q, s)
     THEN Goto(q, "forward") /\ last5xx' = [last5xx EXCEPT ![q] = s]
          /\ UNCHANGED answer
     ELSE Goto(q, "commit") /\ answer' = [answer EXCEPT ![q] = s]
          /\ UNCHANGED last5xx
  /\ UNCHANGED <<budgetOn, conn, endpoint, chain, body, toks, audit,
                 seenLimit, budgetVars, ops, crashes, ghostVars>>

\* Connection error: next backend, or give up with the last 5xx, else 502.
NetError(q) ==
  /\ pc[q] = "waiting"
  /\ Outcome(q, "error")
  /\ IF LastTry(q)
     THEN Done(q, IF last5xx[q] # NoStatus THEN last5xx[q] ELSE 502)
     ELSE Goto(q, "forward") /\ UNCHANGED answer
  /\ UNCHANGED <<budgetOn, conn, endpoint, chain, body, last5xx, toks,
                 audit, seenLimit, budgetVars, ops, crashes, ghostVars>>

-----------------------------------------------------------------------------
(* The response                                                            *)

\* Not JSON: 502, no spend and no audit line.
ParseFail(q) ==
  /\ pc[q] = "commit"
  /\ Done(q, 502)
  /\ UNCHANGED <<budgetOn, conn, handlerVars, audit, seenLimit, budgetVars, ops,
                 crashes, ghostVars>>

\* JSON with usage t (0 when absent).  /v1/messages records only a success.
Parse(q, t) ==
  /\ pc[q] = "commit"
  /\ toks' = [toks EXCEPT ![q] = t]
  /\ Goto(q, IF budgetOn /\ (endpoint[q] = "chat" \/ answer[q] \in 200..299)
             THEN "record" ELSE "finish")
  /\ UNCHANGED <<budgetOn, conn, endpoint, chain, body, attempts, last5xx,
                 answer, audit, seenLimit, budgetVars, ops, crashes, ghostVars>>

\* text/event-stream: the Allow line is written before the body is sent.
StartStream(q) ==
  /\ pc[q] = "commit"
  /\ endpoint[q] = "chat"
  /\ Goto(q, "stream")
  /\ WriteAudit(q, "allow")
  /\ UNCHANGED <<budgetOn, conn, handlerVars, answer, seenLimit, budgetVars, ops,
                 crashes, ghostVars>>

\* A chunk with a usage event; the last usage seen wins.  Other chunks are
\* filtered and passed on, which changes nothing here.
Chunk(q, t) ==
  /\ pc[q] = "stream"
  /\ toks' = [toks EXCEPT ![q] = t]
  /\ UNCHANGED <<budgetOn, pc, conn, endpoint, chain, body, attempts, last5xx,
                 answer, audit, seenLimit, budgetVars, ops, crashes, ghostVars>>

\* Upstream error in the stream, or the tool gate denies a call: the stream
\* ends at once and nothing is recorded.
StreamAbort(q) ==
  /\ pc[q] = "stream"
  /\ Goto(q, "done")
  /\ UNCHANGED <<budgetOn, conn, handlerVars, answer, audit, seenLimit,
                 budgetVars, ops, crashes, ghostVars>>

\* Seeded fault: the end of a stream records without a usage event.
MutStreamEnd(q) ==
  /\ pc[q] = "stream"
  /\ Goto(q, IF budgetOn THEN "record" ELSE "done")
  /\ UNCHANGED <<budgetOn, conn, handlerVars, answer, audit, seenLimit,
                 budgetVars, ops, crashes, ghostVars>>

\* The upstream closes the stream: the usage seen, if any, is recorded.
StreamEnd(q) ==
  /\ pc[q] = "stream"
  /\ Goto(q, IF budgetOn /\ toks[q] # NoUsage THEN "record" ELSE "done")
  /\ UNCHANGED <<budgetOn, conn, handlerVars, answer, audit, seenLimit,
                 budgetVars, ops, crashes, ghostVars>>

\* Only a stream has its audit line before it records.
Streaming(q) == audit[q] # <<>>

\* Seeded fault: a stream falls into the code after the JSON branch.
MutAfterRecord(q) == Goto(q, IF conn[q] = "gone" THEN "done" ELSE "finish")

\* After record_spend, whatever it returned: the JSON handlers go on to the
\* output guards, the stream is over, an abandoned handler stays abandoned.
AfterRecord(q) ==
  Goto(q, IF Streaming(q) \/ conn[q] = "gone" THEN "done" ELSE "finish")

\* record_spend, on the blocking pool: the log row is inserted first.
RecordLog(q) ==
  /\ pc[q] = "record"
  /\ mutex = NoOne
  /\ mutex' = q
  /\ logged' = [logged EXCEPT ![KeyOf[q]] = @ + toks[q]]
  /\ Goto(q, "upsert")
  /\ UNCHANGED <<budgetOn, conn, handlerVars, answer, audit, seenLimit, limit,
                 usage, ops, crashes, ghostVars>>

\* Seeded fault: the upsert overwrites the total.
MutAdded(used, t) == t

\* Seeded fault: prompt and completion are added to a total that has them.
MutAddedTwice(used, t) == used + t + t

Added(used, t) == used + t

\* ... then the counter is upserted, in a statement of its own.
RecordUsage(q) ==
  /\ pc[q] = "upsert"
  /\ mutex' = NoOne
  /\ usage' = [usage EXCEPT ![KeyOf[q]] = Added(@, toks[q])]
  /\ AfterRecord(q)
  /\ UNCHANGED <<budgetOn, conn, handlerVars, answer, audit, seenLimit, limit,
                 logged, ops, crashes, ghostVars>>

\* Seeded fault: a failed statement is propagated instead of logged, and the
\* handler returns before its audit line.
MutRecordFail(q) ==
  /\ pc[q] \in {"record", "upsert"}
  /\ mutex \in {NoOne, q}
  /\ mutex' = NoOne
  /\ clean' = IF pc[q] = "upsert" THEN clean \ {KeyOf[q]} ELSE clean
  /\ Done(q, 500)
  /\ UNCHANGED <<budgetOn, conn, handlerVars, audit, seenLimit, limit,
                 usage, logged, ops, crashes, cap, peak, over>>

\* Either statement may fail; the handler only logs a warning.
RecordFail(q) ==
  /\ pc[q] \in {"record", "upsert"}
  /\ mutex \in {NoOne, q}
  /\ mutex' = NoOne
  /\ clean' = IF pc[q] = "upsert" THEN clean \ {KeyOf[q]} ELSE clean
  /\ AfterRecord(q)
  /\ UNCHANGED <<budgetOn, conn, handlerVars, answer, audit, seenLimit, limit,
                 usage, logged, ops, crashes, cap, peak, over>>

\* Audit, output filter, de-anonymisation, tool gate, schema.  A schema
\* violation under on_violation = reject replaces the answer.
Finish(q, rejected) ==
  /\ pc[q] = "finish"
  /\ WriteAudit(q, "allow")
  /\ IF rejected
     THEN Done(q, IF endpoint[q] = "chat" THEN 400 ELSE 502)
     ELSE Goto(q, "done") /\ UNCHANGED answer
  /\ UNCHANGED <<budgetOn, conn, handlerVars, seenLimit, budgetVars, ops,
                 crashes, ghostVars>>

-----------------------------------------------------------------------------
(* Disconnects, restarts and budget operations                             *)

\* The client closes the connection: hyper drops the handler (or the stream)
\* at its await, except that a queued record_spend runs to its end.
Disconnect(q) ==
  /\ pc[q] \notin {"new", "finish", "done"}
  /\ conn[q] = "open"
  /\ conn' = [conn EXCEPT ![q] = "gone"]
  /\ pc' = IF pc[q] \in {"record", "upsert"} THEN pc ELSE [pc EXCEPT ![q] = "done"]
  /\ UNCHANGED <<budgetOn, handlerVars, answer, audit, seenLimit, budgetVars, ops,
                 crashes, ghostVars>>

\* The proxy dies and restarts: handlers are lost, SQLite keeps what each
\* statement committed.
Crash ==
  /\ crashes < MaxCrashes
  /\ crashes' = crashes + 1
  /\ mutex' = NoOne
  /\ pc' = [q \in Requests |-> IF pc[q] = "new" THEN "new" ELSE "done"]
  /\ conn' = [q \in Requests |-> IF pc[q] \in {"new", "done"} THEN conn[q] ELSE "gone"]
  /\ clean' = clean \ {KeyOf[q] : q \in {r \in Requests : pc[r] = "upsert"}}
  /\ UNCHANGED <<budgetOn, handlerVars, answer, audit, seenLimit, limit, usage,
                 logged, ops, cap, peak, over>>

OfKey(k) == {q \in Requests : KeyOf[q] = k}

\* PUT /v1/admin/budget/:api_key, through the proxy's connection.
AdminSetLimit(k, l) ==
  /\ budgetOn /\ ops < MaxOps
  /\ mutex = NoOne
  /\ ops' = ops + 1
  /\ limit' = [limit EXCEPT ![k] = l]
  /\ over' = over \ OfKey(k)
  /\ UNCHANGED <<budgetOn, pc, conn, handlerVars, answer, audit, seenLimit, mutex,
                 usage, logged, crashes, cap, peak, clean>>

\* POST /api/budget/limit of the console: sets the limit, or deletes its row.
ConsoleSetLimit(k, l) ==
  /\ ops < MaxOps
  /\ ops' = ops + 1
  /\ limit' = [limit EXCEPT ![k] = l]
  /\ over' = over \ OfKey(k)
  /\ UNCHANGED <<budgetOn, pc, conn, handlerVars, answer, audit, seenLimit, mutex,
                 usage, logged, crashes, cap, peak, clean>>

\* Seeded fault: a reset empties the spend log too.
MutAdminReset(k) ==
  /\ budgetOn /\ ops < MaxOps
  /\ mutex = NoOne
  /\ ops' = ops + 1
  /\ usage' = [usage EXCEPT ![k] = 0]
  /\ logged' = [logged EXCEPT ![k] = 0]
  /\ over' = over \ OfKey(k)
  /\ clean' = clean \ {k}
  /\ UNCHANGED <<budgetOn, pc, conn, handlerVars, answer, audit, seenLimit, mutex,
                 limit, crashes, cap, peak>>

\* DELETE /v1/admin/budget/:api_key/reset.
AdminReset(k) ==
  /\ budgetOn /\ ops < MaxOps
  /\ mutex = NoOne
  /\ ops' = ops + 1
  /\ usage' = [usage EXCEPT ![k] = 0]
  /\ over' = over \ OfKey(k)
  /\ clean' = clean \ {k}
  /\ UNCHANGED <<budgetOn, pc, conn, handlerVars, answer, audit, seenLimit, mutex,
                 limit, logged, crashes, cap, peak>>

\* POST /api/budget/reset of the console, which may fall between the two
\* statements of record_spend.
ConsoleReset(k) ==
  /\ ops < MaxOps
  /\ ops' = ops + 1
  /\ usage' = [usage EXCEPT ![k] = 0]
  /\ over' = over \ OfKey(k)
  /\ clean' = clean \ {k}
  /\ UNCHANGED <<budgetOn, pc, conn, handlerVars, answer, audit, seenLimit, mutex,
                 limit, logged, crashes, cap, peak>>

-----------------------------------------------------------------------------

\* What follows the answer of an upstream.
Settle(q) ==
  \/ ParseFail(q)
  \/ \E t \in Tokens : Parse(q, t)
  \/ StartStream(q)
  \/ StreamAbort(q)
  \/ StreamEnd(q)
  \/ RecordLog(q)
  \/ RecordUsage(q)
  \/ RecordFail(q)
  \/ \E rejected \in BOOLEAN : Finish(q, rejected)

Handler(q) ==
  \/ \E e \in {"chat", "messages"} :
       \/ Block(q, e)
       \/ \E m \in Models : Pass(q, e, m)
  \/ RefuseStream(q)
  \/ GetLimit(q)
  \/ GetUsage(q)
  \/ CheckError(q)
  \/ Forward(q)
  \/ \E s \in Statuses : Respond(q, s)
  \/ NetError(q)
  \/ \E t \in Tokens : Chunk(q, t)
  \/ Settle(q)

Operator(k) ==
  \/ \E l \in Limits : AdminSetLimit(k, l)
  \/ \E l \in Limits \cup {NoLimit} : ConsoleSetLimit(k, l)
  \/ AdminReset(k)
  \/ ConsoleReset(k)

Next ==
  \/ \E q \in Requests : Handler(q) \/ Disconnect(q)
  \/ \E k \in Keys : Operator(k)
  \/ Crash

Spec == Init /\ [][Next]_vars

\* From the end of the upstream's body on, the proxy needs nobody else:
\* record_spend is on the blocking pool, and Finish awaits nothing.
Account(q) ==
  \/ RecordLog(q)
  \/ RecordUsage(q)
  \/ RecordFail(q)
  \/ \E rejected \in BOOLEAN : Finish(q, rejected)

\* Neither a forward nor the read of a body has a timeout: an upstream that
\* stops sending holds its request for ever, so nothing is assumed of it.
FairSpec == Spec /\ \A q \in Requests : WF_vars(Account(q))

-----------------------------------------------------------------------------
(* Properties                                                              *)

Attempt == [backend : Backends, body : {"full", "taken"},
            outcome : {"pending", "answered", "5xx", "error"}]

HttpStatus == {NoStatus} \cup 100..599
AuditTrail == Seq({"block", "allow"})

HandlerTypes ==
  /\ budgetOn \in BOOLEAN
  /\ pc \in [Requests -> {"new", "limit", "usage", "finish", "done"} \cup Unsettled]
  /\ endpoint \in [Requests -> {"chat", "messages"}]
  /\ conn \in [Requests -> {"open", "gone"}]
  /\ body \in [Requests -> {"full", "taken"}]
  /\ answer \in [Requests -> HttpStatus]
  /\ last5xx \in [Requests -> HttpStatus]
  /\ audit \in [Requests -> AuditTrail]

AttemptTypes ==
  /\ chain \in [Requests -> Seq(Backends)]
  /\ attempts \in [Requests -> Seq(Attempt)]
  /\ \A q \in Requests :
       /\ Len(attempts[q]) <= Len(chain[q])
       /\ pc[q] \in {"limit", "usage", "forward"} => Len(attempts[q]) < Len(chain[q])
       /\ pc[q] = "waiting" => Len(attempts[q]) > 0
       /\ pc[q] = "new" => Len(attempts[q]) = 0

RecordTypes ==
  /\ toks \in [Requests -> Tokens \cup {NoUsage}]
  /\ seenLimit \in [Requests -> Nat \cup {NoLimit}]
  /\ mutex \in Requests \cup {NoOne}
  /\ \A q \in Requests :
       /\ pc[q] \in {"record", "upsert"} => toks[q] \in Tokens
       /\ pc[q] = "usage" => seenLimit[q] \in Nat
       /\ pc[q] = "upsert" <=> mutex = q

TableTypes ==
  /\ limit \in [Keys -> Nat \cup {NoLimit}]
  /\ usage \in [Keys -> Nat]
  /\ logged \in [Keys -> Nat]
  /\ cap \in [Keys -> Nat \cup {NoLimit}]
  /\ peak \in [Keys -> Nat]
  /\ over \subseteq Requests
  /\ clean \subseteq Keys

Counters == ops \in 0..MaxOps /\ crashes \in 0..MaxCrashes

TypeOK ==
  /\ Counters
  /\ HandlerTypes
  /\ AttemptTypes
  /\ RecordTypes
  /\ TableTypes

\* Tokens in spend_logs that the counter has not seen yet.
Pending(k) == IF mutex # NoOne /\ KeyOf[mutex] = k THEN toks[mutex] ELSE 0

\* The counter the budget is enforced on never runs ahead of the spend log,
\* and agrees with it whenever no reset, failed statement or restart of the
\* proxy came between the two inserts of record_spend.
LedgerAgrees ==
  \A k \in Keys :
    /\ usage[k] + Pending(k) <= logged[k]
    /\ k \in clean => usage[k] + Pending(k) = logged[k]

\* check is not atomic with the spend it admits, so a budget can be overrun,
\* but by no more than what the requests in flight together may cost: usage
\* stays below the highest limit anyone was admitted under plus MaxTok for
\* each of the most requests that were ever in flight at once.
OvershootBounded ==
  \A k \in Keys :
    cap[k] # NoLimit =>
      usage[k] = 0 \/ usage[k] < cap[k] + MaxTok * peak[k]

\* What makes that inductive: the requests in flight have not spent yet.
OvershootInv ==
  \A k \in Keys :
    cap[k] # NoLimit =>
      \/ usage[k] = 0 /\ InFlight(k, pc) = {}
      \/ usage[k] + MaxTok * Cardinality(InFlight(k, pc)) < cap[k] + MaxTok * peak[k]

\* Once a budget is spent, a request that begins is not forwarded, until an
\* operator changes the limit or resets the counter (or the check fails).
SpentBudgetStops == \A q \in over : attempts[q] = <<>>

Failed(a) == a.outcome \in {"5xx", "error"}

\* The chain is tried in order, every backend at most once and with the whole
\* body; a further backend is tried only after a failure, and the client is
\* told of a failure only after the whole chain has failed.
FallbackSound ==
  \A q \in Requests :
    LET a == attempts[q] IN
    /\ Len(a) <= Len(chain[q])
    /\ \A i \in 1..Len(a) :
         /\ a[i].backend = chain[q][i]
         /\ a[i].body = "full"
         /\ \A j \in 1..i - 1 : a[j].backend # a[i].backend /\ Failed(a[j])
    /\ a # <<>> /\ conn[q] = "open" /\ pc[q] \in {"commit", "done"}
         /\ Failed(a[Len(a)]) => Len(a) = Len(chain[q])

\* At most one audit line per request; Block only for a request no backend
\* has seen, Allow only for one that a backend has answered.
AuditMatches ==
  \A q \in Requests :
    /\ Len(audit[q]) <= 1
    /\ audit[q] = <<"block">> => attempts[q] = <<>>
    /\ audit[q] = <<"allow">> =>
         attempts[q] # <<>> /\ attempts[q][Len(attempts[q])].outcome \in {"answered", "5xx"}

\* A spend handed to record_spend holds up nobody: however many handlers
\* contend for the connection, and whether the statements succeed, fail or
\* outlive their client, the handler ends, and a chat client that is still
\* there by then (it did not leave, the proxy was not restarted) has its Allow
\* line and the status of its upstream, or that of a rejected schema.
ResponsesSettle ==
  \A q \in Requests :
    pc[q] = "record" ~>
      /\ pc[q] = "done"
      /\ conn[q] = "open" =>
           /\ answer[q] \in Statuses \cup {400, 502}
           /\ endpoint[q] = "chat" => audit[q] = <<"allow">>

\* The ledger that the two statements of record_spend make up: a spend counts
\* from its log row on.
Counted == [k \in Keys |-> usage[k] + Pending(k)]

\* Requests that check has turned away: 429 without a forward.
Refused == {q \in Requests : answer[q] = 429 /\ attempts[q] = <<>>}

L == INSTANCE Ledger WITH spent <- Counted, log <- logged, seen <- seenLimit,
                          refused <- Refused

\* The budget tables behave as one atomic ledger: record_spend is two
\* statements, operators and crashes come between them, and still every
\* spend is logged and counted at one instant, the counter drops only by a
\* reset or by the one spend whose recording was cut short, and a request is
\* refused only at a moment when its limit is spent.
ImplementsLedger == L!Spec

=============================================================================
