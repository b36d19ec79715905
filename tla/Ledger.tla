------------------------------- MODULE Ledger -------------------------------
(***************************************************************************)
(* What the token budget promises (BudgetStore of src/src/budget/sqlite.rs *)
(* and its callers): a ledger in which the spend of a response is one      *)
(* entry, made in the log and in the counter at once.  ChatPipeline, where *)
(* record_spend is two statements and the console writes the same file     *)
(* through a connection of its own, implements it.                         *)
(***************************************************************************)
EXTENDS Integers

CONSTANTS
  Requests, Keys, KeyOf,  \* requests and the budget key of each
  MaxTok,                 \* most tokens of one response
  Limits, NoLimit         \* limits operators set; no row

VARIABLES
  limit,    \* api_key_limits
  spent,    \* what the budget is enforced on
  log,      \* sum of spend_logs
  seen,     \* the limit a request was told
  refused   \* requests that were turned away because the budget is spent

vars == <<limit, spent, log, seen, refused>>

Init ==
  /\ limit \in [Keys -> Limits \cup {NoLimit}]
  /\ spent = [k \in Keys |-> 0]
  /\ log = [k \in Keys |-> 0]
  /\ seen = [q \in Requests |-> NoLimit]
  /\ refused = {}

\* A response that cost t is entered in the log and counted.
Record(k, t) ==
  /\ spent' = [spent EXCEPT ![k] = @ + t]
  /\ log' = [log EXCEPT ![k] = @ + t]
  /\ UNCHANGED <<limit, seen, refused>>

\* An entry of the log is dropped from the counter: its recording failed or
\* was cut short.
Lose(k, t) ==
  /\ spent' = [spent EXCEPT ![k] = @ - t]
  /\ UNCHANGED <<limit, log, seen, refused>>

\* An operator starts the counter afresh; the one response that is being
\* recorded at that moment still counts.  The log is never shortened.
Reset(k, t) ==
  /\ spent' = [spent EXCEPT ![k] = t]
  /\ UNCHANGED <<limit, log, seen, refused>>

SetLimit(k, l) ==
  /\ limit' = [limit EXCEPT ![k] = l]
  /\ UNCHANGED <<spent, log, seen, refused>>

\* A request looks up the limit of its key ...
Read(q) ==
  /\ seen' = [seen EXCEPT ![q] = limit[KeyOf[q]]]
  /\ UNCHANGED <<limit, spent, log, refused>>

\* ... and is turned away only when that much is spent.
Refuse(q) ==
  /\ seen[q] # NoLimit
  /\ spent[KeyOf[q]] >= seen[q]
  /\ refused' = refused \cup {q}
  /\ UNCHANGED <<limit, spent, log, seen>>

Next ==
  \/ \E k \in Keys, t \in 0..MaxTok : Record(k, t) \/ Lose(k, t) \/ Reset(k, t)
  \/ \E k \in Keys, l \in Limits \cup {NoLimit} : SetLimit(k, l)
  \/ \E q \in Requests : Read(q) \/ Refuse(q)

Spec == Init /\ [][Next]_vars
=============================================================================
