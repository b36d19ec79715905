------------------------- MODULE RequestGuardsProofs -------------------------
(***************************************************************************)
(* Proofs about RequestGuards, for every configuration, request, rule set  *)
(* and answer: the audit line of a block, the vault, the offsets of the    *)
(* redaction, what is left of personal data when the request is sent, the  *)
(* schema check of the chat handler, the tool gate, the types, and the     *)
(* round trip of reversible redaction.                                     *)
(***************************************************************************)
EXTENDS RequestGuards, Induction

-----------------------------------------------------------------------------
(* The handler's course                                                    *)

\* The input is one of Inputs; a request that has its result is done, and one
\* that has none has no audit line.
Course ==
  /\ [cfg |-> cfg, req |-> req] \in Inputs
  /\ phase \in Phases
  /\ result \in {"open", "blocked", "rejected", "answered"}
  /\ result # "open" => phase = "done"
  /\ result = "open" => audit = NoAudit

\* What the constants say of a configuration.
LEMMA InputTyped ==
  ASSUME [cfg |-> cfg, req |-> req] \in Inputs
  PROVE  /\ cfg \in Config /\ req \in Request
         /\ cfg.bundle \in Seq([id : STRING, pattern : STRING, regex : BOOLEAN,
                                placeholder : STRING, action : Actions])
         /\ ValidPolicy(cfg.bundle)
<1>1. [cfg |-> cfg, req |-> req] \in [cfg : Config, req : Request]
  BY ConstantsAssumption
<1>2. cfg \in Config /\ req \in Request
  BY <1>1
<1>3. ValidPolicy([cfg |-> cfg, req |-> req].cfg.bundle)
  BY ConstantsAssumption
<1>4. [cfg |-> cfg, req |-> req].cfg = cfg
  OBVIOUS
<1> QED
  BY <1>2, <1>3, <1>4 DEF Config

\* The four stages of either handler.
LEMMA StagesTyped ==
  /\ Len(Stages) = 4 /\ DOMAIN Stages = 1..4
  /\ \A k \in 1..4 : Stages[k] \in Phases \ {"check", "reject", "redact", "done"}
  /\ \A k \in 1..4 : req.endpoint = "chat" => (Stages[k] = "schema" <=> k = 4)
<1>1. \A k \in 1..4 : k = 1 \/ k = 2 \/ k = 3 \/ k = 4
  OBVIOUS
<1>2. CASE req.endpoint = "chat"
  BY <1>1, <1>2 DEF Stages, Phases
<1>3. CASE req.endpoint # "chat"
  BY <1>1, <1>3 DEF Stages, Phases
<1> QED
  BY <1>2, <1>3

\* Advance goes to the next stage, or delivers the answer; the chat handler
\* delivers after the schema check only.
LEMMA AdvanceSteps ==
  ASSUME Advance, phase \in {"filter", "restore", "gate", "schema"}
  PROVE  /\ \/ phase' = "done" /\ result' = "answered"
            \/ phase' \in Phases \ {"check", "reject", "redact", "done"} /\ result' = result
         /\ req.endpoint = "chat" /\ result' # result => phase = "schema"
<1> DEFINE n == CHOOSE k \in DOMAIN Stages : Stages[k] = phase
<1>1. \E k \in DOMAIN Stages : Stages[k] = phase
  <2>1. DOMAIN Stages = 1..4
    BY StagesTyped
  <2>2. CASE req.endpoint = "chat"
    BY <2>1, <2>2 DEF Stages
  <2>3. CASE req.endpoint # "chat"
    BY <2>1, <2>3 DEF Stages
  <2> QED
    BY <2>2, <2>3
<1>2. n \in DOMAIN Stages /\ Stages[n] = phase
  BY <1>1
<1>3. IF n = Len(Stages) THEN phase' = "done" /\ result' = "answered"
      ELSE phase' = Stages[n + 1] /\ result' = result
  BY DEF Advance
<1> HIDE DEF n
<1>4. n \in 1..4 /\ Len(Stages) = 4
  BY <1>2, StagesTyped
<1>5. CASE n = 4
  BY <1>2, <1>3, <1>4, <1>5, StagesTyped
<1>6. CASE n # 4
  <2>1. n + 1 \in 1..4
    BY <1>4, <1>6
  <2>2. Stages[n + 1] \in Phases \ {"check", "reject", "redact", "done"}
    BY <2>1, StagesTyped
  <2> QED
    BY <1>3, <1>4, <1>6, <2>2
<1> QED
  BY <1>5, <1>6

-----------------------------------------------------------------------------
(* Why was this blocked                                                    *)

\* LookupRule finds the rule with that phrase or, if there is none, with that
\* placeholder.
LEMMA LookupFinds ==
  ASSUME NEW w, cfg.bundle \in Seq([id : STRING, pattern : STRING, regex : BOOLEAN,
                                    placeholder : STRING, action : Actions])
  PROVE  \/ LookupRule(w) = ""
         \/ \E m \in DOMAIN cfg.bundle :
              /\ LookupRule(w) = cfg.bundle[m].id
              /\ \/ ~cfg.bundle[m].regex /\ cfg.bundle[m].pattern = w
                 \/ cfg.bundle[m].regex /\ cfg.bundle[m].placeholder = w
<1> DEFINE literal == {i \in DOMAIN cfg.bundle : ~cfg.bundle[i].regex /\ cfg.bundle[i].pattern = w}
           placeholder == {i \in DOMAIN cfg.bundle : cfg.bundle[i].regex /\ cfg.bundle[i].placeholder = w}
           named == IF literal # {} THEN literal ELSE placeholder
<1>1. LookupRule(w) = IF named = {} THEN "" ELSE cfg.bundle[Max(named)].id
  BY DEF LookupRule
<1>2. Len(cfg.bundle) \in Nat /\ DOMAIN cfg.bundle = 1..Len(cfg.bundle)
  BY LenProperties
<1>3. named \in SUBSET DOMAIN cfg.bundle
  OBVIOUS
<1>4. \A i \in named : i \in literal \/ i \in placeholder
  OBVIOUS
<1> HIDE DEF named
<1>5. CASE named = {}
  BY <1>1, <1>5
<1>6. CASE named # {}
  <2>1. named \in SUBSET (0..Len(cfg.bundle))
    BY <1>2, <1>3
  <2>2. Max(named) \in named
    BY <1>2, <1>6, <2>1, MaxIsGreatest
  <2> QED
    BY <1>1, <1>3, <1>4, <1>6, <2>2
<1> QED
  BY <1>5, <1>6

\* The rule that LookupRule names for a phrase that blocks is the rule that
\* blocks it, if the bundle says one thing of a phrase.
LEMMA LookupExplains ==
  ASSUME [cfg |-> cfg, req |-> req] \in Inputs, NEW w \in Blocking \cup Reported, Unambiguous,
         NEW i \in DOMAIN cfg.bundle, cfg.bundle[i].id = LookupRule(w)
  PROVE  cfg.bundle[i].action = "block" /\ cfg.bundle[i].pattern = w
<1>1. cfg.bundle \in Seq([id : STRING, pattern : STRING, regex : BOOLEAN,
                          placeholder : STRING, action : Actions])
      /\ ValidPolicy(cfg.bundle)
  BY InputTyped
<1>2. \A j, k \in DOMAIN cfg.bundle :
        cfg.bundle[j].id # "" /\ (cfg.bundle[j].id = cfg.bundle[k].id => j = k)
  BY <1>1 DEF ValidPolicy
<1>3. PICK m \in DOMAIN cfg.bundle :
        /\ LookupRule(w) = cfg.bundle[m].id
        /\ \/ ~cfg.bundle[m].regex /\ cfg.bundle[m].pattern = w
           \/ cfg.bundle[m].regex /\ cfg.bundle[m].placeholder = w
  BY <1>1, <1>2, LookupFinds
<1>4. m = i
  BY <1>2, <1>3
<1>5. w \in Reported \/ \E j \in DOMAIN cfg.bundle :
        ~cfg.bundle[j].regex /\ cfg.bundle[j].action = "block" /\ cfg.bundle[j].pattern = w
  BY DEF Blocking, Reported
<1>6. CASE cfg.bundle[i].regex /\ cfg.bundle[i].placeholder = w
  <2>1. w \notin Reported \cup
          {cfg.bundle[j].pattern : j \in {k \in DOMAIN cfg.bundle : ~cfg.bundle[k].regex}}
    BY <1>6 DEF Unambiguous
  <2> QED
    BY <1>5, <2>1
<1>7. CASE ~cfg.bundle[i].regex /\ cfg.bundle[i].pattern = w
  <2>1. /\ cfg.bundle[i].action # "block" => w \notin Reported
        /\ \A j \in DOMAIN cfg.bundle :
             ~cfg.bundle[j].regex /\ cfg.bundle[j].pattern = w => i = j
    BY <1>7 DEF Unambiguous
  <2> QED
    BY <1>5, <1>7, <2>1
<1> QED
  BY <1>3, <1>4, <1>6, <1>7

BlockInv == Course /\ BlockExplained

LEMMA BlockInit == Init => BlockInv
<1> SUFFICES ASSUME Init
             PROVE  BlockInv
  OBVIOUS
<1>1. PICK x \in Inputs : cfg = x.cfg /\ req = x.req
  BY DEF Init
<1>2. x \in [cfg : Config, req : Request]
  BY ConstantsAssumption
<1>3. [cfg |-> cfg, req |-> req] = x
  BY <1>1, <1>2
<1> QED
  BY <1>1, <1>3 DEF Init, BlockInv, Course, BlockExplained, Phases

LEMMA BlockStep == BlockInv /\ [Next]_vars => BlockInv'
<1> SUFFICES ASSUME BlockInv, [Next]_vars
             PROVE  BlockInv'
  OBVIOUS
<1>0. Course /\ BlockExplained
  BY DEF BlockInv
<1>1. ASSUME UNCHANGED <<cfg, req>>, audit' = audit, result = "open",
             \/ phase' \in Phases /\ result' = "open"
             \/ phase' = "done" /\ result' \in {"rejected", "answered"}
      PROVE  BlockInv'
  <2>1. Course'
    BY <1>0, <1>1 DEF Course, Phases
  <2>2. BlockExplained'
    BY <1>1 DEF BlockExplained
  <2> QED
    BY <2>1, <2>2 DEF BlockInv
<1>2. ASSUME phase # "done"
      PROVE  result = "open" /\ audit = NoAudit
  BY <1>0, <1>2 DEF Course
<1>3. CASE CheckInput
  <2>1. phase = "check" /\ cfg' = cfg /\ req' = req /\ texts' = texts
    BY <1>3 DEF CheckInput, inputVars
  <2>2. result = "open" /\ audit = NoAudit
    BY <1>2, <2>1
  <2>3. CASE cfg.input /\ ~cfg.shadow /\ BlockHits # {}
    <3>1. /\ phase' = "done" /\ result' = "blocked"
          /\ \/ \E w \in BlockHits : audit' = [matched |-> w, id |-> LookupRule(w)]
             \/ audit' = audit
      BY <1>3, <2>3 DEF CheckInput, Refuse
    <3>2. Course'
      BY <1>0, <2>1, <3>1 DEF Course, Phases
    <3>3. BlockExplained'
      <4>1. CASE audit' = audit
        BY <2>2, <4>1 DEF BlockExplained, NoAudit
      <4>2. ASSUME NEW w \in BlockHits, audit' = [matched |-> w, id |-> LookupRule(w)]
            PROVE  BlockExplained'
        <5>1. audit'.matched = w /\ audit'.id = LookupRule(w)
          BY <4>2
        <5>2. BlockHits' = BlockHits
          BY <2>1 DEF BlockHits, UserText, Join, JoinPart, Scanned, Blocking
        <5>3. Unambiguous' <=> Unambiguous
          BY <2>1 DEF Unambiguous
        <5>4. w \in Blocking \cup Reported
          BY <4>2 DEF BlockHits, Reported
        <5>5. [cfg |-> cfg, req |-> req] \in Inputs
          BY <1>0 DEF Course
        <5>6. ASSUME Unambiguous, NEW i \in DOMAIN cfg.bundle, cfg.bundle[i].id = LookupRule(w)
              PROVE  cfg.bundle[i].action = "block" /\ cfg.bundle[i].pattern = w
          BY <5>4, <5>5, <5>6, LookupExplains
        <5> QED
          BY <2>1, <2>3, <4>2, <5>1, <5>2, <5>3, <5>6 DEF BlockExplained
      <4> QED
        BY <3>1, <4>1, <4>2
    <3> QED
      BY <3>2, <3>3 DEF BlockInv
  <2>4. CASE ~(cfg.input /\ ~cfg.shadow /\ BlockHits # {})
    <3>1. phase' \in Phases /\ result' = result /\ audit' = audit
      BY <1>3, <2>4 DEF CheckInput, Phases
    <3> QED
      BY <1>1, <2>1, <2>2, <3>1
  <2> QED
    BY <2>3, <2>4
<1>4. CASE CheckReject
  <2>1. /\ phase = "reject" /\ cfg' = cfg /\ req' = req
        /\ \/ /\ phase' = "done" /\ result' = "blocked"
              /\ (audit'.matched = "pii" \/ audit' = audit)
           \/ phase' = "redact" /\ audit' = audit /\ result' = result
    <3> DEFINE hit == HasPii(UserText, OfClass(cfg.actions, "reject"))
    <3>1. /\ phase = "reject" /\ cfg' = cfg /\ req' = req
          /\ IF hit
             THEN /\ phase' = "done" /\ result' = "blocked"
                  /\ (audit' = [matched |-> "pii", id |-> LookupRule("pii")] \/ audit' = audit)
             ELSE phase' = "redact" /\ audit' = audit /\ result' = result
      BY <1>4, Zenon DEF CheckReject, inputVars, Refuse
    <3> HIDE DEF hit
    <3> QED
      BY <3>1
  <2>2. result = "open" /\ audit = NoAudit
    BY <1>2, <2>1
  <2>3. CASE phase' = "done" /\ result' = "blocked" /\ (audit'.matched = "pii" \/ audit' = audit)
    <3>1. Course'
      BY <1>0, <2>1, <2>3 DEF Course, Phases
    <3>2. NoAudit.matched = ""
      BY DEF NoAudit
    <3>3. audit'.matched \in {"", "pii"}
      BY <2>2, <2>3, <3>2
    <3>4. BlockExplained'
      BY <3>3 DEF BlockExplained
    <3> QED
      BY <3>1, <3>4 DEF BlockInv
  <2>4. CASE phase' = "redact" /\ audit' = audit /\ result' = result
    BY <1>1, <2>1, <2>2, <2>4 DEF Phases
  <2> QED
    BY <2>1, <2>3, <2>4
<1>5. CASE RedactDone \/ NextText \/ ScanRule \/ ReplaceMatch
  <2>1. /\ phase = "redact" /\ phase' \in {"redact", "spotlight"} /\ cfg' = cfg /\ req' = req
        /\ audit' = audit /\ result' = result
    BY <1>5 DEF RedactDone, NextText, ScanRule, ReplaceMatch, inputVars
  <2> QED
    BY <1>1, <1>2, <2>1 DEF Phases
<1>6. CASE Spotlight
  <2>1. /\ phase = "spotlight" /\ phase' = "sent" /\ cfg' = cfg /\ req' = req
        /\ audit' = audit /\ result' = result
    BY <1>6 DEF Spotlight, inputVars
  <2> QED
    BY <1>1, <1>2, <2>1 DEF Phases
<1>7. CASE Reply
  <2>1. /\ phase = "sent" /\ phase' = Stages[1] /\ cfg' = cfg /\ req' = req
        /\ audit' = audit /\ result' = result
    BY <1>7 DEF Reply, inputVars
  <2>2. Stages[1] \in Phases
    BY StagesTyped, 1 \in 1..4
  <2> QED
    BY <1>1, <1>2, <2>1, <2>2
<1>8. ASSUME FilterAnswer \/ RestoreDone \/ GateCalls \/ CheckSchema
      PROVE  BlockInv'
  <2>1. /\ phase \in {"filter", "restore", "gate", "schema"}
        /\ Advance \/ (phase' = "done" /\ result' = "rejected")
        /\ cfg' = cfg /\ req' = req /\ audit' = audit
    BY <1>8 DEF FilterAnswer, RestoreDone, GateCalls, CheckSchema, Refuse, inputVars
  <2>2. CASE Advance
    <3>1. \/ phase' = "done" /\ result' = "answered"
          \/ phase' \in Phases \ {"check", "reject", "redact", "done"} /\ result' = result
      BY <2>1, <2>2, AdvanceSteps
    <3> QED
      BY <1>1, <1>2, <2>1, <3>1
  <2>3. CASE phase' = "done" /\ result' = "rejected"
    BY <1>1, <1>2, <2>1, <2>3
  <2> QED
    BY <2>1, <2>2, <2>3
<1>9. ASSUME NEW token \in left, RestoreEntry(token)
      PROVE  BlockInv'
  <2>1. /\ phase = "restore" /\ phase' = phase /\ cfg' = cfg /\ req' = req
        /\ audit' = audit /\ result' = result
    BY <1>9 DEF RestoreEntry, inputVars
  <2> QED
    BY <1>1, <1>2, <2>1 DEF Phases
<1>10. CASE UNCHANGED vars
  <2>1. /\ cfg' = cfg /\ req' = req /\ phase' = phase /\ texts' = texts
        /\ audit' = audit /\ result' = result
    BY <1>10 DEF vars
  <2>2. BlockHits' = BlockHits /\ (Unambiguous' <=> Unambiguous)
    BY <2>1 DEF BlockHits, UserText, Join, JoinPart, Scanned, Blocking, Unambiguous
  <2> QED
    BY <1>0, <2>1, <2>2 DEF BlockInv, Course, BlockExplained
<1> QED
  BY <1>3, <1>4, <1>5, <1>6, <1>7, <1>8, <1>9, <1>10 DEF Next

LEMMA BlockInvariant == Spec => []BlockInv
BY BlockInit, BlockStep, PTL DEF Spec

\* BlockExplained for every bundle and every prompt: the audit line of a
\* keyword block names a phrase of the prompt that blocks, and the rule of
\* the bundle that blocks it.
THEOREM BlockCorrect == Spec => []BlockExplained
BY BlockInvariant, PTL DEF BlockInv

-----------------------------------------------------------------------------
(* The schema of the chat handler                                          *)

\* The chat handler checks the schema last, on the text of the first choice as
\* it delivers it.
LEMMA SchemaCorrect == Spec => []SchemaVetted
<1> DEFINE Inv == Course /\ SchemaVetted
<1>1. Init => Inv
  <2>1. Init => Course
    BY BlockInit DEF BlockInv
  <2>2. Init => SchemaVetted
    BY DEF Init, SchemaVetted
  <2> QED
    BY <2>1, <2>2
<1>2. BlockInv /\ BlockInv' /\ Inv /\ [Next]_vars => Inv'
  <2> SUFFICES ASSUME BlockInv, BlockInv', Inv, [Next]_vars
               PROVE  SchemaVetted'
    BY DEF BlockInv
  <2>0. Course /\ SchemaVetted
    OBVIOUS
  <2>1. ASSUME phase = "done"
        PROVE  cfg' = cfg /\ req' = req /\ text' = text /\ result' = result /\ reply' = reply
    BY <2>1 DEF Next, vars, CheckInput, CheckReject, RedactDone, NextText, ScanRule, ReplaceMatch,
                Spotlight, Reply, FilterAnswer, RestoreEntry, RestoreDone, GateCalls, CheckSchema,
                answerVars
  <2>2. CASE phase = "done"
    BY <2>0, <2>1, <2>2 DEF SchemaVetted
  <2>3. CASE phase # "done" /\ ~CheckSchema
    <3>1. result = "open"
      BY <2>0, <2>3 DEF Course
    <3>2. ASSUME FilterAnswer \/ RestoreDone \/ GateCalls
          PROVE  req' = req /\ (req.endpoint = "chat" => result' # "answered")
      <4>1. phase \in {"filter", "restore", "gate"} /\ Advance /\ req' = req
        BY <3>2 DEF FilterAnswer, RestoreDone, GateCalls, inputVars
      <4>2. req.endpoint = "chat" /\ result' # result => phase = "schema"
        BY <4>1, AdvanceSteps
      <4> QED
        BY <3>1, <4>1, <4>2
    <3>3. ASSUME ~(FilterAnswer \/ RestoreDone \/ GateCalls)
          PROVE  result' # "answered"
      BY <2>3, <3>1, <3>3 DEF Next, vars, CheckInput, CheckReject, RedactDone, NextText, ScanRule,
                              ReplaceMatch, Spotlight, Reply, RestoreEntry, Refuse
    <3> QED
      BY <3>2, <3>3 DEF SchemaVetted
  <2>4. CASE CheckSchema
    <3> DEFINE json == Extract(text)
    <3>1. /\ cfg' = cfg /\ req' = req /\ reply' = reply
          /\ \/ result' = "rejected"
             \/ /\ cfg.schema = "reject" /\ reply.first => json \in DOMAIN Conforming
                /\ text' = IF /\ reply.first /\ json \in DOMAIN Conforming /\ json # text
                              /\ req.endpoint = "chat" /\ cfg.schema # "off"
                           THEN Conforming[json] ELSE text
      BY <2>4 DEF CheckSchema, Refuse, inputVars
    <3>2. json \in DOMAIN Conforming => Conforming[json] \in DOMAIN Conforming
      BY ConstantsAssumption
    <3> HIDE DEF json
    <3> QED
      BY <3>1, <3>2 DEF SchemaVetted
  <2> QED
    BY <2>2, <2>3, <2>4
<1> QED
  BY <1>1, <1>2, BlockInvariant, PTL DEF Spec

-----------------------------------------------------------------------------
(* The vault                                                               *)

\* Placeholders of different indexes differ, as do those of different
\* entities.
LEMMA TokensDiffer ==
  ASSUME Nat \ {0} \subseteq DOMAIN Numerals,
         NEW a, NEW b, NEW i \in Nat \ {0}, NEW j \in Nat \ {0},
         Token(a, Numerals[i]) = Token(b, Numerals[j])
  PROVE  a = b /\ i = j
<1>1. a = b /\ Numerals[i] = Numerals[j]
  BY DEF Token
<1>2. i \in DOMAIN Numerals /\ j \in DOMAIN Numerals
  OBVIOUS
<1>3. \A k, l \in DOMAIN Numerals : Numerals[k] = Numerals[l] => k = l
  BY ConstantsAssumption
<1> QED
  BY <1>1, <1>2, <1>3

\* The keys of seen are pairs of an entity and a value, the counters are
\* counters, and a match that waits to be replaced is of a rule.
VaultTypes ==
  /\ todo # <<>> => rule \in DOMAIN Rules
  /\ next \in [Entities -> Nat]
  /\ \A x \in DOMAIN seen : x = <<x[1], x[2]>> /\ x[1] \in Entities
  /\ \A x \in DOMAIN seen : seen[x] \in Nat \ {0} /\ seen[x] <= next[x[1]]

\* No two values of an entity have one index.
SeenInjective == \A x, y \in DOMAIN seen : x[1] = y[1] /\ seen[x] = seen[y] => x = y

\* The entries are those of the values seen.
EntriesOfSeen ==
  cfg.reversible =>
    /\ \A x \in DOMAIN seen :
         /\ Token(x[1], Numerals[seen[x]]) \in DOMAIN entries
         /\ entries[Token(x[1], Numerals[seen[x]])] = x[2]
    /\ \A token \in DOMAIN entries :
         \E x \in DOMAIN seen : token = Token(x[1], Numerals[seen[x]])

VaultInv == VaultTypes /\ SeenInjective /\ EntriesOfSeen

LEMMA VaultInit == Init => VaultInv
<1> SUFFICES ASSUME Init
             PROVE  VaultInv
  OBVIOUS
<1>1. seen = <<>> /\ entries = <<>> /\ todo = <<>> /\ next = [e \in Entities |-> 0]
  BY DEF Init
<1>2. DOMAIN seen = {} /\ DOMAIN entries = {}
  BY <1>1
<1> QED
  BY <1>1, <1>2 DEF VaultInv, VaultTypes, SeenInjective, EntriesOfSeen

\* A value that has an index keeps it, and the vault stays as it is.
LEMMA KnownValue ==
  ASSUME VaultInv, ReplaceMatch,
         <<Rules[rule].entity, TakeFrom(todo).head.match>> \in DOMAIN seen
  PROVE  /\ DOMAIN seen' = DOMAIN seen /\ \A x \in DOMAIN seen : seen'[x] = seen[x]
         /\ next' = next
         /\ cfg.reversible =>
              DOMAIN entries' = DOMAIN entries /\ \A t \in DOMAIN entries : entries'[t] = entries[t]
<1> DEFINE entity == Rules[rule].entity  value == TakeFrom(todo).head.match
           x == <<entity, value>>  index == IndexFor(entity, value)
           token == PlaceholderFor(entity, index)
<1>1. /\ seen' = Insert(seen, x, index)
      /\ next' = [next EXCEPT ![entity] = IF index > @ THEN index ELSE @]
      /\ cfg.reversible => entries' = OrInsert(entries, token, value)
  BY Zenon DEF ReplaceMatch
<1>2. x \in DOMAIN seen
  OBVIOUS
<1>3. index = seen[x]
  BY <1>2 DEF IndexFor
<1>4. cfg.reversible => token = Token(entity, Numerals[index])
  BY DEF PlaceholderFor
<1>5. x[1] = entity /\ x[2] = value
  OBVIOUS
<1> HIDE DEF x, index, token, entity, value
<1>6. DOMAIN seen' = DOMAIN seen /\ \A y \in DOMAIN seen : seen'[y] = seen[y]
  <2>1. /\ DOMAIN Insert(seen, x, index) = DOMAIN seen \cup {x}
        /\ Insert(seen, x, index)[x] = index
        /\ \A y \in DOMAIN seen : y # x => Insert(seen, x, index)[y] = seen[y]
    BY DEF Insert
  <2>2. seen' = Insert(seen, x, index)
    BY <1>1
  <2> QED
    BY <1>2, <1>3, <2>1, <2>2
<1>7. next' = next
  <2>1. entity \in Entities /\ index \in Nat /\ next[entity] \in Nat /\ index <= next[entity]
    BY <1>2, <1>3, <1>5 DEF VaultInv, VaultTypes
  <2>2. next \in [Entities -> Nat]
    BY DEF VaultInv, VaultTypes
  <2>3. ~(index > next[entity])
    BY <2>1
  <2> QED
    BY <1>1, <2>1, <2>2, <2>3
<1>8. ASSUME cfg.reversible
      PROVE  DOMAIN entries' = DOMAIN entries /\ \A t \in DOMAIN entries : entries'[t] = entries[t]
  <2>1. token \in DOMAIN entries
    BY <1>2, <1>3, <1>4, <1>5, <1>8 DEF VaultInv, EntriesOfSeen
  <2>2. /\ DOMAIN OrInsert(entries, token, value) = DOMAIN entries \cup {token}
        /\ token \notin DOMAIN entries => OrInsert(entries, token, value)[token] = value
        /\ \A t \in DOMAIN entries : OrInsert(entries, token, value)[t] = entries[t]
    BY DEF OrInsert
  <2>3. entries' = OrInsert(entries, token, value)
    BY <1>1, <1>8
  <2> QED
    BY <2>1, <2>2, <2>3
<1> QED
  BY <1>6, <1>7, <1>8

\* A value that has none gets the next index, and a placeholder that the vault
\* does not have.
LEMMA FreshValue ==
  ASSUME Nat \ {0} \subseteq DOMAIN Numerals, VaultInv, ReplaceMatch,
         <<Rules[rule].entity, TakeFrom(todo).head.match>> \notin DOMAIN seen
  PROVE  LET entity == Rules[rule].entity
             value == TakeFrom(todo).head.match
             x == <<entity, value>>
             index == next[entity] + 1
             token == Token(entity, Numerals[index])
         IN  /\ entity \in Entities /\ index \in Nat \ {0}
             /\ next' = [next EXCEPT ![entity] = index]
             /\ DOMAIN seen' = DOMAIN seen \cup {x} /\ seen'[x] = index
             /\ \A y \in DOMAIN seen : seen'[y] = seen[y] /\ (y[1] = entity => seen[y] < index)
             /\ cfg.reversible =>
                  /\ token \notin DOMAIN entries
                  /\ DOMAIN entries' = DOMAIN entries \cup {token} /\ entries'[token] = value
                  /\ \A t \in DOMAIN entries : entries'[t] = entries[t]
<1> DEFINE entity == Rules[rule].entity  value == TakeFrom(todo).head.match
           x == <<entity, value>>  index == next[entity] + 1
           token == Token(entity, Numerals[index])
<1>1. /\ IndexFor(entity, value) = index
      /\ cfg.reversible => PlaceholderFor(entity, index) = token
  BY DEF IndexFor, PlaceholderFor
<1>2. /\ todo # <<>>
      /\ seen' = Insert(seen, x, IndexFor(entity, value))
      /\ next' = [next EXCEPT ![entity] =
                    IF IndexFor(entity, value) > @ THEN IndexFor(entity, value) ELSE @]
      /\ cfg.reversible =>
           entries' = OrInsert(entries, PlaceholderFor(entity, IndexFor(entity, value)), value)
  BY Zenon DEF ReplaceMatch
<1>3. entity \in Entities
  BY <1>2 DEF VaultInv, VaultTypes, Entities
<1>4. next \in [Entities -> Nat] /\ x \notin DOMAIN seen
  BY DEF VaultInv, VaultTypes
<1>5. next[entity] \in Nat /\ index \in Nat \ {0} /\ index > next[entity]
  BY <1>3, <1>4
<1>6. seen' = Insert(seen, x, index) /\ (cfg.reversible => entries' = OrInsert(entries, token, value))
  BY <1>1, <1>2
<1>7. next' = [next EXCEPT ![entity] = index]
  <2> HIDE DEF entity, value, index
  <2> QED
    BY <1>1, <1>2, <1>5
<1>8. ASSUME NEW y \in DOMAIN seen, y[1] = entity
      PROVE  seen[y] < index
  BY <1>5, <1>8 DEF VaultInv, VaultTypes
<1>9. ASSUME cfg.reversible
      PROVE  token \notin DOMAIN entries
  <2> SUFFICES ASSUME token \in DOMAIN entries
               PROVE  FALSE
    OBVIOUS
  <2>1. PICK y \in DOMAIN seen : token = Token(y[1], Numerals[seen[y]])
    BY <1>9 DEF VaultInv, EntriesOfSeen
  <2>2. seen[y] \in Nat \ {0}
    BY DEF VaultInv, VaultTypes
  <2>3. entity = y[1] /\ index = seen[y]
    <3> HIDE DEF index, entity
    <3> QED
      BY <1>5, <2>1, <2>2, TokensDiffer
  <2> QED
    BY <1>5, <1>8, <2>2, <2>3
<1> HIDE DEF x, index, token, entity, value
<1>10. /\ DOMAIN seen' = DOMAIN seen \cup {x} /\ seen'[x] = index
       /\ \A y \in DOMAIN seen : seen'[y] = seen[y]
  <2>1. /\ DOMAIN Insert(seen, x, index) = DOMAIN seen \cup {x}
        /\ Insert(seen, x, index)[x] = index
        /\ \A y \in DOMAIN seen : y # x => Insert(seen, x, index)[y] = seen[y]
    BY DEF Insert
  <2>2. seen' = Insert(seen, x, index)
    BY <1>6
  <2> QED
    BY <1>4, <2>1, <2>2
<1>11. cfg.reversible =>
         /\ DOMAIN entries' = DOMAIN entries \cup {token} /\ entries'[token] = value
         /\ \A t \in DOMAIN entries : entries'[t] = entries[t]
  <2>1. /\ DOMAIN OrInsert(entries, token, value) = DOMAIN entries \cup {token}
        /\ token \notin DOMAIN entries => OrInsert(entries, token, value)[token] = value
        /\ \A t \in DOMAIN entries : OrInsert(entries, token, value)[t] = entries[t]
    BY DEF OrInsert
  <2> QED
    BY <1>6, <1>9, <2>1
<1> QED
  BY <1>3, <1>5, <1>7, <1>8, <1>9, <1>10, <1>11, Zenon DEF x, index, token, entity, value

LEMMA VaultReplace ==
  ASSUME Nat \ {0} \subseteq DOMAIN Numerals, VaultInv, ReplaceMatch
  PROVE  VaultInv'
<1> DEFINE entity == Rules[rule].entity  value == TakeFrom(todo).head.match
           x == <<entity, value>>
<1>0. VaultTypes /\ SeenInjective /\ EntriesOfSeen
  BY DEF VaultInv
<1>1. /\ todo # <<>> /\ cfg' = cfg
      /\ todo' # <<>> => rule' = rule
  BY Zenon DEF ReplaceMatch, inputVars
<1>2. todo' # <<>> => rule' \in DOMAIN Rules
  BY <1>0, <1>1 DEF VaultTypes
<1>3. CASE x \in DOMAIN seen
  <2>1. /\ DOMAIN seen' = DOMAIN seen /\ \A y \in DOMAIN seen : seen'[y] = seen[y]
        /\ next' = next
        /\ cfg.reversible =>
             DOMAIN entries' = DOMAIN entries /\ \A t \in DOMAIN entries : entries'[t] = entries[t]
    BY <1>3, KnownValue
  <2> HIDE DEF x
  <2>2. VaultTypes'
    BY <1>0, <1>2, <2>1 DEF VaultTypes
  <2>3. SeenInjective'
    BY <1>0, <2>1 DEF SeenInjective
  <2>4. EntriesOfSeen'
    BY <1>0, <1>1, <2>1 DEF EntriesOfSeen
  <2> QED
    BY <2>2, <2>3, <2>4 DEF VaultInv
<1>4. CASE x \notin DOMAIN seen
  <2> DEFINE index == next[entity] + 1
             token == Token(entity, Numerals[index])
  <2>1. /\ entity \in Entities /\ index \in Nat \ {0}
        /\ next' = [next EXCEPT ![entity] = index]
        /\ DOMAIN seen' = DOMAIN seen \cup {x} /\ seen'[x] = index
        /\ \A y \in DOMAIN seen : seen'[y] = seen[y] /\ (y[1] = entity => seen[y] < index)
    BY <1>4, FreshValue
  <2>2. cfg.reversible =>
          /\ token \notin DOMAIN entries
          /\ DOMAIN entries' = DOMAIN entries \cup {token} /\ entries'[token] = value
          /\ \A t \in DOMAIN entries : entries'[t] = entries[t]
    BY <1>4, FreshValue
  <2>3. x[1] = entity /\ x[2] = value /\ x = <<x[1], x[2]>>
    OBVIOUS
  <2>4. next[entity] \in Nat /\ index > next[entity]
    BY <1>0, <2>1 DEF VaultTypes
  <2>t. token = Token(x[1], Numerals[index])
    OBVIOUS
  <2> HIDE DEF x, index, token, entity, value
  <2>5. VaultTypes'
    <3>1. next' \in [Entities -> Nat] /\ next'[entity] = index
          /\ \A e \in Entities : e # entity => next'[e] = next[e]
      BY <1>0, <2>1 DEF VaultTypes
    <3>2. ASSUME NEW y \in DOMAIN seen'
          PROVE  /\ y = <<y[1], y[2]>> /\ y[1] \in Entities
                 /\ seen'[y] \in Nat \ {0} /\ seen'[y] <= next'[y[1]]
      <4>1. CASE y = x
        BY <2>1, <2>3, <3>1, <4>1
      <4>2. CASE y \in DOMAIN seen
        <5>1. /\ y = <<y[1], y[2]>> /\ y[1] \in Entities
              /\ seen[y] \in Nat \ {0} /\ seen[y] <= next[y[1]] /\ seen'[y] = seen[y]
          BY <1>0, <2>1, <4>2 DEF VaultTypes
        <5>2. next[y[1]] \in Nat
          BY <1>0, <5>1 DEF VaultTypes
        <5>3. CASE y[1] = entity
          BY <2>1, <2>4, <3>1, <5>1, <5>2, <5>3
        <5>4. CASE y[1] # entity
          BY <3>1, <5>1, <5>4
        <5> QED
          BY <5>3, <5>4
      <4> QED
        BY <2>1, <4>1, <4>2
    <3> QED
      BY <1>2, <3>1, <3>2 DEF VaultTypes
  <2>6. SeenInjective'
    <3> SUFFICES ASSUME NEW y \in DOMAIN seen', NEW z \in DOMAIN seen', y[1] = z[1],
                        seen'[y] = seen'[z]
                 PROVE  y = z
      BY DEF SeenInjective
    <3>1. CASE y \in DOMAIN seen /\ z \in DOMAIN seen
      BY <1>0, <2>1, <3>1 DEF SeenInjective
    <3>2. CASE y = x /\ z \in DOMAIN seen
      <4>1. seen[z] < index /\ seen[z] = index /\ seen[z] \in Nat
        BY <1>0, <2>1, <2>3, <3>2 DEF VaultTypes
      <4> QED
        BY <2>1, <4>1
    <3>3. CASE z = x /\ y \in DOMAIN seen
      <4>1. seen[y] < index /\ seen[y] = index /\ seen[y] \in Nat
        BY <1>0, <2>1, <2>3, <3>3 DEF VaultTypes
      <4> QED
        BY <2>1, <4>1
    <3> QED
      BY <2>1, <3>1, <3>2, <3>3
  <2>7. EntriesOfSeen'
    <3> SUFFICES ASSUME cfg.reversible
                 PROVE  EntriesOfSeen'
      BY <1>1 DEF EntriesOfSeen
    <3>1. ASSUME NEW y \in DOMAIN seen'
          PROVE  /\ Token(y[1], Numerals[seen'[y]]) \in DOMAIN entries'
                 /\ entries'[Token(y[1], Numerals[seen'[y]])] = y[2]
      <4>1. CASE y = x
        BY <2>1, <2>2, <2>3, <2>t, <4>1
      <4>2. CASE y \in DOMAIN seen
        <5>1. /\ Token(y[1], Numerals[seen[y]]) \in DOMAIN entries
              /\ entries[Token(y[1], Numerals[seen[y]])] = y[2] /\ seen'[y] = seen[y]
          BY <1>0, <2>1, <4>2 DEF EntriesOfSeen
        <5> QED
          BY <2>2, <5>1
      <4> QED
        BY <2>1, <4>1, <4>2
    <3>2. ASSUME NEW t \in DOMAIN entries'
          PROVE  \E y \in DOMAIN seen' : t = Token(y[1], Numerals[seen'[y]])
      <4>1. CASE t = token
        BY <2>1, <2>t, <4>1
      <4>2. CASE t \in DOMAIN entries
        <5>1. PICK y \in DOMAIN seen : t = Token(y[1], Numerals[seen[y]])
          BY <1>0, <4>2 DEF EntriesOfSeen
        <5> QED
          BY <2>1, <5>1
      <4> QED
        BY <2>2, <4>1, <4>2
    <3> QED
      BY <3>1, <3>2 DEF EntriesOfSeen
  <2> QED
    BY <2>5, <2>6, <2>7 DEF VaultInv
<1> QED
  BY <1>3, <1>4

LEMMA VaultStep ==
  ASSUME Nat \ {0} \subseteq DOMAIN Numerals
  PROVE  VaultInv /\ [Next]_vars => VaultInv'
<1> SUFFICES ASSUME VaultInv, [Next]_vars
             PROVE  VaultInv'
  OBVIOUS
<1>0. VaultTypes /\ SeenInjective /\ EntriesOfSeen
  BY DEF VaultInv
<1>1. ASSUME cfg' = cfg, UNCHANGED <<seen, next, entries>>,
             todo' # <<>> => rule' \in DOMAIN Rules
      PROVE  VaultInv'
  <2>1. VaultTypes'
    BY <1>0, <1>1 DEF VaultTypes
  <2>2. SeenInjective'
    BY <1>0, <1>1 DEF SeenInjective
  <2>3. EntriesOfSeen'
    BY <1>0, <1>1 DEF EntriesOfSeen
  <2> QED
    BY <2>1, <2>2, <2>3 DEF VaultInv
<1>2. ASSUME cfg' = cfg, UNCHANGED redactVars
      PROVE  VaultInv'
  BY <1>0, <1>1, <1>2 DEF redactVars, VaultTypes
<1>3. CASE NextText
  <2>1. todo = <<>> /\ todo' = todo /\ cfg' = cfg /\ entries' = entries
    BY <1>3 DEF NextText, inputVars
  <2>2. CASE cfg.reversible
    <3>1. seen' = seen /\ next' = next
      BY <1>3, <2>2 DEF NextText
    <3> QED
      BY <1>1, <2>1, <3>1
  <2>3. CASE ~cfg.reversible
    <3>1. seen' = <<>> /\ next' = [e \in Entities |-> 0]
      BY <1>3, <2>3 DEF NextText
    <3>2. DOMAIN seen' = {}
      BY <3>1
    <3> QED
      BY <2>1, <2>3, <3>1, <3>2 DEF VaultInv, VaultTypes, SeenInjective, EntriesOfSeen
  <2> QED
    BY <2>2, <2>3
<1>4. CASE ScanRule
  <2>1. /\ cfg' = cfg /\ UNCHANGED <<seen, next, entries>>
        /\ todo' # <<>> => rule \in MaskRules /\ rule' = rule
    BY <1>4, Zenon DEF ScanRule, inputVars
  <2>2. MaskRules \subseteq DOMAIN Rules
    BY DEF MaskRules, OfClass
  <2> QED
    BY <1>1, <2>1, <2>2
<1>5. CASE ReplaceMatch
  BY <1>5, VaultReplace
<1>6. CASE CheckInput \/ CheckReject \/ RedactDone \/ Spotlight \/ Reply
  <2>1. cfg' = cfg /\ UNCHANGED redactVars
    BY <1>6, Zenon DEF CheckInput, CheckReject, RedactDone, Spotlight, Reply, inputVars
  <2> QED
    BY <1>2, <2>1
<1>7. CASE FilterAnswer \/ RestoreDone \/ GateCalls \/ CheckSchema
  <2>1. cfg' = cfg /\ UNCHANGED redactVars
    BY <1>7, Zenon DEF FilterAnswer, RestoreDone, GateCalls, CheckSchema, inputVars
  <2> QED
    BY <1>2, <2>1
<1>8. ASSUME NEW token \in left, RestoreEntry(token)
      PROVE  VaultInv'
  <2>1. cfg' = cfg /\ UNCHANGED redactVars
    BY <1>8, Zenon DEF RestoreEntry, inputVars
  <2> QED
    BY <1>2, <2>1
<1>9. CASE UNCHANGED vars
  BY <1>2, <1>9 DEF vars, redactVars
<1> QED
  BY <1>3, <1>4, <1>5, <1>6, <1>7, <1>8, <1>9 DEF Next

\* VaultSound for every rule set, every prompt and both modes, as long as the
\* numerals do not run out (an index is a u32, and no body is that long): two
\* values never share a placeholder, a value keeps its own, and a placeholder
\* is looked up to the value it stands for.
THEOREM VaultCorrect ==
  ASSUME Nat \ {0} \subseteq DOMAIN Numerals
  PROVE  Spec => []VaultSound
<1>1. VaultInv /\ [Next]_vars => VaultInv'
  BY VaultStep
<1>2. VaultInv => VaultSound
  <2> SUFFICES ASSUME VaultInv
               PROVE  VaultSound
    OBVIOUS
  <2>1. VaultTypes /\ SeenInjective /\ EntriesOfSeen
    BY DEF VaultInv
  <2>2. ASSUME NEW x \in DOMAIN seen
        PROVE  seen[x] \in 1..next[x[1]]
    <3>1. seen[x] \in Nat \ {0} /\ seen[x] <= next[x[1]] /\ next[x[1]] \in Nat
      BY <2>1 DEF VaultTypes
    <3> QED
      BY <3>1
  <2> QED
    BY <2>1, <2>2 DEF VaultSound, SeenInjective, EntriesOfSeen
<1> QED
  BY <1>1, <1>2, VaultInit, PTL DEF Spec

-----------------------------------------------------------------------------
(* Offsets                                                                 *)

Place == [at : Nat, match : Seq(Atoms)]

LEMMA RuleTyped ==
  ASSUME NEW r \in DOMAIN Rules
  PROVE  Rules[r].matches \subseteq Seq(Atoms)
<1>1. Rules \in Seq([entity : Atoms, matches : SUBSET Seq(Atoms)])
  BY RulesAssumption
<1>2. r \in 1..Len(Rules)
  BY <1>1, LenProperties
<1>3. Rules[r] \in [entity : Atoms, matches : SUBSET Seq(Atoms)]
  BY <1>1, <1>2, ElementOfSeq
<1> QED
  BY <1>3

\* Matches of one rule in a text do not overlap.
LEMMA Disjoint ==
  ASSUME NEW S, NEW t \in Seq(S), NEW r \in DOMAIN Rules,
         NEW f \in Matches(t, r), NEW g \in Matches(t, r), f.at <= g.at, f # g
  PROVE  f.at + Len(f.match) <= g.at
<1>1. /\ f.at \in 1..Len(t) /\ g.at \in 1..Len(t)
      /\ f.match \in Rules[r].matches /\ g.match \in Rules[r].matches
      /\ f = [at |-> f.at, match |-> f.match] /\ g = [at |-> g.at, match |-> g.match]
      /\ Occurs(t, f.match, f.at) /\ Occurs(t, g.match, g.at)
  BY DEF Matches, Found
<1>2. Rules[r].matches \subseteq Seq(Atoms)
  BY RuleTyped
<1> DEFINE m == f.match  n == g.match  a == f.at  b == g.at
<1>3. m \in Seq(Atoms) /\ n \in Seq(Atoms) /\ Len(m) \in Nat /\ Len(n) \in Nat /\ Len(t) \in Nat
  BY <1>1, <1>2, LenProperties
<1>4. /\ a \in 1..Len(t) /\ a + Len(m) - 1 <= Len(t) /\ SubSeq(t, a, a + Len(m) - 1) = m
      /\ b \in 1..Len(t) /\ b + Len(n) - 1 <= Len(t) /\ SubSeq(t, b, b + Len(n) - 1) = n
      /\ a <= b
  BY <1>1 DEF Occurs
<1>5. m \in Rules[r].matches /\ n \in Rules[r].matches /\ (a # b \/ m # n)
  BY <1>1
<1> HIDE DEF m, n, a, b
<1> SUFFICES ASSUME b < a + Len(m)
             PROVE  FALSE
  BY <1>3, <1>4 DEF m, a, b
<1>6. \A i \in 1..Len(m) : m[i] = t[a + i - 1]
  <2>1. Occurs(t, m, a) /\ a \in Nat /\ m \in Seq(Atoms)
    BY <1>1, <1>3, <1>4 DEF m, a
  <2>2. MatchesAt(t, m, a)
    BY <2>1, OccursByAtoms
  <2> QED
    BY <2>2, Zenon DEF MatchesAt
<1>7. \A i \in 1..Len(n) : n[i] = t[b + i - 1]
  <2>1. Occurs(t, n, b) /\ b \in Nat /\ n \in Seq(Atoms)
    BY <1>1, <1>3, <1>4 DEF n, b
  <2>2. MatchesAt(t, n, b)
    BY <2>1, OccursByAtoms
  <2> QED
    BY <2>2, Zenon DEF MatchesAt
<1> DEFINE k == b - a
<1>8. k \in 0..Len(m) - 1 /\ k \in Nat
  BY <1>3, <1>4
<1>9. Agree(m, n, k)
  <2> SUFFICES ASSUME NEW i \in 1..Len(n), k + i <= Len(m)
               PROVE  m[k + i] = n[i]
    BY DEF Agree
  <2>1. k + i \in 1..Len(m) /\ a + (k + i) - 1 = b + i - 1
    BY <1>3, <1>4, <1>8
  <2>2. m[k + i] = t[a + (k + i) - 1]
    BY <1>6, <2>1
  <2>3. n[i] = t[b + i - 1]
    BY <1>7
  <2> QED
    BY <2>1, <2>2, <2>3
<1>10. k = 0 /\ m = n
  <2> HIDE DEF k
  <2> QED
    BY <1>5, <1>8, <1>9, RulesAssumption
<1>11. a = b
  BY <1>4, <1>10
<1> QED
  BY <1>5, <1>10, <1>11

\* There are finitely many matches, in places, and no two start together.
LEMMA MatchesTyped ==
  ASSUME NEW S, NEW t \in Seq(S), NEW r \in DOMAIN Rules
  PROVE  /\ Matches(t, r) \subseteq Place
         /\ IsFiniteSet(Matches(t, r))
         /\ \A f, g \in Matches(t, r) : f.at = g.at => f = g
<1> DEFINE M == Matches(t, r)  at == [f \in M |-> f.at]
<1>0. Len(t) \in Nat /\ Rules[r].matches \subseteq Seq(Atoms)
  BY LenProperties, RuleTyped
<1>1. \A f \in M : f \in Place /\ f.at \in 1..Len(t) /\ f.match \in Rules[r].matches
  BY <1>0 DEF Matches, Found, Place
<1>2. ASSUME NEW f \in M, NEW g \in M, f.at = g.at, f # g
      PROVE  FALSE
  <2>1. f.at \in Nat /\ f.match \in Seq(Atoms) /\ f.match # <<>>
    BY <1>0, <1>1, RulesAssumption
  <2>2. Len(f.match) \in Nat \ {0}
    BY <2>1, EmptySeq
  <2>3. f.at + Len(f.match) <= g.at
    BY <1>2, <2>1, Disjoint
  <2> QED
    BY <1>2, <2>1, <2>2, <2>3
<1>3. at \in Injection(M, 1..Len(t))
  BY <1>1, <1>2 DEF Injection, IsInjective
<1>4. IsFiniteSet(1..Len(t))
  <2>1. Len(t) \in Int
    BY <1>0
  <2> QED
    BY <2>1, FS_Interval, 1 \in Int
<1>5. IsFiniteSet(M)
  BY <1>3, <1>4, FS_Injection
<1> QED
  BY <1>1, <1>2, <1>5

\* A finite set of places that start at different atoms can be put in order.
LEMMA OrderExists ==
  ASSUME NEW M \in SUBSET Place, IsFiniteSet(M), \A f, g \in M : f.at = g.at => f = g
  PROVE  \E s \in [1..Cardinality(M) -> M] : \A i, j \in DOMAIN s : i < j => s[i].at < s[j].at
<1> DEFINE n == Cardinality(M)
           upto(f) == {g \in M : g.at <= f.at}
           rank == [f \in M |-> Cardinality(upto(f))]
<1>0. n \in Nat /\ \A f \in M : f.at \in Nat
  BY FS_CardinalityType DEF Place
<1>1. ASSUME NEW f \in M
      PROVE  rank[f] \in 1..n
  <2>1. upto(f) \in SUBSET M /\ f \in upto(f)
    BY <1>0
  <2> HIDE DEF upto
  <2>2. IsFiniteSet(upto(f)) /\ Cardinality(upto(f)) <= n
    BY <2>1, FS_Subset
  <2>3. Cardinality(upto(f)) \in Nat /\ Cardinality(upto(f)) # 0
    BY <2>1, <2>2, FS_CardinalityType, FS_EmptySet
  <2> QED
    BY <1>0, <2>2, <2>3
<1>2. ASSUME NEW f \in M, NEW g \in M, f.at < g.at
      PROVE  rank[f] < rank[g]
  <2>1. upto(f) \in SUBSET upto(g) /\ g \in upto(g) /\ g \notin upto(f) /\ upto(g) \in SUBSET M
    BY <1>0, <1>2
  <2> HIDE DEF upto
  <2>2. IsFiniteSet(upto(g))
    BY <2>1, FS_Subset
  <2>3. Cardinality(upto(f)) <= Cardinality(upto(g)) /\ Cardinality(upto(f)) # Cardinality(upto(g))
    BY <2>1, <2>2, FS_Subset
  <2>4. rank[f] = Cardinality(upto(f)) /\ rank[g] = Cardinality(upto(g))
    OBVIOUS
  <2>5. rank[f] \in Nat /\ rank[g] \in Nat
    BY <1>1
  <2> HIDE DEF rank
  <2> QED
    BY <2>3, <2>4, <2>5
<1> HIDE DEF upto
<1>3. rank \in [M -> 1..n]
  BY <1>1
<1> HIDE DEF rank
<1>4. ASSUME NEW f \in M, NEW g \in M, rank[f] = rank[g]
      PROVE  f = g
  <2>1. f.at \in Nat /\ g.at \in Nat /\ rank[f] \in Nat
    BY <1>0, <1>1
  <2>2. ~(f.at < g.at) /\ ~(g.at < f.at)
    BY <1>2, <1>4, <2>1
  <2>3. f.at = g.at
    BY <2>1, <2>2
  <2> QED
    BY <2>3
<1>5. rank \in Injection(M, 1..n)
  BY <1>3, <1>4 DEF Injection, IsInjective
<1>6. IsFiniteSet(1..n) /\ Cardinality(1..n) = n
  BY <1>0, FS_Interval, 1 \in Int
<1>7. rank \in Surjection(M, 1..n)
  BY <1>5, <1>6, FS_Injection
<1>8. \A i \in 1..n : \E f \in M : rank[f] = i
  BY <1>7 DEF Surjection
<1> DEFINE s == [i \in 1..n |-> CHOOSE f \in M : rank[f] = i]
<1>9. \A i \in 1..n : s[i] \in M /\ rank[s[i]] = i
  BY <1>8
<1>10. s \in [1..n -> M] /\ DOMAIN s = 1..n
  BY <1>9
<1> HIDE DEF s
<1>11. ASSUME NEW i \in 1..n, NEW j \in 1..n, i < j
       PROVE  s[i].at < s[j].at
  <2>1. s[i] \in M /\ s[j] \in M /\ rank[s[i]] = i /\ rank[s[j]] = j
    BY <1>9
  <2>2. s[i].at \in Nat /\ s[j].at \in Nat
    BY <1>0, <2>1
  <2>3. ~(s[j].at < s[i].at)
    BY <1>2, <1>11, <2>1
  <2>4. s[j].at # s[i].at
    <3>1. s[i] # s[j]
      BY <1>11, <2>1
    <3> QED
      BY <2>1, <3>1
  <2> QED
    BY <2>2, <2>3, <2>4
<1> QED
  BY <1>10, <1>11

\* The places of s, in order, are matches in t that do not overlap.
Fits(s, t) ==
  /\ s \in Seq(Place)
  /\ \A k \in 1..Len(s) : Occurs(t, s[k].match, s[k].at)
  /\ \A j, k \in 1..Len(s) : j < k => s[j].at + Len(s[j].match) <= s[k].at

\* find_iter gives such a sequence.
LEMMA ScanFits ==
  ASSUME NEW S, NEW t \in Seq(S), NEW r \in DOMAIN Rules
  PROVE  /\ Fits(InOrder(Matches(t, r)), t)
         /\ \A f \in Matches(t, r) :
              \E k \in 1..Len(InOrder(Matches(t, r))) : f = InOrder(Matches(t, r))[k]
<1> DEFINE M == Matches(t, r)  s == InOrder(M)  n == Cardinality(M)
<1>1. M \in SUBSET Place /\ IsFiniteSet(M) /\ \A f, g \in M : f.at = g.at => f = g
  BY MatchesTyped
<1>2. n \in Nat
  BY <1>1, FS_CardinalityType
<1>o. \A f \in M : Occurs(t, f.match, f.at)
  BY DEF Matches
<1>d. \A f, g \in M : f.at <= g.at /\ f # g => f.at + Len(f.match) <= g.at
  BY Disjoint
<1> HIDE DEF M
<1>3. \E q \in [1..n -> M] : \A i, j \in DOMAIN q : i < j => q[i].at < q[j].at
  BY <1>1, OrderExists
<1>4. s \in [1..n -> M] /\ \A i, j \in DOMAIN s : i < j => s[i].at < s[j].at
  BY <1>3 DEF InOrder
<1> HIDE DEF s
<1>5. s \in Seq(Place) /\ Len(s) = n
  <2>1. s \in [1..n -> Place]
    BY <1>1, <1>4
  <2> QED
    BY <1>2, <2>1, SeqDef
<1>6. \A k \in 1..Len(s) : Occurs(t, s[k].match, s[k].at)
  BY <1>4, <1>5, <1>o
<1>7. ASSUME NEW j \in 1..Len(s), NEW k \in 1..Len(s), j < k
      PROVE  s[j].at + Len(s[j].match) <= s[k].at
  <2>1. s[j] \in M /\ s[k] \in M /\ s[j].at < s[k].at
    BY <1>4, <1>5, <1>7
  <2>2. s[j].at \in Nat /\ s[k].at \in Nat
    BY <1>1, <2>1 DEF Place
  <2>3. s[j].at <= s[k].at /\ s[j] # s[k]
    BY <2>1, <2>2
  <2> QED
    BY <1>d, <2>1, <2>3
<1>8. \A f \in M : \E k \in 1..Len(s) : f = s[k]
  <2>1. ASSUME NEW i \in 1..n, NEW j \in 1..n, s[i] = s[j], i # j
        PROVE  FALSE
    <3>1. s[i] \in M /\ s[j] \in M
      BY <1>4
    <3>2. s[i].at \in Nat /\ s[j].at \in Nat
      BY <1>1, <3>1 DEF Place
    <3>3. s[i].at < s[j].at \/ s[j].at < s[i].at
      BY <1>2, <1>4, <2>1
    <3> QED
      BY <2>1, <3>2, <3>3
  <2>2. s \in Injection(1..n, M)
    BY <1>4, <2>1 DEF Injection, IsInjective
  <2>3. Cardinality(1..n) = n
    BY <1>2, FS_Interval, 1 \in Int
  <2>4. s \in Surjection(1..n, M)
    BY <1>1, <2>2, <2>3, FS_Injection
  <2> QED
    BY <1>5, <2>4 DEF Surjection
<1> QED
  BY <1>5, <1>6, <1>7, <1>8 DEF Fits, M, s

\* The atoms of a splice.
Spliced(S, t, f, p) ==
  /\ Splice(t, f, p) \in Seq(S)
  /\ Len(Splice(t, f, p)) = Len(t) - Len(f.match) + Len(p)
  /\ \A j \in 1..Len(t) - Len(f.match) + Len(p) :
       Splice(t, f, p)[j] =
         IF j < f.at THEN t[j]
         ELSE IF j < f.at + Len(p) THEN p[j - f.at + 1]
         ELSE t[j - Len(p) + Len(f.match)]

LEMMA SpliceText ==
  ASSUME NEW S, NEW t \in Seq(S), NEW p \in Seq(S), NEW f \in Place, Occurs(t, f.match, f.at)
  PROVE  Spliced(S, t, f, p)
<1> DEFINE a == f.at  c == Len(f.match)  before == SubSeq(t, 1, a - 1)
           after == SubSeq(t, a + c, Len(t))
           w == before \o p
<1>1. a \in Nat \ {0} /\ c \in Nat /\ a + c - 1 <= Len(t) /\ Len(t) \in Nat /\ Len(p) \in Nat
  BY LenProperties DEF Place, Occurs
<1>2. before \in Seq(S) /\ Len(before) = a - 1 /\ \A j \in 1..a - 1 : before[j] = t[j]
  <2> HIDE DEF a, c
  <2>1. \A j \in 1..a - 1 : t[j] \in S
    BY <1>1, ElementOfSeq
  <2>2. /\ before \in Seq(S) /\ Len(before) = IF 1 <= a - 1 THEN (a - 1) - 1 + 1 ELSE 0
        /\ \A j \in 1..(a - 1) - 1 + 1 : before[j] = t[1 + j - 1]
    BY <1>1, <2>1, SubSeqProperties, 1 \in Int, a - 1 \in Int
  <2>3. (a - 1) - 1 + 1 = a - 1 /\ \A j \in 1..a - 1 : 1 + j - 1 = j
    BY <1>1
  <2>4. Len(before) = a - 1
    BY <1>1, <2>2
  <2> QED
    BY <2>2, <2>3, <2>4
<1>3. after \in Seq(S) /\ Len(after) = Len(t) - (a + c) + 1
      /\ \A j \in 1..Len(t) - (a + c) + 1 : after[j] = t[(a + c) + j - 1]
  <2> HIDE DEF a, c
  <2>1. \A j \in a + c..Len(t) : t[j] \in S
    BY <1>1, ElementOfSeq
  <2>2. /\ after \in Seq(S) /\ Len(after) = IF a + c <= Len(t) THEN Len(t) - (a + c) + 1 ELSE 0
        /\ \A j \in 1..Len(t) - (a + c) + 1 : after[j] = t[(a + c) + j - 1]
    BY <1>1, <2>1, SubSeqProperties, a + c \in Int, Len(t) \in Int
  <2> QED
    BY <1>1, <2>2
<1> HIDE DEF before, after, a, c
<1>4. w \in Seq(S) /\ Len(w) = Len(before) + Len(p)
      /\ \A j \in 1..Len(before) + Len(p) :
           w[j] = IF j <= Len(before) THEN before[j] ELSE p[j - Len(before)]
  BY <1>2, ConcatProperties
<1> HIDE DEF w
<1>5. Len(w) = a - 1 + Len(p) /\ Len(w) \in Nat
      /\ \A j \in 1..a - 1 + Len(p) : w[j] = IF j < a THEN t[j] ELSE p[j - a + 1]
  <2>1. \A j \in 1..a - 1 + Len(p) :
          /\ (j <= a - 1 <=> j < a) /\ j - (a - 1) = j - a + 1 /\ (j < a => j \in 1..a - 1)
    BY <1>1
  <2>2. Len(w) = a - 1 + Len(p) /\ Len(w) \in Nat
    BY <1>1, <1>2, <1>4
  <2> QED
    BY <1>2, <1>4, <2>1, <2>2
<1> DEFINE u == w \o after
<1>6. u \in Seq(S) /\ Len(u) = Len(w) + Len(after)
      /\ \A j \in 1..Len(w) + Len(after) :
           u[j] = IF j <= Len(w) THEN w[j] ELSE after[j - Len(w)]
  <2>1. w \in Seq(S) /\ after \in Seq(S)
    BY <1>3, <1>4
  <2> QED
    BY <2>1, ConcatProperties
<1>7. Splice(t, f, p) = u
  BY DEF Splice, before, after, w, a, c
<1> HIDE DEF u
<1>8. Len(u) = Len(t) - c + Len(p)
  BY <1>1, <1>3, <1>5, <1>6
<1>9. ASSUME NEW j \in 1..Len(t) - c + Len(p)
      PROVE  u[j] = IF j < a THEN t[j]
                    ELSE IF j < a + Len(p) THEN p[j - a + 1]
                    ELSE t[j - Len(p) + c]
  <2>1. CASE j < a + Len(p)
    <3>1. j \in 1..a - 1 + Len(p) /\ j <= Len(w) /\ j \in 1..Len(w) + Len(after)
      BY <1>1, <1>3, <1>5, <2>1
    <3> QED
      BY <1>5, <1>6, <2>1, <3>1
  <2>2. CASE ~(j < a + Len(p))
    <3> DEFINE k == j - Len(w)
    <3>1. /\ ~(j <= Len(w)) /\ ~(j < a) /\ j \in 1..Len(w) + Len(after)
          /\ k \in 1..Len(t) - (a + c) + 1 /\ (a + c) + k - 1 = j - Len(p) + c
      BY <1>1, <1>3, <1>5, <2>2
    <3>2. u[j] = after[k]
      BY <1>6, <3>1
    <3>3. after[k] = t[(a + c) + k - 1]
      <4> HIDE DEF k
      <4> QED
        BY <1>3, <3>1
    <3> QED
      BY <2>2, <3>1, <3>2, <3>3
  <2> QED
    BY <2>1, <2>2
<1> QED
  BY <1>6, <1>7, <1>8, <1>9 DEF Spliced, a, c

LEMMA SpliceAt ==
  ASSUME NEW S, NEW t \in Seq(S), NEW p \in Seq(S), NEW f \in Place, Occurs(t, f.match, f.at)
  PROVE  /\ Splice(t, f, p) \in Seq(S)
         /\ Len(Splice(t, f, p)) = Len(t) - Len(f.match) + Len(p)
         /\ \A j \in 1..Len(t) - Len(f.match) + Len(p) :
              Splice(t, f, p)[j] =
                IF j < f.at THEN t[j]
                ELSE IF j < f.at + Len(p) THEN p[j - f.at + 1]
                ELSE t[j - Len(p) + Len(f.match)]
<1>1. Spliced(S, t, f, p)
  BY SpliceText
<1> QED
  BY <1>1, Zenon DEF Spliced

\* A splice leaves what lies before it where it was.
LEMMA SpliceKeeps ==
  ASSUME NEW S, NEW t \in Seq(S), NEW p \in Seq(S), NEW f \in Place, Occurs(t, f.match, f.at)
  PROVE  /\ Splice(t, f, p) \in Seq(S)
         /\ \A m \in Seq(Atoms), i \in Nat :
              Occurs(t, m, i) /\ i + Len(m) <= f.at => Occurs(Splice(t, f, p), m, i)
<1> DEFINE a == f.at  c == Len(f.match)  u == Splice(t, f, p)  e == Len(t) - c + Len(p)
<1>1. a \in Nat \ {0} /\ c \in Nat /\ a + c - 1 <= Len(t) /\ Len(t) \in Nat /\ Len(p) \in Nat
  BY LenProperties DEF Place, Occurs
<1>2. /\ u \in Seq(S) /\ Len(u) = e
      /\ \A j \in 1..e :
           u[j] = IF j < a THEN t[j] ELSE IF j < a + Len(p) THEN p[j - a + 1]
                  ELSE t[j - Len(p) + c]
  BY SpliceAt
<1>3. u \in Seq(S)
  BY <1>2
<1> HIDE DEF u, a, c
<1>4. e \in Nat /\ a - 1 <= e
  BY <1>1
<1> HIDE DEF e
<1>5. ASSUME NEW m \in Seq(Atoms), NEW i \in Nat, Occurs(t, m, i), i + Len(m) <= a
      PROVE  Occurs(u, m, i)
  <2>1. Len(m) \in Nat
    BY LenProperties
  <2>2. i >= 1 /\ \A j \in 1..Len(m) : t[i + j - 1] = m[j]
    <3>1. MatchesAt(t, m, i)
      BY <1>5, OccursByAtoms
    <3> QED
      BY <3>1, Zenon DEF MatchesAt
  <2>3. i + Len(m) - 1 <= Len(u)
    BY <1>1, <1>2, <1>4, <1>5, <2>1
  <2>4. ASSUME NEW j \in 1..Len(m)
        PROVE  u[i + j - 1] = m[j]
    <3>1. i + j - 1 \in 1..e /\ i + j - 1 < a
      BY <1>1, <1>4, <1>5, <2>1, <2>2
    <3>2. u[i + j - 1] = t[i + j - 1]
      BY <1>2, <3>1
    <3> QED
      BY <2>2, <3>2
  <2> QED
    BY <1>3, <2>2, <2>3, <2>4, OccursAt
<1> QED
  BY <1>3, <1>5 DEF a, c, u

\* The texts are texts; while matches of a rule wait to be replaced, they fit
\* the text that is being redacted.
OffsetsInv ==
  /\ \E S : texts \in Seq(Seq(S))
  /\ part \in Nat \ {0}
  /\ todo # <<>> => part \in 1..Len(texts)
  /\ Fits(todo, texts[part])

LEMMA EmptyFits == \A t : Fits(<<>>, t)
<1>1. <<>> \in Seq(Place) /\ Len(<<>>) = 0
  BY EmptySeq
<1>2. 1..0 = {}
  OBVIOUS
<1> QED
  BY <1>1, <1>2 DEF Fits

LEMMA OffsetsInit == Init => OffsetsInv
<1> SUFFICES ASSUME Init
             PROVE  OffsetsInv
  OBVIOUS
<1>1. req \in Request
  BY BlockInit, InputTyped DEF BlockInv, Course
<1> DEFINE R == [msg : Nat, role : STRING, form : {"string", "part", "system"}, text : Seq(Atoms)]
           n == Len(req.texts)
<1>2. req.texts \in Seq(R)
  BY <1>1 DEF Request
<1>3. n \in Nat /\ DOMAIN req.texts = 1..n /\ \A i \in 1..n : req.texts[i] \in R
  <2> HIDE DEF R
  <2> QED
    BY <1>2, LenProperties, ElementOfSeq
<1>4. texts = [i \in 1..n |-> req.texts[i].text]
  BY <1>3 DEF Init, Prompt
<1>5. texts \in [1..n -> Seq(Atoms)]
  BY <1>3, <1>4
<1>6. texts \in Seq(Seq(Atoms))
  <2>1. n \in Nat
    BY <1>3
  <2> HIDE DEF n
  <2> QED
    BY <1>5, <2>1, SeqDef
<1>7. part = 1 /\ todo = <<>>
  BY DEF Init
<1> QED
  BY <1>6, <1>7, EmptyFits DEF OffsetsInv

\* A sequence of texts is one over any larger alphabet.
LEMMA TextsWiden ==
  ASSUME NEW S, NEW T, S \subseteq T, NEW ts \in Seq(Seq(S))
  PROVE  ts \in Seq(Seq(T))
<1>1. Seq(S) \subseteq Seq(T)
  BY SeqMonotonic
<1> QED
  BY <1>1, SeqMonotonic

\* A placeholder is a text.
LEMMA PlaceholderTyped ==
  ASSUME NEW entity, NEW index
  PROVE  PlaceholderFor(entity, index) \in Seq({Open, entity, Numerals[index], Close})
<1> DEFINE T == {Open, entity, Numerals[index], Close}
<1>1. <<Open, entity, Close>> \in Seq(T)
  BY SeqDef
<1>2. <<Open, entity, Numerals[index], Close>> \in Seq(T)
  BY SeqDef
<1> QED
  BY <1>1, <1>2 DEF PlaceholderFor, Token

\* Replacing the last match leaves the others where they are.
LEMMA OffsetsReplace ==
  ASSUME OffsetsInv, ReplaceMatch
  PROVE  OffsetsInv'
<1> DEFINE entity == Rules[rule].entity
           index == IndexFor(entity, TakeFrom(todo).head.match)
           token == PlaceholderFor(entity, index)
           n == Len(todo)
           f == todo[n]
           t == texts[part]
<1>0. PICK S : texts \in Seq(Seq(S))
  BY DEF OffsetsInv
<1> DEFINE T == S \cup {Open, entity, Numerals[index], Close}
<1>1. /\ todo # <<>> /\ part' = part
      /\ texts' = [texts EXCEPT ![part] = Splice(@, TakeFrom(todo).head, token)]
      /\ todo' = TakeFrom(todo).rest
  BY Zenon DEF ReplaceMatch
<1>2. TakeFrom(todo).head = f /\ TakeFrom(todo).rest = SubSeq(todo, 1, n - 1)
  BY DEF TakeFrom, Front
<1>3. part \in 1..Len(texts) /\ Fits(todo, t) /\ part \in Nat \ {0}
  BY <1>1 DEF OffsetsInv
<1>4. todo \in Seq(Place) /\ n \in Nat \ {0}
  BY <1>1, <1>3, EmptySeq DEF Fits
<1>5. token \in Seq(T)
  <2>1. token \in Seq({Open, entity, Numerals[index], Close})
    BY PlaceholderTyped, Zenon
  <2> HIDE DEF token
  <2> QED
    BY <2>1, SeqMonotonic
<1>6. texts \in Seq(Seq(T))
  <2>1. S \subseteq T
    OBVIOUS
  <2> HIDE DEF T
  <2> QED
    BY <1>0, <2>1, TextsWiden
<1> HIDE DEF T, token, index, entity
<1>7. t \in Seq(T) /\ f \in Place
  BY <1>3, <1>4, <1>6, ElementOfSeq, n \in 1..n
<1>8. Occurs(t, f.match, f.at)
  BY <1>3, <1>4 DEF Fits
<1> HIDE DEF f, t
<1>9. /\ Splice(t, f, token) \in Seq(T)
      /\ \A m \in Seq(Atoms), i \in Nat :
           Occurs(t, m, i) /\ i + Len(m) <= f.at => Occurs(Splice(t, f, token), m, i)
  BY <1>5, <1>7, <1>8, SpliceKeeps
<1>10. texts' = [texts EXCEPT ![part] = Splice(t, f, token)]
  BY <1>1, <1>2 DEF t
<1>11. texts' \in Seq(Seq(T)) /\ Len(texts') = Len(texts) /\ texts'[part] = Splice(t, f, token)
  BY <1>3, <1>6, <1>9, <1>10, ExceptSeq
<1>12. /\ todo' \in Seq(Place) /\ Len(todo') = n - 1
       /\ \A k \in 1..n - 1 : todo'[k] = todo[k] /\ todo[k] \in Place
  <2>1. \A k \in 1..n - 1 : todo[k] \in Place
    BY <1>4, ElementOfSeq
  <2>2. /\ SubSeq(todo, 1, n - 1) \in Seq(Place)
        /\ Len(SubSeq(todo, 1, n - 1)) = IF 1 <= n - 1 THEN (n - 1) - 1 + 1 ELSE 0
        /\ \A k \in 1..(n - 1) - 1 + 1 : SubSeq(todo, 1, n - 1)[k] = todo[1 + k - 1]
    <3> HIDE DEF n
    <3> QED
      BY <1>4, <2>1, SubSeqProperties, 1 \in Int, n - 1 \in Int
  <2> HIDE DEF n
  <2>3. (n - 1) - 1 + 1 = n - 1 /\ \A k \in 1..n - 1 : 1 + k - 1 = k
    BY <1>4
  <2>4. Len(SubSeq(todo, 1, n - 1)) = n - 1
    BY <1>4, <2>2
  <2> QED
    BY <1>1, <1>2, <2>1, <2>2, <2>3, <2>4
<1>13. ASSUME NEW k \in 1..n - 1
       PROVE  Occurs(texts'[part], todo'[k].match, todo'[k].at)
  <2>1. k \in 1..n /\ n \in 1..n /\ k < n
    BY <1>4
  <2>2. Occurs(t, todo[k].match, todo[k].at) /\ todo[k].at + Len(todo[k].match) <= f.at
    BY <1>3, <2>1 DEF Fits, f
  <2>3. todo[k].match \in Seq(Atoms) /\ todo[k].at \in Nat
    BY <1>12 DEF Place
  <2>4. Occurs(Splice(t, f, token), todo[k].match, todo[k].at)
    BY <1>9, <2>2, <2>3
  <2> QED
    BY <1>11, <1>12, <2>4
<1>14. ASSUME NEW j \in 1..n - 1, NEW k \in 1..n - 1, j < k
       PROVE  todo'[j].at + Len(todo'[j].match) <= todo'[k].at
  <2>1. j \in 1..n /\ k \in 1..n
    BY <1>4
  <2>2. todo[j].at + Len(todo[j].match) <= todo[k].at
    BY <1>3, <1>14, <2>1 DEF Fits
  <2> QED
    BY <1>12, <2>2
<1>15. Fits(todo', texts'[part])
  BY <1>12, <1>13, <1>14 DEF Fits
<1> QED
  BY <1>1, <1>3, <1>11, <1>15 DEF OffsetsInv

LEMMA OffsetsStep == OffsetsInv /\ [Next]_vars => OffsetsInv'
<1> SUFFICES ASSUME OffsetsInv, [Next]_vars
             PROVE  OffsetsInv'
  OBVIOUS
<1>0. PICK S : texts \in Seq(Seq(S))
  BY DEF OffsetsInv
<1>1. ASSUME UNCHANGED <<texts, part, todo>>
      PROVE  OffsetsInv'
  BY <1>1 DEF OffsetsInv
<1>2. CASE NextText
  <2>1. todo' = <<>> /\ texts' = texts /\ part' = part + 1
    BY <1>2 DEF NextText
  <2>2. part' \in Nat \ {0}
    BY <2>1 DEF OffsetsInv
  <2> QED
    BY <1>0, <2>1, <2>2, EmptyFits DEF OffsetsInv
<1>3. CASE ScanRule
  <2>1. /\ part <= Len(texts) /\ texts' = texts /\ part' = part
        /\ \/ rule \in MaskRules /\ todo' = InOrder(Matches(texts[part], rule))
           \/ todo' = <<>>
    BY <1>3, Zenon DEF ScanRule
  <2>2. part \in 1..Len(texts) /\ part \in Nat \ {0}
    BY <1>0, <2>1, LenProperties DEF OffsetsInv
  <2>3. CASE rule \in MaskRules /\ todo' = InOrder(Matches(texts[part], rule))
    <3>1. texts[part] \in Seq(S) /\ rule \in DOMAIN Rules
      BY <1>0, <2>2, <2>3, ElementOfSeq DEF MaskRules, OfClass
    <3>2. Fits(todo', texts[part])
      BY <2>3, <3>1, ScanFits
    <3> QED
      BY <1>0, <2>1, <2>2, <3>2 DEF OffsetsInv
  <2>4. CASE todo' = <<>>
    BY <1>0, <2>1, <2>2, <2>4, EmptyFits DEF OffsetsInv
  <2> QED
    BY <2>1, <2>3, <2>4
<1>4. CASE ReplaceMatch
  BY <1>4, OffsetsReplace
<1>5. CASE CheckInput \/ CheckReject \/ RedactDone \/ Spotlight \/ Reply
  <2>1. UNCHANGED <<texts, part, todo>>
    BY <1>5, Zenon DEF CheckInput, CheckReject, RedactDone, Spotlight, Reply, redactVars
  <2> QED
    BY <1>1, <2>1
<1>6. CASE FilterAnswer \/ RestoreDone \/ GateCalls \/ CheckSchema
  <2>1. UNCHANGED <<texts, part, todo>>
    BY <1>6, Zenon DEF FilterAnswer, RestoreDone, GateCalls, CheckSchema, redactVars
  <2> QED
    BY <1>1, <2>1
<1>7. ASSUME NEW token \in left, RestoreEntry(token)
      PROVE  OffsetsInv'
  <2>1. UNCHANGED <<texts, part, todo>>
    BY <1>7, Zenon DEF RestoreEntry, redactVars
  <2> QED
    BY <1>1, <2>1
<1>8. CASE UNCHANGED vars
  BY <1>1, <1>8 DEF vars
<1> QED
  BY <1>2, <1>3, <1>4, <1>5, <1>6, <1>7, <1>8 DEF Next

\* OffsetsValid for every text and every rule whose matches do not overlap:
\* replaced from the last to the first, the matches that are left are where
\* find_iter saw them, whatever the lengths of the placeholders.
THEOREM OffsetsCorrect == Spec => []OffsetsValid
<1>1. OffsetsInv => OffsetsValid
  <2> SUFFICES ASSUME OffsetsInv
               PROVE  OffsetsValid
    OBVIOUS
  <2>1. Fits(todo, texts[part])
    BY DEF OffsetsInv
  <2>2. DOMAIN todo = 1..Len(todo)
    BY <2>1, LenProperties DEF Fits
  <2> QED
    BY <2>1, <2>2 DEF Fits, OffsetsValid
<1> QED
  BY <1>1, OffsetsInit, OffsetsStep, PTL DEF Spec

-----------------------------------------------------------------------------
(* Nothing personal is sent                                                *)

\* No match of rule r is in t.
Clean(t, r) == Matches(t, r) = {}

\* An occurrence of what a rule matches is a match.
LEMMA OccurrenceMatches ==
  ASSUME NEW S, NEW t \in Seq(S), NEW r \in DOMAIN Rules, NEW m \in Rules[r].matches,
         NEW i \in Nat, Occurs(t, m, i)
  PROVE  [at |-> i, match |-> m] \in Matches(t, r)
<1>1. m \in Seq(Atoms) /\ m # <<>>
  BY RuleTyped, RulesAssumption
<1>2. Len(m) \in Nat \ {0} /\ Len(t) \in Nat
  BY <1>1, EmptySeq, LenProperties
<1>3. i \in 1..Len(t)
  BY <1>2 DEF Occurs
<1> QED
  BY <1>3 DEF Matches, Found

\* p is a placeholder, in which rule r finds nothing.
Inert(p, r) ==
  /\ Len(p) >= 2 /\ p[1] = Open /\ p[Len(p)] = Close
  /\ \A m \in Rules[r].matches :
       /\ {Open, Close} \cap Range(m) = {}
       /\ \A i \in Nat : ~Occurs(p, m, i)

\* What occurs in a text after an inert placeholder was put in occurred in it
\* before, ahead of the match that was replaced or behind it.
LEMMA SpliceOccurs ==
  ASSUME NEW S, NEW t \in Seq(S), NEW p \in Seq(S), NEW f \in Place, Occurs(t, f.match, f.at),
         NEW r \in DOMAIN Rules, Inert(p, r), NEW m \in Rules[r].matches,
         NEW i \in Nat, Occurs(Splice(t, f, p), m, i)
  PROVE  \/ i + Len(m) <= f.at /\ Occurs(t, m, i)
         \/ \E k \in Nat : k >= f.at + Len(f.match) /\ Occurs(t, m, k)
<1> DEFINE a == f.at  c == Len(f.match)  u == Splice(t, f, p)  n == Len(m)  e == Len(p)
           k == i - e + c
<1>1. m \in Seq(Atoms) /\ n \in Nat \ {0}
  BY RuleTyped, RulesAssumption, EmptySeq, LenProperties
<1>2. a \in Nat \ {0} /\ c \in Nat /\ a + c - 1 <= Len(t) /\ Len(t) \in Nat /\ e \in Nat /\ e >= 2
  BY LenProperties DEF Place, Occurs, Inert
<1>3. /\ u \in Seq(S) /\ Len(u) = Len(t) - c + e
      /\ \A j \in 1..Len(t) - c + e :
           u[j] = IF j < a THEN t[j] ELSE IF j < a + e THEN p[j - a + 1] ELSE t[j - e + c]
  BY SpliceAt
<1>4. i >= 1 /\ i + n - 1 <= Len(u) /\ \A j \in 1..n : u[i + j - 1] = m[j]
  <2>1. Occurs(u, m, i)
    OBVIOUS
  <2>2. u \in Seq(S) /\ m \in Seq(Atoms)
    BY <1>1, <1>3
  <2> HIDE DEF u
  <2>3. MatchesAt(u, m, i)
    BY <2>1, <2>2, OccursByAtoms
  <2> QED
    BY <2>3, Zenon DEF MatchesAt, n
<1>5. \A j \in 1..n : m[j] # Open /\ m[j] # Close
  <2>1. DOMAIN m = 1..n
    BY <1>1, LenProperties
  <2>2. {Open, Close} \cap Range(m) = {}
    BY DEF Inert
  <2> QED
    BY <2>1, <2>2 DEF Range
<1>6. p[1] = Open /\ p[e] = Close /\ ~\E j \in Nat : Occurs(p, m, j)
  BY DEF Inert
<1> HIDE DEF u, n, a, c, e
<1>7. ~(i <= a /\ a <= i + n - 1)
  <2> SUFFICES ASSUME i <= a, a <= i + n - 1
               PROVE  FALSE
    OBVIOUS
  <2>1. a - i + 1 \in 1..n /\ i + (a - i + 1) - 1 = a
    BY <1>1, <1>2
  <2>2. u[a] = m[a - i + 1]
    BY <1>4, <2>1
  <2>3. a \in 1..Len(t) - c + e /\ ~(a < a) /\ a < a + e /\ a - a + 1 = 1
    BY <1>2
  <2>4. u[a] = p[1]
    BY <1>3, <2>3
  <2> QED
    BY <1>5, <1>6, <2>1, <2>2, <2>4
<1>8. ~(i <= a + e - 1 /\ a + e - 1 <= i + n - 1)
  <2> SUFFICES ASSUME i <= a + e - 1, a + e - 1 <= i + n - 1
               PROVE  FALSE
    OBVIOUS
  <2> DEFINE b == a + e - 1
  <2>1. b - i + 1 \in 1..n /\ i + (b - i + 1) - 1 = b
    BY <1>1, <1>2
  <2>2. u[b] = m[b - i + 1]
    <3> HIDE DEF b
    <3> QED
      BY <1>4, <2>1
  <2>3. b \in 1..Len(t) - c + e /\ ~(b < a) /\ b < a + e /\ b - a + 1 = e
    BY <1>2
  <2> HIDE DEF b
  <2>4. u[b] = p[e]
    BY <1>3, <2>3
  <2> QED
    BY <1>5, <1>6, <2>1, <2>2, <2>4
<1>9. CASE i + n - 1 < a
  <2>1. i + n - 1 <= Len(t) /\ i + n <= a
    BY <1>1, <1>2, <1>9
  <2>2. ASSUME NEW j \in 1..n
        PROVE  t[i + j - 1] = m[j]
    <3>1. i + j - 1 \in 1..Len(t) - c + e /\ i + j - 1 < a
      BY <1>1, <1>2, <1>4, <1>9
    <3> QED
      BY <1>3, <1>4, <3>1
  <2>3. Occurs(t, m, i)
    BY <1>1, <1>4, <2>1, <2>2, OccursAt DEF n
  <2> QED
    BY <2>1, <2>3 DEF a, n
<1>10. CASE i > a + e - 1
  <2>1. k \in Nat /\ k >= a + c /\ k >= 1 /\ k + n - 1 <= Len(t)
    BY <1>1, <1>2, <1>3, <1>4, <1>10
  <2>2. ASSUME NEW j \in 1..n
        PROVE  t[k + j - 1] = m[j]
    <3>1. /\ i + j - 1 \in 1..Len(t) - c + e /\ ~(i + j - 1 < a) /\ ~(i + j - 1 < a + e)
          /\ (i + j - 1) - e + c = k + j - 1
      BY <1>1, <1>2, <1>3, <1>4, <1>10
    <3>2. u[i + j - 1] = t[(i + j - 1) - e + c]
      BY <1>3, <3>1
    <3> QED
      BY <1>4, <3>1, <3>2
  <2> HIDE DEF k
  <2>3. Occurs(t, m, k)
    BY <1>1, <2>1, <2>2, OccursAt DEF n
  <2> QED
    BY <2>1, <2>3 DEF a, c
<1>11. CASE a < i /\ i + n - 1 < a + e - 1
  <2> DEFINE q == i - a + 1
  <2>1. q \in Nat /\ q >= 1 /\ q + n - 1 <= e
    BY <1>1, <1>2, <1>11
  <2>2. ASSUME NEW j \in 1..n
        PROVE  p[q + j - 1] = m[j]
    <3>1. /\ i + j - 1 \in 1..Len(t) - c + e /\ ~(i + j - 1 < a) /\ i + j - 1 < a + e
          /\ (i + j - 1) - a + 1 = q + j - 1
      BY <1>1, <1>2, <1>3, <1>4, <1>11
    <3>2. u[i + j - 1] = p[(i + j - 1) - a + 1]
      BY <1>3, <3>1
    <3> QED
      BY <1>4, <3>1, <3>2
  <2> HIDE DEF q
  <2>3. Occurs(p, m, q)
    BY <1>1, <2>1, <2>2, OccursAt DEF n, e
  <2> QED
    BY <1>6, <2>1, <2>3
<1> QED
  BY <1>1, <1>2, <1>7, <1>8, <1>9, <1>10, <1>11

\* The same, for the matches of a rule.
LEMMA SpliceMatches ==
  ASSUME NEW S, NEW t \in Seq(S), NEW p \in Seq(S), NEW f \in Place, Occurs(t, f.match, f.at),
         NEW r \in DOMAIN Rules, Inert(p, r), NEW g \in Matches(Splice(t, f, p), r)
  PROVE  \/ g \in Matches(t, r) /\ g.at + Len(g.match) <= f.at
         \/ \E h \in Matches(t, r) : h.at >= f.at + Len(f.match)
<1> DEFINE u == Splice(t, f, p)  m == g.match  i == g.at
<1>1. u \in Seq(S)
  BY SpliceAt
<1>2. g \in Place
  <2> HIDE DEF u
  <2>1. g \in Matches(u, r)
    BY DEF u
  <2> QED
    BY <1>1, <2>1, MatchesTyped
<1>3. m \in Rules[r].matches /\ Occurs(u, m, i) /\ i \in Nat /\ g = [at |-> i, match |-> m]
  BY <1>2 DEF Matches, Found, Place
<1>4. \/ i + Len(m) <= f.at /\ Occurs(t, m, i)
      \/ \E k \in Nat : k >= f.at + Len(f.match) /\ Occurs(t, m, k)
  <2> HIDE DEF m, i
  <2> QED
    BY <1>3, SpliceOccurs
<1> HIDE DEF m, i
<1>5. CASE i + Len(m) <= f.at /\ Occurs(t, m, i)
  BY <1>3, <1>5, OccurrenceMatches DEF m, i
<1>6. ASSUME NEW k \in Nat, k >= f.at + Len(f.match), Occurs(t, m, k)
      PROVE  \E h \in Matches(t, r) : h.at >= f.at + Len(f.match)
  <2> DEFINE h == [at |-> k, match |-> m]
  <2>1. h \in Matches(t, r) /\ h.at = k
    BY <1>3, <1>6, OccurrenceMatches
  <2> HIDE DEF h
  <2> QED
    BY <1>6, <2>1
<1> QED
  BY <1>4, <1>5, <1>6

\* The first n places of q are the matches of rule r in t, in order.
Waiting(q, n, t, r) ==
  /\ \A k \in 1..n : q[k] \in Place /\ Occurs(t, q[k].match, q[k].at)
  /\ \A j, k \in 1..n : j < k => q[j].at + Len(q[j].match) <= q[k].at
  /\ \A f \in Matches(t, r) : \E k \in 1..n : f = q[k]

\* Replacing the last one leaves the others.
LEMMA LastReplaced ==
  ASSUME NEW S, NEW t \in Seq(S), NEW p \in Seq(S), NEW r \in DOMAIN Rules, Inert(p, r),
         NEW q, NEW n \in Nat \ {0}, Waiting(q, n, t, r)
  PROVE  Waiting(q, n - 1, Splice(t, q[n], p), r)
<1>1. /\ \A k \in 1..n : q[k] \in Place /\ Occurs(t, q[k].match, q[k].at)
      /\ \A j, k \in 1..n : j < k => q[j].at + Len(q[j].match) <= q[k].at
      /\ \A f \in Matches(t, r) : \E k \in 1..n : f = q[k]
  BY DEF Waiting
<1>2. n \in 1..n /\ \A k \in 1..n - 1 : k \in 1..n /\ k < n
  OBVIOUS
<1>3. q[n] \in Place /\ Occurs(t, q[n].match, q[n].at)
  BY <1>1, <1>2
<1>4. ASSUME NEW k \in 1..n - 1
      PROVE  Occurs(Splice(t, q[n], p), q[k].match, q[k].at)
  <2>1. /\ q[k].match \in Seq(Atoms) /\ q[k].at \in Nat
        /\ Occurs(t, q[k].match, q[k].at) /\ q[k].at + Len(q[k].match) <= q[n].at
    BY <1>1, <1>2 DEF Place
  <2> QED
    BY <1>3, <2>1, SpliceKeeps
<1>5. ASSUME NEW g \in Matches(Splice(t, q[n], p), r)
      PROVE  \E k \in 1..n - 1 : g = q[k]
  <2> DEFINE f == q[n]
  <2>0. f \in Place /\ Occurs(t, f.match, f.at)
    BY <1>3
  <2>1. \A k \in 1..n - 1 : q[k].at + Len(q[k].match) <= f.at
    BY <1>1, <1>2
  <2>2. g \in Matches(Splice(t, f, p), r)
    OBVIOUS
  <2> HIDE DEF f
  <2>5. \/ g \in Matches(t, r) /\ g.at + Len(g.match) <= f.at
        \/ \E h \in Matches(t, r) : h.at >= f.at + Len(f.match)
    BY <2>0, <2>2, SpliceMatches
  <2>6. ASSUME NEW h \in Matches(t, r)
        PROVE  h.at \in Nat /\ Len(h.match) \in Nat \ {0}
    <3>1. h \in Place
      BY MatchesTyped
    <3>2. h.match \in Rules[r].matches
      BY DEF Matches, Found
    <3>3. h.match # <<>>
      BY <3>2, RulesAssumption
    <3>4. h.at \in Nat /\ h.match \in Seq(Atoms)
      BY <3>1 DEF Place
    <3> QED
      BY <3>3, <3>4, EmptySeq, LenProperties
  <2>7. f.at \in Nat /\ Len(f.match) \in Nat
    BY <2>0, LenProperties DEF Place
  <2>8. CASE g \in Matches(t, r) /\ g.at + Len(g.match) <= f.at
    <3>1. PICK k \in 1..n : g = q[k]
      BY <1>1, <2>8
    <3>2. g # f
      BY <2>6, <2>7, <2>8
    <3>3. k \in 1..n - 1
      BY <3>1, <3>2 DEF f
    <3> QED
      BY <3>1, <3>3
  <2>9. ASSUME NEW h \in Matches(t, r), h.at >= f.at + Len(f.match)
        PROVE  FALSE
    <3>1. PICK k \in 1..n : h = q[k]
      BY <1>1
    <3>2. CASE k = n
      <4>1. h = f
        BY <3>1, <3>2 DEF f
      <4> QED
        BY <2>6, <2>7, <2>9, <4>1
    <3>3. CASE k # n
      <4>1. k \in 1..n - 1
        BY <3>3
      <4>2. h.at + Len(h.match) <= f.at
        BY <2>1, <3>1, <4>1
      <4> QED
        BY <2>6, <2>7, <2>9, <4>2
    <3> QED
      BY <3>2, <3>3
  <2> QED
    BY <2>5, <2>8, <2>9
<1> QED
  BY <1>1, <1>2, <1>4, <1>5 DEF Waiting

\* A text that a rule finds nothing in stays so when an inert placeholder is
\* put in.
LEMMA SpliceClean ==
  ASSUME NEW S, NEW t \in Seq(S), NEW p \in Seq(S), NEW f \in Place, Occurs(t, f.match, f.at),
         NEW r \in DOMAIN Rules, Inert(p, r), Clean(t, r)
  PROVE  Clean(Splice(t, f, p), r)
BY SpliceMatches, Zenon DEF Clean

\* c is a and b joined, by positions.
IsCat(T, a, b, c) ==
  /\ c \in Seq(T) /\ Len(c) = Len(a) + Len(b)
  /\ \A i \in 1..Len(a) + Len(b) : c[i] = IF i <= Len(a) THEN a[i] ELSE b[i - Len(a)]

LEMMA CatAt ==
  ASSUME NEW T, NEW a \in Seq(T), NEW b \in Seq(T)
  PROVE  IsCat(T, a, b, a \o b)
BY ConcatProperties DEF IsCat

\* The members of a join.
JoinParts(ts, S) == [i \in DOMAIN ts |-> JoinPart(ts, S, i)]

\* They are texts, and so is the join.
LEMMA JoinTyped ==
  ASSUME NEW T, Space \in T, NEW ts \in Seq(Seq(T)), NEW S
  PROVE  /\ JoinParts(ts, S) \in Seq(Seq(T)) /\ Len(JoinParts(ts, S)) = Len(ts)
         /\ DOMAIN ts = 1..Len(ts) /\ Len(ts) \in Nat
         /\ \A i \in 1..Len(ts) : JoinParts(ts, S)[i] = JoinPart(ts, S, i)
         /\ Join(ts, S) = FlattenSeq(JoinParts(ts, S)) /\ Join(ts, S) \in Seq(T)
<1>1. DOMAIN ts = 1..Len(ts) /\ Len(ts) \in Nat /\ \A i \in 1..Len(ts) : ts[i] \in Seq(T)
  BY LenProperties, ElementOfSeq
<1>2. ASSUME NEW i \in 1..Len(ts)
      PROVE  JoinPart(ts, S, i) \in Seq(T)
  <2>1. <<Space>> \in Seq(T) /\ <<>> \in Seq(T) /\ ts[i] \in Seq(T)
    BY <1>1, EmptySeq
  <2>2. <<Space>> \o ts[i] \in Seq(T)
    BY <2>1, ConcatProperties
  <2> QED
    BY <2>1, <2>2 DEF JoinPart
<1> DEFINE s == JoinParts(ts, S)
<1>3. s \in [1..Len(ts) -> Seq(T)] /\ \A i \in 1..Len(ts) : s[i] = JoinPart(ts, S, i)
  BY <1>1, <1>2 DEF JoinParts
<1> HIDE DEF s
<1>4. s \in Seq(Seq(T)) /\ Len(s) = Len(ts)
  <2> DEFINE n == Len(ts)
  <2>1. n \in Nat /\ s \in [1..n -> Seq(T)]
    BY <1>1, <1>3
  <2> HIDE DEF n
  <2>2. s \in Seq(Seq(T)) /\ Len(s) = n
    BY <2>1, SeqDef
  <2> QED
    BY <2>2 DEF n
<1>5. Join(ts, S) = FlattenSeq(s)
  BY DEF Join, JoinParts, s
<1>6. FlattenSeq(s) \in Seq(T)
  BY <1>4, FlattenTyped
<1> QED
  BY <1>1, <1>3, <1>4, <1>5, <1>6 DEF s

\* A text that was spliced before it was joined is spliced in the join.
SplicedIn(j, p, u) ==
  \E g \in Place : Occurs(j, g.match, g.at) /\ u = Splice(j, g, p)

LEMMA SpliceWithin ==
  ASSUME NEW T, NEW a \in Seq(T), NEW t \in Seq(T), NEW b \in Seq(T), NEW p \in Seq(T),
         NEW f \in Place, Occurs(t, f.match, f.at)
  PROVE  SplicedIn(a \o (t \o b), p, a \o (Splice(t, f, p) \o b))
<1> DEFINE m == f.match  c == Len(m)  k == f.at  e == Len(p)  x == Len(a)  y == Len(t)  z == Len(b)
           w == t \o b  j == a \o w
           g == [at |-> k + x, match |-> m]
           u == Splice(t, f, p)  v == u \o b  r == a \o v  s == Splice(j, g, p)
<1>1. /\ k \in Nat \ {0} /\ c \in Nat /\ k + c - 1 <= y /\ y \in Nat /\ e \in Nat /\ x \in Nat
      /\ z \in Nat /\ m \in Seq(Atoms)
  BY LenProperties DEF Place, Occurs
<1>2. w \in Seq(T) /\ Len(w) = y + z /\ \A i \in 1..y + z : w[i] = IF i <= y THEN t[i] ELSE b[i - y]
  <2>1. IsCat(T, t, b, w)
    BY CatAt, Zenon
  <2> HIDE DEF w
  <2> QED
    BY <2>1, Zenon DEF IsCat
<1> HIDE DEF w
<1>3. j \in Seq(T) /\ Len(j) = x + (y + z)
      /\ \A i \in 1..x + (y + z) : j[i] = IF i <= x THEN a[i] ELSE w[i - x]
  <2>1. IsCat(T, a, w, j)
    BY <1>2, CatAt, Zenon
  <2> HIDE DEF j
  <2> QED
    BY <1>2, <2>1 DEF IsCat
<1>4. /\ u \in Seq(T) /\ Len(u) = y - c + e
      /\ \A i \in 1..y - c + e :
           u[i] = IF i < k THEN t[i] ELSE IF i < k + e THEN p[i - k + 1] ELSE t[i - e + c]
  <2>1. Spliced(T, t, f, p)
    BY SpliceText, Zenon
  <2> QED
    BY <2>1, Zenon DEF Spliced
<1> HIDE DEF u, j
<1>5. /\ v \in Seq(T) /\ Len(v) = (y - c + e) + z
      /\ \A i \in 1..(y - c + e) + z : v[i] = IF i <= y - c + e THEN u[i] ELSE b[i - (y - c + e)]
  <2>1. IsCat(T, u, b, v)
    BY <1>4, CatAt, Zenon
  <2> HIDE DEF v
  <2> QED
    BY <1>4, <2>1 DEF IsCat
<1> HIDE DEF v
<1>6. /\ r \in Seq(T) /\ Len(r) = x + ((y - c + e) + z)
      /\ \A i \in 1..x + ((y - c + e) + z) : r[i] = IF i <= x THEN a[i] ELSE v[i - x]
  <2>1. IsCat(T, a, v, r)
    BY <1>5, CatAt, Zenon
  <2> HIDE DEF r
  <2> QED
    BY <1>5, <2>1 DEF IsCat
<1> HIDE DEF r
<1>7. g \in Place /\ g.at = k + x /\ g.match = m
  BY <1>1 DEF Place
<1>8. Occurs(j, m, k + x)
  <2>1. \A i \in 1..c : t[k + i - 1] = m[i]
    <3>1. k \in Nat /\ m \in Seq(Atoms) /\ Occurs(t, m, k)
      BY <1>1
    <3>2. MatchesAt(t, m, k)
      BY <3>1, OccursByAtoms, Zenon
    <3> QED
      BY <3>2, Zenon DEF MatchesAt
  <2>2. ASSUME NEW i \in 1..c
        PROVE  j[(k + x) + i - 1] = m[i]
    <3> DEFINE q == (k + x) + i - 1
    <3> HIDE DEF k, x, y, z, c, m, e
    <3>1. q \in 1..x + (y + z) /\ ~(q <= x) /\ q - x = k + i - 1 /\ k + i - 1 <= y /\ k + i - 1 \in 1..y + z
      BY <1>1
    <3>2. j[q] = w[q - x]
      BY <1>3, <3>1
    <3>3. w[k + i - 1] = t[k + i - 1]
      BY <1>2, <3>1
    <3>4. t[k + i - 1] = m[i]
      BY <2>1
    <3> HIDE DEF q
    <3>5. j[q] = m[i]
      BY <3>1, <3>2, <3>3, <3>4, Zenon
    <3> QED
      BY <3>5, Zenon DEF q
  <2>3. k + x \in Nat /\ k + x >= 1 /\ (k + x) + c - 1 <= Len(j)
    <3>1. /\ k \in Nat \ {0} /\ c \in Nat /\ k + c - 1 <= y /\ y \in Nat /\ x \in Nat
          /\ z \in Nat /\ Len(j) = x + (y + z)
      BY <1>1, <1>3, Zenon
    <3> HIDE DEF k, x, y, z, c
    <3> QED
      BY <3>1
  <2> HIDE DEF k, x, c, m
  <2> QED
    <3>1. MatchesAt(j, m, k + x)
      BY <1>1, <2>2, <2>3, Zenon DEF MatchesAt, c
    <3> QED
      BY <1>1, <1>3, <2>3, <3>1, OccursByAtoms, Zenon
<1> HIDE DEF g
<1>9. /\ s \in Seq(T) /\ Len(s) = (x + (y + z)) - c + e
      /\ \A i \in 1..(x + (y + z)) - c + e :
           s[i] = IF i < k + x THEN j[i] ELSE IF i < (k + x) + e THEN p[i - (k + x) + 1]
                  ELSE j[i - e + c]
  <2>1. Occurs(j, g.match, g.at)
    BY <1>7, <1>8
  <2>2. /\ s \in Seq(T) /\ Len(s) = Len(j) - Len(g.match) + Len(p)
        /\ \A i \in 1..Len(j) - Len(g.match) + Len(p) :
             s[i] = IF i < g.at THEN j[i] ELSE IF i < g.at + Len(p) THEN p[i - g.at + 1]
                    ELSE j[i - Len(p) + Len(g.match)]
    <3>1. Spliced(T, j, g, p)
      BY <1>3, <1>7, <2>1, SpliceText, Zenon
    <3> QED
      BY <3>1, Zenon DEF Spliced
  <2> QED
    BY <1>3, <1>7, <2>2
<1> HIDE DEF s
<1>10. Len(s) = Len(r)
  BY <1>1, <1>6, <1>9
<1>11. ASSUME NEW i \in 1..Len(s)
       PROVE  s[i] = r[i]
  <2> HIDE DEF k, c, e, x, y, z
  <2>0. i \in Nat /\ i \in 1..(x + (y + z)) - c + e /\ i \in 1..x + ((y - c + e) + z)
    <3> DEFINE N == Len(s)
    <3>1. N = (x + (y + z)) - c + e /\ i \in 1..N
      BY <1>9
    <3> HIDE DEF N
    <3> QED
      BY <1>1, <3>1
  <2>1. CASE i <= x
    <3>1. i < k + x /\ i \in 1..x + (y + z)
      BY <1>1, <2>0, <2>1
    <3> QED
      BY <1>3, <1>6, <1>9, <2>0, <2>1, <3>1
  <2>2. CASE ~(i <= x) /\ i < k + x
    <3> DEFINE h == i - x
    <3>1. i \in 1..x + (y + z) /\ h \in 1..y + z /\ h <= y /\ h \in 1..y - c + e /\ h <= y - c + e
          /\ h \in 1..(y - c + e) + z /\ h < k
      BY <1>1, <2>0, <2>2
    <3>2. s[i] = w[h] /\ r[i] = v[h]
      BY <1>3, <1>6, <1>9, <2>0, <2>2, <3>1
    <3> HIDE DEF h
    <3> QED
      BY <1>2, <1>4, <1>5, <3>1, <3>2
  <2>3. CASE ~(i < k + x) /\ i < (k + x) + e
    <3> DEFINE h == i - x
    <3>1. ~(i <= x) /\ h \in 1..y - c + e /\ h <= y - c + e /\ i - (k + x) + 1 = h - k + 1
          /\ h \in 1..(y - c + e) + z /\ ~(h < k) /\ h < k + e
      BY <1>1, <2>0, <2>3
    <3>2. s[i] = p[i - (k + x) + 1] /\ r[i] = v[h]
      BY <1>6, <1>9, <2>0, <2>3, <3>1
    <3> HIDE DEF h
    <3> QED
      BY <1>4, <1>5, <3>1, <3>2
  <2>4. CASE ~(i < (k + x) + e) /\ i <= x + (y - c + e)
    <3> DEFINE h == i - x  q == i - e + c
    <3>1. /\ ~(i < k + x) /\ ~(i <= x) /\ h \in 1..y - c + e /\ h <= y - c + e
          /\ h \in 1..(y - c + e) + z /\ ~(h < k) /\ ~(h < k + e)
          /\ q \in 1..x + (y + z) /\ ~(q <= x) /\ q - x \in 1..y + z /\ q - x <= y /\ h - e + c = q - x
      BY <1>1, <2>0, <2>4
    <3>2. s[i] = j[q] /\ r[i] = v[h]
      BY <1>6, <1>9, <2>0, <2>4, <3>1
    <3> HIDE DEF h, q
    <3>3. j[q] = w[q - x] /\ w[q - x] = t[q - x]
      BY <1>2, <1>3, <3>1
    <3>4. v[h] = u[h] /\ u[h] = t[h - e + c]
      BY <1>4, <1>5, <3>1
    <3> QED
      BY <3>1, <3>2, <3>3, <3>4
  <2>5. CASE i > x + (y - c + e)
    <3> DEFINE h == i - x  q == i - e + c
    <3>1. /\ ~(i < k + x) /\ ~(i < (k + x) + e) /\ ~(i <= x) /\ ~(h <= y - c + e)
          /\ h \in 1..(y - c + e) + z
          /\ q \in 1..x + (y + z) /\ ~(q <= x) /\ q - x \in 1..y + z /\ ~(q - x <= y)
          /\ (q - x) - y = h - (y - c + e)
      BY <1>1, <2>0, <2>5
    <3>2. s[i] = j[q] /\ r[i] = v[h]
      BY <1>6, <1>9, <2>0, <2>5, <3>1
    <3> HIDE DEF h, q
    <3>3. j[q] = w[q - x] /\ w[q - x] = b[(q - x) - y]
      BY <1>2, <1>3, <3>1
    <3>4. v[h] = b[h - (y - c + e)]
      BY <1>5, <3>1
    <3> QED
      BY <3>1, <3>2, <3>3, <3>4
  <2> QED
    BY <1>1, <2>0, <2>1, <2>2, <2>3, <2>4, <2>5
<1>12. s = r
  BY <1>6, <1>9, <1>10, <1>11, SeqEqual
<1> QED
  <2>1. g \in Place /\ Occurs(j, g.match, g.at) /\ r = Splice(j, g, p)
    BY <1>7, <1>8, <1>12 DEF s
  <2>2. SplicedIn(j, p, r)
    BY <2>1, Zenon DEF SplicedIn
  <2> QED
    BY <2>2, Zenon DEF r, v, u, j, w

\* A splice in one of the texts is one in their join, or is not seen in it.
LEMMA JoinSplice ==
  ASSUME NEW T, Space \in T, NEW ts \in Seq(Seq(T)), NEW us \in Seq(Seq(T)), Len(us) = Len(ts),
         NEW n \in 1..Len(ts), \A i \in 1..Len(ts) : i # n => us[i] = ts[i],
         NEW p \in Seq(T), NEW f \in Place, Occurs(ts[n], f.match, f.at),
         us[n] = Splice(ts[n], f, p), NEW S
  PROVE  \/ Join(us, S) = Join(ts, S)
         \/ SplicedIn(Join(ts, S), p, Join(us, S))
<1> DEFINE x == JoinParts(ts, S)  y == JoinParts(us, S)  N == Len(ts)
<1>1. /\ x \in Seq(Seq(T)) /\ Len(x) = N /\ N \in Nat
      /\ \A i \in 1..N : x[i] = JoinPart(ts, S, i)
      /\ Join(ts, S) = FlattenSeq(x)
  BY JoinTyped
<1>2. /\ y \in Seq(Seq(T)) /\ Len(y) = N
      /\ \A i \in 1..N : y[i] = JoinPart(us, S, i)
      /\ Join(us, S) = FlattenSeq(y)
  BY JoinTyped
<1>t. ts[n] \in Seq(T) /\ us[n] \in Seq(T)
  BY ElementOfSeq
<1> HIDE DEF x, y, N
<1>3. \A i \in 1..N : i # n => y[i] = x[i]
  BY <1>1, <1>2 DEF JoinPart, N
<1>4. PICK a, b \in Seq(T) : \A r \in Seq(Seq(T)) :
        (Len(r) = N /\ \A i \in 1..N : i # n => r[i] = x[i]) => FlattenSeq(r) = a \o (r[n] \o b)
  <2>1. n \in 1..Len(x)
    BY <1>1 DEF N
  <2>2. SplitsAt(T, x, n)
    BY <1>1, <2>1, FlattenSplit, Zenon
  <2> QED
    BY <1>1, <2>2 DEF SplitsAt
<1>5. FlattenSeq(x) = a \o (x[n] \o b) /\ FlattenSeq(y) = a \o (y[n] \o b)
  BY <1>1, <1>2, <1>3, <1>4
<1>6. n \in 1..N
  BY DEF N
<1>7. CASE n \notin S
  <2>1. x[n] = <<>> /\ y[n] = <<>>
    BY <1>1, <1>2, <1>6, <1>7 DEF JoinPart
  <2> QED
    BY <1>1, <1>2, <1>5, <2>1
<1>8. CASE n \in S
  <2> DEFINE t == ts[n]  u == us[n]
  <2>1. PICK c \in {<<>>, <<Space>>} : x[n] = c \o t /\ y[n] = c \o u
    <3>1. CASE \E j \in S : j < n
      BY <1>1, <1>2, <1>6, <1>8, <3>1 DEF JoinPart
    <3>2. CASE ~\E j \in S : j < n
      <4>1. x[n] = t /\ y[n] = u
        BY <1>1, <1>2, <1>6, <1>8, <3>2 DEF JoinPart
      <4>2. <<>> \o t = t /\ <<>> \o u = u
        BY <1>t, ConcatEmptySeq
      <4> QED
        BY <4>1, <4>2, Zenon
    <3> QED
      BY <3>1, <3>2
  <2>2. c \in Seq(T)
    <3>1. <<>> \in Seq(T) /\ <<Space>> \in Seq(T)
      BY EmptySeq
    <3> QED
      BY <2>1, <3>1, Zenon
  <2>3. t \in Seq(T) /\ u \in Seq(T) /\ u = Splice(t, f, p) /\ Occurs(t, f.match, f.at)
    BY <1>t
  <2> HIDE DEF t, u
  <2> DEFINE A == a \o c
  <2>4. A \in Seq(T) /\ t \o b \in Seq(T) /\ u \o b \in Seq(T)
    BY <2>2, <2>3, ConcatProperties
  <2>5. ASSUME NEW q \in Seq(T)
        PROVE  a \o ((c \o q) \o b) = A \o (q \o b)
    <3>1. q \o b \in Seq(T)
      BY ConcatProperties
    <3>2. Assoc(c, q, b) /\ Assoc(a, c, q \o b)
      BY <2>2, <3>1, ConcatAssoc, Zenon
    <3> QED
      BY <3>2, Zenon DEF Assoc
  <2> HIDE DEF A
  <2>6. Join(ts, S) = A \o (t \o b) /\ Join(us, S) = A \o (Splice(t, f, p) \o b)
    BY <1>1, <1>2, <1>5, <2>1, <2>3, <2>5, Zenon
  <2>7. SplicedIn(A \o (t \o b), p, A \o (Splice(t, f, p) \o b))
    BY <2>3, <2>4, SpliceWithin, Zenon
  <2> QED
    BY <2>6, <2>7, Zenon
<1> QED
  BY <1>7, <1>8

\* What is in two texts with a space between them and holds no space is in one
\* of them.
InEither(a, b, m) == \E j \in Nat : Occurs(a, m, j) \/ Occurs(b, m, j)

LEMMA OccursAround ==
  ASSUME NEW T, NEW U, Space \in T, NEW a \in Seq(T), NEW b \in Seq(T), NEW m \in Seq(U), m # <<>>,
         Space \notin Range(m), NEW i \in Nat, Occurs(a \o (<<Space>> \o b), m, i)
  PROVE  InEither(a, b, m)
<1> DEFINE v == <<Space>>  w == v \o b  c == a \o w  x == Len(a)  z == Len(b)  n == Len(m)
<1>0. x \in Nat /\ z \in Nat /\ n \in Nat /\ n # 0 /\ DOMAIN m = 1..n
  BY LenProperties, EmptySeq
<1>1. v \in Seq(T) /\ Len(v) = 1 /\ v[1] = Space
  OBVIOUS
<1> HIDE DEF v
<1>2. w \in Seq(T) /\ Len(w) = 1 + z /\ \A k \in 1..1 + z : w[k] = IF k <= 1 THEN v[k] ELSE b[k - 1]
  <2>1. IsCat(T, v, b, w)
    BY <1>1, CatAt, Zenon
  <2> HIDE DEF w
  <2> QED
    BY <1>1, <2>1 DEF IsCat
<1> HIDE DEF w
<1>3. c \in Seq(T) /\ Len(c) = x + (1 + z) /\ \A k \in 1..x + (1 + z) : c[k] = IF k <= x THEN a[k] ELSE w[k - x]
  <2>1. IsCat(T, a, w, c)
    BY <1>2, CatAt, Zenon
  <2> HIDE DEF c
  <2> QED
    BY <1>2, <2>1 DEF IsCat
<1>4. Occurs(c, m, i)
  BY DEF w, v
<1> HIDE DEF c
<1>5. MatchesAt(c, m, i)
  BY <1>3, <1>4, OccursByAtoms, Zenon
<1>6. i >= 1 /\ i + n - 1 <= x + (1 + z) /\ \A k \in 1..n : c[i + k - 1] = m[k]
  BY <1>3, <1>5 DEF MatchesAt
<1> HIDE DEF x, z, n
<1>7. CASE i + n - 1 <= x
  <2>1. ASSUME NEW k \in 1..n
        PROVE  a[i + k - 1] = m[k]
    <3>1. i + k - 1 \in 1..x + (1 + z) /\ i + k - 1 <= x
      BY <1>0, <1>6, <1>7
    <3> QED
      BY <1>3, <1>6, <3>1
  <2>2. MatchesAt(a, m, i)
    BY <1>6, <1>7, <2>1, Zenon DEF MatchesAt, n, x
  <2>3. Occurs(a, m, i)
    BY <2>2, OccursByAtoms, Zenon
  <2> QED
    BY <2>3, Zenon DEF InEither
<1>8. CASE i > x + 1
  <2> DEFINE j == i - (x + 1)
  <2>0. j \in Nat /\ j >= 1 /\ j + n - 1 <= z
    BY <1>0, <1>6, <1>8
  <2>1. ASSUME NEW k \in 1..n
        PROVE  b[j + k - 1] = m[k]
    <3> DEFINE q == i + k - 1
    <3>1. q \in 1..x + (1 + z) /\ ~(q <= x) /\ q - x \in 1..1 + z /\ ~(q - x <= 1) /\ (q - x) - 1 = j + k - 1
      BY <1>0, <1>6, <1>8
    <3>2. c[q] = m[k]
      BY <1>6
    <3> HIDE DEF q, j
    <3>3. c[q] = w[q - x] /\ w[q - x] = b[(q - x) - 1]
      BY <1>2, <1>3, <3>1
    <3> QED
      BY <3>1, <3>2, <3>3
  <2> HIDE DEF j
  <2>2. MatchesAt(b, m, j)
    BY <2>0, <2>1, Zenon DEF MatchesAt, n, z
  <2>3. Occurs(b, m, j)
    BY <2>0, <2>2, OccursByAtoms, Zenon
  <2> QED
    BY <2>0, <2>3, Zenon DEF InEither
<1>9. CASE ~(i + n - 1 <= x) /\ ~(i > x + 1)
  <2> DEFINE k == x + 2 - i
  <2>1. k \in 1..n /\ i + k - 1 = x + 1 /\ x + 1 \in 1..x + (1 + z) /\ ~(x + 1 <= x)
        /\ (x + 1) - x = 1 /\ 1 \in 1..1 + z
    BY <1>0, <1>6, <1>9
  <2>2. c[x + 1] = w[1] /\ w[1] = Space
    <3>1. c[x + 1] = w[(x + 1) - x]
      BY <1>3, <2>1
    <3>2. w[1] = v[1]
      BY <1>2, <2>1
    <3> QED
      BY <1>1, <2>1, <3>1, <3>2
  <2> HIDE DEF k
  <2>3. m[k] = Space
    BY <1>6, <2>1, <2>2
  <2> QED
    BY <1>0, <2>1, <2>3 DEF Range
<1> QED
  BY <1>7, <1>8, <1>9

\* What holds no space and is in none of the texts is not in their join.
LEMMA JoinClean ==
  ASSUME NEW T, NEW U, Space \in T, NEW ts \in Seq(Seq(T)), NEW S, S \subseteq Nat, NEW m \in Seq(U), m # <<>>,
         Space \notin Range(m), \A i \in 1..Len(ts) : i \in S => \A j \in Nat : ~Occurs(ts[i], m, j)
  PROVE  \A j \in Nat : ~Occurs(Join(ts, S), m, j)
<1> DEFINE x == JoinParts(ts, S)  N == Len(ts)
<1>1. /\ x \in Seq(Seq(T)) /\ Len(x) = N /\ N \in Nat
      /\ \A i \in 1..N : x[i] = JoinPart(ts, S, i)
      /\ Join(ts, S) = FlattenSeq(x)
  BY JoinTyped
<1> HIDE DEF x
<1>2. PICK h \in [0..N -> Seq(T)] : Joined(x, h)
  <2>1. \E h \in [0..Len(x) -> Seq(T)] : Joined(x, h)
    BY <1>1, FlattenJoins, Zenon
  <2> QED
    BY <1>1, <2>1
<1>3. h[0] = <<>> /\ FlattenSeq(x) = h[N] /\ \A k \in 1..N : h[k] = h[k - 1] \o JoinPart(ts, S, k)
  BY <1>1, <1>2 DEF Joined
<1>t. \A k \in 1..N : ts[k] \in Seq(T)
  BY ElementOfSeq
<1>n. \A j \in Nat : ~Occurs(<<>>, m, j)
  <2> SUFFICES ASSUME NEW j \in Nat, Occurs(<<>>, m, j) PROVE FALSE
    OBVIOUS
  <2> DEFINE o == <<>>
  <2>1. o \in Seq(T) /\ Len(o) = 0 /\ Len(m) \in Nat /\ Len(m) # 0
    BY EmptySeq, LenProperties
  <2>2. Occurs(o, m, j)
    OBVIOUS
  <2> HIDE DEF o
  <2>3. MatchesAt(o, m, j)
    BY <2>1, <2>2, OccursByAtoms, Zenon
  <2> QED
    BY <2>1, <2>3 DEF MatchesAt
<1> DEFINE Good(k) ==
             /\ (\A j \in S : ~(j <= k)) => h[k] = <<>>
             /\ \A j \in Nat : ~Occurs(h[k], m, j)
           G == {k \in 0..N : Good(k)}
<1> HIDE DEF N
<1>4. 0 \in G
  BY <1>1, <1>3, <1>n
<1>5. ASSUME NEW k \in 1..N, k - 1 \in G
      PROVE  k \in G
  <2>0. /\ k \in Nat /\ k - 1 \in 0..N /\ k \in 0..N /\ h[k - 1] \in Seq(T) /\ ts[k] \in Seq(T)
        /\ h[k] = h[k - 1] \o JoinPart(ts, S, k)
    <3>1. k \in Nat /\ k - 1 \in 0..N /\ k \in 0..N
      BY <1>1
    <3> QED
      BY <1>2, <1>3, <1>t, <3>1 DEF N
  <2>g. Good(k - 1)
    BY <1>5
  <2>1. CASE k \notin S
    <3>1. h[k] = h[k - 1]
      <4>1. JoinPart(ts, S, k) = <<>>
        BY <2>1 DEF JoinPart
      <4>2. h[k - 1] \o <<>> = h[k - 1]
        BY <2>0, ConcatEmptySeq, Zenon
      <4> QED
        BY <2>0, <4>1, <4>2
    <3>2. \A j \in S : j <= k => j <= k - 1
      BY <2>0, <2>1
    <3> QED
      BY <2>0, <2>g, <3>1, <3>2
  <2>2. CASE k \in S /\ ~\E j \in S : j < k
    <3>1. h[k - 1] = <<>>
      BY <2>0, <2>2, <2>g
    <3>2. JoinPart(ts, S, k) = ts[k]
      BY <2>2 DEF JoinPart
    <3>3. <<>> \o ts[k] = ts[k]
      BY <2>0, ConcatEmptySeq, Zenon
    <3>4. h[k] = ts[k]
      BY <2>0, <3>1, <3>2, <3>3, Zenon
    <3>5. \A j \in Nat : ~Occurs(h[k], m, j)
      <4>1. k \in 1..Len(ts)
        BY DEF N
      <4> QED
        BY <2>2, <3>4, <4>1
    <3>6. ~\A j \in S : ~(j <= k)
      BY <2>0, <2>2
    <3> QED
      BY <2>0, <3>5, <3>6
  <2>3. CASE k \in S /\ \E j \in S : j < k
    <3>1. JoinPart(ts, S, k) = <<Space>> \o ts[k]
      BY <2>3 DEF JoinPart
    <3>2. h[k] = h[k - 1] \o (<<Space>> \o ts[k])
      BY <2>0, <3>1, Zenon
    <3>3. \A j \in Nat : ~Occurs(ts[k], m, j)
      <4>1. k \in 1..Len(ts)
        BY DEF N
      <4> QED
        BY <2>3, <4>1
    <3>4. \A j \in Nat : ~Occurs(h[k - 1], m, j)
      BY <2>g
    <3> DEFINE a == h[k - 1]  b == ts[k]
    <3>5. ASSUME NEW j \in Nat, Occurs(h[k], m, j)
          PROVE  FALSE
      <4>1. a \in Seq(T) /\ b \in Seq(T) /\ Occurs(a \o (<<Space>> \o b), m, j)
        BY <2>0, <3>2, <3>5, Zenon
      <4>2. (\A q \in Nat : ~Occurs(a, m, q)) /\ \A q \in Nat : ~Occurs(b, m, q)
        BY <3>3, <3>4, Zenon
      <4> HIDE DEF a, b
      <4>3. InEither(a, b, m)
        BY <4>1, OccursAround, Zenon
      <4> QED
        BY <4>2, <4>3, Zenon DEF InEither
    <3> QED
      <4>1. ~\A j \in S : ~(j <= k)
        BY <2>0, <2>3
      <4> QED
        BY <2>0, <3>5, <4>1
  <2> QED
    BY <2>1, <2>2, <2>3
<1>6. \A k \in 0..N : k \in G
  <2> HIDE DEF G
  <2>1. \A k \in 0..N - 1 : k \in G => k + 1 \in G
    BY <1>1, <1>5
  <2> QED
    BY <1>1, <1>4, <2>1, InductUpTo
<1>7. N \in G
  BY <1>1, <1>6
<1> QED
  BY <1>1, <1>3, <1>7

\* What occurs in <<[, x, ]>> and has no bracket is x.
LEMMA InsideBare ==
  ASSUME NEW x, NEW m \in Seq(Atoms), m # <<>>, {Open, Close} \cap Range(m) = {},
         NEW i \in Nat, Occurs(<<Open, x, Close>>, m, i)
  PROVE  m = <<x>>
<1> DEFINE p == <<Open, x, Close>>
<1>1. p \in Seq({Open, x, Close}) /\ Len(p) = 3 /\ p[1] = Open /\ p[2] = x /\ p[3] = Close
  BY SeqDef
<1>2. Len(m) \in Nat \ {0} /\ DOMAIN m = 1..Len(m)
  BY EmptySeq, LenProperties
<1>3. i >= 1 /\ i + Len(m) - 1 <= 3 /\ \A j \in 1..Len(m) : p[i + j - 1] = m[j]
  <2>1. Occurs(p, m, i)
    OBVIOUS
  <2>2. p \in Seq({Open, x, Close})
    BY <1>1
  <2> HIDE DEF p
  <2>3. i >= 1 /\ i + Len(m) - 1 <= Len(p) /\ \A j \in 1..Len(m) : p[i + j - 1] = m[j]
    <3>1. MatchesAt(p, m, i)
      BY <2>1, <2>2, OccursByAtoms
    <3> QED
      BY <3>1, Zenon DEF MatchesAt
  <2> QED
    BY <1>1, <2>3
<1>4. \A j \in 1..Len(m) : m[j] # Open /\ m[j] # Close
  BY <1>2 DEF Range
<1> HIDE DEF p
<1>5. i # 1
  <2> SUFFICES ASSUME i = 1
               PROVE  FALSE
    OBVIOUS
  <2>1. 1 \in 1..Len(m) /\ i + 1 - 1 = 1
    BY <1>2
  <2> QED
    BY <1>1, <1>3, <1>4, <2>1
<1>6. i + Len(m) - 1 # 3
  <2> SUFFICES ASSUME i + Len(m) - 1 = 3
               PROVE  FALSE
    OBVIOUS
  <2>1. Len(m) \in 1..Len(m)
    BY <1>2
  <2> QED
    BY <1>1, <1>3, <1>4, <2>1
<1>7. i = 2 /\ Len(m) = 1 /\ i + 1 - 1 = 2
  BY <1>2, <1>3, <1>5, <1>6
<1>8. m[1] = x
  BY <1>1, <1>3, <1>7
<1> QED
  BY <1>7, <1>8, <1>2

\* What occurs in <<[, x, y, ]>> and has no bracket is x, y or both.
LEMMA InsideToken ==
  ASSUME NEW x, NEW y, NEW m \in Seq(Atoms), m # <<>>, {Open, Close} \cap Range(m) = {},
         NEW i \in Nat, Occurs(Token(x, y), m, i)
  PROVE  m \in {<<x>>, <<y>>, <<x, y>>}
<1> DEFINE p == <<Open, x, y, Close>>
<1>1. /\ p \in Seq({Open, x, y, Close}) /\ Len(p) = 4
      /\ p[1] = Open /\ p[2] = x /\ p[3] = y /\ p[4] = Close
  BY SeqDef
<1>2. Len(m) \in Nat \ {0} /\ DOMAIN m = 1..Len(m)
  BY EmptySeq, LenProperties
<1>3. i >= 1 /\ i + Len(m) - 1 <= 4 /\ \A j \in 1..Len(m) : p[i + j - 1] = m[j]
  <2>1. Occurs(p, m, i)
    BY DEF Token
  <2>2. p \in Seq({Open, x, y, Close})
    BY <1>1
  <2> HIDE DEF p
  <2>3. i >= 1 /\ i + Len(m) - 1 <= Len(p) /\ \A j \in 1..Len(m) : p[i + j - 1] = m[j]
    <3>1. MatchesAt(p, m, i)
      BY <2>1, <2>2, OccursByAtoms
    <3> QED
      BY <3>1, Zenon DEF MatchesAt
  <2> QED
    BY <1>1, <2>3
<1>4. \A j \in 1..Len(m) : m[j] # Open /\ m[j] # Close
  BY <1>2 DEF Range
<1> HIDE DEF p
<1>5. i # 1
  <2> SUFFICES ASSUME i = 1
               PROVE  FALSE
    OBVIOUS
  <2>1. 1 \in 1..Len(m) /\ i + 1 - 1 = 1
    BY <1>2
  <2> QED
    BY <1>1, <1>3, <1>4, <2>1
<1>6. i + Len(m) - 1 # 4
  <2> SUFFICES ASSUME i + Len(m) - 1 = 4
               PROVE  FALSE
    OBVIOUS
  <2>1. Len(m) \in 1..Len(m)
    BY <1>2
  <2> QED
    BY <1>1, <1>3, <1>4, <2>1
<1>7. (i = 2 /\ Len(m) = 1) \/ (i = 3 /\ Len(m) = 1) \/ (i = 2 /\ Len(m) = 2)
  BY <1>2, <1>3, <1>5, <1>6
<1>8. 1 \in 1..Len(m) /\ m[1] = p[i]
  BY <1>2, <1>3, i + 1 - 1 = i
<1>9. CASE i = 2 /\ Len(m) = 1
  <2>1. m[1] = x
    BY <1>1, <1>8, <1>9
  <2> QED
    BY <1>2, <1>9, <2>1
<1>10. CASE i = 3 /\ Len(m) = 1
  <2>1. m[1] = y
    BY <1>1, <1>8, <1>10
  <2> QED
    BY <1>2, <1>10, <2>1
<1>11. CASE i = 2 /\ Len(m) = 2
  <2>1. 2 \in 1..Len(m) /\ i + 2 - 1 = 3
    BY <1>11
  <2>2. m[1] = x /\ m[2] = y
    BY <1>1, <1>3, <1>8, <1>11, <2>1
  <2> QED
    BY <1>2, <1>11, <2>2
<1> QED
  BY <1>7, <1>9, <1>10, <1>11

\* The placeholder of rule s is inert for the entities that reject and for the
\* rules that mask and have had their turn.
LEMMA BracketsInert ==
  ASSUME NEW actions, InertUnder(actions), NEW s \in OfClass(actions, "mask"),
         NEW r \in DOMAIN Rules,
         \/ r \in OfClass(actions, "reject")
         \/ r \in OfClass(actions, "mask") /\ r <= s,
         NEW index \in DOMAIN Numerals,
         NEW p, p \in {<<Open, Rules[s].entity, Close>>, Token(Rules[s].entity, Numerals[index])}
  PROVE  Inert(p, r)
<1> DEFINE entity == Rules[s].entity
<1>3. r \in OfClass(actions, "mask") => r <= s
  <2>1. ~(r \in OfClass(actions, "mask") /\ r \in OfClass(actions, "reject"))
    BY DEF OfClass
  <2> QED
    BY <2>1
<1>4. ASSUME NEW m \in Rules[r].matches
      PROVE  /\ {Open, Close} \cap Range(m) = {}
             /\ m \notin {<<entity>>, <<Numerals[index]>>, <<entity, Numerals[index]>>}
  BY <1>3, Zenon DEF InertUnder
<1>5. p = <<Open, entity, Close>> \/ p = Token(entity, Numerals[index])
  OBVIOUS
<1>6. Len(p) >= 2 /\ p[1] = Open /\ p[Len(p)] = Close
  <2> HIDE DEF entity
  <2>1. CASE p = <<Open, entity, Close>>
    <3>1. Len(p) = 3 /\ p[1] = Open /\ p[3] = Close
      BY <2>1
    <3> QED
      BY <3>1
  <2>2. CASE p = Token(entity, Numerals[index])
    <3>1. Len(p) = 4 /\ p[1] = Open /\ p[4] = Close
      BY <2>2 DEF Token
    <3> QED
      BY <3>1
  <2> QED
    BY <1>5, <2>1, <2>2
<1>7. ASSUME NEW m \in Rules[r].matches, NEW i \in Nat, Occurs(p, m, i)
      PROVE  FALSE
  <2>1. m \in Seq(Atoms) /\ m # <<>>
    BY RuleTyped, RulesAssumption
  <2>2. /\ {Open, Close} \cap Range(m) = {}
        /\ m \notin {<<entity>>, <<Numerals[index]>>, <<entity, Numerals[index]>>}
    BY <1>4
  <2>3. CASE p = <<Open, entity, Close>>
    BY <1>7, <2>1, <2>2, <2>3, InsideBare
  <2>4. CASE p = Token(entity, Numerals[index])
    <3> HIDE DEF entity
    <3>1. Occurs(Token(entity, Numerals[index]), m, i)
      BY <1>7, <2>4
    <3> QED
      BY <2>1, <2>2, <3>1, InsideToken
  <2> QED
    BY <1>5, <2>3, <2>4
<1> QED
  BY <1>4, <1>6, <1>7 DEF Inert

LEMMA PlaceholderInert ==
  ASSUME PlaceholdersInert, [cfg |-> cfg, req |-> req] \in Inputs,
         NEW s \in MaskRules, NEW r \in DOMAIN Rules,
         \/ r \in OfClass(cfg.actions, "reject")
         \/ r \in MaskRules /\ r <= s,
         NEW index \in DOMAIN Numerals
  PROVE  Inert(PlaceholderFor(Rules[s].entity, index), r)
<1>1. InertUnder(cfg.actions)
  <2>1. [cfg |-> cfg, req |-> req].cfg.actions = cfg.actions
    OBVIOUS
  <2> QED
    BY <2>1 DEF PlaceholdersInert
<1>2. PlaceholderFor(Rules[s].entity, index) \in
        {<<Open, Rules[s].entity, Close>>, Token(Rules[s].entity, Numerals[index])}
  BY DEF PlaceholderFor
<1> HIDE DEF PlaceholderFor
<1> QED
  BY <1>1, <1>2, BracketsInert DEF MaskRules

\* The phases in which the texts are as they are sent.
Late == Phases \ {"check", "reject", "redact", "done"}

\* Redaction starts at the first rule for the first text, and what waits to be
\* replaced was found by a rule that masks.
Cursor ==
  /\ phase \in {"check", "reject"} => part = 1 /\ rule = 1 /\ todo = <<>>
  /\ rule \in Nat \ {0}
  /\ todo # <<>> => rule \in MaskRules

\* Behind the cursor the rules that mask find nothing; what the rule at the
\* cursor still finds is waiting to be replaced.
Behind ==
  phase = "redact" =>
    /\ \A i \in DOMAIN texts, r \in MaskRules :
         Redactable(i) /\ (i < part \/ (i = part /\ r < rule)) => Clean(texts[i], r)
    /\ todo # <<>> => \A f \in Matches(texts[part], rule) : \E k \in 1..Len(todo) : f = todo[k]

\* Once redaction is over they find nothing anywhere.
Masked ==
  cfg.pii /\ phase \in Late =>
    \A i \in DOMAIN texts, r \in MaskRules : Redactable(i) => Clean(texts[i], r)

\* Once the scan is over the entities that reject are not in what it looked at.
Unrejected ==
  cfg.pii /\ phase \in Late \cup {"redact"} =>
    \A r \in OfClass(cfg.actions, "reject") : Clean(UserText, r)

RedactedInv == Cursor /\ Behind /\ Masked /\ Unrejected

\* user_text is made of the request and its texts.
LEMMA UserTextKept ==
  ASSUME UNCHANGED <<req, texts>>
  PROVE  UserText' = UserText
BY DEF UserText, Scanned, Join, JoinPart

LEMMA RedactedInit == Init => RedactedInv
BY DEF Init, RedactedInv, Cursor, Behind, Masked, Unrejected, Late, Phases

\* Nothing that the invariant speaks of changes, and the phase stays late.
LEMMA RedactedLate ==
  ASSUME RedactedInv, UNCHANGED <<cfg, req, texts, part, rule, todo>>,
         \/ phase \in Late /\ phase' \in Late \cup {"done"}
         \/ phase' = phase
         \/ phase' = "done"
  PROVE  RedactedInv'
<1>1. MaskRules' = MaskRules /\ UserText' = UserText /\ \A i : Redactable(i)' = Redactable(i)
  BY UserTextKept DEF MaskRules, OfClass, Redactable
<1>2. "redact" \notin Late /\ "check" \notin Late /\ "reject" \notin Late /\ "done" \notin Late
  BY DEF Late
<1>3. Cursor /\ Behind /\ Masked /\ Unrejected
  BY DEF RedactedInv
<1>4. Cursor'
  BY <1>1, <1>2, <1>3 DEF Cursor
<1>5. Behind'
  BY <1>1, <1>2, <1>3 DEF Behind, Redactable
<1>6. Masked'
  BY <1>1, <1>2, <1>3 DEF Masked, Redactable
<1>7. Unrejected'
  BY <1>1, <1>2, <1>3 DEF Unrejected
<1> QED
  BY <1>4, <1>5, <1>6, <1>7 DEF RedactedInv

\* ScanRule lists what the rule finds, or passes a rule that finds nothing or
\* does not mask.
LEMMA RedactedScan ==
  ASSUME RedactedInv, OffsetsInv, ScanRule
  PROVE  RedactedInv'
<1>0. PICK S : texts \in Seq(Seq(S))
  BY DEF OffsetsInv
<1>1. /\ phase = "redact" /\ phase' = phase /\ part <= Len(texts) /\ todo = <<>>
      /\ UNCHANGED <<cfg, req, texts, part>>
      /\ rule' = IF todo' = <<>> THEN rule + 1 ELSE rule
      /\ rule \in MaskRules => todo' = InOrder(Matches(texts[part], rule))
      /\ rule \notin MaskRules => todo' = <<>>
  BY Zenon DEF ScanRule, inputVars
<1>2. MaskRules' = MaskRules /\ UserText' = UserText /\ MaskRules \subseteq DOMAIN Rules
  BY <1>1, UserTextKept DEF MaskRules, OfClass
<1>3. Cursor /\ Behind /\ Masked /\ Unrejected
  BY DEF RedactedInv
<1>4. rule \in Nat \ {0} /\ DOMAIN Rules \subseteq Nat
  BY <1>3, RulesAssumption, LenProperties DEF Cursor
<1>5. part \in 1..Len(texts)
  BY <1>0, <1>1, LenProperties DEF OffsetsInv
<1>6. Cursor'
  BY <1>1, <1>2, <1>4 DEF Cursor
<1>7. ASSUME rule \in MaskRules
      PROVE  \A f \in Matches(texts[part], rule) : \E k \in 1..Len(todo') : f = todo'[k]
  <2>1. texts[part] \in Seq(S) /\ rule \in DOMAIN Rules
    BY <1>0, <1>2, <1>5, <1>7, ElementOfSeq
  <2>2. \A f \in Matches(texts[part], rule) :
          \E k \in 1..Len(InOrder(Matches(texts[part], rule))) :
            f = InOrder(Matches(texts[part], rule))[k]
    BY <2>1, ScanFits
  <2> QED
    BY <1>1, <1>7, <2>2
<1>8. ASSUME NEW i \in DOMAIN texts, NEW r \in MaskRules, Redactable(i),
             i < part \/ (i = part /\ r < rule')
      PROVE  Clean(texts[i], r)
  <2>1. CASE i < part \/ (i = part /\ r < rule)
    BY <1>1, <1>3, <1>8, <2>1 DEF Behind
  <2>2. CASE i = part /\ r = rule /\ todo' = <<>>
    <3>1. 1..Len(todo') = {}
      BY <2>2, EmptySeq
    <3> QED
      BY <1>7, <2>2, <3>1 DEF Clean
  <2>3. r \in Nat
    BY <1>2, <1>4
  <2> QED
    BY <1>1, <1>4, <1>8, <2>1, <2>2, <2>3
<1>9. Behind'
  <2>1. ASSUME NEW i
        PROVE  Redactable(i)' = Redactable(i)
    BY <1>1 DEF Redactable
  <2>2. todo' # <<>> => rule' = rule /\ rule \in MaskRules
    BY <1>1
  <2>3. todo' # <<>> =>
          \A f \in Matches(texts[part], rule') : \E k \in 1..Len(todo') : f = todo'[k]
    BY <1>7, <2>2
  <2> QED
    BY <1>1, <1>2, <1>8, <2>1, <2>3 DEF Behind
<1>10. Masked'
  BY <1>1 DEF Masked, Late
<1>11. Unrejected'
  BY <1>1, <1>2, <1>3 DEF Unrejected, Late
<1> QED
  BY <1>6, <1>9, <1>10, <1>11 DEF RedactedInv

\* What ReplaceMatch does to the text at the cursor.
LEMMA ReplaceSplices ==
  ASSUME OffsetsInv, VaultInv, ReplaceMatch, Nat \ {0} \subseteq DOMAIN Numerals
  PROVE  \E T, p :
           /\ texts[part] \in Seq(T) /\ p \in Seq(T) /\ Space \in T
           /\ texts \in Seq(Seq(T)) /\ texts' \in Seq(Seq(T)) /\ Len(texts') = Len(texts)
           /\ \E index \in DOMAIN Numerals : p = PlaceholderFor(Rules[rule].entity, index)
           /\ todo[Len(todo)] \in Place
           /\ Occurs(texts[part], todo[Len(todo)].match, todo[Len(todo)].at)
           /\ DOMAIN texts' = DOMAIN texts
           /\ texts'[part] = Splice(texts[part], todo[Len(todo)], p)
           /\ \A i \in DOMAIN texts : i # part => texts'[i] = texts[i]
<1> DEFINE entity == Rules[rule].entity
           value == TakeFrom(todo).head.match
           index == IndexFor(entity, value)
           p == PlaceholderFor(entity, index)
           n == Len(todo)
           f == todo[n]
           t == texts[part]
<1>0. PICK S : texts \in Seq(Seq(S))
  BY DEF OffsetsInv
<1> DEFINE T == S \cup {Open, entity, Numerals[index], Close, Space}
<1>1. todo # <<>> /\ texts' = [texts EXCEPT ![part] = Splice(@, TakeFrom(todo).head, p)]
  BY Zenon DEF ReplaceMatch
<1>2. TakeFrom(todo).head = f
  BY DEF TakeFrom
<1>3. part \in 1..Len(texts) /\ Fits(todo, t)
  BY <1>1 DEF OffsetsInv
<1>4. todo \in Seq(Place) /\ n \in Nat \ {0}
  BY <1>1, <1>3, EmptySeq DEF Fits
<1>5. f \in Place /\ Occurs(t, f.match, f.at)
  <2>1. n \in 1..n
    BY <1>4
  <2> QED
    BY <1>3, <1>4, <2>1, ElementOfSeq DEF Fits
<1>6. index \in DOMAIN Numerals
  <2>1. rule \in DOMAIN Rules
    BY <1>1 DEF VaultInv, VaultTypes
  <2>2. entity \in Entities
    BY <2>1 DEF Entities
  <2>3. next[entity] \in Nat /\ \A x \in DOMAIN seen : seen[x] \in Nat \ {0}
    BY <2>2 DEF VaultInv, VaultTypes
  <2> HIDE DEF entity, value
  <2>4. index \in Nat \ {0}
    BY <2>3 DEF IndexFor
  <2> QED
    BY <2>4
<1>7. p \in Seq(T)
  <2>1. p \in Seq({Open, entity, Numerals[index], Close})
    BY PlaceholderTyped, Zenon
  <2> HIDE DEF p
  <2> QED
    BY <2>1, SeqMonotonic
<1>8. t \in Seq(T)
  <2>1. t \in Seq(S)
    BY <1>0, <1>3, ElementOfSeq
  <2> HIDE DEF t
  <2> QED
    BY <2>1, SeqMonotonic
<1>9. /\ DOMAIN texts = 1..Len(texts) /\ DOMAIN texts' = DOMAIN texts
      /\ texts'[part] = Splice(t, f, p)
      /\ \A i \in DOMAIN texts : i # part => texts'[i] = texts[i]
  <2>1. DOMAIN texts = 1..Len(texts)
    BY <1>0, LenProperties
  <2> HIDE DEF p
  <2> QED
    BY <1>1, <1>2, <1>3, <2>1
<1>t. texts \in Seq(Seq(T)) /\ Space \in T
  <2>1. S \subseteq T /\ Space \in T
    OBVIOUS
  <2> HIDE DEF T
  <2> QED
    BY <1>0, <2>1, TextsWiden
<1> HIDE DEF p, index, T, f, t
<1>u. texts' \in Seq(Seq(T)) /\ Len(texts') = Len(texts)
  <2>1. Splice(t, f, p) \in Seq(T)
    BY <1>5, <1>7, <1>8, SpliceKeeps
  <2>2. texts' = [texts EXCEPT ![part] = Splice(t, f, p)]
    BY <1>1, <1>2 DEF t
  <2> QED
    BY <1>3, <1>t, <2>1, <2>2, ExceptSeq
<1>10. p = PlaceholderFor(Rules[rule].entity, index)
  BY DEF p
<1> QED
  BY <1>5, <1>6, <1>7, <1>8, <1>9, <1>10, <1>t, <1>u DEF f, t, n

\* Replacing the last match takes it out of the text and lets no other match
\* in, of this rule or of one that is done with.
LEMMA RedactedReplace ==
  ASSUME Nat \ {0} \subseteq DOMAIN Numerals, PlaceholdersInert, Course,
         RedactedInv, OffsetsInv, VaultInv, ReplaceMatch
  PROVE  RedactedInv'
<1> DEFINE n == Len(todo)  f == todo[n]  t == texts[part]
<1>0. PICK T, p :
        /\ t \in Seq(T) /\ p \in Seq(T) /\ Space \in T
        /\ texts \in Seq(Seq(T)) /\ texts' \in Seq(Seq(T)) /\ Len(texts') = Len(texts)
        /\ \E index \in DOMAIN Numerals : p = PlaceholderFor(Rules[rule].entity, index)
        /\ f \in Place /\ Occurs(t, f.match, f.at)
        /\ DOMAIN texts' = DOMAIN texts
        /\ texts'[part] = Splice(t, f, p)
        /\ \A i \in DOMAIN texts : i # part => texts'[i] = texts[i]
  BY ReplaceSplices
<1>1. /\ phase = "redact" /\ phase' = phase /\ todo # <<>> /\ part' = part
      /\ cfg' = cfg /\ req' = req /\ todo' = SubSeq(todo, 1, n - 1)
      /\ rule' = IF todo' = <<>> THEN rule + 1 ELSE rule
  <2>1. TakeFrom(todo).rest = SubSeq(todo, 1, n - 1)
    BY DEF TakeFrom, Front
  <2>2. /\ phase = "redact" /\ phase' = phase /\ todo # <<>> /\ part' = part
        /\ cfg' = cfg /\ req' = req /\ todo' = TakeFrom(todo).rest
        /\ rule' = IF TakeFrom(todo).rest = <<>> THEN rule + 1 ELSE rule
    BY Zenon DEF ReplaceMatch, inputVars
  <2> QED
    BY <2>1, <2>2
<1>2. /\ MaskRules' = MaskRules /\ MaskRules \subseteq DOMAIN Rules
      /\ OfClass(cfg.actions, "reject") \subseteq DOMAIN Rules
  BY <1>1 DEF MaskRules, OfClass
<1>3. Cursor /\ Behind /\ Masked /\ Unrejected
  BY DEF RedactedInv
<1>4. rule \in MaskRules /\ rule \in Nat \ {0} /\ DOMAIN Rules \subseteq Nat
  BY <1>1, <1>3, RulesAssumption, LenProperties DEF Cursor
<1>5. part \in DOMAIN texts /\ Fits(todo, t)
  <2>1. PICK S : texts \in Seq(Seq(S))
    BY DEF OffsetsInv
  <2> QED
    BY <1>1, <2>1, LenProperties DEF OffsetsInv
<1>6. /\ n \in Nat \ {0} /\ todo \in Seq(Place)
      /\ Len(todo') = n - 1 /\ \A k \in 1..n - 1 : todo'[k] = todo[k]
  <2>1. todo \in Seq(Place) /\ n \in Nat \ {0}
    BY <1>1, <1>5, EmptySeq DEF Fits
  <2>2. \A k \in 1..n - 1 : todo[k] \in Place
    BY <2>1, ElementOfSeq
  <2> HIDE DEF n
  <2>3. /\ Len(SubSeq(todo, 1, n - 1)) = IF 1 <= n - 1 THEN (n - 1) - 1 + 1 ELSE 0
        /\ \A k \in 1..(n - 1) - 1 + 1 : SubSeq(todo, 1, n - 1)[k] = todo[1 + k - 1]
    BY <2>1, <2>2, SubSeqProperties, 1 \in Int, n - 1 \in Int
  <2>4. (n - 1) - 1 + 1 = n - 1 /\ \A k \in 1..n - 1 : 1 + k - 1 = k
    BY <2>1
  <2>5. Len(SubSeq(todo, 1, n - 1)) = n - 1
    BY <2>1, <2>3
  <2> QED
    BY <1>1, <2>1, <2>3, <2>4, <2>5
<1>7. ASSUME NEW r \in DOMAIN Rules,
             r \in OfClass(cfg.actions, "reject") \/ (r \in MaskRules /\ r <= rule)
      PROVE  Inert(p, r)
  <2>1. PICK index \in DOMAIN Numerals : p = PlaceholderFor(Rules[rule].entity, index)
    BY <1>0
  <2>2. [cfg |-> cfg, req |-> req] \in Inputs
    BY DEF Course
  <2>3. Inert(PlaceholderFor(Rules[rule].entity, index), r)
    BY <1>4, <1>7, <2>2, PlaceholderInert
  <2> QED
    BY <2>1, <2>3
<1>8. Behind
  BY <1>3
<1> HIDE DEF f, t, n
<1>9. ASSUME NEW i \in DOMAIN texts, NEW r \in DOMAIN Rules,
             r \in OfClass(cfg.actions, "reject") \/ (r \in MaskRules /\ r <= rule),
             Clean(texts[i], r)
      PROVE  Clean(texts'[i], r)
  <2>1. CASE i = part
    <3>1. Inert(p, r) /\ Clean(t, r)
      BY <1>7, <1>9, <2>1 DEF t
    <3>2. Clean(Splice(t, f, p), r)
      BY <1>0, <3>1, SpliceClean
    <3> QED
      BY <1>0, <2>1, <3>2
  <2>2. CASE i # part
    BY <1>0, <1>9, <2>2
  <2> QED
    BY <2>1, <2>2
<1>10. ASSUME NEW g \in Matches(texts'[part], rule)
       PROVE  \E k \in 1..n - 1 : g = todo'[k]
  <2>1. \A h \in Matches(t, rule) : \E k \in 1..n : h = todo[k]
    BY <1>1, <1>3 DEF Behind, t, n
  <2>2. rule \in DOMAIN Rules /\ rule <= rule
    BY <1>2, <1>4
  <2>3. Inert(p, rule)
    BY <1>4, <1>7, <2>2
  <2>4. Waiting(todo, n, t, rule)
    BY <1>5, <1>6, <2>1, ElementOfSeq DEF Waiting, Fits, n
  <2>5. Waiting(todo, n - 1, Splice(t, todo[n], p), rule)
    <3>1. n \in Nat \ {0} /\ t \in Seq(T) /\ p \in Seq(T)
      BY <1>0, <1>6
    <3> QED
      BY <2>2, <2>3, <2>4, <3>1, LastReplaced
  <2>6. \E k \in 1..n - 1 : g = todo[k]
    BY <1>0, <2>5 DEF Waiting, f
  <2> QED
    BY <1>6, <2>6
<1>11. Cursor'
  BY <1>1, <1>2, <1>4 DEF Cursor
<1>12. ASSUME NEW i \in DOMAIN texts, NEW r \in MaskRules, Redactable(i),
              i < part \/ (i = part /\ r < rule')
       PROVE  Clean(texts'[i], r)
  <2>1. r \in DOMAIN Rules /\ r \in Nat
    BY <1>2, <1>4
  <2>2. CASE i < part
    <3>1. i # part
      <4>1. PICK S : texts \in Seq(Seq(S))
        BY DEF OffsetsInv
      <4>2. i \in Nat /\ part \in Nat
        BY <1>5, <4>1, LenProperties
      <4> QED
        BY <2>2, <4>2
    <3>2. Clean(texts[i], r)
      BY <1>1, <1>8, <1>12, <2>2 DEF Behind
    <3> QED
      BY <1>0, <3>1, <3>2
  <2>3. CASE i = part /\ r < rule
    <3>1. Clean(texts[i], r)
      BY <1>1, <1>8, <1>12, <2>3 DEF Behind
    <3> QED
      BY <1>4, <1>9, <2>1, <2>3, <3>1
  <2>4. CASE i = part /\ r = rule /\ todo' = <<>>
    <3>1. 1..n - 1 = {}
      BY <1>6, <2>4, EmptySeq
    <3> QED
      BY <1>10, <2>4, <3>1 DEF Clean
  <2> QED
    BY <1>1, <1>4, <1>12, <2>1, <2>2, <2>3, <2>4
<1>13. Behind'
  <2>1. ASSUME NEW i
        PROVE  Redactable(i)' = Redactable(i)
    BY <1>1 DEF Redactable
  <2>2. todo' # <<>> =>
          \A g \in Matches(texts'[part], rule') : \E k \in 1..Len(todo') : g = todo'[k]
    BY <1>1, <1>6, <1>10
  <2> QED
    BY <1>0, <1>1, <1>2, <1>12, <2>1, <2>2 DEF Behind
<1>14. Masked'
  BY <1>1 DEF Masked, Late
<1>15. Unrejected'
  <2> DEFINE U == UserText  V == Join(texts', Scanned)
  <2>1. UserText' = V
    <3>1. Scanned' = Scanned
      BY <1>0, <1>1 DEF Scanned
    <3> QED
      BY <3>1 DEF UserText, Join, JoinPart
  <2>2. V = U \/ SplicedIn(U, p, V)
    <3>1. /\ part \in 1..Len(texts) /\ DOMAIN texts = 1..Len(texts)
          /\ \A i \in 1..Len(texts) : i # part => texts'[i] = texts[i]
      BY <1>0, <1>5, LenProperties
    <3>2. texts'[part] = Splice(texts[part], f, p) /\ Occurs(texts[part], f.match, f.at)
      BY <1>0 DEF t
    <3>3. V = Join(texts, Scanned) \/ SplicedIn(Join(texts, Scanned), p, V)
      BY <1>0, <3>1, <3>2, JoinSplice, Zenon
    <3> QED
      BY <3>3 DEF UserText
  <2>3. U \in Seq(T)
    BY <1>0, JoinTyped DEF UserText
  <2> HIDE DEF U, V
  <2>4. ASSUME NEW r \in OfClass(cfg.actions, "reject"), Clean(U, r)
        PROVE  Clean(V, r)
    <3>1. CASE V = U
      BY <2>4, <3>1
    <3>2. CASE SplicedIn(U, p, V)
      <4>1. PICK g \in Place : Occurs(U, g.match, g.at) /\ V = Splice(U, g, p)
        BY <3>2, Zenon DEF SplicedIn
      <4>2. r \in DOMAIN Rules /\ Inert(p, r)
        BY <1>2, <1>7
      <4>3. Clean(Splice(U, g, p), r)
        BY <1>0, <2>3, <2>4, <4>1, <4>2, SpliceClean
      <4> QED
        BY <4>1, <4>3
    <3> QED
      BY <2>2, <3>1, <3>2
  <2>5. OfClass(cfg.actions, "reject")' = OfClass(cfg.actions, "reject")
    BY <1>1 DEF OfClass
  <2>6. cfg.pii => \A r \in OfClass(cfg.actions, "reject") : Clean(U, r)
    BY <1>1, <1>3 DEF Unrejected, U
  <2> QED
    BY <1>1, <2>1, <2>4, <2>5, <2>6 DEF Unrejected
<1> QED
  BY <1>11, <1>13, <1>14, <1>15 DEF RedactedInv

LEMMA RedactedStep ==
  ASSUME Nat \ {0} \subseteq DOMAIN Numerals, PlaceholdersInert
  PROVE  RedactedInv /\ BlockInv /\ OffsetsInv /\ VaultInv /\ [Next]_vars => RedactedInv'
<1> SUFFICES ASSUME RedactedInv, BlockInv, OffsetsInv, VaultInv, [Next]_vars
             PROVE  RedactedInv'
  OBVIOUS
<1>0. Cursor /\ Behind /\ Masked /\ Unrejected /\ Course
  BY DEF RedactedInv, BlockInv
<1>r. rule \in Nat \ {0} /\ MaskRules \subseteq DOMAIN Rules /\ DOMAIN Rules = 1..Len(Rules)
      /\ Len(Rules) \in Nat
  BY <1>0, RulesAssumption, LenProperties DEF Cursor, MaskRules, OfClass
<1>t. DOMAIN texts = 1..Len(texts) /\ Len(texts) \in Nat /\ part \in Nat \ {0}
  BY LenProperties DEF OffsetsInv
<1>1. CASE CheckInput
  <2>1. /\ phase = "check" /\ UNCHANGED <<cfg, req, texts, part, rule, todo>>
        /\ \/ phase' = "done"
           \/ phase' = "reject"
           \/ phase' = "spotlight" /\ ~cfg.pii
    BY <1>1, Zenon DEF CheckInput, Refuse, inputVars, redactVars
  <2>2. MaskRules' = MaskRules
    BY <2>1 DEF MaskRules, OfClass
  <2> QED
    BY <1>0, <2>1, <2>2 DEF RedactedInv, Cursor, Behind, Masked, Unrejected, Late, Phases
<1>2. CASE CheckReject
  <2>1. /\ phase = "reject" /\ UNCHANGED <<cfg, req, texts, part, rule, todo>>
        /\ \/ phase' = "done"
           \/ /\ phase' = "redact"
              /\ ~HasPii(UserText, OfClass(cfg.actions, "reject"))
    BY <1>2, Zenon DEF CheckReject, Refuse, inputVars, redactVars
  <2>2. CASE phase' = "done"
    BY <2>1, <2>2, RedactedLate
  <2>3. CASE phase' = "redact" /\ ~HasPii(UserText, OfClass(cfg.actions, "reject"))
    <3>1. part = 1 /\ rule = 1 /\ todo = <<>>
      BY <1>0, <2>1 DEF Cursor
    <3>2. MaskRules' = MaskRules /\ UserText' = UserText
      BY <2>1, UserTextKept DEF MaskRules, OfClass
    <3>3. Behind'
      <4>1. \A i \in DOMAIN texts, r \in MaskRules : ~(i < part) /\ ~(r < rule)
        BY <1>r, <1>t, <3>1
      <4> QED
        BY <2>1, <3>1, <3>2, <4>1 DEF Behind
    <3>4. Unrejected'
      <4>1. \A r \in OfClass(cfg.actions, "reject") : Clean(UserText, r)
        BY <2>3 DEF HasPii, Clean
      <4>2. OfClass(cfg.actions, "reject")' = OfClass(cfg.actions, "reject")
        BY <2>1 DEF OfClass
      <4> QED
        BY <2>1, <3>2, <4>1, <4>2 DEF Unrejected
    <3>5. Cursor' /\ Masked'
      BY <1>0, <2>1, <2>3, <3>1, <3>2 DEF Cursor, Masked, Late
    <3> QED
      BY <3>3, <3>4, <3>5 DEF RedactedInv
  <2> QED
    BY <2>1, <2>2, <2>3
<1>3. CASE RedactDone
  <2>1. /\ phase = "redact" /\ phase' = "spotlight"
        /\ UNCHANGED <<cfg, req, texts, part, rule, todo>>
        /\ part > Len(texts) \/ MaskRules = {}
    BY <1>3, Zenon DEF RedactDone, inputVars, redactVars
  <2>2. MaskRules' = MaskRules /\ UserText' = UserText
    BY <2>1, UserTextKept DEF MaskRules, OfClass
  <2>3. \A i \in DOMAIN texts, r \in MaskRules : Redactable(i) => Clean(texts[i], r)
    <3>1. \A i \in DOMAIN texts, r \in MaskRules : i < part
      BY <1>t, <2>1
    <3> QED
      BY <1>0, <2>1, <3>1 DEF Behind
  <2>4. Masked'
    <3>1. ASSUME NEW i
          PROVE  Redactable(i)' = Redactable(i)
      BY <2>1 DEF Redactable
    <3> QED
      BY <2>1, <2>2, <2>3, <3>1 DEF Masked
  <2>5. Unrejected'
    BY <1>0, <2>1, <2>2 DEF Unrejected
  <2>6. Cursor' /\ Behind'
    BY <1>0, <2>1, <2>2 DEF Cursor, Behind
  <2> QED
    BY <2>4, <2>5, <2>6 DEF RedactedInv
<1>4. CASE NextText
  <2>1. /\ phase = "redact" /\ phase' = phase /\ todo = <<>> /\ todo' = todo
        /\ UNCHANGED <<cfg, req, texts>> /\ part' = part + 1 /\ rule' = 1
        /\ ~Redactable(part) \/ rule > Len(Rules)
    BY <1>4, Zenon DEF NextText, inputVars
  <2>2. MaskRules' = MaskRules /\ UserText' = UserText
    BY <2>1, UserTextKept DEF MaskRules, OfClass
  <2>3. ASSUME NEW i \in DOMAIN texts, NEW r \in MaskRules, Redactable(i),
               i < part' \/ (i = part' /\ r < rule')
        PROVE  Clean(texts[i], r)
    <3>1. i \in Nat /\ r \in 1..Len(Rules)
      BY <1>r, <1>t
    <3>2. i < part \/ i = part
      BY <1>t, <2>1, <2>3, <3>1
    <3>3. i = part => r < rule
      BY <1>r, <2>1, <2>3, <3>1
    <3> QED
      BY <1>0, <2>1, <2>3, <3>2, <3>3 DEF Behind
  <2>4. Behind'
    <3>1. ASSUME NEW i
          PROVE  Redactable(i)' = Redactable(i)
      BY <2>1 DEF Redactable
    <3> QED
      BY <2>1, <2>2, <2>3, <3>1 DEF Behind
  <2>5. Cursor' /\ Masked' /\ Unrejected'
    BY <1>0, <2>1, <2>2 DEF Cursor, Masked, Unrejected, Late
  <2> QED
    BY <2>4, <2>5 DEF RedactedInv
<1>5. CASE ScanRule
  BY <1>5, RedactedScan
<1>6. CASE ReplaceMatch
  BY <1>0, <1>6, RedactedReplace
<1>7. CASE Spotlight \/ Reply
  <2>1. /\ phase \in {"spotlight", "sent"} /\ phase' \in {"sent", Stages[1]}
        /\ UNCHANGED <<cfg, req, texts, part, rule, todo>>
    BY <1>7, Zenon DEF Spotlight, Reply, inputVars, redactVars
  <2>2. Stages[1] \in Late
    BY StagesTyped, 1 \in 1..4 DEF Late
  <2>3. "spotlight" \in Late /\ "sent" \in Late
    BY DEF Late, Phases
  <2> QED
    BY <2>1, <2>2, <2>3, RedactedLate
<1>8. CASE FilterAnswer \/ RestoreDone \/ GateCalls \/ CheckSchema
  <2>1. /\ phase \in {"filter", "restore", "gate", "schema"}
        /\ Advance \/ phase' = "done"
        /\ UNCHANGED <<cfg, req, texts, part, rule, todo>>
    BY <1>8, Zenon DEF FilterAnswer, RestoreDone, GateCalls, CheckSchema, Refuse, inputVars, redactVars
  <2>2. phase' \in Late \cup {"done"}
    BY <2>1, AdvanceSteps DEF Late
  <2>3. phase \in Late
    BY <2>1 DEF Late, Phases
  <2> QED
    BY <2>1, <2>2, <2>3, RedactedLate
<1>9. ASSUME NEW token \in left, RestoreEntry(token)
      PROVE  RedactedInv'
  <2>1. phase' = phase /\ UNCHANGED <<cfg, req, texts, part, rule, todo>>
    BY <1>9, Zenon DEF RestoreEntry, inputVars, redactVars
  <2> QED
    BY <2>1, RedactedLate
<1>10. CASE UNCHANGED vars
  <2>1. phase' = phase /\ UNCHANGED <<cfg, req, texts, part, rule, todo>>
    BY <1>10 DEF vars
  <2> QED
    BY <2>1, RedactedLate
<1> QED
  BY <1>1, <1>2, <1>3, <1>4, <1>5, <1>6, <1>7, <1>8, <1>9, <1>10 DEF Next

\* What is clean text by text holds, once joined, only matches over a space.
LEMMA ContentClean ==
  ASSUME BlockInv, OffsetsInv, NEW i \in DOMAIN texts, Redactable(i), NEW r \in MaskRules,
         \A j \in DOMAIN texts, q \in MaskRules : Redactable(j) => Clean(texts[j], q),
         NEW f \in Matches(Content(i), r), Space \notin Range(f.match)
  PROVE  FALSE
<1>1. PICK S : texts \in Seq(Seq(S))
  BY DEF OffsetsInv
<1> DEFINE T == S \cup {Space}  m == f.match  M == Message(i)
<1>2. texts \in Seq(Seq(T)) /\ Space \in T /\ DOMAIN texts = 1..Len(texts)
  <2>1. S \subseteq T /\ Space \in T
    OBVIOUS
  <2> HIDE DEF T
  <2> QED
    BY <1>1, <2>1, TextsWiden, LenProperties
<1>3. M \subseteq Nat /\ \A j \in M : Redactable(j)
  <2>1. req \in Request
    BY InputTyped DEF BlockInv, Course
  <2>2. DOMAIN req.texts \subseteq Nat
    BY <2>1, LenProperties DEF Request
  <2> QED
    BY <1>2, <2>2 DEF Message, Redactable
<1>4. /\ r \in DOMAIN Rules /\ m \in Rules[r].matches /\ m \in Seq(Atoms) /\ m # <<>>
      /\ f.at \in Nat /\ Occurs(Join(texts, M), m, f.at)
  <2>1. r \in DOMAIN Rules
    BY DEF MaskRules, OfClass
  <2>2. /\ m \in Rules[r].matches /\ f.at \in 1..Len(Content(i))
        /\ Occurs(Content(i), m, f.at)
    BY DEF Matches, Found
  <2>3. m \in Seq(Atoms) /\ m # <<>>
    BY <2>1, <2>2, RuleTyped, RulesAssumption
  <2> QED
    BY <2>1, <2>2, <2>3 DEF Content
<1> HIDE DEF T, m, M
<1>5. ASSUME NEW j \in 1..Len(texts), j \in M, NEW k \in Nat, Occurs(texts[j], m, k)
      PROVE  FALSE
  <2>1. texts[j] \in Seq(S) /\ Clean(texts[j], r)
    BY <1>1, <1>2, <1>3, <1>5, ElementOfSeq
  <2>2. [at |-> k, match |-> m] \in Matches(texts[j], r)
    BY <1>4, <1>5, <2>1, OccurrenceMatches
  <2> QED
    BY <2>1, <2>2 DEF Clean
<1>6. \A k \in Nat : ~Occurs(Join(texts, M), m, k)
  <2>1. \A j \in 1..Len(texts) : j \in M => \A k \in Nat : ~Occurs(texts[j], m, k)
    BY <1>5
  <2>2. Space \notin Range(m)
    BY DEF m
  <2> QED
    BY <1>2, <1>3, <1>4, <2>1, <2>2, JoinClean, Zenon
<1> QED
  BY <1>4, <1>6

\* NothingPersonalSent for every rule set, every prompt, every order of the
\* rules and both endpoints, as long as the numerals do not run out and no
\* rule finds a match in a placeholder that comes after its turn (the default
\* patterns need more than the name of an entity and an index).  Strings, parts
\* and blocks are redacted one by one: each holds no match of a masked entity
\* when the request is sent, and the blocks of /v1/messages, joined after that,
\* hold one only if it reaches over a space.  What the scan looked at holds no
\* match of a rejected entity, whatever the placeholders put in it.
THEOREM NothingPersonalLeaves ==
  ASSUME Nat \ {0} \subseteq DOMAIN Numerals, PlaceholdersInert
  PROVE  Spec => []NothingPersonalSent
<1> DEFINE Inv == RedactedInv /\ BlockInv /\ OffsetsInv /\ VaultInv
<1>1. Init => Inv
  BY RedactedInit, BlockInit, OffsetsInit, VaultInit
<1>2. Inv /\ [Next]_vars => Inv'
  BY RedactedStep, BlockStep, OffsetsStep, VaultStep
<1>3. Inv => NothingPersonalSent
  <2> SUFFICES ASSUME Inv, cfg.pii, phase \in Underway
               PROVE  /\ \A i \in DOMAIN texts : req.texts[i].form # "system" =>
                           /\ ~HasPii(texts[i], MaskRules)
                           /\ \A r \in MaskRules : \A f \in Matches(Content(i), r) :
                                Space \in Range(f.match)
                      /\ ~HasPii(UserText, OfClass(cfg.actions, "reject"))
    BY DEF NothingPersonalSent
  <2>0. Masked /\ Unrejected
    BY DEF RedactedInv
  <2>1. phase \in Late
    <3>1. "sent" \in Late
      BY DEF Late, Phases
    <3>2. \A k \in DOMAIN Stages : Stages[k] \in Late
      BY StagesTyped DEF Late
    <3> QED
      BY <3>1, <3>2 DEF Range, Underway
  <2>2. \A i \in DOMAIN texts, r \in MaskRules : Redactable(i) => Clean(texts[i], r)
    BY <2>0, <2>1 DEF Masked
  <2>3. ASSUME NEW i \in DOMAIN texts, Redactable(i), NEW r \in MaskRules,
               NEW f \in Matches(Content(i), r), Space \notin Range(f.match)
        PROVE  FALSE
    BY <2>2, <2>3, ContentClean
  <2> QED
    BY <2>0, <2>1, <2>2, <2>3 DEF Unrejected, Redactable, HasPii, Clean
<1> QED
  BY <1>1, <1>2, <1>3, PTL DEF Spec

-----------------------------------------------------------------------------
(* What the tool gate lets pass                                            *)

SpliceIn(p, t, f) == Splice(t, f, p)
MaskIn(c, t, r) == MaskRule(t, r)

Splices == INSTANCE Folding WITH Op <- SpliceIn
Maskings == INSTANCE Folding WITH Op <- MaskIn

LEMMA SplicesFold ==
  ASSUME NEW p, NEW t, NEW q
  PROVE  FoldLeft(LAMBDA u, f : Splice(u, f, p), t, q) = Splices!Fold(p, t, q)
BY DEF FoldLeft, MapThenFoldSet, Max, SpliceIn,
       Splices!Fold, Splices!FoldLeft, Splices!MapThenFoldSet, Splices!Max

LEMMA MasksFold ==
  ASSUME NEW n \in Nat, DOMAIN Rules = 1..n, NEW t
  PROVE  MaskText(t) = Maskings!Fold(0, t, [r \in 1..n |-> r])
BY DEF MaskText, FoldLeftDomain, FoldLeft, MapThenFoldSet, Max, MaskIn,
       Maskings!Fold, Maskings!FoldLeft, Maskings!MapThenFoldSet, Maskings!Max

\* Replacing every match of a rule, the last first, leaves none, and lets in
\* none of another rule for which the placeholder is inert.
LEMMA AllReplaced ==
  ASSUME NEW S, NEW t \in Seq(S), NEW p \in Seq(S), NEW r \in DOMAIN Rules, Inert(p, r),
         NEW O \in SUBSET DOMAIN Rules, \A o \in O : Inert(p, o) /\ Clean(t, o),
         NEW u, u = Splices!Fold(p, t, Reverse(InOrder(Matches(t, r))))
  PROVE  u \in Seq(S) /\ Clean(u, r) /\ \A o \in O : Clean(u, o)
<1> DEFINE s == InOrder(Matches(t, r))  n == Len(s)  q == Reverse(s)
<1>1. Fits(s, t) /\ \A f \in Matches(t, r) : \E k \in 1..n : f = s[k]
  BY ScanFits
<1>2. n \in Nat /\ s \in Seq(Place) /\ \A k \in 1..n : s[k] \in Place
  BY <1>1, LenProperties, ElementOfSeq DEF Fits
<1>3. Waiting(s, n, t, r)
  BY <1>1, <1>2 DEF Waiting, Fits
<1>4. DOMAIN q = 1..n /\ \A k \in 1..n : q[k] = s[n - k + 1]
  BY <1>2 DEF Reverse
<1>5. u = Splices!Fold(p, t, q)
  OBVIOUS
<1> HIDE DEF s, n, q
<1>6. PICK h : Splices!Course(p, t, q, n, h) /\ Splices!Fold(p, t, q) = h[n]
  <2>1. n \in Nat /\ DOMAIN q = 1..n
    BY <1>2, <1>4
  <2> QED
    BY <2>1, Splices!FoldRuns
<1>7. h[0] = t /\ \A k \in 1..n : h[k] = Splice(h[k - 1], q[k], p)
  BY <1>6 DEF Splices!Course, SpliceIn
<1> DEFINE G == {k \in 0..n : /\ h[k] \in Seq(S)
                              /\ Waiting(s, n - k, h[k], r)
                              /\ \A o \in O : Clean(h[k], o)}
<1>8. 0 \in G
  <2>1. 0 \in 0..n /\ n - 0 = n
    BY <1>2
  <2> QED
    BY <1>3, <1>7, <2>1
<1>9. ASSUME NEW k \in 0..n - 1, k \in G
      PROVE  k + 1 \in G
  <2> DEFINE v == h[k]  j == n - k
  <2>1. v \in Seq(S) /\ Waiting(s, j, v, r) /\ \A o \in O : Clean(v, o)
    BY <1>9
  <2>2. j \in Nat \ {0} /\ k + 1 \in 1..n /\ n - (k + 1) = j - 1 /\ n - (k + 1) + 1 = j
        /\ j \in 1..j /\ (k + 1) - 1 = k /\ k + 1 \in 0..n
    BY <1>2
  <2>3. h[k + 1] = Splice(v, s[j], p)
    BY <1>4, <1>7, <2>2
  <2> HIDE DEF v, j
  <2>4. s[j] \in Place /\ Occurs(v, s[j].match, s[j].at)
    BY <2>1, <2>2 DEF Waiting
  <2>5. Splice(v, s[j], p) \in Seq(S)
    BY <2>1, <2>4, SpliceAt
  <2>6. Waiting(s, j - 1, Splice(v, s[j], p), r)
    BY <2>1, <2>2, LastReplaced
  <2>7. ASSUME NEW o \in O
        PROVE  Clean(Splice(v, s[j], p), o)
    <3>1. o \in DOMAIN Rules /\ Inert(p, o) /\ Clean(v, o)
      BY <2>1
    <3> QED
      BY <2>1, <2>4, <3>1, SpliceClean
  <2> QED
    BY <2>2, <2>3, <2>5, <2>6, <2>7
<1> HIDE DEF G
<1>10. \A k \in 0..n : k \in G
  BY <1>2, <1>8, <1>9, InductUpTo
<1>11. /\ h[n] \in Seq(S) /\ Waiting(s, n - n, h[n], r)
       /\ \A o \in O : Clean(h[n], o)
  <2>1. n \in 0..n
    BY <1>2
  <2> QED
    BY <1>10, <2>1 DEF G
<1>12. Clean(h[n], r)
  <2>1. 1..n - n = {}
    BY <1>2
  <2> QED
    BY <1>11, <2>1 DEF Waiting, Clean
<1> QED
  BY <1>5, <1>6, <1>11, <1>12

\* The classes of the gate.
GateMasks == OfClass(cfg.gateActions, "mask")
GateRejects == OfClass(cfg.gateActions, "reject")

LEMMA EntityTyped ==
  ASSUME NEW r \in DOMAIN Rules
  PROVE  Rules[r].entity \in Atoms
<1>1. Rules \in Seq([entity : Atoms, matches : SUBSET Seq(Atoms)]) /\ r \in 1..Len(Rules)
  BY RulesAssumption, LenProperties
<1>2. Rules[r] \in [entity : Atoms, matches : SUBSET Seq(Atoms)]
  BY <1>1, ElementOfSeq
<1> QED
  BY <1>2

\* A rule of the gate takes its matches out, and lets none in of an entity
\* that rejects or of a rule that has had its turn.
LEMMA MaskRuleCleans ==
  ASSUME GateInert, 1 \in DOMAIN Numerals, [cfg |-> cfg, req |-> req] \in Inputs,
         NEW t \in Seq(Atoms), NEW r \in DOMAIN Rules
  PROVE  /\ MaskRule(t, r) \in Seq(Atoms)
         /\ r \in GateMasks => Clean(MaskRule(t, r), r)
         /\ \A o \in GateRejects \cup GateMasks :
              Clean(t, o) /\ (o \in GateMasks => o <= r) => Clean(MaskRule(t, r), o)
<1> DEFINE p == <<Open, Rules[r].entity, Close>>
           O == {o \in GateRejects \cup GateMasks : Clean(t, o) /\ (o \in GateMasks => o <= r)}
<1>1. CASE r \notin GateMasks
  BY <1>1 DEF MaskRule, GateMasks
<1>2. CASE r \in GateMasks
  <2>1. InertUnder(cfg.gateActions)
    <3>1. [cfg |-> cfg, req |-> req].cfg.gateActions = cfg.gateActions
      OBVIOUS
    <3> QED
      BY <3>1 DEF GateInert
  <2>2. p \in Seq(Atoms)
    <3>1. Open \in Atoms /\ Close \in Atoms /\ Rules[r].entity \in Atoms
      BY AtomsAssumption, EntityTyped
    <3> QED
      BY <3>1
  <2>3. GateMasks \subseteq DOMAIN Rules /\ GateRejects \subseteq DOMAIN Rules
    BY DEF GateMasks, GateRejects, OfClass
  <2>4. r <= r
    BY RulesAssumption, LenProperties
  <2>5. ASSUME NEW o \in DOMAIN Rules, o \in GateRejects \/ (o \in GateMasks /\ o <= r)
        PROVE  Inert(p, o)
    <3>1. p \in {<<Open, Rules[r].entity, Close>>, Token(Rules[r].entity, Numerals[1])}
      OBVIOUS
    <3> HIDE DEF p
    <3> QED
      BY <1>2, <2>1, <2>5, <3>1, BracketsInert DEF GateMasks, GateRejects
  <2>6. Inert(p, r)
    BY <1>2, <2>4, <2>5
  <2>7. MaskRule(t, r) = Splices!Fold(p, t, Reverse(InOrder(Matches(t, r))))
    BY <1>2, SplicesFold DEF MaskRule, GateMasks
  <2>8. O \in SUBSET DOMAIN Rules /\ \A o \in O : Inert(p, o) /\ Clean(t, o)
    BY <2>3, <2>5
  <2> HIDE DEF p, O
  <2>9. /\ MaskRule(t, r) \in Seq(Atoms) /\ Clean(MaskRule(t, r), r)
        /\ \A o \in O : Clean(MaskRule(t, r), o)
    BY <2>2, <2>6, <2>7, <2>8, AllReplaced
  <2> QED
    BY <2>9 DEF O
<1> QED
  BY <1>1, <1>2

\* What the gate makes of a string has nothing that it masks, and nothing that
\* it rejects that was not there before.
LEMMA MaskTextCleans ==
  ASSUME GateInert, 1 \in DOMAIN Numerals, [cfg |-> cfg, req |-> req] \in Inputs,
         NEW t \in Seq(Atoms)
  PROVE  /\ MaskText(t) \in Seq(Atoms)
         /\ \A o \in GateMasks : Clean(MaskText(t), o)
         /\ \A o \in GateRejects : Clean(t, o) => Clean(MaskText(t), o)
<1> DEFINE n == Len(Rules)  q == [r \in 1..n |-> r]  R == {o \in GateRejects : Clean(t, o)}
<1>1. n \in Nat /\ DOMAIN Rules = 1..n
  BY RulesAssumption, LenProperties
<1>2. MaskText(t) = Maskings!Fold(0, t, q)
  BY <1>1, MasksFold
<1>3. DOMAIN q = 1..n /\ \A k \in 1..n : q[k] = k
  OBVIOUS
<1>r. R \subseteq GateRejects /\ \A o \in R : Clean(t, o)
  OBVIOUS
<1> HIDE DEF n, q, R
<1>4. PICK h : Maskings!Course(0, t, q, n, h) /\ Maskings!Fold(0, t, q) = h[n]
  BY <1>1, <1>3, Maskings!FoldRuns
<1>5. h[0] = t /\ \A k \in 1..n : h[k] = MaskRule(h[k - 1], k)
  BY <1>3, <1>4 DEF Maskings!Course, MaskIn
<1>6. GateMasks \subseteq 1..n /\ GateRejects \subseteq 1..n /\ GateMasks \cap GateRejects = {}
  BY <1>1 DEF GateMasks, GateRejects, OfClass
<1> DEFINE G == {k \in 0..n : /\ h[k] \in Seq(Atoms)
                              /\ \A o \in R : Clean(h[k], o)
                              /\ \A o \in GateMasks : o <= k => Clean(h[k], o)}
<1>7. 0 \in G
  <2>1. 0 \in 0..n /\ \A o \in GateMasks : ~(o <= 0)
    BY <1>1, <1>6
  <2> QED
    BY <1>5, <1>r, <2>1
<1>8. ASSUME NEW k \in 0..n - 1, k \in G
      PROVE  k + 1 \in G
  <2> DEFINE v == h[k]  r == k + 1
  <2>1. /\ v \in Seq(Atoms) /\ \A o \in R : Clean(v, o)
        /\ \A o \in GateMasks : o <= k => Clean(v, o)
    BY <1>8
  <2>2. r \in 1..n /\ r - 1 = k /\ r \in DOMAIN Rules /\ r \in 0..n
    BY <1>1
  <2>3. h[r] = MaskRule(v, r)
    BY <1>5, <2>2
  <2>4. \A o \in GateMasks : o <= r => o <= k \/ o = r
    BY <1>6
  <2> HIDE DEF v, r
  <2>5. /\ MaskRule(v, r) \in Seq(Atoms)
        /\ r \in GateMasks => Clean(MaskRule(v, r), r)
        /\ \A o \in GateRejects \cup GateMasks :
             Clean(v, o) /\ (o \in GateMasks => o <= r) => Clean(MaskRule(v, r), o)
    BY <2>1, <2>2, MaskRuleCleans
  <2>6. \A o \in R : Clean(MaskRule(v, r), o)
    BY <1>6, <1>r, <2>1, <2>5
  <2>7. \A o \in GateMasks : o <= r => Clean(MaskRule(v, r), o)
    BY <2>1, <2>4, <2>5
  <2>8. r \in G
    BY <2>2, <2>3, <2>5, <2>6, <2>7
  <2> QED
    BY <2>8 DEF r
<1> HIDE DEF G
<1>9. \A k \in 0..n : k \in G
  BY <1>1, <1>7, <1>8, InductUpTo
<1>10. n \in 0..n /\ \A o \in GateMasks : o <= n
  BY <1>1, <1>6
<1> QED
  BY <1>2, <1>4, <1>9, <1>10 DEF G, R

Leaf == [str : BOOLEAN, raw : Seq(Atoms), text : Seq(Atoms)]

\* What the gate lets pass: the name, and the strings.
Vetted(c) ==
  /\ c.name \notin DeniedNames
  /\ \A l \in Range(c.args) : l.str => ~HasPii(l.raw, GateMasks)

\* Nothing that the gate rejects is in it.
Admitted(c) == \A l \in Range(c.args) : ~HasPii(l.raw, GateRejects)

\* It was written without escapes.
Literal(c) == \A l \in Range(c.args) : l.raw = l.text

\* The stages after the gate, and those up to it.
Gated == IF req.endpoint = "chat" THEN {"schema"} ELSE {"schema", "filter", "restore"}
Ungated == {"filter", "restore", "gate"} \ Gated

\* Up to the gate the calls are those of the reply; behind it, and once the
\* answer is out, every call is vetted.
GatedInv ==
  /\ calls \in Seq(Call)
  /\ phase \in Ungated => calls = reply.calls
  /\ cfg.gate /\ (phase \in Gated \/ result = "answered") =>
       \A k \in DOMAIN calls : Vetted(calls[k]) /\ (Unescaped => Admitted(calls[k]))

\* The stages before the gate lead to it, those behind it to the answer.
LEMMA AdvanceOrder ==
  ASSUME Advance, phase \in {"filter", "restore", "gate", "schema"}, req' = req
  PROVE  phase \notin Gated \cup {"gate"} => phase' \notin Gated' /\ result' = result
<1> DEFINE n == CHOOSE k \in DOMAIN Stages : Stages[k] = phase
<1>1. CASE req.endpoint = "chat" /\ phase \in {"filter", "restore"}
  <2>1. /\ DOMAIN Stages = 1..4 /\ Len(Stages) = 4 /\ Stages[1] = "filter"
        /\ Stages[2] = "restore" /\ Stages[3] = "gate" /\ Stages[4] = "schema"
    BY <1>1 DEF Stages
  <2>2. \E k \in DOMAIN Stages : Stages[k] = phase
    BY <1>1, <2>1
  <2>3. n \in 1..4 /\ Stages[n] = phase
    BY <2>1, <2>2
  <2>4. IF n = Len(Stages) THEN phase' = "done" /\ result' = "answered"
        ELSE phase' = Stages[n + 1] /\ result' = result
    BY DEF Advance
  <2> HIDE DEF n
  <2>5. n \in {1, 2}
    BY <1>1, <2>1, <2>3
  <2>6. phase' \in {"restore", "gate"} /\ result' = result
    BY <2>1, <2>4, <2>5
  <2> QED
    BY <1>1, <2>6 DEF Gated
<1>2. CASE ~(req.endpoint = "chat" /\ phase \in {"filter", "restore"})
  BY <1>2 DEF Gated
<1> QED
  BY <1>1, <1>2

\* From the gate on no stage is one before the gate.
LEMMA AdvanceOnward ==
  ASSUME Advance, phase \in Gated \cup {"gate"}, req' = req
  PROVE  phase' \notin Ungated'
<1> DEFINE n == CHOOSE k \in DOMAIN Stages : Stages[k] = phase
<1>0. phase \in {"filter", "restore", "gate", "schema"} /\ Gated' = Gated /\ Ungated' = Ungated
  BY DEF Gated, Ungated
<1>1. CASE req.endpoint = "chat"
  <2>1. /\ DOMAIN Stages = 1..4 /\ Len(Stages) = 4 /\ Stages[1] = "filter"
        /\ Stages[2] = "restore" /\ Stages[3] = "gate" /\ Stages[4] = "schema"
    BY <1>1 DEF Stages
  <2>2. \E k \in DOMAIN Stages : Stages[k] = phase
    BY <1>0, <2>1
  <2>3. n \in 1..4 /\ Stages[n] = phase
    BY <2>1, <2>2
  <2>4. IF n = Len(Stages) THEN phase' = "done" /\ result' = "answered"
        ELSE phase' = Stages[n + 1] /\ result' = result
    BY DEF Advance
  <2>5. phase \in {"gate", "schema"}
    BY <1>1 DEF Gated
  <2> HIDE DEF n
  <2>6. n \in {3, 4}
    BY <2>1, <2>3, <2>5
  <2>7. phase' \in {"schema", "done"}
    BY <2>1, <2>4, <2>6
  <2> QED
    BY <1>0, <2>7 DEF Ungated
<1>2. CASE req.endpoint # "chat"
  <2>1. /\ DOMAIN Stages = 1..4 /\ Len(Stages) = 4 /\ Stages[1] = "gate"
        /\ Stages[2] = "schema" /\ Stages[3] = "filter" /\ Stages[4] = "restore"
    BY <1>2 DEF Stages
  <2>2. \E k \in DOMAIN Stages : Stages[k] = phase
    BY <1>0, <2>1
  <2>3. n \in 1..4 /\ Stages[n] = phase
    BY <2>1, <2>2
  <2>4. IF n = Len(Stages) THEN phase' = "done" /\ result' = "answered"
        ELSE phase' = Stages[n + 1] /\ result' = result
    BY DEF Advance
  <2> HIDE DEF n
  <2>5. phase' \in {"schema", "filter", "restore", "done"}
    BY <2>1, <2>3, <2>4
  <2> QED
    BY <1>0, <1>2, <2>5 DEF Ungated, Gated
<1> QED
  BY <1>1, <1>2

\* A leaf that the gate rewrites.
LEMMA LeafVets ==
  ASSUME GateInert, 1 \in DOMAIN Numerals, Course, NEW l \in Leaf
  PROVE  /\ MaskLeaf(l) \in Leaf
         /\ MaskLeaf(l).str => ~HasPii(MaskLeaf(l).raw, GateMasks)
         /\ ~HasPii(l.text, GateRejects) => ~HasPii(MaskLeaf(l).raw, GateRejects)
<1> DEFINE t == IF l.str THEN MaskText(l.text) ELSE l.text
<1>1. l.text \in Seq(Atoms) /\ l.str \in BOOLEAN
  BY DEF Leaf
<1>2. /\ MaskText(l.text) \in Seq(Atoms)
      /\ \A o \in GateMasks : Clean(MaskText(l.text), o)
      /\ \A o \in GateRejects : Clean(l.text, o) => Clean(MaskText(l.text), o)
  BY <1>1, MaskTextCleans DEF Course
<1>3. MaskLeaf(l) = [str |-> l.str, raw |-> t, text |-> t]
  BY DEF MaskLeaf
<1>4. t \in Seq(Atoms) /\ (l.str => \A o \in GateMasks : Clean(t, o))
      /\ \A o \in GateRejects : Clean(l.text, o) => Clean(t, o)
  BY <1>1, <1>2
<1> HIDE DEF t
<1>5. MaskLeaf(l).str = l.str /\ MaskLeaf(l).raw = t
  BY <1>3
<1>6. MaskLeaf(l) \in Leaf
  BY <1>1, <1>3, <1>4 DEF Leaf
<1> QED
  BY <1>4, <1>5, <1>6 DEF HasPii, Clean

\* A call that is not denied is vetted once its arguments are masked, and if it
\* has no escapes has nothing left that is rejected.
LEMMA GateVets ==
  ASSUME GateInert, 1 \in DOMAIN Numerals, Course, NEW c \in Call, ~DeniesCall(c),
         NEW d, d = [name |-> c.name, args |-> MaskArgs(c.args)]
  PROVE  d \in Call /\ Vetted(d) /\ (Literal(c) => Admitted(d))
<1> DEFINE a == c.args  n == Len(a)  b == MaskArgs(a)
<1>1. a \in Seq(Leaf) /\ c.name \in STRING
  BY DEF Call, Leaf
<1>2. n \in Nat /\ DOMAIN a = 1..n /\ \A k \in 1..n : a[k] \in Leaf
  BY <1>1, LenProperties, ElementOfSeq
<1>3. c.name \notin DeniedNames /\ \A l \in Range(a) : ~HasPii(l.raw, GateRejects)
  BY DEF DeniesCall, GateRejects
<1>4. d.name = c.name /\ d.args = b
  OBVIOUS
<1>5. \A k \in 1..n : a[k] \in Range(a)
  BY <1>2 DEF Range
<1>6. CASE ~\E l \in Range(a) : HasPii(l.raw, GateMasks)
  <2>1. b = a
    BY <1>6 DEF MaskArgs, GateMasks
  <2>2. d \in Call
    BY <1>1, <1>4, <2>1 DEF Call, Leaf
  <2> QED
    BY <1>3, <1>4, <1>6, <2>1, <2>2 DEF Vetted, Admitted
<1>7. CASE \E l \in Range(a) : HasPii(l.raw, GateMasks)
  <2>1. b = [k \in 1..n |-> MaskLeaf(a[k])]
    BY <1>2, <1>7 DEF MaskArgs, GateMasks
  <2> HIDE DEF b, n
  <2>2. ASSUME NEW k \in 1..n
        PROVE  /\ MaskLeaf(a[k]) \in Leaf
               /\ MaskLeaf(a[k]).str => ~HasPii(MaskLeaf(a[k]).raw, GateMasks)
               /\ ~HasPii(a[k].text, GateRejects) => ~HasPii(MaskLeaf(a[k]).raw, GateRejects)
    BY <1>2, LeafVets
  <2>3. b \in [1..n -> Leaf]
    BY <2>1, <2>2
  <2>4. b \in Seq(Leaf) /\ Range(b) = {b[k] : k \in 1..n}
    BY <1>2, <2>3, SeqDef DEF Range
  <2>5. d \in Call
    <3>1. [name |-> c.name, args |-> b] \in [name : STRING, args : Seq(Leaf)]
      BY <1>1, <2>4
    <3>2. Call = [name : STRING, args : Seq(Leaf)]
      BY DEF Call, Leaf
    <3> QED
      BY <3>1, <3>2 DEF b
  <2>6. ASSUME NEW l \in Range(b)
        PROVE  /\ l.str => ~HasPii(l.raw, GateMasks)
               /\ Literal(c) => ~HasPii(l.raw, GateRejects)
    <3>1. PICK k \in 1..n : l = MaskLeaf(a[k])
      BY <2>1, <2>4, <2>6
    <3>2. Literal(c) => ~HasPii(a[k].text, GateRejects)
      BY <1>3, <1>5 DEF Literal
    <3> QED
      BY <2>2, <3>1, <3>2
  <2> QED
    BY <1>3, <1>4, <2>5, <2>6 DEF Vetted, Admitted
<1> QED
  BY <1>6, <1>7

\* What is asked of a call is asked of it by the configuration.
LEMMA VettedKept ==
  ASSUME UNCHANGED <<cfg, reply>>
  PROVE  (Unescaped' <=> Unescaped) /\ \A c : (Vetted(c) => Vetted(c)') /\ (Admitted(c) => Admitted(c)')
BY DEF Unescaped, Vetted, Admitted, GateMasks, GateRejects, HasPii, OfClass

LEMMA GatedGate ==
  ASSUME GateInert, 1 \in DOMAIN Numerals, Course, GatedInv, GateCalls
  PROVE  GatedInv'
<1> DEFINE V == {c \in Call : Vetted(c) /\ (Unescaped => Admitted(c))}
           one(k) == IF DeniesCall(calls[k]) THEN <<>>
                     ELSE <<[name |-> calls[k].name, args |-> MaskArgs(calls[k].args)]>>
           s == [k \in DOMAIN calls |-> one(k)]
<1>0. calls \in Seq(Call) /\ Len(calls) \in Nat /\ DOMAIN calls = 1..Len(calls)
  BY LenProperties DEF GatedInv
<1>1. /\ UNCHANGED <<cfg, req, reply>> /\ phase = "gate" /\ Advance
      /\ (cfg.gate => calls' = FlattenSeq(s)) /\ (~cfg.gate => calls' = calls)
  BY Zenon DEF GateCalls, inputVars
<1>p. phase' \notin Ungated'
  BY <1>1, AdvanceOnward
<1>c. calls = reply.calls
  BY <1>1 DEF GatedInv, Ungated, Gated
<1>2. CASE ~cfg.gate
  BY <1>0, <1>1, <1>2, <1>p DEF GatedInv
<1>3. CASE cfg.gate
  <2>1. ASSUME NEW k \in 1..Len(calls)
        PROVE  one(k) \in Seq(V)
    <3>1. calls[k] \in Call
      BY <1>0, ElementOfSeq
    <3>2. CASE DeniesCall(calls[k])
      BY <3>2, EmptySeq
    <3>3. CASE ~DeniesCall(calls[k])
      <4> DEFINE d == [name |-> calls[k].name, args |-> MaskArgs(calls[k].args)]
      <4>1. d \in Call /\ Vetted(d) /\ (Literal(calls[k]) => Admitted(d))
        BY <3>1, <3>3, GateVets
      <4>2. Unescaped => Literal(calls[k])
        BY <1>0, <1>c DEF Unescaped, Literal
      <4>3. one(k) = <<d>>
        BY <3>3
      <4>4. d \in V
        BY <4>1, <4>2
      <4> HIDE DEF one, d, V
      <4> QED
        BY <4>3, <4>4
    <3> QED
      BY <3>2, <3>3
  <2> HIDE DEF one, V
  <2>2. s \in [1..Len(calls) -> Seq(V)]
    BY <1>0, <2>1
  <2>3. s \in Seq(Seq(V))
    BY <1>0, <2>2, SeqDef
  <2> HIDE DEF s
  <2>4. calls' \in Seq(V)
    BY <1>1, <1>3, <2>3, FlattenTyped
  <2>5. calls' \in Seq(Call)
    <3>1. V \subseteq Call
      BY DEF V
    <3> QED
      BY <2>4, <3>1, SeqMonotonic
  <2>6. ASSUME NEW k \in DOMAIN calls'
        PROVE  Vetted(calls'[k]) /\ (Unescaped => Admitted(calls'[k]))
    <3>1. calls'[k] \in V
      BY <2>4, <2>6, LenProperties, ElementOfSeq
    <3> QED
      BY <3>1 DEF V
  <2>7. (Unescaped' <=> Unescaped) /\ \A c : (Vetted(c) => Vetted(c)') /\ (Admitted(c) => Admitted(c)')
    BY <1>1, VettedKept
  <2> QED
    BY <1>p, <2>5, <2>6, <2>7 DEF GatedInv
<1> QED
  BY <1>2, <1>3

\* The calls stay as they are, and the gate is not passed by.
LEMMA GatedKept ==
  ASSUME GatedInv, UNCHANGED <<cfg, calls, reply>>,
         phase' \in Gated' \/ result' = "answered" => phase \in Gated \/ result = "answered",
         phase' \in Ungated' => phase \in Ungated
  PROVE  GatedInv'
<1>1. (Unescaped' <=> Unescaped) /\ \A c : (Vetted(c) => Vetted(c)') /\ (Admitted(c) => Admitted(c)')
  BY VettedKept
<1> QED
  BY <1>1 DEF GatedInv

LEMMA GatedStep ==
  ASSUME GateInert, 1 \in DOMAIN Numerals
  PROVE  BlockInv /\ GatedInv /\ [Next]_vars => GatedInv'
<1> SUFFICES ASSUME BlockInv, GatedInv, [Next]_vars
             PROVE  GatedInv'
  OBVIOUS
<1>0. Course
  BY DEF BlockInv
<1>1. CASE \/ CheckInput \/ CheckReject \/ RedactDone \/ NextText \/ ScanRule \/ ReplaceMatch
           \/ Spotlight
  <2>1. /\ UNCHANGED <<cfg, req, calls, reply>>
        /\ phase \in {"check", "reject", "redact", "spotlight"}
        /\ phase' \in {"done", "reject", "redact", "spotlight", "sent"}
        /\ result' \in {result, "blocked"}
    BY <1>1, Zenon DEF CheckInput, CheckReject, RedactDone, NextText, ScanRule, ReplaceMatch,
       Spotlight, Refuse, inputVars, answerVars
  <2>2. result # "answered"
    BY <1>0, <2>1 DEF Course
  <2>3. phase' \notin Gated' \cup Ungated'
    BY <2>1 DEF Gated, Ungated
  <2> QED
    BY <2>1, <2>2, <2>3, GatedKept
<1>2. CASE Reply
  <2>1. /\ UNCHANGED <<cfg, req>> /\ result' = result /\ phase = "sent"
        /\ phase' = Stages[1] /\ calls' \in CallSets /\ reply'.calls = calls'
    <3>1. PICK x \in Sayings, c \in CallSets, b \in BOOLEAN :
            reply' = [first |-> b, text |-> x, calls |-> c] /\ calls' = c
      BY <1>2, Zenon DEF Reply
    <3>2. reply'.calls = c
      BY <3>1
    <3> QED
      BY <1>2, <3>1, <3>2, Zenon DEF Reply, inputVars
  <2>2. phase' \notin Gated'
    BY <2>1 DEF Stages, Gated
  <2>3. result' # "answered"
    BY <1>0, <2>1 DEF Course
  <2>4. calls' \in Seq(Call)
    BY <2>1, ConstantsAssumption
  <2> QED
    BY <2>1, <2>2, <2>3, <2>4 DEF GatedInv
<1>3. CASE FilterAnswer \/ RestoreDone
  <2>1. UNCHANGED <<cfg, req, calls, reply>> /\ phase \in {"filter", "restore"} /\ Advance
    BY <1>3, Zenon DEF FilterAnswer, RestoreDone, inputVars, answerVars
  <2>2. phase \in {"filter", "restore", "gate", "schema"} /\ phase # "gate"
    BY <2>1
  <2>3. result # "answered"
    BY <1>0, <2>1 DEF Course
  <2>4. phase \notin Gated => phase' \notin Gated' /\ result' = result
    BY <2>1, <2>2, AdvanceOrder
  <2>5. phase' \in Ungated' => phase \in Ungated
    BY <2>1, AdvanceOnward DEF Ungated
  <2> QED
    BY <2>1, <2>3, <2>4, <2>5, GatedKept
<1>4. CASE CheckSchema
  <2>1. UNCHANGED <<cfg, req, calls, reply>> /\ phase = "schema" /\ (phase' = "done" \/ Advance)
    BY <1>4, Zenon DEF CheckSchema, Refuse, inputVars
  <2>2. phase \in Gated
    BY <2>1 DEF Gated
  <2>3. phase' \notin Ungated'
    <3>1. "done" \notin Ungated'
      BY DEF Ungated
    <3> QED
      BY <2>1, <2>2, <3>1, AdvanceOnward
  <2> QED
    BY <2>1, <2>2, <2>3, GatedKept
<1>5. ASSUME NEW token \in left, RestoreEntry(token)
      PROVE  GatedInv'
  <2>1. UNCHANGED <<cfg, req, calls, reply, phase, result>>
    BY <1>5, Zenon DEF RestoreEntry, inputVars
  <2>2. Gated' = Gated /\ Ungated' = Ungated
    BY <2>1 DEF Gated, Ungated
  <2> QED
    BY <2>1, <2>2, GatedKept
<1>6. CASE GateCalls
  BY <1>0, <1>6, GatedGate
<1>7. CASE UNCHANGED vars
  <2>1. UNCHANGED <<cfg, req, calls, reply, phase, result>>
    BY <1>7 DEF vars
  <2>2. Gated' = Gated /\ Ungated' = Ungated
    BY <2>1 DEF Gated, Ungated
  <2> QED
    BY <2>1, <2>2, GatedKept
<1> QED
  BY <1>1, <1>2, <1>3, <1>4, <1>5, <1>6, <1>7 DEF Next

\* AnswerVetted for every rule set, any number of tool calls with any arguments
\* and both handlers, as long as no rule of the gate finds a match in a
\* placeholder that comes after its turn: no call that is delivered has a denied
\* name or a string with a match of a masked entity, nor, unless it came with
\* escapes, any leaf with a match of a rejected one; and what the chat handler
\* delivers in the first choice satisfies a schema that rejects.
THEOREM AnswerCorrect ==
  ASSUME Nat \ {0} \subseteq DOMAIN Numerals, GateInert
  PROVE  Spec => []AnswerVetted
<1> DEFINE Inv == BlockInv /\ GatedInv
<1>0. 1 \in DOMAIN Numerals
  OBVIOUS
<1>1. Init => GatedInv
  BY EmptySeq DEF Init, GatedInv, Gated, Ungated
<1>2. Inv /\ [Next]_vars => Inv'
  BY <1>0, BlockStep, GatedStep
<1>3. Inv => CallsVetted
  BY DEF GatedInv, Vetted, Admitted, CallsVetted, GateMasks, GateRejects
<1>4. Spec => []CallsVetted
  BY <1>1, <1>2, <1>3, BlockInit, PTL DEF Spec
<1> QED
  BY <1>4, SchemaCorrect, PTL DEF AnswerVetted

-----------------------------------------------------------------------------
(* Types                                                                   *)

\* The output filter makes texts of texts.
LEMMA FilterTyped ==
  ASSUME NEW t \in Seq(Atoms)
  PROVE  FilterOutput(t) \in Seq(Atoms)
<1>1. Len(t) \in Nat /\ DOMAIN t = 1..Len(t) /\ \A i \in 1..Len(t) : t[i] \in Atoms
  BY LenProperties, ElementOfSeq
<1>2. Stars \in Atoms
  BY AtomsAssumption
<1>3. FilterOutput(t) = [i \in 1..Len(t) |-> IF Masks(t, i) THEN Stars ELSE t[i]]
  BY <1>1, Zenon DEF FilterOutput
<1>4. \A i \in 1..Len(t) : (IF Masks(t, i) THEN Stars ELSE t[i]) \in Atoms
  BY <1>1, <1>2
<1>5. FilterOutput(t) \in [1..Len(t) -> Atoms]
  BY <1>3, <1>4
<1> QED
  BY <1>1, <1>5, SeqDef

\* The texts of the request, the cursor of the redactor, the vault and the
\* answer.
PromptTypes ==
  /\ texts \in Seq(Seq(Atoms)) /\ Len(texts) = Len(req.texts)
  /\ marked \subseteq DOMAIN texts
  /\ part \in 1..Len(texts) + 1 /\ rule \in 1..Len(Rules) + 1
  /\ todo # <<>> => phase = "redact" /\ part <= Len(texts) /\ rule \in MaskRules

AnswerTypes ==
  /\ DOMAIN entries \subseteq Seq(Atoms)
  /\ \A token \in DOMAIN entries : entries[token] \in Seq(Atoms)
  /\ text \in Seq(Atoms) /\ reply.text \in Seq(Atoms)
  /\ left \subseteq DOMAIN entries

TypesInv == PromptTypes /\ AnswerTypes

LEMMA PromptTyped ==
  ASSUME req \in Request
  PROVE  Prompt \in Seq(Seq(Atoms)) /\ Len(Prompt) = Len(req.texts)
<1> DEFINE R == [msg : Nat, role : STRING, form : {"string", "part", "system"}, text : Seq(Atoms)]
           n == Len(req.texts)
<1>2. req.texts \in Seq(R)
  BY DEF Request
<1>3. n \in Nat /\ DOMAIN req.texts = 1..n /\ \A i \in 1..n : req.texts[i] \in R
  <2> HIDE DEF R
  <2> QED
    BY <1>2, LenProperties, ElementOfSeq
<1>4. Prompt = [i \in 1..n |-> req.texts[i].text]
  BY <1>3 DEF Prompt
<1>5. Prompt \in [1..n -> Seq(Atoms)]
  BY <1>3, <1>4
<1>6. n \in Nat
  BY <1>3
<1> HIDE DEF n
<1>7. Prompt \in Seq(Seq(Atoms))
  BY <1>5, <1>6, SeqDef
<1>8. DOMAIN Prompt = 1..n /\ DOMAIN Prompt = 1..Len(Prompt) /\ Len(Prompt) \in Nat
  BY <1>5, <1>7, LenProperties
<1> QED
  BY <1>6, <1>7, <1>8 DEF n

LEMMA TypesInit == Init => TypesInv
<1> SUFFICES ASSUME Init
             PROVE  TypesInv
  OBVIOUS
<1>1. req \in Request
  BY BlockInit, InputTyped DEF BlockInv, Course
<1>6. texts \in Seq(Seq(Atoms)) /\ Len(texts) = Len(req.texts) /\ Len(texts) \in Nat
  <2>1. texts = Prompt
    BY DEF Init
  <2> QED
    BY <1>1, <2>1, PromptTyped, LenProperties
<1>7. /\ part = 1 /\ rule = 1 /\ todo = <<>> /\ marked = {} /\ left = {} /\ text = <<>>
      /\ DOMAIN entries = {} /\ reply.text = <<>>
  BY DEF Init, NoReply
<1>8. Len(Rules) \in Nat
  BY RulesAssumption, LenProperties
<1>9. PromptTypes
  BY <1>6, <1>7, <1>8 DEF PromptTypes
<1>10. AnswerTypes
  BY <1>7, EmptySeq DEF AnswerTypes
<1> QED
  BY <1>9, <1>10 DEF TypesInv

\* A placeholder that the redactor puts in is a text.
LEMMA PlaceholderIsText ==
  ASSUME NEW r \in DOMAIN Rules, NEW index \in DOMAIN Numerals
  PROVE  PlaceholderFor(Rules[r].entity, index) \in Seq(Atoms)
<1> DEFINE T == {Open, Rules[r].entity, Numerals[index], Close}
<1>1. PlaceholderFor(Rules[r].entity, index) \in Seq(T)
  BY PlaceholderTyped
<1>2. T \subseteq Atoms
  BY AtomsAssumption, ConstantsAssumption, EntityTyped DEF Range
<1> HIDE DEF T
<1> QED
  BY <1>1, <1>2, SeqMonotonic

LEMMA TypesReplace ==
  ASSUME Nat \ {0} \subseteq DOMAIN Numerals, TypesInv, OffsetsInv, VaultInv, ReplaceMatch
  PROVE  TypesInv'
<1> DEFINE n == Len(todo)  f == todo[n]  t == texts[part]
           entity == Rules[rule].entity
           value == TakeFrom(todo).head.match
           index == IndexFor(entity, value)
           token == PlaceholderFor(entity, index)
<1>0. PromptTypes /\ AnswerTypes
  BY DEF TypesInv
<1>1. /\ phase = "redact" /\ phase' = phase /\ todo # <<>>
      /\ UNCHANGED <<cfg, req, marked, part, text, reply, left>>
      /\ texts' = [texts EXCEPT ![part] = Splice(@, TakeFrom(todo).head, token)]
      /\ entries' = IF cfg.reversible THEN OrInsert(entries, token, value) ELSE entries
      /\ todo' = TakeFrom(todo).rest
      /\ rule' = IF TakeFrom(todo).rest = <<>> THEN rule + 1 ELSE rule
  BY Zenon DEF ReplaceMatch, inputVars, answerVars
<1>2. TakeFrom(todo).head = f
  BY DEF TakeFrom
<1>3. part \in 1..Len(texts) /\ Fits(todo, t)
  BY <1>1 DEF OffsetsInv
<1>4. todo \in Seq(Place) /\ n \in Nat \ {0}
  BY <1>1, <1>3, EmptySeq DEF Fits
<1>5. f \in Place /\ Occurs(t, f.match, f.at) /\ value = f.match
  <2>1. n \in 1..n
    BY <1>4
  <2> QED
    BY <1>2, <1>3, <1>4, <2>1, ElementOfSeq DEF Fits
<1>6. rule \in DOMAIN Rules
  BY <1>1 DEF VaultInv, VaultTypes
<1>7. token \in Seq(Atoms)
  <2>1. entity \in Entities
    BY <1>6 DEF Entities
  <2>2. next[entity] \in Nat /\ \A x \in DOMAIN seen : seen[x] \in Nat \ {0}
    BY <2>1 DEF VaultInv, VaultTypes
  <2>3. index \in Nat \ {0}
    <3> HIDE DEF entity, value
    <3> QED
      BY <2>2 DEF IndexFor
  <2>4. index \in DOMAIN Numerals
    BY <2>3
  <2> HIDE DEF index
  <2> QED
    BY <1>6, <2>4, PlaceholderIsText
<1>8. value \in Seq(Atoms)
  BY <1>5 DEF Place
<1>9. t \in Seq(Atoms) /\ texts \in Seq(Seq(Atoms)) /\ Len(texts) \in Nat
  BY <1>0, <1>3, ElementOfSeq, LenProperties DEF PromptTypes
<1> HIDE DEF f, t, n, token, value, index, entity
<1>10. Splice(t, f, token) \in Seq(Atoms)
  BY <1>5, <1>7, <1>9, SpliceAt
<1>11. texts' = [texts EXCEPT ![part] = Splice(t, f, token)]
  BY <1>1, <1>2 DEF t
<1>12. texts' \in Seq(Seq(Atoms)) /\ Len(texts') = Len(texts) /\ DOMAIN texts' = DOMAIN texts
  <2>1. texts' \in Seq(Seq(Atoms)) /\ Len(texts') = Len(texts)
    BY <1>3, <1>9, <1>10, <1>11, ExceptSeq
  <2> QED
    BY <1>9, <2>1, LenProperties
<1>13. PromptTypes'
  <2>1. MaskRules' = MaskRules /\ rule \in MaskRules
    BY <1>0, <1>1 DEF MaskRules, OfClass, PromptTypes
  <2>2. rule \in 1..Len(Rules) /\ Len(Rules) \in Nat
    BY <1>6, RulesAssumption, LenProperties
  <2>3. rule' \in 1..Len(Rules) + 1 /\ (todo' # <<>> => rule' = rule)
    BY <1>1, <2>2
  <2> QED
    BY <1>0, <1>1, <1>12, <2>1, <2>3 DEF PromptTypes
<1>14. AnswerTypes'
  <2>1. CASE ~cfg.reversible
    BY <1>0, <1>1, <2>1 DEF AnswerTypes
  <2>2. CASE cfg.reversible
    <3>1. entries' = OrInsert(entries, token, value)
      BY <1>1, <2>2
    <3>2. /\ DOMAIN entries' = DOMAIN entries \cup {token}
          /\ \A x \in DOMAIN entries \cup {token} :
               entries'[x] = IF x \in DOMAIN entries THEN entries[x] ELSE value
      BY <3>1 DEF OrInsert
    <3>3. \A x \in DOMAIN entries' : x \in Seq(Atoms) /\ entries'[x] \in Seq(Atoms)
      BY <1>0, <1>7, <1>8, <3>2 DEF AnswerTypes
    <3> QED
      BY <1>0, <1>1, <3>2, <3>3 DEF AnswerTypes
  <2> QED
    BY <2>1, <2>2
<1> QED
  BY <1>13, <1>14 DEF TypesInv

\* What is sent are texts.
LEMMA SpaceTyped == Space \in Atoms /\ Newline \in Atoms
BY ConstantsAssumption DEF Blanks

LEMMA ContentTyped ==
  ASSUME PromptTypes, NEW i
  PROVE  Content(i) \in Seq(Atoms)
BY SpaceTyped, JoinTyped DEF PromptTypes, Content

LEMMA SentTyped ==
  ASSUME PromptTypes, BlockInv
  PROVE  Sent \subseteq Seq(Atoms)
<1>1. cfg.rider \in Seq(Atoms)
  BY InputTyped DEF BlockInv, Course, Config
<1>2. Riders \subseteq Seq(Atoms)
  BY <1>1 DEF Riders
<1>3. ASSUME NEW i
      PROVE  WithRider(i) \in Seq(Atoms)
  <2> DEFINE c == Content(i)  n == <<Newline, Newline>>
  <2>1. c \in Seq(Atoms)
    BY ContentTyped
  <2>2. n \in Seq(Atoms)
    BY SpaceTyped
  <2>3. WithRider(i) \in {c, (c \o n) \o cfg.rider}
    BY DEF WithRider
  <2> HIDE DEF c, n
  <2>4. c \o n \in Seq(Atoms)
    BY <2>1, <2>2, ConcatProperties
  <2>5. (c \o n) \o cfg.rider \in Seq(Atoms)
    BY <1>1, <2>4, ConcatProperties
  <2> QED
    BY <2>1, <2>3, <2>5
<1> QED
  BY <1>2, <1>3 DEF Sent

LEMMA SayingTyped ==
  ASSUME TypesInv, BlockInv, NEW s \in Sayings
  PROVE  s \in Seq(Atoms)
<1>0. PromptTypes /\ AnswerTypes
  BY DEF TypesInv
<1> DEFINE W == Sent \cup DOMAIN entries \cup Phrases
           said(f, w) == f.before \o w \o f.after
<1>w. Sayings = {said(f, w) : f \in Frames, w \in W}
  BY DEF Sayings
<1> HIDE DEF W, said
<1>p. PICK f \in Frames, u \in W : s = said(f, u)
  BY <1>w
<1>1. s = f.before \o u \o f.after
  BY <1>p DEF said
<1>2. f.before \in Seq(Atoms) /\ f.after \in Seq(Atoms)
  BY ConstantsAssumption
<1>3. u \in Seq(Atoms)
  BY <1>0, SentTyped, ConstantsAssumption DEF AnswerTypes, W
<1>4. f.before \o u \in Seq(Atoms)
  BY <1>2, <1>3, ConcatProperties
<1>5. (f.before \o u) \o f.after \in Seq(Atoms)
  BY <1>2, <1>4, ConcatProperties
<1> QED
  BY <1>1, <1>5

LEMMA TypesStep ==
  ASSUME Nat \ {0} \subseteq DOMAIN Numerals
  PROVE  TypesInv /\ BlockInv /\ OffsetsInv /\ VaultInv /\ [Next]_vars => TypesInv'
<1> SUFFICES ASSUME TypesInv, BlockInv, OffsetsInv, VaultInv, [Next]_vars
             PROVE  TypesInv'
  OBVIOUS
<1>0. PromptTypes /\ AnswerTypes
  BY DEF TypesInv
<1>t. /\ DOMAIN texts = 1..Len(texts) /\ Len(texts) \in Nat /\ Len(Rules) \in Nat
      /\ DOMAIN Rules = 1..Len(Rules)
  BY <1>0, LenProperties, RulesAssumption DEF PromptTypes
<1>k. ASSUME UNCHANGED <<cfg, req, texts, marked, part, rule, todo>>, todo = <<>> \/ phase' = phase
      PROVE  PromptTypes'
  <2>1. MaskRules' = MaskRules
    BY <1>k DEF MaskRules, OfClass
  <2> QED
    BY <1>0, <1>k, <2>1 DEF PromptTypes
<1>q. phase # "redact" => todo = <<>>
  BY <1>0 DEF PromptTypes
<1>a. ASSUME UNCHANGED <<entries, text, reply, left>>
      PROVE  AnswerTypes'
  BY <1>0, <1>a DEF AnswerTypes
<1>1. CASE CheckInput \/ CheckReject
  <2>1. /\ UNCHANGED <<cfg, req, texts, marked, part, rule, todo, entries, text, reply, left>>
        /\ phase \in {"check", "reject"}
    BY <1>1, Zenon DEF CheckInput, CheckReject, inputVars, redactVars, answerVars
  <2>2. phase # "redact"
    BY <2>1
  <2> QED
    BY <1>k, <1>q, <1>a, <2>1, <2>2 DEF TypesInv
<1>2. CASE RedactDone
  <2>1. /\ UNCHANGED <<cfg, req, texts, marked, part, rule, todo, entries, text, reply, left>>
        /\ part > Len(texts) \/ MaskRules = {}
    BY <1>2, Zenon DEF RedactDone, inputVars, redactVars, answerVars
  <2>2. todo = <<>>
    BY <1>0, <1>t, <2>1 DEF PromptTypes
  <2> QED
    BY <1>k, <1>a, <2>1, <2>2 DEF TypesInv
<1>3. CASE NextText
  <2>1. /\ UNCHANGED <<cfg, req, texts, marked, todo, entries, text, reply, left>>
        /\ todo = <<>> /\ part <= Len(texts) /\ part' = part + 1 /\ rule' = 1
    BY <1>3, Zenon DEF NextText, inputVars, answerVars
  <2>2. PromptTypes'
    BY <1>0, <1>t, <2>1 DEF PromptTypes
  <2> QED
    BY <1>a, <2>1, <2>2 DEF TypesInv
<1>4. CASE ScanRule
  <2>1. /\ UNCHANGED <<cfg, req, phase, texts, marked, part, entries, text, reply, left>>
        /\ phase = "redact" /\ part <= Len(texts) /\ rule <= Len(Rules)
        /\ rule' = IF todo' = <<>> THEN rule + 1 ELSE rule
        /\ rule \notin MaskRules => todo' = <<>>
    BY <1>4, Zenon DEF ScanRule, inputVars, answerVars
  <2>2. MaskRules' = MaskRules
    BY <2>1 DEF MaskRules, OfClass
  <2>3. PromptTypes'
    BY <1>0, <1>t, <2>1, <2>2 DEF PromptTypes
  <2> QED
    BY <1>a, <2>1, <2>3 DEF TypesInv
<1>5. CASE ReplaceMatch
  BY <1>5, TypesReplace
<1>6. CASE Spotlight
  <2>1. /\ UNCHANGED <<cfg, req, texts, part, rule, todo, entries, text, reply, left>>
        /\ phase = "spotlight" /\ marked' \subseteq DOMAIN texts
    BY <1>6, Zenon DEF Spotlight, inputVars, redactVars, answerVars
  <2>2. todo = <<>>
    BY <1>q, <2>1
  <2>3. PromptTypes'
    BY <1>0, <2>1, <2>2 DEF PromptTypes
  <2> QED
    BY <1>a, <2>1, <2>3 DEF TypesInv
<1>7. CASE Reply
  <2>1. /\ UNCHANGED <<cfg, req, texts, marked, part, rule, todo, entries>> /\ phase = "sent"
        /\ left' \in {DOMAIN entries, {}}
    BY <1>7, Zenon DEF Reply, inputVars, redactVars
  <2>2. PICK s \in Sayings, c \in CallSets, b \in BOOLEAN :
          reply' = [first |-> b, text |-> s, calls |-> c] /\ text' = s
    BY <1>7, Zenon DEF Reply
  <2>3. s \in Seq(Atoms)
    BY SayingTyped
  <2>4. reply'.text = s
    BY <2>2
  <2>5. PromptTypes'
    BY <1>k, <1>q, <2>1
  <2>6. AnswerTypes'
    BY <1>0, <2>1, <2>2, <2>3, <2>4 DEF AnswerTypes
  <2> QED
    BY <2>5, <2>6 DEF TypesInv
<1>8. CASE FilterAnswer \/ CheckSchema
  <2>1. /\ UNCHANGED <<cfg, req, texts, marked, part, rule, todo, entries, reply, left>>
        /\ phase \in {"filter", "schema"}
        /\ \/ text' \in {text, FilterOutput(text)}
           \/ \E json \in DOMAIN Conforming : text' = Conforming[json]
    BY <1>8, Zenon DEF FilterAnswer, CheckSchema, inputVars, redactVars
  <2>2. text' \in Seq(Atoms)
    BY <1>0, <2>1, FilterTyped, ConstantsAssumption DEF AnswerTypes
  <2>3. phase # "redact"
    BY <2>1
  <2>4. AnswerTypes'
    BY <1>0, <2>1, <2>2 DEF AnswerTypes
  <2> QED
    BY <1>k, <1>q, <2>1, <2>3, <2>4 DEF TypesInv
<1>9. ASSUME NEW token \in left, RestoreEntry(token)
      PROVE  TypesInv'
  <2>1. /\ UNCHANGED <<cfg, req, phase, texts, marked, part, rule, todo, entries, reply>>
        /\ text' = Replace(text, token, entries[token]) /\ left' = left \ {token}
    BY <1>9, Zenon DEF RestoreEntry, inputVars, redactVars
  <2>2. text' \in Seq(Atoms)
    BY <1>0, <2>1, ReplaceTyped DEF AnswerTypes
  <2>3. AnswerTypes'
    BY <1>0, <2>1, <2>2 DEF AnswerTypes
  <2> QED
    BY <1>k, <2>1, <2>3 DEF TypesInv
<1>10. CASE RestoreDone \/ GateCalls
  <2>1. /\ UNCHANGED <<cfg, req, texts, marked, part, rule, todo, entries, text, reply, left>>
        /\ phase \in {"restore", "gate"}
    BY <1>10, Zenon DEF RestoreDone, GateCalls, inputVars, redactVars, answerVars
  <2>2. phase # "redact"
    BY <2>1
  <2> QED
    BY <1>k, <1>q, <1>a, <2>1, <2>2 DEF TypesInv
<1>11. CASE UNCHANGED vars
  BY <1>k, <1>a, <1>11 DEF TypesInv, vars
<1> QED
  BY <1>1, <1>2, <1>3, <1>4, <1>5, <1>6, <1>7, <1>8, <1>9, <1>10, <1>11 DEF Next

\* TypeOK for every rule set, prompt and answer, as long as the numerals do
\* not run out: the cursor of the redactor stays in range, what waits to be
\* replaced belongs to a rule that masks, and restoration looks for entries
\* of the vault only.
THEOREM TypesCorrect ==
  ASSUME Nat \ {0} \subseteq DOMAIN Numerals
  PROVE  Spec => []TypeOK
<1> DEFINE Inv == TypesInv /\ BlockInv /\ OffsetsInv /\ VaultInv
<1>1. Init => Inv
  BY TypesInit, BlockInit, OffsetsInit, VaultInit
<1>2. Inv /\ [Next]_vars => Inv'
  BY TypesStep, BlockStep, OffsetsStep, VaultStep
<1>3. Inv => TypeOK
  BY DEF TypesInv, PromptTypes, AnswerTypes, BlockInv, Course, VaultInv, VaultTypes, TypeOK
<1> QED
  BY <1>1, <1>2, <1>3, PTL DEF Spec

-----------------------------------------------------------------------------
(* The round trip: what a text with placeholders spells                    *)

\* Atoms that are no bracket.
Plain == Atoms \ {Open, Close}

\* A text spells another if both are made of the same plain atoms, and of
\* placeholders in the one where the other has their values: the least set of
\* such pairs.
ClosedUnder(Q, E, w) ==
  /\ <<<<>>, <<>>>> \in Q
  /\ \A t, o \in Seq(Atoms) : <<t, o>> \in Q =>
       /\ \A a \in Plain : <<t \o <<a>>, o \o <<a>>>> \in Q
       /\ \A k \in E : <<t \o k, o \o w[k]>> \in Q

Spells(t, o, E, w) ==
  t \in Seq(Atoms) /\ o \in Seq(Atoms) /\ \A Q : ClosedUnder(Q, E, w) => <<t, o>> \in Q

\* Placeholders and their values.
Vocabulary(E, w) ==
  \A k \in E :
    /\ k \in Seq(Atoms) /\ Len(k) = 4
    /\ k[1] = Open /\ k[2] \in Plain /\ k[3] \in Plain /\ k[4] = Close
    /\ w[k] \in Seq(Plain) /\ \A i \in 1..Len(w[k]) : w[k][i] \notin Keyworded

\* What holds of nothing and goes on with each atom and placeholder holds of
\* every spelling.
LEMMA SpellsInduct ==
  ASSUME NEW E, NEW w, NEW t, NEW o, Spells(t, o, E, w), NEW Q, ClosedUnder(Q, E, w)
  PROVE  <<t, o>> \in Q
BY Zenon DEF Spells

\* Plain texts are texts.
LEMMA PlainText ==
  /\ Plain \subseteq Atoms /\ Seq(Plain) \subseteq Seq(Atoms)
  /\ \A a \in Atoms : <<a>> \in Seq(Atoms) /\ Len(<<a>>) = 1 /\ <<a>>[1] = a
  /\ \A a \in Plain : <<a>> \in Seq(Atoms) /\ a # Open /\ a # Close
<1>1. Plain \subseteq Atoms
  BY DEF Plain
<1>2. Seq(Plain) \subseteq Seq(Atoms)
  BY <1>1, SeqMonotonic
<1>3. \A a \in Atoms : <<a>> \in Seq(Atoms) /\ Len(<<a>>) = 1 /\ <<a>>[1] = a
  OBVIOUS
<1> QED
  BY <1>1, <1>2, <1>3 DEF Plain

\* Concatenation is associative.
LEMMA TextAssoc == \A p, q, r \in Seq(Atoms) : Assoc(p, q, r)
BY ConcatAssoc, Zenon

\* Nothing spells nothing; a spelling goes on with an atom or a placeholder.
LEMMA SpellsNothing ==
  ASSUME NEW E, NEW w
  PROVE  Spells(<<>>, <<>>, E, w)
<1>1. <<>> \in Seq(Atoms)
  BY EmptySeq
<1> QED
  BY <1>1, Zenon DEF Spells, ClosedUnder

LEMMA SpellsAtom ==
  ASSUME NEW E, NEW w, NEW t, NEW o, Spells(t, o, E, w), NEW a \in Plain
  PROVE  Spells(t \o <<a>>, o \o <<a>>, E, w)
<1>1. t \in Seq(Atoms) /\ o \in Seq(Atoms) /\ <<a>> \in Seq(Atoms)
  BY PlainText, Zenon DEF Spells
<1>2. t \o <<a>> \in Seq(Atoms) /\ o \o <<a>> \in Seq(Atoms)
  BY <1>1, ConcatProperties
<1>3. ASSUME NEW Q, ClosedUnder(Q, E, w)
      PROVE  <<t \o <<a>>, o \o <<a>>>> \in Q
  <2>1. <<t, o>> \in Q
    BY <1>3, Zenon DEF Spells
  <2> QED
    BY <1>1, <1>3, <2>1, Zenon DEF ClosedUnder
<1> QED
  BY <1>2, <1>3, Zenon DEF Spells

LEMMA SpellsToken ==
  ASSUME NEW E, NEW w, Vocabulary(E, w), NEW t, NEW o, Spells(t, o, E, w), NEW k \in E
  PROVE  Spells(t \o k, o \o w[k], E, w)
<1>1. t \in Seq(Atoms) /\ o \in Seq(Atoms) /\ k \in Seq(Atoms) /\ w[k] \in Seq(Atoms)
  BY PlainText DEF Spells, Vocabulary
<1>2. t \o k \in Seq(Atoms) /\ o \o w[k] \in Seq(Atoms)
  <2> DEFINE v == w[k]
  <2> HIDE DEF v
  <2>1. v \in Seq(Atoms)
    BY <1>1 DEF v
  <2>2. t \o k \in Seq(Atoms) /\ o \o v \in Seq(Atoms)
    BY <1>1, <2>1, ConcatProperties
  <2> QED
    BY <2>2 DEF v
<1>3. ASSUME NEW Q, ClosedUnder(Q, E, w)
      PROVE  <<t \o k, o \o w[k]>> \in Q
  <2>1. <<t, o>> \in Q
    BY <1>3, Zenon DEF Spells
  <2> QED
    BY <1>1, <1>3, <2>1, Zenon DEF ClosedUnder
<1> QED
  BY <1>2, <1>3, Zenon DEF Spells

\* More placeholders do no harm.
LEMMA SpellsMore ==
  ASSUME NEW E, NEW w, NEW F, NEW u, E \subseteq F, \A k \in E : u[k] = w[k],
         NEW t, NEW o, Spells(t, o, E, w)
  PROVE  Spells(t, o, F, u)
<1>1. ASSUME NEW Q, ClosedUnder(Q, F, u)
      PROVE  ClosedUnder(Q, E, w)
  <2>1. ASSUME NEW x \in Seq(Atoms), NEW y \in Seq(Atoms), <<x, y>> \in Q, NEW k \in E
        PROVE  <<x \o k, y \o w[k]>> \in Q
    <3>1. k \in F /\ u[k] = w[k]
      OBVIOUS
    <3>2. <<x \o k, y \o u[k]>> \in Q
      BY <1>1, <2>1, <3>1, Zenon DEF ClosedUnder
    <3> QED
      BY <3>1, <3>2, Zenon
  <2> QED
    BY <1>1, <2>1, Zenon DEF ClosedUnder
<1> QED
  BY <1>1, Zenon DEF Spells

\* Without placeholders a text spells itself.
LEMMA SpellsItself ==
  ASSUME NEW w, NEW t, NEW o, Spells(t, o, {}, w)
  PROVE  t = o
<1> DEFINE Q == {p \in Seq(Atoms) \X Seq(Atoms) : p[1] = p[2]}
<1>1. <<<<>>, <<>>>> \in Q
  BY EmptySeq
<1>2. ASSUME NEW x \in Seq(Atoms), NEW y \in Seq(Atoms), <<x, y>> \in Q, NEW a \in Plain
      PROVE  <<x \o <<a>>, y \o <<a>>>> \in Q
  <2>1. x = y /\ <<a>> \in Seq(Atoms)
    BY <1>2, PlainText
  <2>2. x \o <<a>> \in Seq(Atoms)
    BY <2>1, ConcatProperties
  <2> QED
    BY <2>1, <2>2
<1>3. ClosedUnder(Q, {}, w)
  <2> HIDE DEF Q
  <2> QED
    BY <1>1, <1>2 DEF ClosedUnder
<1>4. <<t, o>> \in Q
  <2> HIDE DEF Q
  <2> QED
    BY <1>3, SpellsInduct
<1> QED
  BY <1>4

\* Plain atoms spell themselves.
LEMMA SpellsPlain ==
  ASSUME NEW E, NEW w, NEW t, NEW o, Spells(t, o, E, w), NEW v \in Seq(Plain)
  PROVE  Spells(t \o v, o \o v, E, w)
<1> DEFINE n == Len(v)
           S == {k \in 0..n : Spells(t \o SubSeq(v, 1, k), o \o SubSeq(v, 1, k), E, w)}
<1>1. n \in Nat /\ t \in Seq(Atoms) /\ o \in Seq(Atoms) /\ v \in Seq(Atoms)
      /\ \A i \in 1..n : v[i] \in Plain
  BY LenProperties, ElementOfSeq, PlainText DEF Spells
<1>2. 0 \in S
  <2>1. SubSeq(v, 1, 0) = <<>>
    BY SubSeqEmpty
  <2>2. t \o <<>> = t /\ o \o <<>> = o
    BY <1>1, ConcatEmptySeq
  <2>3. Spells(t \o SubSeq(v, 1, 0), o \o SubSeq(v, 1, 0), E, w)
    BY <2>1, <2>2, Zenon
  <2> QED
    BY <1>1, <2>3
<1>3. ASSUME NEW k \in 0..n - 1, k \in S
      PROVE  k + 1 \in S
  <2> DEFINE u == SubSeq(v, 1, k)  a == v[k + 1]
  <2>1. k + 1 \in 1..n /\ k + 1 \in 0..n /\ (k + 1) - 1 = k
    BY <1>1
  <2>2. SubSeq(v, 1, k + 1) = u \o <<a>>
    <3>1. 1 \in 1..Len(v) /\ k + 1 \in 1..Len(v)
      BY <1>1, <2>1
    <3>2. SubSeq(v, 1, k + 1) = SubSeq(v, 1, (k + 1) - 1) \o <<v[k + 1]>>
      BY <1>1, <3>1, SubSeqRecursiveSecond
    <3> QED
      BY <2>1, <3>2
  <2>3. u \in Seq(Atoms)
    <3>1. \A i \in 1..k : v[i] \in Atoms
      BY <1>1, PlainText
    <3> QED
      BY <3>1, SubSeqProperties
  <2>4. a \in Plain /\ <<a>> \in Seq(Atoms)
    BY <1>1, <2>1, PlainText
  <2>5. Spells(t \o u, o \o u, E, w)
    BY <1>3
  <2> HIDE DEF u, a
  <2>6. Spells((t \o u) \o <<a>>, (o \o u) \o <<a>>, E, w)
    BY <2>4, <2>5, SpellsAtom
  <2>7. Assoc(t, u, <<a>>) /\ Assoc(o, u, <<a>>)
    BY <1>1, <2>3, <2>4, TextAssoc, Zenon
  <2>8. Spells(t \o (u \o <<a>>), o \o (u \o <<a>>), E, w)
    BY <2>6, <2>7, Zenon DEF Assoc
  <2> QED
    BY <2>1, <2>2, <2>8
<1>4. \A k \in 0..n : k \in S
  <2> HIDE DEF S
  <2> QED
    BY <1>1, <1>2, <1>3, InductUpTo
<1>5. n \in 0..n /\ SubSeq(v, 1, n) = v
  BY <1>1, SubSeqFull
<1> QED
  BY <1>4, <1>5

\* One after the other.
LEMMA SpellsJoin ==
  ASSUME NEW E, NEW w, Vocabulary(E, w), NEW x, NEW p, Spells(x, p, E, w),
         NEW y, NEW q, Spells(y, q, E, w)
  PROVE  Spells(x \o y, p \o q, E, w)
<1> DEFINE Q == {z \in Seq(Atoms) \X Seq(Atoms) : Spells(x \o z[1], p \o z[2], E, w)}
<1>0. x \in Seq(Atoms) /\ p \in Seq(Atoms)
  BY DEF Spells
<1>1. <<<<>>, <<>>>> \in Q
  <2>1. x \o <<>> = x /\ p \o <<>> = p /\ <<>> \in Seq(Atoms)
    BY <1>0, ConcatEmptySeq, EmptySeq
  <2> QED
    BY <2>1
<1>2. ASSUME NEW t \in Seq(Atoms), NEW o \in Seq(Atoms), <<t, o>> \in Q,
             NEW c \in Seq(Atoms), NEW v \in Seq(Atoms),
             Spells(x \o t, p \o o, E, w) => Spells((x \o t) \o c, (p \o o) \o v, E, w)
      PROVE  <<t \o c, o \o v>> \in Q
  <2>1. t \o c \in Seq(Atoms) /\ o \o v \in Seq(Atoms)
    BY ConcatProperties
  <2>2. Spells(x \o t, p \o o, E, w)
    BY <1>2
  <2>3. Assoc(x, t, c) /\ Assoc(p, o, v)
    BY <1>0, TextAssoc, Zenon
  <2>4. Spells(x \o (t \o c), p \o (o \o v), E, w)
    BY <1>2, <2>2, <2>3, Zenon DEF Assoc
  <2> QED
    BY <2>1, <2>4
<1>3. ASSUME NEW t \in Seq(Atoms), NEW o \in Seq(Atoms), <<t, o>> \in Q, NEW a \in Plain
      PROVE  <<t \o <<a>>, o \o <<a>>>> \in Q
  <2>1. <<a>> \in Seq(Atoms)
    BY PlainText
  <2> HIDE DEF Q
  <2>2. Spells(x \o t, p \o o, E, w) =>
          Spells((x \o t) \o <<a>>, (p \o o) \o <<a>>, E, w)
    BY SpellsAtom
  <2> QED
    BY <1>2, <1>3, <2>1, <2>2
<1>4. ASSUME NEW t \in Seq(Atoms), NEW o \in Seq(Atoms), <<t, o>> \in Q, NEW k \in E
      PROVE  <<t \o k, o \o w[k]>> \in Q
  <2>1. k \in Seq(Atoms) /\ w[k] \in Seq(Atoms)
    BY PlainText DEF Vocabulary
  <2> HIDE DEF Q
  <2>2. Spells(x \o t, p \o o, E, w) =>
          Spells((x \o t) \o k, (p \o o) \o w[k], E, w)
    BY SpellsToken
  <2> QED
    BY <1>2, <1>4, <2>1, <2>2
<1>5. ClosedUnder(Q, E, w)
  <2> HIDE DEF Q
  <2> QED
    BY <1>1, <1>3, <1>4 DEF ClosedUnder
<1>6. <<y, q>> \in Q
  <2> HIDE DEF Q
  <2> QED
    BY <1>5, SpellsInduct
<1> QED
  BY <1>6

-----------------------------------------------------------------------------
(* The round trip: ends of texts                                           *)

\* One atom more.
LEMMA AppendAt ==
  ASSUME NEW t \in Seq(Atoms), NEW a \in Atoms
  PROVE  /\ t \o <<a>> \in Seq(Atoms) /\ Len(t) \in Nat /\ Len(t \o <<a>>) = Len(t) + 1
         /\ \A i \in 1..Len(t) : (t \o <<a>>)[i] = t[i]
         /\ (t \o <<a>>)[Len(t) + 1] = a
<1> DEFINE c == <<a>>  n == Len(t)
<1>1. c \in Seq(Atoms) /\ Len(c) = 1 /\ c[1] = a /\ n \in Nat
  BY PlainText, LenProperties
<1> HIDE DEF c
<1>2. /\ t \o c \in Seq(Atoms) /\ Len(t \o c) = n + Len(c)
      /\ \A i \in 1..n + Len(c) : (t \o c)[i] = IF i <= n THEN t[i] ELSE c[i - n]
  BY <1>1, ConcatProperties
<1> HIDE DEF n
<1> DEFINE u == t \o c
<1>3. /\ u \in Seq(Atoms) /\ Len(u) = n + 1
      /\ \A i \in 1..n + 1 : u[i] = IF i <= n THEN t[i] ELSE c[i - n]
  BY <1>1, <1>2
<1> HIDE DEF u
<1>4. \A i \in 1..n : u[i] = t[i]
  BY <1>1, <1>3
<1>5. u[n + 1] = a
  <2>1. n + 1 \in 1..n + 1 /\ ~(n + 1 <= n) /\ (n + 1) - n = 1
    BY <1>1
  <2>2. u[n + 1] = c[(n + 1) - n]
    BY <1>3, <2>1, Zenon
  <2> QED
    BY <1>1, <2>1, <2>2
<1> QED
  BY <1>1, <1>3, <1>4, <1>5 DEF c, n, u

\* Two texts are equal if they end alike and are equal before.
LEMMA AppendEqual ==
  ASSUME NEW t \in Seq(Atoms), NEW a \in Atoms, NEW u \in Seq(Atoms), NEW b \in Atoms,
         t \o <<a>> = u \o <<b>>
  PROVE  t = u /\ a = b
<1>1. Append(t, a) = t \o <<a>> /\ Append(u, b) = u \o <<b>>
  BY AppendIsConcat
<1>2. Append(t, a) = Append(u, b)
  BY <1>1
<1> QED
  BY <1>2, AppendInjective

\* z is x and then y.
Cat(x, y, z) == z = x \o y

\* The same of a text taken apart in two ways.
LEMMA CatEqual ==
  \A t, u \in Seq(Atoms) : \A a, b \in Atoms : \A s :
    Cat(t, <<a>>, s) /\ Cat(u, <<b>>, s) => t = u /\ a = b
BY AppendEqual DEF Cat

\* A text is empty or has a last atom.
LEMMA LastAtom ==
  ASSUME NEW T, NEW t \in Seq(T), t # <<>>
  PROVE  \E u \in Seq(T), a \in T : Cat(u, <<a>>, t)
<1>1. PICK u \in Seq(T), a \in T : t = Append(u, a)
  BY SequenceEmptyOrAppend
<1>2. Append(u, a) = u \o <<a>>
  BY AppendIsConcat
<1> QED
  BY <1>1, <1>2 DEF Cat

\* The atoms of a text with a placeholder at its end.
LEMMA TokenAt ==
  ASSUME NEW t \in Seq(Atoms), NEW k \in Seq(Atoms), Len(k) = 4
  PROVE  /\ t \o k \in Seq(Atoms) /\ Len(t) \in Nat /\ Len(t \o k) = Len(t) + 4
         /\ \A i \in 1..Len(t) + 4 : (t \o k)[i] = IF i <= Len(t) THEN t[i] ELSE k[i - Len(t)]
<1> DEFINE z == t \o k
<1>1. /\ z \in Seq(Atoms) /\ Len(z) = Len(t) + Len(k)
      /\ \A i \in 1..Len(t) + Len(k) : z[i] = IF i <= Len(t) THEN t[i] ELSE k[i - Len(t)]
  BY ConcatProperties
<1>2. Len(t) \in Nat
  BY LenProperties
<1> HIDE DEF z
<1>3. /\ z \in Seq(Atoms) /\ Len(t) \in Nat /\ Len(z) = Len(t) + 4
      /\ \A i \in 1..Len(t) + 4 : z[i] = IF i <= Len(t) THEN t[i] ELSE k[i - Len(t)]
  BY <1>1, <1>2, Zenon
<1> QED
  BY <1>3, Zenon DEF z

\* A placeholder is its four atoms.
LEMMA TokenAppend ==
  ASSUME NEW t \in Seq(Atoms), NEW k \in Seq(Atoms), Len(k) = 4
  PROVE  /\ \A i \in 1..4 : k[i] \in Atoms
         /\ t \o k = (((t \o <<k[1]>>) \o <<k[2]>>) \o <<k[3]>>) \o <<k[4]>>
<1>2. \A i \in 1..4 : k[i] \in Atoms
  BY ElementOfSeq
<1>1. k[1] \in Atoms /\ k[2] \in Atoms /\ k[3] \in Atoms /\ k[4] \in Atoms
  BY <1>2
<1> DEFINE a == k[1]  b == k[2]  c == k[3]  d == k[4]  n == Len(t)
           u == t \o <<a>>  v == u \o <<b>>  x == v \o <<c>>  y == x \o <<d>>  z == t \o k
<1>3. /\ n \in Nat /\ z \in Seq(Atoms) /\ Len(z) = n + 4
      /\ \A i \in 1..n + 4 : z[i] = IF i <= n THEN t[i] ELSE k[i - n]
  BY TokenAt, Zenon
<1> HIDE DEF a, b, c, d, n, z
<1>4. u \in Seq(Atoms) /\ Len(u) = n + 1 /\ (\A i \in 1..n : u[i] = t[i]) /\ u[n + 1] = a
  BY <1>1, AppendAt DEF a, n
<1> HIDE DEF u
<1>5. v \in Seq(Atoms) /\ Len(v) = Len(u) + 1 /\ (\A i \in 1..Len(u) : v[i] = u[i]) /\ v[Len(u) + 1] = b
  BY <1>1, <1>4, AppendAt DEF b
<1> HIDE DEF v
<1>6. x \in Seq(Atoms) /\ Len(x) = Len(v) + 1 /\ (\A i \in 1..Len(v) : x[i] = v[i]) /\ x[Len(v) + 1] = c
  BY <1>1, <1>5, AppendAt DEF c
<1> HIDE DEF x
<1>7. y \in Seq(Atoms) /\ Len(y) = Len(x) + 1 /\ (\A i \in 1..Len(x) : y[i] = x[i]) /\ y[Len(x) + 1] = d
  BY <1>1, <1>6, AppendAt DEF d
<1> HIDE DEF y
<1>l. Len(v) = n + 2 /\ Len(x) = n + 3 /\ Len(y) = n + 4
  BY <1>3, <1>4, <1>5, <1>6, <1>7
<1>8. y[n + 4] = d /\ y[n + 3] = c /\ y[n + 2] = b /\ y[n + 1] = a /\ \A i \in 1..n : y[i] = t[i]
  <2>1. /\ \A i \in 1..n + 3 : i \in 1..Len(x)
        /\ \A i \in 1..n + 2 : i \in 1..Len(v) /\ i \in 1..n + 3
        /\ \A i \in 1..n + 1 : i \in 1..Len(u) /\ i \in 1..n + 2
        /\ \A i \in 1..n : i \in 1..n + 1
    BY <1>l, <1>3, <1>4
  <2>2. n + 1 \in 1..n + 1 /\ n + 2 \in 1..n + 2 /\ n + 3 \in 1..n + 3
    BY <1>3
  <2>3. Len(u) + 1 = n + 2 /\ Len(v) + 1 = n + 3 /\ Len(x) + 1 = n + 4
    BY <1>l, <1>3, <1>4
  <2>4. \A i \in 1..n + 3 : y[i] = x[i]
    BY <1>7, <2>1, Zenon
  <2>5. \A i \in 1..n + 2 : y[i] = v[i]
    BY <1>6, <2>1, <2>4, Zenon
  <2>6. \A i \in 1..n + 1 : y[i] = u[i]
    BY <1>5, <2>1, <2>5, Zenon
  <2>7. \A i \in 1..n : y[i] = t[i]
    BY <1>4, <2>1, <2>6, Zenon
  <2>8. y[n + 4] = d /\ y[n + 3] = c /\ y[n + 2] = b /\ y[n + 1] = a
    BY <1>4, <1>5, <1>6, <1>7, <2>2, <2>3, <2>4, <2>5, <2>6, Zenon
  <2> QED
    BY <2>7, <2>8
<1>9. z[n + 4] = d /\ z[n + 3] = c /\ z[n + 2] = b /\ z[n + 1] = a /\ \A i \in 1..n : z[i] = t[i]
  <2>1. \A i \in 1..4 : n + i \in 1..n + 4 /\ ~(n + i <= n) /\ (n + i) - n = i
    BY <1>3
  <2>2. \A i \in 1..4 : z[n + i] = k[i]
    BY <1>3, <2>1
  <2>3. \A i \in 1..n : i \in 1..n + 4 /\ i <= n
    BY <1>3
  <2> QED
    BY <1>3, <2>2, <2>3 DEF a, b, c, d
<1>10. \A i \in 1..n + 4 : y[i] = z[i]
  <2>1. \A i \in 1..n + 4 : i \in 1..n \/ i = n + 1 \/ i = n + 2 \/ i = n + 3 \/ i = n + 4
    <3>1. n \in Nat
      BY <1>3
    <3> QED
      BY <3>1
  <2> QED
    BY <1>8, <1>9, <2>1, Zenon
<1>11. y = z
  BY <1>3, <1>7, <1>l, <1>10, SeqEqual
<1> QED
  BY <1>2, <1>11 DEF a, b, c, d, u, v, x, y, z

-----------------------------------------------------------------------------

\* The end of the text is inside brackets.
Within(t) == InsideBrackets(t, Len(t) + 1)

\* Whether a text ends inside a bracket, from its last atom.
LEMMA WithinAppend ==
  ASSUME NEW t \in Seq(Atoms), NEW a \in Atoms
  PROVE  Within(t \o <<a>>) <=> a = Open \/ (a # Close /\ Within(t))
<1> DEFINE u == t \o <<a>>  n == Len(t)
<1>1. n \in Nat /\ Len(u) = n + 1 /\ (\A i \in 1..n : u[i] = t[i]) /\ u[n + 1] = a
  BY AppendAt
<1>2. Within(u) <=> \E j \in 1..n + 1 : u[j] = Open /\ \A k \in j + 1..n + 1 : u[k] \notin {Open, Close}
  <2> HIDE DEF u, n
  <2>1. (n + 1) + 1 - 1 = n + 1
    BY <1>1
  <2> QED
    BY <1>1, <2>1 DEF Within, InsideBrackets
<1>3. Within(t) <=> \E j \in 1..n : t[j] = Open /\ \A k \in j + 1..n : t[k] \notin {Open, Close}
  <2>1. (n + 1) - 1 = n
    BY <1>1
  <2> QED
    BY <2>1 DEF Within, InsideBrackets
<1> HIDE DEF u, n
<1>4. ASSUME Within(u)
      PROVE  a = Open \/ (a # Close /\ Within(t))
  <2>1. PICK j \in 1..n + 1 : u[j] = Open /\ \A k \in j + 1..n + 1 : u[k] \notin {Open, Close}
    BY <1>2, <1>4
  <2>2. CASE j = n + 1
    BY <1>1, <2>1, <2>2
  <2>3. CASE j # n + 1
    <3>1. j \in 1..n /\ n + 1 \in j + 1..n + 1 /\ \A k \in j + 1..n : k \in j + 1..n + 1 /\ k \in 1..n
      BY <1>1, <2>3
    <3>2. a \notin {Open, Close} /\ t[j] = Open /\ \A k \in j + 1..n : t[k] \notin {Open, Close}
      BY <1>1, <2>1, <3>1
    <3> QED
      BY <1>3, <3>1, <3>2
  <2> QED
    BY <2>2, <2>3
<1>5. ASSUME a = Open
      PROVE  Within(u)
  <2>1. n + 1 \in 1..n + 1 /\ (n + 1) + 1..n + 1 = {}
    BY <1>1
  <2> QED
    BY <1>1, <1>2, <1>5, <2>1
<1>6. ASSUME a # Open, a # Close, Within(t)
      PROVE  Within(u)
  <2>1. PICK j \in 1..n : t[j] = Open /\ \A k \in j + 1..n : t[k] \notin {Open, Close}
    BY <1>3, <1>6
  <2>2. ASSUME NEW k \in j + 1..n + 1
        PROVE  u[k] \notin {Open, Close}
    <3>1. k = n + 1 \/ (k \in j + 1..n /\ k \in 1..n)
      BY <1>1
    <3> QED
      BY <1>1, <1>6, <2>1, <3>1
  <2>3. j \in 1..n + 1 /\ u[j] = Open
    BY <1>1, <2>1
  <2> QED
    BY <1>2, <2>2, <2>3
<1> QED
  BY <1>4, <1>5, <1>6 DEF u

\* Every opening bracket has the rest of a placeholder behind it.
Whole(t) == \A i \in 1..Len(t) : t[i] = Open => i + 3 <= Len(t)

\* What a spelling is like: its brackets are those of placeholders, and what
\* it spells has none.
LEMMA SpellsShape ==
  ASSUME NEW E, NEW w, Vocabulary(E, w), NEW t, NEW o, Spells(t, o, E, w)
  PROVE  Whole(t) /\ ~Within(t) /\ o \in Seq(Plain)
<1> DEFINE Q == {p \in Seq(Atoms) \X Seq(Atoms) : Whole(p[1]) /\ ~Within(p[1]) /\ p[2] \in Seq(Plain)}
<1>e. <<>> \in Seq(Atoms) /\ <<>> \in Seq(Plain) /\ Len(<<>>) = 0
  BY EmptySeq
<1>1. <<<<>>, <<>>>> \in Q
  <2>1. Whole(<<>>)
    BY <1>e DEF Whole
  <2>2. ~Within(<<>>)
    BY <1>e DEF Within, InsideBrackets
  <2> QED
    BY <1>e, <2>1, <2>2
<1>2. ASSUME NEW x \in Seq(Atoms), NEW y \in Seq(Atoms), <<x, y>> \in Q, NEW a \in Plain
      PROVE  <<x \o <<a>>, y \o <<a>>>> \in Q
  <2> DEFINE u == x \o <<a>>  v == y \o <<a>>  c == <<a>>
  <2>1. Whole(x) /\ ~Within(x) /\ y \in Seq(Plain)
    BY <1>2
  <2>2. a \in Atoms /\ a # Open /\ a # Close /\ c \in Seq(Plain)
    BY PlainText
  <2>3. u \in Seq(Atoms) /\ v \in Seq(Atoms)
    BY <2>2, AppendAt
  <2>4. v \in Seq(Plain)
    <3> HIDE DEF c
    <3>1. y \o c \in Seq(Plain)
      BY <2>1, <2>2, ConcatProperties
    <3> QED
      BY <3>1 DEF c
  <2>5. ~Within(u)
    BY <2>1, <2>2, WithinAppend
  <2>6. Whole(u)
    <3>1. Len(x) \in Nat /\ Len(u) = Len(x) + 1 /\ (\A i \in 1..Len(x) : u[i] = x[i]) /\ u[Len(x) + 1] = a
      BY <2>2, AppendAt
    <3> HIDE DEF u
    <3> QED
      BY <2>1, <2>2, <3>1 DEF Whole
  <2> HIDE DEF u, v
  <2>7. <<u, v>> \in Q
    BY <2>3, <2>4, <2>5, <2>6
  <2> QED
    BY <2>7 DEF u, v
<1>3. ASSUME NEW x \in Seq(Atoms), NEW y \in Seq(Atoms), <<x, y>> \in Q, NEW k \in E
      PROVE  <<x \o k, y \o w[k]>> \in Q
  <2> DEFINE u == x \o k  b == w[k]  v == y \o b
  <2>1. Whole(x) /\ ~Within(x) /\ y \in Seq(Plain)
    BY <1>3
  <2>2. /\ k \in Seq(Atoms) /\ Len(k) = 4 /\ k[1] = Open /\ k[2] # Open /\ k[3] # Open /\ k[4] = Close
        /\ b \in Seq(Plain)
    BY PlainText DEF Vocabulary
  <2>3. /\ u \in Seq(Atoms) /\ Len(x) \in Nat /\ Len(u) = Len(x) + 4
        /\ \A i \in 1..Len(x) + 4 : u[i] = IF i <= Len(x) THEN x[i] ELSE k[i - Len(x)]
    BY <2>2, TokenAt, Zenon
  <2> HIDE DEF b
  <2>4. v \in Seq(Plain)
    BY <2>1, <2>2, ConcatProperties
  <2>5. v \in Seq(Atoms)
    BY <2>4, PlainText
  <2>6. ~Within(u)
    <3> DEFINE z == ((x \o <<k[1]>>) \o <<k[2]>>) \o <<k[3]>>
    <3>t. u = z \o <<k[4]>> /\ \A i \in 1..4 : k[i] \in Atoms
      BY <2>2, TokenAppend, Zenon
    <3>1. u = z \o <<k[4]>> /\ k[1] \in Atoms /\ k[2] \in Atoms /\ k[3] \in Atoms /\ k[4] \in Atoms
      BY <3>t
    <3>2. x \o <<k[1]>> \in Seq(Atoms)
      BY <3>1, AppendAt
    <3>3. (x \o <<k[1]>>) \o <<k[2]>> \in Seq(Atoms)
      BY <3>1, <3>2, AppendAt
    <3>4. z \in Seq(Atoms)
      BY <3>1, <3>3, AppendAt
    <3> HIDE DEF z
    <3>5. Within(z \o <<k[4]>>) <=> k[4] = Open \/ (k[4] # Close /\ Within(z))
      BY <3>1, <3>4, WithinAppend
    <3> QED
      BY <2>2, <3>1, <3>5 DEF Open, Close
  <2>7. Whole(u)
    <3> HIDE DEF u
    <3>1. ASSUME NEW i \in 1..Len(u), u[i] = Open
          PROVE  i + 3 <= Len(u)
      <4>1. CASE i <= Len(x)
        BY <2>1, <2>3, <3>1, <4>1 DEF Whole
      <4>2. CASE ~(i <= Len(x))
        <5> DEFINE j == i - Len(x)
        <5>1. j \in 1..4 /\ k[j] = Open
          BY <2>3, <3>1, <4>2
        <5>2. j = 1
          BY <2>2, <5>1 DEF Open, Close
        <5> QED
          BY <2>3, <5>2
      <4> QED
        BY <4>1, <4>2
    <3> QED
      BY <3>1 DEF Whole
  <2> HIDE DEF u, v
  <2>8. <<u, v>> \in Q
    BY <2>3, <2>4, <2>5, <2>6, <2>7
  <2> QED
    BY <2>8 DEF u, v, b
<1>4. ClosedUnder(Q, E, w)
  <2> HIDE DEF Q
  <2> QED
    BY <1>1, <1>2, <1>3 DEF ClosedUnder
<1>5. <<t, o>> \in Q
  <2> HIDE DEF Q
  <2> QED
    BY <1>4, SpellsInduct
<1> QED
  BY <1>5

\* The last atom of two texts one after the other is that of the second, or
\* of the first if the second is empty.
LEMMA Peel ==
  ASSUME NEW S, S \subseteq Atoms, NEW u \in Seq(Atoms), NEW y \in Seq(S),
         NEW t \in Seq(Atoms), NEW b \in Atoms, NEW s, Cat(u, y, s), Cat(t, <<b>>, s)
  PROVE  \/ y = <<>> /\ Cat(t, <<b>>, u)
         \/ b \in S /\ \E z \in Seq(S) : Cat(z, <<b>>, y) /\ Cat(u, z, t)
<1>0. u \o y = t \o <<b>>
  BY DEF Cat
<1>1. CASE y = <<>>
  <2>1. u \o <<>> = u
    BY ConcatEmptySeq
  <2> QED
    BY <1>0, <1>1, <2>1 DEF Cat
<1>2. CASE y # <<>>
  <2>1. PICK z \in Seq(S), a \in S : Cat(z, <<a>>, y)
    BY <1>2, LastAtom, Zenon
  <2>2. z \in Seq(Atoms) /\ a \in Atoms /\ <<a>> \in Seq(Atoms)
    BY SeqMonotonic, PlainText
  <2>3. Assoc(u, z, <<a>>)
    BY <2>2, TextAssoc, Zenon
  <2>4. (u \o z) \o <<a>> = t \o <<b>>
    BY <1>0, <2>1, <2>3, Zenon DEF Assoc, Cat
  <2>5. u \o z \in Seq(Atoms)
    BY <2>2, ConcatProperties
  <2>6. u \o z = t /\ a = b
    <3> DEFINE v == u \o z
    <3>1. v \in Seq(Atoms) /\ Cat(v, <<a>>, s)
      BY <1>0, <2>4, <2>5, Zenon DEF Cat
    <3> HIDE DEF v
    <3>2. v = t /\ a = b
      BY <2>2, <3>1, CatEqual, Zenon
    <3> QED
      BY <3>2 DEF v
  <2>7. Cat(u, z, t)
    BY <2>6 DEF Cat
  <2> QED
    BY <2>1, <2>6, <2>7, Zenon
<1> QED
  BY <1>1, <1>2

\* Plain atoms at the end of a text are what it spells at its end.
EndsAlike(t, o, E, w) ==
  \A x \in Seq(Atoms), m \in Seq(Plain) :
    Cat(x, m, t) => \E q \in Seq(Atoms) : Spells(x, q, E, w) /\ Cat(q, m, o)

\* Plain atoms at the end of a text are at the end of what it spells.
LEMMA SpellsEnd ==
  ASSUME NEW E, NEW w, Vocabulary(E, w), NEW t, NEW o, Spells(t, o, E, w)
  PROVE  EndsAlike(t, o, E, w)
<1> DEFINE Q == {p \in Seq(Atoms) \X Seq(Atoms) :
                   Spells(p[1], p[2], E, w) /\ EndsAlike(p[1], p[2], E, w)}
<1>e. <<>> \in Seq(Atoms)
  BY EmptySeq
<1>p. Plain \subseteq Atoms
  BY PlainText
<1>q. ASSUME NEW x \in Seq(Atoms), NEW y \in Seq(Atoms), Spells(x, y, E, w),
             NEW z \in Seq(Atoms), NEW m, m = <<>>, Cat(z, m, x)
      PROVE  \E q \in Seq(Atoms) : Spells(z, q, E, w) /\ Cat(q, m, y)
  <2>1. z \o <<>> = z /\ y \o <<>> = y
    BY ConcatEmptySeq
  <2>2. Spells(z, y, E, w) /\ Cat(y, m, y)
    BY <1>q, <2>1, Zenon DEF Cat
  <2> QED
    BY <2>2
<1>1. <<<<>>, <<>>>> \in Q
  <2>1. Spells(<<>>, <<>>, E, w)
    BY SpellsNothing
  <2>2. ASSUME NEW x \in Seq(Atoms), NEW m \in Seq(Plain), Cat(x, m, <<>>)
        PROVE  \E q \in Seq(Atoms) : Spells(x, q, E, w) /\ Cat(q, m, <<>>)
    <3>1. m = <<>>
      <4>1. m \in Seq(Atoms)
        BY PlainText
      <4>2. Len(x \o m) = Len(x) + Len(m) /\ Len(x) \in Nat /\ Len(m) \in Nat
        BY <4>1, ConcatProperties, LenProperties
      <4>3. Len(<<>>) = 0
        OBVIOUS
      <4>4. Len(m) = 0
        <5>1. Len(x \o m) = 0
          BY <2>2, <4>3, Zenon DEF Cat
        <5> HIDE DEF Q
        <5> QED
          BY <4>2, <5>1
      <4> QED
        BY <4>1, <4>4, EmptySeq
    <3> QED
      BY <1>e, <1>q, <2>1, <2>2, <3>1, Zenon
  <2>3. EndsAlike(<<>>, <<>>, E, w)
    BY <2>2 DEF EndsAlike
  <2> QED
    BY <1>e, <2>1, <2>3
<1>2. ASSUME NEW x \in Seq(Atoms), NEW y \in Seq(Atoms), <<x, y>> \in Q, NEW a \in Plain
      PROVE  <<x \o <<a>>, y \o <<a>>>> \in Q
  <2> DEFINE u == x \o <<a>>  v == y \o <<a>>
  <2>1. Spells(x, y, E, w) /\ EndsAlike(x, y, E, w)
    BY <1>2
  <2>2. u \in Seq(Atoms) /\ v \in Seq(Atoms) /\ a \in Atoms /\ <<a>> \in Seq(Atoms)
    BY PlainText, AppendAt
  <2>3. Spells(u, v, E, w)
    BY <2>1, SpellsAtom
  <2>4. ASSUME NEW z \in Seq(Atoms), NEW m \in Seq(Plain), Cat(z, m, u)
        PROVE  \E q \in Seq(Atoms) : Spells(z, q, E, w) /\ Cat(q, m, v)
    <3>1. CASE m = <<>>
      <4> HIDE DEF u, v
      <4> QED
        BY <1>q, <2>2, <2>3, <2>4, <3>1
    <3>2. CASE m # <<>>
      <4>1. Cat(x, <<a>>, u)
        BY DEF Cat
      <4> HIDE DEF u
      <4>p. \/ m = <<>> /\ Cat(x, <<a>>, z)
            \/ a \in Plain /\ \E n \in Seq(Plain) : Cat(n, <<a>>, m) /\ Cat(z, n, x)
        BY <1>p, <2>2, <2>4, <4>1, Peel, Zenon
      <4>2. PICK n \in Seq(Plain) : Cat(n, <<a>>, m) /\ Cat(z, n, x)
        BY <3>2, <4>p, Zenon
      <4>3. PICK q \in Seq(Atoms) : Spells(z, q, E, w) /\ Cat(q, n, y)
        BY <2>1, <4>2 DEF EndsAlike
      <4>4. n \in Seq(Atoms)
        BY PlainText
      <4>5. Assoc(q, n, <<a>>)
        BY <2>2, <4>4, TextAssoc, Zenon
      <4>6. Cat(q, m, v)
        BY <4>2, <4>3, <4>5, Zenon DEF Assoc, Cat
      <4> QED
        BY <4>3, <4>6
    <3> QED
      BY <3>1, <3>2
  <2> HIDE DEF u, v
  <2>5. EndsAlike(u, v, E, w)
    BY <2>4 DEF EndsAlike
  <2>6. <<u, v>> \in Q
    BY <2>2, <2>3, <2>5
  <2> QED
    BY <2>6 DEF u, v
<1>3. ASSUME NEW x \in Seq(Atoms), NEW y \in Seq(Atoms), <<x, y>> \in Q, NEW k \in E
      PROVE  <<x \o k, y \o w[k]>> \in Q
  <2> DEFINE u == x \o k  v == y \o w[k]
             s == ((x \o <<k[1]>>) \o <<k[2]>>) \o <<k[3]>>
  <2>1. Spells(x, y, E, w)
    BY <1>3
  <2>2. Spells(u, v, E, w)
    BY <2>1, SpellsToken
  <2>3. u \in Seq(Atoms) /\ v \in Seq(Atoms)
    BY <2>2 DEF Spells
  <2>4. k \in Seq(Atoms) /\ Len(k) = 4 /\ k[4] \notin Plain
    BY PlainText DEF Vocabulary
  <2>t. u = s \o <<k[4]>> /\ \A i \in 1..4 : k[i] \in Atoms
    BY <2>4, TokenAppend, Zenon
  <2>a. k[1] \in Atoms /\ k[2] \in Atoms /\ k[3] \in Atoms /\ k[4] \in Atoms
    BY <2>t
  <2>b. x \o <<k[1]>> \in Seq(Atoms)
    BY <2>a, AppendAt
  <2>c. (x \o <<k[1]>>) \o <<k[2]>> \in Seq(Atoms)
    BY <2>a, <2>b, AppendAt
  <2>d. s \in Seq(Atoms)
    BY <2>a, <2>c, AppendAt
  <2> HIDE DEF s, u, v
  <2>5. ASSUME NEW z \in Seq(Atoms), NEW m \in Seq(Plain), Cat(z, m, u)
        PROVE  \E q \in Seq(Atoms) : Spells(z, q, E, w) /\ Cat(q, m, v)
    <3>1. Cat(s, <<k[4]>>, u)
      BY <2>t, Zenon DEF Cat
    <3>p. \/ m = <<>> /\ Cat(s, <<k[4]>>, z)
          \/ k[4] \in Plain /\ \E n \in Seq(Plain) : Cat(n, <<k[4]>>, m) /\ Cat(z, n, s)
      BY <1>p, <2>a, <2>d, <2>5, <3>1, Peel, Zenon
    <3>2. m = <<>>
      BY <2>4, <3>p, Zenon
    <3> QED
      BY <1>q, <2>2, <2>3, <2>5, <3>2
  <2>6. EndsAlike(u, v, E, w)
    BY <2>5 DEF EndsAlike
  <2>7. <<u, v>> \in Q
    BY <2>2, <2>3, <2>6
  <2> QED
    BY <2>7 DEF u, v
<1>4. ClosedUnder(Q, E, w)
  <2> HIDE DEF Q
  <2> QED
    BY <1>1, <1>2, <1>3 DEF ClosedUnder
<1>5. <<t, o>> \in Q
  <2> HIDE DEF Q
  <2> QED
    BY <1>4, SpellsInduct
<1> QED
  BY <1>5

\* The four steps from a text to that text and a placeholder.
LEMMA TokenSteps ==
  ASSUME NEW x \in Seq(Atoms), NEW k \in Seq(Atoms), Len(k) = 4
  PROVE  /\ k[1] \in Atoms /\ k[2] \in Atoms /\ k[3] \in Atoms /\ k[4] \in Atoms
         /\ \E a, b, c \in Seq(Atoms) :
              Cat(x, <<k[1]>>, a) /\ Cat(a, <<k[2]>>, b) /\ Cat(b, <<k[3]>>, c)
              /\ Cat(c, <<k[4]>>, x \o k)
<1> DEFINE a == x \o <<k[1]>>  b == a \o <<k[2]>>  c == b \o <<k[3]>>
<1>1. x \o k = c \o <<k[4]>> /\ \A i \in 1..4 : k[i] \in Atoms
  BY TokenAppend, Zenon
<1>2. k[1] \in Atoms /\ k[2] \in Atoms /\ k[3] \in Atoms /\ k[4] \in Atoms
  BY <1>1
<1>3. a \in Seq(Atoms)
  BY <1>2, AppendAt
<1>4. Cat(x, <<k[1]>>, a) /\ Cat(a, <<k[2]>>, b) /\ Cat(b, <<k[3]>>, c) /\ Cat(c, <<k[4]>>, x \o k)
  BY <1>1, Zenon DEF Cat
<1> HIDE DEF a
<1>5. b \in Seq(Atoms)
  BY <1>2, <1>3, AppendAt
<1> HIDE DEF b
<1>6. c \in Seq(Atoms)
  BY <1>2, <1>5, AppendAt
<1> HIDE DEF c
<1> QED
  BY <1>2, <1>3, <1>4, <1>5, <1>6, Zenon

\* The last atom of a text whose end is known.
LEMMA PeelPlain ==
  ASSUME NEW u \in Seq(Atoms), NEW y \in Seq(Plain), y # <<>>,
         NEW t \in Seq(Atoms), NEW b \in Atoms, NEW s, Cat(t, <<b>>, s), Cat(u, y, s)
  PROVE  b \in Plain /\ \E z \in Seq(Plain) : Cat(z, <<b>>, y) /\ Cat(u, z, t)
<1>1. Plain \subseteq Atoms
  BY PlainText
<1>2. \/ y = <<>> /\ Cat(t, <<b>>, u)
      \/ b \in Plain /\ \E z \in Seq(Plain) : Cat(z, <<b>>, y) /\ Cat(u, z, t)
  BY <1>1, Peel, Zenon
<1> QED
  BY <1>2, Zenon

LEMMA PeelAtom ==
  ASSUME NEW u \in Seq(Atoms), NEW y \in Seq(Atoms), y # <<>>,
         NEW t \in Seq(Atoms), NEW b \in Atoms, NEW s, Cat(t, <<b>>, s), Cat(u, y, s)
  PROVE  \E z \in Seq(Atoms) : Cat(z, <<b>>, y) /\ Cat(u, z, t)
<1>1. Atoms \subseteq Atoms
  OBVIOUS
<1>2. \/ y = <<>> /\ Cat(t, <<b>>, u)
      \/ b \in Atoms /\ \E z \in Seq(Atoms) : Cat(z, <<b>>, y) /\ Cat(u, z, t)
  BY <1>1, Peel, Zenon
<1> QED
  BY <1>2, Zenon

\* Short texts from their atoms.
LEMMA CatPair ==
  ASSUME NEW e \in Atoms, NEW d \in Atoms, NEW m, Cat(<<e>>, <<d>>, m)
  PROVE  m = <<e, d>>
<1> DEFINE c == <<e>>  v == <<e, d>>
<1>1. c \in Seq(Atoms) /\ Len(c) = 1 /\ c[1] = e
  BY PlainText
<1>2. v \in Seq(Atoms) /\ Len(v) = 2 /\ v[1] = e /\ v[2] = d
  OBVIOUS
<1>3. m = c \o <<d>>
  BY DEF Cat
<1> HIDE DEF c, v
<1>4. m \in Seq(Atoms) /\ Len(m) = 2 /\ m[1] = e /\ m[2] = d
  <2>1. /\ m \in Seq(Atoms) /\ Len(m) = Len(c) + 1
        /\ (\A i \in 1..Len(c) : m[i] = c[i]) /\ m[Len(c) + 1] = d
    BY <1>1, <1>3, AppendAt, Zenon
  <2> QED
    BY <1>1, <2>1
<1>5. \A i \in 1..2 : m[i] = v[i]
  BY <1>2, <1>4
<1>6. m = v
  BY <1>2, <1>4, <1>5, SeqEqual
<1> QED
  BY <1>6 DEF v

\* The plain parts of placeholders are not m.
Apart(m, E) == \A k \in E : m \notin {<<k[2]>>, <<k[3]>>, <<k[2], k[3]>>}

LEMMA CatOne ==
  ASSUME NEW m, NEW b, NEW n, n = <<>>, Cat(n, <<b>>, m)
  PROVE  m = <<b>>
<1>1. <<>> \o <<b>> = <<b>>
  OBVIOUS
<1> QED
  BY <1>1, Zenon DEF Cat

\* Plain atoms at the end of a text that ends in a placeholder's opening
\* bracket, in its name or in its index.
LEMMA TokenBegun ==
  ASSUME NEW x \in Seq(Atoms), NEW m \in Seq(Plain), m # <<>>, NEW t \in Seq(Atoms),
         NEW e \in Atoms, NEW d \in Atoms, NEW a \in Seq(Atoms), NEW b \in Seq(Atoms), NEW c,
         Cat(t, <<Open>>, a), Cat(a, <<e>>, b), Cat(b, <<d>>, c), Open \in Atoms
  PROVE  /\ ~Cat(x, m, a)
         /\ Cat(x, m, b) => m = <<e>>
         /\ Cat(x, m, c) => m = <<d>> \/ m = <<e, d>>
<1>0. Plain \subseteq Atoms /\ Open \notin Plain
  BY PlainText
<1>1. ASSUME NEW n \in Seq(Plain), Cat(x, n, a)
      PROVE  n = <<>>
  BY <1>0, <1>1, PeelPlain
<1>2. ASSUME NEW n \in Seq(Plain), n # <<>>, Cat(x, n, b)
      PROVE  n = <<e>>
  <2>1. PICK z \in Seq(Plain) : Cat(z, <<e>>, n) /\ Cat(x, z, a)
    BY <1>2, PeelPlain
  <2> QED
    BY <1>1, <2>1, CatOne, Zenon
<1>3. ASSUME Cat(x, m, c)
      PROVE  m = <<d>> \/ m = <<e, d>>
  <2>2. PICK z \in Seq(Plain) : Cat(z, <<d>>, m) /\ Cat(x, z, b)
    BY <1>3, PeelPlain
  <2>3. CASE z = <<>>
    BY <2>2, <2>3, CatOne, Zenon
  <2>4. CASE z # <<>>
    <3>1. z = <<e>>
      BY <1>2, <2>2, <2>4
    <3> QED
      BY <2>2, <3>1, CatPair, Zenon
  <2> QED
    BY <2>3, <2>4, Zenon
<1> QED
  BY <1>1, <1>2, <1>3, Zenon

\* Plain atoms that are no part of a placeholder stand for themselves, and
\* what is before and behind them is spelled on its own.
Parts(x, y, m, o, E, w) ==
  \E p, q, r \in Seq(Atoms) :
    Spells(x, p, E, w) /\ Spells(y, q, E, w) /\ Cat(p, m, r) /\ Cat(r, q, o)

SplitsAlike(t, o, E, w) ==
  \A x, y, z \in Seq(Atoms), m \in Seq(Plain) :
    m # <<>> /\ Apart(m, E) /\ Cat(x, m, z) /\ Cat(z, y, t) =>
      Parts(x, y, m, o, E, w)

\* A text is split, at atoms that no placeholder has inside it, as is what it
\* spells.
LEMMA SpellsSplit ==
  ASSUME NEW E, NEW w, Vocabulary(E, w), NEW t, NEW o, Spells(t, o, E, w)
  PROVE  SplitsAlike(t, o, E, w)
<1> DEFINE Q == {p \in Seq(Atoms) \X Seq(Atoms) :
                   Spells(p[1], p[2], E, w) /\ SplitsAlike(p[1], p[2], E, w)}
<1>e. <<>> \in Seq(Atoms)
  BY EmptySeq
<1>n. Spells(<<>>, <<>>, E, w)
  BY SpellsNothing
\* Nothing behind.
<1>q. ASSUME NEW u, NEW v, Spells(u, v, E, w), NEW x \in Seq(Atoms), NEW y, y = <<>>,
             NEW z \in Seq(Atoms), NEW m \in Seq(Plain), Cat(x, m, z), Cat(z, y, u)
      PROVE  Parts(x, y, m, v, E, w)
  <2>0. v \in Seq(Atoms)
    BY <1>q DEF Spells
  <2>1. z \o <<>> = z /\ v \o <<>> = v
    BY <2>0, ConcatEmptySeq
  <2>2. Cat(x, m, u) /\ Cat(v, y, v)
    BY <1>q, <2>1, Zenon DEF Cat
  <2>3. PICK p \in Seq(Atoms) : Spells(x, p, E, w) /\ Cat(p, m, v)
    BY <1>q, <2>2, SpellsEnd, Zenon DEF EndsAlike
  <2> QED
    BY <1>e, <1>n, <1>q, <2>0, <2>2, <2>3, Zenon DEF Parts
\* One atom or placeholder more behind.
<1>r. ASSUME NEW u \in Seq(Atoms), NEW v \in Seq(Atoms), SplitsAlike(u, v, E, w),
             NEW x \in Seq(Atoms), NEW y \in Seq(Atoms), NEW z \in Seq(Atoms), NEW m \in Seq(Plain),
             m # <<>>, Apart(m, E), Cat(x, m, z), Cat(z, y, u),
             NEW f, NEW c \in Seq(Atoms), NEW s,
             \A q : Spells(y, q, E, w) => Spells(f, q \o c, E, w), Cat(v, c, s)
      PROVE  Parts(x, f, m, s, E, w)
  <2>1. PICK p \in Seq(Atoms), q \in Seq(Atoms), r \in Seq(Atoms) :
          Spells(x, p, E, w) /\ Spells(y, q, E, w) /\ Cat(p, m, r) /\ Cat(r, q, v)
    BY <1>r, Zenon DEF SplitsAlike, Parts
  <2>2. Spells(f, q \o c, E, w)
    BY <1>r, <2>1, Zenon
  <2>3. q \o c \in Seq(Atoms)
    BY <2>2, Zenon DEF Spells
  <2>4. Assoc(r, q, c)
    BY TextAssoc, Zenon
  <2>5. Cat(r, q \o c, s)
    BY <1>r, <2>1, <2>4, Zenon DEF Assoc, Cat
  <2> QED
    BY <2>1, <2>2, <2>3, <2>5, Zenon DEF Parts
<1>1. <<<<>>, <<>>>> \in Q
  <2>1. ASSUME NEW x \in Seq(Atoms), NEW y \in Seq(Atoms), NEW z \in Seq(Atoms),
               NEW m \in Seq(Plain), Cat(x, m, z), Cat(z, y, <<>>)
        PROVE  Parts(x, y, m, <<>>, E, w)
    <3>1. Len(z \o y) = Len(z) + Len(y) /\ Len(z) \in Nat /\ Len(y) \in Nat
      BY ConcatProperties, LenProperties
    <3>2. Len(z \o y) = 0
      BY <1>e, <2>1, EmptySeq, Zenon DEF Cat
    <3>3. Len(y) = 0
      BY <3>1, <3>2
    <3>4. y = <<>>
      BY <3>3, EmptySeq
    <3> QED
      BY <1>n, <1>q, <2>1, <3>4, Zenon
  <2>2. SplitsAlike(<<>>, <<>>, E, w)
    BY <2>1, Zenon DEF SplitsAlike
  <2> QED
    BY <1>e, <1>n, <2>2
<1>2. ASSUME NEW g \in Seq(Atoms), NEW h \in Seq(Atoms), <<g, h>> \in Q, NEW a \in Plain
      PROVE  <<g \o <<a>>, h \o <<a>>>> \in Q
  <2> DEFINE u == g \o <<a>>  v == h \o <<a>>
  <2>1. Spells(g, h, E, w) /\ SplitsAlike(g, h, E, w)
    BY <1>2
  <2>2. u \in Seq(Atoms) /\ v \in Seq(Atoms) /\ a \in Atoms /\ <<a>> \in Seq(Atoms)
    BY PlainText, AppendAt
  <2>3. Spells(u, v, E, w)
    BY <2>1, SpellsAtom
  <2>c. Cat(g, <<a>>, u) /\ Cat(h, <<a>>, v)
    BY Zenon DEF Cat
  <2> HIDE DEF Q, u, v
  <2>4. ASSUME NEW x \in Seq(Atoms), NEW y \in Seq(Atoms), NEW z \in Seq(Atoms),
               NEW m \in Seq(Plain), m # <<>>, Apart(m, E), Cat(x, m, z), Cat(z, y, u)
        PROVE  Parts(x, y, m, v, E, w)
    <3>1. CASE y = <<>>
      BY <1>q, <2>3, <2>4, <3>1, Zenon
    <3>2. CASE y # <<>>
      <4>2. PICK n \in Seq(Atoms) : Cat(n, <<a>>, y) /\ Cat(z, n, g)
        BY <2>2, <2>4, <2>c, <3>2, PeelAtom
      <4>3. ASSUME NEW q, Spells(n, q, E, w)
            PROVE  Spells(y, q \o <<a>>, E, w)
        <5>1. Spells(n \o <<a>>, q \o <<a>>, E, w)
          BY <4>3, SpellsAtom
        <5> QED
          BY <4>2, <5>1, Zenon DEF Cat
      <4> QED
        BY <1>r, <2>1, <2>2, <2>4, <2>c, <4>2, <4>3, Zenon
    <3> QED
      BY <3>1, <3>2
  <2>5. SplitsAlike(u, v, E, w)
    BY <2>4 DEF SplitsAlike
  <2>6. <<u, v>> \in Q
    BY <2>2, <2>3, <2>5 DEF Q
  <2> QED
    BY <2>6 DEF u, v
<1>3. ASSUME NEW g \in Seq(Atoms), NEW h \in Seq(Atoms), <<g, h>> \in Q, NEW k \in E
      PROVE  <<g \o k, h \o w[k]>> \in Q
  <2> DEFINE u == g \o k  v == h \o w[k]
  <2>1. Spells(g, h, E, w) /\ SplitsAlike(g, h, E, w)
    BY <1>3
  <2>2. Spells(u, v, E, w)
    BY <2>1, SpellsToken
  <2>3. u \in Seq(Atoms) /\ v \in Seq(Atoms)
    BY <2>2 DEF Spells
  <2>v. /\ k \in Seq(Atoms) /\ Len(k) = 4 /\ k[1] = Open /\ k[4] = Close
        /\ w[k] \in Seq(Atoms)
    BY PlainText DEF Vocabulary
  <2>t. /\ k[1] \in Atoms /\ k[2] \in Atoms /\ k[3] \in Atoms /\ k[4] \in Atoms
        /\ \E a, b, c \in Seq(Atoms) :
             Cat(g, <<k[1]>>, a) /\ Cat(a, <<k[2]>>, b) /\ Cat(b, <<k[3]>>, c)
             /\ Cat(c, <<k[4]>>, u)
    BY <2>v, TokenSteps, Zenon
  <2>c. Cat(h, w[k], v)
    BY Zenon DEF Cat
  <2> HIDE DEF Q, u, v
  <2>p. PICK a \in Seq(Atoms), b \in Seq(Atoms), c \in Seq(Atoms) :
          Cat(g, <<k[1]>>, a) /\ Cat(a, <<k[2]>>, b) /\ Cat(b, <<k[3]>>, c) /\ Cat(c, <<k[4]>>, u)
    BY <2>t, Zenon
  <2>s. Atoms \subseteq Atoms /\ Plain \subseteq Atoms /\ k[4] \notin Plain
    BY <2>v, PlainText
  <2>4. ASSUME NEW x \in Seq(Atoms), NEW y \in Seq(Atoms), NEW z \in Seq(Atoms),
               NEW m \in Seq(Plain), m # <<>>, Apart(m, E), Cat(x, m, z), Cat(z, y, u)
        PROVE  Parts(x, y, m, v, E, w)
    <3>0. /\ ~Cat(x, m, a)
          /\ Cat(x, m, b) => m = <<k[2]>>
          /\ Cat(x, m, c) => m = <<k[3]>> \/ m = <<k[2], k[3]>>
      <4>1. Open \in Atoms /\ Cat(g, <<Open>>, a)
        BY <2>p, <2>t, <2>v, Zenon
      <4> DEFINE e == k[2]  d == k[3]
      <4>2. e \in Atoms /\ d \in Atoms /\ Cat(a, <<e>>, b) /\ Cat(b, <<d>>, c) /\ m # <<>>
        BY <2>4, <2>p, <2>t, Zenon
      <4> HIDE DEF e, d
      <4>3. /\ ~Cat(x, m, a)
            /\ Cat(x, m, b) => m = <<e>>
            /\ Cat(x, m, c) => m = <<d>> \/ m = <<e, d>>
        BY <4>1, <4>2, TokenBegun, Zenon
      <4> QED
        BY <4>3, Zenon DEF e, d
    <3>a. m # <<k[2]>> /\ m # <<k[3]>> /\ m # <<k[2], k[3]>>
      BY <2>4 DEF Apart
    <3>z. z # a /\ z # b /\ z # c
      BY <2>4, <3>0, <3>a, Zenon
    <3>1. CASE y = <<>>
      BY <1>q, <2>2, <2>4, <3>1, Zenon
    <3>2. CASE y # <<>>
      <4>1. PICK y1 \in Seq(Atoms) : Cat(y1, <<k[4]>>, y) /\ Cat(z, y1, c)
        BY <2>t, <2>p, <2>4, <3>2, PeelAtom
      <4>e. ASSUME NEW n, n = <<>>, NEW d, Cat(z, n, d)
            PROVE  d = z
        <5>1. z \o <<>> = z
          BY ConcatEmptySeq
        <5> QED
          BY <4>e, <5>1, Zenon DEF Cat
      <4>2. PICK y2 \in Seq(Atoms) : Cat(y2, <<k[3]>>, y1) /\ Cat(z, y2, b)
        <5>2. y1 # <<>>
          BY <3>z, <4>1, <4>e
        <5> QED
          BY <2>t, <2>p, <4>1, <5>2, PeelAtom
      <4>3. PICK y3 \in Seq(Atoms) : Cat(y3, <<k[2]>>, y2) /\ Cat(z, y3, a)
        <5>2. y2 # <<>>
          BY <3>z, <4>2, <4>e
        <5> QED
          BY <2>t, <2>p, <4>2, <5>2, PeelAtom
      <4>4. PICK y4 \in Seq(Atoms) : Cat(y4, <<k[1]>>, y3) /\ Cat(z, y4, g)
        <5>2. y3 # <<>>
          BY <3>z, <4>3, <4>e
        <5> QED
          BY <2>t, <2>p, <4>3, <5>2, PeelAtom
      <4>5. Cat(y4, k, y)
        <5>1. y4 \o k = (((y4 \o <<k[1]>>) \o <<k[2]>>) \o <<k[3]>>) \o <<k[4]>>
          BY <2>v, TokenAppend, Zenon
        <5>2. y1 \o <<k[4]>> = y /\ y2 \o <<k[3]>> = y1 /\ y3 \o <<k[2]>> = y2 /\ y4 \o <<k[1]>> = y3
          BY <4>1, <4>2, <4>3, <4>4, Zenon DEF Cat
        <5>3. y4 \o k = y
          BY <5>1, <5>2, Zenon
        <5> QED
          BY <5>3 DEF Cat
      <4>6. ASSUME NEW q, Spells(y4, q, E, w)
            PROVE  Spells(y, q \o w[k], E, w)
        <5>1. Spells(y4 \o k, q \o w[k], E, w)
          BY <4>6, SpellsToken
        <5> QED
          BY <4>5, <5>1, Zenon DEF Cat
      <4> QED
        BY <1>r, <2>1, <2>4, <2>c, <2>v, <4>4, <4>6, Zenon
    <3> QED
      BY <3>1, <3>2
  <2>5. SplitsAlike(u, v, E, w)
    BY <2>4 DEF SplitsAlike
  <2>6. <<u, v>> \in Q
    BY <2>2, <2>3, <2>5 DEF Q
  <2> QED
    BY <2>6 DEF u, v
<1>4. ClosedUnder(Q, E, w)
  <2> HIDE DEF Q
  <2> QED
    BY <1>1, <1>2, <1>3 DEF ClosedUnder
<1>5. <<t, o>> \in Q
  <2> HIDE DEF Q
  <2> QED
    BY <1>4, SpellsInduct
<1> QED
  BY <1>5

-----------------------------------------------------------------------------
(* The round trip: the output filter                                       *)

\* Every phrase of the dictionary is one atom.
AtomPhrases == \A p \in Dictionary : Len(p) = 1

LEMMA MasksAtom ==
  ASSUME AtomPhrases, NEW t \in Seq(Atoms), NEW i \in 1..Len(t)
  PROVE  Masks(t, i) <=> t[i] \in Keyworded /\ ~InsideBrackets(t, i)
<1>0. Len(t) \in Nat
  BY LenProperties
<1>1. ASSUME NEW p \in Dictionary, NEW j \in 1..i
      PROVE  /\ i < j + Len(p) => j = i
             /\ Occurs(t, p, i) <=> t[i] = p[1]
  <2>1. p \in Seq(Atoms) /\ Len(p) = 1
    BY DictionaryAssumption DEF AtomPhrases
  <2>0. i \in Nat
    BY <1>0
  <2>2. Occurs(t, p, i) <=> MatchesAt(t, p, i)
    BY <2>0, <2>1, OccursByAtoms, Zenon
  <2>3. Occurs(t, p, i) <=> t[i] = p[1]
    <3>1. i + 1 - 1 = i /\ i + 1 - 1 <= Len(t) /\ i >= 1 /\ 1..1 = {1}
      BY <1>0
    <3> QED
      BY <2>1, <2>2, <3>1 DEF MatchesAt
  <2>4. i < j + Len(p) => j = i
    BY <2>1
  <2> QED
    BY <2>3, <2>4
<1>2. i \in 1..i /\ \A p \in Dictionary : i < i + Len(p)
  BY DEF AtomPhrases
<1>3. ASSUME Masks(t, i)
      PROVE  t[i] \in Keyworded /\ ~InsideBrackets(t, i)
  <2>1. PICK j \in 1..i : ~InsideBrackets(t, j) /\ \E p \in PhrasesAt(t, j) : i < j + Len(p)
    BY <1>3, Zenon DEF Masks
  <2>2. PICK p \in Dictionary : Occurs(t, p, j) /\ i < j + Len(p)
    BY <2>1, Zenon DEF PhrasesAt
  <2>3. j = i /\ t[i] = p[1]
    BY <1>1, <2>2
  <2> QED
    BY <2>1, <2>3, Zenon DEF Keyworded
<1>4. ASSUME t[i] \in Keyworded, ~InsideBrackets(t, i)
      PROVE  Masks(t, i)
  <2>1. PICK p \in Dictionary : t[i] = p[1]
    BY <1>4, Zenon DEF Keyworded
  <2>2. p \in PhrasesAt(t, i) /\ i < i + Len(p)
    BY <1>1, <1>2, <2>1, Zenon DEF PhrasesAt
  <2> QED
    BY <1>2, <1>4, <2>2, Zenon DEF Masks
<1> QED
  BY <1>3, <1>4

\* The filter, atom by atom.
LEMMA FilterAt ==
  ASSUME AtomPhrases, NEW t \in Seq(Atoms)
  PROVE  /\ FilterOutput(t) \in Seq(Atoms) /\ Len(FilterOutput(t)) = Len(t) /\ Len(t) \in Nat
         /\ \A i \in 1..Len(t) : FilterOutput(t)[i] =
              IF t[i] \in Keyworded /\ ~InsideBrackets(t, i) THEN Stars ELSE t[i]
<1> DEFINE F == FilterOutput(t)
<1>1. Len(t) \in Nat /\ DOMAIN t = 1..Len(t)
  BY LenProperties
<1>2. F = [i \in 1..Len(t) |-> IF Masks(t, i) THEN Stars ELSE t[i]]
  BY <1>1, Zenon DEF FilterOutput
<1>3. DOMAIN F = 1..Len(t) /\ \A i \in 1..Len(t) : F[i] =
        IF t[i] \in Keyworded /\ ~InsideBrackets(t, i) THEN Stars ELSE t[i]
  BY <1>2, MasksAtom, Zenon
<1>4. F \in Seq(Atoms)
  BY FilterTyped
<1> HIDE DEF F
<1>5. Len(F) = Len(t)
  <2>1. Len(F) \in Nat /\ DOMAIN F = 1..Len(F)
    BY <1>4, LenProperties
  <2> QED
    BY <1>1, <1>3, <2>1
<1> QED
  BY <1>1, <1>3, <1>4, <1>5 DEF F

\* What the filter makes of an atom behind t.
Dimmed(t, a) == IF a \in Keyworded /\ ~Within(t) THEN Stars ELSE a

\* The filter reads a text from left to right.
LEMMA FilterAppend ==
  ASSUME AtomPhrases, NEW t \in Seq(Atoms), NEW a \in Atoms
  PROVE  FilterOutput(t \o <<a>>) = FilterOutput(t) \o <<Dimmed(t, a)>>
<1> DEFINE u == t \o <<a>>  b == Dimmed(t, a)  F == FilterOutput(u)  G == FilterOutput(t)
           H == G \o <<b>>  n == Len(t)
<1>1. u \in Seq(Atoms) /\ n \in Nat /\ Len(u) = n + 1 /\ (\A i \in 1..n : u[i] = t[i]) /\ u[n + 1] = a
  BY AppendAt
<1>2. b \in Atoms
  BY AtomsAssumption DEF Dimmed
<1>3. \A i \in 1..n + 1 : InsideBrackets(u, i) <=> InsideBrackets(t, i)
  <2>1. <<a>> \in Seq(Atoms)
    BY PlainText
  <2> QED
    BY <2>1, InsidePrefix
<1> HIDE DEF u
<1>4. /\ F \in Seq(Atoms) /\ Len(F) = Len(u)
      /\ \A i \in 1..Len(u) : F[i] = IF u[i] \in Keyworded /\ ~InsideBrackets(u, i) THEN Stars ELSE u[i]
  BY <1>1, FilterAt
<1>5. /\ G \in Seq(Atoms) /\ Len(G) = n
      /\ \A i \in 1..n : G[i] = IF t[i] \in Keyworded /\ ~InsideBrackets(t, i) THEN Stars ELSE t[i]
  BY FilterAt
<1> HIDE DEF F, G, b
<1>6. H \in Seq(Atoms) /\ Len(H) = Len(G) + 1 /\ (\A i \in 1..Len(G) : H[i] = G[i]) /\ H[Len(G) + 1] = b
  BY <1>2, <1>5, AppendAt
<1> HIDE DEF H, n
<1>7. Len(H) = n + 1 /\ (\A i \in 1..n : H[i] = G[i]) /\ H[n + 1] = b
  BY <1>5, <1>6
<1>8. ASSUME NEW i \in 1..n
      PROVE  F[i] = H[i]
  <2>1. i \in 1..n + 1 /\ i \in 1..Len(u)
    BY <1>1
  <2>2. F[i] = IF t[i] \in Keyworded /\ ~InsideBrackets(t, i) THEN Stars ELSE t[i]
    BY <1>1, <1>3, <1>4, <2>1, Zenon
  <2> QED
    BY <1>5, <1>7, <2>2, Zenon
<1>9. F[n + 1] = H[n + 1]
  <2>1. n + 1 \in 1..n + 1 /\ n + 1 \in 1..Len(u)
    BY <1>1
  <2>2. F[n + 1] = IF a \in Keyworded /\ ~InsideBrackets(t, n + 1) THEN Stars ELSE a
    BY <1>1, <1>3, <1>4, <2>1, Zenon
  <2> QED
    BY <1>7, <2>2, Zenon DEF b, Dimmed, Within, n
<1>10. \A i \in 1..n + 1 : F[i] = H[i]
  BY <1>1, <1>8, <1>9
<1>11. F = H
  BY <1>1, <1>4, <1>6, <1>7, <1>10, SeqEqual
<1> QED
  BY <1>11 DEF F, H, G, b, u

\* Atoms without a phrase pass the filter.
LEMMA FilterKeeps ==
  ASSUME AtomPhrases, NEW t \in Seq(Atoms), NEW v \in Seq(Atoms),
         \A i \in 1..Len(v) : v[i] \notin Keyworded
  PROVE  FilterOutput(t \o v) = FilterOutput(t) \o v
<1> DEFINE u == t \o v  F == FilterOutput(u)  G == FilterOutput(t)  H == G \o v
           n == Len(t)  m == Len(v)
<1>1. /\ u \in Seq(Atoms) /\ n \in Nat /\ m \in Nat /\ Len(u) = n + m
      /\ \A i \in 1..n + m : u[i] = IF i <= n THEN t[i] ELSE v[i - n]
  BY ConcatProperties, LenProperties
<1>2. \A i \in 1..n + 1 : InsideBrackets(u, i) <=> InsideBrackets(t, i)
  BY InsidePrefix
<1> HIDE DEF u
<1>3. /\ F \in Seq(Atoms) /\ Len(F) = Len(u)
      /\ \A i \in 1..Len(u) : F[i] = IF u[i] \in Keyworded /\ ~InsideBrackets(u, i) THEN Stars ELSE u[i]
  BY <1>1, FilterAt
<1>4. /\ G \in Seq(Atoms) /\ Len(G) = n
      /\ \A i \in 1..n : G[i] = IF t[i] \in Keyworded /\ ~InsideBrackets(t, i) THEN Stars ELSE t[i]
  BY FilterAt
<1> HIDE DEF F, G
<1>5. /\ H \in Seq(Atoms) /\ Len(H) = Len(G) + m
      /\ \A i \in 1..Len(G) + m : H[i] = IF i <= Len(G) THEN G[i] ELSE v[i - Len(G)]
  BY <1>4, ConcatProperties
<1>k. \A i \in 1..m : v[i] \notin Keyworded
  OBVIOUS
<1> HIDE DEF H, n, m
<1>6. /\ Len(H) = n + m
      /\ \A i \in 1..n + m : H[i] = IF i <= n THEN G[i] ELSE v[i - n]
  BY <1>4, <1>5, Zenon
<1>7. ASSUME NEW i \in 1..n + m
      PROVE  F[i] = H[i]
  <2>0. i \in 1..Len(u)
    BY <1>1
  <2>1. CASE i <= n
    <3>1. i \in 1..n + 1 /\ i \in 1..n
      BY <1>1, <2>1
    <3>2. F[i] = IF t[i] \in Keyworded /\ ~InsideBrackets(t, i) THEN Stars ELSE t[i]
      BY <1>1, <1>2, <1>3, <2>0, <2>1, <3>1, Zenon
    <3> QED
      BY <1>4, <1>6, <2>1, <3>1, <3>2, Zenon
  <2>2. CASE ~(i <= n)
    <3>1. i - n \in 1..m
      BY <1>1, <2>2
    <3>2. u[i] = v[i - n] /\ H[i] = v[i - n] /\ v[i - n] \notin Keyworded
      BY <1>1, <1>6, <1>k, <2>2, <3>1, Zenon
    <3> QED
      BY <1>3, <2>0, <3>2, Zenon
  <2> QED
    BY <2>1, <2>2
<1>8. F = H
  BY <1>1, <1>3, <1>5, <1>6, <1>7, SeqEqual
<1> QED
  BY <1>8 DEF F, H, G, u

\* A placeholder passes the filter.
LEMMA FilterToken ==
  ASSUME AtomPhrases, NEW t \in Seq(Atoms), NEW k \in Seq(Atoms), Len(k) = 4, k[1] = Open, k[2] \in Plain,
         k[3] \in Plain, Open \notin Keyworded
  PROVE  FilterOutput(t \o k) = FilterOutput(t) \o k
<1>1. k[1] \in Atoms /\ k[2] \in Atoms /\ k[3] \in Atoms /\ k[4] \in Atoms
  BY TokenSteps, Zenon
<1>2. PICK a \in Seq(Atoms), b \in Seq(Atoms), c \in Seq(Atoms) :
        Cat(t, <<k[1]>>, a) /\ Cat(a, <<k[2]>>, b) /\ Cat(b, <<k[3]>>, c) /\ Cat(c, <<k[4]>>, t \o k)
  BY TokenSteps, Zenon
<1>3. a = t \o <<k[1]>> /\ b = a \o <<k[2]>> /\ c = b \o <<k[3]>> /\ t \o k = c \o <<k[4]>>
  BY <1>2, Zenon DEF Cat
<1>4. Within(a) /\ Within(b) /\ Within(c)
  <2>1. Within(a)
    BY <1>1, <1>3, WithinAppend, Zenon
  <2>2. Within(b)
    BY <1>1, <1>3, <2>1, PlainText, WithinAppend, Zenon
  <2>3. Within(c)
    BY <1>1, <1>3, <2>2, PlainText, WithinAppend, Zenon
  <2> QED
    BY <2>1, <2>2, <2>3
<1>5. /\ Dimmed(t, k[1]) = k[1] /\ Dimmed(a, k[2]) = k[2]
      /\ Dimmed(b, k[3]) = k[3] /\ Dimmed(c, k[4]) = k[4]
  BY <1>4, Zenon DEF Dimmed
<1> DEFINE f == FilterOutput(t)
<1>6. /\ FilterOutput(a) = f \o <<k[1]>> /\ FilterOutput(b) = FilterOutput(a) \o <<k[2]>>
      /\ FilterOutput(c) = FilterOutput(b) \o <<k[3]>>
      /\ FilterOutput(t \o k) = FilterOutput(c) \o <<k[4]>>
  <2>1. FilterOutput(t \o <<k[1]>>) = f \o <<Dimmed(t, k[1])>>
    BY <1>1, FilterAppend
  <2>2. FilterOutput(a \o <<k[2]>>) = FilterOutput(a) \o <<Dimmed(a, k[2])>>
    BY <1>1, FilterAppend
  <2>3. FilterOutput(b \o <<k[3]>>) = FilterOutput(b) \o <<Dimmed(b, k[3])>>
    BY <1>1, FilterAppend
  <2>4. FilterOutput(c \o <<k[4]>>) = FilterOutput(c) \o <<Dimmed(c, k[4])>>
    BY <1>1, FilterAppend
  <2>5. FilterOutput(a) = f \o <<k[1]>>
    BY <1>3, <1>5, <2>1, Zenon
  <2>6. FilterOutput(b) = FilterOutput(a) \o <<k[2]>>
    BY <1>3, <1>5, <2>2, Zenon
  <2>7. FilterOutput(c) = FilterOutput(b) \o <<k[3]>>
    BY <1>3, <1>5, <2>3, Zenon
  <2>8. FilterOutput(t \o k) = FilterOutput(c) \o <<k[4]>>
    BY <1>3, <1>5, <2>4, Zenon
  <2> QED
    BY <2>5, <2>6, <2>7, <2>8
<1>7. f \in Seq(Atoms)
  BY FilterAt
<1> HIDE DEF f
<1>8. f \o k = (((f \o <<k[1]>>) \o <<k[2]>>) \o <<k[3]>>) \o <<k[4]>>
  BY <1>7, TokenAppend, Zenon
<1>9. FilterOutput(t \o k) = f \o k
  BY <1>6, <1>8, Zenon
<1> QED
  BY <1>9 DEF f

\* A plain text opens no bracket.
LEMMA PlainOutside ==
  ASSUME NEW t \in Seq(Plain)
  PROVE  ~Within(t)
<1>1. Len(t) \in Nat /\ \A i \in 1..Len(t) : t[i] \in Plain
  BY LenProperties, ElementOfSeq
<1>2. \A i \in 1..Len(t) : t[i] # Open
  BY <1>1, PlainText
<1>3. (Len(t) + 1) - 1 = Len(t)
  BY <1>1
<1> QED
  BY <1>2, <1>3, Zenon DEF Within, InsideBrackets

\* Filtering and spelling commute.
LEMMA SpellsFilter ==
  ASSUME AtomPhrases, NEW E, NEW w, Vocabulary(E, w), Open \notin Keyworded, NEW t, NEW o,
         Spells(t, o, E, w)
  PROVE  Spells(FilterOutput(t), FilterOutput(o), E, w)
<1> DEFINE Q == {p \in Seq(Atoms) \X Seq(Atoms) :
                   Spells(p[1], p[2], E, w) /\ Spells(FilterOutput(p[1]), FilterOutput(p[2]), E, w)}
<1>e. <<>> \in Seq(Atoms)
  BY EmptySeq
<1>n. Spells(<<>>, <<>>, E, w)
  BY SpellsNothing
<1>1. <<<<>>, <<>>>> \in Q
  <2>1. FilterOutput(<<>>) = <<>>
    <3>1. FilterOutput(<<>>) \in Seq(Atoms) /\ Len(FilterOutput(<<>>)) = Len(<<>>)
      BY <1>e, FilterAt
    <3>2. Len(FilterOutput(<<>>)) = 0
      BY <3>1
    <3> QED
      BY <3>1, <3>2, EmptySeq
  <2> QED
    BY <1>e, <1>n, <2>1
<1>2. ASSUME NEW x \in Seq(Atoms), NEW y \in Seq(Atoms), <<x, y>> \in Q, NEW a \in Plain
      PROVE  <<x \o <<a>>, y \o <<a>>>> \in Q
  <2> DEFINE u == x \o <<a>>  v == y \o <<a>>  b == IF a \in Keyworded THEN Stars ELSE a
  <2>1. Spells(x, y, E, w) /\ Spells(FilterOutput(x), FilterOutput(y), E, w)
    BY <1>2
  <2> HIDE DEF Q
  <2>2. u \in Seq(Atoms) /\ v \in Seq(Atoms) /\ a \in Atoms
    BY PlainText, AppendAt
  <2>3. Spells(u, v, E, w)
    BY <2>1, SpellsAtom
  <2>4. ~Within(x) /\ ~Within(y)
    BY <2>1, SpellsShape, PlainOutside, Zenon
  <2>5. FilterOutput(u) = FilterOutput(x) \o <<Dimmed(x, a)>> /\ FilterOutput(v) = FilterOutput(y) \o <<Dimmed(y, a)>>
    BY <2>2, FilterAppend
  <2>6. Dimmed(x, a) = b /\ Dimmed(y, a) = b
    BY <2>4, Zenon DEF Dimmed
  <2>7. b \in Plain
    BY AtomsAssumption DEF Plain, Stars, Open, Close
  <2> HIDE DEF u, v, b
  <2>8. Spells(FilterOutput(x) \o <<b>>, FilterOutput(y) \o <<b>>, E, w)
    BY <2>1, <2>7, SpellsAtom
  <2>9. Spells(FilterOutput(u), FilterOutput(v), E, w)
    BY <2>5, <2>6, <2>8, Zenon
  <2>10. <<u, v>> \in Q
    BY <2>2, <2>3, <2>9 DEF Q
  <2> QED
    BY <2>10 DEF u, v
<1>3. ASSUME NEW x \in Seq(Atoms), NEW y \in Seq(Atoms), <<x, y>> \in Q, NEW k \in E
      PROVE  <<x \o k, y \o w[k]>> \in Q
  <2> DEFINE u == x \o k  b == w[k]  v == y \o b
  <2>1. Spells(x, y, E, w) /\ Spells(FilterOutput(x), FilterOutput(y), E, w)
    BY <1>3
  <2> HIDE DEF Q
  <2>2. Spells(u, v, E, w)
    BY <2>1, SpellsToken
  <2>3. u \in Seq(Atoms) /\ v \in Seq(Atoms)
    BY <2>2 DEF Spells
  <2>4. /\ k \in Seq(Atoms) /\ Len(k) = 4 /\ k[1] = Open /\ k[2] \in Plain /\ k[3] \in Plain
        /\ b \in Seq(Atoms) /\ \A i \in 1..Len(b) : b[i] \notin Keyworded
    BY PlainText DEF Vocabulary
  <2>5. FilterOutput(u) = FilterOutput(x) \o k
    BY <2>4, FilterToken
  <2>6. FilterOutput(v) = FilterOutput(y) \o b
    <3> HIDE DEF b
    <3> QED
      BY <2>4, FilterKeeps
  <2>7. Spells(FilterOutput(x) \o k, FilterOutput(y) \o b, E, w)
    BY <2>1, SpellsToken
  <2> HIDE DEF u, v
  <2>9. Spells(FilterOutput(u), FilterOutput(v), E, w)
    BY <2>5, <2>6, <2>7, Zenon
  <2>10. <<u, v>> \in Q
    BY <2>2, <2>3, <2>9 DEF Q
  <2> QED
    BY <2>10 DEF u, v
<1>4. ClosedUnder(Q, E, w)
  <2> HIDE DEF Q
  <2> QED
    BY <1>1, <1>2, <1>3 DEF ClosedUnder
<1>5. <<t, o>> \in Q
  <2> HIDE DEF Q
  <2> QED
    BY <1>4, SpellsInduct
<1> QED
  BY <1>5

-----------------------------------------------------------------------------
(* The round trip: restoring one entry                                     *)

Tokenlike(p) == Len(p) = 4 /\ p[1] = Open

\* Replacing a placeholder in one text after another.
LEMMA ReplaceWholeJoin ==
  ASSUME NEW a \in Seq(Atoms), NEW b \in Seq(Atoms), Whole(a),
         NEW p \in Seq(Atoms), Tokenlike(p), NEW v \in Seq(Atoms)
  PROVE  Cat(Replace(a, p, v), Replace(b, p, v), Replace(a \o b, p, v))
<1>b. Len(p) = 4 /\ p[1] = Open
  BY DEF Tokenlike
<1> DEFINE c == a \o b  n == Len(a)
<1>1. /\ n \in Nat /\ c \in Seq(Atoms) /\ Len(c) = n + Len(b)
      /\ \A j \in 1..n + Len(b) : c[j] = IF j <= n THEN a[j] ELSE b[j - n]
  BY ConcatProperties, LenProperties
<1>2. ASSUME NEW i \in 1..n, i + Len(p) - 1 > n
      PROVE  ~Occurs(c, p, i)
  <2>1. i \in Int /\ Len(b) \in Nat
    BY LenProperties
  <2>2. c[i] = a[i]
    <3> HIDE DEF c, n
    <3> QED
      BY <1>1, <2>1
  <2>3. Occurs(c, p, i) => c[i] = p[1]
    <3> HIDE DEF c
    <3> QED
      BY <1>1, <1>b, <2>1, OccursToken
  <2>4. a[i] = Open => i + 3 <= n
    BY DEF Whole
  <2> HIDE DEF c, n
  <2> QED
    BY <1>1, <1>2, <1>b, <2>1, <2>2, <2>3, <2>4
<1>3. ~Straddles(a, b, p)
  BY <1>2 DEF Straddles
<1>4. Len(p) >= 1
  BY <1>b
<1>5. Replace(a \o b, p, v) = Replace(a, p, v) \o Replace(b, p, v)
  BY <1>3, <1>4, ReplaceJoin
<1> QED
  BY <1>5 DEF Cat

\* A placeholder is nowhere in a text shorter than it, nor in another one.
LEMMA OccursNot ==
  ASSUME NEW p \in Seq(Atoms), Len(p) = 4, NEW t \in Seq(Atoms), Len(t) <= 4, t # p
  PROVE  \A i \in Int : ~Occurs(t, p, i)
<1> SUFFICES ASSUME NEW i \in Int, Occurs(t, p, i)
             PROVE  FALSE
  OBVIOUS
<1>1. /\ i >= 1 /\ i + 3 <= Len(t) /\ Len(t) \in Nat
      /\ t[i] = p[1] /\ t[i + 1] = p[2] /\ t[i + 2] = p[3] /\ t[i + 3] = p[4]
  BY OccursToken, LenProperties
<1>2. i = 1 /\ Len(t) = 4
  BY <1>1
<1>3. t[1] = p[1] /\ t[2] = p[2] /\ t[3] = p[3] /\ t[4] = p[4]
  BY <1>1, <1>2
<1>4. Len(t) = Len(p) /\ \A j \in 1..Len(t) : t[j] = p[j]
  <2>1. \A j \in 1..4 : j = 1 \/ j = 2 \/ j = 3 \/ j = 4
    OBVIOUS
  <2>2. \A j \in 1..4 : t[j] = p[j]
    BY <1>3, <2>1, Zenon
  <2> QED
    BY <1>2, <2>2, Zenon
<1> QED
  BY <1>4, SeqEqual, Zenon

\* One pass of the restoration: the text spells the same, without the
\* placeholder.
LEMMA SpellsReplace ==
  ASSUME NEW E, NEW w, Vocabulary(E, w), NEW p \in E, NEW t, NEW o, Spells(t, o, E, w)
  PROVE  Spells(Replace(t, p, w[p]), o, E \ {p}, w)
<1> DEFINE v == w[p]  F == E \ {p}
           Q == {q \in Seq(Atoms) \X Seq(Atoms) :
                   Spells(q[1], q[2], E, w) /\ Spells(Replace(q[1], p, v), q[2], F, w)}
<1>1. /\ p \in Seq(Atoms) /\ Len(p) = 4 /\ p[1] = Open /\ v \in Seq(Plain) /\ v \in Seq(Atoms)
      /\ Len(p) \in Nat
  BY PlainText DEF Vocabulary
<1>2. Vocabulary(F, w)
  BY Zenon DEF Vocabulary
<1> HIDE DEF v, F
<1>3. <<<<>>, <<>>>> \in Q
  <2>1. <<>> \in Seq(Atoms) /\ Len(<<>>) = 0 /\ <<>> # p
    BY <1>1, EmptySeq
  <2>2. Replace(<<>>, p, v) = <<>>
    <3> DEFINE c == <<>>
    <3>1. c \in Seq(Atoms) /\ Len(c) = 0
      BY <2>1
    <3> HIDE DEF c
    <3>2. c # p /\ Len(c) <= 4
      <4>1. Len(c) # Len(p) /\ Len(c) <= 4
        BY <1>1, <3>1
      <4> QED
        BY <4>1, Zenon
    <3>3. \A i \in Int : ~Occurs(c, p, i)
      BY <1>1, <3>1, <3>2, OccursNot, Zenon
    <3>4. Replace(c, p, v) = c
      BY <1>1, <3>1, <3>3, ReplaceNone
    <3> QED
      BY <3>4 DEF c
  <2>4. Spells(<<>>, <<>>, E, w) /\ Spells(<<>>, <<>>, F, w)
    BY SpellsNothing
  <2> QED
    BY <2>1, <2>2, <2>4
<1>j. ASSUME NEW x \in Seq(Atoms), NEW c \in Seq(Atoms), Whole(x)
      PROVE  Replace(x \o c, p, v) = Replace(x, p, v) \o Replace(c, p, v)
  <2> HIDE DEF Q
  <2>1. Tokenlike(p)
    BY <1>1 DEF Tokenlike
  <2>2. Cat(Replace(x, p, v), Replace(c, p, v), Replace(x \o c, p, v))
    BY <1>1, <1>j, <2>1, ReplaceWholeJoin, Zenon
  <2> QED
    BY <2>2 DEF Cat
<1>4. ASSUME NEW x \in Seq(Atoms), NEW y \in Seq(Atoms), <<x, y>> \in Q,
             NEW c \in Seq(Atoms), NEW d \in Seq(Atoms), NEW r,
             Spells(x \o c, y \o d, E, w), Replace(c, p, v) = r,
             Spells(Replace(x, p, v) \o r, y \o d, F, w)
      PROVE  <<x \o c, y \o d>> \in Q
  <2>1. x \o c \in Seq(Atoms) /\ y \o d \in Seq(Atoms)
    BY ConcatProperties
  <2>2. Spells(x, y, E, w)
    BY <1>4
  <2>3. Whole(x)
    BY <2>2, SpellsShape
  <2>4. Replace(x \o c, p, v) = Replace(x, p, v) \o Replace(c, p, v)
    BY <1>j, <2>3, Zenon
  <2>5. Spells(Replace(x \o c, p, v), y \o d, F, w)
    BY <1>4, <2>4, Zenon
  <2> QED
    BY <1>4, <2>1, <2>5
<1>5. ASSUME NEW x \in Seq(Atoms), NEW y \in Seq(Atoms), <<x, y>> \in Q, NEW a \in Plain
      PROVE  <<x \o <<a>>, y \o <<a>>>> \in Q
  <2>1. Spells(x, y, E, w) /\ Spells(Replace(x, p, v), y, F, w)
    BY <1>5
  <2>2. <<a>> \in Seq(Atoms) /\ Len(<<a>>) = 1
    BY PlainText
  <2>3. Spells(x \o <<a>>, y \o <<a>>, E, w)
    BY <2>1, SpellsAtom
  <2>4. Replace(<<a>>, p, v) = <<a>>
    <3> DEFINE c == <<a>>
    <3>1. c \in Seq(Atoms) /\ Len(c) = 1
      BY <2>2
    <3> HIDE DEF c
    <3>2. c # p /\ Len(c) <= 4
      <4>1. Len(c) # Len(p) /\ Len(c) <= 4
        BY <1>1, <3>1
      <4> QED
        BY <4>1, Zenon
    <3>3. \A i \in Int : ~Occurs(c, p, i)
      BY <1>1, <3>1, <3>2, OccursNot, Zenon
    <3>4. Replace(c, p, v) = c
      BY <1>1, <3>1, <3>3, ReplaceNone
    <3> QED
      BY <3>4 DEF c
  <2>5. Spells(Replace(x, p, v) \o <<a>>, y \o <<a>>, F, w)
    BY <2>1, SpellsAtom
  <2> HIDE DEF Q
  <2> QED
    BY <1>4, <1>5, <2>2, <2>3, <2>4, <2>5
<1>6. ASSUME NEW x \in Seq(Atoms), NEW y \in Seq(Atoms), <<x, y>> \in Q, NEW k \in E
      PROVE  <<x \o k, y \o w[k]>> \in Q
  <2> DEFINE d == w[k]
  <2>1. Spells(x, y, E, w) /\ Spells(Replace(x, p, v), y, F, w)
    BY <1>6
  <2>2. k \in Seq(Atoms) /\ Len(k) = 4 /\ d \in Seq(Atoms)
    BY PlainText DEF Vocabulary
  <2>3. Spells(x \o k, y \o d, E, w)
    BY <2>1, SpellsToken
  <2>4. CASE k = p
    <3>1. Replace(k, p, v) = v /\ d = v
      <4>1. Replace(p, p, v) = v
        BY <1>1, ReplaceWhole
      <4> QED
        BY <2>4, <4>1 DEF v
    <3>2. Spells(Replace(x, p, v) \o v, y \o v, F, w)
      BY <1>1, <2>1, SpellsPlain
    <3>3. Spells(Replace(x, p, v) \o v, y \o d, F, w)
      BY <3>1, <3>2, Zenon
    <3> HIDE DEF Q, d
    <3>4. <<x \o k, y \o d>> \in Q
      BY <1>4, <1>6, <2>2, <2>3, <3>1, <3>3, Zenon
    <3> QED
      BY <3>4 DEF d
  <2>5. CASE k # p
    <3>1. k \in F
      BY <2>5 DEF F
    <3>2. \A i \in Int : ~Occurs(k, p, i)
      <4>1. Len(k) <= 4
        BY <2>2
      <4> QED
        BY <1>1, <2>2, <2>5, <4>1, OccursNot, Zenon
    <3>3. Replace(k, p, v) = k
      BY <1>1, <2>2, <3>2, ReplaceNone
    <3>4. Spells(Replace(x, p, v) \o k, y \o d, F, w)
      BY <1>2, <2>1, <3>1, SpellsToken
    <3> HIDE DEF Q, d
    <3>5. <<x \o k, y \o d>> \in Q
      BY <1>4, <1>6, <2>2, <2>3, <3>3, <3>4, Zenon
    <3> QED
      BY <3>5 DEF d
  <2> QED
    BY <2>4, <2>5
<1>7. ClosedUnder(Q, E, w)
  <2> HIDE DEF Q
  <2> QED
    BY <1>3, <1>5, <1>6 DEF ClosedUnder
<1>8. <<t, o>> \in Q
  <2> HIDE DEF Q
  <2> QED
    BY <1>7, SpellsInduct
<1> QED
  BY <1>8 DEF v, F

-----------------------------------------------------------------------------
(* The round trip: the vault's values                                      *)

\* What waits to be replaced was matched by the current rule, and what the
\* vault holds by some rule.
ValuesInv ==
  /\ \A k \in 1..Len(todo) : todo[k].match \in Rules[rule].matches
  /\ \A token \in DOMAIN entries : \E r \in DOMAIN Rules : entries[token] \in Rules[r].matches

LEMMA ValuesInit == Init => ValuesInv
<1> SUFFICES ASSUME Init
             PROVE  ValuesInv
  OBVIOUS
<1>1. Len(todo) = 0 /\ DOMAIN entries = {}
  BY DEF Init
<1> QED
  BY <1>1 DEF ValuesInv

\* find_iter yields matches of the rule.
LEMMA ScanValues ==
  ASSUME NEW S, NEW t \in Seq(S), NEW r \in DOMAIN Rules
  PROVE  \A k \in 1..Len(InOrder(Matches(t, r))) :
           InOrder(Matches(t, r))[k].match \in Rules[r].matches
<1> DEFINE M == Matches(t, r)  s == InOrder(M)  n == Cardinality(M)
<1>1. M \in SUBSET Place /\ IsFiniteSet(M) /\ \A f, g \in M : f.at = g.at => f = g
  BY MatchesTyped
<1>2. \A f \in M : f.match \in Rules[r].matches
  BY DEF Matches, Found
<1> HIDE DEF M
<1>3. \E q \in [1..n -> M] : \A i, j \in DOMAIN q : i < j => q[i].at < q[j].at
  BY <1>1, OrderExists
<1>4. s \in [1..n -> M]
  BY <1>3 DEF InOrder
<1>5. s \in Seq(Place)
  BY ScanFits DEF Fits, M
<1> HIDE DEF s
<1>6. \A k \in 1..Len(s) : s[k] \in M
  BY <1>4, <1>5, LenProperties
<1>7. \A k \in 1..Len(s) : s[k].match \in Rules[r].matches
  BY <1>2, <1>6
<1> QED
  BY <1>7 DEF s, M

\* What a step of the redaction takes from the matches that wait.
LEMMA TakeLast ==
  ASSUME OffsetsInv, todo # <<>>
  PROVE  /\ TakeFrom(todo).head = todo[Len(todo)] /\ Len(todo) \in Nat \ {0}
         /\ Len(TakeFrom(todo).rest) = Len(todo) - 1
         /\ \A k \in 1..Len(todo) - 1 : TakeFrom(todo).rest[k] = todo[k]
         /\ part \in 1..Len(texts) /\ todo[Len(todo)] \in Place
         /\ Occurs(texts[part], todo[Len(todo)].match, todo[Len(todo)].at)
<1> DEFINE n == Len(todo)
<1>1. TakeFrom(todo).head = todo[n] /\ TakeFrom(todo).rest = SubSeq(todo, 1, n - 1)
  BY DEF TakeFrom, Front
<1>2. part \in 1..Len(texts) /\ Fits(todo, texts[part])
  BY DEF OffsetsInv
<1>3. todo \in Seq(Place) /\ n \in Nat \ {0}
  BY <1>2, EmptySeq DEF Fits
<1>4. n \in 1..n
  BY <1>3
<1>5. todo[n] \in Place /\ Occurs(texts[part], todo[n].match, todo[n].at)
  BY <1>2, <1>3, <1>4, ElementOfSeq DEF Fits
<1>6. \A k \in 1..n - 1 : todo[k] \in Place
  BY <1>3, ElementOfSeq
<1>7. /\ Len(SubSeq(todo, 1, n - 1)) = IF 1 <= n - 1 THEN (n - 1) - 1 + 1 ELSE 0
      /\ \A k \in 1..(n - 1) - 1 + 1 : SubSeq(todo, 1, n - 1)[k] = todo[1 + k - 1]
  <2> HIDE DEF n
  <2> QED
    BY <1>3, <1>6, SubSeqProperties, 1 \in Int, n - 1 \in Int
<1> HIDE DEF n
<1>8. (n - 1) - 1 + 1 = n - 1 /\ \A k \in 1..n - 1 : 1 + k - 1 = k
  BY <1>3
<1>9. Len(SubSeq(todo, 1, n - 1)) = n - 1
  BY <1>3, <1>7
<1>10. Len(TakeFrom(todo).rest) = n - 1 /\ \A k \in 1..n - 1 : TakeFrom(todo).rest[k] = todo[k]
  BY <1>1, <1>7, <1>8, <1>9
<1> QED
  BY <1>1, <1>2, <1>3, <1>5, <1>10 DEF n

\* Every step keeps the values those of rules.
LEMMA ValuesStep == ValuesInv /\ OffsetsInv /\ VaultInv /\ [Next]_vars => ValuesInv'
<1> SUFFICES ASSUME ValuesInv, OffsetsInv, VaultInv, [Next]_vars
             PROVE  ValuesInv'
  OBVIOUS
<1>1. ASSUME UNCHANGED <<todo, rule, entries>>
      PROVE  ValuesInv'
  BY <1>1 DEF ValuesInv
<1>2. CASE NextText
  <2>1. Len(todo') = 0 /\ entries' = entries
    BY <1>2 DEF NextText
  <2> QED
    BY <2>1 DEF ValuesInv
<1>3. CASE ScanRule
  <2>1. /\ part <= Len(texts) /\ entries' = entries
        /\ \/ /\ rule \in MaskRules /\ todo' = InOrder(Matches(texts[part], rule))
              /\ todo' # <<>> => rule' = rule
           \/ todo' = <<>>
    BY <1>3, Zenon DEF ScanRule
  <2>2. CASE todo' = <<>>
    <3>1. Len(todo') = 0
      BY <2>2
    <3> QED
      BY <2>1, <3>1 DEF ValuesInv
  <2>3. CASE todo' # <<>>
    <3>1. PICK S : texts \in Seq(Seq(S))
      BY DEF OffsetsInv
    <3>2. texts[part] \in Seq(S) /\ rule \in DOMAIN Rules
      <4>1. part \in 1..Len(texts)
        BY <2>1, <3>1, LenProperties DEF OffsetsInv
      <4> QED
        BY <2>1, <2>3, <3>1, <4>1, ElementOfSeq DEF MaskRules, OfClass
    <3>3. \A k \in 1..Len(todo') : todo'[k].match \in Rules[rule].matches
      BY <2>1, <2>3, <3>2, ScanValues
    <3> QED
      BY <2>1, <2>3, <3>3 DEF ValuesInv
  <2> QED
    BY <2>2, <2>3
<1>4. CASE ReplaceMatch
  <2> DEFINE value == TakeFrom(todo).head.match
             token == PlaceholderFor(Rules[rule].entity, IndexFor(Rules[rule].entity, value))
  <2>1. /\ todo # <<>> /\ todo' = TakeFrom(todo).rest
        /\ rule' = IF TakeFrom(todo).rest = <<>> THEN rule + 1 ELSE rule
        /\ entries' = IF cfg.reversible THEN OrInsert(entries, token, value) ELSE entries
    BY <1>4, Zenon DEF ReplaceMatch
  <2>2. rule \in DOMAIN Rules
    BY <2>1 DEF VaultInv, VaultTypes
  <2> HIDE DEF token
  <2>3. value \in Rules[rule].matches
    <3>1. Len(todo) \in 1..Len(todo) /\ TakeFrom(todo).head = todo[Len(todo)]
      BY <2>1, TakeLast
    <3> QED
      BY <3>1 DEF ValuesInv
  <2> HIDE DEF value
  <2>4. ASSUME NEW k \in 1..Len(todo')
        PROVE  todo'[k].match \in Rules[rule'].matches
    <3>1. k \in 1..Len(todo) - 1 /\ k \in 1..Len(todo) /\ todo'[k] = todo[k]
      BY <2>1, <2>4, TakeLast
    <3>2. todo' # <<>>
      BY <2>4
    <3>3. rule' = rule
      BY <2>1, <3>2
    <3> QED
      BY <3>1, <3>3 DEF ValuesInv
  <2>5. ASSUME NEW x \in DOMAIN entries'
        PROVE  \E r \in DOMAIN Rules : entries'[x] \in Rules[r].matches
    <3>1. CASE ~cfg.reversible
      BY <2>1, <2>5, <3>1 DEF ValuesInv
    <3>2. CASE cfg.reversible
      <4>1. entries' = OrInsert(entries, token, value)
        BY <2>1, <3>2
      <4>2. x \in DOMAIN entries \/ entries'[x] = value
        BY <2>5, <4>1 DEF OrInsert
      <4>3. x \in DOMAIN entries => entries'[x] = entries[x]
        BY <2>5, <4>1 DEF OrInsert
      <4> QED
        BY <2>2, <2>3, <4>2, <4>3 DEF ValuesInv
    <3> QED
      BY <3>1, <3>2
  <2> QED
    BY <2>4, <2>5 DEF ValuesInv
<1>5. CASE CheckInput \/ CheckReject \/ RedactDone \/ Spotlight \/ Reply
  <2>1. UNCHANGED <<todo, rule, entries>>
    BY <1>5, Zenon DEF CheckInput, CheckReject, RedactDone, Spotlight, Reply, redactVars
  <2> QED
    BY <1>1, <2>1
<1>6. CASE FilterAnswer \/ RestoreDone \/ GateCalls \/ CheckSchema
  <2>1. UNCHANGED <<todo, rule, entries>>
    BY <1>6, Zenon DEF FilterAnswer, RestoreDone, GateCalls, CheckSchema, redactVars
  <2> QED
    BY <1>1, <2>1
<1>7. ASSUME NEW token \in left, RestoreEntry(token)
      PROVE  ValuesInv'
  <2>1. UNCHANGED <<todo, rule, entries>>
    BY <1>7, Zenon DEF RestoreEntry, redactVars
  <2> QED
    BY <1>1, <2>1
<1>8. CASE UNCHANGED vars
  BY <1>1, <1>8 DEF vars
<1> QED
  BY <1>2, <1>3, <1>4, <1>5, <1>6, <1>7, <1>8 DEF Next

\* A text without brackets is plain.
LEMMA PlainWhen ==
  ASSUME NEW t \in Seq(Atoms), Range(t) \cap {Open, Close} = {}
  PROVE  t \in Seq(Plain)
<1> DEFINE n == Len(t)
<1>1. n \in Nat /\ DOMAIN t = 1..n /\ t \in [1..n -> Atoms]
  BY LenProperties
<1>2. \A i \in 1..n : t[i] \in Range(t)
  BY <1>1 DEF Range
<1>3. \A i \in 1..n : t[i] \in Plain
  BY <1>1, <1>2 DEF Plain
<1> HIDE DEF n
<1>4. t \in [1..n -> Plain]
  BY <1>1, <1>3
<1> QED
  BY <1>1, <1>4, SeqDef

\* The placeholders of the vault, with their values.
LEMMA VaultVocabulary ==
  ASSUME Nat \ {0} \subseteq DOMAIN Numerals, Legible, VaultInv, ValuesInv, cfg.reversible
  PROVE  /\ Vocabulary(DOMAIN entries, entries)
         /\ \A k \in DOMAIN entries : k[2] \in Entities /\ k[3] \in Range(Numerals)
<1>1. ASSUME NEW k \in DOMAIN entries
      PROVE  /\ k \in Seq(Atoms) /\ Len(k) = 4
             /\ k[1] = Open /\ k[2] \in Plain /\ k[3] \in Plain /\ k[4] = Close
             /\ k[2] \in Entities /\ k[3] \in Range(Numerals)
  <2>1. PICK x \in DOMAIN seen : k = Token(x[1], Numerals[seen[x]])
    BY DEF VaultInv, EntriesOfSeen
  <2> DEFINE e == x[1]  d == Numerals[seen[x]]
  <2>2. e \in Entities /\ seen[x] \in DOMAIN Numerals
    BY DEF VaultInv, VaultTypes
  <2>3. d \in Range(Numerals)
    BY <2>2 DEF Range
  <2>4. d \in Plain /\ e \in Plain /\ Open \in Atoms /\ Close \in Atoms
    <3>1. Entities \subseteq Atoms
      BY EntityTyped DEF Entities
    <3> QED
      BY <2>2, <2>3, <3>1, ConstantsAssumption, AtomsAssumption DEF Legible, Plain
  <2>5. k = <<Open, e, d, Close>>
    BY <2>1 DEF Token
  <2> HIDE DEF e, d
  <2>6. d \in Atoms /\ e \in Atoms
    BY <2>4, PlainText
  <2>7. k \in Seq(Atoms) /\ Len(k) = 4 /\ k[1] = Open /\ k[2] = e /\ k[3] = d /\ k[4] = Close
    <3> HIDE DEF Open, Close
    <3> QED
      BY <2>4, <2>5, <2>6
  <2> QED
    BY <2>2, <2>3, <2>4, <2>7 DEF e
<1>2. ASSUME NEW k \in DOMAIN entries
      PROVE  /\ entries[k] \in Seq(Plain)
             /\ \A i \in 1..Len(entries[k]) : entries[k][i] \notin Keyworded
  <2> DEFINE v == entries[k]
  <2>1. PICK r \in DOMAIN Rules : v \in Rules[r].matches
    BY DEF ValuesInv
  <2>2. v \in Seq(Atoms)
    BY <2>1, RuleTyped
  <2>3. Range(v) \cap ({Open, Close} \cup Keyworded) = {}
    BY <2>1 DEF Legible
  <2> HIDE DEF v
  <2>4. Len(v) \in Nat /\ DOMAIN v = 1..Len(v) /\ \A i \in 1..Len(v) : v[i] \in Atoms
    BY <2>2, LenProperties, ElementOfSeq
  <2>5. \A i \in 1..Len(v) : v[i] \in Range(v)
    BY <2>4 DEF Range
  <2>6. \A i \in 1..Len(v) : v[i] \notin Keyworded
    BY <2>3, <2>5
  <2>7. v \in Seq(Plain)
    BY <2>2, <2>3, PlainWhen
  <2> QED
    BY <2>6, <2>7 DEF v
<1> QED
  BY <1>1, <1>2, Zenon DEF Vocabulary

-----------------------------------------------------------------------------
(* The round trip: the prompt                                              *)

\* The text around a match.
LEMMA SpliceBack ==
  ASSUME NEW t \in Seq(Atoms), NEW f \in Place, Occurs(t, f.match, f.at)
  PROVE  \E x, y, z \in Seq(Atoms) :
           /\ Cat(x, f.match, z) /\ Cat(z, y, t)
           /\ \A p : Splice(t, f, p) = (x \o p) \o y
<1> DEFINE a == f.at  m == f.match  x == SubSeq(t, 1, a - 1)
           y == SubSeq(t, a + Len(m), Len(t))  u == Splice(t, f, m)
<1>1. m \in Seq(Atoms) /\ a \in Nat \ {0} /\ Len(m) \in Nat /\ Len(t) \in Nat
      /\ a + Len(m) - 1 <= Len(t)
  BY LenProperties DEF Place, Occurs
<1>2. x \in Seq(Atoms) /\ y \in Seq(Atoms)
  <2>1. \A j \in 1..a - 1 : t[j] \in Atoms
    BY <1>1, ElementOfSeq
  <2>2. \A j \in a + Len(m)..Len(t) : t[j] \in Atoms
    BY <1>1, ElementOfSeq
  <2>3. 1 \in Int /\ a - 1 \in Int /\ a + Len(m) \in Int /\ Len(t) \in Int
    BY <1>1
  <2> HIDE DEF a, m
  <2> QED
    BY <2>1, <2>2, <2>3, SubSeqProperties
<1>3. \A p : Splice(t, f, p) = (x \o p) \o y
  BY DEF Splice
<1>4. /\ u \in Seq(Atoms) /\ Len(u) = Len(t) - Len(m) + Len(m)
      /\ \A j \in 1..Len(t) - Len(m) + Len(m) : u[j] =
           IF j < a THEN t[j] ELSE IF j < a + Len(m) THEN m[j - a + 1] ELSE t[j - Len(m) + Len(m)]
  <2>1. f.match \in Seq(Atoms)
    BY <1>1
  <2>2. Spliced(Atoms, t, f, f.match)
    BY <2>1, SpliceText
  <2> QED
    BY <2>2, Zenon DEF Spliced
<1>5. \A j \in 1..Len(m) : t[a + j - 1] = m[j]
  <2>1. a \in Nat
    BY <1>1
  <2>2. Occurs(t, m, a)
    OBVIOUS
  <2> HIDE DEF a, m
  <2>3. MatchesAt(t, m, a)
    BY <1>1, <2>1, <2>2, OccursByAtoms
  <2> QED
    BY <2>3, Zenon DEF MatchesAt
<1> HIDE DEF a, m, x, y, u
<1>6. Len(u) = Len(t) /\ Len(t) - Len(m) + Len(m) = Len(t)
  BY <1>1, <1>4
<1>7. ASSUME NEW j \in 1..Len(t)
      PROVE  u[j] = t[j]
  <2>1. u[j] = IF j < a THEN t[j] ELSE IF j < a + Len(m) THEN m[j - a + 1] ELSE t[j - Len(m) + Len(m)]
    BY <1>4, <1>6, Zenon
  <2>2. CASE j < a
    BY <2>1, <2>2
  <2>3. CASE ~(j < a) /\ j < a + Len(m)
    <3> DEFINE d == j - a + 1
    <3>1. d \in 1..Len(m) /\ a + d - 1 = j
      BY <1>1, <2>3
    <3>2. u[j] = m[d]
      BY <2>1, <2>3
    <3> HIDE DEF d
    <3>3. t[a + d - 1] = m[d]
      BY <1>5, <3>1, Zenon
    <3> QED
      BY <3>1, <3>2, <3>3, Zenon
  <2>4. CASE ~(j < a) /\ ~(j < a + Len(m))
    <3>1. j - Len(m) + Len(m) = j
      BY <1>1
    <3> QED
      BY <2>1, <2>4, <3>1
  <2> QED
    BY <2>2, <2>3, <2>4
<1>8. u = t
  <2>1. \A j \in 1..Len(u) : u[j] = t[j]
    BY <1>6, <1>7, Zenon
  <2> QED
    BY <1>4, <1>6, <2>1, SeqEqual, Zenon
<1> DEFINE z == x \o m
<1>9. z \in Seq(Atoms)
  BY <1>1, <1>2, ConcatProperties
<1>10. Cat(x, m, z) /\ Cat(z, y, t)
  <2>1. t = (x \o m) \o y
    BY <1>3, <1>8, Zenon DEF u
  <2> QED
    BY <2>1, Zenon DEF Cat
<1> HIDE DEF z
<1>11. Cat(x, f.match, z)
  BY <1>10 DEF m
<1> QED
  BY <1>2, <1>3, <1>9, <1>10, <1>11, Zenon

\* As long as nothing was forged, the texts spell those that came.
SpelledInv ==
  cfg.reversible /\ NoForgery =>
    \A i \in DOMAIN texts : Spells(texts[i], req.texts[i].text, DOMAIN entries, entries)

LEMMA SpelledInit == Init => SpelledInv
<1> SUFFICES ASSUME Init, NoForgery, NEW i \in DOMAIN texts
             PROVE  Spells(texts[i], req.texts[i].text, DOMAIN entries, entries)
  BY DEF SpelledInv
<1>1. TypesInv
  BY TypesInit
<1>2. texts = [j \in DOMAIN req.texts |-> req.texts[j].text]
  BY DEF Init, Prompt
<1>3. i \in DOMAIN req.texts /\ texts[i] = req.texts[i].text
  BY <1>2
<1> DEFINE t == texts[i]  E == DOMAIN entries
<1>4. t \in Seq(Atoms)
  BY <1>1, LenProperties, ElementOfSeq DEF TypesInv, PromptTypes
<1>5. Range(t) \cap {Open, Close} = {}
  BY <1>3 DEF NoForgery
<1> HIDE DEF t, E
<1>6. t \in Seq(Plain)
  BY <1>4, <1>5, PlainWhen
<1>7. Spells(<<>>, <<>>, E, entries)
  BY SpellsNothing
<1>8. Spells(<<>> \o t, <<>> \o t, E, entries)
  BY <1>6, <1>7, SpellsPlain
<1>9. <<>> \o t = t
  BY <1>4, ConcatEmptySeq
<1>10. Spells(t, t, E, entries)
  BY <1>8, <1>9, Zenon
<1> QED
  BY <1>3, <1>10, Zenon DEF t, E

\* The vault grows, and what a match is replaced by is looked up to it.
LEMMA StoreGrows ==
  ASSUME Nat \ {0} \subseteq DOMAIN Numerals, VaultInv, ReplaceMatch, cfg.reversible
  PROVE  LET value == TakeFrom(todo).head.match
             token == PlaceholderFor(Rules[rule].entity, IndexFor(Rules[rule].entity, value))
         IN  /\ DOMAIN entries \subseteq DOMAIN entries'
             /\ \A k \in DOMAIN entries : entries'[k] = entries[k]
             /\ token \in DOMAIN entries' /\ entries'[token] = value
<1> DEFINE entity == Rules[rule].entity
           value == TakeFrom(todo).head.match
           index == IndexFor(entity, value)
           token == PlaceholderFor(entity, index)
           y == <<entity, value>>
<1>1. VaultInv'
  BY VaultReplace
<1>2. /\ cfg' = cfg /\ seen' = Insert(seen, y, index)
      /\ entries' = IF cfg.reversible THEN OrInsert(entries, token, value) ELSE entries
  BY Zenon DEF ReplaceMatch, inputVars
<1>3. entries' = OrInsert(entries, token, value)
  BY <1>2
<1>4. token = Token(entity, Numerals[index])
  BY DEF PlaceholderFor
<1>5. y[1] = entity /\ y[2] = value
  OBVIOUS
<1> HIDE DEF entity, value, index, token, y
<1>6. y \in DOMAIN seen' /\ seen'[y] = index
  BY <1>2 DEF Insert
<1>7. cfg'.reversible
  BY <1>2
<1>8. /\ Token(y[1], Numerals[seen'[y]]) \in DOMAIN entries'
      /\ entries'[Token(y[1], Numerals[seen'[y]])] = y[2]
  BY <1>1, <1>6, <1>7, Zenon DEF VaultInv, EntriesOfSeen
<1>9. token \in DOMAIN entries' /\ entries'[token] = value
  BY <1>4, <1>5, <1>6, <1>8, Zenon
<1>10. DOMAIN entries' = DOMAIN entries \cup {token} /\ \A k \in DOMAIN entries : entries'[k] = entries[k]
  BY <1>3 DEF OrInsert
<1> QED
  BY <1>9, <1>10 DEF token, index, value, entity

\* What was not forged after a match was replaced was not forged before.
LEMMA ForgedLater ==
  ASSUME req' = req, NoForgery', DOMAIN entries \subseteq DOMAIN entries',
         \A k \in DOMAIN entries : entries'[k] = entries[k]
  PROVE  NoForgery
BY DEF NoForgery

\* Replacing a match by its placeholder keeps what the text spells.
LEMMA SpelledReplace ==
  ASSUME Nat \ {0} \subseteq DOMAIN Numerals, Legible, SpelledInv, ValuesInv, ValuesInv',
         TypesInv, OffsetsInv, VaultInv, ReplaceMatch
  PROVE  SpelledInv'
<1> DEFINE n == Len(todo)  f == todo[n]  t == texts[part]
           value == TakeFrom(todo).head.match
           token == PlaceholderFor(Rules[rule].entity, IndexFor(Rules[rule].entity, value))
           E == DOMAIN entries  F == DOMAIN entries'  u == entries'  o == req.texts[part].text
<1>1. /\ todo # <<>> /\ UNCHANGED <<cfg, req, part>>
      /\ texts' = [texts EXCEPT ![part] = Splice(@, TakeFrom(todo).head, token)]
  BY Zenon DEF ReplaceMatch, inputVars
<1>2. SUFFICES ASSUME cfg.reversible, NoForgery', NEW i \in DOMAIN texts'
               PROVE  Spells(texts'[i], req.texts[i].text, F, u)
  BY <1>1 DEF SpelledInv
<1>3. /\ E \subseteq F /\ \A k \in E : u[k] = entries[k]
      /\ token \in F /\ u[token] = value
  BY <1>2, StoreGrows
<1>4. NoForgery
  BY <1>1, <1>2, <1>3, ForgedLater
<1>5. \A j \in DOMAIN texts : Spells(texts[j], req.texts[j].text, E, entries)
  BY <1>2, <1>4 DEF SpelledInv
<1>6. \A j \in DOMAIN texts : Spells(texts[j], req.texts[j].text, F, u)
  <2> HIDE DEF E, F, u
  <2> QED
    BY <1>3, <1>5, SpellsMore
<1>7. /\ f = TakeFrom(todo).head /\ n \in 1..n /\ f \in Place /\ part \in 1..Len(texts)
      /\ Occurs(t, f.match, f.at)
  BY <1>1, TakeLast
<1>8. /\ texts \in Seq(Seq(Atoms)) /\ part \in DOMAIN texts /\ t \in Seq(Atoms)
  BY <1>7, LenProperties, ElementOfSeq DEF TypesInv, PromptTypes
<1>9. /\ DOMAIN texts' = DOMAIN texts /\ texts'[part] = Splice(t, f, token)
      /\ \A j \in DOMAIN texts : j # part => texts'[j] = texts[j]
  <2> HIDE DEF token
  <2> QED
    BY <1>1, <1>7, <1>8
<1>10. CASE i # part
  BY <1>2, <1>6, <1>9, <1>10, Zenon
<1>11. CASE i = part
  <2>1. PICK x, y, z \in Seq(Atoms) : /\ Cat(x, f.match, z) /\ Cat(z, y, t)
                                      /\ \A p : Splice(t, f, p) = (x \o p) \o y
    <3> HIDE DEF t, f
    <3> QED
      BY <1>7, <1>8, SpliceBack, Zenon
  <2>2. Vocabulary(E, entries) /\ \A k \in E : k[2] \in Entities /\ k[3] \in Range(Numerals)
    BY <1>2, VaultVocabulary
  <2>3. Vocabulary(F, u)
    <3>1. VaultInv' /\ cfg'.reversible
      BY <1>1, <1>2, VaultReplace
    <3>2. (VaultInv /\ ValuesInv /\ cfg.reversible => Vocabulary(DOMAIN entries, entries))'
      BY VaultVocabulary, PTL
    <3> QED
      BY <3>1, <3>2
  <2>4. f.match = value /\ value \in Rules[rule].matches /\ rule \in DOMAIN Rules
    BY <1>1, <1>7 DEF ValuesInv, VaultInv, VaultTypes
  <2>5. value \in Seq(Plain) /\ value # <<>> /\ \A e \in Entities : value # <<e>>
    <3>1. value \in Seq(Atoms) /\ Range(value) \cap {Open, Close} = {}
      BY <2>4, RuleTyped DEF Legible
    <3>2. value # <<>> /\ \A e \in Entities : value # <<e>>
      BY <2>4, RulesAssumption DEF Legible
    <3> QED
      BY <3>1, <3>2, PlainWhen
  <2>6. Apart(value, E)
    <3>1. Range(value) \cap Range(Numerals) = {}
      BY <1>2, <1>3 DEF NoForgery
    <3> HIDE DEF value, E
    <3>2. ASSUME NEW k \in E
          PROVE  value # <<k[3]>> /\ value # <<k[2], k[3]>>
      <4>1. k[3] \in Range(<<k[3]>>) /\ k[3] \in Range(<<k[2], k[3]>>)
        BY DEF Range
      <4> QED
        BY <2>2, <3>1, <4>1
    <3> QED
      BY <2>2, <2>5, <3>2 DEF Apart
  <2>7. Spells(t, o, E, entries)
    BY <1>5, <1>8
  <2> HIDE DEF t, f, E, F, u, value, token, o, n
  <2>8. Cat(x, value, z)
    BY <2>1, <2>4, Zenon
  <2>9. Parts(x, y, value, o, E, entries)
    <3>1. SplitsAlike(t, o, E, entries)
      BY <2>2, <2>7, SpellsSplit
    <3> QED
      BY <2>1, <2>5, <2>6, <2>8, <3>1, Zenon DEF SplitsAlike
  <2>10. PICK p, q, r \in Seq(Atoms) :
           Spells(x, p, E, entries) /\ Spells(y, q, E, entries) /\ Cat(p, value, r) /\ Cat(r, q, o)
    BY <2>9, Zenon DEF Parts
  <2>11. Spells(x, p, F, u) /\ Spells(y, q, F, u)
    BY <1>3, <2>10, SpellsMore
  <2>12. Spells(x \o token, p \o u[token], F, u)
    BY <1>3, <2>3, <2>11, SpellsToken
  <2>13. Spells((x \o token) \o y, (p \o u[token]) \o q, F, u)
    BY <2>3, <2>11, <2>12, SpellsJoin
  <2>14. o = (p \o u[token]) \o q
    <3>1. r = p \o u[token]
      BY <1>3, <2>10, Zenon DEF Cat
    <3> QED
      BY <2>10, <3>1, Zenon DEF Cat
  <2>15. texts'[i] = (x \o token) \o y
    BY <1>9, <1>11, <2>1, Zenon
  <2>16. req.texts[i].text = o
    BY <1>11 DEF o
  <2> QED
    BY <2>13, <2>14, <2>15, <2>16, Zenon
<1> QED
  BY <1>10, <1>11

-----------------------------------------------------------------------------
(* The round trip: the answer                                              *)

\* Stages before and after the two that rewrite the answer.
Unfiltered == IF req.endpoint = "chat" THEN {"filter"} ELSE {"gate", "schema", "filter"}
Restored == IF req.endpoint = "chat" THEN {"gate", "schema"} ELSE {}

\* Texts that spell others, joined, spell those joined.
LEMMA JoinSpells ==
  ASSUME NEW E, NEW w, Vocabulary(E, w), NEW ts \in Seq(Seq(Atoms)), NEW us \in Seq(Seq(Atoms)),
         Len(us) = Len(ts), \A i \in 1..Len(ts) : Spells(ts[i], us[i], E, w), NEW S
  PROVE  Spells(Join(ts, S), Join(us, S), E, w)
<1> DEFINE x == JoinParts(ts, S)  y == JoinParts(us, S)  n == Len(ts)
<1>s. Space \in Atoms /\ Space \in Plain
  <2>1. Space \notin {Open, Close}
    BY DEF Space, Open, Close
  <2> QED
    BY <2>1, SpaceTyped, Zenon DEF Plain
<1>1. /\ x \in Seq(Seq(Atoms)) /\ Len(x) = n /\ n \in Nat
      /\ \A i \in 1..n : x[i] = JoinPart(ts, S, i)
      /\ Join(ts, S) = FlattenSeq(x)
  BY <1>s, JoinTyped
<1>2. /\ y \in Seq(Seq(Atoms)) /\ Len(y) = n
      /\ \A i \in 1..n : y[i] = JoinPart(us, S, i)
      /\ Join(us, S) = FlattenSeq(y)
  BY <1>s, JoinTyped
<1>n. Spells(<<>>, <<>>, E, w)
  BY SpellsNothing
<1>3. ASSUME NEW i \in 1..n
      PROVE  Spells(x[i], y[i], E, w)
  <2>1. x[i] = JoinPart(ts, S, i) /\ y[i] = JoinPart(us, S, i) /\ Spells(ts[i], us[i], E, w)
    BY <1>1, <1>2
  <2> HIDE DEF x, y
  <2>2. CASE i \notin S
    BY <1>n, <2>1, <2>2, Zenon DEF JoinPart
  <2>3. CASE i \in S /\ ~\E j \in S : j < i
    BY <2>1, <2>3, Zenon DEF JoinPart
  <2>4. CASE i \in S /\ \E j \in S : j < i
    <3>1. x[i] = <<Space>> \o ts[i] /\ y[i] = <<Space>> \o us[i]
      BY <2>1, <2>4, Zenon DEF JoinPart
    <3>2. Spells(<<>> \o <<Space>>, <<>> \o <<Space>>, E, w)
      BY <1>s, <1>n, SpellsAtom
    <3>3. <<>> \o <<Space>> = <<Space>>
      OBVIOUS
    <3>4. Spells(<<Space>>, <<Space>>, E, w)
      BY <3>2, <3>3, Zenon
    <3>5. Spells(<<Space>> \o ts[i], <<Space>> \o us[i], E, w)
      BY <2>1, <3>4, SpellsJoin
    <3> QED
      BY <3>1, <3>5, Zenon
  <2> QED
    BY <2>2, <2>3, <2>4
<1> HIDE DEF x, y, n
<1>4. PICK h \in [0..Len(x) -> Seq(Atoms)] : Joined(x, h)
  BY <1>1, FlattenJoins
<1>5. PICK g \in [0..Len(y) -> Seq(Atoms)] : Joined(y, g)
  BY <1>2, FlattenJoins
<1>6. /\ h[0] = <<>> /\ g[0] = <<>> /\ FlattenSeq(x) = h[n] /\ FlattenSeq(y) = g[n]
      /\ \A k \in 1..n : h[k] = h[k - 1] \o x[k] /\ g[k] = g[k - 1] \o y[k]
  BY <1>1, <1>2, <1>4, <1>5, Zenon DEF Joined
<1> DEFINE Q == {k \in 0..n : Spells(h[k], g[k], E, w)}
<1>7. 0 \in Q
  BY <1>1, <1>6, <1>n
<1>8. ASSUME NEW k \in 0..n - 1, k \in Q
      PROVE  k + 1 \in Q
  <2>1. k + 1 \in 1..n /\ k + 1 \in 0..n /\ (k + 1) - 1 = k
    BY <1>1
  <2>2. Spells(h[k], g[k], E, w)
    BY <1>8
  <2>3. Spells(h[k] \o x[k + 1], g[k] \o y[k + 1], E, w)
    BY <1>3, <2>1, <2>2, SpellsJoin
  <2>4. h[k + 1] = h[k] \o x[k + 1] /\ g[k + 1] = g[k] \o y[k + 1]
    BY <1>6, <2>1
  <2>5. Spells(h[k + 1], g[k + 1], E, w)
    BY <2>3, <2>4, Zenon
  <2> QED
    BY <2>1, <2>5
<1> HIDE DEF Q
<1>9. \A k \in 0..n : k \in Q
  BY <1>1, <1>7, <1>8, InductUpTo
<1>10. n \in 0..n
  BY <1>1
<1>11. Spells(h[n], g[n], E, w)
  BY <1>9, <1>10 DEF Q
<1> QED
  BY <1>1, <1>2, <1>6, <1>11, Zenon

\* What is sent of a message spells the message that came.
LEMMA ContentSpells ==
  ASSUME TypesInv, BlockInv, SpelledInv, ValuesInv, VaultInv, Nat \ {0} \subseteq DOMAIN Numerals,
         Legible, cfg.reversible, NoForgery, NEW i
  PROVE  Spells(Content(i), Came(i), DOMAIN entries, entries)
<1> DEFINE E == DOMAIN entries
<1>1. Vocabulary(E, entries)
  BY VaultVocabulary
<1>2. /\ texts \in Seq(Seq(Atoms)) /\ Prompt \in Seq(Seq(Atoms)) /\ Len(Prompt) = Len(texts)
      /\ DOMAIN texts = 1..Len(texts) /\ DOMAIN Prompt = 1..Len(texts)
  <2>1. req \in Request
    BY InputTyped DEF BlockInv, Course
  <2> QED
    BY <2>1, PromptTyped, LenProperties DEF TypesInv, PromptTypes
<1>3. \A j \in 1..Len(texts) : Spells(texts[j], Prompt[j], E, entries)
  <2> SUFFICES ASSUME NEW j \in 1..Len(texts)
               PROVE  Spells(texts[j], Prompt[j], E, entries)
    OBVIOUS
  <2>1. Spells(texts[j], req.texts[j].text, E, entries)
    BY <1>2 DEF SpelledInv
  <2>2. Prompt[j] = req.texts[j].text
    BY <1>2 DEF Prompt
  <2> QED
    BY <2>1, <2>2, Zenon
<1> HIDE DEF E
<1>4. Spells(Join(texts, Message(i)), Join(Prompt, Message(i)), E, entries)
  BY <1>1, <1>2, <1>3, JoinSpells
<1> QED
  BY <1>4 DEF Content, Came, E

\* An answer that repeats what was sent of the message i is that, then spells
\* the message as the filter leaves it, then is it.
Promise(i) ==
  /\ phase \in Unfiltered => text = reply.text /\ left = DOMAIN entries
  /\ phase = "restore" => Spells(text, FilterOutput(Came(i)), left, entries)
  /\ phase \in Restored \/ result = "answered" => text = FilterOutput(Came(i))

Echoing == cfg.reversible /\ cfg.output /\ cfg.schema = "off" /\ NoForgery

EchoInv == Echoing => \A i \in DOMAIN texts : reply.text = Content(i) => Promise(i)

\* Messages stay what they are once nothing is being redacted.
LEMMA SameMessages ==
  ASSUME UNCHANGED <<req, texts>>
  PROVE  \A i : Content(i)' = Content(i) /\ Came(i)' = Came(i)
BY DEF Content, Came, Join, JoinPart, Message, Prompt

\* Which stage follows which.
LEMMA StageAfter ==
  ASSUME Advance, phase \in {"filter", "restore", "gate", "schema"}, req' = req
  PROVE  /\ phase = "filter" => phase' = "restore" /\ result' = result
         /\ phase \in Restored => phase' \in Restored \/ (phase' = "done" /\ result' = "answered")
         /\ phase = "restore" => phase' \in Restored \/ (phase' = "done" /\ result' = "answered")
         /\ phase \in Unfiltered \ {"filter"} => phase' \in Unfiltered /\ result' = result
         /\ phase \in {"restore"} \cup Restored => phase' = "done" \/ result' = result
<1> DEFINE n == CHOOSE k \in DOMAIN Stages : Stages[k] = phase
<1>1. DOMAIN Stages = 1..4 /\ Len(Stages) = 4
  BY StagesTyped
<1>2. \E k \in DOMAIN Stages : Stages[k] = phase
  <2>1. CASE req.endpoint = "chat"
    BY <1>1, <2>1 DEF Stages
  <2>2. CASE req.endpoint # "chat"
    BY <1>1, <2>2 DEF Stages
  <2> QED
    BY <2>1, <2>2
<1>3. n \in 1..4 /\ Stages[n] = phase
  BY <1>1, <1>2
<1>4. IF n = 4 THEN phase' = "done" /\ result' = "answered"
      ELSE phase' = Stages[n + 1] /\ result' = result
  BY <1>1 DEF Advance
<1> HIDE DEF n
<1>5. CASE req.endpoint = "chat"
  <2>1. /\ Stages[1] = "filter" /\ Stages[2] = "restore" /\ Stages[3] = "gate"
        /\ Stages[4] = "schema"
    BY <1>5 DEF Stages
  <2>2. Unfiltered = {"filter"} /\ Restored = {"gate", "schema"}
    BY <1>5 DEF Unfiltered, Restored
  <2>3. n = 1 \/ n = 2 \/ n = 3 \/ n = 4
    BY <1>3
  <2> QED
    BY <1>3, <1>4, <2>1, <2>2, <2>3
<1>6. CASE req.endpoint # "chat"
  <2>1. /\ Stages[1] = "gate" /\ Stages[2] = "schema" /\ Stages[3] = "filter"
        /\ Stages[4] = "restore"
    BY <1>6 DEF Stages
  <2>2. Unfiltered = {"gate", "schema", "filter"} /\ Restored = {}
    BY <1>6 DEF Unfiltered, Restored
  <2>3. n = 1 \/ n = 2 \/ n = 3 \/ n = 4
    BY <1>3
  <2> QED
    BY <1>3, <1>4, <2>1, <2>2, <2>3
<1> QED
  BY <1>5, <1>6

\* Only the response side can disturb it.
LEMMA EchoEarly ==
  ASSUME Course, phase' \notin {"filter", "restore", "gate", "schema"}, result' # "answered"
  PROVE  EchoInv'
<1>1. Unfiltered' \subseteq {"filter", "gate", "schema"} /\ Restored' \subseteq {"gate", "schema"}
  BY DEF Unfiltered, Restored
<1>2. phase' \notin Unfiltered' /\ phase' # "restore" /\ phase' \notin Restored'
  BY <1>1
<1> QED
  BY <1>2 DEF EchoInv, Promise

\* The upstream answers.
LEMMA EchoReply ==
  ASSUME Course, Reply
  PROVE  EchoInv'
<1>1. /\ UNCHANGED <<cfg, req, texts, entries, result>> /\ phase = "sent" /\ phase' = Stages[1]
      /\ left' = IF cfg.reversible THEN DOMAIN entries ELSE {}
      /\ \E s \in Sayings, c \in CallSets, b \in BOOLEAN :
           reply' = [first |-> b, text |-> s, calls |-> c] /\ text' = s
  BY Zenon DEF Reply, inputVars, redactVars
<1>2. reply'.text = text'
  BY <1>1
<1>3. result = "open"
  BY <1>1 DEF Course
<1>4. phase' # "restore" /\ phase' \notin Restored'
  <2>1. CASE req.endpoint = "chat"
    BY <1>1, <2>1 DEF Stages, Restored
  <2>2. CASE req.endpoint # "chat"
    BY <1>1, <2>2 DEF Stages, Restored
  <2> QED
    BY <2>1, <2>2
<1>5. Echoing' => left' = DOMAIN entries'
  BY <1>1 DEF Echoing
<1> QED
  BY <1>1, <1>2, <1>3, <1>4, <1>5 DEF EchoInv, Promise

LEMMA EchoFilter ==
  ASSUME Nat \ {0} \subseteq DOMAIN Numerals, Legible, BlockInv, EchoInv, SpelledInv, ValuesInv,
         TypesInv, VaultInv, FilterAnswer
  PROVE  EchoInv'
<1>1. /\ UNCHANGED <<cfg, req, texts, entries, reply, left>> /\ phase = "filter" /\ Advance
      /\ text' = IF cfg.output THEN FilterOutput(text) ELSE text
  BY Zenon DEF FilterAnswer, inputVars, redactVars
<1>2. phase' = "restore" /\ result' = result /\ result = "open"
  BY <1>1, StageAfter DEF BlockInv, Course
<1>m. \A i : Content(i)' = Content(i) /\ Came(i)' = Came(i)
  BY <1>1, SameMessages
<1>3. SUFFICES ASSUME Echoing, NEW i \in DOMAIN texts, reply.text = Content(i)
               PROVE  Promise(i)'
  BY <1>1, <1>m DEF EchoInv, Echoing, NoForgery
<1>4. phase \in Unfiltered
  BY <1>1 DEF Unfiltered
<1>5. text = Content(i) /\ left = DOMAIN entries
  BY <1>3, <1>4 DEF EchoInv, Promise
<1>6. Spells(Content(i), Came(i), DOMAIN entries, entries)
  BY <1>3, ContentSpells DEF Echoing
<1>7. Vocabulary(DOMAIN entries, entries)
  BY <1>3, VaultVocabulary DEF Echoing
<1>8. Open \notin Keyworded /\ AtomPhrases
  BY DEF Legible, AtomPhrases
<1>9. Spells(FilterOutput(Content(i)), FilterOutput(Came(i)), DOMAIN entries, entries)
  BY <1>6, <1>7, <1>8, SpellsFilter
<1>10. Spells(text', FilterOutput(Came(i)), left', entries)
  <2>1. text' = FilterOutput(Content(i)) /\ left' = DOMAIN entries
    BY <1>1, <1>3, <1>5 DEF Echoing
  <2> QED
    BY <1>9, <2>1, Zenon
<1>11. phase' \notin Unfiltered' /\ phase' \notin Restored' /\ result' # "answered"
  BY <1>2 DEF Unfiltered, Restored
<1> QED
  BY <1>1, <1>m, <1>10, <1>11, Zenon DEF Promise

LEMMA EchoRestore ==
  ASSUME Nat \ {0} \subseteq DOMAIN Numerals, Legible, Course, EchoInv, TypesInv, ValuesInv,
         VaultInv, NEW token \in left, RestoreEntry(token)
  PROVE  EchoInv'
<1>1. /\ UNCHANGED <<cfg, req, phase, texts, entries, reply, result>> /\ phase = "restore"
      /\ text' = Replace(text, token, entries[token]) /\ left' = left \ {token}
  BY Zenon DEF RestoreEntry, inputVars, redactVars
<1>2. result = "open"
  BY <1>1 DEF Course
<1>m. \A i : Content(i)' = Content(i) /\ Came(i)' = Came(i)
  BY <1>1, SameMessages
<1>3. SUFFICES ASSUME Echoing, NEW i \in DOMAIN texts, reply.text = Content(i)
               PROVE  Promise(i)'
  BY <1>1, <1>m DEF EchoInv, Echoing, NoForgery
<1> DEFINE o == FilterOutput(Came(i))
<1>4. Spells(text, o, left, entries)
  BY <1>1, <1>3 DEF EchoInv, Promise
<1>5. Vocabulary(DOMAIN entries, entries) /\ left \subseteq DOMAIN entries
  BY <1>3, VaultVocabulary DEF Echoing, TypesInv, AnswerTypes
<1>6. Vocabulary(left, entries)
  BY <1>5, Zenon DEF Vocabulary
<1> HIDE DEF o
<1>7. Spells(Replace(text, token, entries[token]), o, left \ {token}, entries)
  BY <1>4, <1>6, SpellsReplace
<1>8. Spells(text', o, left', entries)
  BY <1>1, <1>7, Zenon
<1>9. phase' \notin Unfiltered' /\ phase' \notin Restored' /\ result' # "answered"
  BY <1>1, <1>2 DEF Unfiltered, Restored
<1> QED
  BY <1>1, <1>m, <1>8, <1>9, Zenon DEF Promise, o

LEMMA EchoRestoreDone ==
  ASSUME Course, EchoInv, RestoreDone
  PROVE  EchoInv'
<1>1. /\ UNCHANGED <<cfg, req, texts, entries, reply, text, left>> /\ phase = "restore" /\ Advance
      /\ left = {}
  BY Zenon DEF RestoreDone, inputVars, redactVars, answerVars
<1>2. phase' \in Restored \/ phase' = "done"
  BY <1>1, StageAfter
<1>m. \A i : Content(i)' = Content(i) /\ Came(i)' = Came(i)
  BY <1>1, SameMessages
<1>3. SUFFICES ASSUME Echoing, NEW i \in DOMAIN texts, reply.text = Content(i)
               PROVE  Promise(i)'
  BY <1>1, <1>m DEF EchoInv, Echoing, NoForgery
<1> DEFINE o == FilterOutput(Came(i))
<1>4. Spells(text, o, left, entries)
  BY <1>1, <1>3 DEF EchoInv, Promise
<1> HIDE DEF o
<1>5. Spells(text, o, {}, entries)
  BY <1>1, <1>4, Zenon
<1>6. text = o
  BY <1>5, SpellsItself
<1>7. phase' \notin Unfiltered' /\ phase' # "restore"
  BY <1>1, <1>2 DEF Unfiltered, Restored
<1> QED
  BY <1>1, <1>m, <1>6, <1>7, Zenon DEF Promise, o

\* The gate leaves the text alone, and so does a schema that is off.
LEMMA EchoPast ==
  ASSUME Course, EchoInv, GateCalls \/ CheckSchema
  PROVE  EchoInv'
<1>1. /\ UNCHANGED <<cfg, req, texts, entries, reply, left>> /\ phase \in {"gate", "schema"}
  BY Zenon DEF GateCalls, CheckSchema, inputVars, redactVars
<1>2. result = "open"
  BY <1>1 DEF Course
<1>m. \A i : Content(i)' = Content(i) /\ Came(i)' = Came(i)
  BY <1>1, SameMessages
<1>3. SUFFICES ASSUME Echoing, NEW i \in DOMAIN texts, reply.text = Content(i)
               PROVE  Promise(i)'
  BY <1>1, <1>m DEF EchoInv, Echoing, NoForgery
<1>4. cfg.schema = "off"
  BY <1>3 DEF Echoing
<1>5. text' = text /\ Advance
  <2>1. CASE GateCalls
    BY <2>1, Zenon DEF GateCalls
  <2>2. CASE CheckSchema
    <3>1. cfg.schema # "reject"
      BY <1>4
    <3> QED
      BY <1>4, <2>2, <3>1, Zenon DEF CheckSchema
  <2> QED
    BY <2>1, <2>2
<1> DEFINE o == FilterOutput(Came(i))
<1>6. Unfiltered' = Unfiltered /\ Restored' = Restored
  BY <1>1 DEF Unfiltered, Restored
<1>7. Promise(i)
  BY <1>3 DEF EchoInv
<1>8. CASE phase \in Restored
  <2>1. phase' \in Restored \/ phase' = "done"
    BY <1>1, <1>5, <1>8, StageAfter
  <2>2. text = o
    BY <1>7, <1>8 DEF Promise
  <2>3. phase' \notin Unfiltered' /\ phase' # "restore"
    BY <1>6, <1>8, <2>1 DEF Unfiltered, Restored
  <2> HIDE DEF o
  <2> QED
    BY <1>1, <1>m, <1>5, <2>2, <2>3, Zenon DEF Promise, o
<1>9. CASE phase \notin Restored
  <2>1. phase \in Unfiltered \ {"filter"}
    BY <1>1, <1>9 DEF Unfiltered, Restored
  <2>2. phase' \in Unfiltered /\ result' = result
    BY <1>1, <1>5, <2>1, StageAfter
  <2>3. text = reply.text /\ left = DOMAIN entries
    BY <1>7, <2>1 DEF Promise
  <2>4. phase' # "restore" /\ phase' \notin Restored' /\ result' # "answered"
    BY <1>2, <1>6, <1>9, <2>1, <2>2 DEF Unfiltered, Restored
  <2> QED
    BY <1>1, <1>5, <2>3, <2>4, Zenon DEF Promise
<1> QED
  BY <1>8, <1>9

\* The invariant of the round trip.
RoundTrip == EchoInv /\ SpelledInv /\ ValuesInv

LEMMA RoundTripStep ==
  ASSUME Nat \ {0} \subseteq DOMAIN Numerals, Legible
  PROVE  RoundTrip /\ TypesInv /\ BlockInv /\ OffsetsInv /\ VaultInv /\ [Next]_vars => RoundTrip'
<1> SUFFICES ASSUME EchoInv, SpelledInv, ValuesInv, TypesInv, BlockInv, OffsetsInv, VaultInv, [Next]_vars
             PROVE  EchoInv' /\ SpelledInv'
  BY ValuesStep DEF RoundTrip
<1>0. Course /\ ValuesInv'
  BY ValuesStep DEF BlockInv
<1>r. ASSUME phase \in Phases \ {"done"}
      PROVE  result = "open"
  BY <1>0, <1>r DEF Course
<1>s. ASSUME UNCHANGED <<cfg, req, texts, entries>>
      PROVE  SpelledInv'
  BY <1>s DEF SpelledInv, NoForgery
<1>1. CASE CheckInput \/ CheckReject
  <2>1. /\ UNCHANGED <<cfg, req, texts, entries>> /\ phase \in {"check", "reject"}
        /\ phase' \in {"done", "reject", "redact", "spotlight"} /\ result' \in {"blocked", result}
    BY <1>1, Zenon DEF CheckInput, CheckReject, Refuse, inputVars, redactVars
  <2>2. result = "open"
    BY <1>r, <2>1 DEF Phases
  <2>3. phase' \notin {"filter", "restore", "gate", "schema"} /\ result' # "answered"
    BY <2>1, <2>2
  <2> QED
    BY <1>0, <1>s, <2>1, <2>3, EchoEarly
<1>2. CASE RedactDone \/ NextText \/ ScanRule \/ Spotlight
  <2>1. /\ UNCHANGED <<cfg, req, texts, entries, result>> /\ phase \in {"redact", "spotlight"}
        /\ phase' \in {"redact", "spotlight", "sent"}
    BY <1>2, Zenon DEF RedactDone, NextText, ScanRule, Spotlight, inputVars, redactVars
  <2>2. result = "open"
    BY <1>r, <2>1 DEF Phases
  <2>3. phase' \notin {"filter", "restore", "gate", "schema"} /\ result' # "answered"
    BY <2>1, <2>2
  <2> QED
    BY <1>0, <1>s, <2>1, <2>3, EchoEarly
<1>3. CASE ReplaceMatch
  <2>1. phase = "redact" /\ phase' = phase /\ result' = result
    BY <1>3, Zenon DEF ReplaceMatch
  <2>2. result = "open"
    BY <1>r, <2>1 DEF Phases
  <2>3. phase' \notin {"filter", "restore", "gate", "schema"} /\ result' # "answered"
    BY <2>1, <2>2
  <2> QED
    BY <1>0, <1>3, <2>3, EchoEarly, SpelledReplace
<1>4. CASE Reply
  <2>1. UNCHANGED <<cfg, req, texts, entries>>
    BY <1>4, Zenon DEF Reply, inputVars, redactVars
  <2> QED
    BY <1>0, <1>4, <1>s, <2>1, EchoReply
<1>5. CASE FilterAnswer \/ RestoreDone
  <2>1. UNCHANGED <<cfg, req, texts, entries>>
    BY <1>5, Zenon DEF FilterAnswer, RestoreDone, inputVars, redactVars
  <2> QED
    BY <1>0, <1>5, <1>s, <2>1, EchoFilter, EchoRestoreDone
<1>6. ASSUME NEW token \in left, RestoreEntry(token)
      PROVE  EchoInv' /\ SpelledInv'
  <2>1. UNCHANGED <<cfg, req, texts, entries>>
    BY <1>6, Zenon DEF RestoreEntry, inputVars, redactVars
  <2> QED
    BY <1>0, <1>6, <1>s, <2>1, EchoRestore
<1>7. CASE GateCalls \/ CheckSchema
  <2>1. UNCHANGED <<cfg, req, texts, entries>>
    BY <1>7, Zenon DEF GateCalls, CheckSchema, inputVars, redactVars
  <2> QED
    BY <1>0, <1>7, <1>s, <2>1, EchoPast
<1>8. CASE UNCHANGED vars
  <2>0. \A i : Content(i)' = Content(i) /\ Came(i)' = Came(i)
    BY <1>8, SameMessages DEF vars
  <2>1. EchoInv'
    BY <1>8, <2>0 DEF EchoInv, Echoing, NoForgery, Promise, Unfiltered, Restored, vars
  <2> QED
    BY <1>8, <1>s, <2>1 DEF vars
<1> QED
  BY <1>1, <1>2, <1>3, <1>4, <1>5, <1>6, <1>7, <1>8 DEF Next

\* EchoRestored for every rule set, prompt, answer and order of the vault's
\* entries, as long as the numerals do not run out and what the rules match is
\* Legible: an upstream that repeats a message it was sent, with the blocks of
\* /v1/messages joined, makes the client read the message that came, joined the
\* same way and as the output filter leaves it, from both handlers.
\* A value with a phrase of the filter would come back after the filter has
\* run, and one that is the name of an entity could be matched inside a
\* placeholder.
THEOREM EchoCorrect ==
  ASSUME Nat \ {0} \subseteq DOMAIN Numerals, Legible
  PROVE  Spec => []EchoRestored
<1> DEFINE Inv == RoundTrip /\ TypesInv /\ BlockInv /\ OffsetsInv /\ VaultInv
<1>1. Init => Inv
  <2> SUFFICES ASSUME Init
               PROVE  EchoInv
    BY TypesInit, BlockInit, OffsetsInit, VaultInit, ValuesInit, SpelledInit DEF RoundTrip
  <2>1. phase = "check" /\ result = "open"
    BY DEF Init
  <2> QED
    BY <2>1 DEF EchoInv, Promise, Unfiltered, Restored
<1>2. Inv /\ [Next]_vars => Inv'
  BY RoundTripStep, TypesStep, BlockStep, OffsetsStep, VaultStep
<1>3. Inv => EchoRestored
  BY DEF RoundTrip, EchoInv, Promise, Echoing, EchoRestored
<1> QED
  BY <1>1, <1>2, <1>3, PTL DEF Spec
=============================================================================
