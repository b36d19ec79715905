---------------------------- MODULE RequestGuards ----------------------------
(***************************************************************************)
(* What the guards do to one request and to its answer when it is not      *)
(* streamed: POST /v1/chat/completions (src/src/proxy/mod.rs) and          *)
(* POST /v1/messages (src/src/proxy/anthropic.rs), with the matchers, the  *)
(* policy bundle, the redactor, the vault, spotlighting, the tool gate,    *)
(* the schema validator and the de-anonymiser they call.                   *)
(*                                                                         *)
(* Text is a sequence of atoms (see Placeholders).  A pattern of the       *)
(* redactor is the set of atom sequences it matches.  Of an answer with    *)
(* several choices one is followed.  A step is one stage of the handler,   *)
(* except that redaction takes a step per rule and per match, and          *)
(* restoration one per vault entry: the vault is a HashMap, so its entries *)
(* come in any order.  Budget and routing, between spotlighting and        *)
(* forwarding, are in ChatPipeline.                                        *)
(***************************************************************************)
EXTENDS Placeholders, FiniteSets, TLC

CONSTANTS
  Inputs,      \* [cfg, req]: a configuration and a request
  Rules,       \* the redactor's rules, in order: [entity, matches]; no two matches overlap
  Numerals,    \* the atoms _1, _2, ... of placeholder indexes
  BlockWords,  \* atoms with a phrase of the TOML block list
  BlockRegex,  \* its regex rules, in order: [pattern, matches]
  Untrusted,   \* roles that spotlighting marks
  Phrases,     \* what an upstream may say besides what it was sent
  Frames,      \* what it may put around it: [before, after]
  CallSets,    \* tool calls an upstream may make: sequences of [name, args]
  DeniedNames, \* names the gate denies
  Conforming   \* JSON that satisfies the schema, to how serde_json writes it

Space == " "
Newline == "nl"
Fence == "fence"
Blanks == {Space, Newline}

Entities == {Rules[i].entity : i \in DOMAIN Rules}
Classes == {"mask", "reject", "log"}
Actions == {"block", "alert", "flag", "redact", "reject", "log"}

\* actions: the class of each entity, for prompts and for tool arguments
\* (`none`: the gate does not look for it); bundle: the policy rules; rider:
\* what spotlighting adds for the model to read.
Config ==
  [input : BOOLEAN, shadow : BOOLEAN, pii : BOOLEAN, reversible : BOOLEAN, bare : BOOLEAN,
   spotlight : BOOLEAN, rider : Seq(Atoms), output : BOOLEAN, gate : BOOLEAN, schema : {"off", "log", "reject"},
   actions : [Entities -> Classes], gateActions : [Entities -> {"mask", "reject", "none"}],
   bundle : Seq([id : STRING, pattern : STRING, regex : BOOLEAN, placeholder : STRING,
                 action : Actions])]

\* A text is the string content of a message, one of its parts (blocks), or
\* the system prompt of /v1/messages; msg is the message it belongs to.
Request ==
  [endpoint : {"chat", "messages"},
   texts : Seq([msg : Nat, role : STRING, form : {"string", "part", "system"},
                text : Seq(Atoms)])]

\* The arguments of a call are the leaves of its JSON: strings (str), numbers
\* and object keys.  raw is how a leaf is written, text what it parses to.
Call ==
  [name : STRING, args : Seq([str : BOOLEAN, raw : Seq(Atoms), text : Seq(Atoms)])]

\* Policy::validate: the fields are set and no two ids are equal.
ValidPolicy(bundle) ==
  \A i, j \in DOMAIN bundle :
    /\ bundle[i].id # "" /\ bundle[i].pattern # ""
    /\ bundle[i].action = "redact" => bundle[i].placeholder # ""
    /\ bundle[i].id = bundle[j].id => i = j

ASSUME ConstantsAssumption ==
  /\ Inputs \subseteq [cfg : Config, req : Request]
  /\ \A x \in Inputs : ValidPolicy(x.cfg.bundle)
  /\ \A i, j \in DOMAIN Numerals : Numerals[i] = Numerals[j] => i = j
  /\ Range(Numerals) \subseteq Atoms
  /\ Phrases \subseteq Seq(Atoms)
  /\ Frames \subseteq [before : Seq(Atoms), after : Seq(Atoms)]
  /\ CallSets \subseteq Seq(Call)
  /\ Blanks \cup {Fence} \subseteq Atoms
  /\ BlockRegex \in Seq([pattern : STRING, matches : SUBSET Seq(Atoms)])
  /\ DOMAIN Conforming \subseteq Seq(Atoms)
  /\ \A t \in DOMAIN Conforming : Conforming[t] \in DOMAIN Conforming

\* n, placed k atoms after the start of m, agrees with it.
Agree(m, n, k) == \A i \in 1..Len(n) : k + i <= Len(m) => m[k + i] = n[i]

\* No match is empty, and no two matches of a rule overlap.
ASSUME RulesAssumption ==
  /\ Rules \in Seq([entity : Atoms, matches : SUBSET Seq(Atoms)])
  /\ \A r \in DOMAIN Rules : \A m, n \in Rules[r].matches :
       /\ m # <<>>
       /\ \A k \in 0..Len(m) - 1 : Agree(m, n, k) => k = 0 /\ m = n

VARIABLES
  cfg,      \* the configuration, fixed by state.load_full()
  req,      \* the request as it came
  phase,    \* the next stage of the handler
  texts,    \* the texts as they are now
  marked,   \* texts that spotlighting has transformed
  part,     \* the text that is being redacted
  rule,     \* the rule that is being applied to it
  todo,     \* its matches not yet replaced: sequence of [at, match]
  seen,     \* LocalVault.seen: <<entity, original>> to index
  next,     \* LocalVault.next
  entries,  \* LocalVault.entries: placeholder to original
  reply,    \* a choice of the answer: [first, text, calls]; first: it is the first one
  text,     \* the text of the answer as it is now
  calls,    \* its tool calls as they are now
  left,     \* placeholders that restoration has still to look for
  audit,    \* the policy rule named in the Block line: [matched, id]
  result    \* open, blocked (400), rejected (400 or 502), answered

vars == <<cfg, req, phase, texts, marked, part, rule, todo, seen, next, entries,
          reply, text, calls, left, audit, result>>
inputVars == <<cfg, req>>
redactVars == <<part, rule, todo, seen, next, entries>>
answerVars == <<reply, text, calls, left>>

NoReply == [first |-> TRUE, text |-> <<>>, calls |-> <<>>]
NoAudit == [matched |-> "", id |-> ""]

\* The texts as they came.
Prompt == [i \in DOMAIN req.texts |-> req.texts[i].text]

Init ==
  /\ \E x \in Inputs : cfg = x.cfg /\ req = x.req
  /\ phase = "check"
  /\ texts = Prompt
  /\ marked = {}
  /\ part = 1 /\ rule = 1 /\ todo = <<>>
  /\ seen = <<>> /\ next = [e \in Entities |-> 0] /\ entries = <<>>
  /\ reply = NoReply /\ text = <<>> /\ calls = <<>> /\ left = {}
  /\ audit = NoAudit
  /\ result = "open"

-----------------------------------------------------------------------------
(* The input scan                                                          *)

\* extract_messages_text takes string contents only; as_text takes blocks too.
\* Neither takes the system prompt of /v1/messages.
Scanned ==
  {i \in DOMAIN texts : req.texts[i].form \in
     IF req.endpoint = "chat" THEN {"string"} ELSE {"string", "part"}}

\* The texts in S, joined by a space.
JoinPart(ts, S, i) ==
  IF i \notin S THEN <<>> ELSE IF \E j \in S : j < i THEN <<Space>> \o ts[i] ELSE ts[i]
Join(ts, S) == FlattenSeq([i \in DOMAIN ts |-> JoinPart(ts, S, i)])

\* What is scanned: user_text.
UserText == Join(texts, Scanned)

\* Seeded fault: every literal rule of the bundle ends up in the block list.
MutBlocking ==
  BlockWords \cup {cfg.bundle[i].pattern : i \in {j \in DOMAIN cfg.bundle : ~cfg.bundle[j].regex}}

\* merge_into_keyword_config, for the block list: literal rules only.
Blocking ==
  BlockWords \cup {cfg.bundle[i].pattern : i \in
    {j \in DOMAIN cfg.bundle : ~cfg.bundle[j].regex /\ cfg.bundle[j].action = "block"}}

\* What the matcher can report: a phrase, else the source of the first regex
\* rule that matches.
BlockHits ==
  LET phrases == Range(UserText) \cap Blocking
      regexes == {k \in DOMAIN BlockRegex :
                    \E m \in BlockRegex[k].matches, i \in DOMAIN UserText : Occurs(UserText, m, i)}
  IN  IF phrases # {} THEN phrases
      ELSE {BlockRegex[k].pattern : k \in {n \in regexes : \A l \in regexes : n <= l}}

\* PolicyRuleIndex, asked for a phrase and then for a placeholder: a later
\* rule replaces an earlier one.
LookupRule(word) ==
  LET of(P(_)) == {i \in DOMAIN cfg.bundle : P(cfg.bundle[i])}
      literal == of(LAMBDA b : ~b.regex /\ b.pattern = word)
      placeholder == of(LAMBDA b : b.regex /\ b.placeholder = word)
      named == IF literal # {} THEN literal ELSE placeholder
  IN  IF named = {} THEN "" ELSE cfg.bundle[Max(named)].id

\* The request ends here: no later stage runs.
Refuse(r) == phase' = "done" /\ result' = r

\* The keyword check.  Shadow mode demotes a block; alerts and flags are
\* log lines.  Only the chat handler writes the audit line.
CheckInput ==
  /\ phase = "check"
  /\ IF cfg.input /\ ~cfg.shadow /\ BlockHits # {}
     THEN /\ Refuse("blocked")
          /\ IF req.endpoint = "chat"
             THEN \E w \in BlockHits : audit' = [matched |-> w, id |-> LookupRule(w)]
             ELSE UNCHANGED audit
     ELSE /\ phase' = IF cfg.pii THEN "reject" ELSE "spotlight"
          /\ UNCHANGED <<audit, result>>
  /\ UNCHANGED <<inputVars, texts, marked, redactVars, answerVars>>

\* partition_by_action
OfClass(actions, class) == {i \in DOMAIN Rules : actions[Rules[i].entity] = class}

\* The places where a rule matches (find_iter).
Found(t, r) ==
  {[at |-> i, match |-> m] : i \in 1..Len(t), m \in Rules[r].matches}

Matches(t, r) == {f \in Found(t, r) : Occurs(t, f.match, f.at)}

HasPii(t, rs) == \E r \in rs : Matches(t, r) # {}

\* contains_pii_in for the entities to reject.
CheckReject ==
  /\ phase = "reject"
  /\ IF HasPii(UserText, OfClass(cfg.actions, "reject"))
     THEN /\ Refuse("blocked")
          /\ IF req.endpoint = "chat"
             THEN audit' = [matched |-> "pii", id |-> LookupRule("pii")]
             ELSE UNCHANGED audit
     ELSE phase' = "redact" /\ UNCHANGED <<audit, result>>
  /\ UNCHANGED <<inputVars, texts, marked, redactVars, answerVars>>

-----------------------------------------------------------------------------
(* Redaction                                                               *)

\* Seeded fault: parts are passed over, as they are in the scan.
MutRedactable(i) == req.texts[i].form = "string"

\* Both handlers redact strings and parts, and not the system prompt.
Redactable(i) == req.texts[i].form # "system"

MaskRules == OfClass(cfg.actions, "mask")

\* The last text is done, or there is nothing to mask.
RedactDone ==
  /\ phase = "redact"
  /\ part > Len(texts) \/ MaskRules = {}
  /\ phase' = "spotlight"
  /\ UNCHANGED <<inputVars, texts, marked, redactVars, answerVars, audit, result>>

\* To the next text.  The Indexer of irreversible redaction starts afresh.
NextText ==
  /\ phase = "redact" /\ part <= Len(texts) /\ MaskRules # {} /\ todo = <<>>
  /\ ~Redactable(part) \/ rule > Len(Rules)
  /\ part' = part + 1
  /\ rule' = 1
  /\ IF cfg.reversible
     THEN UNCHANGED <<seen, next>>
     ELSE seen' = <<>> /\ next' = [e \in Entities |-> 0]
  /\ UNCHANGED <<inputVars, phase, texts, marked, todo, entries, answerVars, audit, result>>

\* find_iter yields the matches from left to right.
InOrder(found) ==
  CHOOSE s \in [1..Cardinality(found) -> found] :
    \A i, j \in DOMAIN s : i < j => s[i].at < s[j].at

\* Seeded fault: rules of every class are applied.
MutScanRule ==
  /\ phase = "redact" /\ part <= Len(texts) /\ MaskRules # {} /\ todo = <<>>
  /\ Redactable(part) /\ rule <= Len(Rules)
  /\ todo' = InOrder(Matches(texts[part], rule))
  /\ rule' = IF todo' = <<>> THEN rule + 1 ELSE rule
  /\ UNCHANGED <<inputVars, phase, texts, marked, part, seen, next, entries,
                 answerVars, audit, result>>

\* The matches of the current rule in the text as the rules before left it.
ScanRule ==
  /\ phase = "redact" /\ part <= Len(texts) /\ MaskRules # {} /\ todo = <<>>
  /\ Redactable(part) /\ rule <= Len(Rules)
  /\ todo' = IF rule \in MaskRules
             THEN InOrder(Matches(texts[part], rule))
             ELSE <<>>
  /\ rule' = IF todo' = <<>> THEN rule + 1 ELSE rule
  /\ UNCHANGED <<inputVars, phase, texts, marked, part, seen, next, entries,
                 answerVars, audit, result>>

\* Seeded fault: the index of an entity is its number of occurrences, so a
\* value seen again gets the placeholder of the next one.
MutIndexFor(entity, value) == next[entity] + 1

\* store and Indexer::placeholder: a value keeps its index.
IndexFor(entity, value) ==
  IF <<entity, value>> \in DOMAIN seen THEN seen[<<entity, value>>] ELSE next[entity] + 1

PlaceholderFor(entity, index) ==
  IF cfg.bare /\ ~cfg.reversible THEN <<Open, entity, Close>> ELSE Token(entity, Numerals[index])

Splice(t, f, p) ==
  SubSeq(t, 1, f.at - 1) \o p \o SubSeq(t, f.at + Len(f.match), Len(t))

\* Seeded fault: matches are replaced from left to right.
MutTakeFrom(s) == [head |-> s[1], rest |-> Tail(s)]

\* into_iter().rev(): the last match first.
TakeFrom(s) == [head |-> s[Len(s)], rest |-> Front(s)]

\* HashMap::insert, and Entry::or_insert_with, which leaves what is there.
Insert(f, d, e) == [x \in DOMAIN f \cup {d} |-> IF x = d THEN e ELSE f[x]]
OrInsert(f, d, e) == [x \in DOMAIN f \cup {d} |-> IF x \in DOMAIN f THEN f[x] ELSE e]

\* One match is stored and replaced.  An entry that exists stays as it is.
ReplaceMatch ==
  LET take == TakeFrom(todo)
      entity == Rules[rule].entity
      value == take.head.match
      index == IndexFor(entity, value)
      token == PlaceholderFor(entity, index)
  IN
  /\ phase = "redact" /\ todo # <<>>
  /\ seen' = Insert(seen, <<entity, value>>, index)
  /\ next' = [next EXCEPT ![entity] = IF index > @ THEN index ELSE @]
  /\ entries' = IF cfg.reversible THEN OrInsert(entries, token, value) ELSE entries
  /\ texts' = [texts EXCEPT ![part] = Splice(@, take.head, token)]
  /\ todo' = take.rest
  /\ rule' = IF take.rest = <<>> THEN rule + 1 ELSE rule
  /\ UNCHANGED <<inputVars, phase, marked, part, answerVars, audit, result>>

\* The texts of the message that i belongs to, and what is sent of it: the
\* parts of a chat message stay apart, as_text joins the blocks of the other.
Message(i) ==
  IF req.endpoint = "chat" THEN {i}
  ELSE {j \in DOMAIN req.texts : req.texts[j].msg = req.texts[i].msg
                                 /\ req.texts[j].form = req.texts[i].form}
Content(i) == Join(texts, Message(i))

\* inject_system_rider: once something is marked, the rider is appended to the
\* first system message, as a part of its own if that has parts, or else is a
\* message of its own.
Riders == IF marked = {} \/ cfg.rider = <<>> THEN {} ELSE {cfg.rider}
TakesRider(i) ==
  /\ Riders # {} /\ req.texts[i].role = "system"
  /\ req.endpoint = "chat" => req.texts[i].form = "string"
  /\ \A j \in DOMAIN texts : req.texts[j].role = "system" => j >= i
WithRider(i) ==
  IF TakesRider(i) THEN Content(i) \o <<Newline, Newline>> \o cfg.rider ELSE Content(i)

\* What the upstream reads.
Sent ==
  {WithRider(i) : i \in DOMAIN texts \ marked}
    \cup (IF \E i \in DOMAIN texts : TakesRider(i) THEN {} ELSE Riders)

\* spotlight::apply, after which no pattern can be told in the text (the
\* encoding method leaves base64).
Spotlight ==
  /\ phase = "spotlight"
  /\ marked' = IF cfg.spotlight THEN {i \in DOMAIN texts : req.texts[i].role \in Untrusted}
               ELSE {}
  /\ phase' = "sent"
  /\ UNCHANGED <<inputVars, texts, redactVars, answerVars, audit, result>>

-----------------------------------------------------------------------------
(* The answer                                                              *)

\* Seeded fault: the chat handler validates before it restores.
MutStages ==
  IF req.endpoint = "chat"
  THEN <<"filter", "gate", "schema", "restore">>
  ELSE <<"gate", "schema", "filter", "restore">>

\* The order of the response stages in the two handlers.
Stages ==
  IF req.endpoint = "chat"
  THEN <<"filter", "restore", "gate", "schema">>
  ELSE <<"gate", "schema", "filter", "restore">>

\* The stage is over; the last one delivers the answer.
Advance ==
  LET n == CHOOSE k \in DOMAIN Stages : Stages[k] = phase
  IN  IF n = Len(Stages)
      THEN phase' = "done" /\ result' = "answered"
      ELSE phase' = Stages[n + 1] /\ UNCHANGED result

\* What an upstream can say: what it was sent, placeholders, other phrases,
\* bare or inside a frame.
Sayings ==
  {f.before \o s \o f.after : f \in Frames, s \in Sent \cup DOMAIN entries \cup Phrases}

\* The upstream answers.  /v1/messages takes the first choice only.
Reply ==
  /\ phase = "sent"
  /\ \E s \in Sayings, c \in CallSets, b \in BOOLEAN :
       /\ req.endpoint # "chat" => b
       /\ reply' = [first |-> b, text |-> s, calls |-> c]
       /\ text' = s
       /\ calls' = c
  /\ left' = IF cfg.reversible THEN DOMAIN entries ELSE {}
  /\ phase' = Stages[1]
  /\ UNCHANGED <<inputVars, texts, marked, redactVars, audit, result>>

\* filter_response_json
FilterAnswer ==
  /\ phase = "filter"
  /\ text' = IF cfg.output THEN FilterOutput(text) ELSE text
  /\ Advance
  /\ UNCHANGED <<inputVars, texts, marked, redactVars, reply, calls, left, audit>>

\* Exact::restore, one entry: the order of a HashMap is any order.
RestoreEntry(token) ==
  /\ phase = "restore"
  /\ token \in left
  /\ text' = Replace(text, token, entries[token])
  /\ left' = left \ {token}
  /\ UNCHANGED <<inputVars, phase, texts, marked, redactVars, reply, calls, audit, result>>

RestoreDone ==
  /\ phase = "restore"
  /\ left = {}
  /\ Advance
  /\ UNCHANGED <<inputVars, texts, marked, redactVars, answerVars, audit>>

\* evaluate: the name, then entities to reject, looked for in the JSON as it is
\* written; no match reaches over the punctuation between two leaves.  Whether
\* the arguments parse and satisfy the schema of the tool is in the name.
DeniesCall(call) ==
  \/ call.name \in DeniedNames
  \/ \E l \in Range(call.args) : HasPii(l.raw, OfClass(cfg.gateActions, "reject"))

\* redact_text_in, one rule: the matches are replaced from the last to the
\* first.  No placeholder of a call is restored, so its index is left out.
MaskRule(t, r) ==
  IF r \in OfClass(cfg.gateActions, "mask")
  THEN FoldLeft(LAMBDA u, f : Splice(u, f, <<Open, Rules[r].entity, Close>>), t,
                Reverse(InOrder(Matches(t, r))))
  ELSE t

MaskText(t) == FoldLeftDomain(MaskRule, t, Rules)

\* mask_strings_in_value, and to_string, which writes what was parsed.
MaskLeaf(l) ==
  LET t == IF l.str THEN MaskText(l.text) ELSE l.text
  IN  [str |-> l.str, raw |-> t, text |-> t]

\* Arguments are rewritten if an entity to mask is found in the JSON.
MaskArgs(args) ==
  IF \E l \in Range(args) : HasPii(l.raw, OfClass(cfg.gateActions, "mask"))
  THEN [k \in DOMAIN args |-> MaskLeaf(args[k])] ELSE args

\* apply_tool_gate: denied calls are dropped, arguments are masked.
GateCalls ==
  /\ phase = "gate"
  /\ calls' = IF cfg.gate
              THEN FlattenSeq([k \in DOMAIN calls |->
                     IF DeniesCall(calls[k]) THEN <<>>
                     ELSE <<[name |-> calls[k].name, args |-> MaskArgs(calls[k].args)]>>])
              ELSE calls
  /\ Advance
  /\ UNCHANGED <<inputVars, texts, marked, redactVars, reply, text, left, audit>>

\* str::trim
Trim(t) ==
  LET ink == {i \in DOMAIN t : t[i] \notin Blanks}
  IN  IF ink = {} THEN <<>> ELSE SubSeq(t, Min(ink), Max(ink))

\* A fenced block: what is between the line of the opening fence and the last
\* fence, if there are both.
Fenced(t) ==
  LET lines == {i \in DOMAIN t : t[i] = Newline}
      from == IF lines = {} THEN 2 ELSE Min(lines) + 1
      fences == {i \in DOMAIN t : i >= from /\ t[i] = Fence}
  IN  IF t # <<>> /\ t[1] = Fence /\ fences # {}
      THEN {Trim(SubSeq(t, from, Max(fences) - 1))} ELSE {}

\* From the first opening to the last closing bracket.
Bracketed(t) ==
  LET opens == {i \in DOMAIN t : t[i] \in {"{", Open}}
      closes == {i \in DOMAIN t : t[i] \in {"}", Close}}
  IN  IF opens # {} /\ closes # {} /\ Min(opens) < Max(closes)
      THEN SubSeq(t, Min(opens), Max(closes)) ELSE t

\* extract_json_blob
Extract(raw) ==
  LET t == Trim(raw)
  IN  IF Fenced(t) # {} THEN CHOOSE b \in Fenced(t) : TRUE ELSE Bracketed(t)

\* The schema stage looks at the first choice: a violation is rejected or
\* logged; only the chat handler delivers the extracted JSON.  A later choice
\* goes the way of the first.
CheckSchema ==
  LET json == Extract(text)
      conforms == json \in DOMAIN Conforming
  IN
  /\ phase = "schema"
  /\ \/ /\ cfg.schema = "reject" /\ (reply.first => ~conforms)
        /\ Refuse("rejected")
        /\ UNCHANGED text
     \/ /\ cfg.schema = "reject" /\ reply.first => conforms
        /\ Advance
        /\ text' = IF /\ reply.first /\ conforms /\ json # text
                      /\ req.endpoint = "chat" /\ cfg.schema # "off"
                   THEN Conforming[json] ELSE text
  /\ UNCHANGED <<inputVars, texts, marked, redactVars, reply, calls, left, audit>>

Next ==
  \/ CheckInput \/ CheckReject
  \/ RedactDone \/ NextText \/ ScanRule \/ ReplaceMatch
  \/ Spotlight \/ Reply
  \/ FilterAnswer \/ (\E token \in left : RestoreEntry(token)) \/ RestoreDone
  \/ GateCalls \/ CheckSchema

Spec == Init /\ [][Next]_vars

-----------------------------------------------------------------------------
(* Properties                                                              *)

Phases == {"check", "reject", "redact", "spotlight", "sent", "filter", "restore", "gate",
           "schema", "done"}

\* Every variable has its type, and the cursor of the redaction is in range.
TypeOK ==
  /\ [cfg |-> cfg, req |-> req] \in Inputs
  /\ phase \in Phases
  /\ texts \in Seq(Seq(Atoms)) /\ Len(texts) = Len(req.texts)
  /\ marked \subseteq DOMAIN texts
  /\ part \in 1..Len(texts) + 1 /\ rule \in 1..Len(Rules) + 1
  /\ todo # <<>> => phase = "redact" /\ part <= Len(texts) /\ rule \in MaskRules
  /\ next \in [Entities -> Nat]
  /\ {text, reply.text} \subseteq Seq(Atoms)
  /\ left \subseteq DOMAIN entries
  /\ result \in {"open", "blocked", "rejected", "answered"}

\* The vault (LocalVault::store): two values never share a placeholder, a
\* value keeps the placeholder it was given, and looking a placeholder up
\* gives back the value it stands for; the counters are the highest indexes.
VaultSound ==
  /\ \A x, y \in DOMAIN seen : x[1] = y[1] /\ seen[x] = seen[y] => x = y
  /\ \A x \in DOMAIN seen : seen[x] \in 1..next[x[1]]
  /\ cfg.reversible =>
       /\ \A x \in DOMAIN seen :
            LET token == Token(x[1], Numerals[seen[x]])
            IN  token \in DOMAIN entries /\ entries[token] = x[2]
       /\ \A token \in DOMAIN entries :
            \E x \in DOMAIN seen : token = Token(x[1], Numerals[seen[x]])

\* redact_text_with_vault: while the matches of a rule are being replaced,
\* each one that is left is still where find_iter saw it, although the text
\* has grown or shrunk.
OffsetsValid ==
  \A k \in DOMAIN todo : Occurs(texts[part], todo[k].match, todo[k].at)

\* Under these actions, no placeholder that a rule puts in is matched, whole
\* or in part, by an entity that rejects, nor by a rule that masks and has
\* had its turn.
InertUnder(actions) ==
  \A s \in OfClass(actions, "mask"),
     r \in OfClass(actions, "reject") \cup OfClass(actions, "mask") :
    (r \in OfClass(actions, "mask") => r <= s) =>
      \A m \in Rules[r].matches, i \in DOMAIN Numerals :
        /\ {Open, Close} \cap Range(m) = {}
        /\ m \notin {<<Rules[s].entity>>, <<Numerals[i]>>, <<Rules[s].entity, Numerals[i]>>}

\* In the prompts, and in the arguments of tool calls.
PlaceholdersInert == \A x \in Inputs : InertUnder(x.cfg.actions)
GateInert == \A x \in Inputs : InertUnder(x.cfg.gateActions)

Underway == {"sent"} \cup Range(Stages)

\* Once the request is sent: no string, part or block holds a match of a masked
\* entity, and what is sent of a message, its blocks joined after they were
\* redacted, holds one only if it reaches over a space.  What was scanned
\* holds, as it was joined for the scan, no match of a rejected entity, not
\* even one that redaction has made.
NothingPersonalSent ==
  cfg.pii /\ phase \in Underway =>
    /\ \A i \in DOMAIN texts : req.texts[i].form # "system" =>
         /\ ~HasPii(texts[i], MaskRules)
         /\ \A r \in MaskRules : \A f \in Matches(Content(i), r) : Space \in Range(f.match)
    /\ ~HasPii(UserText, OfClass(cfg.actions, "reject"))

\* The prompt has no brackets of its own, and no rule matched inside a
\* placeholder that an earlier rule had put there.
NoForgery ==
  /\ \A i \in DOMAIN req.texts : Range(req.texts[i].text) \cap {Open, Close} = {}
  /\ \A token \in DOMAIN entries : Range(entries[token]) \cap Range(Numerals) = {}

\* A phrase of the output filter is one atom.  What a rule matches holds no
\* bracket and no such phrase, and is not the name of an entity; no bracket is
\* one of those names, an index or such a phrase.
Keyworded == {p[1] : p \in Dictionary}
Legible ==
  /\ \A p \in Dictionary : Len(p) = 1
  /\ Open \notin Keyworded
  /\ {Open, Close} \cap (Entities \cup Range(Numerals)) = {}
  /\ \A r \in DOMAIN Rules : \A m \in Rules[r].matches :
       /\ Range(m) \cap ({Open, Close} \cup Keyworded) = {}
       /\ \A e \in Entities : m # <<e>>

\* The message of i as it came.
Came(i) == Join(Prompt, Message(i))

\* The round trip of reversible redaction: an upstream that repeats a message
\* it was sent, joined as it was, makes the client read that message as it was
\* written, keywords of the output filter aside, whatever the order in which
\* the vault's entries are restored and whichever handler it is.
EchoRestored ==
  (cfg.pii /\ cfg.reversible /\ cfg.output /\ cfg.schema = "off" /\ result = "answered" /\ NoForgery) =>
    \A i \in DOMAIN texts : reply.text = Content(i) => text = FilterOutput(Came(i))

\* The text that the chat handler delivers in the first choice, after masking
\* and restoring, satisfies a schema that rejects.
SchemaVetted ==
  result = "answered" /\ req.endpoint = "chat" /\ cfg.schema = "reject" /\ reply.first =>
    text \in DOMAIN Conforming

\* The upstream wrote the arguments without escapes.
Unescaped ==
  \A k \in DOMAIN reply.calls : \A l \in Range(reply.calls[k].args) : l.raw = l.text

\* No call that is left has a name that is denied, or a string with an entity
\* that the gate masks, written with escapes or not; nor, unless escapes hid
\* it, any leaf with an entity that the gate rejects.
CallsVetted ==
  result = "answered" /\ cfg.gate =>
    \A k \in DOMAIN calls :
      /\ calls[k].name \notin DeniedNames
      /\ \A l \in Range(calls[k].args) :
           /\ l.str => ~HasPii(l.raw, OfClass(cfg.gateActions, "mask"))
           /\ Unescaped => ~HasPii(l.raw, OfClass(cfg.gateActions, "reject"))

\* What the client gets has passed the last guards as it is delivered: the
\* schema of the chat handler, and the tool gate of both (apply_tool_gate).
AnswerVetted == SchemaVetted /\ CallsVetted

\* The bundle says one thing of a phrase: no phrase has two rules, one that the
\* TOML list blocks has no other rule, and no placeholder is a phrase.  What a
\* regex rule of that list reports, its source, counts as a phrase.
Reported == BlockWords \cup {BlockRegex[k].pattern : k \in DOMAIN BlockRegex}
Unambiguous ==
  \A i \in DOMAIN cfg.bundle :
    LET b == cfg.bundle[i] IN
    IF b.regex
    THEN b.placeholder \notin Reported \cup
           {cfg.bundle[j].pattern : j \in {k \in DOMAIN cfg.bundle : ~cfg.bundle[k].regex}}
    ELSE /\ b.action # "block" => b.pattern \notin Reported
         /\ \A j \in DOMAIN cfg.bundle :
              ~cfg.bundle[j].regex /\ cfg.bundle[j].pattern = b.pattern => i = j

\* policy/mod.rs, "why was this blocked": the audit line of a request that a
\* keyword stopped names a phrase of the prompt that blocks and, when it
\* names a rule of the bundle, that rule blocks this phrase.
BlockExplained ==
  result = "blocked" /\ audit.matched \notin {"", "pii"} =>
    /\ audit.matched \in BlockHits /\ cfg.input /\ ~cfg.shadow
    /\ Unambiguous => \A i \in DOMAIN cfg.bundle :
         cfg.bundle[i].id = audit.id =>
           cfg.bundle[i].action = "block" /\ cfg.bundle[i].pattern = audit.matched
=============================================================================
