--------------------------- MODULE MCRequestGuards ---------------------------
(***************************************************************************)
(* Instances of RequestGuards: prompts of two texts over an alphabet that  *)
(* has two values of one entity, a value of each other one, the two halves *)
(* of a card number, a keyword, a placeholder the user wrote, and a value  *)
(* (pat) whose placeholder is matched by a later rule, as                  *)
(* REDACTED_GITHUB_FINE_GRAINED_PAT_1 is by the TOKEN rule.                *)
(***************************************************************************)
EXTENDS RequestGuards

MCNumerals == <<"_1", "_2", "_3", "_4">>

MCAtoms ==
  {Open, Close, Stars, "{", "}", "w", "ssn", "SSN", "EMAIL", "PAT", "TOKEN", "a@x", "b@x",
   "123", "pat", "tok", "bad", "jailbreak", "CARD", "41", "11", "evil", "note", "esc"}
    \cup Blanks \cup {Fence} \cup Range(MCNumerals)

MCRules ==
  <<[entity |-> "EMAIL", matches |-> {<<"a@x">>, <<"b@x">>}],
    [entity |-> "SSN", matches |-> {<<"123">>}],
    [entity |-> "CARD", matches |-> {<<"41", Space, "11">>}],
    [entity |-> "PAT", matches |-> {<<"pat">>}],
    [entity |-> "TOKEN", matches |-> {<<"tok">>, <<"PAT", "_1">>}]>>

FirstTexts ==
  {<<"a@x", "w", "b@x">>, <<"b@x", "a@x", "b@x">>, <<"123", "ssn", "a@x">>, <<"pat">>,
   <<"tok", "jailbreak">>, Token("EMAIL", "_1"), <<"41", Space, "11", "41">>}

SecondTexts == {<<"a@x">>, <<"11", "123">>, <<"w">>, <<"bad">>, <<"evil">>}

\* Two messages, a message of two parts, or, on /v1/messages, a message and
\* the system prompt.
Text(m, r, f, t) == [msg |-> m, role |-> r, form |-> f, text |-> t]
Shapes ==
  {<<Text(1, "user", "string", t), Text(2, "tool", "string", u)>> :
     t \in FirstTexts, u \in SecondTexts}
  \cup {<<Text(1, "user", "part", t), Text(1, "user", "part", u)>> :
           t \in FirstTexts, u \in SecondTexts}
  \cup {<<Text(1, "tool", "string", t), Text(2, "system", g, u)>> :
           g \in {"string", "part", "system"}, t \in {<<"a@x", "w", "b@x">>}, u \in SecondTexts}

MCRequests ==
  {q \in [endpoint : {"chat", "messages"}, texts : Shapes] :
   q.texts[2].form = "system" => q.endpoint = "messages"}

Base ==
  [input |-> TRUE, shadow |-> FALSE, pii |-> TRUE, reversible |-> TRUE, bare |-> FALSE,
   spotlight |-> FALSE, rider |-> <<"note">>, output |-> TRUE, gate |-> TRUE, schema |-> "off",
   actions |-> [e \in Entities |-> "mask"],
   gateActions |-> [e \in Entities |-> IF e = "SSN" THEN "reject" ELSE "mask"],
   bundle |-> <<>>]

\* R1 blocks, R2 flags; R3 flags a phrase that R1 blocks; R4, a regex rule, is
\* not merged, and its placeholder is what the audit line of personal data
\* looks up.
PolicyRule(id, pattern, regex, action) ==
  [id |-> id, pattern |-> pattern, regex |-> regex, action |-> action,
   placeholder |-> IF regex THEN "pii" ELSE ""]

R1 == PolicyRule("R1", "jailbreak", FALSE, "block")
R2 == PolicyRule("R2", "w", FALSE, "flag")
R3 == PolicyRule("R3", "jailbreak", FALSE, "flag")
R4 == PolicyRule("R4", "tok", TRUE, "redact")

MCConfigs ==
  {Base,
   [Base EXCEPT !.schema = "reject"],
   [Base EXCEPT !.schema = "log", !.output = FALSE],
   [Base EXCEPT !.reversible = FALSE, !.gate = FALSE],
   [Base EXCEPT !.reversible = FALSE, !.bare = TRUE, !.spotlight = TRUE, !.rider = <<>>],
   [Base EXCEPT !.actions = [@ EXCEPT !["SSN"] = "reject", !["CARD"] = "reject", !["TOKEN"] = "log"], !.spotlight = TRUE],
   [Base EXCEPT !.bundle = <<R1, R2, R4>>],
   [Base EXCEPT !.bundle = <<R1, R3>>],
   [Base EXCEPT !.bundle = <<R1, R2>>, !.shadow = TRUE, !.pii = FALSE],
   [Base EXCEPT !.actions = [e \in Entities |-> "log"]]}

MCInputs == [cfg : MCConfigs, req : MCRequests]

MCPhrases == {<<>>, <<"ssn">>, Token("EMAIL", "_3")}

Frame(b, a) == [before |-> b, after |-> a]
MCFrames ==
  {Frame(<<>>, <<>>), Frame(<<"w", "{">>, <<"}">>),
   Frame(<<Fence, "w", Newline, "{", Space>>, <<"}", Newline, Fence>>)}
MCDictionary == {<<"ssn">>, <<"SSN">>}

MCBlockRegex ==
  <<[pattern |-> "e.*", matches |-> {<<"evil">>}], [pattern |-> "b", matches |-> {<<"w", "b@x">>}]>>

\* A string, a number or a key, and a string written with an escape.
Str(t) == [str |-> TRUE, raw |-> t, text |-> t]
Number(t) == [str |-> FALSE, raw |-> t, text |-> t]
Escaped(t) == [str |-> TRUE, raw |-> <<"esc">>, text |-> t]
Find(args) == [name |-> "find", args |-> args]

MCCallSets ==
  {<<>>,
   <<Find(<<Str(<<"a@x", "w">>), Number(<<"w">>)>>), [name |-> "drop", args |-> <<Str(<<"w">>)>>]>>,
   <<Find(<<Number(<<"b@x">>), Escaped(<<"a@x">>)>>), Find(<<Number(<<"123">>)>>)>>,
   <<Find(<<Str(<<"a@x">>), Escaped(<<"123">>)>>)>>}

\* Objects with at most one member, written with or without a space; the schema
\* does not take a bare number.
Members == {<<>>, <<"a@x">>, <<Stars>>} \cup {Token("SSN", "_1")}
MCConforming ==
  LET tight(m) == <<"{">> \o m \o <<"}">>
      loose(m) == <<"{", Space>> \o m \o <<"}">>
  IN  [t \in {tight(m) : m \in Members} \cup {loose(m) : m \in Members} |->
         tight(CHOOSE m \in Members : t \in {tight(m), loose(m)})]

\* What the proofs assume of placeholders holds in this instance.
ASSUME InertAssumption == PlaceholdersInert /\ GateInert /\ Legible
=============================================================================
