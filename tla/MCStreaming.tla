----------------------------- MODULE MCStreaming -----------------------------
(***************************************************************************)
(* Instances of Streaming: every answer of at most MaxEvents events over   *)
(* small alphabets of text, of tool calls and of usage reports.            *)
(***************************************************************************)
EXTENDS Streaming

CONSTANT MaxEvents

Plain == [kind |-> "data", wide |-> FALSE, choice |-> 0, text |-> <<>>, call |-> NoCall,
          finish |-> FALSE, usage |-> NoUsage]

Text(t) == [Plain EXCEPT !.text = t]
Call(i, n, a) == [Plain EXCEPT !.call = [index |-> i, name |-> n, args |-> a]]
Usage(n) == [Plain EXCEPT !.usage = n]
Done == [Plain EXCEPT !.kind = "done"]
Comment == [Plain EXCEPT !.kind = "comment"]

\* Placeholders whole and in parts, phrases whole, in parts and in brackets, a
\* bracket that opens nothing, the mark of the end, a second choice.
TextEvents ==
  {Text(<<"[">>), Text(<<"EMAIL", "_1", "]">>), Text(<<"w", "credit", "card">>),
   Text(<<"[", "SSN">>), Text(<<"_1", "]", "credit">>), Text(<<"[", "EMAIL", "_1", "]">>),
   Text(<<"card">>), Text(DoneMark \o <<"SSN">>),
   [Text(<<"w", "w">>) EXCEPT !.wide = TRUE], Text(<<"[", "w", "w", "w">>),
   [Text(<<"]">>) EXCEPT !.choice = 1]}

\* Two calls, an allowed and a denied name, arguments in halves; an event
\* that carries a call and finishes.
ToolEvents ==
  {Call(0, "drop", "{}"), Call(0, "find", ""), Call(0, "", "{"), Call(0, "", "}"),
   Call(1, "drop", ""), [Plain EXCEPT !.finish = TRUE],
   [Call(1, "find", "") EXCEPT !.finish = TRUE],
   [Call(0, "find", "{}") EXCEPT !.choice = 1]}

UsageEvents ==
  {Usage(1), [Usage(2) EXCEPT !.wide = TRUE], Text(<<"w">>), Done, Comment}

UpTo(S) == UNION {[1..n -> S] : n \in 0..MaxEvents}

\* Each alphabet with the switches it depends on.
Under(output, reversible, gate, streams) ==
  [cfg : [output : output, reversible : reversible, gate : gate], events : streams]

ToolAnswers == Under(BOOLEAN, {FALSE}, {TRUE}, UpTo(ToolEvents))
TextAnswers == Under({TRUE}, BOOLEAN, {FALSE}, UpTo(TextEvents))

MCAnswers ==
  TextAnswers \cup ToolAnswers \cup Under(BOOLEAN, {TRUE}, BOOLEAN, UpTo(UsageEvents))

MCEntries == <<[token |-> Token("EMAIL", "_1"), value |-> <<"a@x">>],
               [token |-> Token("SSN", "_1"), value |-> <<"123">>]>>

MCAtoms == {Open, Close, Stars, "w", "credit", "card", "SSN", "EMAIL", "_1", "a@x", "123", "DONE"}
MCDictionary == {<<"SSN">>, <<"credit", "card">>}
MCValidArgs == {<<"{}">>, <<"{", "}">>}

\* What the proof that a streamed text reads as a whole one needs.
ASSUME LegibleAssumption == Legible
=============================================================================
