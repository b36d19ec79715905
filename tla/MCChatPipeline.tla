--------------------------- MODULE MCChatPipeline ---------------------------
(* Instances of ChatPipeline for TLC. *)
EXTENDS ChatPipeline, TLC

CONSTANTS q1, q2, q3, k1, b1, b2, b3

OneKey == [q \in Requests |-> k1]

\* One backend and no rules.
NoRules == <<>>

\* The first matching rule wins; a model no rule names goes to the default.
RulesWithFallback ==
  <<[models |-> {"m1"}, backend |-> b1, fallback |-> <<b2, b3>>],
    [models |-> {"m1", "m2"}, backend |-> b2, fallback |-> <<b1>>]>>

RequestSymmetry == Permutations({q1, q2, q3})
=============================================================================
