--------------------------- MODULE MCConfigReload ---------------------------
(* Instances of ConfigReload for TLC. *)
EXTENDS ConfigReload

CONSTANTS e1, e2, b1, b2, m1

To(b, f) == [model |-> m1, backend |-> b, fallback |-> f]

Routing(d, rules) == [default |-> d, rules |-> rules]

\* One backend and no routing section.
OneBackend == [backends |-> {b1}, routing |-> Routing(NoLabel, <<>>), rest |-> "good"]

\* The second and the third table do not pass: a fallback that is the primary,
\* a fallback that is named twice.
SomeTables ==
  {Routing(b1, <<To(b1, <<b2>>)>>), Routing(b1, <<To(b1, <<b1>>)>>),
   Routing(b2, <<To(b1, <<b2, b2>>)>>), Routing(b1, <<>>)}

\* Raw edits: a dictionary that is not there; a default that is not configured.
BadEdits ==
  {[OneBackend EXCEPT !.rest = "bad"], [OneBackend EXCEPT !.routing.default = b2]}

NoEdits == {}

\* An earlier edit has set a default.
OneBackup == <<[conf |-> [OneBackend EXCEPT !.routing.default = b1], ver |-> 0]>>
=============================================================================
