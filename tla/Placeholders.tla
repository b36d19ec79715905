---------------------------- MODULE Placeholders ----------------------------
(***************************************************************************)
(* The texts of one configuration: the atoms there are, and the output     *)
(* filter of src/src/matcher/mod.rs, which overwrites phrases but leaves   *)
(* placeholders alone.                                                     *)
(***************************************************************************)
EXTENDS Texts

CONSTANTS
  Atoms,       \* what texts are made of
  Dictionary   \* phrases of the output dictionary, as sequences of atoms

Stars == "***"       \* what is left of a masked phrase

ASSUME AtomsAssumption == {Open, Close, Stars} \subseteq Atoms
ASSUME DictionaryAssumption == Dictionary \subseteq Seq(Atoms) \ {<<>>}

\* The phrases of the dictionary that scan finds at j.
PhrasesAt(t, j) == {p \in Dictionary : Occurs(t, p, j)}

\* Seeded fault: the filter masks inside brackets too.
MutMasks(t, i) == \E j \in 1..i : \E p \in PhrasesAt(t, j) : i < j + Len(p)

\* Position i lies in a phrase that does not start inside an unclosed bracket.
Masks(t, i) ==
  \E j \in 1..i : ~InsideBrackets(t, j) /\ \E p \in PhrasesAt(t, j) : i < j + Len(p)

\* filter_output: what it masks is overwritten, byte by byte.
FilterOutput(t) == [i \in DOMAIN t |-> IF Masks(t, i) THEN Stars ELSE t[i]]
=============================================================================
