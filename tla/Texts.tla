-------------------------------- MODULE Texts --------------------------------
(***************************************************************************)
(* Texts are sequences of atoms: brackets, the name or the index of a      *)
(* placeholder, a word, a personal value.  Atoms are as fine as the splits *)
(* of a stream: `[SSN_1]` is the four atoms [ SSN _1 ].  Here are the      *)
(* placeholders of src/src/guard/vault.rs, the bracket test of             *)
(* src/src/matcher/mod.rs and the exact strategy of                        *)
(* src/src/guard/deanonymize.rs.                                           *)
(***************************************************************************)
EXTENDS Integers, SequencesExt

Open == "["
Close == "]"

\* format_placeholder: [ENTITY_n]; the LLM Guard style only differs in the name.
Token(entity, index) == <<Open, entity, index, Close>>

\* is_inside_brackets: the nearest bracket before position i is an opening one.
InsideBrackets(t, i) ==
  \E j \in 1..i - 1 :
    /\ t[j] = Open
    /\ \A k \in j + 1..i - 1 : t[k] \notin {Open, Close}

Occurs(t, p, i) ==
  i >= 1 /\ i + Len(p) - 1 <= Len(t) /\ SubSeq(t, i, i + Len(p) - 1) = p

\* str::replace of every occurrence of p, which cannot overlap itself.
Replace(t, p, v) ==
  FlattenSeq([i \in 1..Len(t) |->
    IF Occurs(t, p, i) THEN v
    ELSE IF \E j \in i - Len(p) + 1..i - 1 : Occurs(t, p, j) THEN <<>>
    ELSE <<t[i]>>])

\* Exact::restore: one pass per entry [token, value], in the order given.
Restore(t, entries) ==
  FoldLeft(LAMBDA s, e : Replace(s, e.token, e.value), t, entries)
=============================================================================
