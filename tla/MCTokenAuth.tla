----------------------------- MODULE MCTokenAuth -----------------------------
(* Instances of TokenAuth for TLC. *)
EXTENDS TokenAuth, TLC

CONSTANTS w1, w2, w3, p1, p2, p3, r1, r2, r3, m1, m2, m3, v1, v2

OneWire == w1 :> p1

\* Two wires that collide on their prefix.
TwoWires == w1 :> p1 @@ w2 :> p1

\* Every wire has its own prefix: more prefixes than cache slots.
DistinctPrefixes == w1 :> p1 @@ w2 :> p2 @@ w3 :> p3

NoExpiry == {Never}
SomeExpire == {Never, 1}

\* Requests, mints and revocations are interchangeable.
TaskSymmetry ==
  Permutations({r1, r2, r3}) \cup Permutations({m1, m2, m3})
    \cup Permutations({v1, v2})
=============================================================================
