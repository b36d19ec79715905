-------------------------- MODULE MCConsoleSession --------------------------
(* Instances of ConsoleSession for TLC. *)
EXTENDS ConsoleSession, TLC

CONSTANTS adm, bob, a0, l1, l2, l3, r1, r2

\* The administrator is signed in already.
AdminSignedIn == a0 :> adm

\* The right password before and after a change, and a wrong one, with and
\* without an address.
SomeTries ==
  [user : {bob}, guess : {0, Null}, from : {NoAddress}]
    \cup {[user |-> bob, guess |-> Null, from |-> "ip"]}

Fields(r, d) == [role |-> r, disabled |-> d]

SomeAsks ==
  {[op |-> "logout", target |-> bob, patch |-> Fields(Keep, Keep)],
   [op |-> "reset", target |-> bob, patch |-> Fields(Keep, Keep)],
   [op |-> "create", target |-> bob, patch |-> Fields("user", Keep)],
   [op |-> "update", target |-> bob, patch |-> Fields("admin", Keep)],
   [op |-> "update", target |-> bob, patch |-> Fields("user", "yes")]}

\* Three logins; two operations and a login.
SomeMixes == {{l1, l2, l3}, {l1, r1, r2}}
Interchangeable == Permutations({l1, l2, l3}) \cup Permutations({r1, r2})
=============================================================================
