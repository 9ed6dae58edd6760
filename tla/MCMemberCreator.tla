--------------------------- MODULE MCMemberCreator ---------------------------
(* MemberCreator for TLC: who has which user name. e2 is a name that has     *)
(* characters outside of ASCII and is n2 without them; u3 has no name.       *)
EXTENDS MemberCreator, TLC

CONSTANTS u1, u2, u3, n1, n2, e2

AsciiOfNames == [n \in Names |-> IF n = e2 THEN n2 ELSE n]

DistinctNames ==
  [u \in Uuids |-> IF u = u1 THEN n1 ELSE IF u = u2 THEN e2 ELSE NoName]

(* Runs are interchangeable. *)
Symmetry == Permutations(Runs)
=============================================================================
