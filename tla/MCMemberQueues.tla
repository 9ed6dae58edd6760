--------------------------- MODULE MCMemberQueues ---------------------------
(* MemberQueues for TLC. The handlers and the scans are interchangeable.     *)
EXTENDS MemberQueues, TLC

Symmetry == Permutations(Handlers) \cup Permutations(Scans)
=============================================================================
