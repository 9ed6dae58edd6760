--------------------------- MODULE MCMemberLists ---------------------------
(* MemberLists for TLC.  EachItself and ExactAfter make lists sound; the    *)
(* others are what memberlist.js does.                                      *)
EXTENDS MemberLists

AllListable == [l \in Lists |-> Keys]
ExactAfter == [l \in Lists |-> [k \in Keys |-> k]]
EachItself == [l \in Lists |-> l]

(* The id that loadMembers makes of the address of the second row,          *)
(* "john_doe_example.org", is after "john.smith@example.org", the third.    *)
UnderscoreAfter ==
  [l \in Lists |-> [k \in Keys |-> IF l = Members /\ k = 2 THEN 3 ELSE k]]
=============================================================================
