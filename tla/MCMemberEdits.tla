--------------------------- MODULE MCMemberEdits ---------------------------
(* MemberEdits for TLC: two text fields, two data values, and members who    *)
(* have or have not been given a user name by an earlier release.            *)
EXTENDS MemberEdits, TLC

CONSTANTS d1, d2

MCTextFields == {"name", "username"}

(* Two details of the address. *)
AddressFields == {"street", "city", "username"}

LegacyRecord(username) ==
  [f \in Fields |-> IF f = "username" THEN username
                    ELSE IF f \in BoolFields \cup {"fee_yearly"} THEN "false"
                    ELSE d1]

(* One member at a time: there is no row of any other. *)
OneInit ==
  Init /\ \E m \in Members : \A n \in Members \ {m} : pb_data[n] = Absent

(* Handlers are interchangeable. *)
Symmetry == Permutations(Handlers)

OneMember == OneInit /\ [][Next]_vars

MCInitialRecords == {LegacyRecord(NoValue), LegacyRecord(d1)}
=============================================================================
