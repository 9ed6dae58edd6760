--------------------------- MODULE MemberRecords ---------------------------
(***************************************************************************)
(* What the membership database promises about the records of the members  *)
(* (type MembershipDB, db.go): an edit changes the fields it is for, on the *)
(* record as it stands at that moment, and nothing else; a user name is     *)
(* given once; a member who leaves takes the whole record to the dequeue.   *)
(* There are no handlers, no reads and no batches here: each promise is one *)
(* step.  MemberEdits, which has them, is shown to implement this module.   *)
(***************************************************************************)
EXTENDS Sequences

CONSTANTS
  Members,      \* the members, by the e-mail address that is their row key
  Fields,       \* the fields of the record
  FieldGroups,  \* the sets of fields that one edit may change
  Record,       \* the records
  NoValue,      \* a field that is not set
  Absent,       \* there is no row
  Undecodable   \* there is a row, but pb_data is no MembershipAgreement

VARIABLES
  record,       \* the record of each member
  dequeued      \* the records handed to the removal of the user account

vars == <<record, dequeued>>

Init ==
  /\ record \in [Members -> Record \cup {Absent, Undecodable}]
  /\ dequeued = [m \in Members |-> << >>]

(* An edit of the fields in group. *)
Edit(m, group) ==
  /\ record[m] \in Record
  /\ record' = [record EXCEPT ![m] = record'[m]]
  /\ record'[m] \in Record
  /\ \A f \in Fields \ group : record'[m][f] = record[m][f]
  /\ record[m]["username"] # NoValue =>
       record'[m]["username"] = record[m]["username"]
  /\ UNCHANGED dequeued

(* The member leaves, with the record as it is now. *)
Leave(m) ==
  /\ record[m] \in Record
  /\ dequeued' = [dequeued EXCEPT ![m] = Append(@, record[m])]
  /\ record' = [record EXCEPT ![m] = Absent]

Next ==
  \E m \in Members : Leave(m) \/ \E group \in FieldGroups : Edit(m, group)

Spec == Init /\ [][Next]_vars
=============================================================================
