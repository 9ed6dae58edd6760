-------------------------- MODULE MemberLifecycle --------------------------
(***************************************************************************)
(* The way of a membership record (type MembershipDB, db.go): an applicant  *)
(* uploads the scan of the signed agreement and is accepted or rejected,    *)
(* someone who was accepted waits in the queue until the account is there,  *)
(* or is sent to the archive, a member leaves, and once the account is gone *)
(* the record is archived.  The record is in one place at any time, and     *)
(* moves with its scan.                                                     *)
(***************************************************************************)
CONSTANTS
  Uuids,   \* the records
  Scans,   \* what may be uploaded as a scan
  NoScan   \* nothing was

VARIABLES
  place,   \* where each record is
  scan     \* the scan in each record

vars == <<place, scan>>

Places == {"application", "membership_queue", "members",
           "membership_dequeue", "membership_archive"}

Init ==
  /\ place \in [Uuids -> Places]
  /\ scan \in [Uuids -> Scans \cup {NoScan}]
  /\ \A u \in Uuids : place[u] = "membership_queue" => scan[u] # NoScan

Move(u, from, to) ==
  /\ place[u] = from
  /\ place' = [place EXCEPT ![u] = to]
  /\ UNCHANGED scan

StoreMembershipAgreement(u, s) ==
  /\ place[u] = "application"
  /\ scan' = [scan EXCEPT ![u] = s]
  /\ UNCHANGED place

MoveApplicantToNewMember(u) ==
  scan[u] # NoScan /\ Move(u, "application", "membership_queue")

MoveApplicantToTrash(u) == Move(u, "application", "membership_archive")
MoveQueuedRecordToTrash(u) == Move(u, "membership_queue", "membership_archive")
MoveNewMemberToFullMember(u) == Move(u, "membership_queue", "members")
MoveMemberToTrash(u) == Move(u, "members", "membership_dequeue")
MoveDeletedMemberToArchive(u) ==
  Move(u, "membership_dequeue", "membership_archive")

Next ==
  \E u \in Uuids :
    \/ \E s \in Scans \cup {NoScan} : StoreMembershipAgreement(u, s)
    \/ MoveApplicantToNewMember(u)
    \/ MoveApplicantToTrash(u)
    \/ MoveQueuedRecordToTrash(u)
    \/ MoveNewMemberToFullMember(u)
    \/ MoveMemberToTrash(u)
    \/ MoveDeletedMemberToArchive(u)

Spec == Init /\ [][Next]_vars
=============================================================================
