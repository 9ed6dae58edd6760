---------------------------- MODULE MemberQueues ----------------------------
(***************************************************************************)
(* The way of a membership record through the column families of Cassandra  *)
(* (db/cassandra.go), as the web frontend moves it (applicantlist.go,       *)
(* memberqueue.go): a scan is uploaded to an application, the application   *)
(* is accepted or rejected, a queued record is cancelled.  Each request     *)
(* reads the row with a quorum read and then executes a logged batch; there *)
(* is no lock and no condition, and nothing is executed again.              *)
(*                                                                          *)
(* A row key is the prefix of its column family and the id.  The rows of an *)
(* earlier release have the 16 bytes of the UUID there ("raw"); so do those *)
(* that StoreMembershipAgreement writes.  The lists show the 36 characters  *)
(* of the UUID ("text"), and the requests that move a record put what they  *)
(* are sent behind the prefix as it is.  IdForms says what they are sent.   *)
(*                                                                          *)
(* As in MemberEdits, the records of Contended may be subject to several    *)
(* requests at a time, the others to one; and a batch about a record of     *)
(* Delayed that timed out may be executed later, with the time at which it  *)
(* was sent: of its rows those stay as they are that were inserted or       *)
(* deleted since.  One batch of a record at a time is late.                 *)
(***************************************************************************)
EXTENDS Naturals

CONSTANTS
  Uuids,       \* the records
  Contended,   \* those that several requests may be about at a time
  Delayed,     \* those of which a batch may take effect late
  Handlers,    \* the goroutines that serve requests
  Scans,       \* what may be uploaded as a scan of the agreement
  IdForms,     \* how the requests that move a record name it
  NoScan, NoRow, NoBatch, Unknown,
  MaxRequests  \* bound: how many requests are served

ColumnFamilies == {"application", "membership_queue", "membership_dequeue",
                   "membership_archive"}
Forms == {"raw", "text"}
Slots == ColumnFamilies \X Forms  \* where there may be a row of a record
Record == Scans \cup {NoScan}  \* of a record, what its scan is

ASSUME QueuesAssumption ==
  /\ Contended \subseteq Uuids /\ Delayed \subseteq Uuids
  /\ IdForms \subseteq Forms
  /\ NoScan \notin Scans
  /\ Unknown \notin Record
  /\ NoRow \notin Record
  /\ MaxRequests \in Nat

VARIABLES
  rows,    \* the rows of each record, by column family and form of the key
  req,     \* the request each handler is serving
  served,  \* how many requests have been started
  acked,   \* history: the scan that the clients know to be in each record
  late     \* the batch of each record that is yet to take effect

vars == <<rows, req, served, acked, late>>

Moves == {"MoveApplicantToNewMember", "MoveApplicantToTrash",
          "MoveQueuedRecordToTrash"}
Ops == Moves \cup {"StoreMembershipAgreement"}

Source(op) ==
  IF op = "MoveQueuedRecordToTrash" THEN "membership_queue" ELSE "application"

Target(op) ==
  IF op = "MoveApplicantToNewMember" THEN "membership_queue"
  ELSE IF op = "StoreMembershipAgreement" THEN "application"
  ELSE "membership_archive"

Requests ==
  [pc: {"read", "write"}, op: Ops, u: Uuids, form: Forms,
   scan: Record, buf: Record]

(* A batch that was sent, and the rows that were written since. *)
LateBatches == [op: Ops, form: Forms, buf: Record, newer: SUBSET Slots]

ASSUME NoBatchAssumption == NoBatch \notin LateBatches

Idle == [pc |-> "idle"]
Busy(h, u) == req[h] # Idle /\ req[h].u = u

(* Every record is in one column family, and was accepted with a scan. *)
Init ==
  /\ \E place \in [Uuids -> ColumnFamilies], scan \in [Uuids -> Record] :
       /\ \A u \in Uuids : place[u] = "membership_queue" => scan[u] # NoScan
       /\ rows = [u \in Uuids |->
                    [s \in Slots |->
                       IF s = <<place[u], "raw">> THEN scan[u] ELSE NoRow]]
       /\ acked = scan
  /\ req = [h \in Handlers |-> Idle]
  /\ served = 0
  /\ late = [u \in Uuids |-> NoBatch]
-----------------------------------------------------------------------------
(* The request handlers. *)

Start(h, op, u, form, scan) ==
  /\ req[h] = Idle
  /\ served < MaxRequests
  /\ u \in Contended \/ \A g \in Handlers : ~ Busy(g, u)
  /\ req' = [req EXCEPT ![h] =
               [pc |-> "read", op |-> op, u |-> u, form |-> form,
                scan |-> scan, buf |-> NoScan]]
  /\ served' = served + 1
  /\ UNCHANGED <<rows, acked, late>>

MemberAcceptHandler(h, u, form) ==
  Start(h, "MoveApplicantToNewMember", u, form, NoScan)

MemberRejectHandler(h, u, form) ==
  Start(h, "MoveApplicantToTrash", u, form, NoScan)

MemberQueueCancelHandler(h, u, form) ==
  Start(h, "MoveQueuedRecordToTrash", u, form, NoScan)

(* StoreMembershipAgreement parses the id, which must be text, and uses the *)
(* bytes of the UUID. To upload an empty file is to take the scan away.     *)
MemberAgreementUploadHandler(h, u, scan) ==
  Start(h, "StoreMembershipAgreement", u, "raw", scan)
-----------------------------------------------------------------------------
(* The database functions. *)

From(q) == <<Source(q.op), q.form>>
To(q) == <<Target(q.op), q.form>>
Found(h) == rows[req[h].u][From(req[h])]

(* Mutant: applications without a scan are accepted. *)
ScanUnchecked(op, r) == FALSE

(* Mutant: the wrong move asks for a scan. *)
ScanAskedOfCancel(op, r) == op = "MoveQueuedRecordToTrash" /\ r = NoScan

(* "No membership agreement scan has been uploaded". *)
ScanMissing(op, r) == op = "MoveApplicantToNewMember" /\ r = NoScan

Finish(h) == req' = [req EXCEPT ![h] = Idle]

(* Mutant: that there is no row is not noticed. *)
LookUpUnchecked(h) ==
  /\ req[h] # Idle /\ req[h].pc = "read"
  /\ req' = [req EXCEPT ![h] = [@ EXCEPT !.pc = "write", !.buf = Found(h)]]
  /\ UNCHANGED <<rows, served, acked, late>>

(* Mutant: the uploaded scan is not put into the record. *)
LookUpDropsScan(h) ==
  /\ req[h] # Idle /\ req[h].pc = "read"
  /\ Found(h) # NoRow
  /\ ~ ScanMissing(req[h].op, Found(h))
  /\ req' = [req EXCEPT ![h] = [@ EXCEPT !.pc = "write", !.buf = Found(h)]]
  /\ UNCHANGED <<rows, served, acked, late>>

LookUp(h) ==
  LET q == req[h]  r == Found(h) IN
  /\ q # Idle /\ q.pc = "read"
  /\ r # NoRow
  /\ ~ ScanMissing(q.op, r)
  /\ req' = [req EXCEPT ![h] =
               [@ EXCEPT !.pc = "write",
                         !.buf = IF q.op = "StoreMembershipAgreement"
                                 THEN q.scan ELSE r]]
  /\ UNCHANGED <<rows, served, acked, late>>

(* There is no such row. *)
NotFound(h) ==
  /\ req[h] # Idle /\ req[h].pc = "read"
  /\ Found(h) = NoRow
  /\ Finish(h)
  /\ UNCHANGED <<rows, served, acked, late>>

(* The read fails, or there is no scan. *)
LookUpFails(h) ==
  /\ req[h] # Idle /\ req[h].pc = "read"
  /\ Finish(h)
  /\ UNCHANGED <<rows, served, acked, late>>

(* Mutant: the old row is not deleted. *)
MoveCopies(h) ==
  rows' = [rows EXCEPT ![req[h].u][To(req[h])] = req[h].buf]

MoveBatch(h) ==
  LET q == req[h] IN
  rows' = [rows EXCEPT ![q.u] = [@ EXCEPT ![To(q)] = q.buf, ![From(q)] = NoRow]]

StoreBatch(h) ==
  rows' = [rows EXCEPT ![req[h].u][To(req[h])] = req[h].buf]

(* What is written now is newer than what is yet to take effect. *)
Overtake(h) ==
  LET q == req[h]  b == late[req[h].u] IN
  late' = IF b = NoBatch THEN late
          ELSE [late EXCEPT ![q.u] =
                  [b EXCEPT !.newer = @ \cup {From(q), To(q)}]]

Batch(h) ==
  /\ IF req[h].op \in Moves THEN MoveBatch(h) ELSE StoreBatch(h)
  /\ Overtake(h)

(* The batch is not executed yet. *)
Postpone(h) ==
  LET q == req[h] IN
  /\ q.u \in Delayed /\ late[q.u] = NoBatch
  /\ late' = [late EXCEPT ![q.u] =
                [op |-> q.op, form |-> q.form, buf |-> q.buf, newer |-> {}]]
  /\ UNCHANGED rows

(* What the clients know about the scan once the batch was sent. *)
Tell(h, ok) ==
  acked' = IF req[h].op \in Moves THEN acked
           ELSE [acked EXCEPT ![req[h].u] =
                   IF ok THEN req[h].scan ELSE Unknown]

WriteBack(h) ==
  /\ req[h] # Idle /\ req[h].pc = "write"
  /\ Batch(h)
  /\ Tell(h, TRUE)
  /\ Finish(h)
  /\ UNCHANGED served

(* Mutant: the batch of a move is no logged one, and when it fails only the *)
(* DELETE of it has been executed.                                          *)
WriteFailsUnlogged(h) ==
  /\ req[h] # Idle /\ req[h].pc = "write" /\ req[h].op \in Moves
  /\ rows' = [rows EXCEPT ![req[h].u][From(req[h])] = NoRow]
  /\ Overtake(h)
  /\ Tell(h, FALSE)
  /\ Finish(h)
  /\ UNCHANGED served

(* ExecuteBatch fails, and the batch has been executed, never will be, or   *)
(* will be later.                                                           *)
WriteFails(h) ==
  /\ req[h] # Idle /\ req[h].pc = "write"
  /\ Batch(h) \/ UNCHANGED <<rows, late>> \/ Postpone(h)
  /\ Tell(h, FALSE)
  /\ Finish(h)
  /\ UNCHANGED served

(* A batch takes effect late. *)
LateBatch(u) ==
  LET b == late[u] IN
  /\ b # NoBatch
  /\ rows' = [rows EXCEPT ![u] =
       [s \in Slots |-> IF s \in b.newer THEN rows[u][s]
                        ELSE IF s = To(b) THEN b.buf
                        ELSE IF s = From(b) THEN NoRow
                        ELSE rows[u][s]]]
  /\ late' = [late EXCEPT ![u] = NoBatch]
  /\ UNCHANGED <<req, served, acked>>

(* The web frontend goes down. *)
Crash ==
  /\ \E h \in Handlers : req[h] # Idle
  /\ req' = [h \in Handlers |-> Idle]
  /\ UNCHANGED <<rows, served, acked, late>>
-----------------------------------------------------------------------------
Handle(h) ==
  \/ \E u \in Uuids, form \in IdForms :
       \/ MemberAcceptHandler(h, u, form)
       \/ MemberRejectHandler(h, u, form)
       \/ MemberQueueCancelHandler(h, u, form)
  \/ \E u \in Uuids, s \in Record : MemberAgreementUploadHandler(h, u, s)
  \/ LookUp(h) \/ NotFound(h) \/ LookUpFails(h)
  \/ WriteBack(h) \/ WriteFails(h)

Next ==
  \/ \E h \in Handlers : Handle(h)
  \/ Crash
  \/ \E u \in Uuids : LateBatch(u)

Spec == Init /\ [][Next]_vars
-----------------------------------------------------------------------------
(* The lists: rows with anything but 16 bytes behind the prefix are left    *)
(* out.  What a list shows of a row is the text of the UUID.                *)
Enumerate(cf) == {u \in Uuids : rows[u][<<cf, "raw">>] # NoRow}

(* Where the rows are that hold the record u. *)
RowsOf(u) == {s \in Slots : rows[u][s] # NoRow}

Quiet == Uuids \ (Contended \cup Delayed)
-----------------------------------------------------------------------------
(* Every variable holds what it should. *)
TypeOK ==
  /\ rows \in [Uuids -> [Slots -> Record \cup {NoRow}]]
  /\ req \in [Handlers -> Requests \cup {Idle}]
  /\ served \in 0..MaxRequests
  /\ acked \in [Uuids -> Record \cup {Unknown}]
  /\ late \in [Uuids -> LateBatches \cup {NoBatch}]

(* However many requests are about a record at a time, and whatever becomes *)
(* of their batches, there is a row left that holds it: a move that takes   *)
(* effect late does not delete the last one when its own row is not         *)
(* inserted any more.                                                       *)
NothingLost == \A u \in Uuids : RowsOf(u) # {}

(* No record without a scan of the signed agreement gets into the queue,    *)
(* not even while scans are uploaded and records moved at the same time.    *)
QueuedHasScan ==
  \A u \in Uuids, form \in Forms :
    rows[u][<<"membership_queue", form>>] # NoScan

(* A record is in one place: it is not accepted and rejected at the same    *)
(* time, and no row of it stays behind.                                     *)
OnePlace(u) == \A r, s \in RowsOf(u) : r = s

(* An uploaded scan that was acknowledged is in every row of the record,    *)
(* wherever it was moved to.                                                *)
ScanKept(u) ==
  \A s \in RowsOf(u) : acked[u] \in {Unknown, rows[u][s]}

(* Both hold for the records that one request at a time is about, and whose *)
(* batches are not late.                                                    *)
QuietOnePlace == \A u \in Quiet : OnePlace(u)
QuietScanKept == \A u \in Quiet : ScanKept(u)

(* A request about a record that the list shows finds it. *)
ListedIsFound ==
  [][\A h \in Handlers :
       NotFound(h) => req[h].u \notin Enumerate(Source(req[h].op))]_vars

(* These records go the way of the abstract life cycle, in atomic steps.    *)
Where(u) == CHOOSE s \in RowsOf(u) : TRUE

QuietPlace == [u \in Quiet |-> Where(u)[1]]
QuietScan == [u \in Quiet |-> rows[u][Where(u)]]

Lifecycle == INSTANCE MemberLifecycle
  WITH Uuids <- Quiet, place <- QuietPlace, scan <- QuietScan

ImplementsLifecycle == Lifecycle!Spec
=============================================================================
