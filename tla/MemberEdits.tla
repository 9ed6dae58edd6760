---------------------------- MODULE MemberEdits ----------------------------
(***************************************************************************)
(* Editing the members (db/cassandra.go), as the request handlers of the    *)
(* web frontend do (membersys/memberlist.go): SetMemberFee, SetLongValue,   *)
(* SetBoolValue, SetTextValue and MoveMemberToTrash each read pb_data with  *)
(* a quorum read, change the decoded record in memory, and write it back    *)
(* with a logged batch.  Nothing is locked in between, and the batch has no *)
(* condition.                                                               *)
(*                                                                          *)
(* A row of the column family "members" holds the encoded record (pb_data)  *)
(* and a copy of its fields as columns; "member_agreements" holds a second  *)
(* copy of pb_data.  An UPDATE of a row that is not there creates it.       *)
(*                                                                          *)
(* The members of Contended may be edited by several requests at a time.    *)
(* The others are edited by one request at a time, as when one person looks *)
(* after them; their records must come to no harm whatever happens to the   *)
(* contended ones.                                                          *)
(*                                                                          *)
(* A batch that timed out may be executed at any later time, with the time  *)
(* at which it was sent: a cell that was written or deleted since then      *)
(* stays as it is, while the other cells of the batch are set.  That may    *)
(* happen to the members of Delayed, to one batch of each at a time.        *)
(***************************************************************************)
EXTENDS Naturals, Sequences

CONSTANTS
  Members,        \* the members, by the e-mail address that is their row key
  Contended,      \* those that several requests may edit at a time
  Delayed,        \* those of whom a batch may take effect late
  Handlers,       \* the goroutines that serve requests
  Data,           \* amounts, times and texts
  TextFields,     \* the fields of SetTextValue
  InitialRecords, \* the records an earlier release has left in the database
  NoMember, NoBatch, NoValue, Keep, Unknown, Absent, Undecodable,
  MaxRetries,     \* config.RetryPolicy.NumRetries
  MaxRequests     \* bound: how many requests are served

Booleans == {"true", "false"}
Value == Data \cup Booleans
LongFields == {"payments_caught_up_to"}
BoolFields == {"has_key"}
Fields == {"email", "fee", "fee_yearly"} \cup LongFields \cup BoolFields
            \cup TextFields

(* The fields that one request may change. *)
FieldGroups == {{f} : f \in Fields \ {"email"}} \cup {{"fee", "fee_yearly"}}

Record == [Fields -> Value \cup {NoValue}]
Change == [Fields -> Value \cup {NoValue, Keep}]
PbData == Record \cup {Absent, Undecodable}

(* What a batch may write of one member: the columns, and the two copies of *)
(* the encoded record.                                                      *)
Cells == Fields \cup {"pb_data", "agreements"}

ASSUME EditsAssumption ==
  /\ Contended \subseteq Members /\ Delayed \subseteq Members
  /\ NoMember \notin Members
  /\ "username" \in TextFields
  /\ TextFields \cap ({"email", "fee", "fee_yearly"} \cup LongFields
                        \cup BoolFields \cup {"pb_data", "agreements"}) = {}
  /\ InitialRecords \subseteq Record
  /\ \A r \in InitialRecords : r["email"] # NoValue
  /\ NoValue \notin Value
  /\ Keep \notin Value \cup {NoValue}
  /\ Unknown \notin Value \cup {NoValue}
  /\ Absent \notin Record /\ Undecodable \notin Record
  /\ Absent # Undecodable
  /\ MaxRetries \in Nat /\ MaxRequests \in Nat

VARIABLES
  pb_data,      \* members.pb_data, or Absent when there is no row
  columns,      \* the other columns of members
  agreements,   \* member_agreements.pb_data
  dequeue,      \* what each member's departures have put into membership_dequeue
  req,          \* the request each handler is serving
  served,       \* how many requests have been started
  acked,        \* history: what the clients know each field to be
  late          \* the batch of each member that is yet to take effect

vars == <<pb_data, columns, agreements, dequeue, req, served, acked, late>>
tables == <<pb_data, columns, agreements, dequeue>>

NoColumns == [f \in Fields |-> NoValue]
Nothing == [f \in Fields |-> Keep]

(* The change that sets one field. *)
Only(field, v) == [f \in Fields |-> IF f = field THEN v ELSE Keep]

(* The record r after the change c. *)
Apply(r, c) == [f \in Fields |-> IF c[f] = Keep THEN r[f] ELSE c[f]]

(* What a client knows after sending the change c: the new values if it was *)
(* told so, else nothing about the fields of c.                             *)
Learn(k, c, known) ==
  [f \in Fields |-> IF c[f] = Keep THEN k[f]
                    ELSE IF known THEN c[f] ELSE Unknown]

Ops == {"SetMemberFee", "SetLongValue", "SetBoolValue", "SetTextValue",
        "MoveMemberToTrash"}

Idle == [pc |-> "idle", op |-> "SetMemberFee", id |-> NoMember,
         field |-> "fee", change |-> Nothing, buf |-> NoColumns,
         tries |-> 0, refused |-> FALSE]

Request ==
  [pc: {"idle", "read", "write"}, op: Ops, id: Members \cup {NoMember},
   field: Fields, change: Change, buf: Record, tries: 0..MaxRetries,
   refused: BOOLEAN]

(* A batch that was sent, and the cells that were written since.            *)
LateBatches ==
  [op: Ops, change: Change, buf: Record, newer: SUBSET Cells]

ASSUME NoBatchAssumption == NoBatch \notin LateBatches

Busy(h, m) == req[h].pc # "idle" /\ req[h].id = m

Init ==
  /\ pb_data \in [Members -> InitialRecords \cup {Absent, Undecodable}]
  /\ columns = [m \in Members |->
                  IF pb_data[m] \in Record THEN pb_data[m] ELSE NoColumns]
  /\ agreements = pb_data
  /\ dequeue = [m \in Members |-> << >>]
  /\ req = [h \in Handlers |-> Idle]
  /\ served = 0
  /\ acked = [m \in Members |->
                IF pb_data[m] \in Record THEN pb_data[m]
                ELSE [f \in Fields |-> Unknown]]
  /\ late = [m \in Members |-> NoBatch]
-----------------------------------------------------------------------------
(* The request handlers: the form is parsed and the database is called.     *)

Start(h, m, op, field, change, refused) ==
  /\ req[h].pc = "idle"
  /\ served < MaxRequests
  /\ m \in Contended \/ \A g \in Handlers : ~ Busy(g, m)
  /\ req' = [req EXCEPT ![h] =
               [pc |-> "read", op |-> op, id |-> m, field |-> field,
                change |-> change, buf |-> NoColumns, tries |-> 0,
                refused |-> refused]]
  /\ served' = served + 1
  /\ UNCHANGED <<tables, acked, late>>

(* A fee_yearly that is neither "true" nor "false" is answered with "Not a  *)
(* boolean", but the handler does not return: it goes on with false.        *)
MemberFeeHandler(h, m, fee, yearly) ==
  LET parsed == IF yearly \in Booleans THEN yearly ELSE "false" IN
  Start(h, m, "SetMemberFee", "fee",
        [Only("fee", fee) EXCEPT !["fee_yearly"] = parsed],
        yearly \notin Booleans)

MemberLongFieldHandler(h, m, field, v) ==
  Start(h, m, "SetLongValue", field, Only(field, v), FALSE)

MemberBoolFieldHandler(h, m, field, v) ==
  Start(h, m, "SetBoolValue", field, Only(field, v), FALSE)

MemberTextFieldHandler(h, m, field, v) ==
  Start(h, m, "SetTextValue", field, Only(field, v), FALSE)

MemberGoodbyeHandler(h, m) ==
  Start(h, m, "MoveMemberToTrash", "email", Nothing, FALSE)
-----------------------------------------------------------------------------
(* The database functions: the quorum read and the change in memory.        *)

(* The fields each function knows; any other is answered with "Unknown      *)
(* field specified".                                                        *)
KnownField(op, field) ==
  CASE op = "SetMemberFee" -> TRUE
    [] op = "SetLongValue" -> field \in LongFields
    [] op = "SetBoolValue" -> field \in BoolFields
    [] op = "SetTextValue" -> field \in TextFields
    [] op = "MoveMemberToTrash" -> TRUE

(* Mutant: the new user name is looked at instead of the old one. *)
UsernameEmpty(r, change) == change["username"] = NoValue

(* "Cannot modify user name". *)
UsernameTaken(r, change) ==
  change["username"] # Keep /\ r["username"] # NoValue

Finish(h) == req' = [req EXCEPT ![h] = Idle]

(* Mutant: the record that was read is not decoded into the one that is     *)
(* changed, which starts out empty.                                         *)
ReadNothing(h) ==
  LET q == req[h] IN
  /\ q.pc = "read"
  /\ pb_data[q.id] \in Record
  /\ KnownField(q.op, q.field)
  /\ req' = [req EXCEPT ![h] =
               [@ EXCEPT !.pc = "write", !.buf = Apply(NoColumns, q.change)]]
  /\ UNCHANGED <<tables, served, acked, late>>

ReadRecord(h) ==
  LET q == req[h]  r == pb_data[req[h].id] IN
  /\ q.pc = "read"
  /\ r \in Record
  /\ KnownField(q.op, q.field)
  /\ ~ UsernameTaken(r, q.change)
  /\ req' = [req EXCEPT ![h] =
               [@ EXCEPT !.pc = "write", !.buf = Apply(r, q.change)]]
  /\ UNCHANGED <<tables, served, acked, late>>

(* No row, pb_data that cannot be decoded, an unknown field, a user name    *)
(* that is set already, or a read that fails: an error, and nothing done.   *)
ReadFails(h) ==
  /\ req[h].pc = "read"
  /\ Finish(h)
  /\ UNCHANGED <<tables, served, acked, late>>

(* Mutant: the second statement of the batch is forgotten. *)
UpdateOneTable(h) ==
  LET q == req[h] IN
  /\ pb_data' = [pb_data EXCEPT ![q.id] = q.buf]
  /\ columns' = [columns EXCEPT ![q.id] = Apply(@, q.change)]
  /\ UNCHANGED <<agreements, dequeue>>

(* Mutant: SetMemberFee does not set the column fee_yearly. *)
UpdateForgetsYearly(h) ==
  LET q == req[h] IN
  /\ pb_data' = [pb_data EXCEPT ![q.id] = q.buf]
  /\ columns' = [columns EXCEPT
       ![q.id] = Apply(@, [q.change EXCEPT !["fee_yearly"] = Keep])]
  /\ agreements' = [agreements EXCEPT ![q.id] = q.buf]
  /\ UNCHANGED dequeue

(* The batch that puts the record and the changed columns back. *)
UpdateBatch(h) ==
  LET q == req[h] IN
  /\ pb_data' = [pb_data EXCEPT ![q.id] = q.buf]
  /\ columns' = [columns EXCEPT ![q.id] = Apply(@, q.change)]
  /\ agreements' = [agreements EXCEPT ![q.id] = q.buf]
  /\ UNCHANGED dequeue

(* Mutant: the row of members is not deleted. *)
TrashKeepsRow(h) ==
  /\ dequeue' = [dequeue EXCEPT ![req[h].id] = Append(@, req[h].buf)]
  /\ UNCHANGED <<pb_data, columns, agreements>>

(* The batch of MoveMemberToTrash. Its key in membership_dequeue is a fresh *)
(* UUID; the row of member_agreements stays.                                *)
TrashBatch(h) ==
  LET q == req[h] IN
  /\ dequeue' = [dequeue EXCEPT ![q.id] = Append(@, q.buf)]
  /\ pb_data' = [pb_data EXCEPT ![q.id] = Absent]
  /\ columns' = [columns EXCEPT ![q.id] = NoColumns]
  /\ UNCHANGED agreements

(* The cells that a batch writes or deletes. *)
Written(op, change) ==
  IF op = "MoveMemberToTrash" THEN Fields \cup {"pb_data"}
  ELSE {f \in Fields : change[f] # Keep} \cup {"pb_data", "agreements"}

(* What is written now is newer than what is yet to take effect. *)
Overtake(h) ==
  LET q == req[h]  b == late[req[h].id] IN
  late' = IF b = NoBatch THEN late
          ELSE [late EXCEPT ![q.id] =
                  [b EXCEPT !.newer = @ \cup Written(q.op, q.change)]]

Batch(h) ==
  /\ IF req[h].op = "MoveMemberToTrash" THEN TrashBatch(h) ELSE UpdateBatch(h)
  /\ Overtake(h)

(* The batch is not executed yet. *)
Postpone(h) ==
  LET q == req[h] IN
  /\ q.id \in Delayed /\ late[q.id] = NoBatch
  /\ late' = [late EXCEPT ![q.id] =
                [op |-> q.op, change |-> q.change, buf |-> q.buf,
                 newer |-> {}]]
  /\ UNCHANGED tables

(* What the client of h knows after a batch: the change if it was told so.  *)
Tell(h, ok) ==
  acked' = [acked EXCEPT ![req[h].id] =
              Learn(@, req[h].change, ok /\ ~ req[h].refused)]

(* The batch is executed and the request is answered with "{}". *)
WriteBack(h) ==
  /\ req[h].pc = "write"
  /\ Batch(h)
  /\ Tell(h, TRUE)
  /\ Finish(h)
  /\ UNCHANGED served

(* Mutant: the result of ExecuteBatch is not looked at. *)
WriteErrorIgnored(h) ==
  /\ req[h].pc = "write"
  /\ Batch(h) \/ UNCHANGED <<tables, late>>
  /\ Tell(h, TRUE)
  /\ Finish(h)
  /\ UNCHANGED served

(* Mutant: the batch is executed again without end. *)
WriteRetriedForever(h) ==
  /\ req[h].pc = "write"
  /\ Batch(h) \/ UNCHANGED <<tables, late>>
  /\ Tell(h, FALSE)
  /\ req' = [req EXCEPT ![h].tries = @ + 1]
  /\ UNCHANGED served

(* ExecuteBatch fails, and the batch has been executed, never will be, or   *)
(* will be later.  The batches of the Set functions carry the retry policy  *)
(* of the session and may be executed again; those of MoveMemberToTrash do  *)
(* not.                                                                     *)
WriteFails(h) ==
  /\ req[h].pc = "write"
  /\ Batch(h) \/ UNCHANGED <<tables, late>> \/ Postpone(h)
  /\ Tell(h, FALSE)
  /\ \/ Finish(h)
     \/ /\ req[h].op # "MoveMemberToTrash"
        /\ req[h].tries < MaxRetries
        /\ req' = [req EXCEPT ![h].tries = @ + 1]
  /\ UNCHANGED served

(* A batch takes effect late.                                               *)

LateUpdate(m) ==
  LET b == late[m] IN
  /\ b # NoBatch /\ b.op # "MoveMemberToTrash"
  /\ pb_data' = IF "pb_data" \in b.newer THEN pb_data
                ELSE [pb_data EXCEPT ![m] = b.buf]
  /\ agreements' = IF "agreements" \in b.newer THEN agreements
                   ELSE [agreements EXCEPT ![m] = b.buf]
  /\ columns' = [columns EXCEPT ![m] =
       [f \in Fields |-> IF b.change[f] = Keep \/ f \in b.newer
                         THEN columns[m][f] ELSE b.change[f]]]
  /\ late' = [late EXCEPT ![m] = NoBatch]
  /\ UNCHANGED <<dequeue, req, served, acked>>

LateTrash(m) ==
  LET b == late[m] IN
  /\ b # NoBatch /\ b.op = "MoveMemberToTrash"
  /\ dequeue' = [dequeue EXCEPT ![m] = Append(@, b.buf)]
  /\ pb_data' = IF "pb_data" \in b.newer THEN pb_data
                ELSE [pb_data EXCEPT ![m] = Absent]
  /\ columns' = [columns EXCEPT ![m] =
       [f \in Fields |-> IF f \in b.newer THEN columns[m][f] ELSE NoValue]]
  /\ late' = [late EXCEPT ![m] = NoBatch]
  /\ UNCHANGED <<agreements, req, served, acked>>

(* The web frontend goes down: the requests are cut off, the rows stay.     *)
Crash ==
  /\ \E h \in Handlers : req[h].pc # "idle"
  /\ req' = [h \in Handlers |-> Idle]
  /\ UNCHANGED <<tables, served, acked, late>>
-----------------------------------------------------------------------------
(* The field that a request names: one that is known, or another.           *)
Asked(known) == known \cup {"email"}

Handle(h) ==
  \/ \E m \in Members, v \in Data :
       \/ \E yearly \in Booleans \cup {"other"} :
            MemberFeeHandler(h, m, v, yearly)
       \/ \E f \in Asked(LongFields) : MemberLongFieldHandler(h, m, f, v)
       \/ \E f \in Asked(TextFields) : MemberTextFieldHandler(h, m, f, v)
  \/ \E m \in Members, f \in Asked(BoolFields), v \in Booleans :
       MemberBoolFieldHandler(h, m, f, v)
  \/ \E m \in Members : MemberGoodbyeHandler(h, m)
  \/ ReadRecord(h) \/ ReadFails(h)
  \/ WriteBack(h) \/ WriteFails(h)

Next ==
  \/ Crash
  \/ \E h \in Handlers : Handle(h)
  \/ \E m \in Members : LateUpdate(m) \/ LateTrash(m)

Spec == Init /\ [][Next]_vars
-----------------------------------------------------------------------------
(* The readers: what the list of members shows, and the detail page.        *)

EnumerateMembers == {m \in Members : columns[m]["email"] # NoValue}
MemberFromRow(m) == columns[m]
GetMemberDetail(m) == pb_data[m]
-----------------------------------------------------------------------------
(* Every variable holds what it should. *)
TypeOK ==
  /\ pb_data \in [Members -> PbData]
  /\ columns \in [Members -> Record]
  /\ agreements \in [Members -> PbData]
  /\ dequeue \in [Members -> Seq(Record)]
  /\ req \in [Handlers -> Request]
  /\ served \in 0..MaxRequests
  /\ acked \in [Members -> [Fields -> Value \cup {NoValue, Unknown}]]
  /\ late \in [Members -> LateBatches \cup {NoBatch}]

(* The two encoded copies of a member's record, in members and in           *)
(* member_agreements, are the same, however many requests write them and    *)
(* whichever of their batches are lost, late, repeated or reported wrongly. *)
CopiesAgree ==
  \A m \in Members : pb_data[m] # Absent => agreements[m] = pb_data[m]

(* A member whose detail page can be shown is on the list of members, with  *)
(* the same data: the columns the Set functions write do not drift from the *)
(* pb_data they write, through retries, failures and crashes.               *)
ListShowsDetail(m) ==
  GetMemberDetail(m) \in Record =>
    m \in EnumerateMembers /\ MemberFromRow(m) = GetMemberDetail(m)

(* A change the client was told of is in the record until a later request   *)
(* changes that field: SetMemberFee and its kin lose no update, and nothing *)
(* that comes late takes it back.                                           *)
EditsDurable(m) ==
  pb_data[m] \in Record =>
    \A f \in Fields : acked[m][f] \in {Unknown, pb_data[m][f]}

(* A member who was moved to the trash is gone from the list, is in the     *)
(* dequeue once, and no acknowledged change is missing from that record.    *)
GoodbyeFinal(m) ==
  dequeue[m] # << >> =>
    /\ pb_data[m] = Absent
    /\ Len(dequeue[m]) = 1
    /\ \A f \in Fields : acked[m][f] \in {Unknown, dequeue[m][1][f]}

(* Once given, a user name stays as long as the row does: SetTextValue      *)
(* answers "Cannot modify user name".                                       *)
UsernameKept(m) ==
  /\ pb_data[m] \in Record /\ pb_data[m]["username"] # NoValue
  /\ pb_data'[m] \in Record
  => pb_data'[m]["username"] = pb_data[m]["username"]

Sole == Members \ Contended
Quiet == Sole \ Delayed

(* Of the members that are edited by one request at a time no edit is lost, *)
(* also when a batch of theirs is late.                                     *)
SoleEditsDurable == \A m \in Sole : EditsDurable(m)

(* The other three promises need batches that are not late as well: a late  *)
(* one sets columns beside a newer pb_data, or takes a row away in part.    *)
QuietListShowsDetail == \A m \in Quiet : ListShowsDetail(m)
QuietGoodbyeFinal == \A m \in Quiet : GoodbyeFinal(m)
QuietUsernameKept == [][\A m \in Quiet : UsernameKept(m)]_vars

(* "Edit address details of the specified member": the page sends an edit    *)
(* for each detail, all at once, and none of them undoes another that was    *)
(* acknowledged.  That is of any member, as these edits make none quiet.     *)
DetailsEdited ==
  [][\A h \in Handlers, f \in TextFields \ {"username"} :
       /\ req[h].pc = "write" /\ req[h].op = "SetTextValue"
       /\ req'[h] = Idle /\ pb_data'[req[h].id] \in Record
       => acked'[req[h].id][f] \in {Unknown, pb_data'[req[h].id][f]}]_vars

(* A request that was answered with "Not a boolean" would change nothing.   *)
RefusedChangesNothing ==
  [][\A h \in Handlers :
        req[h].pc = "write" /\ req[h].refused /\ req'[h] # req[h]
          => UNCHANGED tables]_vars

(* The members that are edited by one request at a time are as the promise  *)
(* of MemberRecords has them.                                               *)
Records == INSTANCE MemberRecords
             WITH record <- [m \in Quiet |-> pb_data[m]],
                  dequeued <- [m \in Quiet |-> dequeue[m]],
                  Members <- Quiet

ImplementsRecords == Records!Spec
=============================================================================
