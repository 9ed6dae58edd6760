------------------------- MODULE MemberQueuesProofs -------------------------
(***************************************************************************)
(* Proofs about MemberQueues, for any records, handlers, scans and number   *)
(* of requests, any way of naming the records, and any of them whose        *)
(* batches may be late.                                                     *)
(***************************************************************************)
EXTENDS MemberQueues, TLAPS

(* What a request that is about to write holds. *)
WriteShape ==
  \A h \in Handlers :
    LET q == req[h] IN
    q # Idle /\ q.pc = "write" =>
      /\ q.op = "MoveApplicantToNewMember" => q.buf # NoScan
      /\ q.op = "StoreMembershipAgreement" => q.buf = q.scan

(* No two requests are under way about a record of Quiet. *)
OneAtATime ==
  \A u \in Quiet : \A g, h \in Handlers : Busy(g, u) /\ Busy(h, u) => g = h

(* The row that a request about a quiet record has read is still there when *)
(* it writes, and still as it was read.                                     *)
WriteIsCurrent ==
  \A h \in Handlers :
    LET q == req[h] IN
    q # Idle /\ q.pc = "write" /\ q.u \in Quiet =>
      /\ rows[q.u][From(q)] # NoRow
      /\ q.op \in Moves => q.buf = rows[q.u][From(q)]

(* A late batch is about a record of Delayed, and accepts nobody without a  *)
(* scan.                                                                    *)
LateShape ==
  \A u \in Uuids : late[u] # NoBatch =>
    /\ u \in Delayed
    /\ late[u].op = "MoveApplicantToNewMember" => late[u].buf # NoScan

(* The row that a late move would insert was written since: it is there, or *)
(* the record has gone on to the archive, where nothing is deleted.         *)
LateFits ==
  \A u \in Uuids :
    LET b == late[u] IN
    b # NoBatch /\ b.op \in Moves /\ To(b) \in b.newer =>
      \/ rows[u][To(b)] # NoRow
      \/ rows[u][<<"membership_archive", b.form>>] # NoRow

IInv ==
  /\ TypeOK
  /\ WriteShape
  /\ LateShape
  /\ LateFits
  /\ NothingLost
  /\ QueuedHasScan
  /\ OneAtATime
  /\ WriteIsCurrent
  /\ QuietOnePlace
  /\ QuietScanKept
-----------------------------------------------------------------------------
(* A handler that serves nobody is not one that serves a request. *)
LEMMA IdleShape ==
  /\ Idle \notin Requests
  /\ \A q \in Requests : q # Idle /\ q.pc \in {"read", "write"}
BY DEF Idle, Requests

(* Where each request reads and writes. *)
LEMMA Routes ==
  ASSUME NEW q \in Requests
  PROVE  /\ From(q) \in Slots /\ To(q) \in Slots
         /\ q.op \in Moves => From(q) # To(q)
         /\ q.op \notin Moves =>
              From(q) = To(q) /\ q.op = "StoreMembershipAgreement"
         /\ q.op # "MoveApplicantToNewMember" =>
              \A form \in Forms : To(q) # <<"membership_queue", form>>
BY DEF Requests, Ops, Moves, From, To, Source, Target, Slots, ColumnFamilies

(* From where a row is moved, and to where; nothing is moved out of the     *)
(* archive, and what is moved on from where a move has put it goes there.   *)
LEMMA LateRoutes ==
  ASSUME NEW b \in LateBatches
  PROVE  /\ From(b) \in Slots /\ To(b) \in Slots
         /\ b.op \in Moves =>
              /\ From(b) # To(b)
              /\ From(b) # <<"membership_archive", b.form>>
         /\ b.op \notin Moves => From(b) = To(b)
         /\ b.op # "MoveApplicantToNewMember" =>
              \A form \in Forms : To(b) # <<"membership_queue", form>>
         /\ <<"membership_archive", b.form>> \in Slots
         /\ b.buf \in Record /\ b.buf # NoRow /\ b.newer \subseteq Slots
BY QueuesAssumption
   DEF LateBatches, Ops, Moves, From, To, Source, Target, Slots, ColumnFamilies

LEMMA MovedOn ==
  ASSUME NEW b \in LateBatches, NEW q \in Requests, b.op \in Moves, q.op \in Moves
  PROVE  /\ From(q) # <<"membership_archive", b.form>>
         /\ From(q) = To(b) => To(q) = <<"membership_archive", b.form>>
BY DEF LateBatches, Requests, Ops, Moves, From, To, Source, Target

(* A request that starts. *)
LEMMA StartMoves ==
  ASSUME TypeOK, NEW h \in Handlers, NEW op \in Ops, NEW u \in Uuids,
         NEW form \in Forms, NEW scan \in Record,
         Start(h, op, u, form, scan)
  PROVE  /\ req' \in [Handlers -> Requests \cup {Idle}]
         /\ served' \in 0..MaxRequests
         /\ UNCHANGED <<rows, acked, late>>
         /\ req'[h].pc = "read" /\ req'[h].u = u /\ req'[h] # Idle
         /\ \A g \in Handlers \ {h} : req'[g] = req[g]
         /\ u \in Quiet => \A g \in Handlers : ~ Busy(g, u)
<1>1. [pc |-> "read", op |-> op, u |-> u, form |-> form, scan |-> scan,
       buf |-> NoScan] \in Requests
  BY DEF Requests, Record
<1>2. served' \in 0..MaxRequests
  BY QueuesAssumption DEF Start, TypeOK
<1> QED BY <1>1, <1>2, IdleShape DEF Start, TypeOK, Quiet

(* Every form starts a request that has its operation. *)
LEMMA Handled ==
  ASSUME NEW h \in Handlers, Handle(h)
  PROVE  \/ \E op \in Ops, u \in Uuids, form \in Forms, scan \in Record :
              Start(h, op, u, form, scan)
         \/ LookUp(h) \/ NotFound(h) \/ LookUpFails(h)
         \/ WriteBack(h) \/ WriteFails(h)
BY QueuesAssumption
   DEF Handle, MemberAcceptHandler, MemberRejectHandler,
       MemberQueueCancelHandler, MemberAgreementUploadHandler, Ops, Moves,
       Forms, Record

(* A request that has read its row. *)
LEMMA LookUpMoves ==
  ASSUME TypeOK, NEW h \in Handlers, LookUp(h)
  PROVE  /\ req' \in [Handlers -> Requests \cup {Idle}]
         /\ \A g \in Handlers \ {h} : req'[g] = req[g]
         /\ req'[h].u = req[h].u /\ req'[h].op = req[h].op
         /\ From(req'[h]) = From(req[h])
         /\ req'[h].scan = req[h].scan /\ req'[h] # Idle /\ req[h] # Idle
         /\ req'[h].buf = IF req[h].op = "StoreMembershipAgreement"
                          THEN req[h].scan ELSE Found(h)
         /\ Found(h) # NoRow /\ ~ ScanMissing(req[h].op, Found(h))
<1>1. req[h] \in Requests
  BY IdleShape DEF LookUp, TypeOK
<1>2. Found(h) \in Record
  BY <1>1, Routes DEF LookUp, TypeOK, Found, Requests
<1> DEFINE b == IF req[h].op = "StoreMembershipAgreement"
                THEN req[h].scan ELSE Found(h)
           n == [req[h] EXCEPT !.pc = "write", !.buf = b]
<1>3. b \in Record
  BY <1>1, <1>2 DEF Requests
<1>4. /\ n \in Requests /\ n.u = req[h].u /\ n.op = req[h].op
      /\ n.scan = req[h].scan /\ n.buf = b /\ n.form = req[h].form
  BY <1>1, <1>3 DEF Requests
<1>5. req' = [req EXCEPT ![h] = n]
  BY DEF LookUp
<1> HIDE DEF n
<1>6. req'[h] = n
  BY <1>5 DEF TypeOK
<1> QED BY <1>4, <1>5, <1>6, IdleShape DEF LookUp, TypeOK, From

(* A request that is over. *)
LEMMA FinishMoves ==
  ASSUME TypeOK, NEW h \in Handlers, Finish(h)
  PROVE  /\ req' \in [Handlers -> Requests \cup {Idle}]
         /\ \A g \in Handlers \ {h} : req'[g] = req[g]
         /\ req'[h] = Idle
BY DEF Finish, TypeOK

(* What a batch does to the rows of the record it is about. *)
LEMMA BatchMoves ==
  ASSUME TypeOK, NEW h \in Handlers, NEW q \in Requests, q = req[h], Batch(h)
  PROVE  /\ rows' \in [Uuids -> [Slots -> Record \cup {NoRow}]]
         /\ q.u \in Uuids /\ q.buf \in Record /\ q.buf # NoRow
         /\ \A u \in Uuids \ {q.u} : rows'[u] = rows[u]
         /\ rows'[q.u][To(q)] = q.buf
         /\ q.op \in Moves => rows'[q.u][From(q)] = NoRow
         /\ \A s \in Slots \ {From(q), To(q)} : rows'[q.u][s] = rows[q.u][s]
<1>1. q.u \in Uuids /\ q.buf \in Record /\ q.buf # NoRow
  BY QueuesAssumption DEF Requests
<1>2. rows[q.u] \in [Slots -> Record \cup {NoRow}]
  BY <1>1 DEF TypeOK
<1>3. CASE q.op \in Moves
  <2>1. rows' = [rows EXCEPT ![q.u] =
                   [rows[q.u] EXCEPT ![To(q)] = q.buf, ![From(q)] = NoRow]]
    BY <1>3 DEF Batch, MoveBatch
  <2> QED BY <1>1, <1>2, <1>3, <2>1, Routes DEF TypeOK
<1>4. CASE q.op \notin Moves
  <2>1. rows' = [rows EXCEPT ![q.u] = [rows[q.u] EXCEPT ![To(q)] = q.buf]]
    BY <1>4 DEF Batch, StoreBatch
  <2> QED BY <1>1, <1>2, <1>4, <2>1, Routes DEF TypeOK
<1> QED BY <1>3, <1>4

(* What a batch does to a batch that is late.                               *)
LEMMA OvertakeMoves ==
  ASSUME TypeOK, NEW h \in Handlers, NEW q \in Requests, q = req[h], Overtake(h)
  PROVE  /\ late' \in [Uuids -> LateBatches \cup {NoBatch}]
         /\ \A u \in Uuids \ {q.u} : late'[u] = late[u]
         /\ late[q.u] = NoBatch => late'[q.u] = NoBatch
         /\ late[q.u] # NoBatch =>
              /\ late[q.u] \in LateBatches /\ late'[q.u] \in LateBatches
              /\ late'[q.u] # NoBatch
              /\ late'[q.u].op = late[q.u].op /\ late'[q.u].form = late[q.u].form
              /\ late'[q.u].buf = late[q.u].buf
              /\ late'[q.u].newer = late[q.u].newer \cup {From(q), To(q)}
<1>1. q.u \in Uuids /\ From(q) \in Slots /\ To(q) \in Slots
  BY Routes DEF Requests
<1>2. CASE late[q.u] = NoBatch
  BY <1>1, <1>2 DEF Overtake, TypeOK
<1>3. CASE late[q.u] # NoBatch
  <2> DEFINE b == [late[q.u] EXCEPT !.newer = @ \cup {From(q), To(q)}]
  <2>1. late[q.u] \in LateBatches
    BY <1>1, <1>3 DEF TypeOK
  <2>2. /\ b \in LateBatches /\ b.op = late[q.u].op /\ b.form = late[q.u].form
        /\ b.buf = late[q.u].buf
        /\ b.newer = late[q.u].newer \cup {From(q), To(q)}
    BY <1>1, <2>1 DEF LateBatches
  <2>3. late' = [late EXCEPT ![q.u] = b]
    BY <1>3 DEF Overtake
  <2> HIDE DEF b
  <2>4. late'[q.u] = b /\ \A u \in Uuids \ {q.u} : late'[u] = late[u]
    BY <1>1, <2>3 DEF TypeOK
  <2>5. late' \in [Uuids -> LateBatches \cup {NoBatch}]
    BY <2>2, <2>3 DEF TypeOK
  <2> QED BY <1>3, <2>1, <2>2, <2>4, <2>5, NoBatchAssumption
<1> QED BY <1>2, <1>3

(* A late move that is overtaken keeps to what LateFits says of it.         *)
LEMMA OvertakenFits ==
  ASSUME IInv, NEW h \in Handlers, NEW q \in Requests, q = req[h], Batch(h)
  PROVE  /\ late' \in [Uuids -> LateBatches \cup {NoBatch}]
         /\ LateShape' /\ LateFits'
<1>1. Overtake(h)
  BY DEF Batch
<1>2. /\ q.u \in Uuids /\ q.buf # NoRow
      /\ \A u \in Uuids \ {q.u} : rows'[u] = rows[u]
      /\ rows'[q.u][To(q)] = q.buf
      /\ \A s \in Slots \ {From(q), To(q)} : rows'[q.u][s] = rows[q.u][s]
  BY BatchMoves DEF IInv
<1>3. LateShape'
  BY <1>1, <1>2, OvertakeMoves DEF IInv, LateShape
<1>4. LateFits'
  <2> SUFFICES ASSUME NEW u \in Uuids, late'[u] # NoBatch, late'[u].op \in Moves,
                      To(late'[u]) \in late'[u].newer
               PROVE  \/ rows'[u][To(late'[u])] # NoRow
                      \/ rows'[u][<<"membership_archive", late'[u].form>>] # NoRow
    BY DEF LateFits, To, Target
  <2>1. CASE u # q.u
    <3>1. late'[u] = late[u] /\ rows'[u] = rows[u]
      BY <1>1, <1>2, <2>1, OvertakeMoves DEF IInv
    <3> QED BY <3>1 DEF IInv, LateFits
  <2>2. CASE u = q.u
    <3> DEFINE b == late[u]
    <3>1. /\ b \in LateBatches /\ b # NoBatch /\ b.op \in Moves
          /\ To(late'[u]) = To(b) /\ late'[u].form = b.form
          /\ late'[u].newer = b.newer \cup {From(q), To(q)}
      BY <1>1, <2>2, OvertakeMoves DEF IInv, To
    <3> DEFINE archive == <<"membership_archive", b.form>>
    <3>2. To(b) \in Slots /\ archive \in Slots
      BY <3>1, LateRoutes
    <3> HIDE DEF b, archive
    <3>3. rows'[u][To(q)] # NoRow
      BY <1>2, <2>2
    <3>4. CASE q.op \in Moves /\ From(q) = To(b)
      BY <2>2, <3>1, <3>3, <3>4, MovedOn DEF archive
    <3>5. CASE q.op \in Moves /\ From(q) # To(b) /\ To(q) # To(b)
      <4>1. rows[u][To(b)] # NoRow \/ rows[u][archive] # NoRow
        BY <3>1, <3>5 DEF IInv, LateFits, b, archive
      <4>2. From(q) # archive
        BY <3>1, <3>5, MovedOn DEF archive
      <4> QED BY <1>2, <2>2, <3>1, <3>2, <3>3, <3>5, <4>1, <4>2 DEF archive
    <3>6. CASE q.op \notin Moves /\ To(q) # To(b)
      <4>1. From(q) = To(q)
        BY <3>6, Routes
      <4>2. rows[u][To(b)] # NoRow \/ rows[u][archive] # NoRow
        BY <3>1, <3>6, <4>1 DEF IInv, LateFits, b, archive
      <4> QED BY <1>2, <2>2, <3>1, <3>2, <3>3, <3>6, <4>1, <4>2 DEF archive
    <3>7. CASE To(q) = To(b)
      BY <3>1, <3>3, <3>7
    <3> QED BY <3>4, <3>5, <3>6, <3>7
  <2> QED BY <2>1, <2>2
<1> QED BY <1>1, <1>3, <1>4, OvertakeMoves DEF IInv

(* A batch that is put off.                                                 *)
LEMMA PostponeFits ==
  ASSUME IInv, NEW h \in Handlers, NEW q \in Requests, q = req[h], q.pc = "write",
         Postpone(h)
  PROVE  /\ late' \in [Uuids -> LateBatches \cup {NoBatch}]
         /\ LateShape' /\ LateFits'
<1> DEFINE b == [op |-> q.op, form |-> q.form, buf |-> q.buf, newer |-> {}]
<1>1. /\ b \in LateBatches /\ b.op = q.op /\ b.buf = q.buf /\ b.newer = {}
  BY DEF LateBatches, Requests
<1>2. late' = [late EXCEPT ![q.u] = b] /\ q.u \in Delayed /\ UNCHANGED rows
  BY DEF Postpone
<1> HIDE DEF b
<1>3. q.u \in Uuids /\ late'[q.u] = b /\ \A u \in Uuids \ {q.u} : late'[u] = late[u]
  BY <1>2 DEF IInv, TypeOK, Requests
<1>4. late' \in [Uuids -> LateBatches \cup {NoBatch}]
  BY <1>1, <1>2 DEF IInv, TypeOK
<1>5. LateShape'
  BY <1>1, <1>2, <1>3, IdleShape DEF IInv, LateShape, WriteShape
<1>6. LateFits'
  BY <1>1, <1>2, <1>3 DEF IInv, LateFits, To, Target
<1> QED BY <1>4, <1>5, <1>6

(* A batch that takes effect late.                                          *)
LEMMA LateBatchKeepsAll ==
  ASSUME IInv, NEW u \in Uuids, LateBatch(u)
  PROVE  IInv'
<1> DEFINE b == late[u]
<1>1. /\ b # NoBatch /\ UNCHANGED <<req, served, acked>>
      /\ rows' = [rows EXCEPT ![u] =
           [s \in Slots |-> IF s \in b.newer THEN rows[u][s]
                            ELSE IF s = To(b) THEN b.buf
                            ELSE IF s = From(b) THEN NoRow
                            ELSE rows[u][s]]]
      /\ late' = [late EXCEPT ![u] = NoBatch]
  BY DEF LateBatch
<1>2. b \in LateBatches /\ u \in Delayed
  BY <1>1 DEF IInv, TypeOK, LateShape
<1>3. /\ From(b) \in Slots /\ To(b) \in Slots
      /\ b.op \in Moves => From(b) # To(b)
      /\ b.op \notin Moves => From(b) = To(b)
      /\ b.buf \in Record /\ b.buf # NoRow
  BY <1>2, LateRoutes
<1> HIDE DEF b
<1>4. /\ \A v \in Uuids \ {u} : rows'[v] = rows[v] /\ late'[v] = late[v]
      /\ late'[u] = NoBatch
      /\ \A s \in Slots :
           rows'[u][s] = IF s \in b.newer THEN rows[u][s]
                         ELSE IF s = To(b) THEN b.buf
                         ELSE IF s = From(b) THEN NoRow
                         ELSE rows[u][s]
  BY <1>1 DEF IInv, TypeOK
<1>5. TypeOK'
  <2>1. \A s \in Slots : rows[u][s] \in Record \cup {NoRow}
    BY DEF IInv, TypeOK
  <2>2. [s \in Slots |-> IF s \in b.newer THEN rows[u][s]
                         ELSE IF s = To(b) THEN b.buf
                         ELSE IF s = From(b) THEN NoRow
                         ELSE rows[u][s]] \in [Slots -> Record \cup {NoRow}]
    BY <1>3, <2>1
  <2>3. rows' \in [Uuids -> [Slots -> Record \cup {NoRow}]]
    BY <1>1, <2>2 DEF IInv, TypeOK
  <2>4. late' \in [Uuids -> LateBatches \cup {NoBatch}]
    BY <1>1 DEF IInv, TypeOK
  <2> QED BY <1>1, <2>3, <2>4 DEF IInv, TypeOK
<1>6. LateShape' /\ LateFits'
  BY <1>4 DEF IInv, LateShape, LateFits, To, Target
<1>7. NothingLost'
  <2>1. \E s \in Slots : rows'[u][s] # NoRow
    <3>1. CASE To(b) \notin b.newer
      BY <1>3, <1>4, <3>1
    <3>2. CASE To(b) \in b.newer /\ b.op \in Moves
      <4> DEFINE archive == <<"membership_archive", b.form>>
      <4>1. rows[u][To(b)] # NoRow \/ rows[u][archive] # NoRow
        BY <1>1, <3>2 DEF IInv, LateFits, b
      <4>2. archive \in Slots /\ From(b) # archive
        BY <1>2, <3>2, LateRoutes
      <4>3. rows'[u][To(b)] = rows[u][To(b)]
        BY <1>3, <1>4, <3>2
      <4>4. rows'[u][archive] \in {rows[u][archive], b.buf}
        BY <1>4, <4>2
      <4> QED BY <1>3, <4>1, <4>2, <4>3, <4>4
    <3>3. CASE To(b) \in b.newer /\ b.op \notin Moves
      <4>1. \A s \in Slots : rows'[u][s] = rows[u][s]
        BY <1>3, <1>4, <3>3
      <4> QED BY <4>1 DEF IInv, NothingLost, RowsOf
    <3> QED BY <3>1, <3>2, <3>3
  <2> QED BY <1>4, <2>1 DEF IInv, NothingLost, RowsOf
<1>8. QueuedHasScan'
  <2> SUFFICES ASSUME NEW v \in Uuids, NEW form \in Forms
               PROVE  rows'[v][<<"membership_queue", form>>] # NoScan
    BY DEF QueuedHasScan
  <2>1. <<"membership_queue", form>> \in Slots
    BY DEF Slots, ColumnFamilies
  <2>2. rows[v][<<"membership_queue", form>>] # NoScan /\ NoRow # NoScan
    BY QueuesAssumption DEF IInv, QueuedHasScan, Record
  <2>3. To(b) = <<"membership_queue", form>> => b.buf # NoScan
    BY <1>1, <1>2, LateRoutes DEF IInv, LateShape, b
  <2> QED BY <1>4, <2>1, <2>2, <2>3
<1>9. \A v \in Quiet : v \in Uuids /\ v # u /\ rows'[v] = rows[v]
  BY <1>2, <1>4 DEF Quiet
<1>10. WriteShape' /\ OneAtATime'
  BY <1>1 DEF IInv, WriteShape, OneAtATime, Busy
<1>11. WriteIsCurrent'
  BY <1>1, <1>9 DEF IInv, WriteIsCurrent, From
<1>12. QuietOnePlace' /\ QuietScanKept'
  BY <1>1, <1>9 DEF IInv, QuietOnePlace, OnePlace, QuietScanKept, ScanKept, RowsOf
<1> QED BY <1>5, <1>6, <1>7, <1>8, <1>10, <1>11, <1>12 DEF IInv

(* The tables after a batch of any request under way, and what the clients  *)
(* know then.                                                               *)
LEMMA BatchKeepsTables ==
  ASSUME IInv, NEW h \in Handlers, NEW q \in Requests, q = req[h],
         q.pc = "write", Batch(h), NEW ok \in BOOLEAN, Tell(h, ok)
  PROVE  /\ rows' \in [Uuids -> [Slots -> Record \cup {NoRow}]]
         /\ acked' \in [Uuids -> Record \cup {Unknown}]
         /\ NothingLost' /\ QueuedHasScan'
         /\ QuietOnePlace' /\ QuietScanKept'
<1>1. /\ rows' \in [Uuids -> [Slots -> Record \cup {NoRow}]]
      /\ q.u \in Uuids /\ q.buf \in Record /\ q.buf # NoRow
      /\ \A u \in Uuids \ {q.u} : rows'[u] = rows[u]
      /\ rows'[q.u][To(q)] = q.buf
      /\ q.op \in Moves => rows'[q.u][From(q)] = NoRow
      /\ \A s \in Slots \ {From(q), To(q)} : rows'[q.u][s] = rows[q.u][s]
  BY BatchMoves DEF IInv
<1>2. /\ q # Idle
      /\ q.op = "MoveApplicantToNewMember" => q.buf # NoScan
      /\ q.op = "StoreMembershipAgreement" => q.buf = q.scan
  BY IdleShape DEF IInv, WriteShape
<1>3. /\ acked' \in [Uuids -> Record \cup {Unknown}]
      /\ \A u \in Uuids \ {q.u} : acked'[u] = acked[u]
      /\ acked'[q.u] = IF q.op \in Moves THEN acked[q.u]
                       ELSE IF ok THEN q.scan ELSE Unknown
  BY <1>1 DEF Tell, IInv, TypeOK, Requests
<1>4. NothingLost'
  BY <1>1, Routes DEF IInv, NothingLost, RowsOf
<1>5. QueuedHasScan'
  <2> SUFFICES ASSUME NEW u \in Uuids, NEW form \in Forms
               PROVE  rows'[u][<<"membership_queue", form>>] # NoScan
    BY DEF QueuedHasScan
  <2>1. <<"membership_queue", form>> \in Slots
    BY DEF Slots, ColumnFamilies
  <2>2. rows[u][<<"membership_queue", form>>] # NoScan
    BY DEF IInv, QueuedHasScan
  <2>3. NoRow # NoScan
    BY QueuesAssumption DEF Record
  <2> QED BY <1>1, <1>2, <2>1, <2>2, <2>3, Routes
<1>6. ASSUME q.u \in Quiet
      PROVE  /\ \A s \in Slots : rows'[q.u][s] # NoRow => s = To(q)
             /\ q.op \in Moves => acked[q.u] \in {Unknown, q.buf}
  <2>1. /\ rows[q.u][From(q)] # NoRow
        /\ q.op \in Moves => q.buf = rows[q.u][From(q)]
    BY <1>2, <1>6 DEF IInv, WriteIsCurrent
  <2>2. From(q) \in RowsOf(q.u)
    BY <2>1, Routes DEF RowsOf
  <2>3. \A s \in Slots : rows[q.u][s] # NoRow => s = From(q)
    BY <1>6, <2>2 DEF IInv, QuietOnePlace, OnePlace, RowsOf
  <2>4. q.op \in Moves => acked[q.u] \in {Unknown, q.buf}
    BY <1>6, <2>1, <2>2 DEF IInv, QuietScanKept, ScanKept
  <2> QED BY <1>1, <2>3, <2>4, Routes
<1>7. QuietOnePlace'
  BY <1>1, <1>6 DEF IInv, QuietOnePlace, OnePlace, RowsOf, Quiet
<1>8. QuietScanKept'
  <2> SUFFICES ASSUME NEW u \in Quiet, NEW s \in Slots, rows'[u][s] # NoRow
               PROVE  acked'[u] \in {Unknown, rows'[u][s]}
    BY DEF QuietScanKept, ScanKept, RowsOf, Quiet
  <2>1. CASE u # q.u
    BY <1>1, <1>3, <2>1
       DEF IInv, QuietScanKept, ScanKept, RowsOf, Quiet
  <2>2. CASE u = q.u
    <3>1. s = To(q) /\ rows'[u][s] = q.buf
      BY <1>1, <1>6, <2>2
    <3>2. CASE q.op \in Moves
      BY <1>3, <1>6, <2>2, <3>1, <3>2
    <3>3. CASE q.op \notin Moves
      BY <1>2, <1>3, <2>2, <3>1, <3>3, Routes
    <3> QED BY <3>2, <3>3
  <2> QED BY <2>1, <2>2
<1> QED BY <1>1, <1>3, <1>4, <1>5, <1>7, <1>8

(* A batch, or none, of one request leaves the other requests about quiet   *)
(* records with the rows that they have read.                               *)
LEMMA OthersStayCurrent ==
  ASSUME IInv, NEW h \in Handlers, NEW q \in Requests, q = req[h],
         Batch(h) \/ UNCHANGED rows, Finish(h)
  PROVE  OneAtATime' /\ WriteIsCurrent' /\ WriteShape'
<1>1. /\ \A g \in Handlers \ {h} : req'[g] = req[g]
      /\ req'[h] = Idle
  BY FinishMoves DEF IInv
<1>2. OneAtATime'
  BY <1>1 DEF IInv, OneAtATime, Busy, Quiet
<1>3. WriteShape'
  BY <1>1 DEF IInv, WriteShape
<1>4. ASSUME NEW g \in Handlers \ {h}, req[g] # Idle, req[g].pc = "write",
             req[g].u \in Quiet
      PROVE  rows'[req[g].u] = rows[req[g].u]
  <2>1. req[g].u # q.u
    BY <1>4, IdleShape DEF IInv, OneAtATime, Busy
  <2>2. CASE Batch(h)
    BY <1>4, <2>1, <2>2, BatchMoves DEF IInv, Quiet
  <2> QED BY <2>2
<1>5. WriteIsCurrent'
  <2> SUFFICES ASSUME NEW g \in Handlers, req'[g] # Idle,
                      req'[g].pc = "write", req'[g].u \in Quiet
               PROVE  /\ rows'[req'[g].u][From(req'[g])] # NoRow
                      /\ req'[g].op \in Moves =>
                           req'[g].buf = rows'[req'[g].u][From(req'[g])]
    BY DEF WriteIsCurrent, Quiet, From
  <2>1. g # h /\ req'[g] = req[g]
    BY <1>1
  <2>2. /\ rows[req[g].u][From(req[g])] # NoRow
        /\ req[g].op \in Moves => req[g].buf = rows[req[g].u][From(req[g])]
    BY <2>1 DEF IInv, WriteIsCurrent
  <2> QED BY <1>4, <2>1, <2>2
<1> QED BY <1>2, <1>3, <1>5

(* The conjuncts of the invariant that do not look at the requests.         *)
LEMMA TablesUnchanged ==
  ASSUME IInv, UNCHANGED <<rows, acked, late>>
  PROVE  /\ NothingLost' /\ QueuedHasScan' /\ QuietOnePlace' /\ QuietScanKept'
         /\ LateShape' /\ LateFits'
BY DEF IInv, LateShape, LateFits, To, Target, NothingLost, QueuedHasScan, QuietOnePlace, QuietScanKept,
   OnePlace, ScanKept, RowsOf, Quiet

(* An earlier release leaves each record in one place.                      *)
LEMMA IInvInit == Init => IInv
<1> SUFFICES ASSUME Init PROVE IInv
  OBVIOUS
<1>1. PICK place \in [Uuids -> ColumnFamilies], scan \in [Uuids -> Record] :
        /\ \A u \in Uuids :
             place[u] = "membership_queue" => scan[u] # NoScan
        /\ rows = [u \in Uuids |->
                    [s \in Slots |->
                       IF s = <<place[u], "raw">> THEN scan[u] ELSE NoRow]]
        /\ acked = scan
  BY DEF Init
<1>2. \A u \in Uuids : <<place[u], "raw">> \in Slots
  BY DEF Slots, Forms
<1>3. \A u \in Uuids, s \in Slots :
        rows[u][s] = IF s = <<place[u], "raw">> THEN scan[u] ELSE NoRow
  BY <1>1
<1>4. \A h \in Handlers : req[h] = Idle
  BY DEF Init
<1>5. TypeOK
  <2>1. rows \in [Uuids -> [Slots -> Record \cup {NoRow}]]
    BY <1>1
  <2>2. acked \in [Uuids -> Record \cup {Unknown}]
    BY <1>1
  <2>3. /\ req \in [Handlers -> Requests \cup {Idle}] /\ served \in 0..MaxRequests
        /\ late \in [Uuids -> LateBatches \cup {NoBatch}]
    BY QueuesAssumption DEF Init
  <2> QED BY <2>1, <2>2, <2>3 DEF TypeOK
<1>6. WriteShape /\ OneAtATime /\ WriteIsCurrent /\ LateShape /\ LateFits
  BY <1>4 DEF Init, WriteShape, OneAtATime, WriteIsCurrent, Busy, LateShape, LateFits
<1>7. \A u \in Uuids : scan[u] # NoRow
  BY QueuesAssumption
<1>8. NothingLost /\ QuietOnePlace /\ QuietScanKept
  BY <1>1, <1>2, <1>3, <1>7
     DEF NothingLost, QuietOnePlace, OnePlace, QuietScanKept, ScanKept, RowsOf,
         Quiet
<1>9. QueuedHasScan
  <2>1. \A form \in Forms : <<"membership_queue", form>> \in Slots
    BY DEF Slots, ColumnFamilies
  <2>2. NoRow # NoScan
    BY QueuesAssumption DEF Record
  <2> QED BY <1>1, <1>3, <2>1, <2>2 DEF QueuedHasScan
<1> QED BY <1>5, <1>6, <1>8, <1>9 DEF IInv

(* Every step keeps the inductive invariant. *)
LEMMA IInvNext == IInv /\ [Next]_vars => IInv'
<1> SUFFICES ASSUME IInv, [Next]_vars PROVE IInv'
  OBVIOUS
<1> USE DEF IInv
<1>1. CASE UNCHANGED vars
  <2>1. TypeOK' /\ WriteShape' /\ OneAtATime' /\ WriteIsCurrent'
    BY <1>1 DEF vars, TypeOK, WriteShape, OneAtATime, WriteIsCurrent, Busy
  <2> QED BY <1>1, <2>1, TablesUnchanged DEF vars
<1>2. CASE Crash
  <2>1. UNCHANGED <<rows, acked, served, late>> /\ req' = [h \in Handlers |-> Idle]
    BY <1>2 DEF Crash
  <2>2. TypeOK' /\ WriteShape' /\ OneAtATime' /\ WriteIsCurrent'
    BY <2>1 DEF TypeOK, WriteShape, OneAtATime, WriteIsCurrent, Busy
  <2> QED BY <2>1, <2>2, TablesUnchanged
<1>3. ASSUME NEW h \in Handlers, NEW op \in Ops, NEW u \in Uuids,
             NEW form \in Forms, NEW scan \in Record,
             Start(h, op, u, form, scan)
      PROVE  IInv'
  <2>1. /\ req' \in [Handlers -> Requests \cup {Idle}]
        /\ served' \in 0..MaxRequests
        /\ UNCHANGED <<rows, acked, late>>
        /\ req'[h].pc = "read" /\ req'[h].u = u /\ req'[h] # Idle
        /\ \A g \in Handlers \ {h} : req'[g] = req[g]
        /\ u \in Quiet => \A g \in Handlers : ~ Busy(g, u)
    BY <1>3, StartMoves
  <2>2. TypeOK'
    BY <2>1 DEF TypeOK
  <2>3. WriteShape' /\ WriteIsCurrent'
    BY <2>1 DEF WriteShape, WriteIsCurrent, From, Quiet
  <2>4. OneAtATime'
    BY <2>1 DEF OneAtATime, Busy, Quiet
  <2> QED BY <2>1, <2>2, <2>3, <2>4, TablesUnchanged
<1>4. ASSUME NEW h \in Handlers, LookUp(h)
      PROVE  IInv'
  <2>1. /\ req' \in [Handlers -> Requests \cup {Idle}]
        /\ \A g \in Handlers \ {h} : req'[g] = req[g]
        /\ req'[h].u = req[h].u /\ req'[h].op = req[h].op
        /\ From(req'[h]) = From(req[h])
        /\ req'[h].scan = req[h].scan /\ req'[h] # Idle /\ req[h] # Idle
        /\ req'[h].buf = IF req[h].op = "StoreMembershipAgreement"
                         THEN req[h].scan ELSE Found(h)
        /\ Found(h) # NoRow /\ ~ ScanMissing(req[h].op, Found(h))
    BY <1>4, LookUpMoves
  <2>2. UNCHANGED <<rows, served, acked, late>>
    BY <1>4 DEF LookUp
  <2>3. TypeOK'
    BY <2>1, <2>2 DEF TypeOK
  <2>4. WriteShape'
    BY <2>1 DEF WriteShape, ScanMissing
  <2>5. OneAtATime'
    BY <2>1 DEF OneAtATime, Busy, Quiet
  <2>6. WriteIsCurrent'
    BY <2>1, <2>2 DEF WriteIsCurrent, Found, Moves, From, Quiet
  <2> QED BY <2>2, <2>3, <2>4, <2>5, <2>6, TablesUnchanged
<1>5. ASSUME NEW h \in Handlers, NotFound(h) \/ LookUpFails(h)
      PROVE  IInv'
  <2>1. /\ Finish(h) /\ UNCHANGED <<rows, served, acked, late>>
        /\ req[h] \in Requests
    BY <1>5, IdleShape DEF NotFound, LookUpFails, TypeOK
  <2>2. TypeOK'
    BY <2>1, FinishMoves DEF TypeOK
  <2>3. OneAtATime' /\ WriteIsCurrent' /\ WriteShape'
    BY <2>1, OthersStayCurrent
  <2> QED BY <2>1, <2>2, <2>3, TablesUnchanged
<1>6. ASSUME NEW h \in Handlers, WriteBack(h) \/ WriteFails(h)
      PROVE  IInv'
  <2>1. /\ Finish(h) /\ UNCHANGED served
        /\ req[h] \in Requests /\ req[h].pc = "write"
        /\ Batch(h) \/ UNCHANGED <<rows, late>> \/ Postpone(h)
    BY <1>6, IdleShape DEF WriteBack, WriteFails, TypeOK
  <2>6. Batch(h) \/ UNCHANGED rows
    BY <2>1 DEF Postpone
  <2>2. OneAtATime' /\ WriteIsCurrent' /\ WriteShape'
    BY <2>1, <2>6, OthersStayCurrent
  <2>3. req' \in [Handlers -> Requests \cup {Idle}]
    BY <2>1, FinishMoves
  <2>4. CASE Batch(h)
    <3>1. PICK ok \in BOOLEAN : Tell(h, ok)
      BY <1>6 DEF WriteBack, WriteFails
    <3> QED BY <2>1, <2>2, <2>3, <2>4, <3>1, BatchKeepsTables, OvertakenFits DEF TypeOK
  <2>5. CASE UNCHANGED rows /\ (UNCHANGED late \/ Postpone(h)) /\ Tell(h, FALSE)
    <3>1. /\ acked' \in [Uuids -> Record \cup {Unknown}]
          /\ \A u \in Uuids : acked'[u] \in {acked[u], Unknown}
      BY <2>5 DEF Tell, TypeOK
    <3>2. NothingLost' /\ QueuedHasScan' /\ QuietOnePlace'
      BY <2>5 DEF NothingLost, QueuedHasScan, QuietOnePlace, OnePlace, RowsOf,
         Quiet
    <3>3. QuietScanKept'
      BY <2>5, <3>1 DEF QuietScanKept, ScanKept, RowsOf, Quiet
    <3>4. /\ late' \in [Uuids -> LateBatches \cup {NoBatch}]
          /\ LateShape' /\ LateFits'
      <4>1. CASE UNCHANGED <<rows, late>>
        BY <4>1 DEF TypeOK, LateShape, LateFits, To, Target
      <4>2. CASE Postpone(h)
        BY <2>1, <4>2, PostponeFits
      <4> QED BY <2>5, <4>1, <4>2
    <3> QED BY <2>1, <2>2, <2>3, <2>5, <3>1, <3>2, <3>3, <3>4 DEF TypeOK
  <2> QED BY <1>6, <2>4, <2>5 DEF WriteBack, WriteFails, Postpone
<1>7. ASSUME NEW u \in Uuids, LateBatch(u) PROVE IInv'
  BY <1>7, LateBatchKeepsAll
<1> QED BY <1>1, <1>2, <1>3, <1>4, <1>5, <1>6, <1>7, Handled DEF Next

(* The inductive invariant holds in every reachable state. *)
LEMMA Invariance == Spec => []IInv
BY IInvInit, IInvNext, PTL DEF Spec

(* The types are right in every reachable state. *)
THEOREM TypeCorrect == Spec => []TypeOK
<1>1. IInv => TypeOK
  BY DEF IInv
<1> QED BY <1>1, Invariance, PTL

(* No interleaving of uploads and moves loses a record, whatever the ids    *)
(* and whichever batches fail.                                              *)
THEOREM NothingIsLost == Spec => []NothingLost
<1>1. IInv => NothingLost
  BY DEF IInv
<1> QED BY <1>1, Invariance, PTL

(* Nobody is queued without a scan of the agreement.                        *)
THEOREM QueuedHaveScans == Spec => []QueuedHasScan
<1>1. IInv => QueuedHasScan
  BY DEF IInv
<1> QED BY <1>1, Invariance, PTL

(* A record that one request at a time is about is in one place.            *)
THEOREM OnePlaceAlways == Spec => []QuietOnePlace
<1>1. IInv => QuietOnePlace
  BY DEF IInv
<1> QED BY <1>1, Invariance, PTL

(* Such a record keeps the scan whose upload was acknowledged.              *)
THEOREM ScansAreKept == Spec => []QuietScanKept
<1>1. IInv => QuietScanKept
  BY DEF IInv
<1> QED BY <1>1, Invariance, PTL
-----------------------------------------------------------------------------
(* A choice among one. *)
LEMMA ChosenSlot ==
  ASSUME NEW r, NEW s \in Slots, r[s] # NoRow,
         \A t \in Slots : r[t] # NoRow => t = s
  PROVE  (CHOOSE t \in {t \in Slots : r[t] # NoRow} : TRUE) = s
<1>1. {t \in Slots : r[t] # NoRow} = {s}
  OBVIOUS
<1> QED BY <1>1

(* What a step does to the rows of the records whose batches are not late:  *)
(* nothing, or the batch of one request.                                    *)
LEMMA StepIsBatch ==
  ASSUME IInv, [Next]_vars
  PROVE  \/ \A u \in Quiet : rows'[u] = rows[u]
         \/ \E h \in Handlers :
              req[h] \in Requests /\ req[h].pc = "write" /\ Batch(h)
<1>1. CASE UNCHANGED vars
  BY <1>1 DEF vars
<1>2. CASE Crash
  BY <1>2 DEF Crash
<1>3. ASSUME NEW h \in Handlers, Handle(h)
      PROVE  \/ UNCHANGED rows
             \/ req[h] \in Requests /\ req[h].pc = "write" /\ Batch(h)
  <2>1. CASE LookUp(h) \/ NotFound(h) \/ LookUpFails(h)
    BY <2>1 DEF LookUp, NotFound, LookUpFails
  <2>2. CASE WriteBack(h) \/ WriteFails(h)
    <3>1. req[h] \in Requests
      BY <2>2 DEF WriteBack, WriteFails, IInv, TypeOK
    <3> QED BY <2>2, <3>1 DEF WriteBack, WriteFails, Postpone
  <2> QED BY <1>3, <2>1, <2>2, Handled DEF Start
<1>4. ASSUME NEW v \in Uuids, LateBatch(v)
      PROVE  \A u \in Quiet : rows'[u] = rows[u]
  <2>1. v \notin Quiet
    BY <1>4 DEF LateBatch, IInv, LateShape, Quiet
  <2> QED BY <1>4, <2>1 DEF LateBatch, IInv, TypeOK, Quiet
<1> QED BY <1>1, <1>2, <1>3, <1>4 DEF Next

(* The batch of a request about a quiet record moves its only row, as it    *)
(* is, or writes the uploaded scan into it.                                 *)
LEMMA QuietBatch ==
  ASSUME IInv, NEW h \in Handlers, NEW q \in Requests, q = req[h],
         q.pc = "write", q.u \in Quiet, Batch(h)
  PROVE  /\ QuietPlace[q.u] = Source(q.op) /\ QuietPlace'[q.u] = Target(q.op)
         /\ QuietScan'[q.u] = q.buf
         /\ q.op \in Moves => QuietScan[q.u] = q.buf
<1>1. /\ q # Idle
      /\ rows[q.u][From(q)] # NoRow
      /\ q.op \in Moves => q.buf = rows[q.u][From(q)]
  BY IdleShape DEF IInv, WriteIsCurrent
<1>2. From(q) \in Slots /\ To(q) \in Slots /\ q.u \in Uuids
  BY Routes DEF Requests
<1>3. \A t \in Slots : rows[q.u][t] # NoRow => t = From(q)
  BY <1>1, <1>2 DEF IInv, QuietOnePlace, OnePlace, RowsOf
<1>4. Where(q.u) = From(q)
  BY <1>1, <1>2, <1>3, ChosenSlot DEF Where, RowsOf
<1>5. /\ rows'[q.u][To(q)] = q.buf /\ q.buf # NoRow
      /\ \A t \in Slots : rows'[q.u][t] # NoRow => t = To(q)
  BY <1>2, <1>3, BatchMoves, Routes DEF IInv
<1>6. (CHOOSE t \in {t \in Slots : rows'[q.u][t] # NoRow} : TRUE) = To(q)
  BY <1>2, <1>5, ChosenSlot
<1>7. /\ QuietPlace'[q.u] = To(q)[1] /\ QuietScan'[q.u] = rows'[q.u][To(q)]
  BY <1>6 DEF QuietPlace, QuietScan, Where, RowsOf, Quiet
<1>8. QuietPlace[q.u] = From(q)[1] /\ QuietScan[q.u] = rows[q.u][From(q)]
  BY <1>4 DEF QuietPlace, QuietScan
<1> QED BY <1>1, <1>5, <1>7, <1>8 DEF From, To

(* Where the row of another quiet record is does not change.                *)
LEMMA OthersStay ==
  ASSUME NEW u \in Quiet, rows'[u] = rows[u]
  PROVE  QuietPlace'[u] = QuietPlace[u] /\ QuietScan'[u] = QuietScan[u]
<1>1. QuietPlace'[u] = (CHOOSE t \in {t \in Slots : rows'[u][t] # NoRow} : TRUE)[1]
  BY DEF QuietPlace, Where, RowsOf, Quiet
<1>2. QuietPlace[u] = (CHOOSE t \in {t \in Slots : rows[u][t] # NoRow} : TRUE)[1]
  BY DEF QuietPlace, Where, RowsOf
<1>3. QuietScan'[u] = rows'[u][CHOOSE t \in {t \in Slots : rows'[u][t] # NoRow} : TRUE]
  BY DEF QuietScan, Where, RowsOf, Quiet
<1>4. QuietScan[u] = rows[u][CHOOSE t \in {t \in Slots : rows[u][t] # NoRow} : TRUE]
  BY DEF QuietScan, Where, RowsOf
<1> QED BY <1>1, <1>2, <1>3, <1>4

(* The quiet records go the way of MemberLifecycle: each step of a request  *)
(* is one atomic step of it, or none.                                       *)
THEOREM LifecycleImplemented == Spec => ImplementsLifecycle
<1>1. Init => Lifecycle!Init
  <2> SUFFICES ASSUME Init PROVE Lifecycle!Init
    OBVIOUS
  <2>1. PICK place \in [Uuids -> ColumnFamilies], scan \in [Uuids -> Record] :
          /\ \A u \in Uuids :
               place[u] = "membership_queue" => scan[u] # NoScan
          /\ rows = [u \in Uuids |->
                      [s \in Slots |->
                         IF s = <<place[u], "raw">> THEN scan[u] ELSE NoRow]]
    BY DEF Init
  <2>2. ASSUME NEW u \in Quiet
        PROVE  Where(u) = <<place[u], "raw">> /\ rows[u][Where(u)] = scan[u]
    <3>1. <<place[u], "raw">> \in Slots /\ scan[u] # NoRow
      BY QueuesAssumption DEF Slots, Forms, Quiet
    <3>2. rows[u] = [s \in Slots |->
                       IF s = <<place[u], "raw">> THEN scan[u] ELSE NoRow]
      BY <2>1 DEF Quiet
    <3>3. Where(u) = <<place[u], "raw">>
      BY <3>1, <3>2, ChosenSlot DEF Where, RowsOf
    <3> QED BY <3>1, <3>2, <3>3
  <2>3. \A u \in Quiet : QuietPlace[u] = place[u] /\ QuietScan[u] = scan[u]
    BY <2>2 DEF QuietPlace, QuietScan
  <2>4. /\ QuietPlace = [u \in Quiet |-> place[u]]
        /\ QuietScan = [u \in Quiet |-> scan[u]]
    BY <2>2 DEF QuietPlace, QuietScan
  <2> QED BY <2>1, <2>3, <2>4
          DEF Lifecycle!Init, Lifecycle!Places, ColumnFamilies, Quiet, Record
<1>2. IInv /\ [Next]_vars => [Lifecycle!Next]_(Lifecycle!vars)
  <2> SUFFICES ASSUME IInv, [Next]_vars
               PROVE  Lifecycle!Next \/ UNCHANGED Lifecycle!vars
    OBVIOUS
  <2>1. /\ QuietPlace = [u \in Quiet |-> QuietPlace[u]]
        /\ QuietScan = [u \in Quiet |-> QuietScan[u]]
        /\ QuietPlace' = [u \in Quiet |-> QuietPlace'[u]]
        /\ QuietScan' = [u \in Quiet |-> QuietScan'[u]]
    BY DEF QuietPlace, QuietScan, Quiet
  <2>2. CASE \A u \in Quiet : rows'[u] = rows[u]
    BY <2>1, <2>2, OthersStay DEF Lifecycle!vars
  <2>3. ASSUME NEW h \in Handlers, NEW q \in Requests, q = req[h],
               q.pc = "write", Batch(h)
        PROVE  Lifecycle!Next \/ UNCHANGED Lifecycle!vars
    <3>1. \A u \in Quiet \ {q.u} :
            QuietPlace'[u] = QuietPlace[u] /\ QuietScan'[u] = QuietScan[u]
      BY <2>3, BatchMoves, OthersStay DEF IInv, Quiet
    <3>2. CASE q.u \notin Quiet
      BY <2>1, <3>1, <3>2 DEF Lifecycle!vars
    <3>3. CASE q.u \in Quiet
      <4>1. /\ QuietPlace[q.u] = Source(q.op) /\ QuietPlace'[q.u] = Target(q.op)
            /\ QuietScan'[q.u] = q.buf
            /\ q.op \in Moves => QuietScan[q.u] = q.buf
        BY <2>3, <3>3, QuietBatch
      <4>2. /\ QuietPlace' = [QuietPlace EXCEPT ![q.u] = Target(q.op)]
            /\ QuietScan' = [QuietScan EXCEPT ![q.u] = q.buf]
        BY <2>1, <3>1, <3>3, <4>1
      <4>3. CASE q.op \in Moves
        <5>1. QuietScan' = QuietScan
          BY <2>1, <3>1, <3>3, <4>1, <4>3
        <5>2. Lifecycle!Move(q.u, Source(q.op), Target(q.op))
          BY <4>1, <4>2, <5>1 DEF Lifecycle!Move
        <5>3. q.op = "MoveApplicantToNewMember" => q.buf # NoScan
          BY <2>3, IdleShape DEF IInv, WriteShape
        <5> QED BY <3>3, <4>1, <4>3, <5>2, <5>3
                DEF Lifecycle!Next, Lifecycle!MoveApplicantToNewMember,
                    Lifecycle!MoveApplicantToTrash,
                    Lifecycle!MoveQueuedRecordToTrash, Moves, Source, Target
      <4>4. CASE q.op = "StoreMembershipAgreement"
        <5>1. QuietPlace' = QuietPlace
          BY <2>1, <3>1, <3>3, <4>1, <4>4 DEF Source, Target
        <5>2. q.buf \in Record
          BY DEF Requests
        <5>3. Lifecycle!StoreMembershipAgreement(q.u, q.buf)
          BY <4>1, <4>2, <4>4, <5>1
             DEF Lifecycle!StoreMembershipAgreement, Source
        <5> QED BY <3>3, <5>2, <5>3 DEF Lifecycle!Next, Record
      <4> QED BY <4>3, <4>4 DEF Requests, Ops
    <3> QED BY <3>2, <3>3
  <2> QED BY <2>2, <2>3, StepIsBatch
<1> QED BY <1>1, <1>2, Invariance, PTL
        DEF Spec, ImplementsLifecycle, Lifecycle!Spec
=============================================================================
