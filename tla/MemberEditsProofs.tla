------------------------- MODULE MemberEditsProofs -------------------------
(***************************************************************************)
(* Proofs about MemberEdits, for any members, handlers, values, retries and *)
(* number of requests.                                                      *)
(***************************************************************************)
EXTENDS MemberEdits, TLAPS

(* The fields that a request of each kind sets. *)
OpShape(op, field, change) ==
  /\ op = "MoveMemberToTrash" => change = Nothing
  /\ op = "SetMemberFee" =>
       \A f \in Fields \ {"fee", "fee_yearly"} : change[f] = Keep
  /\ op \notin {"MoveMemberToTrash", "SetMemberFee"} =>
       \A f \in Fields \ {field} : change[f] = Keep

(* What every request under way looks like. *)
RequestShape ==
  \A h \in Handlers :
    LET q == req[h] IN
    /\ q.pc # "idle" =>
         q.id \in Members /\ OpShape(q.op, q.field, q.change)
    /\ q.pc = "write" => KnownField(q.op, q.field)

TypeInv == TypeOK /\ RequestShape

(* No two requests are under way for a member of Sole. *)
OneAtATime ==
  \A m \in Sole : \A g, h \in Handlers : Busy(g, m) /\ Busy(h, m) => g = h

(* A request of a quiet member about to write holds the record as it is,    *)
(* with its change, and has not changed its mind since it read it: also     *)
(* when an earlier attempt of the batch went through.                       *)
WriteIsCurrent ==
  \A h \in Handlers :
    LET q == req[h] IN
    q.pc = "write" /\ q.id \in Quiet =>
      /\ pb_data[q.id] \in Record
      /\ q.buf = Apply(pb_data[q.id], q.change)
      /\ q.change["username"] # Keep =>
           pb_data[q.id]["username"] \in {NoValue, q.change["username"]}

(* Whoever wrote pb_data since a batch was sent wrote the other copy too, or *)
(* deleted the row; and quiet members have no such batch.                    *)
LateFits ==
  \A m \in Members : late[m] # NoBatch =>
    /\ m \in Delayed
    /\ "agreements" \in late[m].newer => "pb_data" \in late[m].newer
    /\ "pb_data" \in late[m].newer /\ "agreements" \notin late[m].newer =>
         pb_data[m] = Absent

(* A record that may still be written has what was acknowledged of it.      *)
Holds(m, buf) == \A f \in Fields : acked[m][f] \in {Unknown, buf[f]}

WriteIsDurable ==
  \A h \in Handlers :
    LET q == req[h] IN
    q.pc = "write" /\ q.id \in Sole =>
      \A f \in Fields : IF q.change[f] = Keep
                        THEN acked[q.id][f] \in {Unknown, q.buf[f]}
                        ELSE q.buf[f] = q.change[f]

LateIsDurable ==
  \A m \in Sole : late[m] # NoBatch /\ "pb_data" \notin late[m].newer =>
    Holds(m, late[m].buf)

IInv ==
  /\ TypeInv
  /\ CopiesAgree /\ LateFits
  /\ OneAtATime
  /\ WriteIsCurrent /\ WriteIsDurable /\ LateIsDurable
  /\ QuietListShowsDetail
  /\ SoleEditsDurable
  /\ QuietGoodbyeFinal
-----------------------------------------------------------------------------
(* A change of a record is a record. *)
LEMMA ApplyType ==
  ASSUME NEW r \in Record, NEW c \in Change
  PROVE  Apply(r, c) \in Record
BY DEF Apply, Record, Change

(* Setting one field is a change. *)
LEMMA OnlyType ==
  ASSUME NEW f \in Fields, NEW v \in Value
  PROVE  Only(f, v) \in Change
BY DEF Only, Change

(* The fields the handlers name are fields, whatever TextFields is. *)
LEMMA FieldNames ==
  /\ "email" \in Fields /\ "fee" \in Fields /\ "fee_yearly" \in Fields
  /\ "username" \in Fields /\ Nothing \in Change /\ NoColumns \in Record
BY EditsAssumption DEF Fields, Nothing, NoColumns, Change, Record

(* A handler that serves nobody. *)
LEMMA IdleType == Idle \in Request /\ Idle.pc = "idle" /\ Idle.id = NoMember
                    /\ Idle.op = "SetMemberFee" /\ Idle.tries = 0
BY FieldNames, EditsAssumption DEF Idle, Request, Ops

(* Every form starts a request of the right shape. *)
LEMMA StartShape ==
  ASSUME NEW h \in Handlers,
         \/ \E m \in Members, v \in Data :
              \/ \E yearly \in Booleans \cup {"other"} :
                   MemberFeeHandler(h, m, v, yearly)
              \/ \E f \in Asked(LongFields) : MemberLongFieldHandler(h, m, f, v)
              \/ \E f \in Asked(TextFields) : MemberTextFieldHandler(h, m, f, v)
         \/ \E m \in Members, f \in Asked(BoolFields), v \in Booleans :
              MemberBoolFieldHandler(h, m, f, v)
         \/ \E m \in Members : MemberGoodbyeHandler(h, m)
  PROVE  \E m \in Members, op \in Ops, field \in Fields, change \in Change,
            refused \in BOOLEAN :
           Start(h, m, op, field, change, refused) /\ OpShape(op, field, change)
<1> DEFINE Goal == \E m \in Members, op \in Ops, field \in Fields,
                     change \in Change, refused \in BOOLEAN :
                     /\ Start(h, m, op, field, change, refused)
                     /\ OpShape(op, field, change)
<1> SUFFICES Goal
  OBVIOUS
<1>1. ASSUME NEW m \in Members, NEW op \in Ops, NEW field \in Fields,
             NEW change \in Change, NEW refused \in BOOLEAN,
             Start(h, m, op, field, change, refused), OpShape(op, field, change)
      PROVE  Goal
  BY <1>1
<1> HIDE DEF Goal
<1>2. CASE \E m \in Members, v \in Data, yearly \in Booleans \cup {"other"} :
             MemberFeeHandler(h, m, v, yearly)
  <2>1. PICK m \in Members, v \in Data, yearly \in Booleans \cup {"other"} :
          MemberFeeHandler(h, m, v, yearly)
    BY <1>2
  <2> DEFINE parsed == IF yearly \in Booleans THEN yearly ELSE "false"
             c == [Only("fee", v) EXCEPT !["fee_yearly"] = parsed]
             r == yearly \notin Booleans
  <2>2. c \in Change /\ \A f \in Fields \ {"fee", "fee_yearly"} : c[f] = Keep
    BY FieldNames DEF Only, Change, Value, Booleans
  <2>3. Start(h, m, "SetMemberFee", "fee", c, r) /\ r \in BOOLEAN
    BY <2>1 DEF MemberFeeHandler
  <2> HIDE DEF c, r
  <2>4. "SetMemberFee" \in Ops /\ OpShape("SetMemberFee", "fee", c)
    BY <2>2 DEF OpShape, Ops
  <2> QED BY <1>1, <2>2, <2>3, <2>4, FieldNames
<1>3. ASSUME NEW m \in Members, NEW f \in Fields, NEW v \in Value,
             NEW op \in {"SetLongValue", "SetBoolValue", "SetTextValue"},
             Start(h, m, op, f, Only(f, v), FALSE)
      PROVE  Goal
  <2>1. op \in Ops /\ OpShape(op, f, Only(f, v))
    BY DEF Only, OpShape, Ops
  <2> QED BY <1>1, <1>3, <2>1, OnlyType
<1>4. CASE \E m \in Members : MemberGoodbyeHandler(h, m)
  <2>1. PICK m \in Members :
          Start(h, m, "MoveMemberToTrash", "email", Nothing, FALSE)
    BY <1>4 DEF MemberGoodbyeHandler
  <2>2. /\ "MoveMemberToTrash" \in Ops
        /\ OpShape("MoveMemberToTrash", "email", Nothing)
    BY DEF Ops, OpShape
  <2> QED BY <1>1, <2>1, <2>2, FieldNames
<1>5. Data \subseteq Value /\ Booleans \subseteq Value
  BY DEF Value
<1>6. CASE \E m \in Members, v \in Data, f \in Fields :
             MemberLongFieldHandler(h, m, f, v)
  <2>1. PICK m \in Members, v \in Data, f \in Fields :
          Start(h, m, "SetLongValue", f, Only(f, v), FALSE)
    BY <1>6 DEF MemberLongFieldHandler
  <2>2. "SetLongValue" \in {"SetLongValue", "SetBoolValue", "SetTextValue"}
          /\ v \in Value
    BY <1>5
  <2> QED BY <1>3, <2>1, <2>2
<1>7. CASE \E m \in Members, v \in Data, f \in Fields :
             MemberTextFieldHandler(h, m, f, v)
  <2>1. PICK m \in Members, v \in Data, f \in Fields :
          Start(h, m, "SetTextValue", f, Only(f, v), FALSE)
    BY <1>7 DEF MemberTextFieldHandler
  <2>2. "SetTextValue" \in {"SetLongValue", "SetBoolValue", "SetTextValue"}
          /\ v \in Value
    BY <1>5
  <2> QED BY <1>3, <2>1, <2>2
<1>8. CASE \E m \in Members, f \in Fields, v \in Booleans :
             MemberBoolFieldHandler(h, m, f, v)
  <2>1. PICK m \in Members, f \in Fields, v \in Booleans :
          Start(h, m, "SetBoolValue", f, Only(f, v), FALSE)
    BY <1>8 DEF MemberBoolFieldHandler
  <2>2. "SetBoolValue" \in {"SetLongValue", "SetBoolValue", "SetTextValue"}
          /\ v \in Value
    BY <1>5
  <2> QED BY <1>3, <2>1, <2>2
<1>9. \/ \E m \in Members, v \in Data, yearly \in Booleans \cup {"other"} :
           MemberFeeHandler(h, m, v, yearly)
      \/ \E m \in Members, v \in Data, f \in Asked(LongFields) :
           MemberLongFieldHandler(h, m, f, v)
      \/ \E m \in Members, v \in Data, f \in Asked(TextFields) :
           MemberTextFieldHandler(h, m, f, v)
      \/ \E m \in Members, f \in Asked(BoolFields), v \in Booleans :
           MemberBoolFieldHandler(h, m, f, v)
      \/ \E m \in Members : MemberGoodbyeHandler(h, m)
  BY Zenon
<1>10. /\ Asked(LongFields) \subseteq Fields /\ Asked(BoolFields) \subseteq Fields
       /\ Asked(TextFields) \subseteq Fields
  BY DEF Asked, Fields
<1> QED BY <1>2, <1>4, <1>6, <1>7, <1>8, <1>9, <1>10

(* The types and the shape of the requests are kept by every step. *)
LEMMA TypeInit == Init => TypeInv
<1> SUFFICES ASSUME Init PROVE TypeInv
  OBVIOUS
<1>1. pb_data \in [Members -> PbData] /\ agreements \in [Members -> PbData]
  BY EditsAssumption DEF Init, PbData
<1>2. columns \in [Members -> Record]
  BY FieldNames DEF Init
<1>3. dequeue \in [Members -> Seq(Record)]
  BY DEF Init
<1>4. req \in [Handlers -> Request] /\ RequestShape
  BY IdleType DEF Init, RequestShape
<1>5. served \in 0..MaxRequests
  BY EditsAssumption DEF Init
<1>6. acked \in [Members -> [Fields -> Value \cup {NoValue, Unknown}]]
  <2> SUFFICES ASSUME NEW m \in Members
               PROVE  acked[m] \in [Fields -> Value \cup {NoValue, Unknown}]
    BY DEF Init
  <2>1. CASE pb_data[m] \in Record
    BY <2>1 DEF Init, Record
  <2>2. CASE pb_data[m] \notin Record
    BY <2>2 DEF Init
  <2> QED BY <2>1, <2>2
<1>7. late \in [Members -> LateBatches \cup {NoBatch}]
  BY DEF Init
<1> QED BY <1>1, <1>2, <1>3, <1>4, <1>5, <1>6, <1>7 DEF TypeInv, TypeOK

(* What a client knows is a value, nothing set, or nothing known. *)
LEMMA LearnType ==
  ASSUME NEW k \in [Fields -> Value \cup {NoValue, Unknown}],
         NEW c \in Change, NEW known \in BOOLEAN
  PROVE  Learn(k, c, known) \in [Fields -> Value \cup {NoValue, Unknown}]
BY DEF Learn, Change

(* The tables and what the clients know, after a batch or none. *)
LEMMA BatchType ==
  ASSUME TypeInv, NEW h \in Handlers, req[h].pc = "write",
         Batch(h) \/ UNCHANGED tables, NEW ok \in BOOLEAN, Tell(h, ok)
  PROVE  /\ pb_data' \in [Members -> PbData]
         /\ columns' \in [Members -> Record]
         /\ agreements' \in [Members -> PbData]
         /\ dequeue' \in [Members -> Seq(Record)]
         /\ acked' \in [Members -> [Fields -> Value \cup {NoValue, Unknown}]]
<1>1. /\ req[h].id \in Members /\ req[h].buf \in Record
      /\ req[h].change \in Change /\ req[h].refused \in BOOLEAN
  BY DEF TypeInv, TypeOK, Request, RequestShape
<1>2. acked' \in [Members -> [Fields -> Value \cup {NoValue, Unknown}]]
  <2> DEFINE id == req[h].id
             known == ok /\ ~ req[h].refused
  <2>1. Learn(acked[id], req[h].change, known)
          \in [Fields -> Value \cup {NoValue, Unknown}]
    BY <1>1, LearnType DEF TypeInv, TypeOK
  <2> QED BY <2>1, <1>1 DEF Tell, TypeInv, TypeOK
<1>3. CASE UNCHANGED tables
  BY <1>2, <1>3 DEF tables, TypeInv, TypeOK
<1>4. CASE UpdateBatch(h)
  <2>1. Apply(columns[req[h].id], req[h].change) \in Record
    BY <1>1, ApplyType DEF TypeInv, TypeOK
  <2> QED BY <1>1, <1>2, <1>4, <2>1 DEF UpdateBatch, TypeInv, TypeOK, PbData
<1>5. CASE TrashBatch(h)
  <2>1. Append(dequeue[req[h].id], req[h].buf) \in Seq(Record)
    BY <1>1 DEF TypeInv, TypeOK
  <2> QED
    BY <1>1, <1>2, <1>5, <2>1, FieldNames DEF TrashBatch, TypeInv, TypeOK, PbData
<1> QED BY <1>3, <1>4, <1>5 DEF Batch

(* The parts of a batch that is late. *)
LEMMA LateParts ==
  ASSUME TypeInv, NEW m \in Members, late[m] # NoBatch
  PROVE  /\ late[m] \in LateBatches
         /\ late[m].op \in Ops /\ late[m].change \in Change
         /\ late[m].buf \in Record /\ late[m].newer \subseteq Cells
BY DEF TypeInv, TypeOK, LateBatches

(* What is late after a batch was sent: another one has been overtaken, or  *)
(* the batch itself is late.                                                *)
LEMMA LateType ==
  ASSUME TypeInv, NEW h \in Handlers, req[h].pc = "write",
         Overtake(h) \/ UNCHANGED late \/ Postpone(h)
  PROVE  late' \in [Members -> LateBatches \cup {NoBatch}]
<1>1. /\ req[h].id \in Members /\ req[h].buf \in Record
      /\ req[h].change \in Change /\ req[h].op \in Ops
      /\ late \in [Members -> LateBatches \cup {NoBatch}]
  BY DEF TypeInv, TypeOK, Request, RequestShape
<1>2. CASE UNCHANGED late
  BY <1>1, <1>2
<1>3. CASE Overtake(h)
  <2>1. CASE late[req[h].id] = NoBatch
    BY <1>1, <1>3, <2>1 DEF Overtake
  <2>2. CASE late[req[h].id] # NoBatch
    <3> DEFINE w == Written(req[h].op, req[h].change)
               b == [late[req[h].id] EXCEPT !.newer = @ \cup w]
    <3>1. w \subseteq Cells
      BY DEF Written, Cells
    <3> HIDE DEF w
    <3>2. b \in LateBatches
      BY <1>1, <2>2, <3>1, LateParts DEF LateBatches
    <3>3. late' = [late EXCEPT ![req[h].id] = b]
      BY <1>3, <2>2 DEF Overtake, w
    <3> HIDE DEF b
    <3> QED BY <1>1, <3>2, <3>3
  <2> QED BY <2>1, <2>2
<1>4. CASE Postpone(h)
  <2> DEFINE b == [op |-> req[h].op, change |-> req[h].change,
                   buf |-> req[h].buf, newer |-> {}]
  <2>1. b \in LateBatches
    BY <1>1 DEF LateBatches
  <2>2. late' = [late EXCEPT ![req[h].id] = b]
    BY <1>4 DEF Postpone
  <2> HIDE DEF b
  <2> QED BY <1>1, <2>1, <2>2
<1> QED BY <1>2, <1>3, <1>4

(* A batch that takes effect late keeps the types. *)
LEMMA LateBatchType ==
  ASSUME TypeInv, NEW m \in Members, LateUpdate(m) \/ LateTrash(m)
  PROVE  TypeInv'
<1>1. /\ late[m].op \in Ops /\ late[m].change \in Change
      /\ late[m].buf \in Record
  BY LateParts DEF LateUpdate, LateTrash
<1>2. /\ pb_data \in [Members -> PbData] /\ columns \in [Members -> Record]
      /\ agreements \in [Members -> PbData]
      /\ dequeue \in [Members -> Seq(Record)]
  BY DEF TypeInv, TypeOK
<1>3. pb_data' \in [Members -> PbData] /\ agreements' \in [Members -> PbData]
  BY <1>1, <1>2 DEF LateUpdate, LateTrash, PbData
<1>4. columns' \in [Members -> Record]
  <2>1. columns[m] \in [Fields -> Value \cup {NoValue}]
    BY <1>2 DEF Record
  <2> DEFINE cu == [f \in Fields |->
                      IF late[m].change[f] = Keep \/ f \in late[m].newer
                      THEN columns[m][f] ELSE late[m].change[f]]
             ct == [f \in Fields |-> IF f \in late[m].newer
                                    THEN columns[m][f] ELSE NoValue]
  <2>2. cu \in Record /\ ct \in Record
    BY <1>1, <2>1 DEF Record, Change
  <2>3. columns' = [columns EXCEPT ![m] = cu] \/ columns' = [columns EXCEPT ![m] = ct]
    BY DEF LateUpdate, LateTrash
  <2> HIDE DEF cu, ct
  <2> QED BY <1>2, <2>2, <2>3
<1>5. dequeue' \in [Members -> Seq(Record)]
  <2>1. Append(dequeue[m], late[m].buf) \in Seq(Record)
    BY <1>1, <1>2
  <2> QED BY <1>2, <2>1 DEF LateUpdate, LateTrash
<1>6. late' \in [Members -> LateBatches \cup {NoBatch}]
  BY DEF LateUpdate, LateTrash, TypeInv, TypeOK
<1>7. UNCHANGED <<req, served, acked>>
  BY DEF LateUpdate, LateTrash
<1> QED BY <1>3, <1>4, <1>5, <1>6, <1>7 DEF TypeInv, TypeOK, RequestShape

(* What a request does to the table of requests, when it does not start. *)
LEMMA RequestMoves ==
  ASSUME TypeInv, NEW h \in Handlers,
         \/ Finish(h)
         \/ /\ req[h].pc = "write" /\ req[h].tries < MaxRetries
            /\ req' = [req EXCEPT ![h].tries = @ + 1]
  PROVE  /\ req' \in [Handlers -> Request]
         /\ RequestShape'
         /\ \A g \in Handlers \ {h} : req'[g] = req[g]
         /\ \A g \in Handlers : req'[g].pc # "idle" =>
              /\ req'[g].pc = req[g].pc /\ req'[g].id = req[g].id
              /\ req'[g].change = req[g].change /\ req'[g].buf = req[g].buf
              /\ req'[g].op = req[g].op /\ req'[g].field = req[g].field
<1>1. CASE Finish(h)
  BY <1>1, IdleType DEF Finish, TypeInv, TypeOK, RequestShape
<1>2. CASE /\ req[h].pc = "write" /\ req[h].tries < MaxRetries
           /\ req' = [req EXCEPT ![h].tries = @ + 1]
  <2> DEFINE q == [req[h] EXCEPT !.tries = @ + 1]
  <2>1. req[h] \in Request
    BY DEF TypeInv, TypeOK
  <2>2. req[h].tries + 1 \in 0..MaxRetries
    BY <1>2, <2>1, EditsAssumption DEF Request
  <2>3. /\ q \in Request /\ q.pc = req[h].pc /\ q.id = req[h].id
        /\ q.change = req[h].change /\ q.buf = req[h].buf /\ q.op = req[h].op
        /\ q.field = req[h].field
    BY <2>1, <2>2 DEF Request
  <2>4. req' = [req EXCEPT ![h] = q]
    BY <1>2
  <2> HIDE DEF q
  <2> QED BY <2>3, <2>4 DEF TypeInv, TypeOK, RequestShape
<1> QED BY <1>1, <1>2

(* Every handler step, every failure and the crash keep the types. *)
LEMMA TypeNext == TypeInv /\ [Next]_vars => TypeInv'
<1> SUFFICES ASSUME TypeInv, [Next]_vars PROVE TypeInv'
  OBVIOUS
<1>1. CASE UNCHANGED vars
  BY <1>1 DEF vars, TypeInv, TypeOK, RequestShape
<1>2. CASE Crash
  <2>1. req' \in [Handlers -> Request] /\ RequestShape'
    BY <1>2, IdleType DEF Crash, RequestShape
  <2> QED BY <1>2, <2>1 DEF Crash, tables, TypeInv, TypeOK
<1>3. ASSUME NEW h \in Handlers, NEW m \in Members, NEW op \in Ops,
             NEW field \in Fields, NEW change \in Change,
             NEW refused \in BOOLEAN, Start(h, m, op, field, change, refused),
             OpShape(op, field, change)
      PROVE  TypeInv'
  <2> DEFINE q == [pc |-> "read", op |-> op, id |-> m, field |-> field,
                   change |-> change, buf |-> NoColumns, tries |-> 0,
                   refused |-> refused]
  <2>1. q \in Request
    BY FieldNames, EditsAssumption DEF Request
  <2>2. req' = [req EXCEPT ![h] = q]
    BY <1>3 DEF Start
  <2>3. /\ q.pc = "read" /\ q.id = m /\ q.op = op /\ q.field = field
        /\ q.change = change
    OBVIOUS
  <2>4. req' \in [Handlers -> Request]
    BY <2>1, <2>2 DEF TypeInv, TypeOK
  <2>5. RequestShape'
    <3> HIDE DEF q
    <3> QED BY <1>3, <2>2, <2>3 DEF RequestShape, TypeInv, TypeOK
  <2>6. served' \in 0..MaxRequests
    BY <1>3, EditsAssumption DEF Start, TypeInv, TypeOK
  <2> QED BY <1>3, <2>4, <2>5, <2>6 DEF Start, tables, TypeInv, TypeOK
<1>4. ASSUME NEW h \in Handlers, ReadRecord(h)
      PROVE  TypeInv'
  <2> DEFINE b == Apply(pb_data[req[h].id], req[h].change)
             q == [req[h] EXCEPT !.pc = "write", !.buf = b]
  <2>1. req[h] \in Request
    BY DEF TypeInv, TypeOK
  <2>2. b \in Record
    BY <1>4, <2>1, ApplyType DEF ReadRecord, Request
  <2>3. /\ q \in Request /\ q.pc = "write" /\ q.id = req[h].id
        /\ q.op = req[h].op /\ q.field = req[h].field
        /\ q.change = req[h].change
    BY <2>1, <2>2 DEF Request
  <2>4. req' = [req EXCEPT ![h] = q]
    BY <1>4 DEF ReadRecord
  <2>5. req[h].pc = "read"
    BY <1>4 DEF ReadRecord
  <2>6. KnownField(req[h].op, req[h].field)
    BY <1>4 DEF ReadRecord
  <2> HIDE DEF q
  <2>7. req' \in [Handlers -> Request] /\ RequestShape'
    BY <2>3, <2>4, <2>5, <2>6 DEF TypeInv, TypeOK, RequestShape
  <2> QED BY <1>4, <2>7 DEF ReadRecord, tables, TypeInv, TypeOK
<1>5. ASSUME NEW h \in Handlers, ReadFails(h)
      PROVE  TypeInv'
  BY <1>5, RequestMoves DEF ReadFails, tables, TypeInv, TypeOK
<1>6. ASSUME NEW h \in Handlers, WriteBack(h)
      PROVE  TypeInv'
  <2>1. late' \in [Members -> LateBatches \cup {NoBatch}]
    BY <1>6, LateType DEF WriteBack, Batch
  <2> QED BY <1>6, <2>1, RequestMoves, BatchType DEF WriteBack, TypeInv, TypeOK
<1>7. ASSUME NEW h \in Handlers, WriteFails(h)
      PROVE  TypeInv'
  <2>1. late' \in [Members -> LateBatches \cup {NoBatch}]
    BY <1>7, LateType DEF WriteFails, Batch
  <2>2. Batch(h) \/ UNCHANGED tables
    BY <1>7 DEF WriteFails, Postpone
  <2> QED BY <1>7, <2>1, <2>2, RequestMoves, BatchType
          DEF WriteFails, TypeInv, TypeOK
<1>8. ASSUME NEW m \in Members, LateUpdate(m) \/ LateTrash(m)
      PROVE  TypeInv'
  BY <1>8, LateBatchType
<1> QED BY <1>1, <1>2, <1>3, <1>4, <1>5, <1>6, <1>7, <1>8, StartShape
        DEF Next, Handle

(* The types are right in every reachable state. *)
THEOREM TypeCorrect == Spec => []TypeOK
<1>1. TypeInv => TypeOK
  BY DEF TypeInv
<1> QED BY <1>1, TypeInit, TypeNext, PTL DEF Spec
-----------------------------------------------------------------------------
(* Twice the same change is once. *)
LEMMA ApplyTwice ==
  ASSUME NEW r \in Record, NEW c \in Change
  PROVE  Apply(Apply(r, c), c) = Apply(r, c)
BY DEF Apply

(* An earlier release leaves the tables in order. *)
LEMMA IInvInit == Init => IInv
<1> SUFFICES ASSUME Init PROVE IInv
  OBVIOUS
<1>1. TypeInv
  BY TypeInit
<1>2. CopiesAgree
  BY DEF Init, CopiesAgree
<1>3. OneAtATime /\ WriteIsCurrent /\ WriteIsDurable
  BY IdleType DEF Init, OneAtATime, Busy, WriteIsCurrent, WriteIsDurable
<1>4. LateFits /\ LateIsDurable
  BY DEF Init, LateFits, LateIsDurable, Sole
<1>5. QuietListShowsDetail
  BY EditsAssumption DEF Init, QuietListShowsDetail, ListShowsDetail, Quiet, Sole,
     GetMemberDetail, MemberFromRow, EnumerateMembers
<1>6. SoleEditsDurable /\ QuietGoodbyeFinal
  BY DEF Init, SoleEditsDurable, EditsDurable, QuietGoodbyeFinal, GoodbyeFinal,
     Quiet, Sole
<1> QED BY <1>1, <1>2, <1>3, <1>4, <1>5, <1>6 DEF IInv

(* The invariants of the tables do not look at the requests. *)
LEMMA TablesUnchanged ==
  ASSUME IInv, UNCHANGED <<tables, acked, late>>
  PROVE  /\ CopiesAgree' /\ LateFits' /\ LateIsDurable' /\ QuietListShowsDetail'
         /\ SoleEditsDurable' /\ QuietGoodbyeFinal'
BY DEF IInv, tables, CopiesAgree, QuietListShowsDetail, ListShowsDetail,
   GetMemberDetail, MemberFromRow, EnumerateMembers, SoleEditsDurable,
   EditsDurable, QuietGoodbyeFinal, GoodbyeFinal, LateFits, LateIsDurable, Holds,
   Quiet, Sole

(* An attempt of a batch that went through. *)
LEMMA BatchKeepsInv ==
  ASSUME IInv, NEW h \in Handlers, req[h].pc = "write", Batch(h),
         NEW ok \in BOOLEAN, Tell(h, ok)
  PROVE  /\ CopiesAgree' /\ QuietListShowsDetail'
         /\ SoleEditsDurable' /\ QuietGoodbyeFinal'
<1> DEFINE id == req[h].id
           c == req[h].change
           b == req[h].buf
<1>1. /\ id \in Members /\ b \in Record /\ c \in Change
      /\ req[h].op \in Ops /\ OpShape(req[h].op, req[h].field, c)
      /\ KnownField(req[h].op, req[h].field) /\ req[h].field \in Fields
  BY DEF IInv, TypeInv, TypeOK, Request, RequestShape
<1>2. /\ pb_data \in [Members -> PbData] /\ columns \in [Members -> Record]
      /\ agreements \in [Members -> PbData]
      /\ dequeue \in [Members -> Seq(Record)]
      /\ acked \in [Members -> [Fields -> Value \cup {NoValue, Unknown}]]
  BY DEF IInv, TypeInv, TypeOK
<1>3. id \in Quiet => pb_data[id] \in Record /\ b = Apply(pb_data[id], c)
  BY DEF IInv, WriteIsCurrent
<1>4. c["email"] = Keep
  BY <1>1, FieldNames, EditsAssumption
     DEF OpShape, KnownField, Ops, Nothing, LongFields, BoolFields
<1>5. \A m \in Members \ {id} :
        /\ pb_data'[m] = pb_data[m] /\ columns'[m] = columns[m]
        /\ agreements'[m] = agreements[m] /\ dequeue'[m] = dequeue[m]
        /\ acked'[m] = acked[m]
  BY <1>1, <1>2 DEF Batch, UpdateBatch, TrashBatch, Tell
<1>6. \A f \in Fields :
        acked'[id][f] = IF c[f] = Keep THEN acked[id][f]
                        ELSE IF ok /\ ~ req[h].refused THEN c[f] ELSE Unknown
  BY <1>1, <1>2 DEF Tell, Learn
<1>7. ASSUME id \in Sole, NEW f \in Fields
      PROVE  acked'[id][f] \in {Unknown, b[f]}
  <2>1. IF c[f] = Keep THEN acked[id][f] \in {Unknown, b[f]} ELSE b[f] = c[f]
    BY <1>7 DEF IInv, WriteIsDurable
  <2> HIDE DEF id, c, b
  <2> QED BY <1>6, <2>1
<1>q. Quiet \subseteq Sole /\ Sole \subseteq Members
  BY DEF Quiet, Sole
<1> HIDE DEF id, c, b
<1>8. CASE UpdateBatch(h)
  <2>1. /\ pb_data'[id] = b /\ columns'[id] = Apply(columns[id], c)
        /\ agreements'[id] = b /\ dequeue' = dequeue
    BY <1>1, <1>2, <1>8 DEF UpdateBatch, id, c, b
  <2>2. CopiesAgree'
    BY <1>5, <2>1 DEF IInv, CopiesAgree
  <2>3. ASSUME id \in Quiet
        PROVE  columns[id] = pb_data[id] /\ pb_data[id]["email"] # NoValue
    BY <1>3, <2>3 DEF IInv, QuietListShowsDetail, ListShowsDetail,
       GetMemberDetail, MemberFromRow, EnumerateMembers
  <2>4. QuietListShowsDetail'
    <3>1. ASSUME id \in Quiet
          PROVE  columns'[id] = b /\ b["email"] # NoValue
      BY <1>1, <1>3, <1>4, <2>1, <2>3, <3>1, FieldNames DEF Apply
    <3> QED BY <1>1, <1>5, <1>q, <2>1, <3>1 DEF IInv, QuietListShowsDetail,
        ListShowsDetail, GetMemberDetail, MemberFromRow, EnumerateMembers, Quiet, Sole
  <2>5. SoleEditsDurable'
    BY <1>1, <1>5, <1>7, <1>q, <2>1 DEF IInv, SoleEditsDurable, EditsDurable, Quiet, Sole
  <2>6. QuietGoodbyeFinal'
    <3>1. id \in Quiet => dequeue[id] = << >>
      BY <1>3, EditsAssumption DEF IInv, QuietGoodbyeFinal, GoodbyeFinal
    <3> QED BY <1>5, <1>q, <2>1, <3>1 DEF IInv, QuietGoodbyeFinal, GoodbyeFinal, Quiet, Sole
  <2> QED BY <2>2, <2>4, <2>5, <2>6
<1>9. CASE TrashBatch(h)
  <2>1. /\ pb_data'[id] = Absent /\ columns'[id] = NoColumns
        /\ agreements' = agreements
        /\ dequeue'[id] = Append(dequeue[id], b)
    BY <1>1, <1>2, <1>9 DEF TrashBatch, id, b
  <2>2. CopiesAgree'
    BY <1>5, <2>1 DEF IInv, CopiesAgree
  <2>3. QuietListShowsDetail'
    BY <1>5, <1>q, <2>1, EditsAssumption DEF IInv, QuietListShowsDetail,
       ListShowsDetail, GetMemberDetail, MemberFromRow, EnumerateMembers, Quiet, Sole
  <2>4. SoleEditsDurable'
    BY <1>5, <1>q, <2>1, EditsAssumption DEF IInv, SoleEditsDurable, EditsDurable, Quiet, Sole
  <2>5. QuietGoodbyeFinal'
    <3>1. ASSUME id \in Quiet PROVE dequeue[id] = << >>
      BY <1>3, <3>1, EditsAssumption DEF IInv, QuietGoodbyeFinal, GoodbyeFinal
    <3>2. ASSUME id \in Quiet
          PROVE  Len(dequeue'[id]) = 1 /\ dequeue'[id][1] = b
      BY <1>1, <2>1, <3>1, <3>2
    <3>3. ASSUME NEW m \in Quiet, m = id PROVE GoodbyeFinal(m)'
      BY <1>7, <1>q, <2>1, <3>2, <3>3 DEF GoodbyeFinal
    <3>4. ASSUME NEW m \in Quiet, m # id PROVE GoodbyeFinal(m)'
      BY <1>5, <1>q, <3>4 DEF IInv, QuietGoodbyeFinal, GoodbyeFinal, Quiet, Sole
    <3> QED BY <3>3, <3>4 DEF QuietGoodbyeFinal, Quiet, Sole
  <2> QED BY <2>2, <2>3, <2>4, <2>5
<1> QED BY <1>8, <1>9 DEF Batch

(* A batch, one that is late from now on, or none leaves what is late in    *)
(* order: it has been overtaken, or has what was acknowledged.              *)
LEMMA LateKeepsInv ==
  ASSUME IInv, NEW h \in Handlers, req[h].pc = "write",
         NEW ok \in BOOLEAN, Tell(h, ok),
         \/ Batch(h)
         \/ ~ ok /\ UNCHANGED <<tables, late>>
         \/ ~ ok /\ Postpone(h)
  PROVE  LateFits' /\ LateIsDurable'
<1> DEFINE id == req[h].id
           c == req[h].change
<1>1. /\ id \in Members /\ c \in Change
      /\ late \in [Members -> LateBatches \cup {NoBatch}]
      /\ pb_data \in [Members -> PbData]
      /\ acked \in [Members -> [Fields -> Value \cup {NoValue, Unknown}]]
  BY DEF IInv, TypeInv, TypeOK, Request, RequestShape
<1>2. \A m \in Members \ {id} : acked'[m] = acked[m]
  BY <1>1 DEF Tell
<1>3. ASSUME ~ ok, NEW f \in Fields
      PROVE  acked'[id][f] = IF c[f] = Keep THEN acked[id][f] ELSE Unknown
  BY <1>1, <1>3 DEF Tell, Learn
<1> HIDE DEF id, c
<1>4. CASE Batch(h)
  <2>1. \A m \in Members \ {id} :
          pb_data'[m] = pb_data[m] /\ late'[m] = late[m]
    BY <1>1, <1>4 DEF Batch, UpdateBatch, TrashBatch, Overtake, id
  <2>2. late[id] = NoBatch => late'[id] = NoBatch
    BY <1>1, <1>4 DEF Batch, Overtake, id
  <2>3. ASSUME late[id] # NoBatch
        PROVE  /\ late'[id].newer = late[id].newer \cup Written(req[h].op, c)
               /\ "pb_data" \in Written(req[h].op, c)
               /\ \/ "agreements" \in Written(req[h].op, c)
                  \/ pb_data'[id] = Absent
    <3>1. late[id] \in LateBatches
      BY <1>1, <2>3
    <3>2. late'[id] = [late[id] EXCEPT !.newer = @ \cup Written(req[h].op, c)]
      BY <1>1, <1>4, <2>3 DEF Batch, Overtake, id, c
    <3>3. late'[id].newer = late[id].newer \cup Written(req[h].op, c)
      BY <3>1, <3>2 DEF LateBatches
    <3>4. CASE req[h].op = "MoveMemberToTrash"
      BY <1>1, <1>4, <3>3, <3>4 DEF Batch, TrashBatch, Written, id
    <3>5. CASE req[h].op # "MoveMemberToTrash"
      BY <3>3, <3>5 DEF Written
    <3> QED BY <3>4, <3>5
  <2>4. LateFits'
    <3> SUFFICES ASSUME NEW m \in Members, late'[m] # NoBatch
                 PROVE  /\ m \in Delayed
                        /\ "agreements" \in late'[m].newer =>
                             "pb_data" \in late'[m].newer
                        /\ /\ "pb_data" \in late'[m].newer
                           /\ "agreements" \notin late'[m].newer
                           => pb_data'[m] = Absent
      BY DEF LateFits
    <3>1. CASE m # id
      BY <2>1, <3>1 DEF IInv, LateFits
    <3>2. CASE m = id
      BY <1>1, <2>2, <2>3, <3>2 DEF IInv, LateFits
    <3> QED BY <3>1, <3>2
  <2>5. LateIsDurable'
    <3> SUFFICES ASSUME NEW m \in Sole, late'[m] # NoBatch,
                        "pb_data" \notin late'[m].newer,
                        NEW f \in Fields
                 PROVE  acked'[m][f] \in {Unknown, late'[m].buf[f]}
      BY DEF LateIsDurable, Holds, Sole
    <3>1. m \in Members /\ m # id
      BY <2>2, <2>3 DEF Sole
    <3> QED BY <1>2, <2>1, <3>1 DEF IInv, LateIsDurable, Holds
  <2> QED BY <2>4, <2>5
<1>5. CASE ~ ok /\ UNCHANGED <<tables, late>>
  <2>1. \A m \in Members, f \in Fields : acked'[m][f] \in {Unknown, acked[m][f]}
    BY <1>2, <1>3, <1>5
  <2> QED BY <1>5, <2>1
          DEF IInv, tables, LateFits, LateIsDurable, Holds, Sole
<1>6. CASE ~ ok /\ Postpone(h)
  <2> DEFINE b == [op |-> req[h].op, change |-> c, buf |-> req[h].buf,
                   newer |-> {}]
  <2>1. /\ late' = [late EXCEPT ![id] = b] /\ id \in Delayed
        /\ UNCHANGED pb_data
    BY <1>6 DEF Postpone, id, c, tables
  <2>2. b.newer = {} /\ b.buf = req[h].buf
    OBVIOUS
  <2> HIDE DEF b
  <2>3. LateFits'
    BY <1>1, <2>1, <2>2 DEF IInv, LateFits
  <2>4. LateIsDurable'
    <3> SUFFICES ASSUME NEW m \in Sole, late'[m] # NoBatch,
                        "pb_data" \notin late'[m].newer,
                        NEW f \in Fields
                 PROVE  acked'[m][f] \in {Unknown, late'[m].buf[f]}
      BY DEF LateIsDurable, Holds, Sole
    <3>1. m \in Members
      BY DEF Sole
    <3>2. CASE m # id
      BY <1>1, <1>2, <2>1, <3>1, <3>2 DEF IInv, LateIsDurable, Holds
    <3>3. CASE m = id
      <4>1. c[f] = Keep => acked[id][f] \in {Unknown, req[h].buf[f]}
        BY <3>3 DEF IInv, WriteIsDurable, id, c
      <4> QED BY <1>1, <1>3, <1>6, <2>1, <2>2, <3>3, <4>1
    <3> QED BY <3>2, <3>3
  <2> QED BY <2>3, <2>4
<1> QED BY <1>4, <1>5, <1>6

(* A batch that takes effect late changes nothing that is newer: it takes no *)
(* acknowledged edit back, and writes both copies or none of a record that   *)
(* is there.                                                                 *)
LEMMA LateBatchKeepsInv ==
  ASSUME IInv, NEW m \in Members, LateUpdate(m) \/ LateTrash(m)
  PROVE  IInv'
<1>1. TypeInv'
  BY LateBatchType DEF IInv
<1>2. /\ pb_data \in [Members -> PbData] /\ columns \in [Members -> Record]
      /\ agreements \in [Members -> PbData]
      /\ dequeue \in [Members -> Seq(Record)]
      /\ late \in [Members -> LateBatches \cup {NoBatch}]
  BY DEF IInv, TypeInv, TypeOK
<1>3. /\ late[m] # NoBatch /\ late' = [late EXCEPT ![m] = NoBatch]
      /\ UNCHANGED <<req, acked>>
  BY DEF LateUpdate, LateTrash
<1>4. /\ m \in Delayed /\ m \notin Quiet
      /\ "agreements" \in late[m].newer => "pb_data" \in late[m].newer
      /\ "pb_data" \in late[m].newer /\ "agreements" \notin late[m].newer =>
           pb_data[m] = Absent
  BY <1>3 DEF IInv, LateFits, Quiet
<1>5. \A n \in Members \ {m} :
        /\ pb_data'[n] = pb_data[n] /\ columns'[n] = columns[n]
        /\ agreements'[n] = agreements[n] /\ dequeue'[n] = dequeue[n]
        /\ late'[n] = late[n]
  BY <1>2, <1>3 DEF LateUpdate, LateTrash
<1>6. \/ pb_data'[m] = pb_data[m] /\ "pb_data" \in late[m].newer
      \/ /\ pb_data'[m] = late[m].buf /\ "pb_data" \notin late[m].newer
         /\ agreements'[m] = late[m].buf
      \/ pb_data'[m] = Absent
  BY <1>2, <1>4 DEF LateUpdate, LateTrash
<1>7. \/ agreements'[m] = agreements[m]
      \/ agreements'[m] = late[m].buf /\ "agreements" \notin late[m].newer
  BY <1>2 DEF LateUpdate, LateTrash
<1>8. Quiet \subseteq Members \ {m} /\ Sole \subseteq Members
  BY <1>4 DEF Quiet, Sole
<1>9. CopiesAgree'
  <2>1. pb_data'[m] # Absent => agreements'[m] = pb_data'[m]
    BY <1>4, <1>6, <1>7 DEF IInv, CopiesAgree
  <2> QED BY <1>5, <2>1 DEF IInv, CopiesAgree
<1>10. LateFits' /\ LateIsDurable'
  <2>1. late'[m] = NoBatch
    BY <1>2, <1>3
  <2>2. LateFits'
    BY <1>5, <2>1 DEF IInv, LateFits
  <2> QED BY <1>3, <1>5, <1>8, <2>1, <2>2 DEF IInv, LateIsDurable, Holds, Sole
<1>11. OneAtATime' /\ WriteIsDurable'
  BY <1>3 DEF IInv, OneAtATime, Busy, WriteIsDurable, Sole
<1>12. WriteIsCurrent'
  BY <1>3, <1>5, <1>8 DEF IInv, WriteIsCurrent, Quiet, Sole
<1>13. QuietListShowsDetail' /\ QuietGoodbyeFinal'
  BY <1>3, <1>5, <1>8 DEF IInv, QuietListShowsDetail, ListShowsDetail,
     GetMemberDetail, MemberFromRow, EnumerateMembers, QuietGoodbyeFinal,
     GoodbyeFinal, Quiet, Sole
<1>14. SoleEditsDurable'
  <2> SUFFICES ASSUME NEW n \in Sole, pb_data'[n] \in Record, NEW f \in Fields
               PROVE  acked'[n][f] \in {Unknown, pb_data'[n][f]}
    BY DEF SoleEditsDurable, EditsDurable, Sole
  <2>1. CASE n # m
    BY <1>3, <1>5, <1>8, <2>1 DEF IInv, SoleEditsDurable, EditsDurable
  <2>2. CASE n = m
    <3>1. Holds(m, late[m].buf) \/ "pb_data" \in late[m].newer
      BY <1>3, <2>2 DEF IInv, LateIsDurable
    <3> QED BY <1>3, <1>6, <2>2, <3>1, EditsAssumption
            DEF IInv, SoleEditsDurable, EditsDurable, Holds
  <2> QED BY <2>1, <2>2
<1> QED BY <1>1, <1>9, <1>10, <1>11, <1>12, <1>13, <1>14 DEF IInv

(* A batch, or none, of one request leaves the others with the record as it *)
(* is: for a quiet member there are no others.                              *)
LEMMA WriteStaysCurrent ==
  ASSUME IInv, NEW h \in Handlers, req[h].pc = "write",
         Batch(h) \/ UNCHANGED tables,
         \/ Finish(h)
         \/ /\ req[h].op # "MoveMemberToTrash"
            /\ req[h].tries < MaxRetries
            /\ req' = [req EXCEPT ![h].tries = @ + 1]
  PROVE  WriteIsCurrent' /\ OneAtATime'
<1>1. /\ req' \in [Handlers -> Request]
      /\ \A g \in Handlers : req'[g].pc # "idle" =>
           /\ req'[g].pc = req[g].pc /\ req'[g].id = req[g].id
           /\ req'[g].change = req[g].change /\ req'[g].buf = req[g].buf
  BY RequestMoves DEF IInv
<1>2. OneAtATime'
  BY <1>1 DEF IInv, OneAtATime, Busy, Sole
<1>3. /\ req[h].id \in Members /\ req[h].buf \in Record
      /\ req[h].change \in Change
  BY DEF IInv, TypeInv, TypeOK, Request, RequestShape
<1>4. SUFFICES ASSUME NEW g \in Handlers, req'[g].pc = "write",
                      req'[g].id \in Quiet
               PROVE  /\ pb_data'[req[g].id] \in Record
                      /\ req[g].buf = Apply(pb_data'[req[g].id], req[g].change)
                      /\ req[g].change["username"] # Keep =>
                           pb_data'[req[g].id]["username"]
                             \in {NoValue, req[g].change["username"]}
  BY <1>1, <1>2 DEF WriteIsCurrent, Quiet, Sole
<1>5. /\ req[g].pc = "write" /\ req[g].id \in Quiet
      /\ req[g].id = req'[g].id
  BY <1>1, <1>4
<1>6. /\ pb_data[req[g].id] \in Record
      /\ req[g].buf = Apply(pb_data[req[g].id], req[g].change)
      /\ req[g].change["username"] # Keep =>
           pb_data[req[g].id]["username"]
             \in {NoValue, req[g].change["username"]}
  BY <1>5 DEF IInv, WriteIsCurrent
<1>7. CASE UNCHANGED tables
  BY <1>6, <1>7 DEF tables
<1>8. CASE Batch(h) /\ g # h
  <2>1. req[g].id # req[h].id
    BY <1>5, <1>8 DEF IInv, OneAtATime, Busy, Quiet
  <2>2. pb_data'[req[g].id] = pb_data[req[g].id]
    BY <1>3, <1>5, <1>8, <2>1
       DEF Batch, UpdateBatch, TrashBatch, IInv, TypeInv, TypeOK, Quiet, Sole
  <2> QED BY <1>6, <2>2
<1>9. CASE Batch(h) /\ g = h
  <2>1. ~ Finish(h)
    BY <1>4, <1>9, IdleType DEF Finish, IInv, TypeInv, TypeOK
  <2>2. pb_data'[req[h].id] = req[h].buf
    BY <1>3, <1>9, <2>1 DEF Batch, UpdateBatch, IInv, TypeInv, TypeOK
  <2>3. Apply(req[h].buf, req[h].change) = req[h].buf
    BY <1>3, <1>6, <1>9, ApplyTwice
  <2>4. req[h].change["username"] # Keep =>
          req[h].buf["username"] = req[h].change["username"]
    BY <1>6, <1>9, FieldNames DEF Apply
  <2> QED BY <1>3, <1>9, <2>2, <2>3, <2>4
<1> QED BY <1>7, <1>8, <1>9

(* The request goes on to hold what was acknowledged; there is no other for  *)
(* the same member.                                                          *)
LEMMA WriteStaysDurable ==
  ASSUME IInv, NEW h \in Handlers, req[h].pc = "write",
         NEW ok \in BOOLEAN, Tell(h, ok),
         \/ Finish(h)
         \/ /\ ~ ok
            /\ req[h].tries < MaxRetries
            /\ req' = [req EXCEPT ![h].tries = @ + 1]
  PROVE  WriteIsDurable'
<1>1. \A g \in Handlers : req'[g].pc # "idle" =>
        /\ req'[g].pc = req[g].pc /\ req'[g].id = req[g].id
        /\ req'[g].change = req[g].change /\ req'[g].buf = req[g].buf
  BY RequestMoves DEF IInv
<1>2. /\ req[h].id \in Members /\ req \in [Handlers -> Request]
      /\ acked \in [Members -> [Fields -> Value \cup {NoValue, Unknown}]]
  BY DEF IInv, TypeInv, TypeOK, Request, RequestShape
<1> SUFFICES ASSUME NEW g \in Handlers, req'[g].pc = "write",
                    req'[g].id \in Sole, NEW f \in Fields
             PROVE  IF req'[g].change[f] = Keep
                    THEN acked'[req'[g].id][f] \in {Unknown, req'[g].buf[f]}
                    ELSE req'[g].buf[f] = req'[g].change[f]
  BY DEF WriteIsDurable, Sole
<1>3. /\ req[g].pc = "write" /\ req[g].id = req'[g].id
      /\ req'[g].change = req[g].change /\ req'[g].buf = req[g].buf
  BY <1>1
<1>4. IF req[g].change[f] = Keep
      THEN acked[req[g].id][f] \in {Unknown, req[g].buf[f]}
      ELSE req[g].buf[f] = req[g].change[f]
  BY <1>3 DEF IInv, WriteIsDurable
<1>5. CASE g # h
  <2>1. req[g].id # req[h].id
    BY <1>3, <1>5 DEF IInv, OneAtATime, Busy, Sole
  <2>2. acked'[req[g].id] = acked[req[g].id]
    BY <1>2, <1>3, <2>1 DEF Tell, Sole
  <2> QED BY <1>3, <1>4, <2>2
<1>6. CASE g = h
  <2>1. acked'[req[h].id][f] \in {Unknown, acked[req[h].id][f]}
          \/ req[h].change[f] # Keep
    BY <1>2 DEF Tell, Learn
  <2> QED BY <1>3, <1>4, <1>6, <2>1
<1> QED BY <1>5, <1>6

(* Every step keeps the inductive invariant. *)
LEMMA IInvNext == IInv /\ [Next]_vars => IInv'
<1> SUFFICES ASSUME IInv, [Next]_vars PROVE IInv'
  OBVIOUS
<1>1. TypeInv'
  BY TypeNext DEF IInv
<1>2. CASE UNCHANGED vars
  BY <1>1, <1>2, TablesUnchanged
     DEF vars, tables, IInv, OneAtATime, Busy, Quiet, Sole, WriteIsCurrent,
         WriteIsDurable
<1>3. CASE Crash
  <2>1. OneAtATime' /\ WriteIsCurrent' /\ WriteIsDurable'
    BY <1>3, IdleType DEF Crash, OneAtATime, Busy, WriteIsCurrent, WriteIsDurable
  <2> QED BY <1>1, <1>3, <2>1, TablesUnchanged DEF Crash, IInv
<1>4. ASSUME NEW h \in Handlers, NEW m \in Members, NEW op \in Ops,
             NEW field \in Fields, NEW change \in Change,
             NEW refused \in BOOLEAN, Start(h, m, op, field, change, refused)
      PROVE  IInv'
  <2>1. /\ req'[h].pc = "read" /\ req'[h].id = m
        /\ \A g \in Handlers \ {h} : req'[g] = req[g]
        /\ m \in Sole => \A g \in Handlers : ~ Busy(g, m)
    BY <1>4 DEF Start, IInv, TypeInv, TypeOK, Sole
  <2>2. OneAtATime'
    BY <2>1 DEF OneAtATime, Busy, Sole, IInv
  <2>3. UNCHANGED <<tables, acked, late>>
    BY <1>4 DEF Start
  <2>4. WriteIsCurrent' /\ WriteIsDurable'
    BY <2>1, <2>3 DEF WriteIsCurrent, WriteIsDurable, IInv, tables, Quiet, Sole
  <2> QED BY <1>1, <2>2, <2>3, <2>4, TablesUnchanged DEF IInv
<1>5. ASSUME NEW h \in Handlers, ReadRecord(h)
      PROVE  IInv'
  <2>1. req[h] \in Request /\ req \in [Handlers -> Request]
    BY DEF IInv, TypeInv, TypeOK
  <2>2. /\ \A g \in Handlers \ {h} : req'[g] = req[g]
        /\ req'[h].id = req[h].id /\ req'[h].change = req[h].change
        /\ req'[h].buf = Apply(pb_data[req[h].id], req[h].change)
        /\ req[h].pc = "read"
    BY <1>5, <2>1 DEF ReadRecord, Request
  <2>3. UNCHANGED <<tables, acked, late>>
    BY <1>5 DEF ReadRecord
  <2>4. OneAtATime'
    BY <2>2 DEF OneAtATime, Busy, Sole, IInv
  <2>5. WriteIsCurrent'
    <3>1. /\ pb_data[req[h].id] \in Record
          /\ req[h].change["username"] # Keep =>
               pb_data[req[h].id]["username"] = NoValue
      BY <1>5 DEF ReadRecord, UsernameTaken
    <3> QED BY <2>2, <2>3, <3>1 DEF WriteIsCurrent, IInv, tables, Quiet, Sole
  <2>6. WriteIsDurable'
    <3>1. pb_data[req[h].id] \in Record /\ req[h].change \in Change
      BY <1>5, <2>1 DEF ReadRecord, Request
    <3>2. req[h].id \in Sole => \A f \in Fields :
            acked[req[h].id][f] \in {Unknown, pb_data[req[h].id][f]}
      BY <3>1 DEF IInv, SoleEditsDurable, EditsDurable
    <3>3. \A f \in Fields :
            req'[h].buf[f] = IF req[h].change[f] = Keep
                             THEN pb_data[req[h].id][f] ELSE req[h].change[f]
      BY <2>2, <3>1 DEF Apply
    <3> QED BY <2>2, <2>3, <3>2, <3>3 DEF WriteIsDurable, IInv, Sole
  <2> QED BY <1>1, <2>3, <2>4, <2>5, <2>6, TablesUnchanged DEF IInv
<1>6. ASSUME NEW h \in Handlers, ReadFails(h)
      PROVE  IInv'
  <2>1. \A g \in Handlers : req'[g] = req[g] \/ req'[g] = Idle
    BY <1>6 DEF ReadFails, Finish, IInv, TypeInv, TypeOK
  <2>2. UNCHANGED <<tables, acked, late>>
    BY <1>6 DEF ReadFails
  <2>3. OneAtATime' /\ WriteIsCurrent' /\ WriteIsDurable'
    BY <2>1, <2>2, IdleType
       DEF OneAtATime, Busy, Quiet, Sole, WriteIsCurrent, WriteIsDurable, IInv,
           tables
  <2> QED BY <1>1, <2>2, <2>3, TablesUnchanged DEF IInv
<1>7. ASSUME NEW h \in Handlers, WriteBack(h)
      PROVE  IInv'
  BY <1>1, <1>7, BatchKeepsInv, LateKeepsInv, WriteStaysCurrent,
     WriteStaysDurable DEF WriteBack, IInv
<1>8. ASSUME NEW h \in Handlers, WriteFails(h)
      PROVE  IInv'
  <2>1. /\ OneAtATime' /\ WriteIsCurrent'
        /\ Batch(h) \/ UNCHANGED tables
    BY <1>8, WriteStaysCurrent DEF WriteFails, Postpone
  <2>2. WriteIsDurable' /\ LateFits' /\ LateIsDurable'
    BY <1>8, LateKeepsInv, WriteStaysDurable DEF WriteFails
  <2>3. CASE Batch(h)
    BY <1>1, <1>8, <2>1, <2>2, <2>3, BatchKeepsInv DEF WriteFails, IInv
  <2>4. CASE UNCHANGED tables
    <3>1. \A m \in Members, f \in Fields :
            acked'[m][f] \in {Unknown, acked[m][f]}
      BY <1>8 DEF WriteFails, Tell, Learn, IInv, TypeInv, TypeOK
    <3>2. CopiesAgree' /\ QuietListShowsDetail'
      BY <2>4 DEF tables, IInv, CopiesAgree, QuietListShowsDetail,
         ListShowsDetail, Quiet, Sole, GetMemberDetail, MemberFromRow,
         EnumerateMembers
    <3>3. SoleEditsDurable' /\ QuietGoodbyeFinal'
      BY <2>4, <3>1 DEF tables, IInv, SoleEditsDurable, EditsDurable,
         QuietGoodbyeFinal, GoodbyeFinal, Quiet, Sole
    <3> QED BY <1>1, <2>1, <2>2, <3>2, <3>3 DEF IInv
  <2> QED BY <2>1, <2>3, <2>4
<1>9. ASSUME NEW m \in Members, LateUpdate(m) \/ LateTrash(m)
      PROVE  IInv'
  BY <1>9, LateBatchKeepsInv
<1> QED BY <1>2, <1>3, <1>4, <1>5, <1>6, <1>7, <1>8, <1>9, StartShape
        DEF Next, Handle
-----------------------------------------------------------------------------
(* The inductive invariant holds in every reachable state. *)
LEMMA Invariance == Spec => []IInv
BY IInvInit, IInvNext, PTL DEF Spec

(* The two encoded copies of every record agree, contended or not, and       *)
(* whatever is late.                                                         *)
THEOREM CopiesAlwaysAgree == Spec => []CopiesAgree
<1>1. IInv => CopiesAgree
  BY DEF IInv
<1> QED BY <1>1, Invariance, PTL

(* The list of members shows what the detail page shows, for every member   *)
(* that one request at a time edits and whose batches are never late,       *)
(* whatever befalls the others.                                             *)
THEOREM ListShowsDetailAlways == Spec => []QuietListShowsDetail
<1>1. IInv => QuietListShowsDetail
  BY DEF IInv
<1> QED BY <1>1, Invariance, PTL

(* No acknowledged edit of a member whom one request at a time edits is     *)
(* lost, also when batches take effect late.                                *)
THEOREM EditsAreDurable == Spec => []SoleEditsDurable
<1>1. IInv => SoleEditsDurable
  BY DEF IInv
<1> QED BY <1>1, Invariance, PTL

(* The departure of such a member is final, and loses no edit. *)
THEOREM GoodbyeIsFinal == Spec => []QuietGoodbyeFinal
<1>1. IInv => QuietGoodbyeFinal
  BY DEF IInv
<1> QED BY <1>1, Invariance, PTL
-----------------------------------------------------------------------------
(* What a step does to the records of quiet members: nothing, or the batch  *)
(* of one request.                                                          *)
LEMMA StepIsBatch ==
  ASSUME IInv, [Next]_vars
  PROVE  \/ \A m \in Quiet : pb_data'[m] = pb_data[m] /\ dequeue'[m] = dequeue[m]
         \/ \E h \in Handlers : req[h].pc = "write" /\ Batch(h)
<1>1. CASE UNCHANGED vars
  BY <1>1 DEF vars
<1>2. CASE Crash
  BY <1>2 DEF Crash, tables
<1>3. ASSUME NEW h \in Handlers, Handle(h)
      PROVE  UNCHANGED tables \/ (req[h].pc = "write" /\ Batch(h))
  <2>1. CASE ReadRecord(h) \/ ReadFails(h)
    BY <2>1 DEF ReadRecord, ReadFails
  <2>2. CASE WriteBack(h) \/ WriteFails(h)
    BY <2>2 DEF WriteBack, WriteFails, Postpone
  <2> QED BY <1>3, <2>1, <2>2, StartShape, Zenon DEF Handle, Start
<1>4. ASSUME NEW d \in Members, LateUpdate(d) \/ LateTrash(d)
      PROVE  \A m \in Quiet : pb_data'[m] = pb_data[m] /\ dequeue'[m] = dequeue[m]
  <2>1. d \notin Quiet
    BY <1>4 DEF LateUpdate, LateTrash, IInv, LateFits, Quiet
  <2> QED BY <1>4, <2>1 DEF LateUpdate, LateTrash, IInv, TypeInv, TypeOK, Quiet, Sole
<1>5. UNCHANGED tables =>
        \A m \in Quiet : pb_data'[m] = pb_data[m] /\ dequeue'[m] = dequeue[m]
  BY DEF tables
<1> QED BY <1>1, <1>2, <1>3, <1>4, <1>5 DEF Next

(* The batch of a request for a quiet member is an edit of the record as it *)
(* stands, or takes it as it stands to the dequeue.                         *)
LEMMA QuietBatch ==
  ASSUME IInv, NEW h \in Handlers, req[h].pc = "write", Batch(h)
  PROVE  /\ req[h].id \in Members
         /\ \A m \in Members \ {req[h].id} :
              pb_data'[m] = pb_data[m] /\ dequeue'[m] = dequeue[m]
         /\ req[h].id \in Quiet =>
              /\ pb_data[req[h].id] \in Record
              /\ \/ /\ pb_data'[req[h].id] = Absent
                    /\ dequeue'[req[h].id]
                         = Append(dequeue[req[h].id], pb_data[req[h].id])
                 \/ /\ pb_data'[req[h].id] \in Record
                    /\ dequeue'[req[h].id] = dequeue[req[h].id]
                    /\ UsernameKept(req[h].id)
                    /\ \E group \in FieldGroups : \A f \in Fields \ group :
                         pb_data'[req[h].id][f] = pb_data[req[h].id][f]
<1> DEFINE id == req[h].id
           c == req[h].change
<1>1. /\ id \in Members /\ req[h].buf \in Record /\ c \in Change
      /\ OpShape(req[h].op, req[h].field, c) /\ req[h].op \in Ops
      /\ KnownField(req[h].op, req[h].field) /\ req[h].field \in Fields
  BY DEF IInv, TypeInv, TypeOK, Request, RequestShape
<1>2. pb_data \in [Members -> PbData] /\ dequeue \in [Members -> Seq(Record)]
  BY DEF IInv, TypeInv, TypeOK
<1>3. \A m \in Members \ {id} :
        pb_data'[m] = pb_data[m] /\ dequeue'[m] = dequeue[m]
  BY <1>1, <1>2 DEF Batch, UpdateBatch, TrashBatch
<1>4. SUFFICES ASSUME id \in Quiet
               PROVE  /\ pb_data[id] \in Record
                      /\ \/ /\ pb_data'[id] = Absent
                            /\ dequeue'[id] = Append(dequeue[id], pb_data[id])
                         \/ /\ pb_data'[id] \in Record
                            /\ dequeue'[id] = dequeue[id]
                            /\ UsernameKept(id)
                            /\ \E group \in FieldGroups :
                                 \A f \in Fields \ group :
                                   pb_data'[id][f] = pb_data[id][f]
  BY <1>1, <1>3
<1>5. /\ pb_data[id] \in Record /\ req[h].buf = Apply(pb_data[id], c)
      /\ c["username"] # Keep =>
           pb_data[id]["username"] \in {NoValue, c["username"]}
  BY <1>4 DEF IInv, WriteIsCurrent
<1>6. CASE TrashBatch(h) /\ req[h].op = "MoveMemberToTrash"
  <2>1. c = Nothing
    BY <1>1, <1>6 DEF OpShape
  <2>2. req[h].buf = pb_data[id]
    BY <1>5, <2>1 DEF Apply, Nothing, Record
  <2> QED BY <1>1, <1>2, <1>5, <1>6, <2>2 DEF TrashBatch
<1>7. CASE UpdateBatch(h) /\ req[h].op # "MoveMemberToTrash"
  <2>1. pb_data'[id] = Apply(pb_data[id], c) /\ dequeue'[id] = dequeue[id]
    BY <1>1, <1>2, <1>5, <1>7 DEF UpdateBatch
  <2>2. UsernameKept(id)
    BY <1>5, <2>1, FieldNames DEF UsernameKept, Apply
  <2>3. \E group \in FieldGroups : \A f \in Fields \ group : c[f] = Keep
    <3>1. CASE req[h].op = "SetMemberFee"
      BY <1>1, <3>1 DEF OpShape, FieldGroups
    <3>2. CASE req[h].op # "SetMemberFee"
      <4>1. req[h].field \in Fields \ {"email"}
        BY <1>1, <1>7, <3>2, EditsAssumption
           DEF KnownField, Ops, LongFields, BoolFields
      <4>2. {req[h].field} \in FieldGroups
        BY <4>1 DEF FieldGroups
      <4>3. \A f \in Fields \ {req[h].field} : c[f] = Keep
        BY <1>1, <1>7, <3>2 DEF OpShape
      <4> QED BY <4>2, <4>3
    <3> QED BY <3>1, <3>2
  <2>4. \E group \in FieldGroups : \A f \in Fields \ group :
          pb_data'[id][f] = pb_data[id][f]
    BY <2>1, <2>3 DEF Apply
  <2>5. pb_data'[id] \in Record
    BY <1>1, <1>5, <2>1, ApplyType
  <2> HIDE DEF id, c
  <2> QED BY <1>5, <2>1, <2>2, <2>4, <2>5
<1> QED BY <1>6, <1>7 DEF Batch

(* A quiet member's user name is given once. *)
THEOREM UsernameIsKept == Spec => QuietUsernameKept
<1>1. IInv /\ [Next]_vars => [\A m \in Quiet : UsernameKept(m)]_vars
  <2> SUFFICES ASSUME IInv, [Next]_vars, NEW m \in Quiet PROVE UsernameKept(m)
    OBVIOUS
  <2>1. CASE pb_data'[m] = pb_data[m]
    BY <2>1 DEF UsernameKept
  <2>2. ASSUME NEW h \in Handlers, req[h].pc = "write", Batch(h)
        PROVE  UsernameKept(m)
    <3>1. CASE m # req[h].id
      BY <2>2, <3>1, QuietBatch DEF UsernameKept, Quiet, Sole
    <3>2. CASE m = req[h].id
      BY <2>2, <3>2, QuietBatch, EditsAssumption DEF UsernameKept
    <3> QED BY <3>1, <3>2
  <2> QED BY <2>1, <2>2, StepIsBatch
<1> QED BY <1>1, Invariance, PTL DEF Spec, QuietUsernameKept

(* The records of the quiet members are what MemberRecords promises: each   *)
(* step of a request is one atomic edit or departure, or none.              *)
THEOREM RecordsImplemented == Spec => ImplementsRecords
<1>1. Init => Records!Init
  <2> SUFFICES ASSUME Init PROVE Records!Init
    OBVIOUS
  <2>1. [m \in Quiet |-> pb_data[m]]
          \in [Quiet -> Record \cup {Absent, Undecodable}]
    BY EditsAssumption DEF Init, Quiet, Sole
  <2>2. [m \in Quiet |-> dequeue[m]] = [m \in Quiet |-> << >>]
    BY DEF Init, Quiet, Sole
  <2> QED BY <2>1, <2>2 DEF Records!Init
<1>2. IInv /\ [Next]_vars => [Records!Next]_(Records!vars)
  <2> SUFFICES ASSUME IInv, [Next]_vars
               PROVE  Records!Next \/ UNCHANGED Records!vars
    OBVIOUS
  <2>1. CASE \A m \in Quiet :
               pb_data'[m] = pb_data[m] /\ dequeue'[m] = dequeue[m]
    BY <2>1 DEF Records!vars
  <2>2. ASSUME NEW h \in Handlers, req[h].pc = "write", Batch(h),
               req[h].id \notin Quiet
        PROVE  UNCHANGED Records!vars
    BY <2>2, QuietBatch DEF Records!vars, Quiet, Sole
  <2>3. ASSUME NEW h \in Handlers, req[h].pc = "write", Batch(h),
               NEW m \in Quiet, m = req[h].id
        PROVE  Records!Next
    <3>1. /\ \A n \in Quiet \ {m} :
               pb_data'[n] = pb_data[n] /\ dequeue'[n] = dequeue[n]
          /\ pb_data[m] \in Record
      BY <2>3, QuietBatch DEF Quiet, Sole
    <3>2. CASE /\ pb_data'[m] = Absent
               /\ dequeue'[m] = Append(dequeue[m], pb_data[m])
      BY <3>1, <3>2 DEF Records!Next, Records!Leave
    <3>3. CASE /\ pb_data'[m] \in Record
               /\ dequeue'[m] = dequeue[m]
               /\ UsernameKept(m)
               /\ \E group \in FieldGroups : \A f \in Fields \ group :
                    pb_data'[m][f] = pb_data[m][f]
      <4>1. PICK group \in FieldGroups : \A f \in Fields \ group :
              pb_data'[m][f] = pb_data[m][f]
        BY <3>3
      <4>2. Records!Edit(m, group)
        BY <3>1, <3>3, <4>1 DEF Records!Edit, UsernameKept
      <4> QED BY <4>2 DEF Records!Next
    <3> QED BY <2>3, <3>2, <3>3, QuietBatch
  <2> QED BY <2>1, <2>2, <2>3, StepIsBatch
<1> QED BY <1>1, <1>2, Invariance, PTL DEF Spec, ImplementsRecords, Records!Spec
=============================================================================
