---------------------------- MODULE BackupProofs ----------------------------
(***************************************************************************)
(* Proofs about Backup, for any records, of which any may lag behind, and   *)
(* any rows at the start.                                                   *)
(***************************************************************************)
EXTENDS Backup, TLAPS

Alive == status # "failed"

(* No error was sent or is about to be. *)
NoError == alarmed = {} /\ producer.pc \notin {"report", "reportLast"}

(* The rows of u in t are yet to be read. *)
Ahead(t, u) ==
  \E p \in Phases :
    /\ Order[p] = t
    /\ \/ p > main.phase
       \/ p = main.phase /\ main.pc = "open"
       \/ p = main.phase /\ producer.pc \in {"scan", "send"} /\ u \notin scanned

(* u is in the file of t, or on its way there. *)
Written(t, u) ==
  \/ u \in files[t]
  \/ producer.pc = "send" /\ producer.record = u /\ Current = t

(* Where main and the enumeration can be at the same time. *)
InStep ==
  /\ Alive /\ main.pc = "open" => producer.pc \in {"off", "closed"}
  /\ producer.pc = "send" => producer.record \in Records
  /\ status = "done" =>
       main.phase = 5 /\ main.pc = "range" /\ producer.pc = "closed"

(* Nothing is written to a file before it is opened. *)
FilesToCome ==
  Alive => \A p \in Phases :
    p > main.phase \/ (p = main.phase /\ main.pc = "open") => files[Order[p]] = {}

(* Nobody comes back to members. *)
MembersFromStart ==
  \A u \in Records :
    <<"members", "listed">> \in rows[u] => <<"members", "listed">> \in FirstOf(u)

(* Who is to be found is written down, or is in a table that is yet to be   *)
(* read.                                                                    *)
Progress ==
  Alive /\ NoError => \A u \in Records : ToBeFound(u) =>
    \E t \in Tables :
      Written(t, u) \/ (<<t, "listed">> \in rows[u] /\ Ahead(t, u))

(* Who has stayed is written where he is, and nowhere else. *)
NotElsewhere ==
  Alive => \A u \in Records : ~ Moved(u) =>
    \A t \in Tables : Written(t, u) => <<t, "listed">> \in rows[u]

NotMissed ==
  Alive /\ NoError => \A u \in Records : ~ Moved(u) =>
    \A t \in Tables :
      <<t, "listed">> \in rows[u] => Written(t, u) \/ Ahead(t, u)

IInv ==
  /\ TypeOK /\ InStep /\ FilesToCome /\ MembersFromStart
  /\ Progress /\ NotElsewhere /\ NotMissed
-----------------------------------------------------------------------------
(* Every table has one phase. *)
LEMMA OrderFacts ==
  /\ Len(Order) = 5
  /\ \A p \in Phases : Order[p] \in Tables
  /\ \A p, q \in Phases : Order[p] = Order[q] => p = q
  /\ \A t \in Tables : \E p \in Phases : Order[p] = t
  /\ Order[1] = "members" /\ Order[2] = "application"
  /\ Order[3] = "membership_queue" /\ Order[4] = "membership_dequeue"
  /\ Order[5] = "membership_archive"
BY DEF Order, Phases, Tables

(* The table of this phase. *)
LEMMA CurrentTable == ASSUME TypeOK PROVE Current \in Tables
BY OrderFacts DEF TypeOK, Current

Later(s, t) == \E p, q \in Phases : Order[p] = s /\ Order[q] = t /\ p < q

(* What a record becomes: it is still in a list, in the same table or one   *)
(* that comes later, unless it was in members.                              *)
Forward(u, now) ==
  /\ now \in SUBSET Rows
  /\ <<"members", "listed">> \in now => <<"members", "listed">> \in rows[u]
  /\ \A s \in Tables \ {"members"} : <<s, "listed">> \in rows[u] =>
       <<s, "listed">> \in now
         \/ \E t \in Tables : <<t, "listed">> \in now /\ Later(s, t)

(* All moves go forward. *)
LEMMA MovesGoForward ==
  ASSUME TypeOK, NEW u \in Records, Others(u)
  PROVE  \E now : Change(u, now) /\ Forward(u, now)
<1> USE DEF Forward, Rows, Tables
<1>1. rows[u] \subseteq Rows
  BY DEF TypeOK
<1>2. ASSUME NEW s \in Tables, NEW t \in Tables, s # "members", t # "members",
             Later(s, t), Move(u, s, t)
      PROVE  \E now : Change(u, now) /\ Forward(u, now)
  <2> DEFINE now == (rows[u] \ {<<s, "listed">>}) \cup {<<t, "listed">>}
  <2>1. Change(u, now)
    BY <1>2 DEF Move
  <2>2. Forward(u, now)
    BY <1>1, <1>2
  <2> QED BY <2>1, <2>2
<1>3. /\ Later("application", "membership_queue")
      /\ Later("application", "membership_archive")
      /\ Later("membership_queue", "membership_archive")
  BY OrderFacts DEF Later, Phases
<1>4. CASE MoveApplicantToNewMember(u)
  BY <1>2, <1>3, <1>4 DEF MoveApplicantToNewMember
<1>5. CASE MoveApplicantToTrash(u)
  BY <1>2, <1>3, <1>5 DEF MoveApplicantToTrash
<1>6. CASE MoveQueuedRecordToTrash(u)
  BY <1>2, <1>3, <1>6 DEF MoveQueuedRecordToTrash
<1>7. CASE MoveMemberToTrash(u)
  <2>1. PICK kind \in {"broken", "hidden"} :
          Change(u, (rows[u] \ {<<"members", "listed">>})
                      \cup {<<"membership_dequeue", kind>>})
    BY <1>7 DEF MoveMemberToTrash
  <2> DEFINE now == (rows[u] \ {<<"members", "listed">>})
                      \cup {<<"membership_dequeue", kind>>}
  <2>2. Forward(u, now)
    BY <1>1, <2>1
  <2> QED BY <2>1, <2>2
<1>8. CASE MoveNewMemberToFullMember(u)
  <2> DEFINE now == rows[u] \cup {<<"members", "hidden">>}
  <2>1. Change(u, now) /\ Forward(u, now)
    BY <1>1, <1>8 DEF MoveNewMemberToFullMember
  <2> QED BY <2>1
<1>9. CASE MoveDeletedMemberToArchive(u)
  <2> DEFINE now == rows[u] \cup {<<"membership_archive", "broken">>}
  <2>1. Change(u, now) /\ Forward(u, now)
    BY <1>1, <1>9 DEF MoveDeletedMemberToArchive
  <2> QED BY <2>1
<1> QED BY <1>4, <1>5, <1>6, <1>7, <1>8, <1>9 DEF Others
-----------------------------------------------------------------------------
(* The invariant holds at the start. *)
LEMMA InitInv == Init => IInv
<1> SUFFICES ASSUME Init PROVE IInv
  OBVIOUS
<1> USE BackupAssumption, OrderFacts DEF Init, AtStart, NotStarted
<1>1. TypeOK
  BY DEF TypeOK, Phases, Rows
<1>2. InStep /\ FilesToCome
  BY DEF InStep, FilesToCome, Alive
<1>3. MembersFromStart
  BY DEF MembersFromStart, FirstOf
<1>4. \A t \in Tables, u \in Records : Ahead(t, u) /\ ~ Written(t, u)
  BY DEF Ahead, Written, Phases
<1>5. Progress
  BY <1>4 DEF Progress, ToBeFound, FirstOf
<1>6. NotElsewhere /\ NotMissed
  BY <1>4 DEF NotElsewhere, NotMissed
<1> QED BY <1>1, <1>2, <1>3, <1>5, <1>6 DEF IInv

(* The end of the process, however it comes. *)
LEMMA ExitInv == ASSUME IInv, Exit PROVE IInv'
<1> USE DEF Exit, database
<1>1. TypeOK'
  BY DEF IInv, TypeOK, AtStart, NotStarted, Phases
<1>2. ~ Alive'
  BY DEF Alive
<1>3. InStep' /\ FilesToCome' /\ Progress' /\ NotElsewhere' /\ NotMissed'
  BY <1>2 DEF InStep, FilesToCome, Progress, NotElsewhere, NotMissed, NotStarted
<1>4. MembersFromStart'
  BY DEF IInv, MembersFromStart, FirstOf
<1> QED BY <1>1, <1>3, <1>4 DEF IInv

(* What the process does leaves the database alone. *)
LEMMA DatabaseKept ==
  ASSUME IInv, UNCHANGED database
  PROVE  /\ MembersFromStart'
         /\ \A u \in Records : /\ ToBeFound(u)' <=> ToBeFound(u)
                               /\ Moved(u)' <=> Moved(u)
                               /\ rows'[u] = rows[u]
BY DEF IInv, database, MembersFromStart, ToBeFound, Moved, Left, FirstOf

(* A step of the process that reads nothing keeps the invariant, if it      *)
(* takes back nothing that is written or is yet to be read.                 *)
LEMMA StepInv ==
  ASSUME IInv, UNCHANGED database, TypeOK', InStep', FilesToCome',
         Alive' => Alive, NoError' => NoError,
         \A t \in Tables, u \in Records :
           /\ Alive' /\ Written(t, u)' => Written(t, u)
           /\ Alive' /\ Written(t, u) => Written(t, u)'
           /\ Alive' /\ NoError' /\ Ahead(t, u) => Ahead(t, u)'
  PROVE  IInv'
<1>1. Progress'
  BY DatabaseKept DEF IInv, Progress
<1>2. NotElsewhere'
  BY DatabaseKept DEF IInv, NotElsewhere
<1>3. NotMissed'
  BY DatabaseKept DEF IInv, NotMissed
<1> QED BY <1>1, <1>2, <1>3, DatabaseKept DEF IInv

LEMMA OpenFileInv == ASSUME IInv, OpenFile PROVE IInv'
<1> USE OrderFacts, CurrentTable DEF OpenFile, database
<1>0. UNCHANGED database
  OBVIOUS
<1>1. TypeOK'
  BY BackupAssumption DEF IInv, TypeOK
<1>2. InStep'
  BY DEF IInv, InStep, Running
<1>3. FilesToCome'
  BY DEF IInv, TypeOK, FilesToCome, Alive, Phases, Current
<1>4. files[Current] = {}
  BY DEF IInv, TypeOK, FilesToCome, Alive, Running, Current
<1>5. files' = files
  BY <1>4 DEF IInv, TypeOK
<1>6. producer.pc \in {"off", "closed"} /\ Alive
  BY DEF IInv, InStep, Running, Alive
<1>7. \A t \in Tables, u \in Records :
        /\ Written(t, u)' <=> Written(t, u)
        /\ Ahead(t, u) => Ahead(t, u)'
  BY <1>5, <1>6 DEF IInv, TypeOK, Written, Ahead, Phases
<1>8. NoError' => NoError
  BY <1>6 DEF NoError
<1> QED BY <1>0, <1>1, <1>2, <1>3, <1>6, <1>7, <1>8, StepInv

LEMMA WriteMessageInv == ASSUME IInv, WriteMessage PROVE IInv'
<1> USE OrderFacts, CurrentTable DEF WriteMessage, database
<1>0. UNCHANGED database
  OBVIOUS
<1>1. TypeOK'
  BY BackupAssumption DEF IInv, TypeOK, InStep
<1>2. InStep'
  BY DEF IInv, InStep, Running
<1>3. FilesToCome'
  BY DEF IInv, TypeOK, FilesToCome, Alive, Phases, Current
<1>4. \A t \in Tables, u \in Records :
        /\ Written(t, u)' <=> Written(t, u)
        /\ Ahead(t, u) => Ahead(t, u)'
  BY DEF IInv, TypeOK, Written, Ahead, Current
<1>5. (Alive' => Alive) /\ (NoError' => NoError)
  BY DEF Alive, NoError
<1> QED BY <1>0, <1>1, <1>2, <1>3, <1>4, <1>5, StepInv

(* The end of a phase. *)
LEMMA CloseFileChanges ==
  ASSUME TypeOK, CloseFile
  PROVE  /\ UNCHANGED <<rows, past, producer, scanned, alarmed, files>>
         /\ main.pc = "range" /\ producer.pc = "closed" /\ status = "running"
         /\ main.phase \in Phases
         /\ \/ /\ main.phase < 5 /\ status' = status
               /\ main' = [pc |-> "open", phase |-> main.phase + 1]
            \/ main.phase = 5 /\ status' = "done" /\ main' = main
<1>1. /\ UNCHANGED <<rows, past, producer, scanned, alarmed, files>>
      /\ main.pc = "range" /\ producer.pc = "closed" /\ status = "running"
      /\ main.phase \in Phases
  BY DEF CloseFile, Running, TypeOK, database
<1>2. CASE main.phase < 5
  <2>1. main' = [main EXCEPT !.pc = "open", !.phase = @ + 1] /\ status' = status
    BY <1>2, OrderFacts DEF CloseFile
  <2> QED BY <1>1, <1>2, <2>1 DEF TypeOK
<1>3. CASE ~ main.phase < 5
  BY <1>1, <1>3, OrderFacts DEF CloseFile, Phases
<1> QED BY <1>1, <1>2, <1>3

LEMMA CloseFileInv == ASSUME IInv, CloseFile PROVE IInv'
<1> USE OrderFacts DEF database
<1>1. /\ UNCHANGED <<rows, past, producer, scanned, alarmed, files>>
      /\ main.pc = "range" /\ producer.pc = "closed" /\ status = "running"
      /\ main.phase \in Phases
  BY CloseFileChanges DEF IInv
<1>2. \/ /\ main.phase < 5 /\ status' = status
         /\ main' = [pc |-> "open", phase |-> main.phase + 1]
      \/ main.phase = 5 /\ status' = "done" /\ main' = main
  BY CloseFileChanges DEF IInv
<1>3. TypeOK'
  BY <1>1, <1>2 DEF IInv, TypeOK, Phases
<1>4. InStep'
  BY <1>1, <1>2 DEF IInv, InStep
<1>5. FilesToCome'
  BY <1>1, <1>2 DEF IInv, TypeOK, FilesToCome, Alive, Phases
<1>6. \A t \in Tables, u \in Records :
        /\ Written(t, u)' <=> Written(t, u)
        /\ Ahead(t, u) => Ahead(t, u)'
  BY <1>1, <1>2 DEF Written, Ahead, Phases
<1>7. Alive /\ (NoError' => NoError)
  BY <1>1 DEF Alive, NoError
<1> QED BY <1>1, <1>3, <1>4, <1>5, <1>6, <1>7, StepInv

(* The steps of the enumeration that send nothing. *)
LEMMA ScanEndsInv == ASSUME IInv, ScanEnds PROVE IInv'
<1> USE DEF ScanEnds, database
<1>0. UNCHANGED database
  OBVIOUS
<1>1. TypeOK' /\ InStep' /\ FilesToCome'
  BY DEF IInv, TypeOK, InStep, FilesToCome, Alive, Running
<1>2. \A t \in Tables, u \in Records :
        /\ Written(t, u)' <=> Written(t, u)
        /\ Ahead(t, u) => Ahead(t, u)'
  BY DEF IInv, TypeOK, Written, Ahead
<1>3. (Alive' => Alive) /\ (NoError' => NoError)
  BY DEF Alive, NoError
<1> QED BY <1>0, <1>1, <1>2, <1>3, StepInv

LEMMA ScanFailsInv == ASSUME IInv, ScanFails PROVE IInv'
<1> USE DEF ScanFails, database
<1>0. UNCHANGED database
  OBVIOUS
<1>1. TypeOK' /\ InStep' /\ FilesToCome'
  BY DEF IInv, TypeOK, InStep, FilesToCome, Alive, Running
<1>2. ~ NoError'
  BY DEF IInv, TypeOK, NoError
<1>3. \A t \in Tables, u \in Records : Written(t, u)' <=> Written(t, u)
  BY DEF IInv, TypeOK, Written, Current
<1>4. Alive' => Alive
  BY DEF Alive
<1> QED BY <1>0, <1>1, <1>2, <1>3, <1>4, StepInv

LEMMA ReportErrorInv == ASSUME IInv, ReportError PROVE IInv'
<1> USE DEF ReportError, database
<1>0. UNCHANGED database
  OBVIOUS
<1>1. TypeOK' /\ InStep' /\ FilesToCome'
  BY DEF IInv, TypeOK, InStep, FilesToCome, Alive, Running
<1>2. ~ NoError'
  BY DEF IInv, TypeOK, NoError
<1>3. \A t \in Tables, u \in Records : Written(t, u)' <=> Written(t, u)
  BY DEF IInv, TypeOK, Written, Current
<1>4. Alive' => Alive
  BY DEF Alive
<1> QED BY <1>0, <1>1, <1>2, <1>3, <1>4, StepInv

LEMMA CloseInv == ASSUME IInv, Close PROVE IInv'
<1> USE DEF Close, database
<1>0. UNCHANGED database
  OBVIOUS
<1>1. TypeOK' /\ InStep' /\ FilesToCome'
  BY DEF IInv, TypeOK, InStep, FilesToCome, Alive, Running
<1>2. \A t \in Tables, u \in Records :
        /\ Written(t, u)' <=> Written(t, u)
        /\ Ahead(t, u) => Ahead(t, u)'
  BY DEF IInv, TypeOK, Written, Ahead, Current
<1>3. (Alive' => Alive) /\ (NoError' => NoError)
  BY DEF IInv, TypeOK, Alive, NoError
<1> QED BY <1>0, <1>1, <1>2, <1>3, StepInv

(* The enumeration gets to a record: what it finds is sent, and what it does *)
(* not find is in another table.                                            *)
LEMMA ScanRowInv == ASSUME IInv, NEW u \in Records, ScanRow(u) PROVE IInv'
<1> USE OrderFacts, CurrentTable DEF database
<1>1. PICK view \in Views(u) :
        producer' = IF <<Current, "listed">> \in view
                    THEN [pc |-> "send", record |-> u]
                    ELSE IF <<Current, "broken">> \in view
                    THEN [pc |-> "report", record |-> Nobody]
                    ELSE producer
  BY DEF ScanRow, Queried
<1>2. /\ UNCHANGED <<rows, past, main, alarmed, status, files>>
      /\ producer.pc = "scan" /\ status = "running"
      /\ u \notin scanned /\ scanned' = scanned \cup {u}
  BY DEF ScanRow, Running
<1>3. /\ ToBeFound(u) \/ ~ Moved(u) => view = rows[u]
      /\ ~ Moved(u) => Views(u) = {rows[u]}
  BY DEF ToBeFound, Moved, Views, Range
<1>4. TypeOK' /\ producer'.pc \in {"scan", "send", "report"}
  BY <1>1, <1>2 DEF IInv, TypeOK
<1>5. InStep' /\ FilesToCome'
  BY <1>1, <1>2, <1>4 DEF IInv, TypeOK, InStep, FilesToCome, Alive
<1>6. Alive /\ (NoError' => NoError)
  BY <1>2 DEF Alive, NoError
<1>7. Current' = Current /\ Current \in Tables
  BY <1>2, CurrentTable DEF Current, IInv
<1>8. ASSUME NEW v \in Records, NEW t \in Tables
      PROVE  /\ Written(t, v) => Written(t, v)'
             /\ v # u \/ t # Current => (Written(t, v)' => Written(t, v))
             /\ NoError' /\ (v # u \/ t # Current) /\ Ahead(t, v)
                  => Ahead(t, v)'
  <2>1. Written(t, v) <=> v \in files[t]
    BY <1>2 DEF Written
  <2>2. Written(t, v)' => v \in files[t] \/ (v = u /\ t = Current)
    BY <1>1, <1>2, <1>7 DEF Written
  <2>3. ASSUME NoError', v # u \/ t # Current, Ahead(t, v) PROVE Ahead(t, v)'
    <3>1. producer'.pc \in {"scan", "send"}
      BY <1>4, <2>3 DEF NoError
    <3>2. PICK p \in Phases :
            /\ Order[p] = t
            /\ \/ p > main.phase
               \/ p = main.phase /\ main.pc = "open"
               \/ p = main.phase /\ v \notin scanned
      BY <2>3 DEF Ahead
    <3>3. p = main.phase => t = Current
      BY <3>2 DEF Current
    <3> QED BY <1>2, <2>3, <3>1, <3>2, <3>3 DEF Ahead
  <2> QED BY <1>2, <2>1, <2>2, <2>3 DEF Written
<1>9. \A t \in Tables :
        t = Current /\ <<t, "listed">> \in view => Written(t, u)'
  BY <1>1, <1>7 DEF Written
<1>10. \A t \in Tables :
         t = Current /\ Written(t, u)' => Written(t, u) \/ <<t, "listed">> \in view
  BY <1>1, <1>2, <1>7 DEF Written
<1>11. Progress'
  <2> SUFFICES ASSUME NoError', NEW v \in Records, ToBeFound(v)
               PROVE  \E t \in Tables :
                        Written(t, v)' \/ (<<t, "listed">> \in rows[v] /\ Ahead(t, v)')
    BY <1>2, DatabaseKept DEF Progress
  <2>1. PICK t \in Tables :
          Written(t, v) \/ (<<t, "listed">> \in rows[v] /\ Ahead(t, v))
    BY <1>6 DEF IInv, Progress
  <2>2. CASE v # u \/ t # Current
    BY <1>8, <2>1, <2>2
  <2>3. CASE v = u /\ t = Current
    BY <1>3, <1>7, <1>8, <1>9, <2>1, <2>3
  <2> QED BY <2>2, <2>3
<1>12. NotElsewhere'
  <2> SUFFICES ASSUME NEW v \in Records, ~ Moved(v), NEW t \in Tables, Written(t, v)'
               PROVE  <<t, "listed">> \in rows[v]
    BY <1>2, DatabaseKept DEF NotElsewhere
  <2>1. CASE v # u \/ t # Current
    BY <1>6, <1>8, <2>1 DEF IInv, NotElsewhere
  <2>2. CASE v = u /\ t = Current
    BY <1>3, <1>6, <1>10, <2>2 DEF IInv, NotElsewhere
  <2> QED BY <2>1, <2>2
<1>13. NotMissed'
  <2> SUFFICES ASSUME NoError', NEW v \in Records, ~ Moved(v), NEW t \in Tables,
                      <<t, "listed">> \in rows[v]
               PROVE  Written(t, v)' \/ Ahead(t, v)'
    BY <1>2, DatabaseKept DEF NotMissed
  <2>1. Written(t, v) \/ Ahead(t, v)
    BY <1>6 DEF IInv, NotMissed
  <2>2. CASE v # u \/ t # Current
    BY <1>8, <2>1, <2>2
  <2>3. CASE v = u /\ t = Current
    BY <1>3, <1>9, <2>3
  <2> QED BY <2>2, <2>3
<1>14. MembersFromStart'
  BY <1>2, DatabaseKept
<1> QED BY <1>4, <1>5, <1>11, <1>12, <1>13, <1>14 DEF IInv

(* Another program moves a record. *)
LEMMA OthersInv == ASSUME IInv, NEW u \in Records, Others(u) PROVE IInv'
<1>1. PICK now : Change(u, now) /\ Forward(u, now)
  BY MovesGoForward DEF IInv
<1>2. /\ status = "running" /\ UNCHANGED <<main, producer, scanned, alarmed, status, files>>
      /\ rows' = [rows EXCEPT ![u] = now]
      /\ past' = [past EXCEPT ![u] = Append(@, rows[u])]
  BY <1>1 DEF Change, Running, process
<1>3. TypeOK'
  BY <1>1, <1>2 DEF IInv, TypeOK, Forward
<1>4. InStep' /\ FilesToCome' /\ Alive
  BY <1>2 DEF IInv, InStep, FilesToCome, Alive
<1>5. /\ NoError' <=> NoError
      /\ \A v \in Records, t \in Tables :
           (Written(t, v)' <=> Written(t, v)) /\ (Ahead(t, v)' <=> Ahead(t, v))
  BY <1>2 DEF NoError, Written, Ahead, Current
<1>6. \A v \in Records \ {u} :
        /\ rows'[v] = rows[v] /\ past'[v] = past[v]
        /\ (Moved(v)' <=> Moved(v)) /\ (ToBeFound(v)' <=> ToBeFound(v))
        /\ FirstOf(v)' = FirstOf(v)
  BY <1>2 DEF IInv, TypeOK, Moved, ToBeFound, Left, FirstOf
<1>7. /\ rows'[u] = now
      /\ Moved(u)' /\ FirstOf(u)' = FirstOf(u)
  <2>1. rows'[u] = now /\ past'[u] = Append(past[u], rows[u])
    BY <1>2 DEF IInv, TypeOK
  <2>2. past[u] \in Seq(SUBSET Rows) /\ rows[u] \in SUBSET Rows
    BY DEF IInv, TypeOK
  <2>3. past'[u] # << >> /\ (past[u] # << >> => past'[u][1] = past[u][1])
           /\ (past[u] = << >> => past'[u][1] = rows[u])
    BY <2>1, <2>2
  <2> QED BY <2>1, <2>3 DEF Moved, FirstOf
<1>8. MembersFromStart'
  BY <1>1, <1>6, <1>7 DEF IInv, MembersFromStart, Forward
<1>9. Progress'
  <2> SUFFICES ASSUME NoError, NEW v \in Records, ToBeFound(v)'
               PROVE  \E t \in Tables :
                        Written(t, v) \/ (<<t, "listed">> \in rows'[v] /\ Ahead(t, v))
    BY <1>5 DEF Progress
  <2>1. CASE v # u
    BY <1>4, <1>6, <2>1 DEF IInv, Progress
  <2>2. CASE v = u
    <3>1. u \notin Lagging /\ ~ Left(u)' /\ ToBeFound(u)
      BY <1>1, <1>7, <2>2 DEF ToBeFound, Left, Forward
    <3>2. PICK s \in Tables :
            Written(s, u) \/ (<<s, "listed">> \in rows[u] /\ Ahead(s, u))
      BY <1>4, <3>1 DEF IInv, Progress
    <3>3. CASE Written(s, u)
      BY <2>2, <3>3
    <3>4. CASE <<s, "listed">> \in now /\ Ahead(s, u)
      BY <1>7, <2>2, <3>4
    <3>5. CASE <<s, "listed">> \in rows[u] \ now /\ Ahead(s, u)
      <4>1. s # "members"
        BY <1>7, <3>1, <3>5 DEF Left, IInv, MembersFromStart
      <4>2. PICK t \in Tables : <<t, "listed">> \in now /\ Later(s, t)
        BY <1>1, <3>5, <4>1 DEF Forward
      <4>3. Ahead(t, u)
        <5>1. PICK p, q \in Phases : Order[p] = s /\ Order[q] = t /\ p < q
          BY <4>2 DEF Later
        <5>2. p >= main.phase
          BY <3>5, <5>1, OrderFacts DEF Ahead, IInv, TypeOK, Phases
        <5> QED BY <5>1, <5>2 DEF Ahead, IInv, TypeOK, Phases
      <4> QED BY <1>7, <2>2, <4>2, <4>3
    <3> QED BY <3>2, <3>3, <3>4, <3>5
  <2> QED BY <2>1, <2>2
<1>10. NotElsewhere' /\ NotMissed'
  BY <1>4, <1>5, <1>6, <1>7 DEF IInv, NotElsewhere, NotMissed
<1> QED BY <1>3, <1>4, <1>8, <1>9, <1>10 DEF IInv
-----------------------------------------------------------------------------
LEMMA StepsKeepInv == IInv /\ [Next]_vars => IInv'
<1> SUFFICES ASSUME IInv, [Next]_vars PROVE IInv'
  OBVIOUS
<1>1. CASE Fail
  BY <1>1, ExitInv DEF Fail
<1>2. CASE Main
  BY <1>2, OpenFileInv, WriteMessageInv, CloseFileInv DEF Main
<1>3. CASE Enumeration
  BY <1>3, ScanRowInv, ScanEndsInv, ScanFailsInv, ReportErrorInv, CloseInv
  DEF Enumeration
<1>4. CASE \E p \in Phases : LogFatal(p)
  BY <1>4, ExitInv DEF LogFatal
<1>5. CASE \E u \in Records : Others(u)
  BY <1>5, OthersInv
<1>6. CASE UNCHANGED vars
  <2> USE <1>6 DEF vars, database, process
  <2>1. TypeOK' /\ InStep' /\ FilesToCome'
    BY DEF IInv, TypeOK, InStep, FilesToCome, Alive
  <2>2. \A t \in Tables, u \in Records :
          (Written(t, u)' <=> Written(t, u)) /\ (Ahead(t, u)' <=> Ahead(t, u))
    BY DEF Written, Ahead, Current
  <2>3. (Alive' => Alive) /\ (NoError' => NoError) /\ UNCHANGED database
    BY DEF Alive, NoError
  <2> QED BY <2>1, <2>2, <2>3, StepInv
<1> QED BY <1>1, <1>2, <1>3, <1>4, <1>5, <1>6 DEF Next

LEMMA InvAlways == Spec => []IInv
BY InitInv, StepsKeepInv, PTL DEF Spec

(* The variables keep their types. *)
THEOREM TypeCorrect == Spec => []TypeOK
BY InvAlways, PTL DEF IInv

(* What the invariant says of a run that has ended well. *)
LEMMA AtTheEnd ==
  ASSUME IInv, Clean
  PROVE  /\ Alive /\ NoError
         /\ \A t \in Tables, u \in Records :
              ~ Ahead(t, u) /\ (Written(t, u) <=> u \in files[t])
BY DEF IInv, InStep, TypeOK, Clean, Alive, NoError, Ahead, Written, Phases

(* A backup that has ended without an error holds everyone who was in a     *)
(* list when it started, however records have been moved from table to      *)
(* table, if no replica lagged behind and who is missing has not left.      *)
THEOREM TheMovedAreFound == Spec => []MovedAreFound
<1>1. IInv => MovedAreFound
  BY AtTheEnd DEF IInv, Progress, MovedAreFound
<1> QED BY <1>1, InvAlways, PTL

(* Who is not moved while the backup runs is in the file of his table, and  *)
(* in that only.                                                            *)
THEOREM FilesAlwaysFit == Spec => []FilesFit
<1>1. IInv => FilesFit
  BY AtTheEnd DEF IInv, NotElsewhere, NotMissed, FilesFit
<1> QED BY <1>1, InvAlways, PTL
-----------------------------------------------------------------------------
(* Where main and the enumeration are while the process runs: with InStep,  *)
(* an enumeration that has not ended has main at its stream.                *)
Served ==
  Running =>
    /\ main.pc = "range" => producer.pc # "off"
    /\ \A p \in alarmed : p <= main.phase

LEMMA ServedInit == Init => Served
BY DEF Init, Served, AtStart

LEMMA ServedStep == IInv /\ Served /\ [Next]_vars => Served'
<1> SUFFICES ASSUME IInv, Served, [Next]_vars PROVE Served'
  OBVIOUS
<1>0. ASSUME CloseFile
      PROVE  /\ alarmed' = alarmed /\ producer' = producer /\ status = "running"
             /\ producer.pc = "closed" /\ alarmed \subseteq Phases
             /\ main.phase \in Phases
             /\ \/ main' = [pc |-> "open", phase |-> main.phase + 1]
                \/ main' = main /\ status' = "done"
  BY <1>0, CloseFileChanges DEF IInv, TypeOK
<1> USE DEF Served, Running, IInv, TypeOK
<1>1. CASE Fail \/ \E p \in Phases : LogFatal(p)
  BY <1>1 DEF Fail, LogFatal, Exit
<1>2. CASE OpenFile \/ WriteMessage
  BY <1>2 DEF OpenFile, WriteMessage
<1>3. CASE CloseFile
  <2>1. CASE main' = main /\ status' = "done"
    BY <1>0, <1>3, <2>1
  <2>2. CASE main' = [pc |-> "open", phase |-> main.phase + 1]
    <3>1. \A p \in alarmed : p \in Nat /\ p <= main.phase
      BY <1>0, <1>3 DEF Phases
    <3>2. main'.pc = "open" /\ main'.phase = main.phase + 1 /\ main.phase \in Nat
      BY <1>0, <1>3, <2>2 DEF Phases
    <3>3. \A p \in alarmed : p <= main'.phase
      BY <3>1, <3>2
    <3> QED BY <1>0, <1>3, <3>2, <3>3
  <2> QED BY <1>0, <1>3, <2>1, <2>2
<1>4. ASSUME NEW u \in Records, ScanRow(u) PROVE Served'
  BY <1>4 DEF ScanRow
<1>5. CASE ScanEnds \/ ScanFails \/ Close
  BY <1>5 DEF ScanEnds, ScanFails, Close
<1>6. CASE ReportError
  BY <1>6 DEF ReportError, Phases
<1>7. ASSUME NEW u \in Records, Others(u) PROVE Served'
  <2>1. UNCHANGED process
    BY <1>7, MovesGoForward DEF Change
  <2> QED BY <2>1 DEF process
<1>8. CASE UNCHANGED vars
  BY <1>8 DEF vars, process
<1> QED
  BY <1>1, <1>2, <1>3, <1>4, <1>5, <1>6, <1>7, <1>8 DEF Next, Main, Enumeration

LEMMA ServedAlways == Spec => []Served
BY ServedInit, ServedStep, InvAlways, PTL DEF Spec

(* No goroutine waits for a channel that nobody else uses.                  *)
THEOREM NobodyIsEverStuck == Spec => []NobodyIsStuck
<1>1. IInv /\ Served => NobodyIsStuck
  BY DEF IInv, TypeOK, InStep, Alive, Running, Served, NobodyIsStuck
<1> QED BY <1>1, InvAlways, ServedAlways, PTL

(* No step of the run takes it back, whatever fails.                        *)
THEOREM RunsNeverGoBack == Spec => NeverBack
<1>1. IInv /\ [Next]_vars => [UNCHANGED process \/ Advances]_vars
  <2> SUFFICES ASSUME IInv, [Next]_vars PROVE UNCHANGED process \/ Advances \/ UNCHANGED vars
    OBVIOUS
  <2> USE DEF Advances, Remaining, Running, IInv, TypeOK, InStep, Alive
  <2>1. CASE Fail \/ \E p \in Phases : LogFatal(p)
    BY <2>1 DEF Fail, LogFatal, Exit
  <2>2. CASE OpenFile
    BY <2>2 DEF OpenFile
  <2>3. CASE WriteMessage
    BY <2>3 DEF WriteMessage
  <2>4. CASE CloseFile
    BY <2>4, CloseFileChanges DEF Phases
  <2>5. ASSUME NEW u \in Records, ScanRow(u) PROVE Advances
    BY <2>5 DEF ScanRow
  <2>6. CASE ScanEnds \/ ScanFails \/ Close
    BY <2>6 DEF ScanEnds, ScanFails, Close
  <2>7. CASE ReportError
    BY <2>7 DEF ReportError
  <2>8. ASSUME NEW u \in Records, Others(u) PROVE UNCHANGED process
    BY <2>8, MovesGoForward DEF Change
  <2> QED
    BY <2>1, <2>2, <2>3, <2>4, <2>5, <2>6, <2>7, <2>8 DEF Next, Main, Enumeration
<1> QED BY <1>1, InvAlways, PTL DEF Spec, NeverBack
=============================================================================
