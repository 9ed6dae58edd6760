------------------------------- MODULE Backup -------------------------------
(***************************************************************************)
(* backup (backup/backup.go): one run writes the five tables of Cassandra   *)
(* to a file each, one after the other.  For each table there are three     *)
(* goroutines: the enumeration (db/cassandra.go), which sends records to a  *)
(* stream and errors to another channel, both unbuffered; the handler of    *)
(* the errors, which ends the program at the first; and main, which writes  *)
(* down what comes from the stream until it is closed.  Meanwhile the web   *)
(* frontend and member_creator go on moving records, in single steps here.  *)
(*                                                                          *)
(* Of a row there is its table and what the query makes of its key:         *)
(*   "listed"  the prefix and the 16 bytes of a UUID (in members, an e-mail *)
(*             address, and there is an e-mail column);                     *)
(*   "broken"  selected, but with another length or a record that cannot be *)
(*             decoded: an error;                                           *)
(*   "hidden"  not selected at all.                                         *)
(* Rows are read from one replica, which may lag behind for the records of  *)
(* Lagging; a write is on a quorum of the replicas.                         *)
(***************************************************************************)
EXTENDS Naturals, Sequences, Functions

CONSTANTS
  Records,    \* the membership records
  Lagging,    \* those whose rows some replica may get late
  FirstRows,  \* the rows there may be when the run starts
  Nobody      \* not a record

(* Mutant: the archive comes first. *)
ArchiveFirst == <<"membership_archive", "members", "application",
                  "membership_queue", "membership_dequeue">>

(* The tables in the order in which main writes them down. *)
Order == <<"members", "application", "membership_queue",
           "membership_dequeue", "membership_archive">>

Tables == {"members", "application", "membership_queue",
           "membership_dequeue", "membership_archive"}
Phases == 1 .. 5

Rows == Tables \X {"listed", "broken", "hidden"}

ASSUME BackupAssumption ==
  /\ Lagging \subseteq Records
  /\ FirstRows \subseteq Rows
  /\ Nobody \notin Records

VARIABLES
  rows,      \* the rows of each record
  main,      \* the main goroutine: where it is, in which phase
  producer,  \* the enumeration of this phase: where it is, what it sends
  scanned,   \* what rows it has looked for
  alarmed,   \* the phases whose handleErrors goroutine has received an error
  status,    \* of the process: "running", "failed" or "done" (exit status 0)
  files,     \* what is in the file of each table
  past       \* the rows each record has had since the run started

database == <<rows, past>>
process == <<main, producer, scanned, alarmed, status, files>>
vars == <<database, process>>

Running == status = "running"
Current == Order[main.phase]

AtStart == [pc |-> "open", phase |-> 1]
NotStarted == [pc |-> "off", record |-> Nobody]

(* Every record has a row, and the replicas agree. *)
Init ==
  /\ rows \in [Records -> {{r} : r \in FirstRows}]
  /\ past = [u \in Records |-> << >>]
  /\ main = AtStart /\ producer = NotStarted
  /\ scanned = {}
  /\ alarmed = {}
  /\ status = "running"
  /\ files = [t \in Tables |-> {}]
-----------------------------------------------------------------------------
(* main. *)

(* log.Fatal ends the process with all its goroutines. *)
Exit ==
  /\ status' = "failed"
  /\ main' = AtStart /\ producer' = NotStarted
  /\ scanned' = {} /\ alarmed' = {}
  /\ UNCHANGED <<database, files>>

(* os.Create, WriteMessage, Close or the connection fails. *)
Fail == Running /\ Exit

(* A file is created, or emptied, and the goroutines of the phase start. *)
OpenFile ==
  /\ Running /\ main.pc = "open"
  /\ files' = [files EXCEPT ![Current] = {}]
  /\ main' = [main EXCEPT !.pc = "range"]
  /\ producer' = [pc |-> "scan", record |-> Nobody]
  /\ scanned' = {}
  /\ UNCHANGED <<database, alarmed, status>>

(* main receives what the enumeration sends, and writes it to the file. *)
WriteMessage ==
  /\ Running /\ main.pc = "range" /\ producer.pc = "send"
  /\ files' = [files EXCEPT ![Current] = @ \cup {producer.record}]
  /\ producer' = [pc |-> "scan", record |-> Nobody]
  /\ UNCHANGED <<database, main, scanned, alarmed, status>>

(* Mutant: there is one phase more. *)
CloseFileAndGoOn ==
  /\ Running /\ main.pc = "range" /\ producer.pc = "closed"
  /\ main' = [main EXCEPT !.pc = "open", !.phase = @ + 1]
  /\ UNCHANGED <<database, producer, scanned, alarmed, files, status>>

(* The stream is closed: the next table, or the end of main. *)
CloseFile ==
  /\ Running /\ main.pc = "range" /\ producer.pc = "closed"
  /\ IF main.phase < Len(Order)
     THEN /\ main' = [main EXCEPT !.pc = "open", !.phase = @ + 1]
          /\ UNCHANGED status
     ELSE /\ status' = "done"
          /\ UNCHANGED main
  /\ UNCHANGED <<database, producer, scanned, alarmed, files>>

Main == OpenFile \/ WriteMessage \/ CloseFile
-----------------------------------------------------------------------------
(* The enumerations: StreamingEnumerateMembers and the others. *)

(* What a replica may have of a record. *)
Views(u) == {rows[u]} \cup IF u \in Lagging THEN Range(past[u]) ELSE {}

(* Mutant: the archive is read from the dequeue. *)
DequeueForArchive ==
  IF Current = "membership_archive" THEN "membership_dequeue" ELSE Current

(* The table in the query. *)
Queried == Current

(* The iterator gets to where a row of u would be. *)
ScanRow(u) ==
  /\ Running /\ producer.pc = "scan"
  /\ u \notin scanned
  /\ scanned' = scanned \cup {u}
  /\ \E view \in Views(u) :
       producer' = IF <<Queried, "listed">> \in view
                   THEN [pc |-> "send", record |-> u]
                   ELSE IF <<Queried, "broken">> \in view
                   THEN [pc |-> "report", record |-> Nobody]
                   ELSE producer
  /\ UNCHANGED <<database, main, alarmed, status, files>>

ScanEnds ==
  /\ Running /\ producer.pc = "scan"
  /\ scanned = Records
  /\ producer' = [producer EXCEPT !.pc = "close"]
  /\ UNCHANGED <<database, main, scanned, alarmed, status, files>>

(* A page cannot be fetched, which iter.Close reports. *)
ScanFails ==
  /\ Running /\ producer.pc = "scan"
  /\ producer' = [producer EXCEPT !.pc = "reportLast"]
  /\ UNCHANGED <<database, main, scanned, alarmed, status, files>>

(* Mutant: after an error the query is sent again. *)
ReportErrorAndRetry ==
  /\ Running /\ producer.pc \in {"report", "reportLast"}
  /\ main.phase \notin alarmed
  /\ alarmed' = alarmed \cup {main.phase}
  /\ producer' = [producer EXCEPT !.pc = "scan"]
  /\ scanned' = {}
  /\ UNCHANGED <<database, main, status, files>>

(* The handler of this phase receives an error. *)
ReportError ==
  /\ Running /\ producer.pc \in {"report", "reportLast"}
  /\ main.phase \notin alarmed
  /\ alarmed' = alarmed \cup {main.phase}
  /\ producer' = [producer EXCEPT
       !.pc = IF @ = "report" THEN "scan" ELSE "close"]
  /\ UNCHANGED <<database, main, scanned, status, files>>

(* Mutant: without the deferred call the stream is never closed. *)
CloseErrorsOnly ==
  /\ Running /\ producer.pc = "close"
  /\ producer' = NotStarted
  /\ UNCHANGED <<database, main, scanned, alarmed, status, files>>

(* The deferred calls: the errors are closed, then the stream. *)
Close ==
  /\ Running /\ producer.pc = "close"
  /\ producer' = [producer EXCEPT !.pc = "closed"]
  /\ UNCHANGED <<database, main, scanned, alarmed, status, files>>

Enumeration ==
  \/ \E u \in Records : ScanRow(u)
  \/ ScanEnds \/ ScanFails \/ ReportError \/ Close
-----------------------------------------------------------------------------
(* handleErrors: it ranges over the errors, and does not come to a second.  *)
(* When there is none it says "No errors detected" and ends.                *)

(* Mutant: the handler returns after the error, and receives no other. *)
HandlerReturns(p) == FALSE

LogFatal(p) ==
  /\ Running /\ p \in alarmed
  /\ Exit
-----------------------------------------------------------------------------
(* The web frontend and member_creator. *)

Change(u, now) ==
  /\ Running
  /\ rows' = [rows EXCEPT ![u] = now]
  /\ past' = [past EXCEPT ![u] = Append(@, rows[u])]
  /\ UNCHANGED process

Move(u, from, to) ==
  /\ <<from, "listed">> \in rows[u]
  /\ Change(u, (rows[u] \ {<<from, "listed">>}) \cup {<<to, "listed">>})

MoveApplicantToNewMember(u) == Move(u, "application", "membership_queue")
MoveApplicantToTrash(u) == Move(u, "application", "membership_archive")
MoveQueuedRecordToTrash(u) == Move(u, "membership_queue", "membership_archive")

(* The key in the dequeue is a time-based UUID without the prefix. *)
MoveMemberToTrash(u) ==
  /\ <<"members", "listed">> \in rows[u]
  /\ \E kind \in {"broken", "hidden"} :
       Change(u, (rows[u] \ {<<"members", "listed">>})
                   \cup {<<"membership_dequeue", kind>>})

(* A row without an e-mail column; the row of the queue is not deleted. *)
MoveNewMemberToFullMember(u) ==
  /\ <<"membership_queue", "listed">> \in rows[u]
  /\ <<"members", "hidden">> \notin rows[u]
  /\ Change(u, rows[u] \cup {<<"members", "hidden">>})

(* A key with a part of the UUID; the row of the dequeue is not deleted. *)
MoveDeletedMemberToArchive(u) ==
  /\ <<"membership_dequeue", "listed">> \in rows[u]
  /\ <<"membership_archive", "broken">> \notin rows[u]
  /\ Change(u, rows[u] \cup {<<"membership_archive", "broken">>})

Others(u) ==
  \/ MoveApplicantToNewMember(u) \/ MoveApplicantToTrash(u)
  \/ MoveQueuedRecordToTrash(u) \/ MoveMemberToTrash(u)
  \/ MoveNewMemberToFullMember(u) \/ MoveDeletedMemberToArchive(u)
-----------------------------------------------------------------------------
Next ==
  \/ Fail \/ Main \/ Enumeration
  \/ \E p \in Phases : LogFatal(p)
  \/ \E u \in Records : Others(u)

Spec == Init /\ [][Next]_vars

(* Goroutines that can go on do so, and every page of a query is answered   *)
(* or fails.                                                                *)
Fairness ==
  /\ WF_vars(Main) /\ WF_vars(Enumeration)
  /\ \A p \in Phases : WF_vars(LogFatal(p))

FairSpec == Spec /\ Fairness
-----------------------------------------------------------------------------
(* The types of the variables. *)
TypeOK ==
  /\ rows \in [Records -> SUBSET Rows]
  /\ past \in [Records -> Seq(SUBSET Rows)]
  /\ main \in [pc : {"open", "range"}, phase : Phases]
  /\ producer \in [pc : {"off", "scan", "send", "report", "reportLast",
                         "close", "closed"},
                   record : Records \cup {Nobody}]
  /\ scanned \subseteq Records
  /\ alarmed \subseteq Phases
  /\ status \in {"running", "failed", "done"}
  /\ files \in [Tables -> SUBSET Records]

FirstOf(u) == IF past[u] = << >> THEN rows[u] ELSE past[u][1]
Moved(u) == past[u] # << >>
Left(u) == <<"members", "listed">> \in FirstOf(u) \ rows[u]

(* The program has ended well, and no handler has an error to report. *)
Clean == status = "done" /\ alarmed = {}

(* Nobody who was in a list when the run started is missing from the files, *)
(* though records move from table to table all the time: they move to what  *)
(* is yet to be written down.  Except who has left, and who has moved while *)
(* a replica lags behind.                                                   *)
ToBeFound(u) ==
  /\ \E t \in Tables : <<t, "listed">> \in FirstOf(u)
  /\ ~ Left(u)
  /\ u \in Lagging => ~ Moved(u)

MovedAreFound ==
  Clean => \A u \in Records :
    ToBeFound(u) => \E t \in Tables : u \in files[t]

(* The records that have stayed where they were are in the file of their    *)
(* table, and in no other.                                                  *)
FilesFit ==
  Clean => \A u \in Records : ~ Moved(u) =>
    \A t \in Tables : u \in files[t] <=> <<t, "listed">> \in rows[u]

(* Nobody waits for a channel that nobody else uses, though the three        *)
(* goroutines of a phase end one after the other and the next phase starts   *)
(* others: who ranges over the stream is sent something or told its end, who *)
(* sends is heard by main, and an error finds a handler that still listens,  *)
(* or one that is about to end the program.                                  *)
NobodyIsStuck ==
  Running =>
    /\ main.pc = "range" => producer.pc # "off"
    /\ producer.pc \in {"scan", "send", "report", "reportLast", "close"}
         => main.pc = "range"
    /\ \A p \in alarmed : p <= main.phase

(* What the enumeration has still to do when it reads no more. *)
Remaining(pc) ==
  CASE pc = "closed" -> 0 [] pc = "close" -> 1 [] pc = "reportLast" -> 2
    [] pc = "scan" -> 3 [] pc \in {"send", "report"} -> 4 [] OTHER -> 5

(* No step of the run, whatever fails, takes it back: it ends, gets to a     *)
(* later phase, opens its file, reads one record more, or has less to do     *)
(* after that.  So with finitely many records it takes finitely many steps.  *)
Advances ==
  \/ status' # "running"
  \/ main'.phase > main.phase
  \/ main'.phase = main.phase /\ main.pc = "open" /\ main'.pc = "range"
  \/ /\ main' = main /\ main.pc = "range"
     /\ \/ scanned \subseteq scanned' /\ scanned' # scanned
        \/ scanned' = scanned /\ Remaining(producer'.pc) < Remaining(producer.pc)

NeverBack == [][UNCHANGED process \/ Advances]_vars

(* The run ends: nobody waits for ever for a channel. *)
BackupEnds == <>(status # "running")
=============================================================================
