# membersys: specifications and proofs

TLA+ specifications of membersys, the software that a makerspace keeps its
members with, checked by TLC on small instances and proved with TLAPS for all
instances. Every definition is translated from the Go code; `PROJECT.json`
names the lines of each.

## The system

| part | state it keeps | operations | interacts with |
|---|---|---|---|
| web frontend (`membersys/`) | none between requests; a goroutine per request | application form, lists, detail page, accept, reject, upload, cancel, edits, goodbye | the database, through `MembershipDB` (`db.go`) |
| Cassandra backend (`db/cassandra.go`) | column families `application`, `membership_queue`, `members`, `member_agreements`, `membership_dequeue`, `membership_archive` | the 25 methods of `MembershipDB` | quorum reads, logged batches |
| PostgreSQL backend (`db/pgsql.go`) | table `members` with a status, `membership_agreement_scans` | the same | single statements |
| `member_creator` | none; LDAP holds the accounts and groups | one run: make the accounts of queued members, remove those of departed ones | LDAP, the database, SMTP |
| `backup` | none | one run: write out everything there is | the streaming enumerations, over unbuffered channels |
| `member_list`, `member_remailer` | none | one run over the list of members | the database, SMTP |
| `rpc_server` | none | look up a member, check a password | the database |
| browser code (`html/js/`) | the page that is shown | sends the requests, some of them side by side | the web frontend |

What is hard here: the handlers run concurrently and share the database;
nearly every write is a read, a change in memory and an unconditional batch;
a batch may fail and yet have been executed, or be executed twice; a record is
kept in up to three copies; records move between tables; the two long-running
programs work on lists they have read before, while the frontend goes on
changing the tables; the lists are paged through while their rows come and go,
and the answers to two requests may arrive in the other order. The hazards are
listed line by line in `PROJECT.json`.

## Modules

`MemberEdits` models the editing of members on Cassandra. A handler
(`MemberFeeHandler`, `MemberTextFieldHandler`, ..., one action each) parses the
form and calls the database; `ReadRecord` is the quorum read, the decoding, the
checks and the change in memory; `WriteBack` is the batch and the answer.
`pb_data`, `columns` and `agreements` are the three copies of a record,
`dequeue` is what `MoveMemberToTrash` has inserted. `WriteFails` is an error
from `ExecuteBatch`: the batch was executed or was not, and the retry policy of
the session may execute it again; or it is executed later (`Postpone`, and then
`LateUpdate` or `LateTrash`). A late batch has the time at which it was sent,
so that a cell which was written or deleted since (`newer`) stays as it is, and
the others are set. `Crash` ends all requests.

`MemberRecords` is the promise: an edit changes its fields in the record as it
stands, a user name is given once, a departure takes the whole record along,
each in one step. `MemberEdits` implements it (`ImplementsRecords`) for the
members that one request at a time edits and whose batches are not late.

`MemberQueues` models the moves of a record between column families, as the
frontend starts them. `rows` says what rows a record has, by column family and
by what follows the prefix in the key: the 16 bytes of the UUID or its text.
`LookUp` is the read and its checks, `WriteBack` the batch of an INSERT and a
DELETE (or of the UPDATE of an upload). `IdForms` says what the clients send:
the lists give them text. As in `MemberEdits` a batch may be executed later
(`Postpone`, and then `LateBatch`), when of its rows those stay as they are
that were inserted or deleted since (`Overtake`).

`MemberLifecycle` is the promise: a record is in one place and moves in one
step, with its scan. `MemberQueues` implements it (`ImplementsLifecycle`) for
the records that one request at a time is about and whose batches are not late.

`Contended` in both modules is the set of members (records) that several
requests may be about at a time; `Delayed`, that of those whose batches may be
late. Members that are not contended are in `Sole`; members and records that are
neither are *quiet*. The code does nothing to keep requests apart, so what holds
of the others is what holds when the people who use the frontend keep out of
each other's way. `edits_address` shows what is lost when they do not; the
races of two requests are otherwise listed under "hazards", with a note. Of
contended members and records there are `CopiesAgree`, `NothingLost` and
`QueuedHasScan`. The contended ones are in the same model, so that the others
are shown not to suffer from them.

`MemberCreator` models `member_creator`, as a set of runs that are started now
and then and may overlap. `run` is the state of each: where it is (`pc`), the
list it works on (`requests`), the record it is busy with (`request`), the
groups it has still to change (`todo`), and `greatestUid`. There is one action
per network call, with all that the code does up to the next: `Search` and
`EnumerateQueued`; `AddAccount`, `AddToGroup`, `MoveNewMember` and `SendMail`
for each record of the queue; `EnumerateDequeued`, `SearchGroups`, `LeaveGroup`
or `DeleteAccount`, and `MoveDeletedMember` for each of the dequeue. A call that
can fail has an action `...Fails`, or a disjunct with `Fault`, after which the
program does what the code does: it goes on with the next record, or with the
next call in spite of the error. `Crash` is `log.Fatal`, or the end of the
program between any two calls. Rows are pairs of the form of their key and the
record, as the two moves that this program uses delete another key than the one
that was listed. The frontend takes its steps in between
(`MoveApplicantToNewMember`, `MoveQueuedRecordToTrash`, `MoveMemberToTrash`),
each as one step: `MemberQueues` and `MemberEdits` say how they come about.
`Administer` is someone else who changes LDAP groups. `welcomed`, `provisioned`
and `purged` are history: what the runs have done to whom, which no table
records.

`MemberAccounts` is the promise, without runs, lists and failures: an account is
made for somebody who has not left, with a number that nobody else has, and is
kept; who becomes a member has an account by then, or was processed without one;
the mail comes after that; an account is only taken from somebody who has left.
Each is one step. `MemberCreator` implements it (`ImplementsAccounts`): who has
left is who is in the dequeue and can be listed, the members are those who have
joined.

A dry run makes no connection to LDAP, but moves the records and sends the
mails all the same, and uses up numbers: `noop` is tested where the code does.

`Backup` models `backup`: `main`, which writes the five tables of Cassandra to
a file each, one after the other, and for each table the goroutine that
enumerates it and the one that handles its errors. The channels between them
are unbuffered, so that a send and its receive are one step (`WriteMessage`,
`ReportError`). `log.Fatal` ends the process with all its goroutines
(`LogFatal`, `Fail`), and nothing orders it with the end of `main`: a run may
end with status 0 before a handler has reported what it has received. The two
channels of an enumeration are closed in one step, and a handler that has had
nothing to report just ends. A table is scanned row by row in any order
(`ScanRow`), as records move between the tables (`Move` and its instances, the
statements of `moveRecordToTable` and the rest with the keys that they use). Of
a row there is its table and what the query makes of its key: it is `listed`,
`broken` (an error to the enumeration) or `hidden` (not selected). So a member
who joined by `member_creator` is missing from the members without an error, as
that row has no e-mail column, and everybody who is archived from the dequeue
makes the backup fail from then on, as that key is no UUID. The scan is of one
replica, which may have any former rows of the records in `Lagging`. `past` is
history: what rows each record has had.

`MemberLists` models paging: the lists of the administration page and the
program `member_list`. A row is the place of its key in the order of the table.
`IsPage` is the query of `EnumerateMembers` and its like, on a replica that may
or may not know of each row that has come or gone. Several requests may be under
way; `Answer`, `RequestFails` and `Show` take them in any order, and `Show` does
what `loadMembers` and the like do with the rows, the arrows and the place where
"next" goes on. `TakeOut` removes a row after its record was moved. An arrow
that is disabled can still be clicked (it is a style class), and an empty page
leaves the arrows as they were. What the code does wrong there is in the
constants, so that the rest can be told apart from it: `After` is what the id
stands for that the script gives to a row (for members, an address with its
first `@` and `.` replaced), `Loads` the list that "next" loads (for the
dequeue, the queue), `Listable` the rows that are not skipped after `LIMIT` has
counted them. A list is `Sound` when none of these is wrong for it. Whether it
is so depends on the data: the members are sound when the replacement keeps the
order of their addresses, the applications and the archive when all of their
keys are UUIDs; the queue and the dequeue are not. The page is opened with rows
that the template has drawn, whose ids are the keys themselves, and with a
request for the first members under way (`load()`); the rows that an answer
brings are `drawn` by the script, and only from them "next" starts at `After`
(`AfterRow`). `steady` and `unseen` are history: who was there the whole time,
and has not been shown. `FetchPage` and `PrintMember` are the two loops of
`member_list`.

`ApplicationForm` models the form of one applicant, in the browser
(`html/form.html` and its scripts) and in `FormInputHandler`. Nothing is kept
between requests, so that a request and its answer are one step: `Refuse`,
`Accept`, `StoreFails` (with or without a record) or `AnswerLost`. After the
last two the applicant may send the form again, and there are two applications.
The form that is shown again is what the template makes of it (`Rendered`):
`FeeYearly` is a pointer that is set, so the yearly period is checked whatever
had been chosen, the other choice of the fee is selected with the amount of the
record, and consents and passwords are blank. Amounts are in centimes, as the
code compares them as floating point numbers and stores them as integers
(`Whole`); whatever is beyond the range of an integer becomes one of the two
values that processors make of it. A missing name, address, city, zip code or
country is noted as an error and the application is stored all the same, which
the model does too (`missing` of an application).

`MCMemberEdits`, `MCMemberQueues`, `MCMemberCreator`, `MCBackup`,
`MCMemberLists` and `MCApplicationForm` give TLC their values.
`MemberEditsProofs`, `MemberQueuesProofs`, `MemberCreatorProofs`,
`BackupProofs`, `MemberListsProofs` and `ApplicationFormProofs` hold the
theorems.

## What is checked

| run | shows |
|---|---|
| `edits_quiet` | a member whose batches may be late, or one who is quiet, three requests, one repetition of a batch: no acknowledged edit is lost and the encoded copies agree, late batches or not; of the quiet one list and detail page agree, the departure is final and the user name is given once, and it is as `MemberRecords` promises |
| `edits_refused` | *violated*: "Not a boolean" is answered, and the fee changed |
| `edits_address` | *violated*: the page sends the edits of an address side by side, and one undoes another that was acknowledged |
| `queues_quiet` | a quiet record, and a contended one whose batches may be late, four requests: no record is lost, or queued without a scan; the quiet one is in one place and keeps its scan; implements `MemberLifecycle` |
| `queues_listed_is_found` | *violated*: the id that a list shows finds no row |
| `creator_single` | two named records, one run at a time, a failure or crash, somebody whose groups are changed: no uidNumber is given twice; archived means purged, unless the removal itself failed; nobody in another group loses the account; who can be listed is archived in the end; who is queued, with no account of that name in the way, becomes a member or is cancelled unless something fails meanwhile; no run does anything over again; implements `MemberAccounts` |
| `creator_overlap` | two runs at a time and a failure, two groups of new members: who became a member has an account; nobody else is welcomed; nobody on the list of a run is passed over by it |
| `creator_departed_purged` | *violated*: who departs in the frontend is never listed |
| `backup` | two records that move all the time, one of which a replica may get late: what was listed when the run began is in the files of a run that ends well and had no error; records that stay are in the file of their table only; nobody waits for a channel that nobody else uses; no step takes the run back; the run ends |
| `lists` | three keys, pages of two, two requests: the end of a sound list is shown only when everybody who stayed was shown; `member_list` prints everybody who stays, in order, nobody twice, and ends |
| `lists_end` | *violated*: from rows that the script has drawn, "next" starts at what the id made of the address stands for, and passes over a member |
| `form` | two consents, a text, amounts around the least fees and the limit of an integer: the form never offers a fee that the handler does not know; no application without a reduction is stored below the least fee |

The properties hold under conditions, and each condition is needed; the last
column says what happens without it:

| property | condition | without it |
|---|---|---|
| `SoleEditsDurable`, `QuietUsernameKept`, `QuietGoodbyeFinal`, `QuietScanKept`, `QuietOnePlace` | one request at a time about a record | edits undo each other (`edits_address` is one way to get there from the page alone), a user name is given twice, an edit makes the row of a departed member again, an acknowledged scan stays behind, a record that is accepted and rejected at once is in two tables |
| `QuietListShowsDetail`, `QuietGoodbyeFinal`, `QuietUsernameKept`, `ImplementsRecords` | no batch of the member is late | the columns of a late batch are set beside a newer `pb_data` that does not have them, and the list keeps showing them until the same field is edited again; a departure that comes late puts the member into the dequeue, perhaps a second time, and leaves the cells of the row that were written since; a user name that is set late is undone by a request that had read the record before |
| `QuietOnePlace`, `QuietScanKept`, `ImplementsLifecycle` | no batch of the record is late | an application whose acceptance comes late, after it was rejected, is in the queue and in the archive; one whose upload was acknowledged while its acceptance was late is in both tables, in one of them with the old scan |
| `UidNumbersDistinct`, `ImplementsAccounts` | runs do not overlap (`Runs = {r1}`); in the theorems, no two runs make accounts between the search and the end of the queue at the same time (`OneCounts`), and for `ImplementsAccounts` no two records have the same name | two runs start above the same number; one run removes the account, for somebody of the same name who has left, before the other run moves its owner to the members |
| `MembersHaveAccounts` | no two records have the same name | a row of the dequeue, which is never deleted, removes the account of the next member who is given the name |
| `ArchivedArePurged` | the calls that remove the account did not fail (`failed`), an ASCII name, groups that nobody else changes (names that are not in `Administered`); in the theorem, no two records with the same name | an error of `ld.Del` is only logged; a group keeps the name that `asciiFilter` has not been applied to |
| `OthersKept` | groups that nobody else changes between the search and the deletion | a user who is added to another group in between loses the account |
| `JoiningFinishes` | no account of the same name is in the way, and nothing fails until the move | after a crash behind `ld.Add`, no run gets past the account, and the record stays in the queue |
| `NobodyPassedOver` | no account of the same name is there when the run comes to make one, and no call fails at that step | the request is skipped |
| `MovedAreFound`, `FilesFit` | no error is left to be reported when the program ends (`Clean`); for who moves, replicas that are up to date; whoever leaves meanwhile is in no list | `main` may end before a handler has called `log.Fatal`; the row is seen in neither table |
| `EndSeesAll`, `PrintedInOrder`, `PrintsAll` | pages come in the order of the keys (see the assumptions) | a page begins anywhere, and nothing can be said of what was passed over |
| `EndSeesAll` | the list is `Sound` | `lists_end`; the end of a page of which rows were skipped is taken for the end of the list; the dequeue has no second page |

Bounds. Two handlers are enough for any interference of two requests; a third
only adds more of the same, as every write is unconditional. Three requests
(`MaxRequests`) allow a record to be edited, moved and edited in a failed state,
and a batch to be late for one answered request and then the next (four for the
records of `queues_quiet`, so that a late move may meet two others); one
repetition (`MaxRetries`) is enough for a batch to be executed twice. Two data
values let old and new be told apart. The text fields are `name` and `username`:
the others are treated like `name`. A request for `email`, which no function
knows, stands for any field that is unknown. One batch of a member is late at a
time. In `edits_quiet` one of the two members has a row at a time (`OneMember`),
as nothing relates the rows of two, and handlers are interchangeable
(`Symmetry`). Deadlock is not checked: when all requests have been served the
system may stop. `edits_quiet` has no contended member: what interference may
not break, `CopiesAgree`, is proved for any number of them
(`CopiesAlwaysAgree`).

Of `member_creator`, two records with a user name are enough for one to meet
another's account, number or name, and two runs for any interference of two; one
of the names has characters that `asciiFilter` drops. `MaxFaults` is the number
of failures and crashes in a behaviour: one at any place is enough for each step
to be missing, or done and reported as failed; the proofs are for any number.
`MaxUid` leaves room for every number a run of that many records can use up; no
run of a checked instance gets there, or `JoiningFinishes` would fail.
`creator_single` has one group of new members, in which somebody is and another
one is not; that several are left one by one is part of the proof of
`ArchivedArePurged`.

Of `backup`, one record that lags and one that does not are enough, as the rows
of one record have no influence on those of another: what they share is the
iterator and the errors. `FirstRows` has a row of each kind that the run can
tell apart. Moves are bounded by the tables: nothing ever moves back. Deadlock
is not checked, as the system stops when the process has ended. Three keys and
pages of two give a full page, a short one and an empty one, and rows that come
or go before, in and behind the one shown; two requests are enough for an older
answer to arrive after a newer one. The form has one text and two consents, as
all of them are treated alike, amounts just below, at and above each limit, and
`FeeLimit` 1024 for 2^64: what counts is that it is more than twice the least
fees. `MaxStored` bounds the applications that one applicant leaves behind;
sending the form again once the first is stored is in the model, and storing a
second one is what the bound cuts off, as no property is about two.

Fairness. No liveness is claimed of requests: they may be cut off at any time,
and `MemberEdits` and `MemberQueues` state safety only. `MemberCreator` has
`FairSpec`: a run that is under way goes on (weak fairness of `Step`; the
database calls have a timeout, LDAP and SMTP are taken to answer or to break
the connection), and the program is started again and again, not dry (strong
fairness of `Begin(r, FALSE)`, as dry runs may be started in between). Both are
what an entry in a crontab gives. Nothing is assumed of the frontend.
`Backup` has weak fairness of `main`, of the enumeration and of each handler of
errors: the Go scheduler runs every goroutine that can go on, and each page of
a query is answered or fails by its timeout. `MemberLists` has weak fairness of
the two steps of `member_list`, and none of the browser: nobody has to click.
`ApplicationForm` states safety only.

## What is proved

For any sets of members, handlers, values and fields, any number of requests
and repetitions:

* `MemberEditsProofs`: types, `CopiesAgree` for all members, `EditsDurable` for
  those that one request at a time edits, and for quiet ones `ListShowsDetail`,
  `GoodbyeFinal`, `UsernameKept` and the refinement of `MemberRecords`. The
  inductive invariant `IInv` adds to these that no two requests are under way
  for a quiet member (`OneAtATime`), that a request that is about to write holds
  the record as it is now with its own change (`WriteIsCurrent`: this is what
  interference breaks, and what a repeated batch keeps, as applying a change
  twice is applying it once), and that a request changes only the fields of its
  operation (`RequestShape`). For the late batches it adds that whatever
  overtakes one in `agreements` does so in `pb_data` (`LateFits`), and that the
  record which is about to be written, or will be late, has every acknowledged
  edit unless a newer one is in its way (`WriteIsDurable`, `LateIsDurable`): a
  request that has read an older record than the late batch leaves knows nothing
  of what that batch changes, and neither does any client.
* `MemberQueuesProofs`: types, `NothingLost` and `QueuedHasScan` for all
  records, and for quiet ones `OnePlace`, `ScanKept` and the refinement of
  `MemberLifecycle`. The invariant adds `OneAtATime`, that the row which was
  read is still there and unchanged at the write (`WriteIsCurrent`), and that a
  request to accept, or a late batch of one, holds a scan (`WriteShape`,
  `LateShape`). That no late move deletes the last row needs `LateFits`: when
  the row that it inserts was written since, that row is there, or the record
  has got to the archive under the same form of the key. Moves only go towards
  the archive, and nothing is deleted from there.
* `MemberCreatorProofs`, for any number of runs, records, groups, failures and
  crashes: types; `UidNumbersDistinct` if no two runs make accounts at the same
  time (`OneCounts`; a single run at a time is a corollary, but runs that
  overlap in the dequeue, or are dry, do no harm); `MembersHaveAccounts` if no
  two records have the same name after `asciiFilter` (`DistinctUids`), and
  `ArchivedArePurged` under the same condition; `WelcomedAreMembers`;
  `OthersKept`. The numbers need that a run is above all of them from its search
  to the end of the queue (`UidInv`); the accounts, that whoever is being
  removed is in the dequeue and whoever joins is not (`PlacesInv`), and that a
  run which is about to move a record has made its account (`AccountsInv`); the
  groups, that the search is still true when the account is deleted
  (`OthersInv`); the purge, what each run has already removed of the record it
  is busy with, so that nobody gives it back while the record is in the dequeue
  (`PurgedInv`). The first part of the module says, action by action, what
  becomes of a run, so that the steps of the invariants need no more than that.
  The refinement of `MemberAccounts`, under the two conditions together, goes
  action by action: what is not an account, a row or a mail is not seen
  (`UnseenStutters`); the number of a new account is new by `UidInv`
  (`AccountAppears`); who joins has one by `AccountsInv` (`JoinedJoins`); the
  list of the dequeue, from which accounts are removed, never changes, by
  `PlacesInv`. Only the conditions are assumed of a behaviour, not the failures
  it has. `RunsAdvance` and `NobodyPassedOver` hold of any number of runs at a
  time: a step of a run leaves it less to do, in the order of listings,
  requests, calls and groups, and a record that the run is done with is a member
  or archived, unless a call failed at that step or an account of that name was
  there before the run came to make one. The latter needs that a run is busy
  with nobody between two requests (`LoopInv`) and that who is about to be sent
  a mail is a member (`WelcomedInv`). The two are what `DepartedArchived` and
  `JoiningFinishes` rest on besides the fairness: a run with finitely many
  records ends, and one without failures has then done its work.
* `BackupProofs`, for any records, any of which may lag behind, and any rows at
  the start: types; `MovedAreFound` and `FilesFit`. The invariant says that who
  is to be found is written down, or is listed in a table that is yet to be read
  (`Progress`, which needs the order of the tables: every move goes to a later
  one), that who has stayed is written where he is (`NotElsewhere`,
  `NotMissed`), that the files to come are empty (`FilesToCome`), and where the
  two goroutines can be at a time (`InStep`). `NobodyIsStuck` follows from the
  last and from `Served`: while `main` ranges over a stream there is an
  enumeration, and no error is with a handler of a later phase. `NeverBack` says
  of every step of the process that it ends the run, opens the next file, reads
  another record or leaves the enumeration less to do. There are five tables, so
  with finitely many records a run takes finitely many steps and never waits in
  vain: this is `BackupEnds` but for the fairness, which stays with TLC.
* `MemberListsProofs`, for any lists, keys, page sizes and numbers of requests:
  types; `EndSeesAll`, `PrintedInOrder` and `PrintsAll`. The invariant is that
  whatever a request may start from is after nobody unseen: the rows shown, the
  offset, the start of each request under way (`StartsFit`, `RequestFits`),
  which is why it does not matter which answer comes first; for `member_list`,
  that who was there all the time is printed, on the page or behind it
  (`PrinterFits`).
* `ApplicationFormProofs`, for any amounts, least fees and range of integers
  that has room for twice the least fee: types, `OfferedFeeIsKnown` and
  `StoredFeeFits`, which are inductive as they stand. That the fee is cut off
  after it was compared is the lemma `WholeFits`: an amount that is no less than
  a whole number of francs is no less when its centimes are gone.

The assumptions are those on the constants (`EditsAssumption`,
`QueuesAssumption`, `CreatorAssumption`, `BackupAssumption`,
`ListsAssumption`, `FormAssumption`): the special values are no data,
`username` is a text field, records of an earlier release have an e-mail
address, what `asciiFilter` has filtered it leaves alone.

A step that changes several fields of one element of a function is written
with one `EXCEPT` inside another: the prover reads two changes at the same
index in one `EXCEPT` as contradictory.

Only model-checked: the violations, which are properties of small instances,
and liveness, which is out of the prover's reach (`DepartedArchived`,
`JoiningFinishes`, `BackupEnds`, `PrinterEnds`).

## Assumptions about what is not in the repository

* A logged batch is executed whole or not at all. One whose answer was lost may
  be executed at any later time: in `MemberEdits` and `MemberQueues` for those
  in `Delayed`; elsewhere it takes effect before the next request about the same
  record reads it, or never.
* The write timestamp of a batch is the time at which it was sent, each time
  that it is sent, and the clocks of the frontends agree: a batch that is sent
  after another was answered has the later time.
* A read sees the last batch. The quorum reads of the code do; the reads of
  `StoreMembershipAgreement` and of the lists ask one replica, and the schema
  that comes with the code has one.
* The tables have the columns that the statements name.
* The rows that `member_creator` can list, whose keys end in the 16 bytes of a
  UUID, were put there by an earlier release (the `INSERT` of
  `StoreMembershipRequest` names no key and has 14 markers for 15 columns, so
  that it fails), or in the queue by a request with such a key; in the dequeue
  `MoveMemberToTrash` writes other keys.
* Members of an earlier release with a user name have an account and are in the
  groups of new members.
* What `asciiFilter` leaves of a user name is not empty. An LDAP search for no
  name finds nothing, and the entry of no name cannot be deleted.
* Every record has an e-mail address of its own, which is its key in `members`.
* No other program adds or deletes accounts.
* `gocql.NewBatch` makes a batch without a retry policy, and `sess.NewBatch` one
  with that of the session.
* The tables are kept in the order of their keys (an ordered partitioner): the
  queries compare keys and limit the number of rows (`key > ? LIMIT ?`,
  `cassandra.go:633-645` and the like), and only then is each page what follows
  the one before. `EndSeesAll`, `PrintedInOrder` and `PrintsAll`, and their
  theorems, rest on that (`IsPage`); with a partitioner that hashes keys,
  Cassandra refuses such queries or answers in another order.
* The record of a request is decoded as it was encoded. A field that is not set
  and a field that is empty are the same (`NoValue`): no handler stores an empty
  value.

* A query of a page, or of a member by its key, reads one replica; that replica
  has the rows of all that was not changed. `Backup` and `MemberLists` let it be
  behind for what was.
* A browser sends of the field of the fee what a number field (`type="number"`)
  gives, or text that is no number. The service that stores an application is
  the interface `MembershipDB`: `StoreMembershipRequest` of the Cassandra
  backend adds no row.

## Not modelled

* The PostgreSQL backend. Every statement with a parameter writes it as `?`,
  which PostgreSQL does not know, so that each call of it ends with a syntax
  error; the collectors select with a `default` and return at once, and the
  enumeration without a start passes a nil row to `Scan`. A model of it would
  be one of calls that fail; it becomes worthwhile once the statements are
  mended. It would then be a second implementation of `MemberLifecycle`.
* Authentication, authorisation and the CSRF tokens; the rendering of pages; the
  filters by name in the lists and the look-up of one application by its id,
  which have no next page.
* The RPC service, the takeout, bar codes, set-up of the web server, the choice
  of the backend and the schema tools: they read, render or wire up, and keep no
  state. `member_remailer` and the templates of the mail are left out for the
  same reason.
* Of the hazards in `PROJECT.json`, those without a property are ones that the
  code does nothing about, so that every property which forbids them fails at
  once; the note of each says so, and what is stated of the rest.
* Late batches of the two moves of `member_creator` and of the other moves of
  `Backup`, which are steps there.

Rows that an earlier release has left are decodable or are not
(`Undecodable`, `broken`).

## Plan

`MemberEdits`, `MemberQueues` and `MemberCreator` are the core; `Backup`,
`MemberLists` and `ApplicationForm` are the programs and pages around it. What
is left, in this order:

1. The moves of `Backup` as an instance of `MemberLifecycle`, so that the two
   pictures of the way of a record are compared with each other.
2. The PostgreSQL backend, if its statements are mended.
