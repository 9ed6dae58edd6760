---------------------------- MODULE MemberCreator ----------------------------
(***************************************************************************)
(* member_creator (member_creator/member_creator.go): a batch program that   *)
(* is started now and then, makes LDAP accounts for the records of           *)
(* membership_queue and removes those of membership_dequeue.  It lists a     *)
(* table, then works on the list, one network call after the other, while    *)
(* the web frontend goes on moving records; any call may fail, or seem to,   *)
(* and the program may die between any two.                                  *)
(*                                                                          *)
(* The frontend takes single steps here: MemberQueues and MemberEdits say    *)
(* how they come about.  A row is <<form, u>>: what follows the prefix of    *)
(* the key is the 16 bytes of the UUID ("raw"), its text, or the "tail" of   *)
(* that; the keys of MoveMemberToTrash are "bare", without a prefix.  Only   *)
(* raw rows can be listed.                                                   *)
(***************************************************************************)
EXTENDS Naturals

CONSTANTS
  Uuids,         \* the records
  Runs,          \* the runs that may be under way at a time
  Names,         \* user names
  Username,      \* that of each record
  Ascii,         \* asciiFilter, on Names
  NoName,        \* the user name of a record without one
  Nobody,        \* not a record
  NewGroups,     \* new_user_group of the configuration
  IgnoreGroups,  \* ignore_user_group
  OtherGroups,   \* the other groups in LDAP
  Administered,  \* the names whose OtherGroups change while a run is under way
  MinUid,        \* where uidNumbers start: 1000
  MaxUid,        \* bound: the highest uidNumber there can be
  UsedUids,      \* the uidNumbers that are in use at the start
  MaxFaults      \* bound: how often something fails

LdapNames == {Ascii[n] : n \in Names}  \* asciiFilter drops the other characters
Groups == NewGroups \cup IgnoreGroups \cup OtherGroups
NoAccount == 0

ASSUME CreatorAssumption ==
  /\ Username \in [Uuids -> Names \cup {NoName}]
  /\ Ascii \in [Names -> Names]
  /\ \A n \in Names : Ascii[Ascii[n]] = Ascii[n]
  /\ NoName \notin Names
  /\ Nobody \notin Uuids
  /\ Administered \subseteq LdapNames
  /\ OtherGroups \cap (NewGroups \cup IgnoreGroups) = {}
  /\ MinUid \in Nat \ {0} /\ MaxUid \in Nat /\ MaxFaults \in Nat
  /\ MinUid <= MaxUid
  /\ UsedUids \subseteq MinUid .. MaxUid

VARIABLES
  application, queue, dequeue, archive,  \* the rows of the column families
  members,   \* who is in members: "no", of an "old" release, or "joined" by a run
  account,   \* LDAP: the uidNumber of each name
  groups,    \* LDAP: the memberUid values of each group
  run,       \* the state of each run
  faults,    \* how often something has failed
  welcomed,  \* history: who has got a welcome mail
  provisioned, purged,  \* history: who was moved by a run that was not dry
  failed     \* history: whose removal from LDAP has once reported an error

tables == <<application, queue, dequeue, archive, members>>
ldap == <<account, groups>>
history == <<welcomed, provisioned, purged, failed>>
vars == <<tables, ldap, run, faults, history>>

Rows == {"raw", "text", "tail", "bare"} \X Uuids

(* As what a record has in LDAP, whatever it is called in the database. *)
Uid(u) == Ascii[Username[u]]
Named(u) == Username[u] # NoName

Idle == [pc |-> "idle", noop |-> FALSE, greatestUid |-> MinUid, requests |-> {},
         request |-> Nobody, todo |-> {}]

Places == {"idle", "search", "list", "join", "joining", "mail", "part", "delete",
           "parting"}

RunStates ==
  [pc: Places, noop: BOOLEAN, greatestUid: MinUid .. MaxUid,
   requests: SUBSET Uuids, request: Uuids \cup {Nobody}, todo: SUBSET NewGroups]

At(r, pc) == run[r].pc = pc

(* The accounts there are have different numbers. Members of an earlier     *)
(* release with a user name have an account and are in the groups of new    *)
(* members, where this program has put them; so may be those who have left. *)
Init ==
  /\ \E place \in [Uuids -> {"application", "queue", "dequeue", "members"}] :
       /\ application = {<<"raw", u>> : u \in {v \in Uuids : place[v] = "application"}}
       /\ queue = {<<"raw", u>> : u \in {v \in Uuids : place[v] = "queue"}}
       /\ dequeue = {<<"raw", u>> : u \in {v \in Uuids : place[v] = "dequeue"}}
       /\ members = [u \in Uuids |-> IF place[u] = "members" THEN "old" ELSE "no"]
       /\ \E others \in [Groups \ NewGroups -> SUBSET LdapNames] :
            groups = [g \in Groups |->
                        IF g \notin NewGroups THEN others[g]
                        ELSE {Username[u] : u \in {v \in Uuids :
                                Named(v) /\ place[v] \in {"dequeue", "members"}}}]
  /\ archive = {}
  /\ account \in [LdapNames -> {NoAccount} \cup UsedUids]
  /\ \A m, n \in LdapNames : m # n /\ account[m] # NoAccount => account[m] # account[n]
  /\ \A u \in Uuids : Named(u) /\ members[u] = "old" => account[Uid(u)] # NoAccount
  /\ run = [r \in Runs |-> Idle]
  /\ faults = 0
  /\ welcomed = {} /\ provisioned = {} /\ purged = {} /\ failed = {}
-----------------------------------------------------------------------------
(* The start of a run. *)

(* A dry run does not connect to LDAP. *)
Begin(r, noop) ==
  /\ run[r] = Idle
  /\ run' = [run EXCEPT ![r] =
               [@ EXCEPT !.pc = IF noop THEN "list" ELSE "search", !.noop = noop]]
  /\ UNCHANGED <<tables, ldap, faults, history>>

(* Mutant: the numbers start at the lowest. *)
LowestUid(uid) == \A n \in LdapNames : account[n] # NoAccount => uid <= account[n]

(* The highest uidNumber of a posixAccount, or MinUid. *)
HighestUid(uid) ==
  /\ uid = MinUid \/ \E n \in LdapNames : uid = account[n]
  /\ \A n \in LdapNames : account[n] <= uid

Search(r) ==
  /\ At(r, "search")
  /\ \E uid \in MinUid .. MaxUid :
       /\ HighestUid(uid)
       /\ run' = [run EXCEPT ![r] = [@ EXCEPT !.pc = "list", !.greatestUid = uid]]
  /\ UNCHANGED <<tables, ldap, faults, history>>

Listed(rows) == {u \in Uuids : <<"raw", u>> \in rows}

EnumerateQueued(r) ==
  /\ At(r, "list")
  /\ run' = [run EXCEPT ![r] = [@ EXCEPT !.pc = "join", !.requests = Listed(queue)]]
  /\ UNCHANGED <<tables, ldap, faults, history>>

(* What a call that fails has done: all of it, in spite of the error, or    *)
(* nothing.                                                                 *)
Fault == faults < MaxFaults /\ faults' = faults + 1

(* The loops take a request and have still to do the calls of todo. *)
Take(r, u, pc, todo) ==
  /\ u \in run[r].requests
  /\ run' = [run EXCEPT ![r] =
               [run[r] EXCEPT !.pc = pc, !.requests = @ \ {u}, !.request = u,
                              !.todo = todo]]

(* The loop goes on. *)
Continue(r, pc) ==
  run' = [run EXCEPT ![r] = [@ EXCEPT !.pc = pc, !.request = Nobody, !.todo = {}]]
-----------------------------------------------------------------------------
(* The loop over the queue: account, groups, members, mail. *)

NextUid(r) == run[r].greatestUid + 1

(* A record with a user name: the number is used up, whatever comes of it. *)
TakeNamed(r, u, pc, request, todo) ==
  /\ At(r, "join")
  /\ u \in run[r].requests
  /\ Named(u) /\ NextUid(r) <= MaxUid
  /\ run' = [run EXCEPT ![r] =
               [run[r] EXCEPT !.pc = pc, !.requests = @ \ {u}, !.request = request,
                              !.todo = todo, !.greatestUid = NextUid(r)]]

(* A dry run makes no account; without a user name there is none to make. *)
WithoutAccount(r, u) ==
  /\ \/ At(r, "join") /\ ~ Named(u) /\ Take(r, u, "joining", {})
     \/ run[r].noop /\ TakeNamed(r, u, "joining", u, {})
  /\ UNCHANGED <<tables, ldap, faults, history>>

AddAccount(r, u) ==
  /\ ~ run[r].noop
  /\ TakeNamed(r, u, "joining", u, NewGroups)
  /\ account[Uid(u)] = NoAccount
  /\ account' = [account EXCEPT ![Uid(u)] = NextUid(r)]
  /\ UNCHANGED <<tables, groups, faults, history>>

(* Mutant: after the error the program goes on with the same request. *)
AddAccountFailsUnnoticed(r, u) ==
  /\ ~ run[r].noop
  /\ TakeNamed(r, u, "joining", u, NewGroups)
  /\ Fault
  /\ UNCHANGED <<tables, ldap, history>>

(* Mutant: an account that cannot be made ends the program. *)
AddAccountFailsFatally(r, u) ==
  /\ ~ run[r].noop
  /\ At(r, "join") /\ u \in run[r].requests /\ Named(u)
  /\ account[Uid(u)] # NoAccount
  /\ run' = [run EXCEPT ![r] = Idle]
  /\ UNCHANGED <<tables, ldap, faults, history>>

(* Mutant: an account that cannot be made is tried again with another       *)
(* number.                                                                   *)
AddAccountFailsAndRetries(r, u) ==
  /\ ~ run[r].noop
  /\ At(r, "join") /\ u \in run[r].requests
  /\ Named(u) /\ NextUid(r) <= MaxUid
  /\ account[Uid(u)] # NoAccount
  /\ run' = [run EXCEPT ![r].greatestUid = NextUid(r)]
  /\ UNCHANGED <<tables, ldap, faults, history>>

(* "Unable to create LDAP Account": there is one, or the call fails. *)
AddAccountFails(r, u) ==
  /\ ~ run[r].noop
  /\ TakeNamed(r, u, "join", Nobody, {})
  /\ \/ account[Uid(u)] # NoAccount /\ UNCHANGED <<account, faults>>
     \/ /\ Fault
        /\ \/ UNCHANGED account
           \/ /\ account[Uid(u)] = NoAccount
              /\ account' = [account EXCEPT ![Uid(u)] = NextUid(r)]
  /\ UNCHANGED <<tables, groups, history>>

(* The user name as it is, not what asciiFilter makes of it. An error, also *)
(* that it is there, is only logged.                                        *)
AddToGroup(r) ==
  /\ At(r, "joining")
  /\ \E g \in run[r].todo :
       /\ run' = [run EXCEPT ![r].todo = @ \ {g}]
       /\ \/ /\ groups' = [groups EXCEPT ![g] = @ \cup {Username[run[r].request]}]
             /\ UNCHANGED faults
          \/ Fault /\ UNCHANGED groups
  /\ UNCHANGED <<tables, account, history>>

(* MoveNewMemberToFullMember deletes the text key of a row that was listed  *)
(* because it has the other one.                                            *)
JoinBatch(u) ==
  /\ members' = [members EXCEPT ![u] = "joined"]
  /\ queue' = queue \ {<<"text", u>>}

Joined(r) ==
  /\ JoinBatch(run[r].request)
  /\ provisioned' = IF run[r].noop \/ ~ Named(run[r].request) THEN provisioned
                    ELSE provisioned \cup {run[r].request}

(* Mutant: the request is done with before its mail is sent. *)
MoveNewMemberTooSoon(r) ==
  /\ At(r, "joining") /\ run[r].todo = {}
  /\ Joined(r)
  /\ Continue(r, "mail")
  /\ UNCHANGED <<application, dequeue, archive, ldap, faults, welcomed, purged, failed>>

(* Mutant: who has an account now is taken for done.                        *)
MoveNewMemberSkipsNamed(r) ==
  /\ At(r, "joining") /\ run[r].todo = {}
  /\ IF Named(run[r].request)
     THEN Continue(r, "join") /\ UNCHANGED <<members, queue, provisioned>>
     ELSE Joined(r) /\ run' = [run EXCEPT ![r].pc = "mail"]
  /\ UNCHANGED <<application, dequeue, archive, ldap, faults, welcomed, purged, failed>>

MoveNewMember(r) ==
  /\ At(r, "joining") /\ run[r].todo = {}
  /\ Joined(r)
  /\ run' = [run EXCEPT ![r].pc = "mail"]
  /\ UNCHANGED <<application, dequeue, archive, ldap, faults, welcomed, purged, failed>>

(* Mutant: the mail is sent after an error as well. *)
MoveNewMemberFailsUnnoticed(r) ==
  /\ At(r, "joining") /\ run[r].todo = {}
  /\ Fault
  /\ UNCHANGED <<members, queue, provisioned>> \/ Joined(r)
  /\ run' = [run EXCEPT ![r].pc = "mail"]
  /\ UNCHANGED <<application, dequeue, archive, ldap, welcomed, purged, failed>>

MoveNewMemberFails(r) ==
  /\ At(r, "joining") /\ run[r].todo = {}
  /\ Fault
  /\ UNCHANGED <<members, queue, provisioned>> \/ Joined(r)
  /\ Continue(r, "join")
  /\ UNCHANGED <<application, dequeue, archive, ldap, welcomed, purged, failed>>

(* A mail that cannot be sent, or without an SMTP server, is not missed. *)
SendMail(r) ==
  /\ At(r, "mail")
  /\ welcomed' \in {welcomed, welcomed \cup {run[r].request}}
  /\ Continue(r, "join")
  /\ UNCHANGED <<tables, ldap, faults, provisioned, purged, failed>>
-----------------------------------------------------------------------------
(* The loop over the dequeue: groups or account, archive. *)

(* Mutant: the queue is listed a second time. *)
EnumerateQueuedAgain(r) ==
  /\ At(r, "join") /\ run[r].requests = {}
  /\ run' = [run EXCEPT ![r] = [@ EXCEPT !.pc = "part", !.requests = Listed(queue)]]
  /\ UNCHANGED <<tables, ldap, faults, history>>

EnumerateDequeued(r) ==
  /\ At(r, "join") /\ run[r].requests = {}
  /\ run' = [run EXCEPT ![r] = [@ EXCEPT !.pc = "part", !.requests = Listed(dequeue)]]
  /\ UNCHANGED <<tables, ldap, faults, history>>

WouldRemove(r, u) ==
  /\ At(r, "part") /\ run[r].noop
  /\ Take(r, u, "parting", {})
  /\ UNCHANGED <<tables, ldap, faults, history>>

(* Mutant: the groups to be ignored are those which count. *)
InIgnoredGroups(u) ==
  Named(u) /\ \E g \in IgnoreGroups : Uid(u) \in groups[g]

(* Mutant: the groups of the configuration count as well. *)
InAnyGroup(u) == Named(u) /\ \E g \in Groups : Uid(u) \in groups[g]

(* groups_differ: the search is for the filtered name. *)
InOtherGroups(u) ==
  Named(u) /\ \E g \in Groups \ (NewGroups \cup IgnoreGroups) : Uid(u) \in groups[g]

SearchGroups(r, u) ==
  /\ At(r, "part") /\ ~ run[r].noop
  /\ IF InOtherGroups(u) THEN Take(r, u, "parting", NewGroups)
                         ELSE Take(r, u, "delete", {})
  /\ UNCHANGED <<tables, ldap, faults, history>>

SearchGroupsFails(r, u) ==
  /\ At(r, "part") /\ ~ run[r].noop
  /\ Fault
  /\ u \in run[r].requests
  /\ run' = [run EXCEPT ![r].requests = @ \ {u}]
  /\ UNCHANGED <<tables, ldap, history>>

Failing(r) == Fault /\ failed' = failed \cup {run[r].request}

(* An error, also that the name is not there, is only logged. *)
LeaveGroup(r) ==
  /\ At(r, "parting")
  /\ \E g \in run[r].todo :
       /\ run' = [run EXCEPT ![r].todo = @ \ {g}]
       /\ \/ /\ groups' = [groups EXCEPT ![g] = @ \ {Uid(run[r].request)}]
             /\ UNCHANGED <<faults, failed>>
          \/ Failing(r) /\ UNCHANGED groups
  /\ UNCHANGED <<tables, account, welcomed, provisioned, purged>>

(* Mutant: a request whose account is not there is given up. *)
DeleteAccountOrGiveUp(r) ==
  /\ At(r, "delete")
  /\ IF Named(run[r].request) /\ account[Uid(run[r].request)] # NoAccount
     THEN /\ account' = [account EXCEPT ![Uid(run[r].request)] = NoAccount]
          /\ run' = [run EXCEPT ![r].pc = "parting"]
     ELSE UNCHANGED account /\ Continue(r, "part")
  /\ UNCHANGED <<tables, groups, faults, history>>

(* An error, also that there is no account, is only logged. *)
DeleteAccount(r) ==
  /\ At(r, "delete")
  /\ \/ /\ account' = IF Named(run[r].request)
                      THEN [account EXCEPT ![Uid(run[r].request)] = NoAccount]
                      ELSE account
        /\ UNCHANGED <<faults, failed>>
     \/ Failing(r) /\ UNCHANGED account
  /\ run' = [run EXCEPT ![r].pc = "parting"]
  /\ UNCHANGED <<tables, groups, welcomed, provisioned, purged>>

(* MoveDeletedMemberToArchive takes the text of the UUID for a key with a   *)
(* prefix and drops its beginning; the row it deletes is not there.         *)
PartBatch(u) ==
  /\ archive' = archive \cup {<<"tail", u>>}
  /\ dequeue' = dequeue \ {<<"text", u>>}

Parted(r) ==
  /\ PartBatch(run[r].request)
  /\ purged' = IF run[r].noop THEN purged ELSE purged \cup {run[r].request}

MoveDeletedMember(r) ==
  /\ At(r, "parting") /\ run[r].todo = {}
  /\ Parted(r)
  /\ Continue(r, "part")
  /\ UNCHANGED <<application, queue, members, ldap, faults, welcomed, provisioned,
                 failed>>

MoveDeletedMemberFails(r) ==
  /\ At(r, "parting") /\ run[r].todo = {}
  /\ Fault
  /\ UNCHANGED <<archive, dequeue, purged>> \/ Parted(r)
  /\ Continue(r, "part")
  /\ UNCHANGED <<application, queue, members, ldap, welcomed, provisioned, failed>>

End(r) ==
  /\ At(r, "part") /\ run[r].requests = {}
  /\ run' = [run EXCEPT ![r] = Idle]
  /\ UNCHANGED <<tables, ldap, faults, history>>

(* log.Fatal, when a table or the accounts cannot be listed, or a crash. *)
Crash(r) ==
  /\ run[r] # Idle
  /\ Fault
  /\ run' = [run EXCEPT ![r] = Idle]
  /\ UNCHANGED <<tables, ldap, history>>
-----------------------------------------------------------------------------
(* The web frontend and the administrators of LDAP. *)

MoveApplicantToNewMember(u) ==
  /\ <<"raw", u>> \in application
  /\ application' = application \ {<<"raw", u>>}
  /\ queue' = queue \cup {<<"raw", u>>}
  /\ UNCHANGED <<dequeue, archive, members, ldap, run, faults, history>>

MoveQueuedRecordToTrash(u) ==
  /\ <<"raw", u>> \in queue
  /\ queue' = queue \ {<<"raw", u>>}
  /\ archive' = archive \cup {<<"raw", u>>}
  /\ UNCHANGED <<application, dequeue, members, ldap, run, faults, history>>

(* What a run has written to members is no MembershipAgreement, and the     *)
(* frontend cannot decode it ("Error parsing member data").                 *)
MoveMemberToTrash(u) ==
  /\ members[u] = "old"
  /\ members' = [members EXCEPT ![u] = "no"]
  /\ dequeue' = dequeue \cup {<<"bare", u>>}
  /\ UNCHANGED <<application, queue, archive, ldap, run, faults, history>>

Administer(n, g) ==
  /\ groups' \in {[groups EXCEPT ![g] = @ \cup {n}], [groups EXCEPT ![g] = @ \ {n}]}
  /\ UNCHANGED <<tables, account, run, faults, history>>
-----------------------------------------------------------------------------
Step(r) ==
  \/ Search(r) \/ EnumerateQueued(r) \/ EnumerateDequeued(r) \/ End(r)
  \/ \E u \in Uuids : WithoutAccount(r, u) \/ AddAccount(r, u) \/ AddAccountFails(r, u)
  \/ AddToGroup(r) \/ MoveNewMember(r) \/ MoveNewMemberFails(r) \/ SendMail(r)
  \/ \E u \in Uuids : WouldRemove(r, u) \/ SearchGroups(r, u) \/ SearchGroupsFails(r, u)
  \/ LeaveGroup(r) \/ DeleteAccount(r)
  \/ MoveDeletedMember(r) \/ MoveDeletedMemberFails(r)

Frontend ==
  \E u \in Uuids : \/ MoveApplicantToNewMember(u) \/ MoveQueuedRecordToTrash(u)
                   \/ MoveMemberToTrash(u)

Next ==
  \/ \E r \in Runs : Step(r) \/ Crash(r) \/ \E noop \in BOOLEAN : Begin(r, noop)
  \/ Frontend
  \/ \E n \in Administered, g \in OtherGroups : Administer(n, g)

Spec == Init /\ [][Next]_vars

(* The program goes on, as there is no call that it waits for without end,  *)
(* and is started again and again to do its work.                           *)
Fairness == \A r \in Runs : WF_vars(Step(r)) /\ SF_vars(Begin(r, FALSE))

FairSpec == Spec /\ Fairness
-----------------------------------------------------------------------------
(* The types of the variables. *)
TypeOK ==
  /\ application \subseteq Rows /\ queue \subseteq Rows
  /\ dequeue \subseteq Rows /\ archive \subseteq Rows
  /\ members \in [Uuids -> {"no", "old", "joined"}]
  /\ account \in [LdapNames -> {NoAccount} \cup MinUid .. MaxUid]
  /\ groups \in [Groups -> SUBSET Names]
  /\ run \in [Runs -> RunStates]
  /\ faults \in 0 .. MaxFaults
  /\ welcomed \subseteq Uuids /\ provisioned \subseteq Uuids
  /\ purged \subseteq Uuids /\ failed \subseteq Uuids

(* No uidNumber is given twice: of runs that do not overlap each starts      *)
(* above all numbers, uses one up per request, and takes one that may have   *)
(* been used in a call that failed for used.                                 *)
UidNumbersDistinct ==
  \A m, n \in LdapNames :
    m # n /\ account[m] # NoAccount => account[m] # account[n]

(* Who was moved to members by a run that was not dry, and has a user name,  *)
(* has an account, whatever other runs do and wherever they stop: the move   *)
(* is not reached when the account was not made, and no departure of another *)
(* member removes it.                                                        *)
MembersHaveAccounts == \A u \in provisioned : account[Uid(u)] # NoAccount

(* Nobody is welcomed who is not in members: a move that has failed, even    *)
(* one that only seems to have, is not followed by a mail.                   *)
WelcomedAreMembers == \A u \in welcomed : members[u] = "joined"

(* An account whose user is in other groups than the configured ones is not  *)
(* deleted, though the groups are searched some time before, unless somebody *)
(* else has put the user there in between.                                   *)
OthersKept ==
  [][\A n \in LdapNames \ Administered :
       account[n] # NoAccount /\ account'[n] = NoAccount
         => \A g \in OtherGroups : n \notin groups[g]]_vars

(* Whom a run that was not dry has archived has no account any more, or one  *)
(* that is in other groups and in none of the groups of new members,         *)
(* whatever failed besides the removal itself, whose errors are only logged; *)
(* of names that are the same in LDAP and in the database.                   *)
ArchivedArePurged ==
  \A u \in purged \ failed :
    Named(u) /\ Username[u] = Uid(u) /\ Uid(u) \notin Administered
    => \/ account[Uid(u)] = NoAccount
       \/ /\ \E g \in OtherGroups : Uid(u) \in groups[g]
          /\ \A g \in NewGroups : Username[u] \notin groups[g]

(* The runs, with all their calls and failures, are as MemberAccounts has    *)
(* them: an account appears for somebody in the queue, with a new number,    *)
(* keeps it, is there when its owner becomes a member, and disappears only   *)
(* when its owner has left.                                                  *)
Accounts == INSTANCE MemberAccounts
              WITH Names <- LdapNames,
                   NameOf <- [u \in Uuids |-> IF Named(u) THEN Uid(u) ELSE NoName],
                   Numbers <- MinUid .. MaxUid,
                   leaving <- Listed(dequeue),
                   members <- {u \in Uuids : members[u] = "joined"}

ImplementsAccounts == Accounts!Spec

(* A run passes over nobody who is on its list: whoever is listed no more,   *)
(* and is not the one whom the run is busy with, is in members, or in the    *)
(* archive, unless a call has failed then and there or there was an account  *)
(* of that name already when the run came to make one.  With whom it is busy *)
(* it has made one itself, and only the move counts.                         *)
InQueueLoop(r) == run[r].pc \in {"join", "joining", "mail"}
InDequeueLoop(r) == run[r].pc \in {"part", "delete", "parting"}
Pending(r) == run[r].requests \cup ({run[r].request} \ {Nobody})

Done(r, u) ==
  \/ InQueueLoop(r) /\ members'[u] = "joined"
  \/ /\ At(r, "join") /\ ~ run[r].noop
     /\ Named(u) /\ account[Uid(u)] # NoAccount
  \/ InDequeueLoop(r) /\ <<"tail", u>> \in archive'

NobodyPassedOver ==
  [][\A r \in Runs : \A u \in Pending(r) \ Pending(r)' :
       faults' # faults \/ Done(r, u)]_vars

(* What is left of a run: the listings, and of one request the calls other   *)
(* than those of todo.                                                       *)
Listings(pc) ==
  CASE pc = "search" -> 3 [] pc = "list" -> 2
    [] pc \in {"join", "joining", "mail"} -> 1 [] OTHER -> 0

Calls(pc) ==
  CASE pc \in {"joining", "delete"} -> 2 [] pc \in {"mail", "parting"} -> 1
    [] OTHER -> 0

(* A run ends, goes on to the next list, to the next request on it, to the   *)
(* next call of that, or to the next group.                                  *)
Advances(q, p) ==
  \/ p = Idle
  \/ Listings(p.pc) < Listings(q.pc)
  \/ /\ Listings(p.pc) = Listings(q.pc)
     /\ p.requests \subseteq q.requests
     /\ \/ p.requests # q.requests
        \/ Calls(p.pc) < Calls(q.pc)
        \/ p.pc = q.pc /\ p.todo \subseteq q.todo /\ p.todo # q.todo

(* Whatever the calls of a run report, and whatever the others do, it never  *)
(* does anything over again: with finitely many records and groups every run *)
(* takes finitely many steps.                                                *)
RunsAdvance ==
  [][\A r \in Runs :
       run[r] # Idle /\ run'[r] # run[r] => Advances(run[r], run'[r])]_vars

(* A departed member whose row can be listed is archived in the end, though  *)
(* runs fail, end early or find the account gone.                            *)
DepartedArchived ==
  \A u \in Uuids : <<"raw", u>> \in dequeue ~> <<"tail", u>> \in archive

(* A member who departs in the frontend is purged in the end: the promise of *)
(* the manual page.                                                          *)
DepartedPurged ==
  \A u \in Uuids : <<"bare", u>> \in dequeue /\ Named(u)
    ~> account[Uid(u)] = NoAccount \/ InOtherGroups(u)

(* Who is in the queue without an account of that name in the way becomes a *)
(* member in the end or is cancelled, or else something fails after that: a  *)
(* request that cannot be processed, or the account of somebody else, does   *)
(* not hold up the others, in this run or the next.  What fails behind the   *)
(* call that makes the account leaves a record that no run gets past.        *)
JoiningFinishes ==
  \A u \in Uuids, f \in 0 .. MaxFaults :
    /\ <<"raw", u>> \in queue /\ faults = f
    /\ Named(u) => account[Uid(u)] = NoAccount
    ~> members[u] = "joined" \/ <<"raw", u>> \in archive \/ faults > f
=============================================================================
