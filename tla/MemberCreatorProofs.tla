------------------------ MODULE MemberCreatorProofs ------------------------
(***************************************************************************)
(* Proofs about MemberCreator, for any records, user names, groups, number  *)
(* of runs and of faults.                                                   *)
(***************************************************************************)
EXTENDS MemberCreator, TLAPS

USE CreatorAssumption DEF NoAccount

(* What asciiFilter makes of a user name is the name of an LDAP account. *)
LEMMA LdapTypes ==
  /\ LdapNames \subseteq Names
  /\ \A u \in Uuids : Named(u) => Username[u] \in Names /\ Uid(u) \in LdapNames
BY DEF LdapNames, Named, Uid

(* What the assignments to the state of a run do to it, field by field. *)
Becomes(r, pc, uid, requests, request, todo) ==
  /\ run' \in [Runs -> RunStates]
  /\ \A s \in Runs \ {r} : run'[s] = run[s]
  /\ run'[r].pc = pc /\ run'[r].noop = run[r].noop /\ run'[r].greatestUid = uid
  /\ run'[r].requests = requests /\ run'[r].request = request
  /\ run'[r].todo = todo

LEMMA RunBecomes ==
  ASSUME run \in [Runs -> RunStates], NEW r \in Runs, NEW new \in RunStates,
         new.noop = run[r].noop, run' = [run EXCEPT ![r] = new]
  PROVE  Becomes(r, new.pc, new.greatestUid, new.requests, new.request, new.todo)
BY DEF Becomes

LEMMA RunFields ==
  ASSUME run \in [Runs -> RunStates], NEW r \in Runs
  PROVE  /\ run[r] \in RunStates
         /\ run[r].pc \in Places /\ run[r].greatestUid \in MinUid .. MaxUid
         /\ run[r].requests \subseteq Uuids /\ run[r].request \in Uuids \cup {Nobody}
         /\ run[r].todo \subseteq NewGroups /\ run[r].noop \in BOOLEAN
<1>1. run[r] \in RunStates
  OBVIOUS
<1>. QED
  BY <1>1 DEF RunStates

LEMMA TakeChanges ==
  ASSUME run \in [Runs -> RunStates], NEW r \in Runs, NEW u \in Uuids,
         NEW pc \in Places, NEW todo \in SUBSET NewGroups,
         Take(r, u, pc, todo)
  PROVE  /\ u \in run[r].requests
         /\ Becomes(r, pc, run[r].greatestUid,
                    run[r].requests \ {u}, u, todo)
<1>. DEFINE new == [run[r] EXCEPT !.pc = pc, !.requests = @ \ {u}, !.request = u,
                                  !.todo = todo]
<1>1. run' = [run EXCEPT ![r] = new]
  BY DEF Take
<1>2. u \in run[r].requests
  BY RunFields DEF Take
<1>3. new \in RunStates
  BY ZenonT(60), RunFields, <1>2 DEF RunStates
<1>4. new.noop = run[r].noop /\ new.pc = pc /\ new.greatestUid = run[r].greatestUid
      /\ new.requests = run[r].requests \ {u} /\ new.request = u
      /\ new.todo = todo
  BY RunFields DEF RunStates
<1>. HIDE DEF new
<1>5. Becomes(r, new.pc, new.greatestUid, new.requests, new.request, new.todo)
  BY <1>1, <1>3, <1>4, RunBecomes
<1>. QED
  BY <1>2, <1>4, <1>5

LEMMA TakeNamedChanges ==
  ASSUME run \in [Runs -> RunStates], NEW r \in Runs, NEW u \in Uuids,
         NEW pc \in Places, NEW request \in Uuids \cup {Nobody},
         NEW todo \in SUBSET NewGroups,
         TakeNamed(r, u, pc, request, todo)
  PROVE  /\ run[r].pc = "join" /\ u \in run[r].requests /\ Named(u)
         /\ NextUid(r) \in MinUid .. MaxUid
         /\ Becomes(r, pc, NextUid(r),
                    run[r].requests \ {u}, request, todo)
<1>. DEFINE new == [run[r] EXCEPT !.pc = pc, !.requests = @ \ {u},
                                  !.request = request, !.todo = todo,
                                  !.greatestUid = NextUid(r)]
<1>1. run' = [run EXCEPT ![r] = new]
  BY DEF TakeNamed
<1>2. /\ run[r].pc = "join" /\ u \in run[r].requests /\ Named(u)
      /\ NextUid(r) \in MinUid .. MaxUid
  BY RunFields DEF TakeNamed, At, NextUid
<1>3. new \in RunStates
  BY ZenonT(60), RunFields, <1>2 DEF RunStates
<1>4. new.noop = run[r].noop /\ new.pc = pc /\ new.greatestUid = NextUid(r)
      /\ new.requests = run[r].requests \ {u} /\ new.request = request
      /\ new.todo = todo
  BY RunFields DEF RunStates
<1>. HIDE DEF new
<1>5. Becomes(r, new.pc, new.greatestUid, new.requests, new.request, new.todo)
  BY <1>1, <1>3, <1>4, RunBecomes
<1>. QED
  BY <1>2, <1>4, <1>5

LEMMA ContinueChanges ==
  ASSUME run \in [Runs -> RunStates], NEW r \in Runs, NEW pc \in Places,
         Continue(r, pc)
  PROVE  Becomes(r, pc, run[r].greatestUid,
                    run[r].requests, Nobody, {})
<1>. DEFINE new == [run[r] EXCEPT !.pc = pc, !.request = Nobody, !.todo = {}]
<1>1. run' = [run EXCEPT ![r] = new]
  BY DEF Continue
<1>3. new \in RunStates
  BY ZenonT(60), RunFields DEF RunStates
<1>4. new.noop = run[r].noop /\ new.pc = pc /\ new.greatestUid = run[r].greatestUid
      /\ new.requests = run[r].requests /\ new.request = Nobody
      /\ new.todo = {}
  BY RunFields DEF RunStates
<1>. HIDE DEF new
<1>5. Becomes(r, new.pc, new.greatestUid, new.requests, new.request, new.todo)
  BY <1>1, <1>3, <1>4, RunBecomes
<1>. QED
  BY <1>4, <1>5

LEMMA ListChanges ==
  ASSUME run \in [Runs -> RunStates], NEW r \in Runs, NEW pc \in Places,
         NEW rows,
         run' = [run EXCEPT ![r] = [@ EXCEPT !.pc = pc, !.requests = Listed(rows)]]
  PROVE  Becomes(r, pc, run[r].greatestUid,
                    Listed(rows), run[r].request, run[r].todo)
<1>. DEFINE new == [run[r] EXCEPT !.pc = pc, !.requests = Listed(rows)]
<1>1. run' = [run EXCEPT ![r] = new]
  OBVIOUS
<1>3. new \in RunStates
  BY ZenonT(60), RunFields DEF RunStates, Listed
<1>4. new.noop = run[r].noop /\ new.pc = pc /\ new.greatestUid = run[r].greatestUid
      /\ new.requests = Listed(rows) /\ new.request = run[r].request
      /\ new.todo = run[r].todo
  BY RunFields DEF RunStates
<1>. HIDE DEF new
<1>5. Becomes(r, new.pc, new.greatestUid, new.requests, new.request, new.todo)
  BY <1>1, <1>3, <1>4, RunBecomes
<1>. QED
  BY <1>4, <1>5

LEMMA PcChanges ==
  ASSUME run \in [Runs -> RunStates], NEW r \in Runs, NEW pc \in Places,
         run' = [run EXCEPT ![r].pc = pc]
  PROVE  Becomes(r, pc, run[r].greatestUid,
                    run[r].requests, run[r].request, run[r].todo)
<1>. DEFINE new == [run[r] EXCEPT !.pc = pc]
<1>1. run' = [run EXCEPT ![r] = new]
  OBVIOUS
<1>3. new \in RunStates
  BY RunFields DEF RunStates
<1>4. new.noop = run[r].noop /\ new.pc = pc /\ new.greatestUid = run[r].greatestUid
      /\ new.requests = run[r].requests /\ new.request = run[r].request
      /\ new.todo = run[r].todo
  BY RunFields DEF RunStates
<1>. HIDE DEF new
<1>5. Becomes(r, new.pc, new.greatestUid, new.requests, new.request, new.todo)
  BY <1>1, <1>3, <1>4, RunBecomes
<1>. QED
  BY <1>4, <1>5

LEMMA TodoChanges ==
  ASSUME run \in [Runs -> RunStates], NEW r \in Runs, NEW todo \in SUBSET NewGroups,
         run' = [run EXCEPT ![r].todo = todo]
  PROVE  Becomes(r, run[r].pc, run[r].greatestUid,
                    run[r].requests, run[r].request, todo)
<1>. DEFINE new == [run[r] EXCEPT !.todo = todo]
<1>1. run' = [run EXCEPT ![r] = new]
  OBVIOUS
<1>3. new \in RunStates
  BY RunFields DEF RunStates
<1>4. new.noop = run[r].noop /\ new.pc = run[r].pc /\ new.greatestUid = run[r].greatestUid
      /\ new.requests = run[r].requests /\ new.request = run[r].request
      /\ new.todo = todo
  BY RunFields DEF RunStates
<1>. HIDE DEF new
<1>5. Becomes(r, new.pc, new.greatestUid, new.requests, new.request, new.todo)
  BY <1>1, <1>3, <1>4, RunBecomes
<1>. QED
  BY <1>4, <1>5

(* What the actions of a run do to its state. *)
LEMMA BeginRun ==
  ASSUME run \in [Runs -> RunStates], NEW r \in Runs, NEW noop \in BOOLEAN,
         Begin(r, noop)
  PROVE  /\ run' \in [Runs -> RunStates]
         /\ \A s \in Runs \ {r} : run'[s] = run[s]
         /\ run'[r].pc = (IF noop THEN "list" ELSE "search") /\ run'[r].noop = noop
         /\ run'[r].requests = run[r].requests /\ run'[r].request = run[r].request
         /\ UNCHANGED <<tables, ldap, faults, history>>
<1>. DEFINE pc == IF noop THEN "list" ELSE "search"
            new == [run[r] EXCEPT !.pc = pc, !.noop = noop]
<1>1. /\ run' = [run EXCEPT ![r] = new]
      /\ UNCHANGED <<tables, ldap, faults, history>>
  BY DEF Begin
<1>2. pc \in Places
  BY DEF Places
<1>. HIDE DEF pc
<1>3. new \in RunStates /\ new.pc = pc /\ new.noop = noop
  BY ZenonT(60), <1>2, RunFields DEF RunStates
<1>5. new.requests = run[r].requests /\ new.request = run[r].request
  BY RunFields DEF RunStates
<1>. HIDE DEF new
<1>4. /\ run' \in [Runs -> RunStates] /\ run'[r] = new
      /\ \A s \in Runs \ {r} : run'[s] = run[s]
  BY <1>1, <1>3
<1>. QED
  BY <1>1, <1>3, <1>4, <1>5 DEF pc

LEMMA SearchRun ==
  ASSUME run \in [Runs -> RunStates], NEW r \in Runs, Search(r)
  PROVE  /\ \E uid \in MinUid .. MaxUid :
              /\ HighestUid(uid)
              /\ Becomes(r, "list", uid, run[r].requests, run[r].request,
                         run[r].todo)
         /\ run[r].pc = "search"
         /\ UNCHANGED <<tables, ldap, faults, history>>
<1>1. PICK uid \in MinUid .. MaxUid :
        /\ HighestUid(uid)
        /\ run' = [run EXCEPT ![r] = [@ EXCEPT !.pc = "list", !.greatestUid = uid]]
  BY DEF Search
<1>. DEFINE new == [run[r] EXCEPT !.pc = "list", !.greatestUid = uid]
<1>2. run' = [run EXCEPT ![r] = new]
  BY <1>1
<1>. "list" \in Places
  BY DEF Places
<1>3. new \in RunStates
  BY ZenonT(60), RunFields DEF RunStates
<1>4. new.noop = run[r].noop /\ new.pc = "list" /\ new.greatestUid = uid
      /\ new.requests = run[r].requests /\ new.request = run[r].request
      /\ new.todo = run[r].todo
  BY RunFields DEF RunStates
<1>. HIDE DEF new
<1>5. Becomes(r, new.pc, new.greatestUid, new.requests, new.request, new.todo)
  BY <1>2, <1>3, <1>4, RunBecomes
<1>6. run[r].pc = "search" /\ UNCHANGED <<tables, ldap, faults, history>>
  BY DEF Search, At
<1>. QED
  BY <1>1, <1>4, <1>5, <1>6

LEMMA EnumerateQueuedRun ==
  ASSUME run \in [Runs -> RunStates], NEW r \in Runs, EnumerateQueued(r)
  PROVE  /\ Becomes(r, "join", run[r].greatestUid, Listed(queue), run[r].request,
                    run[r].todo)
         /\ run[r].pc = "list"
         /\ UNCHANGED <<tables, ldap, faults, history>>
<1>1. /\ Becomes(r, "join", run[r].greatestUid, Listed(queue), run[r].request,
                 run[r].todo)
  BY ListChanges DEF EnumerateQueued, Places
<1>2. /\ run[r].pc = "list"
      /\ UNCHANGED <<tables, ldap, faults, history>>
  BY DEF EnumerateQueued, At
<1>. QED
  BY <1>1, <1>2

LEMMA EnumerateDequeuedRun ==
  ASSUME run \in [Runs -> RunStates], NEW r \in Runs, EnumerateDequeued(r)
  PROVE  /\ Becomes(r, "part", run[r].greatestUid, Listed(dequeue),
                    run[r].request, run[r].todo)
         /\ run[r].pc = "join" /\ run[r].requests = {}
         /\ UNCHANGED <<tables, ldap, faults, history>>
<1>1. /\ Becomes(r, "part", run[r].greatestUid, Listed(dequeue), run[r].request,
                 run[r].todo)
  BY ListChanges DEF EnumerateDequeued, Places
<1>2. /\ run[r].pc = "join" /\ run[r].requests = {}
      /\ UNCHANGED <<tables, ldap, faults, history>>
  BY DEF EnumerateDequeued, At
<1>. QED
  BY <1>1, <1>2

LEMMA WithoutAccountRun ==
  ASSUME run \in [Runs -> RunStates], NEW r \in Runs, NEW u \in Uuids,
         WithoutAccount(r, u)
  PROVE  /\ run[r].pc = "join" /\ u \in run[r].requests
         /\ run[r].noop \/ ~ Named(u)
         /\ \E uid \in MinUid .. MaxUid :
                /\ uid >= run[r].greatestUid
                /\ Becomes(r, "joining", uid, run[r].requests \ {u}, u, {})
         /\ UNCHANGED <<tables, ldap, faults, history>>
<1>1. /\ run[r].pc = "join" /\ u \in run[r].requests
      /\ run[r].noop \/ ~ Named(u)
      /\ \E uid \in MinUid .. MaxUid :
             /\ uid >= run[r].greatestUid
             /\ Becomes(r, "joining", uid, run[r].requests \ {u}, u, {})
  <2>1. CASE At(r, "join") /\ ~ Named(u) /\ Take(r, u, "joining", {})
    <3>1. u \in run[r].requests /\ Becomes(r, "joining", run[r].greatestUid,
                                           run[r].requests \ {u}, u, {})
      BY <2>1, TakeChanges DEF Places
    <3>2. /\ run[r].greatestUid >= run[r].greatestUid
          /\ run[r].greatestUid \in MinUid .. MaxUid
      BY RunFields
    <3>. QED
      BY <2>1, <3>1, <3>2 DEF At
  <2>2. CASE run[r].noop /\ TakeNamed(r, u, "joining", u, {})
    <3>1. /\ run[r].pc = "join" /\ u \in run[r].requests
          /\ NextUid(r) \in MinUid .. MaxUid
          /\ Becomes(r, "joining", NextUid(r), run[r].requests \ {u}, u, {})
      BY <2>2, TakeNamedChanges DEF Places
    <3>2. NextUid(r) >= run[r].greatestUid
      BY RunFields DEF NextUid
    <3>. QED
      BY <2>2, <3>1, <3>2
  <2>. QED
    BY <2>1, <2>2 DEF WithoutAccount
<1>2. /\ UNCHANGED <<tables, ldap, faults, history>>
  BY DEF WithoutAccount
<1>. QED
  BY <1>1, <1>2

LEMMA AddAccountRun ==
  ASSUME run \in [Runs -> RunStates], NEW r \in Runs, NEW u \in Uuids,
         AddAccount(r, u)
  PROVE  /\ run[r].pc = "join" /\ u \in run[r].requests /\ Named(u) /\ ~ run[r].noop
         /\ NextUid(r) \in MinUid .. MaxUid
         /\ Becomes(r, "joining", NextUid(r), run[r].requests \ {u}, u, NewGroups)
         /\ account[Uid(u)] = NoAccount
         /\ account' = [account EXCEPT ![Uid(u)] = NextUid(r)]
         /\ UNCHANGED <<tables, groups, faults, history>>
<1>1. /\ run[r].pc = "join" /\ u \in run[r].requests /\ Named(u) /\ ~ run[r].noop
      /\ NextUid(r) \in MinUid .. MaxUid
      /\ Becomes(r, "joining", NextUid(r), run[r].requests \ {u}, u, NewGroups)
  BY TakeNamedChanges DEF AddAccount, Places
<1>2. /\ account[Uid(u)] = NoAccount
      /\ account' = [account EXCEPT ![Uid(u)] = NextUid(r)]
      /\ UNCHANGED <<tables, groups, faults, history>>
  BY DEF AddAccount
<1>. QED
  BY <1>1, <1>2

LEMMA AddAccountFailsRun ==
  ASSUME run \in [Runs -> RunStates], NEW r \in Runs, NEW u \in Uuids,
         AddAccountFails(r, u)
  PROVE  /\ run[r].pc = "join" /\ u \in run[r].requests /\ Named(u) /\ ~ run[r].noop
         /\ NextUid(r) \in MinUid .. MaxUid
         /\ Becomes(r, "join", NextUid(r), run[r].requests \ {u}, Nobody, {})
         /\ \/ UNCHANGED account
            \/ account' = [account EXCEPT ![Uid(u)] = NextUid(r)] /\ account[Uid(u)] = NoAccount
         /\ UNCHANGED faults \/ Fault
         /\ UNCHANGED <<tables, groups, history>>
<1>1. /\ run[r].pc = "join" /\ u \in run[r].requests /\ Named(u) /\ ~ run[r].noop
      /\ NextUid(r) \in MinUid .. MaxUid
      /\ Becomes(r, "join", NextUid(r), run[r].requests \ {u}, Nobody, {})
  BY TakeNamedChanges DEF AddAccountFails, Places
<1>2. /\ \/ UNCHANGED account
         \/ account' = [account EXCEPT ![Uid(u)] = NextUid(r)] /\ account[Uid(u)] = NoAccount
      /\ UNCHANGED faults \/ Fault
      /\ UNCHANGED <<tables, groups, history>>
  BY DEF AddAccountFails
<1>. QED
  BY <1>1, <1>2

LEMMA AddToGroupRun ==
  ASSUME run \in [Runs -> RunStates], NEW r \in Runs, AddToGroup(r)
  PROVE  /\ run[r].pc = "joining"
         /\ \E g \in run[r].todo :
              /\ Becomes(r, run[r].pc, run[r].greatestUid, run[r].requests,
                         run[r].request, run[r].todo \ {g})
              /\ \/ groups' = [groups EXCEPT ![g] = @ \cup {Username[run[r].request]}]
                 \/ groups' = groups
         /\ UNCHANGED faults \/ Fault
         /\ UNCHANGED <<tables, account, history>>
<1>1. /\ run[r].pc = "joining"
      /\ \E g \in run[r].todo :
           /\ Becomes(r, run[r].pc, run[r].greatestUid, run[r].requests,
                      run[r].request, run[r].todo \ {g})
           /\ \/ groups' = [groups EXCEPT ![g] = @ \cup {Username[run[r].request]}]
              \/ groups' = groups
  <2>1. PICK g \in run[r].todo :
          /\ run' = [run EXCEPT ![r].todo = @ \ {g}]
          /\ \/ groups' = [groups EXCEPT ![g] = @ \cup {Username[run[r].request]}]
             \/ groups' = groups
    BY DEF AddToGroup
  <2>2. run' = [run EXCEPT ![r].todo = run[r].todo \ {g}]
    BY <2>1
  <2>3. run[r].todo \ {g} \in SUBSET NewGroups
    BY RunFields
  <2>. QED
    BY <2>1, <2>2, <2>3, TodoChanges DEF AddToGroup, At
<1>2. /\ UNCHANGED faults \/ Fault
      /\ UNCHANGED <<tables, account, history>>
  BY DEF AddToGroup
<1>. QED
  BY <1>1, <1>2

LEMMA MoveNewMemberRun ==
  ASSUME run \in [Runs -> RunStates], NEW r \in Runs, MoveNewMember(r)
  PROVE  /\ run[r].pc = "joining"
         /\ Becomes(r, "mail", run[r].greatestUid, run[r].requests,
                    run[r].request, run[r].todo)
         /\ run[r].todo = {}
         /\ Joined(r)
         /\ UNCHANGED <<application, dequeue, archive, ldap, faults, welcomed,
                        purged, failed>>
<1>1. /\ run[r].pc = "joining"
      /\ Becomes(r, "mail", run[r].greatestUid, run[r].requests, run[r].request,
                 run[r].todo)
  BY PcChanges DEF MoveNewMember, At, Places
<1>2. /\ run[r].todo = {}
      /\ Joined(r)
      /\ UNCHANGED <<application, dequeue, archive, ldap, faults, welcomed,
                     purged, failed>>
  BY DEF MoveNewMember
<1>. QED
  BY <1>1, <1>2

LEMMA MoveNewMemberFailsRun ==
  ASSUME run \in [Runs -> RunStates], NEW r \in Runs, MoveNewMemberFails(r)
  PROVE  /\ run[r].pc = "joining"
         /\ Becomes(r, "join", run[r].greatestUid, run[r].requests, Nobody, {})
         /\ run[r].todo = {} /\ Fault
         /\ UNCHANGED <<members, queue, provisioned>> \/ Joined(r)
         /\ UNCHANGED <<application, dequeue, archive, ldap, welcomed, purged,
                        failed>>
<1>1. /\ run[r].pc = "joining"
      /\ Becomes(r, "join", run[r].greatestUid, run[r].requests, Nobody, {})
  BY ContinueChanges DEF MoveNewMemberFails, At, Places
<1>2. /\ run[r].todo = {} /\ Fault
      /\ UNCHANGED <<members, queue, provisioned>> \/ Joined(r)
      /\ UNCHANGED <<application, dequeue, archive, ldap, welcomed, purged,
                        failed>>
  BY DEF MoveNewMemberFails
<1>. QED
  BY <1>1, <1>2

LEMMA SendMailRun ==
  ASSUME run \in [Runs -> RunStates], NEW r \in Runs, SendMail(r)
  PROVE  /\ run[r].pc = "mail"
         /\ Becomes(r, "join", run[r].greatestUid, run[r].requests, Nobody, {})
         /\ welcomed' \in {welcomed, welcomed \cup {run[r].request}}
         /\ UNCHANGED <<tables, ldap, faults, provisioned, purged, failed>>
<1>1. /\ run[r].pc = "mail"
      /\ Becomes(r, "join", run[r].greatestUid, run[r].requests, Nobody, {})
  BY ContinueChanges DEF SendMail, At, Places
<1>2. /\ welcomed' \in {welcomed, welcomed \cup {run[r].request}}
      /\ UNCHANGED <<tables, ldap, faults, provisioned, purged, failed>>
  BY DEF SendMail
<1>. QED
  BY <1>1, <1>2

LEMMA WouldRemoveRun ==
  ASSUME run \in [Runs -> RunStates], NEW r \in Runs, NEW u \in Uuids,
         WouldRemove(r, u)
  PROVE  /\ run[r].pc = "part" /\ u \in run[r].requests /\ run[r].noop
         /\ Becomes(r, "parting", run[r].greatestUid, run[r].requests \ {u}, u, {})
         /\ UNCHANGED <<tables, ldap, faults, history>>
<1>1. /\ run[r].pc = "part" /\ u \in run[r].requests /\ run[r].noop
      /\ Becomes(r, "parting", run[r].greatestUid, run[r].requests \ {u}, u, {})
  BY TakeChanges DEF WouldRemove, At, Places
<1>2. /\ UNCHANGED <<tables, ldap, faults, history>>
  BY DEF WouldRemove
<1>. QED
  BY <1>1, <1>2

LEMMA SearchGroupsRun ==
  ASSUME run \in [Runs -> RunStates], NEW r \in Runs, NEW u \in Uuids,
         SearchGroups(r, u)
  PROVE  /\ run[r].pc = "part" /\ u \in run[r].requests
         /\ \/ InOtherGroups(u) /\ Becomes(r, "parting", run[r].greatestUid,
                                           run[r].requests \ {u}, u, NewGroups)
            \/ ~ InOtherGroups(u) /\ Becomes(r, "delete", run[r].greatestUid,
                                             run[r].requests \ {u}, u, {})
         /\ UNCHANGED <<tables, ldap, faults, history>>
<1>1. /\ run[r].pc = "part" /\ u \in run[r].requests
      /\ \/ InOtherGroups(u) /\ Becomes(r, "parting", run[r].greatestUid,
                                        run[r].requests \ {u}, u, NewGroups)
         \/ ~ InOtherGroups(u) /\ Becomes(r, "delete", run[r].greatestUid,
                                          run[r].requests \ {u}, u, {})
  <2>1. CASE InOtherGroups(u)
    BY <2>1, TakeChanges DEF SearchGroups, At, Places
  <2>2. CASE ~ InOtherGroups(u)
    BY <2>2, TakeChanges DEF SearchGroups, At, Places
  <2>. QED
    BY <2>1, <2>2
<1>2. /\ UNCHANGED <<tables, ldap, faults, history>>
  BY DEF SearchGroups
<1>. QED
  BY <1>1, <1>2

LEMMA LeaveGroupRun ==
  ASSUME run \in [Runs -> RunStates], NEW r \in Runs, LeaveGroup(r)
  PROVE  /\ run[r].pc = "parting"
         /\ \E g \in run[r].todo :
              /\ Becomes(r, run[r].pc, run[r].greatestUid, run[r].requests,
                         run[r].request, run[r].todo \ {g})
              /\ \/ /\ groups' = [groups EXCEPT ![g] = @ \ {Uid(run[r].request)}]
                    /\ failed' = failed
                 \/ groups' = groups /\ failed' = failed \cup {run[r].request}
         /\ UNCHANGED faults \/ Fault
         /\ UNCHANGED <<tables, account, welcomed, provisioned, purged>>
<1>1. /\ run[r].pc = "parting"
      /\ \E g \in run[r].todo :
           /\ Becomes(r, run[r].pc, run[r].greatestUid, run[r].requests,
                      run[r].request, run[r].todo \ {g})
           /\ \/ /\ groups' = [groups EXCEPT ![g] = @ \ {Uid(run[r].request)}]
                 /\ failed' = failed
              \/ groups' = groups /\ failed' = failed \cup {run[r].request}
  <2>1. PICK g \in run[r].todo :
          /\ run' = [run EXCEPT ![r].todo = @ \ {g}]
          /\ \/ /\ groups' = [groups EXCEPT ![g] = @ \ {Uid(run[r].request)}]
                /\ failed' = failed
             \/ groups' = groups /\ failed' = failed \cup {run[r].request}
    BY DEF LeaveGroup, Failing
  <2>2. run' = [run EXCEPT ![r].todo = run[r].todo \ {g}]
    BY <2>1
  <2>3. run[r].todo \ {g} \in SUBSET NewGroups
    BY RunFields
  <2>. QED
    BY <2>1, <2>2, <2>3, TodoChanges DEF LeaveGroup, At
<1>2. /\ UNCHANGED faults \/ Fault
      /\ UNCHANGED <<tables, account, welcomed, provisioned, purged>>
  BY DEF LeaveGroup, Failing
<1>. QED
  BY <1>1, <1>2

LEMMA DeleteAccountRun ==
  ASSUME run \in [Runs -> RunStates], NEW r \in Runs, DeleteAccount(r)
  PROVE  /\ run[r].pc = "delete"
         /\ Becomes(r, "parting", run[r].greatestUid, run[r].requests,
                    run[r].request, run[r].todo)
         /\ \/ account' = account /\ failed' = failed \cup {run[r].request}
            \/ /\ account' = account /\ failed' = failed
               /\ ~ Named(run[r].request)
            \/ /\ Named(run[r].request) /\ failed' = failed
               /\ account' = [account EXCEPT ![Uid(run[r].request)] = NoAccount]
         /\ UNCHANGED faults \/ Fault
         /\ UNCHANGED <<tables, groups, welcomed, provisioned, purged>>
<1>1. /\ run[r].pc = "delete"
      /\ Becomes(r, "parting", run[r].greatestUid, run[r].requests,
                 run[r].request, run[r].todo)
  BY PcChanges DEF DeleteAccount, At, Places
<1>2. /\ \/ account' = account /\ failed' = failed \cup {run[r].request}
         \/ /\ account' = account /\ failed' = failed
            /\ ~ Named(run[r].request)
         \/ /\ Named(run[r].request) /\ failed' = failed
            /\ account' = [account EXCEPT ![Uid(run[r].request)] = NoAccount]
      /\ UNCHANGED faults \/ Fault
      /\ UNCHANGED <<tables, groups, welcomed, provisioned, purged>>
  BY DEF DeleteAccount, Failing
<1>. QED
  BY <1>1, <1>2

LEMMA MoveDeletedMemberRun ==
  ASSUME run \in [Runs -> RunStates], NEW r \in Runs, MoveDeletedMember(r)
  PROVE  /\ run[r].pc = "parting"
         /\ run[r].todo = {}
         /\ Becomes(r, "part", run[r].greatestUid, run[r].requests, Nobody, {})
         /\ Parted(r)
         /\ UNCHANGED <<application, queue, members, ldap, faults, welcomed,
                        provisioned, failed>>
<1>1. /\ run[r].pc = "parting"
      /\ run[r].todo = {}
      /\ Becomes(r, "part", run[r].greatestUid, run[r].requests, Nobody, {})
  BY ContinueChanges DEF MoveDeletedMember, At, Places
<1>2. /\ Parted(r)
      /\ UNCHANGED <<application, queue, members, ldap, faults, welcomed,
                     provisioned, failed>>
  BY DEF MoveDeletedMember
<1>. QED
  BY <1>1, <1>2

LEMMA MoveDeletedMemberFailsRun ==
  ASSUME run \in [Runs -> RunStates], NEW r \in Runs, MoveDeletedMemberFails(r)
  PROVE  /\ run[r].pc = "parting"
         /\ run[r].todo = {}
         /\ Becomes(r, "part", run[r].greatestUid, run[r].requests, Nobody, {})
         /\ Fault
         /\ UNCHANGED <<archive, dequeue, purged>> \/ Parted(r)
         /\ UNCHANGED <<application, queue, members, ldap, welcomed, provisioned,
                        failed>>
<1>1. /\ run[r].pc = "parting"
      /\ run[r].todo = {}
      /\ Becomes(r, "part", run[r].greatestUid, run[r].requests, Nobody, {})
  BY ContinueChanges DEF MoveDeletedMemberFails, At, Places
<1>2. /\ Fault
      /\ UNCHANGED <<archive, dequeue, purged>> \/ Parted(r)
      /\ UNCHANGED <<application, queue, members, ldap, welcomed, provisioned,
                        failed>>
  BY DEF MoveDeletedMemberFails
<1>. QED
  BY <1>1, <1>2

LEMMA SearchGroupsFailsRun ==
  ASSUME run \in [Runs -> RunStates], NEW r \in Runs, NEW u \in Uuids,
         SearchGroupsFails(r, u)
  PROVE  /\ run[r].pc = "part" /\ u \in run[r].requests
         /\ Becomes(r, run[r].pc, run[r].greatestUid, run[r].requests \ {u},
                    run[r].request,
                    run[r].todo)
         /\ Fault
         /\ UNCHANGED <<tables, ldap, history>>
<1>. DEFINE new == [run[r] EXCEPT !.requests = run[r].requests \ {u}]
<1>1. /\ run' = [run EXCEPT ![r] = new]
      /\ run[r].pc = "part" /\ u \in run[r].requests /\ Fault
      /\ UNCHANGED <<tables, ldap, history>>
  BY DEF SearchGroupsFails, At
<1>3. new \in RunStates
  BY RunFields DEF RunStates
<1>4. new.noop = run[r].noop /\ new.pc = run[r].pc /\ new.greatestUid = run[r].greatestUid
      /\ new.requests = run[r].requests \ {u} /\ new.request = run[r].request
      /\ new.todo = run[r].todo
  BY RunFields DEF RunStates
<1>. HIDE DEF new
<1>5. Becomes(r, new.pc, new.greatestUid, new.requests, new.request, new.todo)
  BY <1>1, <1>3, <1>4, RunBecomes
<1>. QED
  BY <1>1, <1>4, <1>5

LEMMA EndRun ==
  ASSUME run \in [Runs -> RunStates], NEW r \in Runs, End(r)
  PROVE  /\ run' \in [Runs -> RunStates]
         /\ \A s \in Runs \ {r} : run'[s] = run[s]
         /\ run'[r] = Idle /\ run'[r].pc = "idle"
         /\ UNCHANGED <<tables, ldap, faults, history>>
<1>1. Idle \in RunStates /\ Idle.pc = "idle"
  BY DEF Idle, RunStates, Places
<1>2. run' = [run EXCEPT ![r] = Idle]
  BY DEF End
<1>3. UNCHANGED <<tables, ldap, faults, history>>
  BY DEF End
<1>. QED
  BY <1>1, <1>2, <1>3

LEMMA CrashRun ==
  ASSUME run \in [Runs -> RunStates], NEW r \in Runs, Crash(r)
  PROVE  /\ run' \in [Runs -> RunStates]
         /\ \A s \in Runs \ {r} : run'[s] = run[s]
         /\ run'[r] = Idle /\ run'[r].pc = "idle"
         /\ Fault
         /\ UNCHANGED <<tables, ldap, history>>
<1>1. Idle \in RunStates /\ Idle.pc = "idle"
  BY DEF Idle, RunStates, Places
<1>2. run' = [run EXCEPT ![r] = Idle]
  BY DEF Crash
<1>3. UNCHANGED <<tables, ldap, history>> /\ Fault
  BY DEF Crash
<1>. QED
  BY <1>1, <1>2, <1>3

(* The types are right at the start, whatever earlier runs have left. *)
LEMMA TypeInit == Init => TypeOK
<1>. SUFFICES ASSUME Init PROVE TypeOK
  OBVIOUS
<1>1. PICK place \in [Uuids -> {"application", "queue", "dequeue", "members"}] :
        Init!1!(place)
  BY DEF Init
<1>2. application \subseteq Rows /\ queue \subseteq Rows /\ dequeue \subseteq Rows
  BY <1>1 DEF Rows
<1>3. members \in [Uuids -> {"no", "old", "joined"}]
  BY <1>1
<1>4. groups \in [Groups -> SUBSET Names]
  <2>1. PICK others \in [Groups \ NewGroups -> SUBSET LdapNames] :
          groups = [g \in Groups |->
                      IF g \notin NewGroups THEN others[g]
                      ELSE {Username[u] : u \in {v \in Uuids :
                              Named(v) /\ place[v] \in {"dequeue", "members"}}}]
    BY <1>1
  <2>2. \A g \in Groups : (IF g \notin NewGroups THEN others[g]
                      ELSE {Username[u] : u \in {v \in Uuids :
                              Named(v) /\ place[v] \in {"dequeue", "members"}}})
                         \in SUBSET Names
    BY LdapTypes
  <2>. QED
    BY <2>1, <2>2
<1>5. run \in [Runs -> RunStates]
  <2>1. Idle \in RunStates
    BY DEF Idle, RunStates, Places
  <2>. QED
    BY <2>1 DEF Init
<1>6. account \in [LdapNames -> {NoAccount} \cup MinUid .. MaxUid]
  BY DEF Init
<1>. QED
  BY <1>2, <1>3, <1>4, <1>5, <1>6 DEF Init, TypeOK

(* What the program works on is a record; who is added to groups has a name. *)
CurrentRequest ==
  \A r \in Runs :
    /\ run[r].pc \in {"joining", "mail", "delete", "parting"}
         => run[r].request \in Uuids
    /\ run[r].pc = "joining" /\ run[r].todo # {} => Named(run[r].request)

TypeInv == TypeOK /\ CurrentRequest

LEMMA TypeStep == TypeInv /\ [Next]_vars => TypeInv'
<1>. SUFFICES ASSUME TypeInv, [Next]_vars PROVE TypeInv'
  OBVIOUS
<1>. USE LdapTypes DEF TypeInv, TypeOK, CurrentRequest, tables, ldap, history,
         Groups
<1>1. CASE UNCHANGED vars
  BY <1>1 DEF vars
<1>2. ASSUME NEW r \in Runs, Search(r) PROVE TypeInv'
  BY <1>2, SearchRun DEF Becomes, HighestUid
<1>3. ASSUME NEW r \in Runs, EnumerateQueued(r) PROVE TypeInv'
  BY <1>3, EnumerateQueuedRun DEF Becomes, Listed
<1>4. ASSUME NEW r \in Runs, EnumerateDequeued(r) PROVE TypeInv'
  BY <1>4, EnumerateDequeuedRun DEF Becomes, Listed
<1>5. ASSUME NEW r \in Runs, End(r) PROVE TypeInv'
  BY <1>5, EndRun
<1>6. ASSUME NEW r \in Runs, NEW u \in Uuids, WithoutAccount(r, u)
       PROVE TypeInv'
  BY <1>6, WithoutAccountRun DEF Becomes
<1>7. ASSUME NEW r \in Runs, NEW u \in Uuids, AddAccount(r, u) PROVE TypeInv'
  BY <1>7, AddAccountRun DEF Becomes
<1>8. ASSUME NEW r \in Runs, NEW u \in Uuids, AddAccountFails(r, u)
       PROVE TypeInv'
  BY <1>8, AddAccountFailsRun DEF Becomes, Fault
<1>9. ASSUME NEW r \in Runs, AddToGroup(r) PROVE TypeInv'
  <2>1. PICK g \in run[r].todo :
          /\ Becomes(r, run[r].pc, run[r].greatestUid, run[r].requests,
                     run[r].request, run[r].todo \ {g})
          /\ \/ groups' = [groups EXCEPT ![g] = @ \cup {Username[run[r].request]}]
             \/ groups' = groups
    BY <1>9, AddToGroupRun
  <2>2. groups' \in [Groups -> SUBSET Names]
    BY <1>9, <2>1, RunFields, AddToGroupRun
  <2>3. run' \in [Runs -> RunStates] /\ CurrentRequest'
    BY <1>9, <2>1 DEF Becomes
  <2>. QED
    BY <1>9, <2>2, <2>3, AddToGroupRun DEF Fault
<1>10. ASSUME NEW r \in Runs, MoveNewMember(r) PROVE TypeInv'
  BY <1>10, MoveNewMemberRun DEF Becomes, JoinBatch, Joined
<1>11. ASSUME NEW r \in Runs, MoveNewMemberFails(r) PROVE TypeInv'
  BY <1>11, MoveNewMemberFailsRun DEF Becomes, JoinBatch, Joined, Fault
<1>12. ASSUME NEW r \in Runs, SendMail(r) PROVE TypeInv'
  BY <1>12, SendMailRun DEF Becomes
<1>13. ASSUME NEW r \in Runs, NEW u \in Uuids, WouldRemove(r, u) PROVE TypeInv'
  BY <1>13, WouldRemoveRun DEF Becomes
<1>14. ASSUME NEW r \in Runs, NEW u \in Uuids, SearchGroups(r, u) PROVE TypeInv'
  BY <1>14, SearchGroupsRun DEF Becomes
<1>15. ASSUME NEW r \in Runs, NEW u \in Uuids, SearchGroupsFails(r, u)
       PROVE TypeInv'
  BY <1>15, SearchGroupsFailsRun DEF Becomes, Fault
<1>16. ASSUME NEW r \in Runs, LeaveGroup(r) PROVE TypeInv'
  <2>1. PICK g \in run[r].todo :
          /\ Becomes(r, run[r].pc, run[r].greatestUid, run[r].requests,
                     run[r].request, run[r].todo \ {g})
          /\ \/ groups' = [groups EXCEPT ![g] = @ \ {Uid(run[r].request)}]
             \/ groups' = groups
          /\ failed' = failed \/ failed' = failed \cup {run[r].request}
    BY <1>16, LeaveGroupRun
  <2>2. groups' \in [Groups -> SUBSET Names]
    BY <1>16, <2>1, RunFields, LeaveGroupRun
  <2>3. run[r].request \in Uuids
    BY <1>16, LeaveGroupRun
  <2>4. failed' \subseteq Uuids
    BY <2>1, <2>3
  <2>5. run' \in [Runs -> RunStates] /\ CurrentRequest'
    BY <1>16, <2>1 DEF Becomes
  <2>. QED
    BY <1>16, <2>2, <2>4, <2>5, LeaveGroupRun DEF Fault
<1>17. ASSUME NEW r \in Runs, DeleteAccount(r) PROVE TypeInv'
  BY <1>17, DeleteAccountRun DEF Becomes, Fault
<1>18. ASSUME NEW r \in Runs, MoveDeletedMember(r) PROVE TypeInv'
  BY <1>18, MoveDeletedMemberRun DEF Becomes, Parted, PartBatch, Rows
<1>19. ASSUME NEW r \in Runs, MoveDeletedMemberFails(r) PROVE TypeInv'
  BY <1>19, MoveDeletedMemberFailsRun DEF Becomes, Parted, PartBatch, Fault, Rows
<1>20. ASSUME NEW r \in Runs, Crash(r) PROVE TypeInv'
  BY <1>20, CrashRun DEF Fault
<1>21. ASSUME NEW r \in Runs, NEW noop \in BOOLEAN, Begin(r, noop)
       PROVE TypeInv'
  BY <1>21, BeginRun
<1>22. ASSUME NEW u \in Uuids, MoveApplicantToNewMember(u) PROVE TypeInv'
  BY <1>22 DEF MoveApplicantToNewMember, Rows
<1>23. ASSUME NEW u \in Uuids, MoveQueuedRecordToTrash(u) PROVE TypeInv'
  BY <1>23 DEF MoveQueuedRecordToTrash, Rows
<1>24. ASSUME NEW u \in Uuids, MoveMemberToTrash(u) PROVE TypeInv'
  BY <1>24 DEF MoveMemberToTrash, Rows
<1>25. ASSUME NEW n \in Administered, NEW g \in OtherGroups, Administer(n, g)
       PROVE TypeInv'
  BY <1>25 DEF Administer
<1>. QED
  BY <1>1, <1>2, <1>3, <1>4, <1>5, <1>6, <1>7, <1>8, <1>9, <1>10, <1>11, <1>12,
     <1>13, <1>14, <1>15, <1>16, <1>17, <1>18, <1>19, <1>20, <1>21, <1>22, <1>23,
     <1>24,
     <1>25
     DEF Next, Step, Frontend

LEMMA Typed == Spec => []TypeInv
<1>1. Init => TypeInv
  <2>. SUFFICES ASSUME Init PROVE TypeInv
    OBVIOUS
  <2>1. \A r \in Runs : run[r].pc = "idle"
    BY DEF Init, Idle
  <2>. QED
    BY <2>1, TypeInit DEF TypeInv, CurrentRequest
<1>. QED
  BY <1>1, TypeStep, PTL DEF Spec

(* The types hold in every state. *)
THEOREM TypeCorrect == Spec => []TypeOK
<1>1. TypeInv => TypeOK
  BY DEF TypeInv
<1>. QED
  BY <1>1, Typed, PTL
-----------------------------------------------------------------------------
(* The numbers: a run that makes accounts is above all that there are, from  *)
(* its search until it is done with the queue, if no other run that makes    *)
(* accounts overtakes it there.                                              *)
Counting(r) ==
  run[r].pc \in {"list", "join", "joining", "mail"} /\ ~ run[r].noop

OneCounts == \A r, s \in Runs : Counting(r) /\ Counting(s) => r = s

UidInv ==
  /\ UidNumbersDistinct
  /\ \A r \in Runs :
       Counting(r) => \A n \in LdapNames : account[n] <= run[r].greatestUid

LEMMA UidStep == OneCounts /\ TypeInv /\ UidInv /\ [Next]_vars => UidInv'
<1>. SUFFICES ASSUME OneCounts, run \in [Runs -> RunStates],
                     account \in [LdapNames -> {NoAccount} \cup MinUid .. MaxUid],
                     \A u \in Uuids : Named(u) => Uid(u) \in LdapNames,
                     \A r \in Runs : run[r].greatestUid \in Nat,
                     UidInv, [Next]_vars
              PROVE  UidInv'
  BY LdapTypes, RunFields DEF TypeInv, TypeOK
<1>. USE DEF UidInv, UidNumbersDistinct, OneCounts, Counting, ldap
<1>1. CASE UNCHANGED vars
  BY <1>1 DEF vars
<1>2. ASSUME NEW r \in Runs, Search(r) PROVE UidInv'
  BY <1>2, SearchRun DEF Becomes, HighestUid
<1>3. ASSUME NEW r \in Runs, EnumerateQueued(r) PROVE UidInv'
  BY <1>3, EnumerateQueuedRun DEF Becomes, Listed
<1>4. ASSUME NEW r \in Runs, EnumerateDequeued(r) PROVE UidInv'
  BY <1>4, EnumerateDequeuedRun DEF Becomes, Listed
<1>5. ASSUME NEW r \in Runs, End(r) PROVE UidInv'
  BY <1>5, EndRun
<1>6. ASSUME NEW r \in Runs, NEW u \in Uuids, WithoutAccount(r, u) PROVE UidInv'
  BY <1>6, WithoutAccountRun DEF Becomes
<1>7. ASSUME NEW r \in Runs, NEW u \in Uuids, AddAccount(r, u) PROVE UidInv'
  BY <1>7, AddAccountRun DEF Becomes, NextUid
<1>8. ASSUME NEW r \in Runs, NEW u \in Uuids, AddAccountFails(r, u)
       PROVE UidInv'
  BY <1>8, AddAccountFailsRun DEF Becomes, NextUid
<1>9. ASSUME NEW r \in Runs, AddToGroup(r) PROVE UidInv'
  BY <1>9, AddToGroupRun DEF Becomes
<1>10. ASSUME NEW r \in Runs, MoveNewMember(r) PROVE UidInv'
  BY <1>10, MoveNewMemberRun DEF Becomes, JoinBatch, Joined
<1>11. ASSUME NEW r \in Runs, MoveNewMemberFails(r) PROVE UidInv'
  BY <1>11, MoveNewMemberFailsRun DEF Becomes, JoinBatch, Joined
<1>12. ASSUME NEW r \in Runs, SendMail(r) PROVE UidInv'
  BY <1>12, SendMailRun DEF Becomes
<1>13. ASSUME NEW r \in Runs, NEW u \in Uuids, WouldRemove(r, u) PROVE UidInv'
  BY <1>13, WouldRemoveRun DEF Becomes
<1>14. ASSUME NEW r \in Runs, NEW u \in Uuids, SearchGroups(r, u) PROVE UidInv'
  BY <1>14, SearchGroupsRun DEF Becomes
<1>15. ASSUME NEW r \in Runs, NEW u \in Uuids, SearchGroupsFails(r, u)
       PROVE UidInv'
  BY <1>15, SearchGroupsFailsRun DEF Becomes
<1>16. ASSUME NEW r \in Runs, LeaveGroup(r) PROVE UidInv'
  BY <1>16, LeaveGroupRun DEF Becomes
<1>17. ASSUME NEW r \in Runs, DeleteAccount(r) PROVE UidInv'
  BY <1>17, DeleteAccountRun DEF Becomes
<1>18. ASSUME NEW r \in Runs, MoveDeletedMember(r) PROVE UidInv'
  BY <1>18, MoveDeletedMemberRun DEF Becomes, Parted, PartBatch
<1>19. ASSUME NEW r \in Runs, MoveDeletedMemberFails(r) PROVE UidInv'
  BY <1>19, MoveDeletedMemberFailsRun DEF Becomes, Parted, PartBatch
<1>20. ASSUME NEW r \in Runs, Crash(r) PROVE UidInv'
  BY <1>20, CrashRun
<1>21. ASSUME NEW r \in Runs, NEW noop \in BOOLEAN, Begin(r, noop) PROVE UidInv'
  BY <1>21, BeginRun
<1>22. ASSUME NEW u \in Uuids, MoveApplicantToNewMember(u) PROVE UidInv'
  BY <1>22 DEF MoveApplicantToNewMember
<1>23. ASSUME NEW u \in Uuids, MoveQueuedRecordToTrash(u) PROVE UidInv'
  BY <1>23 DEF MoveQueuedRecordToTrash
<1>24. ASSUME NEW u \in Uuids, MoveMemberToTrash(u) PROVE UidInv'
  BY <1>24 DEF MoveMemberToTrash
<1>25. ASSUME NEW n \in Administered, NEW g \in OtherGroups, Administer(n, g)
       PROVE UidInv'
  BY <1>25 DEF Administer
<1>. QED
  BY <1>1, <1>2, <1>3, <1>4, <1>5, <1>6, <1>7, <1>8, <1>9, <1>10, <1>11, <1>12,
     <1>13, <1>14, <1>15, <1>16, <1>17, <1>18, <1>19, <1>20, <1>21, <1>22, <1>23,
     <1>24,
     <1>25
     DEF Next, Step, Frontend

(* As long as no two runs that make accounts are between their searches and  *)
(* the end of the queue at the same time, no uidNumber is given twice,       *)
(* whatever fails.  Dry runs, and the removal of accounts, may overlap.      *)
THEOREM UidNumbersAreDistinct ==
  Spec /\ []OneCounts => []UidNumbersDistinct
<1>1. Init => UidInv
  <2>. SUFFICES ASSUME Init PROVE UidInv
    OBVIOUS
  <2>1. \A r \in Runs : run[r].pc = "idle"
    BY DEF Init, Idle
  <2>. QED
    BY <2>1 DEF Init, UidInv, UidNumbersDistinct, Counting
<1>2. UidInv => UidNumbersDistinct
  BY DEF UidInv
<1>. QED
  BY <1>1, <1>2, UidStep, Typed, PTL DEF Spec

(* In particular when runs do not overlap at all. *)
COROLLARY SingleRunNumbers ==
  ASSUME \A r, s \in Runs : r = s PROVE Spec => []UidNumbersDistinct
<1>1. OneCounts
  BY DEF OneCounts
<1>. QED
  BY <1>1, UidNumbersAreDistinct, PTL
-----------------------------------------------------------------------------
(* The accounts: whose account is deleted is departing, who is a member or   *)
(* becomes one is not, and no name is that of both.                          *)
DistinctUids ==
  \A u, v \in Uuids : Named(u) /\ Named(v) /\ u # v => Uid(u) # Uid(v)

(* Whose row is raw in dequeue has not been an applicant since. *)
Departing(u) == <<"raw", u>> \in dequeue
Stays(u) == u \in Uuids /\ ~ Departing(u)

PlacesInv ==
  /\ \A u \in Uuids : <<"raw", u>> \in application \cup queue => Stays(u)
  /\ \A u \in provisioned : Stays(u) /\ Named(u)
  /\ \A r \in Runs : run[r].pc \in {"join", "joining", "mail"}
       => \A u \in run[r].requests : Stays(u)
  /\ \A r \in Runs : run[r].pc \in {"joining", "mail"} => Stays(run[r].request)
  /\ \A r \in Runs : run[r].pc \in {"part", "delete", "parting"}
       => \A u \in run[r].requests : Departing(u)
  /\ \A r \in Runs : run[r].pc \in {"delete", "parting"}
       => Departing(run[r].request)

LEMMA PlacesStep == TypeInv /\ PlacesInv /\ [Next]_vars => PlacesInv'
<1>. SUFFICES ASSUME run \in [Runs -> RunStates], provisioned \subseteq Uuids,
                     PlacesInv, [Next]_vars
              PROVE  PlacesInv'
  BY DEF TypeInv, TypeOK
<1>. USE DEF PlacesInv, Stays, Departing, tables, history
<1>1. CASE UNCHANGED vars
  BY <1>1 DEF vars
<1>2. ASSUME NEW r \in Runs, Search(r) PROVE PlacesInv'
  BY <1>2, SearchRun DEF Becomes, HighestUid
<1>3. ASSUME NEW r \in Runs, EnumerateQueued(r) PROVE PlacesInv'
  BY <1>3, EnumerateQueuedRun DEF Becomes, Listed
<1>4. ASSUME NEW r \in Runs, EnumerateDequeued(r) PROVE PlacesInv'
  BY <1>4, EnumerateDequeuedRun DEF Becomes, Listed
<1>5. ASSUME NEW r \in Runs, End(r) PROVE PlacesInv'
  BY <1>5, EndRun
<1>6. ASSUME NEW r \in Runs, NEW u \in Uuids, WithoutAccount(r, u)
       PROVE PlacesInv'
  BY <1>6, WithoutAccountRun DEF Becomes
<1>7. ASSUME NEW r \in Runs, NEW u \in Uuids, AddAccount(r, u) PROVE PlacesInv'
  BY <1>7, AddAccountRun DEF Becomes
<1>8. ASSUME NEW r \in Runs, NEW u \in Uuids, AddAccountFails(r, u)
       PROVE PlacesInv'
  BY <1>8, AddAccountFailsRun DEF Becomes
<1>9. ASSUME NEW r \in Runs, AddToGroup(r) PROVE PlacesInv'
  BY <1>9, AddToGroupRun DEF Becomes
<1>10. ASSUME NEW r \in Runs, MoveNewMember(r) PROVE PlacesInv'
  BY <1>10, MoveNewMemberRun DEF Becomes, JoinBatch, Joined
<1>11. ASSUME NEW r \in Runs, MoveNewMemberFails(r) PROVE PlacesInv'
  BY <1>11, MoveNewMemberFailsRun DEF Becomes, JoinBatch, Joined
<1>12. ASSUME NEW r \in Runs, SendMail(r) PROVE PlacesInv'
  BY <1>12, SendMailRun DEF Becomes
<1>13. ASSUME NEW r \in Runs, NEW u \in Uuids, WouldRemove(r, u)
       PROVE PlacesInv'
  BY <1>13, WouldRemoveRun DEF Becomes
<1>14. ASSUME NEW r \in Runs, NEW u \in Uuids, SearchGroups(r, u)
       PROVE PlacesInv'
  BY <1>14, SearchGroupsRun DEF Becomes
<1>15. ASSUME NEW r \in Runs, NEW u \in Uuids, SearchGroupsFails(r, u)
       PROVE PlacesInv'
  BY <1>15, SearchGroupsFailsRun DEF Becomes
<1>16. ASSUME NEW r \in Runs, LeaveGroup(r) PROVE PlacesInv'
  BY <1>16, LeaveGroupRun DEF Becomes
<1>17. ASSUME NEW r \in Runs, DeleteAccount(r) PROVE PlacesInv'
  BY <1>17, DeleteAccountRun DEF Becomes
<1>18. ASSUME NEW r \in Runs, MoveDeletedMember(r) PROVE PlacesInv'
  BY <1>18, MoveDeletedMemberRun DEF Becomes, Parted, PartBatch
<1>19. ASSUME NEW r \in Runs, MoveDeletedMemberFails(r) PROVE PlacesInv'
  BY <1>19, MoveDeletedMemberFailsRun DEF Becomes, Parted, PartBatch
<1>20. ASSUME NEW r \in Runs, Crash(r) PROVE PlacesInv'
  BY <1>20, CrashRun
<1>21. ASSUME NEW r \in Runs, NEW noop \in BOOLEAN, Begin(r, noop)
       PROVE PlacesInv'
  BY <1>21, BeginRun
<1>22. ASSUME NEW u \in Uuids, MoveApplicantToNewMember(u) PROVE PlacesInv'
  BY <1>22 DEF MoveApplicantToNewMember
<1>23. ASSUME NEW u \in Uuids, MoveQueuedRecordToTrash(u) PROVE PlacesInv'
  BY <1>23 DEF MoveQueuedRecordToTrash
<1>24. ASSUME NEW u \in Uuids, MoveMemberToTrash(u) PROVE PlacesInv'
  BY <1>24 DEF MoveMemberToTrash
<1>25. ASSUME NEW n \in Administered, NEW g \in OtherGroups, Administer(n, g)
       PROVE PlacesInv'
  BY <1>25 DEF Administer
<1>. QED
  BY <1>1, <1>2, <1>3, <1>4, <1>5, <1>6, <1>7, <1>8, <1>9, <1>10, <1>11, <1>12,
     <1>13, <1>14, <1>15, <1>16, <1>17, <1>18, <1>19, <1>20, <1>21, <1>22, <1>23,
     <1>24,
     <1>25
     DEF Next, Step, Frontend

AccountsInv ==
  /\ MembersHaveAccounts
  /\ \A r \in Runs :
       run[r].pc = "joining" /\ ~ run[r].noop /\ Named(run[r].request)
         => account[Uid(run[r].request)] # NoAccount

LEMMA AccountsStep ==
  DistinctUids /\ TypeInv /\ PlacesInv /\ AccountsInv /\ [Next]_vars => AccountsInv'
<1>. SUFFICES ASSUME DistinctUids, run \in [Runs -> RunStates],
                     account \in [LdapNames -> {NoAccount} \cup MinUid .. MaxUid],
                     provisioned \subseteq Uuids, CurrentRequest,
                     \A u \in Uuids : Named(u) => Uid(u) \in LdapNames,
                     PlacesInv, AccountsInv, [Next]_vars
              PROVE  AccountsInv'
  BY LdapTypes DEF TypeInv, TypeOK
<1>. USE DEF AccountsInv, MembersHaveAccounts, ldap, history
<1>1. CASE UNCHANGED vars
  BY <1>1 DEF vars
<1>2. ASSUME NEW r \in Runs, Search(r) PROVE AccountsInv'
  BY <1>2, SearchRun DEF Becomes, HighestUid
<1>3. ASSUME NEW r \in Runs, EnumerateQueued(r) PROVE AccountsInv'
  BY <1>3, EnumerateQueuedRun DEF Becomes, Listed
<1>4. ASSUME NEW r \in Runs, EnumerateDequeued(r) PROVE AccountsInv'
  BY <1>4, EnumerateDequeuedRun DEF Becomes, Listed
<1>5. ASSUME NEW r \in Runs, End(r) PROVE AccountsInv'
  BY <1>5, EndRun
<1>6. ASSUME NEW r \in Runs, NEW u \in Uuids, WithoutAccount(r, u)
       PROVE AccountsInv'
  BY <1>6, WithoutAccountRun DEF Becomes
<1>7. ASSUME NEW r \in Runs, NEW u \in Uuids, AddAccount(r, u)
       PROVE AccountsInv'
  <2>1. /\ NextUid(r) \in MinUid .. MaxUid /\ Named(u)
        /\ account' = [account EXCEPT ![Uid(u)] = NextUid(r)]
    BY <1>7, AddAccountRun
  <2>2. NextUid(r) # NoAccount /\ Uid(u) \in LdapNames
    BY <2>1
  <2>3. account'[Uid(u)] # NoAccount
    BY <2>1, <2>2
  <2>4. \A n \in LdapNames : account[n] # NoAccount => account'[n] # NoAccount
    BY <2>1, <2>2
  <2>5. \A s \in Runs : run[s].pc = "joining" => run[s].request \in Uuids
    BY DEF CurrentRequest
  <2>6. MembersHaveAccounts'
    BY <1>7, <2>4, AddAccountRun DEF PlacesInv
  <2>. QED
    BY <1>7, <2>3, <2>4, <2>5, <2>6, AddAccountRun DEF Becomes
<1>8. ASSUME NEW r \in Runs, NEW u \in Uuids, AddAccountFails(r, u)
       PROVE AccountsInv'
  <2>1. \A n \in LdapNames : account[n] # NoAccount => account'[n] # NoAccount
    BY <1>8, AddAccountFailsRun
  <2>2. \A s \in Runs : run[s].pc = "joining" => run[s].request \in Uuids
    BY DEF CurrentRequest
  <2>3. MembersHaveAccounts'
    BY <1>8, <2>1, AddAccountFailsRun DEF PlacesInv
  <2>. QED
    BY <1>8, <2>1, <2>2, <2>3, AddAccountFailsRun DEF Becomes
<1>9. ASSUME NEW r \in Runs, AddToGroup(r) PROVE AccountsInv'
  BY <1>9, AddToGroupRun DEF Becomes
<1>10. ASSUME NEW r \in Runs, MoveNewMember(r) PROVE AccountsInv'
  BY <1>10, MoveNewMemberRun DEF Becomes, JoinBatch, Joined
<1>11. ASSUME NEW r \in Runs, MoveNewMemberFails(r) PROVE AccountsInv'
  BY <1>11, MoveNewMemberFailsRun DEF Becomes, JoinBatch, Joined
<1>12. ASSUME NEW r \in Runs, SendMail(r) PROVE AccountsInv'
  BY <1>12, SendMailRun DEF Becomes
<1>13. ASSUME NEW r \in Runs, NEW u \in Uuids, WouldRemove(r, u)
       PROVE AccountsInv'
  BY <1>13, WouldRemoveRun DEF Becomes
<1>14. ASSUME NEW r \in Runs, NEW u \in Uuids, SearchGroups(r, u)
       PROVE AccountsInv'
  BY <1>14, SearchGroupsRun DEF Becomes
<1>15. ASSUME NEW r \in Runs, NEW u \in Uuids, SearchGroupsFails(r, u)
       PROVE AccountsInv'
  BY <1>15, SearchGroupsFailsRun DEF Becomes
<1>16. ASSUME NEW r \in Runs, LeaveGroup(r) PROVE AccountsInv'
  BY <1>16, LeaveGroupRun DEF Becomes
<1>17. ASSUME NEW r \in Runs, DeleteAccount(r) PROVE AccountsInv'
  <2>1. run[r].request \in Uuids /\ Departing(run[r].request)
    BY <1>17, DeleteAccountRun DEF CurrentRequest, PlacesInv
  <2>2. ASSUME NEW u \in Uuids, Stays(u), Named(u), account[Uid(u)] # NoAccount
        PROVE  account'[Uid(u)] # NoAccount
    BY <1>17, <2>1, <2>2, DeleteAccountRun DEF DistinctUids, Stays
  <2>3. \A u \in provisioned : Stays(u) /\ Named(u)
    BY DEF PlacesInv
  <2>4. ASSUME NEW s \in Runs, run[s].pc = "joining"
        PROVE  run[s].request \in Uuids /\ Stays(run[s].request)
    BY <2>4 DEF PlacesInv, CurrentRequest
  <2>5. \A s \in Runs : run'[s].pc = "joining" => run'[s] = run[s]
    BY <1>17, DeleteAccountRun DEF Becomes
  <2>. QED
    BY <1>17, <2>2, <2>3, <2>4, <2>5, DeleteAccountRun
<1>18. ASSUME NEW r \in Runs, MoveDeletedMember(r) PROVE AccountsInv'
  BY <1>18, MoveDeletedMemberRun DEF Becomes, Parted, PartBatch
<1>19. ASSUME NEW r \in Runs, MoveDeletedMemberFails(r) PROVE AccountsInv'
  BY <1>19, MoveDeletedMemberFailsRun DEF Becomes, Parted, PartBatch
<1>20. ASSUME NEW r \in Runs, Crash(r) PROVE AccountsInv'
  BY <1>20, CrashRun
<1>21. ASSUME NEW r \in Runs, NEW noop \in BOOLEAN, Begin(r, noop)
       PROVE AccountsInv'
  BY <1>21, BeginRun
<1>22. ASSUME NEW u \in Uuids, MoveApplicantToNewMember(u) PROVE AccountsInv'
  BY <1>22 DEF MoveApplicantToNewMember
<1>23. ASSUME NEW u \in Uuids, MoveQueuedRecordToTrash(u) PROVE AccountsInv'
  BY <1>23 DEF MoveQueuedRecordToTrash
<1>24. ASSUME NEW u \in Uuids, MoveMemberToTrash(u) PROVE AccountsInv'
  BY <1>24 DEF MoveMemberToTrash
<1>25. ASSUME NEW n \in Administered, NEW g \in OtherGroups, Administer(n, g)
       PROVE AccountsInv'
  BY <1>25 DEF Administer
<1>. QED
  BY <1>1, <1>2, <1>3, <1>4, <1>5, <1>6, <1>7, <1>8, <1>9, <1>10, <1>11, <1>12,
     <1>13, <1>14, <1>15, <1>16, <1>17, <1>18, <1>19, <1>20, <1>21, <1>22, <1>23,
     <1>24,
     <1>25
     DEF Next, Step, Frontend

(* When no two records have the same name after asciiFilter, whoever is a    *)
(* member with a user name through a run that was not dry has an account,    *)
(* with any number of runs, and crashes and failures at any point.           *)
THEOREM MembersHaveTheirAccounts ==
  ASSUME DistinctUids PROVE Spec => []MembersHaveAccounts
<1>1. Init => PlacesInv /\ AccountsInv
  <2>. SUFFICES ASSUME Init PROVE PlacesInv /\ AccountsInv
    OBVIOUS
  <2>1. \A r \in Runs : run[r].pc = "idle"
    BY DEF Init, Idle
  <2>2. provisioned = {}
    BY DEF Init
  <2>3. \A u \in Uuids : <<"raw", u>> \in application \cup queue => Stays(u)
    BY DEF Init, Stays, Departing
  <2>. QED
    BY <2>1, <2>2, <2>3 DEF PlacesInv, AccountsInv, MembersHaveAccounts
<1>2. AccountsInv => MembersHaveAccounts
  BY DEF AccountsInv
<1>3. TypeInv /\ PlacesInv /\ AccountsInv /\ [Next]_vars => AccountsInv'
  BY AccountsStep
<1>. QED
  BY <1>1, <1>2, <1>3, PlacesStep, Typed, PTL DEF Spec
-----------------------------------------------------------------------------
(* The mails: a run that is about to send one has moved the record, and who  *)
(* is in members through a run cannot leave.                                 *)
WelcomedInv ==
  /\ WelcomedAreMembers
  /\ \A r \in Runs : run[r].pc = "mail" => members[run[r].request] = "joined"

LEMMA WelcomedStep == TypeInv /\ WelcomedInv /\ [Next]_vars => WelcomedInv'
<1>. SUFFICES ASSUME run \in [Runs -> RunStates], welcomed \subseteq Uuids,
                     members \in [Uuids -> {"no", "old", "joined"}],
                     CurrentRequest, WelcomedInv, [Next]_vars
              PROVE  WelcomedInv'
  BY DEF TypeInv, TypeOK
<1>. USE DEF WelcomedInv, WelcomedAreMembers, CurrentRequest, tables, history
<1>1. CASE UNCHANGED vars
  BY <1>1 DEF vars
<1>2. ASSUME NEW r \in Runs, Search(r) PROVE WelcomedInv'
  BY <1>2, SearchRun DEF Becomes, HighestUid
<1>3. ASSUME NEW r \in Runs, EnumerateQueued(r) PROVE WelcomedInv'
  BY <1>3, EnumerateQueuedRun DEF Becomes, Listed
<1>4. ASSUME NEW r \in Runs, EnumerateDequeued(r) PROVE WelcomedInv'
  BY <1>4, EnumerateDequeuedRun DEF Becomes, Listed
<1>5. ASSUME NEW r \in Runs, End(r) PROVE WelcomedInv'
  BY <1>5, EndRun
<1>6. ASSUME NEW r \in Runs, NEW u \in Uuids, WithoutAccount(r, u)
       PROVE WelcomedInv'
  BY <1>6, WithoutAccountRun DEF Becomes
<1>7. ASSUME NEW r \in Runs, NEW u \in Uuids, AddAccount(r, u)
       PROVE WelcomedInv'
  BY <1>7, AddAccountRun DEF Becomes
<1>8. ASSUME NEW r \in Runs, NEW u \in Uuids, AddAccountFails(r, u)
       PROVE WelcomedInv'
  BY <1>8, AddAccountFailsRun DEF Becomes
<1>9. ASSUME NEW r \in Runs, AddToGroup(r) PROVE WelcomedInv'
  BY <1>9, AddToGroupRun DEF Becomes
<1>10. ASSUME NEW r \in Runs, MoveNewMember(r) PROVE WelcomedInv'
  BY <1>10, MoveNewMemberRun DEF Becomes, JoinBatch, Joined
<1>11. ASSUME NEW r \in Runs, MoveNewMemberFails(r) PROVE WelcomedInv'
  BY <1>11, MoveNewMemberFailsRun DEF Becomes, JoinBatch, Joined
<1>12. ASSUME NEW r \in Runs, SendMail(r) PROVE WelcomedInv'
  BY <1>12, SendMailRun DEF Becomes
<1>13. ASSUME NEW r \in Runs, NEW u \in Uuids, WouldRemove(r, u)
       PROVE WelcomedInv'
  BY <1>13, WouldRemoveRun DEF Becomes
<1>14. ASSUME NEW r \in Runs, NEW u \in Uuids, SearchGroups(r, u)
       PROVE WelcomedInv'
  BY <1>14, SearchGroupsRun DEF Becomes
<1>15. ASSUME NEW r \in Runs, NEW u \in Uuids, SearchGroupsFails(r, u)
       PROVE WelcomedInv'
  BY <1>15, SearchGroupsFailsRun DEF Becomes
<1>16. ASSUME NEW r \in Runs, LeaveGroup(r) PROVE WelcomedInv'
  BY <1>16, LeaveGroupRun DEF Becomes
<1>17. ASSUME NEW r \in Runs, DeleteAccount(r) PROVE WelcomedInv'
  BY <1>17, DeleteAccountRun DEF Becomes
<1>18. ASSUME NEW r \in Runs, MoveDeletedMember(r) PROVE WelcomedInv'
  BY <1>18, MoveDeletedMemberRun DEF Becomes, Parted, PartBatch
<1>19. ASSUME NEW r \in Runs, MoveDeletedMemberFails(r) PROVE WelcomedInv'
  BY <1>19, MoveDeletedMemberFailsRun DEF Becomes, Parted, PartBatch
<1>20. ASSUME NEW r \in Runs, Crash(r) PROVE WelcomedInv'
  BY <1>20, CrashRun
<1>21. ASSUME NEW r \in Runs, NEW noop \in BOOLEAN, Begin(r, noop)
       PROVE WelcomedInv'
  BY <1>21, BeginRun
<1>22. ASSUME NEW u \in Uuids, MoveApplicantToNewMember(u) PROVE WelcomedInv'
  BY <1>22 DEF MoveApplicantToNewMember
<1>23. ASSUME NEW u \in Uuids, MoveQueuedRecordToTrash(u) PROVE WelcomedInv'
  BY <1>23 DEF MoveQueuedRecordToTrash
<1>24. ASSUME NEW u \in Uuids, MoveMemberToTrash(u) PROVE WelcomedInv'
  BY <1>24 DEF MoveMemberToTrash
<1>25. ASSUME NEW n \in Administered, NEW g \in OtherGroups, Administer(n, g)
       PROVE WelcomedInv'
  BY <1>25 DEF Administer
<1>. QED
  BY <1>1, <1>2, <1>3, <1>4, <1>5, <1>6, <1>7, <1>8, <1>9, <1>10, <1>11, <1>12,
     <1>13, <1>14, <1>15, <1>16, <1>17, <1>18, <1>19, <1>20, <1>21, <1>22, <1>23,
     <1>24,
     <1>25
     DEF Next, Step, Frontend

(* Nobody is welcomed who is not in members. *)
THEOREM WelcomedAreAllMembers == Spec => []WelcomedAreMembers
<1>1. Init => WelcomedInv
  <2>. SUFFICES ASSUME Init PROVE WelcomedInv
    OBVIOUS
  <2>1. \A r \in Runs : run[r].pc = "idle"
    BY DEF Init, Idle
  <2>. QED
    BY <2>1 DEF Init, WelcomedInv, WelcomedAreMembers
<1>2. WelcomedInv => WelcomedAreMembers
  BY DEF WelcomedInv
<1>. QED
  BY <1>1, <1>2, WelcomedStep, Typed, PTL DEF Spec
-----------------------------------------------------------------------------
(* The groups: between the search and the deletion, nothing but the          *)
(* administrators changes who is in the other groups.                        *)
OthersInv ==
  \A r \in Runs :
    run[r].pc = "delete" /\ Named(run[r].request)
      /\ Uid(run[r].request) \notin Administered
    => \A g \in OtherGroups : Uid(run[r].request) \notin groups[g]

LEMMA OthersStep ==
  TypeInv /\ OthersInv /\ [Next]_vars => OthersInv'
<1>. SUFFICES ASSUME run \in [Runs -> RunStates],
                     groups \in [Groups -> SUBSET Names],
                     OthersInv, [Next]_vars
              PROVE  OthersInv'
  BY DEF TypeInv, TypeOK
<1>. USE DEF OthersInv, ldap
<1>1. CASE UNCHANGED vars
  BY <1>1 DEF vars
<1>2. ASSUME NEW r \in Runs, Search(r) PROVE OthersInv'
  BY <1>2, SearchRun DEF Becomes, HighestUid
<1>3. ASSUME NEW r \in Runs, EnumerateQueued(r) PROVE OthersInv'
  BY <1>3, EnumerateQueuedRun DEF Becomes, Listed
<1>4. ASSUME NEW r \in Runs, EnumerateDequeued(r) PROVE OthersInv'
  BY <1>4, EnumerateDequeuedRun DEF Becomes, Listed
<1>5. ASSUME NEW r \in Runs, End(r) PROVE OthersInv'
  BY <1>5, EndRun
<1>6. ASSUME NEW r \in Runs, NEW u \in Uuids, WithoutAccount(r, u)
       PROVE OthersInv'
  BY <1>6, WithoutAccountRun DEF Becomes
<1>7. ASSUME NEW r \in Runs, NEW u \in Uuids, AddAccount(r, u) PROVE OthersInv'
  BY <1>7, AddAccountRun DEF Becomes
<1>8. ASSUME NEW r \in Runs, NEW u \in Uuids, AddAccountFails(r, u)
       PROVE OthersInv'
  BY <1>8, AddAccountFailsRun DEF Becomes
<1>9. ASSUME NEW r \in Runs, AddToGroup(r) PROVE OthersInv'
  <2>1. PICK g \in run[r].todo :
          /\ Becomes(r, run[r].pc, run[r].greatestUid, run[r].requests,
                     run[r].request, run[r].todo \ {g})
          /\ \/ groups' = [groups EXCEPT ![g] = @ \cup {Username[run[r].request]}]
             \/ groups' = groups
    BY <1>9, AddToGroupRun
  <2>2. \A h \in OtherGroups : groups'[h] = groups[h]
    BY <2>1, RunFields DEF Groups
  <2>. QED
    BY <2>1, <2>2 DEF Becomes
<1>10. ASSUME NEW r \in Runs, MoveNewMember(r) PROVE OthersInv'
  BY <1>10, MoveNewMemberRun DEF Becomes, JoinBatch, Joined
<1>11. ASSUME NEW r \in Runs, MoveNewMemberFails(r) PROVE OthersInv'
  BY <1>11, MoveNewMemberFailsRun DEF Becomes, JoinBatch, Joined
<1>12. ASSUME NEW r \in Runs, SendMail(r) PROVE OthersInv'
  BY <1>12, SendMailRun DEF Becomes
<1>13. ASSUME NEW r \in Runs, NEW u \in Uuids, WouldRemove(r, u)
       PROVE OthersInv'
  BY <1>13, WouldRemoveRun DEF Becomes
<1>14. ASSUME NEW r \in Runs, NEW u \in Uuids, SearchGroups(r, u)
       PROVE OthersInv'
  BY <1>14, SearchGroupsRun DEF Becomes, InOtherGroups, Groups
<1>15. ASSUME NEW r \in Runs, NEW u \in Uuids, SearchGroupsFails(r, u)
       PROVE OthersInv'
  BY <1>15, SearchGroupsFailsRun DEF Becomes
<1>16. ASSUME NEW r \in Runs, LeaveGroup(r) PROVE OthersInv'
  <2>1. PICK g \in run[r].todo :
          /\ Becomes(r, run[r].pc, run[r].greatestUid, run[r].requests,
                     run[r].request, run[r].todo \ {g})
          /\ \/ groups' = [groups EXCEPT ![g] = @ \ {Uid(run[r].request)}]
             \/ groups' = groups
    BY <1>16, LeaveGroupRun
  <2>2. \A h \in OtherGroups : groups'[h] = groups[h]
    BY <2>1, RunFields DEF Groups
  <2>. QED
    BY <2>1, <2>2 DEF Becomes
<1>17. ASSUME NEW r \in Runs, DeleteAccount(r) PROVE OthersInv'
  BY <1>17, DeleteAccountRun DEF Becomes
<1>18. ASSUME NEW r \in Runs, MoveDeletedMember(r) PROVE OthersInv'
  BY <1>18, MoveDeletedMemberRun DEF Becomes, Parted, PartBatch
<1>19. ASSUME NEW r \in Runs, MoveDeletedMemberFails(r) PROVE OthersInv'
  BY <1>19, MoveDeletedMemberFailsRun DEF Becomes, Parted, PartBatch
<1>20. ASSUME NEW r \in Runs, Crash(r) PROVE OthersInv'
  BY <1>20, CrashRun
<1>21. ASSUME NEW r \in Runs, NEW noop \in BOOLEAN, Begin(r, noop)
       PROVE OthersInv'
  BY <1>21, BeginRun
<1>22. ASSUME NEW u \in Uuids, MoveApplicantToNewMember(u) PROVE OthersInv'
  BY <1>22 DEF MoveApplicantToNewMember
<1>23. ASSUME NEW u \in Uuids, MoveQueuedRecordToTrash(u) PROVE OthersInv'
  BY <1>23 DEF MoveQueuedRecordToTrash
<1>24. ASSUME NEW u \in Uuids, MoveMemberToTrash(u) PROVE OthersInv'
  BY <1>24 DEF MoveMemberToTrash
<1>25. ASSUME NEW n \in Administered, NEW g \in OtherGroups, Administer(n, g)
       PROVE OthersInv'
  <2>1. \A h \in OtherGroups : \A m : m \in groups'[h] => m \in groups[h] \/ m = n
    BY <1>25 DEF Administer, Groups
  <2>2. run' = run
    BY <1>25 DEF Administer
  <2>. QED
    BY <2>1, <2>2
<1>. QED
  BY <1>1, <1>2, <1>3, <1>4, <1>5, <1>6, <1>7, <1>8, <1>9, <1>10, <1>11, <1>12,
     <1>13, <1>14, <1>15, <1>16, <1>17, <1>18, <1>19, <1>20, <1>21, <1>22, <1>23,
     <1>24,
     <1>25
     DEF Next, Step, Frontend

(* Nobody who is in other groups loses the account, however many runs are    *)
(* under way, unless the groups were changed by somebody else meanwhile.     *)
THEOREM OthersAreKept == Spec => OthersKept
<1>1. Init => OthersInv
  <2>. SUFFICES ASSUME Init PROVE OthersInv
    OBVIOUS
  <2>1. \A r \in Runs : run[r].pc = "idle"
    BY DEF Init, Idle
  <2>. QED
    BY <2>1 DEF OthersInv
<1>2. TypeInv /\ OthersInv /\ [Next]_vars => OthersInv'
  BY OthersStep
<1>. DEFINE Kept == \A n \in LdapNames \ Administered :
                      account[n] # NoAccount /\ account'[n] = NoAccount
                        => \A g \in OtherGroups : n \notin groups[g]
<1>3. TypeInv /\ OthersInv /\ [Next]_vars => [Kept]_vars
  <2>. SUFFICES ASSUME run \in [Runs -> RunStates],
                       account \in [LdapNames -> {NoAccount} \cup MinUid .. MaxUid],
                       OthersInv, Next
                PROVE  Kept
    BY DEF TypeInv, TypeOK
  <2>1. CASE \E r \in Runs : DeleteAccount(r)
    BY <2>1, DeleteAccountRun DEF OthersInv
  <2>2. CASE \E r \in Runs, u \in Uuids : AddAccount(r, u) \/ AddAccountFails(r, u)
    BY <2>2, AddAccountRun, AddAccountFailsRun
  <2>3. CASE UNCHANGED account
    BY <2>3
  <2>. QED
    BY <2>1, <2>2, <2>3 DEF Next, Step, Frontend, ldap, Search, EnumerateQueued,
       EnumerateDequeued, End, WithoutAccount, AddToGroup, MoveNewMember,
       MoveNewMemberFails, SendMail, WouldRemove, SearchGroups, SearchGroupsFails,
       LeaveGroup, MoveDeletedMember, MoveDeletedMemberFails, Crash, Begin,
       MoveApplicantToNewMember, MoveQueuedRecordToTrash, MoveMemberToTrash,
       Administer
<1>. QED
  BY <1>1, <1>2, <1>3, Typed, PTL DEF Spec, OthersKept
-----------------------------------------------------------------------------
(* The purge: what has been done to the account and the groups of somebody   *)
(* who has departed stays done, as the run that does it and all others go on. *)
Plain(u) == Named(u) /\ Username[u] = Uid(u) /\ Uid(u) \notin Administered

(* All has been removed but what is in the groups of todo. *)
Removed(u, todo) ==
  \/ account[Uid(u)] = NoAccount
  \/ /\ \E g \in OtherGroups : Uid(u) \in groups[g]
     /\ \A g \in NewGroups \ todo : Username[u] \notin groups[g]

StaysRemoved(u) ==
  /\ account[Uid(u)] = NoAccount => account'[Uid(u)] = NoAccount
  /\ \A g \in OtherGroups : Uid(u) \in groups[g] => Uid(u) \in groups'[g]
  /\ \A g \in NewGroups : Username[u] \notin groups[g] => Username[u] \notin groups'[g]

LEMMA RemovedStays ==
  ASSUME NEW u, NEW todo, StaysRemoved(u), Removed(u, todo)
  PROVE  Removed(u, todo)'
BY DEF StaysRemoved, Removed

LEMMA StaysRemovedStep ==
  DistinctUids /\ TypeInv /\ PlacesInv /\ [Next]_vars
    => \A u \in Uuids : Departing(u) /\ Plain(u) => StaysRemoved(u)
<1>. SUFFICES ASSUME DistinctUids, run \in [Runs -> RunStates],
                     account \in [LdapNames -> {NoAccount} \cup MinUid .. MaxUid],
                     groups \in [Groups -> SUBSET Names], CurrentRequest,
                     PlacesInv, [Next]_vars,
                     NEW u \in Uuids, Departing(u), Plain(u)
              PROVE  StaysRemoved(u)
  BY DEF TypeInv, TypeOK
<1>. Named(u) /\ Username[u] = Uid(u) /\ Uid(u) \notin Administered
  BY DEF Plain
<1>1. ASSUME NEW r \in Runs, NEW v \in Uuids, AddAccount(r, v) \/ AddAccountFails(r, v)
      PROVE  StaysRemoved(u)
  <2>1. /\ run[r].pc = "join" /\ v \in run[r].requests /\ Named(v)
        /\ groups' = groups
        /\ \/ account' = account
           \/ account' = [account EXCEPT ![Uid(v)] = NextUid(r)]
    <3>1. CASE AddAccount(r, v)
      BY <3>1, AddAccountRun
    <3>2. CASE AddAccountFails(r, v)
      BY <3>2, AddAccountFailsRun
    <3>. QED
      BY <1>1, <3>1, <3>2
  <2>2. v # u
    BY <2>1 DEF PlacesInv, Stays
  <2>3. Uid(v) # Uid(u) /\ Uid(v) \in LdapNames /\ Uid(u) \in LdapNames
    BY <2>1, <2>2, LdapTypes DEF DistinctUids
  <2>4. account'[Uid(u)] = account[Uid(u)]
    BY <2>1, <2>3
  <2>. QED
    BY <2>1, <2>4 DEF StaysRemoved
<1>2. ASSUME NEW r \in Runs, AddToGroup(r) PROVE StaysRemoved(u)
  <2>1. PICK g \in run[r].todo :
          /\ Becomes(r, run[r].pc, run[r].greatestUid, run[r].requests,
                     run[r].request, run[r].todo \ {g})
          /\ \/ groups' = [groups EXCEPT ![g] = @ \cup {Username[run[r].request]}]
             \/ groups' = groups
    BY <1>2, AddToGroupRun
  <2>2. /\ run[r].request \in Uuids /\ Named(run[r].request)
        /\ run[r].request # u
    BY <1>2, <2>1, AddToGroupRun DEF CurrentRequest, PlacesInv, Stays
  <2>3. Uid(run[r].request) # Uid(u)
    BY <2>2 DEF DistinctUids
  <2>4. Username[run[r].request] # Username[u]
    BY <2>3 DEF Uid
  <2>5. g \in NewGroups /\ g \in Groups
    BY <2>1, RunFields DEF Groups
  <2>6. account' = account
    BY <1>2, AddToGroupRun
  <2>7. \A h \in OtherGroups : groups'[h] = groups[h]
    BY <2>1, <2>5 DEF Groups
  <2>8. \A h \in NewGroups : Username[u] \in groups'[h] => Username[u] \in groups[h]
    BY <2>1, <2>4, <2>5 DEF Groups
  <2>. QED
    BY <2>6, <2>7, <2>8 DEF StaysRemoved
<1>3. ASSUME NEW r \in Runs, LeaveGroup(r) PROVE StaysRemoved(u)
  <2>1. PICK g \in run[r].todo :
          \/ groups' = [groups EXCEPT ![g] = @ \ {Uid(run[r].request)}]
          \/ groups' = groups
    BY <1>3, LeaveGroupRun
  <2>2. g \in NewGroups /\ g \in Groups
    BY <2>1, RunFields DEF Groups
  <2>3. account' = account
    BY <1>3, LeaveGroupRun
  <2>4. \A h \in OtherGroups : groups'[h] = groups[h]
    BY <2>1, <2>2 DEF Groups
  <2>5. \A h \in NewGroups : groups'[h] \subseteq groups[h]
    BY <2>1, <2>2 DEF Groups
  <2>. QED
    BY <2>3, <2>4, <2>5 DEF StaysRemoved
<1>4. ASSUME NEW r \in Runs, DeleteAccount(r) PROVE StaysRemoved(u)
  BY <1>4, LdapTypes, DeleteAccountRun DEF StaysRemoved
<1>5. ASSUME NEW n \in Administered, NEW g \in OtherGroups, Administer(n, g)
      PROVE  StaysRemoved(u)
  <2>1. account' = account
    BY <1>5 DEF Administer
  <2>2. \A h \in OtherGroups : Uid(u) \in groups[h] => Uid(u) \in groups'[h]
    BY <1>5 DEF Administer, Groups
  <2>3. \A h \in NewGroups : groups'[h] = groups[h]
    BY <1>5 DEF Administer, Groups
  <2>. QED
    BY <2>1, <2>2, <2>3 DEF StaysRemoved
<1>6. CASE UNCHANGED ldap
  BY <1>6 DEF StaysRemoved, ldap
<1>. QED
  BY <1>1, <1>2, <1>3, <1>4, <1>5, <1>6
     DEF Next, Step, Frontend, vars, Search, EnumerateQueued, EnumerateDequeued,
     End, WithoutAccount, MoveNewMember, MoveNewMemberFails, SendMail, WouldRemove,
     SearchGroups, SearchGroupsFails, MoveDeletedMember, MoveDeletedMemberFails,
     Crash, Begin, MoveApplicantToNewMember, MoveQueuedRecordToTrash,
     MoveMemberToTrash

PurgedInv ==
  /\ \A u \in purged : Departing(u)
  /\ \A u \in purged \ failed : Plain(u) => Removed(u, {})
  /\ \A r \in Runs : \A u \in Uuids \ failed, todo \in SUBSET NewGroups :
       /\ run[r].pc = "parting" /\ ~ run[r].noop
       /\ run[r].request = u /\ run[r].todo = todo /\ Plain(u)
       => Removed(u, todo)

LEMMA PurgedStep ==
  DistinctUids /\ TypeInv /\ PlacesInv /\ PurgedInv /\ [Next]_vars => PurgedInv'
<1>. SUFFICES ASSUME TypeInv, PlacesInv, PurgedInv, [Next]_vars, DistinctUids
              PROVE  PurgedInv'
  OBVIOUS
<1>a. /\ run \in [Runs -> RunStates] /\ purged \subseteq Uuids /\ CurrentRequest
      /\ groups \in [Groups -> SUBSET Names]
      /\ account \in [LdapNames -> {NoAccount} \cup MinUid .. MaxUid]
      /\ \A r \in Runs : run[r].todo \in SUBSET NewGroups
  BY RunFields DEF TypeInv, TypeOK
<1>b. \A u \in Uuids : Departing(u) /\ Plain(u) => StaysRemoved(u)
  BY StaysRemovedStep
(* A step of r that neither archives nor is a removal leaves what has been    *)
(* removed so.                                                                *)
<1>c. ASSUME \A u \in Uuids : Departing(u) => Departing(u)',
             NEW r \in Runs, \A s \in Runs \ {r} : run'[s] = run[s],
             failed \subseteq failed'
      PROVE  /\ \A u \in purged : Departing(u)'
             /\ \A u \in purged \ failed' : Plain(u) => Removed(u, {})'
             /\ \A s \in Runs \ {r} : \A u \in Uuids \ failed', todo \in SUBSET NewGroups :
                  /\ run'[s].pc = "parting" /\ ~ run'[s].noop
                  /\ run'[s].request = u /\ run'[s].todo = todo /\ Plain(u)
                  => Removed(u, todo)'
  <2>1. \A u \in purged : Departing(u)'
    BY <1>a, <1>c DEF PurgedInv
  <2>2. \A u \in purged \ failed' : Plain(u) => Removed(u, {})'
    BY <1>a, <1>b, <1>c, RemovedStays DEF PurgedInv
  <2>3. ASSUME NEW s \in Runs \ {r}, NEW u \in Uuids \ failed',
               NEW todo \in SUBSET NewGroups,
               run'[s].pc = "parting", ~ run'[s].noop,
               run'[s].request = u, run'[s].todo = todo, Plain(u)
        PROVE  Removed(u, todo)'
    <3>1. run[s].pc = "parting" /\ ~ run[s].noop /\ run[s].request = u
          /\ run[s].todo = todo /\ s \in Runs /\ u \in Uuids \ failed
      BY <1>c, <2>3
    <3>2. Removed(u, todo)
      BY <2>3, <3>1 DEF PurgedInv
    <3>3. Departing(u)
      BY <3>1 DEF PlacesInv
    <3>. QED
      BY <1>b, <2>3, <3>1, <3>2, <3>3, RemovedStays
  <2>. QED
    BY <2>1, <2>2, <2>3
<1>d. ASSUME dequeue' = dequeue, NEW r \in Runs,
             \A s \in Runs \ {r} : run'[s] = run[s],
             failed \subseteq failed', purged' = purged,
             \A u \in Uuids \ failed', todo \in SUBSET NewGroups :
                  /\ run'[r].pc = "parting" /\ ~ run'[r].noop
                  /\ run'[r].request = u /\ run'[r].todo = todo /\ Plain(u)
                  => Removed(u, todo)'
      PROVE  PurgedInv'
  <2>1. \A u \in Uuids : Departing(u) => Departing(u)'
    BY <1>d DEF Departing
  <2>. QED
    BY <1>c, <1>d, <2>1 DEF PurgedInv, Plain, Named, Uid
<1>e. ASSUME dequeue' = dequeue, NEW r \in Runs,
             \A s \in Runs \ {r} : run'[s] = run[s],
             failed' = failed, purged' = purged, run'[r].pc # "parting"
      PROVE  PurgedInv'
  BY <1>d, <1>e
<1>f. ASSUME \A u \in Uuids : Departing(u) => Departing(u)',
             run' = run, failed' = failed, purged' = purged
      PROVE  PurgedInv'
  <2>1. ASSUME NEW s \in Runs, NEW u \in Uuids \ failed,
               NEW todo \in SUBSET NewGroups,
               run[s].pc = "parting", ~ run[s].noop,
               run[s].request = u, run[s].todo = todo, Plain(u)
        PROVE  Removed(u, todo)'
    <3>1. Removed(u, todo) /\ Departing(u)
      BY <2>1 DEF PurgedInv, PlacesInv
    <3>. QED
      BY <1>b, <2>1, <3>1, RemovedStays
  <2>2. \A u \in purged : Departing(u)'
    BY <1>a, <1>f DEF PurgedInv
  <2>3. \A u \in purged \ failed : Plain(u) => Removed(u, {})'
    BY <1>a, <1>b, <1>f, RemovedStays DEF PurgedInv
  <2>. QED
    BY <1>f, <2>1, <2>2, <2>3 DEF PurgedInv, Plain, Named, Uid
<1>. USE <1>a DEF tables, ldap, history
<1>1. CASE UNCHANGED vars
  BY <1>f, <1>1 DEF vars, Departing
<1>2. ASSUME NEW r \in Runs, Search(r) PROVE PurgedInv'
  BY <1>2, <1>e, SearchRun DEF Becomes
<1>3. ASSUME NEW r \in Runs, EnumerateQueued(r) PROVE PurgedInv'
  BY <1>3, <1>e, EnumerateQueuedRun DEF Becomes
<1>4. ASSUME NEW r \in Runs, EnumerateDequeued(r) PROVE PurgedInv'
  BY <1>4, <1>e, EnumerateDequeuedRun DEF Becomes
<1>5. ASSUME NEW r \in Runs, End(r) PROVE PurgedInv'
  BY <1>5, <1>e, EndRun
<1>6. ASSUME NEW r \in Runs, NEW u \in Uuids, WithoutAccount(r, u)
       PROVE PurgedInv'
  BY <1>6, <1>e, WithoutAccountRun DEF Becomes
<1>7. ASSUME NEW r \in Runs, NEW u \in Uuids, AddAccount(r, u) PROVE PurgedInv'
  BY <1>7, <1>e, AddAccountRun DEF Becomes
<1>8. ASSUME NEW r \in Runs, NEW u \in Uuids, AddAccountFails(r, u)
       PROVE PurgedInv'
  BY <1>8, <1>e, AddAccountFailsRun DEF Becomes
<1>9. ASSUME NEW r \in Runs, AddToGroup(r) PROVE PurgedInv'
  BY <1>9, <1>e, AddToGroupRun DEF Becomes
<1>10. ASSUME NEW r \in Runs, MoveNewMember(r) PROVE PurgedInv'
  BY <1>10, <1>e, MoveNewMemberRun DEF Becomes, Joined
<1>11. ASSUME NEW r \in Runs, MoveNewMemberFails(r) PROVE PurgedInv'
  BY <1>11, <1>e, MoveNewMemberFailsRun DEF Becomes, Joined
<1>12. ASSUME NEW r \in Runs, SendMail(r) PROVE PurgedInv'
  BY <1>12, <1>e, SendMailRun DEF Becomes
<1>13. ASSUME NEW r \in Runs, NEW u \in Uuids, WouldRemove(r, u)
       PROVE PurgedInv'
  BY <1>13, <1>d, WouldRemoveRun DEF Becomes
<1>14. ASSUME NEW r \in Runs, NEW u \in Uuids, SearchGroups(r, u)
       PROVE PurgedInv'
  <2>1. CASE InOtherGroups(u) /\ Becomes(r, "parting", run[r].greatestUid,
                                         run[r].requests \ {u}, u, NewGroups)
    <3>1. Removed(u, NewGroups)
      BY <2>1 DEF InOtherGroups, Removed, Groups
    <3>2. account' = account /\ groups' = groups /\ dequeue' = dequeue
          /\ failed' = failed /\ purged' = purged
      BY <1>14, SearchGroupsRun
    <3>3. Removed(u, NewGroups)'
      BY <3>1, <3>2 DEF Removed
    <3>. QED
      BY <1>d, <2>1, <3>2, <3>3 DEF Becomes
  <2>2. CASE Becomes(r, "delete", run[r].greatestUid, run[r].requests \ {u}, u, {})
    BY <1>14, <2>2, <1>e, SearchGroupsRun DEF Becomes
  <2>. QED
    BY <1>14, <2>1, <2>2, SearchGroupsRun
<1>15. ASSUME NEW r \in Runs, NEW u \in Uuids, SearchGroupsFails(r, u)
       PROVE PurgedInv'
  BY <1>15, <1>e, SearchGroupsFailsRun DEF Becomes
<1>16. ASSUME NEW r \in Runs, LeaveGroup(r) PROVE PurgedInv'
  <2>1. PICK g \in run[r].todo :
          /\ Becomes(r, run[r].pc, run[r].greatestUid, run[r].requests,
                     run[r].request, run[r].todo \ {g})
          /\ \/ /\ groups' = [groups EXCEPT ![g] = @ \ {Uid(run[r].request)}]
                /\ failed' = failed
             \/ groups' = groups /\ failed' = failed \cup {run[r].request}
    BY <1>16, LeaveGroupRun
  <2>2. run[r].pc = "parting" /\ account' = account /\ dequeue' = dequeue
        /\ purged' = purged
    BY <1>16, LeaveGroupRun
  <2>3. ASSUME NEW u \in Uuids \ failed', NEW todo \in SUBSET NewGroups,
               u = run[r].request, ~ run[r].noop, Plain(u), todo = run[r].todo \ {g}
        PROVE  Removed(u, todo)'
    <3>1. u \notin failed
      BY <2>1, <2>3
    <3>2. PICK before \in SUBSET NewGroups : before = run[r].todo
      OBVIOUS
    <3>3. Removed(u, before) /\ Departing(u)
      BY <2>2, <2>3, <3>1, <3>2 DEF PurgedInv, PlacesInv
    <3>4. Removed(u, before)'
      BY <1>b, <2>3, <3>3, RemovedStays
    <3>5. groups' = [groups EXCEPT ![g] = @ \ {Username[u]}] /\ g \in Groups
      BY <2>1, <2>3 DEF Plain, Groups
    <3>6. Username[u] \notin groups'[g]
      BY <3>5
    <3>. QED
      BY <2>3, <3>2, <3>6, <3>4 DEF Removed
  <2>4. ASSUME NEW u \in Uuids \ failed', NEW todo \in SUBSET NewGroups,
               ~ run'[r].noop, run'[r].request = u, run'[r].todo = todo, Plain(u)
        PROVE  Removed(u, todo)'
    BY <2>1, <2>3, <2>4 DEF Becomes
  <2>5. failed \subseteq failed' /\ \A s \in Runs \ {r} : run'[s] = run[s]
    BY <2>1 DEF Becomes
  <2>. QED
    BY <1>d, <2>2, <2>4, <2>5
<1>17. ASSUME NEW r \in Runs, DeleteAccount(r) PROVE PurgedInv'
  <2>1. ASSUME NEW u \in Uuids \ failed', run[r].request = u, Plain(u)
        PROVE  account'[Uid(u)] = NoAccount
    BY <1>17, <2>1, LdapTypes, DeleteAccountRun DEF Plain
  <2>2. ASSUME NEW u \in Uuids \ failed', NEW todo \in SUBSET NewGroups,
               run'[r].request = u, Plain(u)
        PROVE  Removed(u, todo)'
    <3>1. run[r].request = u
      BY <1>17, <2>2, DeleteAccountRun DEF Becomes
    <3>. QED
      BY <2>1, <2>2, <3>1 DEF Removed
  <2>3. /\ failed \subseteq failed' /\ \A s \in Runs \ {r} : run'[s] = run[s]
        /\ dequeue' = dequeue /\ purged' = purged
    BY <1>17, DeleteAccountRun DEF Becomes
  <2>. QED
    BY <1>d, <2>2, <2>3
<1>18. ASSUME NEW r \in Runs, MoveDeletedMember(r) \/ MoveDeletedMemberFails(r)
       PROVE PurgedInv'
  <2>1. /\ run[r].pc = "parting" /\ run[r].todo = {} /\ run'[r].pc # "parting"
        /\ \A s \in Runs \ {r} : run'[s] = run[s]
        /\ dequeue' = dequeue \/ dequeue' = dequeue \ {<<"text", run[r].request>>}
        /\ \/ purged' = purged
           \/ ~ run[r].noop /\ purged' = purged \cup {run[r].request}
        /\ account' = account /\ groups' = groups /\ failed' = failed
    <3>1. CASE MoveDeletedMember(r)
      BY <3>1, MoveDeletedMemberRun DEF Becomes, Parted, PartBatch
    <3>2. CASE MoveDeletedMemberFails(r)
      BY <3>2, MoveDeletedMemberFailsRun DEF Becomes, Parted, PartBatch
    <3>. QED
      BY <1>18, <3>1, <3>2
  <2>2. \A u \in Uuids : Departing(u) => Departing(u)'
    BY <2>1 DEF Departing
  <2>3. /\ run[r].request \in Uuids
        /\ \A u \in Uuids : u = run[r].request => Departing(u)'
    BY <2>1, <2>2 DEF PlacesInv, CurrentRequest
  <2>4. ASSUME NEW u \in Uuids \ failed', u = run[r].request, ~ run[r].noop, Plain(u)
        PROVE  Removed(u, {})'
    <3>1. Removed(u, {}) /\ Departing(u)
      BY <2>1, <2>4 DEF PurgedInv, PlacesInv
    <3>. QED
      BY <1>b, <2>4, <3>1, RemovedStays
  <2>5. ASSUME NEW u \in purged' PROVE Departing(u)'
    BY <1>c, <2>1, <2>2, <2>3, <2>5
  <2>6. \A u \in purged' \ failed' : Plain(u) => Removed(u, {})'
    BY <1>c, <2>1, <2>2, <2>3, <2>4
  <2>. QED
    BY <1>c, <2>1, <2>2, <2>5, <2>6 DEF PurgedInv, Plain, Named, Uid
<1>20. ASSUME NEW r \in Runs, Crash(r) PROVE PurgedInv'
  BY <1>20, <1>e, CrashRun
<1>21. ASSUME NEW r \in Runs, NEW noop \in BOOLEAN, Begin(r, noop)
       PROVE PurgedInv'
  BY <1>21, <1>e, BeginRun
<1>22. ASSUME NEW u \in Uuids, MoveApplicantToNewMember(u) PROVE PurgedInv'
  BY <1>22, <1>f DEF MoveApplicantToNewMember, Departing
<1>23. ASSUME NEW u \in Uuids, MoveQueuedRecordToTrash(u) PROVE PurgedInv'
  BY <1>23, <1>f DEF MoveQueuedRecordToTrash, Departing
<1>24. ASSUME NEW u \in Uuids, MoveMemberToTrash(u) PROVE PurgedInv'
  BY <1>24, <1>f DEF MoveMemberToTrash, Departing
<1>25. ASSUME NEW n \in Administered, NEW g \in OtherGroups, Administer(n, g)
       PROVE PurgedInv'
  BY <1>25, <1>f DEF Administer, Departing
<1>. QED
  BY <1>1, <1>2, <1>3, <1>4, <1>5, <1>6, <1>7, <1>8, <1>9, <1>10, <1>11, <1>12,
     <1>13, <1>14, <1>15, <1>16, <1>17, <1>18, <1>20, <1>21, <1>22, <1>23,
     <1>24, <1>25
     DEF Next, Step, Frontend

(* When no two records have the same name after asciiFilter, whom a run that  *)
(* was not dry has archived has no account, or one that is only in other      *)
(* groups, unless the removal itself reported an error.                       *)
THEOREM ArchivedAreAllPurged ==
  ASSUME DistinctUids PROVE Spec => []ArchivedArePurged
<1>1. Init => PlacesInv /\ PurgedInv
  <2>. SUFFICES ASSUME Init PROVE PlacesInv /\ PurgedInv
    OBVIOUS
  <2>1. \A r \in Runs : run[r].pc = "idle"
    BY DEF Init, Idle
  <2>2. provisioned = {} /\ purged = {}
    BY DEF Init
  <2>3. \A u \in Uuids : <<"raw", u>> \in application \cup queue => Stays(u)
    BY DEF Init, Stays, Departing
  <2>. QED
    BY <2>1, <2>2, <2>3 DEF PlacesInv, PurgedInv
<1>2. TypeInv /\ PurgedInv => ArchivedArePurged
  BY DEF TypeInv, TypeOK, PurgedInv, ArchivedArePurged, Plain, Removed
<1>3. TypeInv /\ PlacesInv /\ PurgedInv /\ [Next]_vars => PurgedInv'
  BY PurgedStep
<1>. QED
  BY <1>1, <1>2, <1>3, PlacesStep, Typed, PTL DEF Spec
-----------------------------------------------------------------------------
(* The refinement of MemberAccounts: an account is made for whom the run has  *)
(* taken from the queue, who has not departed, with a number above all; the   *)
(* move to members finds it; who is mailed to is a member; whose account is   *)
(* removed has departed.  All other steps leave what MemberAccounts sees.     *)
JoinedMembers == {u \in Uuids : members[u] = "joined"}

Unseen ==
  /\ account' = account /\ Listed(dequeue') = Listed(dequeue)
  /\ JoinedMembers' = JoinedMembers
  /\ provisioned' = provisioned /\ welcomed' = welcomed

LEMMA UnseenStutters == Unseen => UNCHANGED Accounts!vars
BY DEF Unseen, Accounts!vars, JoinedMembers, Listed

LEMMA NamesOf ==
  \A u \in Uuids :
    Named(u) => /\ Uid(u) \in LdapNames /\ Uid(u) # NoName
                /\ [v \in Uuids |-> IF Named(v) THEN Uid(v) ELSE NoName][u] = Uid(u)
BY LdapTypes

LEMMA AccountAppears ==
  ASSUME NEW r \in Runs, NEW u \in Uuids, TypeOK, PlacesInv, UidInv,
         run[r].pc = "join", ~ run[r].noop, u \in run[r].requests, Named(u),
         NextUid(r) \in MinUid .. MaxUid, account[Uid(u)] = NoAccount,
         account' = [account EXCEPT ![Uid(u)] = NextUid(r)],
         dequeue' = dequeue, members' = members,
         provisioned' = provisioned, welcomed' = welcomed
  PROVE  Accounts!MakeAccount(u)
<1>1. u \notin Listed(dequeue)
  BY DEF PlacesInv, Stays, Departing, Listed
<1>2. \A n \in LdapNames : account[n] # NextUid(r)
  <2>1. run[r].greatestUid \in Nat
    BY RunFields DEF TypeOK
  <2>2. \A n \in LdapNames :
          account[n] \in Nat /\ account[n] <= run[r].greatestUid
    BY DEF TypeOK, UidInv, Counting
  <2>. QED
    BY <2>1, <2>2 DEF NextUid
<1>. QED
  BY <1>1, <1>2, NamesOf DEF Accounts!MakeAccount, Listed

LEMMA JoinedJoins ==
  ASSUME NEW r \in Runs, TypeInv, PlacesInv, AccountsInv, run[r].pc = "joining",
         Joined(r), account' = account, dequeue' = dequeue, welcomed' = welcomed
  PROVE  \E u \in Uuids : Accounts!Join(u)
<1>1. PICK u \in Uuids : u = run[r].request
  BY DEF TypeInv, CurrentRequest
<1>2. u \notin Listed(dequeue)
  BY <1>1 DEF PlacesInv, Stays, Departing, Listed
<1>3. JoinedMembers' = JoinedMembers \cup {u}
  BY <1>1 DEF Joined, JoinBatch, JoinedMembers, TypeInv, TypeOK
<1>4. \/ provisioned' = provisioned
      \/ /\ Named(u) /\ account[Uid(u)] # NoAccount
         /\ provisioned' = provisioned \cup {u}
  BY <1>1 DEF Joined, AccountsInv
<1>5. Accounts!Join(u)
  BY <1>2, <1>3, <1>4, NamesOf DEF Accounts!Join, JoinedMembers, Listed
<1>. QED
  BY <1>5

LEMMA AccountsSimulated ==
  TypeInv /\ PlacesInv /\ AccountsInv /\ WelcomedInv /\ UidInv /\ [Next]_vars
    => [Accounts!Next]_(Accounts!vars)
<1>. SUFFICES ASSUME TypeInv, PlacesInv, AccountsInv, WelcomedInv, UidInv, [Next]_vars
              PROVE  Accounts!Next \/ UNCHANGED Accounts!vars
  OBVIOUS
<1>. TypeOK /\ run \in [Runs -> RunStates] /\ CurrentRequest
  BY DEF TypeInv, TypeOK
<1>a. (\E u \in Uuids : Accounts!MakeAccount(u) \/ Accounts!Join(u)
                          \/ Accounts!Welcome(u) \/ Accounts!RemoveAccount(u))
        => Accounts!Next
  BY DEF Accounts!Next
<1>1. ASSUME NEW r \in Runs, NEW u \in Uuids, AddAccount(r, u) PROVE Accounts!Next
  BY <1>1, <1>a, AccountAppears, AddAccountRun DEF tables, history
<1>2. ASSUME NEW r \in Runs, NEW u \in Uuids, AddAccountFails(r, u)
      PROVE  Accounts!Next \/ Unseen
  <2>1. CASE account' = account
    BY <1>2, <2>1, AddAccountFailsRun DEF Unseen, tables, history, JoinedMembers
  <2>2. CASE account' # account
    BY <1>2, <1>a, <2>2, AccountAppears, AddAccountFailsRun DEF tables, history
  <2>. QED
    BY <2>1, <2>2
<1>3. ASSUME NEW r \in Runs, MoveNewMember(r) PROVE Accounts!Next
  <2>1. /\ run[r].pc = "joining" /\ Joined(r)
        /\ account' = account /\ dequeue' = dequeue /\ welcomed' = welcomed
    BY <1>3, MoveNewMemberRun DEF ldap
  <2>. QED
    BY <1>a, <2>1, JoinedJoins
<1>4. ASSUME NEW r \in Runs, MoveNewMemberFails(r) PROVE Accounts!Next \/ Unseen
  <2>1. CASE Joined(r)
    <3>1. /\ run[r].pc = "joining"
          /\ account' = account /\ dequeue' = dequeue /\ welcomed' = welcomed
      BY <1>4, MoveNewMemberFailsRun DEF ldap
    <3>. QED
      BY <1>a, <2>1, <3>1, JoinedJoins
  <2>2. CASE UNCHANGED <<members, queue, provisioned>>
    BY <1>4, <2>2, MoveNewMemberFailsRun DEF ldap, Unseen, JoinedMembers
  <2>. QED
    BY <1>4, <2>1, <2>2, MoveNewMemberFailsRun
<1>5. ASSUME NEW r \in Runs, SendMail(r) PROVE Accounts!Next \/ Unseen
  <2>1. CASE welcomed' = welcomed
    BY <1>5, <2>1, SendMailRun DEF ldap, tables, Unseen, JoinedMembers
  <2>2. CASE welcomed' = welcomed \cup {run[r].request}
    <3>1. /\ run[r].pc = "mail" /\ run[r].request \in Uuids
          /\ members[run[r].request] = "joined"
      BY <1>5, SendMailRun DEF CurrentRequest, WelcomedInv
    <3>2. account' = account /\ dequeue' = dequeue /\ members' = members
          /\ provisioned' = provisioned
      BY <1>5, SendMailRun DEF tables, ldap
    <3>3. Accounts!Welcome(run[r].request)
      BY <2>2, <3>1, <3>2 DEF Accounts!Welcome, Listed
    <3>. QED
      BY <1>a, <3>1, <3>3
  <2>. QED
    BY <1>5, <2>1, <2>2, SendMailRun
<1>6. ASSUME NEW r \in Runs, DeleteAccount(r) PROVE Accounts!Next \/ Unseen
  <2>1. /\ run[r].pc = "delete" /\ run[r].request \in Uuids
        /\ run[r].request \in Listed(dequeue)
        /\ dequeue' = dequeue /\ members' = members
        /\ provisioned' = provisioned /\ welcomed' = welcomed
    BY <1>6, DeleteAccountRun DEF tables, PlacesInv, Departing, Listed,
       CurrentRequest
  <2>2. CASE account' = account
    BY <2>1, <2>2 DEF Unseen, JoinedMembers
  <2>3. CASE /\ Named(run[r].request)
             /\ account' = [account EXCEPT ![Uid(run[r].request)] = NoAccount]
    <3>1. Accounts!RemoveAccount(run[r].request)
      BY <2>1, <2>3, NamesOf DEF Accounts!RemoveAccount, Listed
    <3>. QED
      BY <1>a, <2>1, <3>1
  <2>. QED
    BY <1>6, <2>2, <2>3, DeleteAccountRun
<1>7. ASSUME NEW u \in Uuids, MoveMemberToTrash(u) PROVE Unseen
  <2>1. JoinedMembers' = JoinedMembers
    BY <1>7 DEF MoveMemberToTrash, JoinedMembers, TypeOK
  <2>. QED
    BY <1>7, <2>1 DEF MoveMemberToTrash, Unseen, Listed, ldap, history
<1>8. ASSUME NEW r \in Runs, MoveDeletedMember(r) \/ MoveDeletedMemberFails(r)
      PROVE  Unseen
  BY <1>8 DEF MoveDeletedMember, MoveDeletedMemberFails, Parted, PartBatch,
     Unseen,
              Listed, JoinedMembers, ldap
<1>b. UNCHANGED <<account, dequeue, members, provisioned, welcomed>> => Unseen
  BY DEF Unseen, JoinedMembers
<1>9. ASSUME NEW r \in Runs, NEW u \in Uuids,
             \/ WithoutAccount(r, u) \/ WouldRemove(r, u) \/ SearchGroups(r, u)
             \/ SearchGroupsFails(r, u)
      PROVE  Unseen
  BY <1>b, <1>9 DEF WithoutAccount, WouldRemove, SearchGroups, SearchGroupsFails,
                    tables, ldap, history
<1>10. ASSUME NEW r \in Runs, AddToGroup(r) \/ LeaveGroup(r) PROVE Unseen
  BY <1>b, <1>10 DEF AddToGroup, LeaveGroup, Failing, tables, history
<1>11. ASSUME NEW u \in Uuids, MoveApplicantToNewMember(u) \/ MoveQueuedRecordToTrash(u)
       PROVE  Unseen
  BY <1>b, <1>11 DEF MoveApplicantToNewMember, MoveQueuedRecordToTrash, ldap,
     history
<1>12. ASSUME NEW n \in Administered, NEW g \in OtherGroups, Administer(n, g)
       PROVE  Unseen
  BY <1>b, <1>12 DEF Administer, tables, history
<1>13. CASE UNCHANGED vars
  BY <1>b, <1>13, UnseenStutters DEF vars, tables, ldap, history
<1>14. ASSUME NEW r \in Runs, Step(r) PROVE Accounts!Next \/ Unseen
  <2>1. ASSUME NEW u \in Uuids,
               \/ WithoutAccount(r, u) \/ AddAccount(r, u) \/ AddAccountFails(r, u)
               \/ WouldRemove(r, u) \/ SearchGroups(r, u) \/ SearchGroupsFails(r, u)
        PROVE  Accounts!Next \/ Unseen
    BY <1>1, <1>2, <1>9, <2>1
  <2>2. CASE Search(r) \/ EnumerateQueued(r) \/ EnumerateDequeued(r) \/ End(r)
    BY <1>b, <2>2 DEF Search, EnumerateQueued, EnumerateDequeued, End, tables,
       ldap,
                      history
  <2>. QED
    BY <1>3, <1>4, <1>5, <1>6, <1>8, <1>10, <1>14, <2>1, <2>2 DEF Step
<1>15. ASSUME NEW r \in Runs, Crash(r) \/ \E noop \in BOOLEAN : Begin(r, noop)
       PROVE  Unseen
  BY <1>b, <1>15 DEF Crash, Begin, tables, ldap, history
<1>. QED
  BY <1>7, <1>11, <1>12, <1>13, <1>14, <1>15, UnseenStutters DEF Next, Frontend

(* When no two records have the same name after asciiFilter, and no two runs  *)
(* that make accounts are between search and the end of the queue at once,    *)
(* what becomes of the accounts is what MemberAccounts allows.                *)
THEOREM AccountsAreImplemented ==
  ASSUME DistinctUids PROVE Spec /\ []OneCounts => ImplementsAccounts
<1>1. Init => Accounts!Init
  <2>. SUFFICES ASSUME Init PROVE Accounts!Init
    OBVIOUS
  <2>1. JoinedMembers = {}
    BY DEF Init, JoinedMembers
  <2>2. account \in [LdapNames -> MinUid .. MaxUid \cup {NoAccount}]
    BY DEF Init
  <2>. QED
    BY <2>1, <2>2 DEF Init, Accounts!Init, JoinedMembers, Listed
<1>2. Init => PlacesInv /\ AccountsInv /\ WelcomedInv /\ UidInv
  <2>. SUFFICES ASSUME Init PROVE PlacesInv /\ AccountsInv /\ WelcomedInv /\ UidInv
    OBVIOUS
  <2>1. \A r \in Runs : run[r].pc = "idle"
    BY DEF Init, Idle
  <2>2. provisioned = {} /\ welcomed = {}
    BY DEF Init
  <2>3. \A u \in Uuids : <<"raw", u>> \in application \cup queue => Stays(u)
    BY DEF Init, Stays, Departing
  <2>4. UidNumbersDistinct
    BY DEF Init, UidNumbersDistinct
  <2>. QED
    BY <2>1, <2>2, <2>3, <2>4
       DEF PlacesInv, AccountsInv, MembersHaveAccounts, WelcomedInv,
           WelcomedAreMembers, UidInv, Counting
<1>3. TypeInv /\ PlacesInv /\ AccountsInv /\ [Next]_vars => AccountsInv'
  BY AccountsStep
<1>. QED
  BY <1>1, <1>2, <1>3, PlacesStep, WelcomedStep, UidStep, AccountsSimulated,
     Typed, PTL
     DEF Spec, ImplementsAccounts, Accounts!Spec
-----------------------------------------------------------------------------
(* The runs go on: each of their steps does one thing less to do.            *)
Onward(r) == run[r] # Idle /\ run'[r] # run[r] => Advances(run[r], run'[r])

LEMMA OthersRest ==
  ASSUME NEW r \in Runs, \A s \in Runs \ {r} : run'[s] = run[s], Onward(r)
  PROVE  \A s \in Runs : Onward(s)
BY DEF Onward

LEMMA OnwardStep ==
  ASSUME TypeInv, [Next]_vars PROVE \A s \in Runs : Onward(s)
<1>. run \in [Runs -> RunStates]
  BY DEF TypeInv, TypeOK
<1>1. ASSUME NEW r \in Runs, Search(r)
      PROVE  \A s \in Runs : Onward(s)
  BY <1>1, SearchRun, OthersRest DEF Becomes, Onward, Advances, Listings, Calls
<1>2. ASSUME NEW r \in Runs, EnumerateQueued(r)
      PROVE  \A s \in Runs : Onward(s)
  BY <1>2, EnumerateQueuedRun, OthersRest DEF Becomes, Onward, Advances,
     Listings, Calls
<1>3. ASSUME NEW r \in Runs, EnumerateDequeued(r)
      PROVE  \A s \in Runs : Onward(s)
  BY <1>3, EnumerateDequeuedRun, OthersRest DEF Becomes, Onward, Advances,
     Listings, Calls
<1>4. ASSUME NEW r \in Runs, End(r)
      PROVE  \A s \in Runs : Onward(s)
  BY <1>4, EndRun, OthersRest DEF Becomes, Onward, Advances, Listings, Calls
<1>5. ASSUME NEW r \in Runs, NEW u \in Uuids, WithoutAccount(r, u)
      PROVE  \A s \in Runs : Onward(s)
  BY <1>5, WithoutAccountRun, OthersRest DEF Becomes, Onward, Advances,
     Listings, Calls
<1>6. ASSUME NEW r \in Runs, NEW u \in Uuids, AddAccount(r, u)
      PROVE  \A s \in Runs : Onward(s)
  BY <1>6, AddAccountRun, OthersRest DEF Becomes, Onward, Advances, Listings,
     Calls
<1>7. ASSUME NEW r \in Runs, NEW u \in Uuids, AddAccountFails(r, u)
      PROVE  \A s \in Runs : Onward(s)
  BY <1>7, AddAccountFailsRun, OthersRest DEF Becomes, Onward, Advances,
     Listings, Calls
<1>8. ASSUME NEW r \in Runs, AddToGroup(r)
      PROVE  \A s \in Runs : Onward(s)
  BY <1>8, AddToGroupRun, OthersRest DEF Becomes, Onward, Advances, Listings,
     Calls
<1>9. ASSUME NEW r \in Runs, MoveNewMember(r)
      PROVE  \A s \in Runs : Onward(s)
  BY <1>9, MoveNewMemberRun, OthersRest DEF Becomes, Onward, Advances, Listings,
     Calls
<1>10. ASSUME NEW r \in Runs, MoveNewMemberFails(r)
      PROVE  \A s \in Runs : Onward(s)
  BY <1>10, MoveNewMemberFailsRun, OthersRest DEF Becomes, Onward, Advances,
     Listings, Calls
<1>11. ASSUME NEW r \in Runs, SendMail(r)
      PROVE  \A s \in Runs : Onward(s)
  BY <1>11, SendMailRun, OthersRest DEF Becomes, Onward, Advances, Listings, Calls
<1>12. ASSUME NEW r \in Runs, NEW u \in Uuids, WouldRemove(r, u)
      PROVE  \A s \in Runs : Onward(s)
  BY <1>12, WouldRemoveRun, OthersRest DEF Becomes, Onward, Advances, Listings,
     Calls
<1>13. ASSUME NEW r \in Runs, NEW u \in Uuids, SearchGroups(r, u)
      PROVE  \A s \in Runs : Onward(s)
  BY <1>13, SearchGroupsRun, OthersRest DEF Becomes, Onward, Advances, Listings,
     Calls
<1>14. ASSUME NEW r \in Runs, NEW u \in Uuids, SearchGroupsFails(r, u)
      PROVE  \A s \in Runs : Onward(s)
  BY <1>14, SearchGroupsFailsRun, OthersRest DEF Becomes, Onward, Advances,
     Listings, Calls
<1>15. ASSUME NEW r \in Runs, LeaveGroup(r)
      PROVE  \A s \in Runs : Onward(s)
  BY <1>15, LeaveGroupRun, OthersRest DEF Becomes, Onward, Advances, Listings,
     Calls
<1>16. ASSUME NEW r \in Runs, DeleteAccount(r)
      PROVE  \A s \in Runs : Onward(s)
  BY <1>16, DeleteAccountRun, OthersRest DEF Becomes, Onward, Advances,
     Listings, Calls
<1>17. ASSUME NEW r \in Runs, MoveDeletedMember(r)
      PROVE  \A s \in Runs : Onward(s)
  BY <1>17, MoveDeletedMemberRun, OthersRest DEF Becomes, Onward, Advances,
     Listings, Calls
<1>18. ASSUME NEW r \in Runs, MoveDeletedMemberFails(r)
      PROVE  \A s \in Runs : Onward(s)
  BY <1>18, MoveDeletedMemberFailsRun, OthersRest DEF Becomes, Onward, Advances,
     Listings, Calls
<1>19. ASSUME NEW r \in Runs, Crash(r)
      PROVE  \A s \in Runs : Onward(s)
  BY <1>19, CrashRun, OthersRest DEF Becomes, Onward, Advances, Listings, Calls
<1>20. ASSUME NEW r \in Runs, NEW noop \in BOOLEAN, Begin(r, noop)
      PROVE  \A s \in Runs : Onward(s)
  BY <1>20, BeginRun, OthersRest DEF Begin, Onward
<1>21. CASE UNCHANGED run
  BY <1>21 DEF Onward
<1>22. UNCHANGED vars \/ Frontend
         \/ (\E n \in Administered, g \in OtherGroups : Administer(n, g))
       => UNCHANGED run
  BY DEF vars, Frontend, MoveApplicantToNewMember, MoveQueuedRecordToTrash,
         MoveMemberToTrash, Administer
<1>. QED
  BY <1>1, <1>2, <1>3, <1>4, <1>5, <1>6, <1>7, <1>8, <1>9, <1>10, <1>11, <1>12,
     <1>13, <1>14, <1>15, <1>16, <1>17, <1>18, <1>19, <1>20, <1>21, <1>22
     DEF Next, Step

(* A run never does anything over again, so that it takes finitely many      *)
(* steps, whatever its calls report and whatever the others do.              *)
THEOREM RunsAlwaysAdvance == Spec => RunsAdvance
<1>1. TypeInv /\ [Next]_vars
        => [\A r \in Runs :
              run[r] # Idle /\ run'[r] # run[r] => Advances(run[r], run'[r])]_vars
  BY OnwardStep DEF Onward
<1>. QED
  BY <1>1, Typed, PTL DEF Spec, RunsAdvance
-----------------------------------------------------------------------------
(* Nobody is passed over: between the requests a run is busy with nobody,    *)
(* and it has no list before it has asked for one.                           *)
LoopInv ==
  \A r \in Runs :
    /\ run[r].pc \in {"idle", "search", "list", "join", "part"}
         => run[r].request = Nobody
    /\ run[r].pc \in {"idle", "search", "list"} => run[r].requests = {}

LEMMA LoopStep ==
  ASSUME TypeInv, LoopInv, [Next]_vars PROVE LoopInv'
<1>. run \in [Runs -> RunStates]
  BY DEF TypeInv, TypeOK
<1>1. ASSUME NEW r \in Runs, Search(r)
      PROVE  LoopInv'
  BY <1>1, SearchRun DEF Becomes, LoopInv
<1>2. ASSUME NEW r \in Runs, EnumerateQueued(r)
      PROVE  LoopInv'
  BY <1>2, EnumerateQueuedRun DEF Becomes, LoopInv
<1>3. ASSUME NEW r \in Runs, EnumerateDequeued(r)
      PROVE  LoopInv'
  BY <1>3, EnumerateDequeuedRun DEF Becomes, LoopInv
<1>4. ASSUME NEW r \in Runs, End(r)
      PROVE  LoopInv'
  BY <1>4, EndRun DEF LoopInv, Idle
<1>5. ASSUME NEW r \in Runs, NEW u \in Uuids, WithoutAccount(r, u)
      PROVE  LoopInv'
  BY <1>5, WithoutAccountRun DEF Becomes, LoopInv
<1>6. ASSUME NEW r \in Runs, NEW u \in Uuids, AddAccount(r, u)
      PROVE  LoopInv'
  BY <1>6, AddAccountRun DEF Becomes, LoopInv
<1>7. ASSUME NEW r \in Runs, NEW u \in Uuids, AddAccountFails(r, u)
      PROVE  LoopInv'
  BY <1>7, AddAccountFailsRun DEF Becomes, LoopInv
<1>8. ASSUME NEW r \in Runs, AddToGroup(r)
      PROVE  LoopInv'
  BY <1>8, AddToGroupRun DEF Becomes, LoopInv
<1>9. ASSUME NEW r \in Runs, MoveNewMember(r)
      PROVE  LoopInv'
  BY <1>9, MoveNewMemberRun DEF Becomes, LoopInv
<1>10. ASSUME NEW r \in Runs, MoveNewMemberFails(r)
      PROVE  LoopInv'
  BY <1>10, MoveNewMemberFailsRun DEF Becomes, LoopInv
<1>11. ASSUME NEW r \in Runs, SendMail(r)
      PROVE  LoopInv'
  BY <1>11, SendMailRun DEF Becomes, LoopInv
<1>12. ASSUME NEW r \in Runs, NEW u \in Uuids, WouldRemove(r, u)
      PROVE  LoopInv'
  BY <1>12, WouldRemoveRun DEF Becomes, LoopInv
<1>13. ASSUME NEW r \in Runs, NEW u \in Uuids, SearchGroups(r, u)
      PROVE  LoopInv'
  BY <1>13, SearchGroupsRun DEF Becomes, LoopInv
<1>14. ASSUME NEW r \in Runs, NEW u \in Uuids, SearchGroupsFails(r, u)
      PROVE  LoopInv'
  BY <1>14, SearchGroupsFailsRun DEF Becomes, LoopInv
<1>15. ASSUME NEW r \in Runs, LeaveGroup(r)
      PROVE  LoopInv'
  BY <1>15, LeaveGroupRun DEF Becomes, LoopInv
<1>16. ASSUME NEW r \in Runs, DeleteAccount(r)
      PROVE  LoopInv'
  BY <1>16, DeleteAccountRun DEF Becomes, LoopInv
<1>17. ASSUME NEW r \in Runs, MoveDeletedMember(r)
      PROVE  LoopInv'
  BY <1>17, MoveDeletedMemberRun DEF Becomes, LoopInv
<1>18. ASSUME NEW r \in Runs, MoveDeletedMemberFails(r)
      PROVE  LoopInv'
  BY <1>18, MoveDeletedMemberFailsRun DEF Becomes, LoopInv
<1>19. ASSUME NEW r \in Runs, Crash(r)
      PROVE  LoopInv'
  BY <1>19, CrashRun DEF LoopInv, Idle
<1>20. ASSUME NEW r \in Runs, NEW noop \in BOOLEAN, Begin(r, noop)
      PROVE  LoopInv'
  <2>1. run[r].requests = {} /\ run[r].request = Nobody
    BY <1>20 DEF Begin, Idle
  <2>. QED
    BY <1>20, <2>1, BeginRun DEF LoopInv
<1>21. CASE UNCHANGED run
  BY <1>21 DEF LoopInv
<1>22. UNCHANGED vars \/ Frontend
         \/ (\E n \in Administered, g \in OtherGroups : Administer(n, g))
       => UNCHANGED run
  BY DEF vars, Frontend, MoveApplicantToNewMember, MoveQueuedRecordToTrash,
         MoveMemberToTrash, Administer
<1>. QED
  BY <1>1, <1>2, <1>3, <1>4, <1>5, <1>6, <1>7, <1>8, <1>9, <1>10, <1>11, <1>12,
     <1>13, <1>14, <1>15, <1>16, <1>17, <1>18, <1>19, <1>20, <1>21, <1>22
     DEF Next, Step

Attended(r) == \A u \in Pending(r) \ Pending(r)' : faults' # faults \/ Done(r, u)

LEMMA OthersWait ==
  ASSUME NEW r \in Runs, \A s \in Runs \ {r} : run'[s] = run[s], Attended(r)
  PROVE  \A s \in Runs : Attended(s)
BY DEF Attended, Pending

LEMMA AttendedStep ==
  ASSUME TypeInv, LoopInv, WelcomedInv, [Next]_vars
  PROVE  \A s \in Runs : Attended(s)
<1>. /\ run \in [Runs -> RunStates] /\ faults \in Nat
     /\ members \in [Uuids -> {"no", "old", "joined"}]
  BY DEF TypeInv, TypeOK
<1>. USE OthersWait
<1>1. ASSUME NEW r \in Runs, Search(r)
      PROVE  \A s \in Runs : Attended(s)
  BY <1>1, SearchRun DEF Becomes, Attended, Pending, LoopInv
<1>2. ASSUME NEW r \in Runs, EnumerateQueued(r)
      PROVE  \A s \in Runs : Attended(s)
  BY <1>2, EnumerateQueuedRun DEF Becomes, Attended, Pending, LoopInv
<1>3. ASSUME NEW r \in Runs, EnumerateDequeued(r)
      PROVE  \A s \in Runs : Attended(s)
  BY <1>3, EnumerateDequeuedRun DEF Becomes, Attended, Pending, LoopInv
<1>4. ASSUME NEW r \in Runs, End(r)
      PROVE  \A s \in Runs : Attended(s)
  BY <1>4, EndRun DEF Becomes, Attended, Pending, LoopInv, End, At
<1>5. ASSUME NEW r \in Runs, NEW u \in Uuids, WithoutAccount(r, u)
      PROVE  \A s \in Runs : Attended(s)
  BY <1>5, WithoutAccountRun DEF Becomes, Attended, Pending, LoopInv
<1>6. ASSUME NEW r \in Runs, NEW u \in Uuids, AddAccount(r, u)
      PROVE  \A s \in Runs : Attended(s)
  BY <1>6, AddAccountRun DEF Becomes, Attended, Pending, LoopInv
<1>7. ASSUME NEW r \in Runs, NEW u \in Uuids, AddAccountFails(r, u)
      PROVE  \A s \in Runs : Attended(s)
  <2>1. /\ run[r].pc = "join" /\ Named(u) /\ ~ run[r].noop
        /\ Becomes(r, "join", NextUid(r), run[r].requests \ {u}, Nobody, {})
    BY <1>7, AddAccountFailsRun DEF AddAccountFails
  <2>2. account[Uid(u)] # NoAccount \/ faults' # faults
    BY <1>7 DEF AddAccountFails, Fault
  <2>3. faults' # faults \/ Done(r, u)
    BY <2>1, <2>2 DEF Done, At
  <2>4. Pending(r) \ Pending(r)' \subseteq {u}
    BY <2>1 DEF Becomes, Pending, LoopInv
  <2>. QED
    BY <2>1, <2>3, <2>4 DEF Becomes, Attended
<1>8. ASSUME NEW r \in Runs, AddToGroup(r)
      PROVE  \A s \in Runs : Attended(s)
  BY <1>8, AddToGroupRun DEF Becomes, Attended, Pending, LoopInv
<1>9. ASSUME NEW r \in Runs, MoveNewMember(r)
      PROVE  \A s \in Runs : Attended(s)
  BY <1>9, MoveNewMemberRun DEF Becomes, Attended, Pending, LoopInv
<1>10. ASSUME NEW r \in Runs, MoveNewMemberFails(r)
      PROVE  \A s \in Runs : Attended(s)
  BY <1>10, MoveNewMemberFailsRun DEF Becomes, Attended, Pending, LoopInv, Fault
<1>11. ASSUME NEW r \in Runs, SendMail(r)
      PROVE  \A s \in Runs : Attended(s)
  <2>1. /\ run[r].pc = "mail" /\ members' = members
        /\ Becomes(r, "join", run[r].greatestUid, run[r].requests, Nobody, {})
    BY <1>11, SendMailRun DEF tables
  <2>2. members'[run[r].request] = "joined"
    BY <2>1 DEF WelcomedInv
  <2>3. Done(r, run[r].request)
    BY <2>1, <2>2 DEF Done, InQueueLoop
  <2>. QED
    BY <2>1, <2>3 DEF Becomes, Attended, Pending
<1>12. ASSUME NEW r \in Runs, NEW u \in Uuids, WouldRemove(r, u)
      PROVE  \A s \in Runs : Attended(s)
  BY <1>12, WouldRemoveRun DEF Becomes, Attended, Pending, LoopInv
<1>13. ASSUME NEW r \in Runs, NEW u \in Uuids, SearchGroups(r, u)
      PROVE  \A s \in Runs : Attended(s)
  BY <1>13, SearchGroupsRun DEF Becomes, Attended, Pending, LoopInv
<1>14. ASSUME NEW r \in Runs, NEW u \in Uuids, SearchGroupsFails(r, u)
      PROVE  \A s \in Runs : Attended(s)
  BY <1>14, SearchGroupsFailsRun DEF Becomes, Attended, Pending, LoopInv, Fault
<1>15. ASSUME NEW r \in Runs, LeaveGroup(r)
      PROVE  \A s \in Runs : Attended(s)
  BY <1>15, LeaveGroupRun DEF Becomes, Attended, Pending, LoopInv
<1>16. ASSUME NEW r \in Runs, DeleteAccount(r)
      PROVE  \A s \in Runs : Attended(s)
  BY <1>16, DeleteAccountRun DEF Becomes, Attended, Pending, LoopInv
<1>17. ASSUME NEW r \in Runs, MoveDeletedMember(r)
      PROVE  \A s \in Runs : Attended(s)
  BY <1>17, MoveDeletedMemberRun DEF Becomes, Attended, Pending, LoopInv, Done,
     InDequeueLoop, Parted, PartBatch
<1>18. ASSUME NEW r \in Runs, MoveDeletedMemberFails(r)
      PROVE  \A s \in Runs : Attended(s)
  BY <1>18, MoveDeletedMemberFailsRun DEF Becomes, Attended, Pending, LoopInv,
     Fault
<1>19. ASSUME NEW r \in Runs, Crash(r)
      PROVE  \A s \in Runs : Attended(s)
  BY <1>19, CrashRun DEF Attended, Fault
<1>20. ASSUME NEW r \in Runs, NEW noop \in BOOLEAN, Begin(r, noop)
      PROVE  \A s \in Runs : Attended(s)
  BY <1>20, BeginRun DEF Attended, Pending
<1>21. CASE UNCHANGED run
  BY <1>21 DEF Attended, Pending
<1>22. UNCHANGED vars \/ Frontend
         \/ (\E n \in Administered, g \in OtherGroups : Administer(n, g))
       => UNCHANGED run
  BY DEF vars, Frontend, MoveApplicantToNewMember, MoveQueuedRecordToTrash,
         MoveMemberToTrash, Administer
<1>. QED
  BY <1>1, <1>2, <1>3, <1>4, <1>5, <1>6, <1>7, <1>8, <1>9, <1>10, <1>11, <1>12,
     <1>13, <1>14, <1>15, <1>16, <1>17, <1>18, <1>19, <1>20, <1>21, <1>22
     DEF Next, Step

(* Nobody who is on the list of a run is passed over by it, unless a call    *)
(* fails or an account of that name is in the way before the run makes one.  *)
THEOREM NobodyIsPassedOver == Spec => NobodyPassedOver
<1>1. Init => LoopInv /\ WelcomedInv
  <2>. SUFFICES ASSUME Init PROVE LoopInv /\ WelcomedInv
    OBVIOUS
  <2>1. \A r \in Runs :
          /\ run[r].pc = "idle" /\ run[r].request = Nobody
          /\ run[r].requests = {}
    BY DEF Init, Idle
  <2>. QED
    BY <2>1 DEF Init, LoopInv, WelcomedInv, WelcomedAreMembers
<1>2. TypeInv /\ LoopInv /\ [Next]_vars => LoopInv'
  BY LoopStep
<1>3. TypeInv /\ LoopInv /\ WelcomedInv /\ [Next]_vars
        => [\A r \in Runs : \A u \in Pending(r) \ Pending(r)' :
              faults' # faults \/ Done(r, u)]_vars
  BY AttendedStep DEF Attended
<1>. QED
  BY <1>1, <1>2, <1>3, WelcomedStep, Typed, PTL DEF Spec, NobodyPassedOver
=============================================================================
