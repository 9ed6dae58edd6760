---------------------------- MODULE MemberLists ----------------------------
(***************************************************************************)
(* Paging through the tables of Cassandra while they change: the lists of   *)
(* the administration page (html/js/memberlist.js, the list handlers under  *)
(* membersys/), of which several requests may be under way and be answered  *)
(* in any order, and the program member_list.                               *)
(*                                                                          *)
(* A row is its key: the place the key has in the order of the table.  A    *)
(* query reads one replica (consistency One) that may not know of any       *)
(* change, so a row that has come or gone at some time may be found or not. *)
(* A member whose row has no e-mail column is no row here: the query of the *)
(* members leaves it out before it counts (LIMIT).                          *)
(*                                                                          *)
(* The queries compare and limit keys (key > ? LIMIT ?), and pages follow   *)
(* one another only where Cassandra keeps the rows in the order of the keys *)
(* (an ordered partitioner, which IsPage takes for granted).                *)
(***************************************************************************)
EXTENDS Naturals, FiniteSets, Sequences

CONSTANTS
  Lists,      \* the lists of the page, each of one table
  Members,    \* the list of the members, which member_list prints
  LastKey,    \* the keys of a table are 1 .. LastKey
  Listable,   \* of each list, the rows that are not skipped
  After,      \* what the id that the script gives to the row k stands for
  Loads,      \* the list that "next" on a list loads
  PageSize,
  Requests    \* the requests that the browser may have under way

Keys == 1 .. LastKey

(* Below every key: the empty "start" of a request. *)
Start == 0

Starts == {Start} \cup Keys

ASSUME ListsAssumption ==
  /\ Members \in Lists
  /\ LastKey \in Nat
  /\ Listable \in [Lists -> SUBSET Keys]
  /\ After \in [Lists -> [Keys -> Keys]]
  /\ Loads \in [Lists -> Lists]
  /\ PageSize \in Nat \ {0}
  /\ Requests # {}

VARIABLES
  steady,   \* of each list, the rows that have been there the whole time
  changed,  \* those that have come, gone or both
  table,    \* what the browser shows of each list
  offset,   \* member_offset
  request,  \* the requests under way
  unseen,   \* the steady rows of each list that were never shown
  printer,  \* member_list: where it is, prev_key, what is left of the page
  output    \* what member_list has printed

records == <<steady, changed>>
browser == <<table, offset, request, unseen>>
program == <<printer, output>>
vars == <<records, browser, program>>

Idle == [pc |-> "idle", list |-> Members, start |-> Start, rows |-> {}]
-----------------------------------------------------------------------------
(* The query: "key > prev LIMIT num", in the order of the keys. *)

(* Mutant: from the row at the start on. *)
FromStart(R, s) == {k \in R : k >= s}

Beyond(R, s) == {k \in R : k > s}

(* Mutant: the rows come in the order of the hashes of their keys. *)
SomePage(P, R, s) ==
  /\ P \subseteq Beyond(R, s)
  /\ Cardinality(P) <= PageSize
  /\ Cardinality(P) < PageSize => P = Beyond(R, s)

IsPage(P, R, s) ==
  /\ P \subseteq Beyond(R, s)
  /\ Cardinality(P) <= PageSize
  /\ Cardinality(P) < PageSize => P = Beyond(R, s)
  /\ \A k \in P, j \in Beyond(R, s) \ P : k < j

(* What a replica may know of the rows of list l. *)
Replica(l, R) == steady[l] \subseteq R /\ R \subseteq steady[l] \cup changed[l]
-----------------------------------------------------------------------------
(* The tables of the lists when the page is opened: rows that the template  *)
(* has drawn, with their own keys as ids.  Its "next" are all enabled; a    *)
(* list whose query failed is empty.                                        *)
TotalList(l, rows) ==
  \/ rows = {}
  \/ \E P \in SUBSET Keys :
       IsPage(P, steady[l], Start) /\ rows = P \cap Listable[l]

(* load() asks for the first members as soon as the page is there.          *)
LoadMembers == [pc |-> "asked", list |-> Members, start |-> Start, rows |-> {}]

Init ==
  /\ steady \in [Lists -> SUBSET Keys]
  /\ changed = [l \in Lists |-> {}]
  /\ \E rows \in [Lists -> SUBSET Keys] :
       /\ \A l \in Lists : TotalList(l, rows[l])
       /\ table = [l \in Lists |-> [rows |-> rows[l], none |-> rows[l] = {},
                                  next |-> TRUE, drawn |-> FALSE]]
  /\ offset = Start
  /\ \E q \in Requests :
       request = [r \in Requests |-> IF r = q THEN LoadMembers ELSE Idle]
  /\ unseen = [l \in Lists |-> steady[l] \ table[l].rows]
  /\ printer = [pc |-> "fetch", prev |-> Start, page |-> {}]
  /\ output = << >>

(* Something other than this page writes or deletes the row k. *)
Change(l, k) ==
  /\ k \notin changed[l]
  /\ steady' = [steady EXCEPT ![l] = steady[l] \ {k}]
  /\ changed' = [changed EXCEPT ![l] = changed[l] \cup {k}]
  /\ unseen' = [unseen EXCEPT ![l] = unseen[l] \ {k}]
  /\ UNCHANGED <<table, offset, request, program>>
-----------------------------------------------------------------------------
(* The browser and the handlers. *)

Ask(r, l, s) ==
  /\ request[r].pc = "idle"
  /\ request' = [request EXCEPT ![r] =
       [pc |-> "asked", list |-> l, start |-> s, rows |-> {}]]
  /\ UNCHANGED <<records, table, unseen, program>>

(* A tab is shown, or "Beginn". *)
LoadFirst(l) ==
  /\ \E r \in Requests : Ask(r, l, Start)
  /\ UNCHANGED offset

(* After a member was edited the members are loaded as before. *)
Reload ==
  /\ \E r \in Requests : Ask(r, Members, offset)
  /\ UNCHANGED offset

(* Mutant: what follows the next row. *)
AfterNextRow(l, k) == k + 1

(* What the id of the row k stands for: the key, where the template has     *)
(* drawn the row.                                                           *)
AfterRow(l, k) == IF table[l].drawn THEN After[l][k] ELSE k

LoadNext(l, s) ==
  /\ \E r \in Requests : Ask(r, Loads[l], s)
  /\ offset' = IF l = Members THEN s ELSE offset

(* "next", with the id of the last row.  Without any row it fails. *)
Forward(l) ==
  \E k \in table[l].rows :
    /\ \A j \in table[l].rows : j <= k
    /\ LoadNext(l, AfterRow(l, k))

(* The row that says that there are none has an empty id. *)
ForwardFromNone(l) == table[l].none /\ LoadNext(l, Start)

(* A list handler answers: rows with keys or records that cannot be decoded *)
(* are skipped after they were counted.                                     *)
Answer(r) ==
  /\ request[r].pc = "asked"
  /\ \E l \in Lists, R \in SUBSET Keys :
       /\ l = request[r].list
       /\ Replica(l, R)
       /\ \E P \in SUBSET R :
            /\ IsPage(P, R, request[r].start)
            /\ request' = [request EXCEPT ![r] =
                 [pc |-> "answered", list |-> l, start |-> Start,
                  rows |-> P \cap Listable[l]]]
  /\ UNCHANGED <<records, table, offset, unseen, program>>

(* The request, the handler or the query fails: there is no "error:" that   *)
(* would do anything.                                                       *)
RequestFails(r) ==
  /\ request[r].pc # "idle"
  /\ request' = [request EXCEPT ![r] = Idle]
  /\ UNCHANGED <<records, table, offset, unseen, program>>

(* Mutant: one more is needed. *)
FullerPage(rows) == Cardinality(rows) > PageSize

FullPage(rows) == Cardinality(rows) = PageSize

(* "success:" replaces the rows by rows of its own, a member's with another *)
(* id.  The function returns before the arrows when there are none.         *)
Show(r) ==
  /\ request[r].pc = "answered"
  /\ \E l \in Lists, rows \in SUBSET Keys :
       /\ l = request[r].list /\ rows = request[r].rows
       /\ table' = [table EXCEPT ![l] =
            [rows |-> rows, none |-> rows = {},
             next |-> IF rows = {} THEN table[l].next ELSE FullPage(rows),
             drawn |-> TRUE]]
       /\ unseen' = [unseen EXCEPT ![l] = unseen[l] \ rows]
  /\ request' = [request EXCEPT ![r] = Idle]
  /\ UNCHANGED <<records, offset, program>>

(* The record was accepted, rejected, cancelled or dismissed from here: its *)
(* row is taken out of the table, a member's if it has the id that the      *)
(* script gives.                                                            *)
TakeOut(l, k) ==
  /\ k \in table[l].rows /\ k \in changed[l]
  /\ l = Members => table[l].drawn
  /\ table' = [table EXCEPT ![l] =
       [table[l] EXCEPT !.rows = table[l].rows \ {k}]]
  /\ UNCHANGED <<records, offset, request, unseen, program>>
-----------------------------------------------------------------------------
(* member_list. *)

(* Mutant: the page after the last one is asked for again. *)
FetchAgain ==
  /\ printer.pc = "fetch"
  /\ \E R \in SUBSET Keys :
       /\ Replica(Members, R)
       /\ \E P \in SUBSET R :
            /\ IsPage(P, R, printer.prev)
            /\ printer' = [printer EXCEPT
                 !.pc = IF P = {} THEN "fetch" ELSE "print", !.page = P]
  /\ UNCHANGED <<records, browser, output>>

(* EnumerateMembers with prev_key; an empty page ends the program. *)
FetchPage ==
  /\ printer.pc = "fetch"
  /\ \E R \in SUBSET Keys :
       /\ Replica(Members, R)
       /\ \E P \in SUBSET R :
            /\ IsPage(P, R, printer.prev)
            /\ printer' = [printer EXCEPT
                 !.pc = IF P = {} THEN "done" ELSE "print", !.page = P]
  /\ UNCHANGED <<records, browser, output>>

(* The next member of the page; its e-mail address and a NUL are prev_key. *)
PrintMember ==
  /\ printer.pc = "print"
  /\ \E k \in printer.page :
       /\ \A j \in printer.page : k <= j
       /\ output' = Append(output, k)
       /\ printer' = [pc |-> IF printer.page = {k} THEN "fetch" ELSE "print",
                      prev |-> k, page |-> printer.page \ {k}]
  /\ UNCHANGED <<records, browser>>

(* log.Fatal. *)
FetchFails ==
  /\ printer.pc = "fetch"
  /\ printer' = [printer EXCEPT !.pc = "failed"]
  /\ UNCHANGED <<records, browser, output>>

MemberList == FetchPage \/ PrintMember \/ FetchFails
-----------------------------------------------------------------------------
Next ==
  \/ \E l \in Lists, k \in Keys : Change(l, k) \/ TakeOut(l, k)
  \/ \E l \in Lists : LoadFirst(l) \/ Forward(l) \/ ForwardFromNone(l)
  \/ Reload
  \/ \E r \in Requests : Answer(r) \/ RequestFails(r) \/ Show(r)
  \/ MemberList

Spec == Init /\ [][Next]_vars

(* The operating system runs member_list, and its queries end or fail: they *)
(* have a timeout.                                                          *)
FairSpec == Spec /\ WF_vars(FetchPage) /\ WF_vars(PrintMember)
-----------------------------------------------------------------------------
(* The types of the variables. *)
TypeOK ==
  /\ steady \in [Lists -> SUBSET Keys]
  /\ changed \in [Lists -> SUBSET Keys]
  /\ table \in [Lists ->
       [rows : SUBSET Keys, none : BOOLEAN, next : BOOLEAN,
        drawn : BOOLEAN]]
  /\ offset \in Starts
  /\ request \in [Requests ->
       [pc : {"idle", "asked", "answered"}, list : Lists, start : Starts,
        rows : SUBSET Keys]]
  /\ unseen \in [Lists -> SUBSET Keys]
  /\ printer \in [pc : {"fetch", "print", "done", "failed"},
                  prev : Starts, page : SUBSET Keys]
  /\ output \in Seq(Keys)

(* No row is skipped, the id that the script gives to a row stands for its  *)
(* key, and no other list's "next" loads this one.                          *)
Sound(l) ==
  /\ Listable[l] = Keys
  /\ \A k \in Keys : After[l][k] = k
  /\ \A m \in Lists : Loads[m] = l => m = l

(* When "next" says that there is no more, everybody who was there all the  *)
(* time was shown at some time.                                             *)
EndSeesAllOf(l) == ~ table[l].next => unseen[l] = {}

(* The end of a sound list is its end, in whatever order its requests are   *)
(* answered, fail and are repeated while records come and go and are taken  *)
(* out of the table that gives the start of the next page.                  *)
EndSeesAll == \A l \in Lists : Sound(l) => EndSeesAllOf(l)

(* "Go to the next batch of members starting with the current one": so the  *)
(* end of every list is shown only when who was there all the time was      *)
(* shown, also of the members, whose ids are made from their addresses.     *)
AllEndSeesAll == \A l \in Lists : EndSeesAllOf(l)

(* member_list prints in the order of the keys, and so nobody twice, though *)
(* each page may come from another replica.                                 *)
PrintedInOrder ==
  \A i, j \in 1 .. Len(output) : i < j => output[i] < output[j]

(* When member_list ends well it has printed everybody who was there the    *)
(* whole time.                                                              *)
PrintsAll ==
  printer.pc = "done" =>
    \A k \in steady[Members] : \E i \in 1 .. Len(output) : output[i] = k

(* member_list ends. *)
PrinterEnds == <>(printer.pc \in {"done", "failed"})
=============================================================================
