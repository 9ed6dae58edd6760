------------------------- MODULE MemberListsProofs -------------------------
(***************************************************************************)
(* Proofs about MemberLists, for any lists, page size, number of keys and   *)
(* number of requests under way.                                            *)
(***************************************************************************)
EXTENDS MemberLists, FiniteSetTheorems, TLAPS

(* All that is unseen of the list l is after s. *)
SeenTo(l, s) == \A k \in unseen[l] : k > s

(* What a request for the list l was sent with or has brought. *)
RequestFits(l, r) ==
  /\ request[r].pc = "asked" => SeenTo(l, request[r].start)
  /\ request[r].pc = "answered" =>
       /\ \A k \in request[r].rows, j \in unseen[l] :
            j <= k => j \in request[r].rows
       /\ request[r].rows # {} /\ ~ FullPage(request[r].rows) =>
            unseen[l] \subseteq request[r].rows

(* Whatever a next request may start from is after nothing unseen. *)
StartsFit(l) ==
  /\ \A k \in table[l].rows : SeenTo(l, k)
  /\ l = Members => SeenTo(l, offset)

ListFits(l) ==
  /\ StartsFit(l)
  /\ EndSeesAllOf(l)
  /\ \A r \in Requests : request[r].list = l => RequestFits(l, r)

UnseenIsSteady == \A l \in Lists : unseen[l] \subseteq steady[l]

ListsInv ==
  /\ TypeOK
  /\ UnseenIsSteady
  /\ \A l \in Lists : Sound(l) => ListFits(l)

(* What member_list has printed is in order and before the rest of the      *)
(* page, and nobody before what it has printed is missing.                  *)
PrinterFits ==
  /\ \A i \in 1 .. Len(output) : output[i] <= printer.prev
  /\ \A k \in printer.page : k > printer.prev
  /\ \A k \in steady[Members] :
       \/ k > printer.prev
       \/ \E i \in 1 .. Len(output) : output[i] = k
  /\ printer.pc = "print" =>
       \A k \in printer.page, j \in steady[Members] :
         j > printer.prev /\ j <= k => j \in printer.page

PrinterInv == TypeOK /\ PrinterFits /\ PrintedInOrder /\ PrintsAll
-----------------------------------------------------------------------------
(* The initial states are well typed. *)
LEMMA InitTyped == ASSUME Init PROVE TypeOK
<1> USE ListsAssumption DEF Init
<1>1. table \in [Lists -> [rows : SUBSET Keys, none : BOOLEAN, next : BOOLEAN,
                           drawn : BOOLEAN]]
  <2>1. PICK rows \in [Lists -> SUBSET Keys] :
          table = [l \in Lists |-> [rows |-> rows[l], none |-> rows[l] = {},
                                   next |-> TRUE, drawn |-> FALSE]]
    OBVIOUS
  <2>2. ASSUME NEW l \in Lists
        PROVE  [rows |-> rows[l], none |-> rows[l] = {}, next |-> TRUE,
                drawn |-> FALSE]
                 \in [rows : SUBSET Keys, none : BOOLEAN, next : BOOLEAN,
                     drawn : BOOLEAN]
    <3>1. rows[l] \in SUBSET Keys /\ (rows[l] = {}) \in BOOLEAN
      BY <2>1
    <3> QED BY <3>1
  <2> QED BY <2>1, <2>2
<1>2. /\ offset \in Starts
      /\ Idle \in [pc : {"idle", "asked", "answered"}, list : Lists,
                  start : Starts, rows : SUBSET Keys]
      /\ LoadMembers \in [pc : {"idle", "asked", "answered"}, list : Lists,
                         start : Starts, rows : SUBSET Keys]
  BY DEF Idle, LoadMembers, Starts
<1>3. unseen \in [Lists -> SUBSET Keys] /\ changed \in [Lists -> SUBSET Keys]
  OBVIOUS
<1>4. /\ printer \in [pc : {"fetch", "print", "done", "failed"},
                      prev : Starts, page : SUBSET Keys]
      /\ output \in Seq(Keys)
  BY DEF Starts
<1> QED BY <1>1, <1>2, <1>3, <1>4 DEF TypeOK

(* A request that is sent is well typed. *)
LEMMA AskTyped ==
  ASSUME TypeOK, NEW r \in Requests, NEW l \in Lists, NEW s \in Starts,
         Ask(r, l, s)
  PROVE  request' \in [Requests ->
           [pc : {"idle", "asked", "answered"}, list : Lists,
            start : Starts, rows : SUBSET Keys]]
BY DEF TypeOK, Ask

(* Every step keeps the types. *)
LEMMA NextTyped == ASSUME TypeOK, [Next]_vars PROVE TypeOK'
<1> USE ListsAssumption
<1> Start \in Starts /\ Keys \subseteq Starts
  BY DEF Starts
<1>1. ASSUME NEW l \in Lists, NEW k \in Keys, Change(l, k) PROVE TypeOK'
  BY <1>1 DEF Change, TypeOK, program
<1>2. ASSUME NEW l \in Lists, NEW k \in Keys, TakeOut(l, k) PROVE TypeOK'
  <2>1. [table[l] EXCEPT !.rows = table[l].rows \ {k}]
          \in [rows : SUBSET Keys, none : BOOLEAN, next : BOOLEAN,
              drawn : BOOLEAN]
    <3>1. table[l] \in [rows : SUBSET Keys, none : BOOLEAN, next : BOOLEAN,
                        drawn : BOOLEAN]
      BY DEF TypeOK
    <3>2. table[l].rows \ {k} \in SUBSET Keys
      BY <3>1
    <3> QED BY <3>1, <3>2
  <2> QED BY <1>2, <2>1 DEF TakeOut, TypeOK, program, records
<1>3. ASSUME NEW l \in Lists, LoadFirst(l) PROVE TypeOK'
  <2>1. PICK r \in Requests : Ask(r, l, Start)
    BY <1>3 DEF LoadFirst
  <2>2. request' \in [Requests ->
          [pc : {"idle", "asked", "answered"}, list : Lists, start : Starts,
           rows : SUBSET Keys]]
    BY <2>1, AskTyped
  <2> QED BY <1>3, <2>1, <2>2 DEF LoadFirst, Ask, TypeOK, program, records
<1>4. ASSUME NEW l \in Lists, NEW s \in Starts, LoadNext(l, s) PROVE TypeOK'
  <2>1. PICK r \in Requests : Ask(r, Loads[l], s)
    BY <1>4 DEF LoadNext
  <2>2. Loads[l] \in Lists
    OBVIOUS
  <2>3. offset' \in Starts
    BY <1>4 DEF LoadNext, TypeOK
  <2> QED BY <2>1, <2>2, <2>3, AskTyped DEF Ask, TypeOK, program, records
<1>5. ASSUME NEW l \in Lists, Forward(l) PROVE TypeOK'
  <2>1. PICK k \in table[l].rows : LoadNext(l, AfterRow(l, k))
    BY <1>5 DEF Forward
  <2>2. AfterRow(l, k) \in Starts
    BY <2>1 DEF AfterRow, TypeOK
  <2> QED BY <1>4, <2>1, <2>2
<1>6. ASSUME NEW l \in Lists, ForwardFromNone(l) PROVE TypeOK'
  BY <1>4, <1>6 DEF ForwardFromNone
<1>7. CASE Reload
  <2>1. PICK r \in Requests : Ask(r, Members, offset)
    BY <1>7 DEF Reload
  <2>2. offset \in Starts
    BY DEF TypeOK
  <2> QED BY <1>7, <2>1, <2>2, AskTyped DEF Reload, Ask, TypeOK, program, records
<1>8. ASSUME NEW r \in Requests, Answer(r) PROVE TypeOK'
  <2>1. PICK l \in Lists, P \in SUBSET Keys :
          request' = [request EXCEPT ![r] =
            [pc |-> "answered", list |-> l, start |-> Start,
             rows |-> P \cap Listable[l]]]
    BY <1>8 DEF Answer
  <2>2. P \cap Listable[l] \in SUBSET Keys
    OBVIOUS
  <2> QED BY <1>8, <2>1, <2>2 DEF Answer, TypeOK, program, records
<1>9. ASSUME NEW r \in Requests, RequestFails(r) PROVE TypeOK'
  BY <1>9 DEF RequestFails, Idle, TypeOK, program, records
<1>10. ASSUME NEW r \in Requests, Show(r) PROVE TypeOK'
  <2>1. PICK l \in Lists, rows \in SUBSET Keys :
          /\ table' = [table EXCEPT ![l] =
               [rows |-> rows, none |-> rows = {},
                next |-> IF rows = {} THEN table[l].next ELSE FullPage(rows),
                drawn |-> TRUE]]
          /\ unseen' = [unseen EXCEPT ![l] = unseen[l] \ rows]
    BY <1>10 DEF Show
  <2>2. (rows = {}) \in BOOLEAN /\ FullPage(rows) \in BOOLEAN
    BY DEF FullPage
  <2>3. table' \in [Lists -> [rows : SUBSET Keys, none : BOOLEAN, next : BOOLEAN,
                              drawn : BOOLEAN]]
    BY <2>1, <2>2 DEF TypeOK
  <2> QED BY <1>10, <2>1, <2>3 DEF Show, Idle, TypeOK, program, records
<1>11. CASE FetchPage
  <2>1. PICK P \in SUBSET Keys :
          printer' = [printer EXCEPT
            !.pc = IF P = {} THEN "done" ELSE "print", !.page = P]
    BY <1>11 DEF FetchPage
  <2> QED BY <1>11, <2>1 DEF FetchPage, TypeOK, browser, records
<1>12. CASE PrintMember
  <2>1. PICK k \in printer.page :
          /\ output' = Append(output, k)
          /\ printer' = [pc |-> IF printer.page = {k} THEN "fetch" ELSE "print",
                         prev |-> k, page |-> printer.page \ {k}]
    BY <1>12 DEF PrintMember
  <2>2. k \in Keys /\ printer.page \ {k} \in SUBSET Keys
    BY DEF TypeOK
  <2> QED BY <1>12, <2>1, <2>2 DEF PrintMember, TypeOK, browser, records
<1>13. CASE FetchFails
  BY <1>13 DEF FetchFails, TypeOK, browser, records
<1>14. CASE UNCHANGED vars
  BY <1>14 DEF vars, records, browser, program, TypeOK
<1> QED
  BY <1>1, <1>2, <1>3, <1>5, <1>6, <1>7, <1>8, <1>9, <1>10, <1>11, <1>12,
     <1>13, <1>14 DEF Next, MemberList

(* The variables keep their types: the requests under way and what the      *)
(* tables show stay within the keys, whatever fails.                        *)
THEOREM TypeCorrect == Spec => []TypeOK
<1>1. Init => TypeOK BY InitTyped
<1>2. TypeOK /\ [Next]_vars => TypeOK' BY NextTyped
<1> QED BY <1>1, <1>2, PTL DEF Spec
-----------------------------------------------------------------------------
(* The pages of the queries. *)

(* A page has a size. *)
LEMMA PageIsFinite == \A P \in SUBSET Keys : Cardinality(P) \in Nat
<1> TAKE P \in SUBSET Keys
<1>1. IsFiniteSet(Keys)
  BY ListsAssumption, FS_Interval DEF Keys
<1> QED BY <1>1, FS_Subset, FS_CardinalityType

(* A page has all of the steady rows from its start to any row of it, and   *)
(* when it is short all that follow.                                        *)
LEMMA PageHasAll ==
  ASSUME TypeOK, NEW l \in Lists, NEW R \in SUBSET Keys, Replica(l, R),
         NEW s \in Starts, NEW P \in SUBSET Keys, IsPage(P, R, s)
  PROVE  /\ \A k \in P, j \in steady[l] : j > s /\ j <= k => j \in P
         /\ \A k \in P : k > s
         /\ ~ FullPage(P) => \A j \in steady[l] : j > s => j \in P
<1>1. \A j \in steady[l] : j > s => j \in Beyond(R, s)
  BY DEF Replica, Beyond
<1>2. P \subseteq Beyond(R, s) /\ \A k \in P : k > s
  BY DEF IsPage, Beyond
<1>3. \A k \in P, j \in Beyond(R, s) : j <= k => j \in P
  <2> TAKE k \in P, j \in Beyond(R, s)
  <2>1. k \in Nat /\ j \in Nat
    BY ListsAssumption DEF Keys, Beyond
  <2> QED BY <2>1 DEF IsPage
<1>4. ASSUME ~ FullPage(P) PROVE P = Beyond(R, s)
  <2>1. Cardinality(P) \in Nat
    BY PageIsFinite
  <2> QED BY <1>4, <2>1, ListsAssumption DEF FullPage, IsPage
<1> QED BY <1>1, <1>2, <1>3, <1>4

(* Keys are numbers. *)
LEMMA KeysAreNumbers == Starts \subseteq Nat /\ Keys \subseteq Starts /\ Start = 0
                        /\ \A k \in Keys : k > Start
BY ListsAssumption DEF Starts, Keys, Start
-----------------------------------------------------------------------------
(* The lists of the browser. *)

LEMMA InitFits == ASSUME Init PROVE ListsInv
<1>1. TypeOK BY InitTyped
<1>2. UnseenIsSteady BY DEF Init, UnseenIsSteady
<1>3. ASSUME NEW l \in Lists, Sound(l) PROVE ListFits(l)
  <2>1. /\ unseen[l] = steady[l] \ table[l].rows /\ unseen[l] \subseteq Keys
        /\ TotalList(l, table[l].rows) /\ table[l].next
    BY DEF Init
  <2>2. \A k \in table[l].rows : SeenTo(l, k)
    <3>1. CASE table[l].rows = {}
      BY <3>1
    <3>2. CASE \E P \in SUBSET Keys :
                 IsPage(P, steady[l], Start) /\ table[l].rows = P \cap Listable[l]
      <4>1. PICK P \in SUBSET Keys :
              IsPage(P, steady[l], Start) /\ table[l].rows = P \cap Listable[l]
        BY <3>2
      <4>2. table[l].rows = P
        BY <1>3, <4>1 DEF Sound
      <4>3. steady[l] \in SUBSET Keys /\ Replica(l, steady[l])
        BY DEF Init, Replica
      <4>4. \A k \in P, j \in steady[l] : j > Start /\ j <= k => j \in P
        <5>1. Start \in Starts
          BY DEF Starts
        <5> QED BY <1>1, <4>1, <4>3, <5>1, PageHasAll, Zenon
      <4>5. ASSUME NEW k \in P, NEW j \in unseen[l] PROVE j > k
        <5>1. j \in steady[l] /\ j \notin P
          BY <2>1, <4>2
        <5>2. j > Start /\ j \in Nat /\ k \in Nat
          BY <2>1, KeysAreNumbers
        <5> QED BY <4>4, <5>1, <5>2
      <4> QED BY <4>2, <4>5 DEF SeenTo
    <3> QED BY <2>1, <3>1, <3>2 DEF TotalList
  <2>3. SeenTo(l, offset)
    BY <2>1, KeysAreNumbers DEF SeenTo, Init
  <2>4. EndSeesAllOf(l)
    BY <2>1 DEF EndSeesAllOf
  <2>5. \A r \in Requests : RequestFits(l, r)
    <3>1. \A r \in Requests : request[r] = Idle \/ request[r] = LoadMembers
      BY DEF Init
    <3>2. SeenTo(l, Start)
      BY <2>1, KeysAreNumbers DEF SeenTo
    <3> QED BY <3>1, <3>2 DEF RequestFits, Idle, LoadMembers
  <2> QED BY <2>2, <2>3, <2>4, <2>5 DEF ListFits, StartsFit
<1> QED BY <1>1, <1>2, <1>3 DEF ListsInv

(* What fits goes on fitting when less is unseen. *)
LEMMA FewerUnseen ==
  ASSUME NEW l \in Lists, ListFits(l), unseen'[l] \subseteq unseen[l],
         UNCHANGED <<table, offset, request>>
  PROVE  ListFits(l)'
BY DEF ListFits, StartsFit, SeenTo, EndSeesAllOf, RequestFits, FullPage

(* A request that starts from where all is seen fits. *)
LEMMA AskFits ==
  ASSUME TypeOK, NEW l \in Lists, ListFits(l),
         NEW r \in Requests, NEW m \in Lists, NEW s \in Starts, Ask(r, m, s),
         m = l => SeenTo(l, s),
         l = Members => (offset' = offset \/ SeenTo(l, offset'))
  PROVE  ListFits(l)'
<1>1. UNCHANGED <<table, unseen>> /\ request' = [request EXCEPT ![r] =
         [pc |-> "asked", list |-> m, start |-> s, rows |-> {}]]
  BY DEF Ask
<1>2. StartsFit(l)'
  BY <1>1 DEF ListFits, StartsFit, SeenTo
<1>3. EndSeesAllOf(l)'
  BY <1>1 DEF ListFits, EndSeesAllOf
<1>4. ASSUME NEW q \in Requests, request'[q].list = l PROVE RequestFits(l, q)'
  <2>1. CASE q = r
    <3>1. request'[q] = [pc |-> "asked", list |-> m, start |-> s, rows |-> {}]
      BY <1>1, <2>1 DEF TypeOK
    <3> QED BY <1>1, <1>4, <3>1 DEF RequestFits, SeenTo
  <2>2. CASE q # r
    <3>1. request'[q] = request[q]
      BY <1>1, <2>2 DEF TypeOK
    <3> QED BY <1>1, <1>4, <3>1 DEF ListFits, RequestFits, SeenTo, FullPage
  <2> QED BY <2>1, <2>2
<1> QED BY <1>2, <1>3, <1>4 DEF ListFits

(* "next" starts from where all is seen. *)
LEMMA LoadNextFits ==
  ASSUME ListsInv, NEW l \in Lists, Sound(l), NEW m \in Lists,
         NEW s \in Starts, LoadNext(m, s), m = l => SeenTo(l, s)
  PROVE  ListFits(l)'
<1>1. PICK r \in Requests : Ask(r, Loads[m], s)
  BY DEF LoadNext
<1>2. Loads[m] = l => SeenTo(l, s)
  BY DEF Sound
<1>3. l = Members => (offset' = offset \/ SeenTo(l, offset'))
  BY DEF LoadNext
<1> QED BY <1>1, <1>2, <1>3, AskFits, ListsAssumption DEF ListsInv

(* Nothing is before the start of a list. *)
LEMMA StartIsBefore ==
  ASSUME TypeOK, NEW l \in Lists
  PROVE  SeenTo(l, Start) /\ Start \in Starts
BY KeysAreNumbers DEF TypeOK, SeenTo, Starts

LEMMA ForwardFits ==
  ASSUME ListsInv, NEW l \in Lists, Sound(l), NEW m \in Lists, Forward(m)
  PROVE  ListFits(l)'
<1>1. PICK k \in table[m].rows : LoadNext(m, AfterRow(m, k))
  BY DEF Forward
<1>2. k \in Keys
  BY DEF ListsInv, TypeOK
<1>3. AfterRow(m, k) \in Starts
  BY <1>2, ListsAssumption, KeysAreNumbers DEF AfterRow
<1>4. ASSUME m = l PROVE SeenTo(l, AfterRow(m, k))
  <2>1. AfterRow(m, k) = k
    BY <1>2, <1>4 DEF AfterRow, Sound
  <2> QED BY <1>4, <2>1 DEF ListsInv, ListFits, StartsFit
<1> QED BY <1>1, <1>3, <1>4, LoadNextFits

LEMMA TakeOutFits ==
  ASSUME ListsInv, NEW l \in Lists, Sound(l), NEW m \in Lists, NEW k \in Keys,
         TakeOut(m, k)
  PROVE  ListFits(l)'
<1>1. ListFits(l)
  BY DEF ListsInv
<1>2. UNCHANGED <<unseen, request, offset>>
  BY DEF TakeOut
<1>3. table'[l].rows \subseteq table[l].rows /\ table'[l].next = table[l].next
  BY DEF TakeOut, ListsInv, TypeOK
<1>4. StartsFit(l)' /\ EndSeesAllOf(l)'
  BY <1>1, <1>2, <1>3 DEF ListFits, StartsFit, SeenTo, EndSeesAllOf
<1>5. \A r \in Requests : request'[r].list = l => RequestFits(l, r)'
  BY <1>1, <1>2 DEF ListFits, RequestFits, SeenTo, FullPage
<1> QED BY <1>4, <1>5 DEF ListFits

(* The answer to a request has what is unseen up to its last row. *)
LEMMA AnswerFits ==
  ASSUME ListsInv, NEW l \in Lists, Sound(l), NEW r \in Requests, Answer(r)
  PROVE  ListFits(l)'
<1>1. ListFits(l) /\ TypeOK /\ unseen[l] \subseteq steady[l]
  BY DEF ListsInv, UnseenIsSteady
<1>2. UNCHANGED <<table, offset, unseen>>
  BY DEF Answer
<1>3. StartsFit(l)' /\ EndSeesAllOf(l)'
  BY <1>1, <1>2 DEF ListFits, StartsFit, SeenTo, EndSeesAllOf
<1>4. PICK m \in Lists, R \in SUBSET Keys, P \in SUBSET Keys :
        /\ m = request[r].list /\ Replica(m, R)
        /\ IsPage(P, R, request[r].start)
        /\ request' = [request EXCEPT ![r] =
             [pc |-> "answered", list |-> m, start |-> Start,
              rows |-> P \cap Listable[m]]]
  BY DEF Answer
<1>5. ASSUME NEW q \in Requests, request'[q].list = l PROVE RequestFits(l, q)'
  <2>1. CASE q # r
    <3>1. request'[q] = request[q]
      BY <1>1, <1>4, <2>1 DEF TypeOK
    <3> QED BY <1>1, <1>2, <1>5, <3>1 DEF ListFits, RequestFits, SeenTo, FullPage
  <2>2. CASE q = r
    <3>1. request'[q] = [pc |-> "answered", list |-> m, start |-> Start,
                         rows |-> P \cap Listable[m]]
      BY <1>1, <1>4, <2>2 DEF TypeOK
    <3>2. m = l
      BY <1>5, <3>1
    <3>3. request'[q].rows = P /\ request'[q].pc = "answered" /\ P \in SUBSET Keys
      BY <3>1, <3>2 DEF Sound
    <3>4. request[r].start \in Starts /\ request[r].pc = "asked"
      BY <1>1 DEF TypeOK, Answer
    <3>5. SeenTo(l, request[r].start)
      BY <1>1, <1>4, <3>2, <3>4 DEF ListFits, RequestFits
    <3>6. /\ \A k \in P, j \in steady[l] :
               j > request[r].start /\ j <= k => j \in P
          /\ \A k \in P : k > request[r].start
          /\ ~ FullPage(P) =>
               \A j \in steady[l] : j > request[r].start => j \in P
      <4>1. PICK s \in Starts : s = request[r].start
        BY <3>4
      <4>2. Replica(l, R) /\ IsPage(P, R, s)
        BY <1>4, <3>2, <4>1
      <4>3. /\ \A k \in P, j \in steady[l] : j > s /\ j <= k => j \in P
            /\ \A k \in P : k > s
            /\ ~ FullPage(P) => \A j \in steady[l] : j > s => j \in P
        BY <1>1, <4>2, PageHasAll, Zenon
      <4> QED BY <4>1, <4>3
    <3>7. \A j \in unseen[l] : j \in steady[l] /\ j > request[r].start
      BY <1>1, <3>5 DEF SeenTo
    <3>8. /\ \A k \in P, j \in unseen[l] : j <= k => j \in P
          /\ ~ FullPage(P) => unseen[l] \subseteq P
      BY <3>6, <3>7
    <3> QED BY <1>2, <3>3, <3>8 DEF RequestFits, FullPage
  <2> QED BY <2>1, <2>2
<1> QED BY <1>3, <1>5 DEF ListFits

LEMMA RequestFailsFits ==
  ASSUME ListsInv, NEW l \in Lists, Sound(l), NEW r \in Requests, RequestFails(r)
  PROVE  ListFits(l)'
<1>1. ListFits(l) /\ TypeOK
  BY DEF ListsInv
<1>2. UNCHANGED <<table, offset, unseen>>
  BY DEF RequestFails
<1>3. StartsFit(l)' /\ EndSeesAllOf(l)'
  BY <1>1, <1>2 DEF ListFits, StartsFit, SeenTo, EndSeesAllOf
<1>4. \A q \in Requests : request'[q] = request[q] \/ request'[q].pc = "idle"
  BY <1>1 DEF RequestFails, TypeOK, Idle
<1>5. ASSUME NEW q \in Requests, request'[q].list = l PROVE RequestFits(l, q)'
  BY <1>1, <1>2, <1>4, <1>5 DEF ListFits, RequestFits, SeenTo, FullPage
<1> QED BY <1>3, <1>5 DEF ListFits

(* What is shown leaves nothing unseen up to its last row. *)
LEMMA ShowFits ==
  ASSUME ListsInv, NEW l \in Lists, Sound(l), NEW r \in Requests, Show(r)
  PROVE  ListFits(l)'
<1>1. ListFits(l) /\ TypeOK
  BY DEF ListsInv
<1>2. PICK m \in Lists, rows \in SUBSET Keys :
        /\ m = request[r].list /\ rows = request[r].rows
        /\ table' = [table EXCEPT ![m] =
             [rows |-> rows, none |-> rows = {},
              next |-> IF rows = {} THEN table[m].next ELSE FullPage(rows),
              drawn |-> TRUE]]
        /\ unseen' = [unseen EXCEPT ![m] = unseen[m] \ rows]
  BY DEF Show
<1>3. unseen'[l] \subseteq unseen[l] /\ unseen[l] \subseteq Keys
  BY <1>1, <1>2 DEF TypeOK
<1>4. /\ \A q \in Requests : request'[q] = request[q] \/ request'[q].pc = "idle"
      /\ UNCHANGED offset /\ request[r].pc = "answered"
  BY <1>1 DEF Show, TypeOK, Idle
<1>5. ASSUME NEW q \in Requests, request'[q].list = l PROVE RequestFits(l, q)'
  BY <1>1, <1>3, <1>4, <1>5 DEF ListFits, RequestFits, SeenTo, FullPage
<1>6. l = Members => SeenTo(l, offset)'
  BY <1>1, <1>3, <1>4 DEF ListFits, StartsFit, SeenTo
<1>7. CASE m # l
  <2>1. table'[l] = table[l]
    BY <1>1, <1>2, <1>7 DEF TypeOK
  <2>2. StartsFit(l)' /\ EndSeesAllOf(l)'
    BY <1>1, <1>3, <1>6, <2>1 DEF ListFits, StartsFit, SeenTo, EndSeesAllOf
  <2> QED BY <1>5, <2>2 DEF ListFits
<1>8. CASE m = l
  <2>1. /\ table'[l] = [rows |-> rows, none |-> rows = {},
           next |-> IF rows = {} THEN table[l].next ELSE FullPage(rows),
           drawn |-> TRUE]
        /\ unseen'[l] = unseen[l] \ rows
    BY <1>1, <1>2, <1>8 DEF TypeOK
  <2>2. /\ \A k \in rows, j \in unseen[l] : j <= k => j \in rows
        /\ rows # {} /\ ~ FullPage(rows) => unseen[l] \subseteq rows
    BY <1>1, <1>2, <1>4, <1>8 DEF ListFits, RequestFits
  <2>3. ASSUME NEW k \in rows, NEW j \in unseen'[l] PROVE j > k
    <3>1. j \in unseen[l] /\ j \notin rows
      BY <2>1
    <3>2. j \in Nat /\ k \in Nat
      BY <1>3, <3>1, KeysAreNumbers
    <3> QED BY <2>2, <3>1, <3>2
  <2>4. StartsFit(l)'
    BY <1>6, <2>1, <2>3 DEF StartsFit, SeenTo
  <2>5. EndSeesAllOf(l)'
    <3>1. CASE rows = {}
      BY <1>1, <1>3, <2>1, <3>1 DEF ListFits, EndSeesAllOf
    <3>2. CASE rows # {} /\ ~ FullPage(rows)
      BY <2>1, <2>2, <3>2 DEF EndSeesAllOf
    <3>3. CASE rows # {} /\ FullPage(rows)
      BY <2>1, <3>3 DEF EndSeesAllOf
    <3> QED BY <3>1, <3>2, <3>3
  <2> QED BY <1>5, <2>4, <2>5 DEF ListFits
<1> QED BY <1>7, <1>8

(* No step makes more unseen, or less steady than unseen. *)
LEMMA NextUnseen == ASSUME ListsInv, [Next]_vars PROVE UnseenIsSteady'
<1> USE DEF ListsInv, TypeOK, UnseenIsSteady
<1>1. ASSUME NEW l \in Lists, NEW k \in Keys, Change(l, k) PROVE UnseenIsSteady'
  BY <1>1 DEF Change
<1>2. ASSUME NEW r \in Requests, Show(r) PROVE UnseenIsSteady'
  BY <1>2 DEF Show, records
<1>3. CASE UNCHANGED <<steady, unseen>>
  BY <1>3
<1> QED
  BY <1>1, <1>2, <1>3
     DEF Next, MemberList, TakeOut, LoadFirst, Forward, ForwardFromNone,
         LoadNext, Reload, Ask, Answer, RequestFails, FetchPage, PrintMember,
         FetchFails, records, browser, vars

LEMMA NextFits == ASSUME ListsInv, [Next]_vars PROVE ListsInv'
<1>1. TypeOK /\ TypeOK' /\ UnseenIsSteady'
  BY NextTyped, NextUnseen DEF ListsInv
<1>2. ASSUME NEW l \in Lists, Sound(l) PROVE ListFits(l)'
  <2>1. ListFits(l)
    BY <1>2 DEF ListsInv
  <2>2. ASSUME NEW m \in Lists, NEW k \in Keys, Change(m, k) PROVE ListFits(l)'
    <3>1. unseen'[l] \subseteq unseen[l] /\ UNCHANGED <<table, offset, request>>
      BY <1>1, <2>2 DEF Change, TypeOK
    <3> QED BY <2>1, <3>1, FewerUnseen
  <2>3. ASSUME NEW m \in Lists, NEW k \in Keys, TakeOut(m, k) PROVE ListFits(l)'
    BY <1>2, <2>3, TakeOutFits
  <2>4. ASSUME NEW m \in Lists, LoadFirst(m) PROVE ListFits(l)'
    BY <1>1, <2>1, <2>4, StartIsBefore, AskFits DEF LoadFirst
  <2>5. ASSUME NEW m \in Lists, Forward(m) PROVE ListFits(l)'
    BY <1>2, <2>5, ForwardFits
  <2>6. ASSUME NEW m \in Lists, ForwardFromNone(m) PROVE ListFits(l)'
    BY <1>1, <1>2, <2>6, StartIsBefore, LoadNextFits DEF ForwardFromNone
  <2>7. CASE Reload
    <3>1. PICK r \in Requests : Ask(r, Members, offset) /\ UNCHANGED offset
      BY <2>7 DEF Reload
    <3>2. Members = l => SeenTo(l, offset)
      BY <2>1 DEF ListFits, StartsFit
    <3>3. offset \in Starts
      BY <1>1 DEF TypeOK
    <3> QED BY <1>1, <2>1, <3>1, <3>2, <3>3, AskFits, ListsAssumption
  <2>8. ASSUME NEW r \in Requests, Answer(r) PROVE ListFits(l)'
    BY <1>2, <2>8, AnswerFits
  <2>9. ASSUME NEW r \in Requests, RequestFails(r) PROVE ListFits(l)'
    BY <1>2, <2>9, RequestFailsFits
  <2>10. ASSUME NEW r \in Requests, Show(r) PROVE ListFits(l)'
    BY <1>2, <2>10, ShowFits
  <2>11. CASE UNCHANGED browser
    BY <2>1, <2>11, FewerUnseen DEF browser
  <2>12. MemberList \/ UNCHANGED vars => UNCHANGED browser
    BY DEF MemberList, FetchPage, PrintMember, FetchFails, vars
  <2> QED
    BY <2>2, <2>3, <2>4, <2>5, <2>6, <2>7, <2>8, <2>9, <2>10, <2>11, <2>12
       DEF Next
<1> QED BY <1>1, <1>2 DEF ListsInv

(* The end of a list whose rows all have ids that stand for themselves is   *)
(* its end, however the answers to its requests are reordered or lost, and  *)
(* whatever comes, goes and is taken out meanwhile (memberlist.js).         *)
THEOREM EndOfListSeesAll == Spec => []EndSeesAll
<1>1. Init => ListsInv BY InitFits
<1>2. ListsInv /\ [Next]_vars => ListsInv' BY NextFits
<1>3. ListsInv => EndSeesAll BY DEF ListsInv, EndSeesAll, ListFits
<1> QED BY <1>1, <1>2, <1>3, PTL DEF Spec
-----------------------------------------------------------------------------
(* member_list. *)

LEMMA PrinterStarts == ASSUME Init PROVE PrinterInv
<1>1. TypeOK BY InitTyped
<1>2. printer.pc = "fetch" /\ printer.prev = Start /\ printer.page = {}
      /\ output = << >>
  BY DEF Init
<1>3. \A k \in steady[Members] : k > Start
  BY ListsAssumption, KeysAreNumbers DEF Init
<1> QED BY <1>1, <1>2, <1>3 DEF PrinterInv, PrinterFits, PrintedInOrder, PrintsAll

(* A page has who is steady between prev_key and any member of it. *)
LEMMA FetchPageFits ==
  ASSUME PrinterInv, FetchPage
  PROVE  PrinterFits' /\ PrintedInOrder' /\ PrintsAll'
<1>1. TypeOK
  BY DEF PrinterInv
<1>2. PICK R \in SUBSET Keys, P \in SUBSET Keys :
        /\ Replica(Members, R) /\ IsPage(P, R, printer.prev)
        /\ printer' = [printer EXCEPT
             !.pc = IF P = {} THEN "done" ELSE "print", !.page = P]
  BY DEF FetchPage
<1>3. UNCHANGED <<steady, output>>
  BY DEF FetchPage, records
<1>4. /\ printer'.prev = printer.prev /\ printer'.page = P
      /\ printer'.pc = IF P = {} THEN "done" ELSE "print"
  BY <1>1, <1>2 DEF TypeOK
<1>5. printer.prev \in Starts
  BY <1>1 DEF TypeOK
<1>6. /\ \A k \in P, j \in steady[Members] :
           j > printer.prev /\ j <= k => j \in P
      /\ \A k \in P : k > printer.prev
      /\ ~ FullPage(P) => \A j \in steady[Members] : j > printer.prev => j \in P
  <2>1. Members \in Lists
    BY ListsAssumption
  <2> QED BY <1>1, <1>2, <1>5, <2>1, PageHasAll, Zenon
<1>7. PrinterFits'
  BY <1>3, <1>4, <1>6 DEF PrinterInv, PrinterFits
<1>8. PrintsAll'
  <2>1. CASE P = {}
    <3>1. ~ FullPage(P)
      BY <2>1, ListsAssumption, FS_EmptySet DEF FullPage
    <3>2. \A j \in steady[Members] : ~ (j > printer.prev)
      BY <1>6, <2>1, <3>1
    <3> QED BY <1>3, <3>2 DEF PrinterInv, PrinterFits, PrintsAll
  <2>2. CASE P # {}
    BY <1>4, <2>2 DEF PrintsAll
  <2> QED BY <2>1, <2>2
<1>9. PrintedInOrder'
  BY <1>3 DEF PrinterInv, PrintedInOrder
<1> QED BY <1>7, <1>8, <1>9

LEMMA PrintMemberFits ==
  ASSUME PrinterInv, PrintMember
  PROVE  PrinterFits' /\ PrintedInOrder' /\ PrintsAll'
<1>1. TypeOK /\ PrinterFits /\ PrintedInOrder
  BY DEF PrinterInv
<1>2. PICK k \in printer.page :
        /\ \A j \in printer.page : k <= j
        /\ output' = Append(output, k)
        /\ printer' = [pc |-> IF printer.page = {k} THEN "fetch" ELSE "print",
                       prev |-> k, page |-> printer.page \ {k}]
  BY DEF PrintMember
<1>3. UNCHANGED steady /\ printer.pc = "print"
  BY DEF PrintMember, records
<1> DEFINE n == Len(output)
<1>4. /\ output \in Seq(Keys) /\ n \in Nat /\ Len(output') = n + 1
      /\ \A i \in 1 .. n : output'[i] = output[i] /\ output[i] \in Keys
      /\ output'[n + 1] = k
  BY <1>1, <1>2 DEF TypeOK
<1>5. /\ k \in Nat /\ printer.page \subseteq Nat /\ printer.prev \in Nat
      /\ Keys \subseteq Nat /\ steady[Members] \subseteq Nat
  BY <1>1, KeysAreNumbers, ListsAssumption DEF TypeOK
<1>6. k > printer.prev
  BY <1>1, <1>2 DEF PrinterFits
<1>7. \A i \in 1 .. n : output[i] < k
  <2> TAKE i \in 1 .. n
  <2>1. output[i] <= printer.prev /\ output[i] \in Nat
    BY <1>1, <1>4, <1>5 DEF PrinterFits
  <2> QED BY <1>5, <1>6, <2>1
<1>8. \A i \in 1 .. Len(output') : output'[i] <= k
  <2> TAKE i \in 1 .. Len(output')
  <2>1. CASE i \in 1 .. n
    <3>1. output'[i] = output[i] /\ output[i] < k /\ output[i] \in Nat
      BY <1>4, <1>5, <1>7, <2>1
    <3> QED BY <1>5, <3>1
  <2>2. CASE i = n + 1
    BY <1>4, <1>5, <2>2
  <2> QED BY <1>4, <2>1, <2>2
<1>9. \A j \in printer.page \ {k} : j > k
  BY <1>2, <1>5
<1>10. ASSUME NEW j \in steady[Members], ~ (j > k)
       PROVE  \E i \in 1 .. Len(output') : output'[i] = j
  <2>1. CASE j > printer.prev
    <3>1. j \in printer.page
      BY <1>1, <1>2, <1>3, <1>5, <1>10, <2>1 DEF PrinterFits
    <3>2. j = k
      BY <1>2, <1>5, <1>10, <3>1
    <3> QED BY <1>4, <3>2
  <2>2. CASE ~ (j > printer.prev)
    <3>1. PICK i \in 1 .. n : output[i] = j
      BY <1>1, <2>2 DEF PrinterFits
    <3> QED BY <1>4, <3>1
  <2> QED BY <2>1, <2>2
<1>11. ASSUME NEW j \in steady[Members], NEW i \in printer.page \ {k},
              j > k, j <= i
       PROVE  j \in printer.page \ {k}
  <2>1. j > printer.prev
    BY <1>5, <1>6, <1>11
  <2> QED BY <1>1, <1>3, <1>5, <1>11, <2>1 DEF PrinterFits
<1>12. PrinterFits'
  BY <1>2, <1>3, <1>8, <1>9, <1>10, <1>11 DEF PrinterFits
<1>13. PrintsAll'
  BY <1>2 DEF PrintsAll
<1>14. PrintedInOrder'
  <2> SUFFICES ASSUME NEW i \in 1 .. Len(output'), NEW j \in 1 .. Len(output'),
                      i < j
               PROVE  output'[i] < output'[j]
    BY DEF PrintedInOrder
  <2>1. CASE j \in 1 .. n
    <3>1. i \in 1 .. n
      BY <1>4, <2>1
    <3> QED BY <1>1, <1>4, <2>1, <3>1 DEF PrintedInOrder
  <2>2. CASE j = n + 1
    <3>1. i \in 1 .. n
      BY <1>4, <2>2
    <3> QED BY <1>4, <1>7, <2>2, <3>1
  <2> QED BY <1>4, <2>1, <2>2
<1> QED BY <1>12, <1>13, <1>14

LEMMA NextPrints == ASSUME PrinterInv, [Next]_vars PROVE PrinterInv'
<1>1. TypeOK'
  BY NextTyped DEF PrinterInv
<1>2. ASSUME UNCHANGED program, steady'[Members] \subseteq steady[Members]
      PROVE  PrinterFits' /\ PrintedInOrder' /\ PrintsAll'
  <2>1. UNCHANGED <<printer, output>>
    BY <1>2 DEF program
  <2>2. PrinterFits'
    BY <1>2, <2>1 DEF PrinterInv, PrinterFits
  <2>3. PrintedInOrder' /\ PrintsAll'
    BY <1>2, <2>1 DEF PrinterInv, PrintedInOrder, PrintsAll
  <2> QED BY <2>2, <2>3
<1>3. ASSUME NEW l \in Lists, NEW k \in Keys, Change(l, k)
      PROVE  UNCHANGED program /\ steady'[Members] \subseteq steady[Members]
  BY <1>3, ListsAssumption DEF Change, PrinterInv, TypeOK, program
<1>4. ASSUME FetchFails PROVE PrinterFits' /\ PrintedInOrder' /\ PrintsAll'
  <2>1. /\ printer'.pc = "failed" /\ printer'.prev = printer.prev
        /\ printer'.page = printer.page /\ UNCHANGED <<steady, output>>
    BY <1>4 DEF FetchFails, PrinterInv, TypeOK, records
  <2>2. PrinterFits'
    BY <2>1 DEF PrinterInv, PrinterFits
  <2>3. PrintedInOrder' /\ PrintsAll'
    BY <2>1 DEF PrinterInv, PrintedInOrder, PrintsAll
  <2> QED BY <2>2, <2>3
<1>5. \/ \E l \in Lists, k \in Keys : Change(l, k)
      \/ FetchPage \/ PrintMember \/ FetchFails
      \/ UNCHANGED <<program, steady>>
  BY DEF Next, MemberList, TakeOut, LoadFirst, Forward, ForwardFromNone,
         LoadNext, Reload, Ask, Answer, RequestFails, Show, records, vars
<1>6. PrinterFits' /\ PrintedInOrder' /\ PrintsAll'
  <2>1. CASE \E l \in Lists, k \in Keys : Change(l, k)
    BY <1>2, <1>3, <2>1
  <2>2. CASE UNCHANGED <<program, steady>>
    BY <1>2, <2>2
  <2> QED BY <1>4, <1>5, <2>1, <2>2, FetchPageFits, PrintMemberFits
<1> QED BY <1>1, <1>6 DEF PrinterInv

(* member_list prints nobody twice and in the order of the keys, though the *)
(* pages come from replicas that lag behind (member_list.go).               *)
THEOREM PrintsInOrder == Spec => []PrintedInOrder
<1>1. Init => PrinterInv BY PrinterStarts
<1>2. PrinterInv /\ [Next]_vars => PrinterInv' BY NextPrints
<1>3. PrinterInv => PrintedInOrder BY DEF PrinterInv
<1> QED BY <1>1, <1>2, <1>3, PTL DEF Spec

(* When member_list has ended well, who was a member all the time has been  *)
(* printed.                                                                 *)
THEOREM PrintsEveryMember == Spec => []PrintsAll
<1>1. Init => PrinterInv BY PrinterStarts
<1>2. PrinterInv /\ [Next]_vars => PrinterInv' BY NextPrints
<1>3. PrinterInv => PrintsAll BY DEF PrinterInv
<1> QED BY <1>1, <1>2, <1>3, PTL DEF Spec
=============================================================================
