--------------------------- MODULE MemberAccounts ---------------------------
(***************************************************************************)
(* What member_creator promises of the accounts in LDAP, whatever becomes   *)
(* of its calls and however often it is started: an account is made for     *)
(* somebody who has not left, with a number nobody else has, and keeps it;  *)
(* who becomes a member has an account by then, and a mail comes after      *)
(* that; an account is only taken from somebody who has left.  There are no *)
(* runs, lists and failures here: each promise is one step.                 *)
(***************************************************************************)
CONSTANTS
  Uuids,      \* the membership records
  Names,      \* the names of accounts
  NameOf,     \* the name of each record's account, or NoName
  Numbers,    \* uidNumbers
  NoName, NoAccount

VARIABLES
  account,      \* the number of each account, or NoAccount
  leaving,      \* those who have left
  members,      \* those who have become members
  provisioned,  \* those of them whom an account was made for
  welcomed      \* those who have got a mail

vars == <<account, leaving, members, provisioned, welcomed>>

Init ==
  /\ account \in [Names -> Numbers \cup {NoAccount}]
  /\ \A m, n \in Names :
       m # n /\ account[m] # NoAccount => account[m] # account[n]
  /\ leaving \subseteq Uuids
  /\ members = {} /\ provisioned = {} /\ welcomed = {}

MakeAccount(u) ==
  /\ u \notin leaving /\ NameOf[u] # NoName
  /\ account[NameOf[u]] = NoAccount
  /\ \E number \in Numbers :
       /\ \A n \in Names : account[n] # number
       /\ account' = [account EXCEPT ![NameOf[u]] = number]
  /\ UNCHANGED <<leaving, members, provisioned, welcomed>>

(* Without a user name, or in a dry run, there is no account.               *)
Join(u) ==
  /\ u \notin leaving
  /\ members' = members \cup {u}
  /\ \/ UNCHANGED provisioned
     \/ /\ NameOf[u] # NoName /\ account[NameOf[u]] # NoAccount
        /\ provisioned' = provisioned \cup {u}
  /\ UNCHANGED <<account, leaving, welcomed>>

Welcome(u) ==
  /\ u \in members
  /\ welcomed' = welcomed \cup {u}
  /\ UNCHANGED <<account, leaving, members, provisioned>>

RemoveAccount(u) ==
  /\ u \in leaving /\ NameOf[u] # NoName
  /\ account' = [account EXCEPT ![NameOf[u]] = NoAccount]
  /\ UNCHANGED <<leaving, members, provisioned, welcomed>>

Next ==
  \E u \in Uuids :
    MakeAccount(u) \/ Join(u) \/ Welcome(u) \/ RemoveAccount(u)

Spec == Init /\ [][Next]_vars
=============================================================================
