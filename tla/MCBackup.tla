------------------------------ MODULE MCBackup ------------------------------
(* Backup for TLC: the rows there may be at the start, one of each kind     *)
(* that the run can tell apart. One that is hidden is like none.            *)
EXTENDS Backup

OneOfEachKind ==
  {<<"members", "listed">>, <<"application", "listed">>,
   <<"membership_dequeue", "listed">>, <<"membership_archive", "listed">>}
=============================================================================
