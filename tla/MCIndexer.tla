------------------------------ MODULE MCIndexer ------------------------------
(***************************************************************************)
(* Values for model checking EventIndexer.                                 *)
(***************************************************************************)
EXTENDS EventIndexer

\* one program at a time
Alone == {{p} : p \in Programs}
Polls == {{"poll"}}
Funds == {{"crowdfund"}}
Tasks == {{"task"}}
==============================================================================
