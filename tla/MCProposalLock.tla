---------------------------- MODULE MCProposalLock ----------------------------
(* Five calls of one record's lock: enough for a chain with a call inside,   *)
(* several waiting, and a call that arrives when the Map is empty again.     *)
EXTENDS ProposalLock
===============================================================================
