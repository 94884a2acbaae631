---------------------------- MODULE MCDocuments ----------------------------
(* Every structure, at most MaxEdits assignments away from a new object or,  *)
(* for a user transaction, from one that passes every check.                 *)
EXTENDS Documents
=============================================================================
