----------------------------- MODULE MCLMDBEnv -----------------------------
(* Small instances of LMDBEnv: the two threads are model values. *)
EXTENDS LMDBEnv

CONSTANTS t1, t2
=============================================================================
