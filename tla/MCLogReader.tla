----------------------------- MODULE MCLogReader -----------------------------
(* The sink and one read of its files, small. *)
EXTENDS LogReader
=============================================================================
