----------------------------- MODULE MCHiveMesh -----------------------------
(* Three hives, each of which has the address of the next: a's members are b *)
(* and its own backend, b's are c and its own, c's is a.                     *)
EXTENDS HiveMesh

CONSTANTS a, b, c

Ring == {<<a, b>>, <<b, c>>, <<c, a>>}
=============================================================================
