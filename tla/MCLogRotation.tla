---------------------------- MODULE MCLogRotation ----------------------------
(* The sink alone, small. *)
EXTENDS LogRotation
=============================================================================
