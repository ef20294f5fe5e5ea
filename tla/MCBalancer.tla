----------------------------- MODULE MCBalancer -----------------------------
(* Balancer on three backends: enough for a run of three tied backends, and  *)
(* for one backend between two of another rank.                              *)
EXTENDS Balancer

MCReports == {UnknownLoad, [kind |-> "known", n |-> 0], [kind |-> "measured", n |-> 1]}
=============================================================================
