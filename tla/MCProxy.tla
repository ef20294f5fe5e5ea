------------------------------ MODULE MCProxy ------------------------------
(***************************************************************************)
(* Proxy, instantiated.  Pair: two requests on two backends, the second of *)
(* which a scan may lose and the first of which may be a hive the request  *)
(* came through: every interleaving of two handlers.  Deep: one request on *)
(* three backends, with every poll and scan: failover along a whole list.  *)
(***************************************************************************)
EXTENDS Proxy, TLC

Symmetry == Permutations(Reqs)

Idle == [b \in Backends |-> UnknownLoad]
AlwaysIdle == {Idle}
FirstMayBeBusy == {Idle, [Idle EXCEPT ![1] = [kind |-> "measured", n |-> 1]]}

OneMayLeave == {{1}, {1, 2}}
AllMayLeave == {{}, {1, 2}}
AnyMembers == {{}, {2, 3}, {1, 2, 3}}

Direct == {{}}
ThroughFirst == {{}, {1}}
ThroughAny == {{}, {1}, {1, 2, 3}}
=============================================================================
