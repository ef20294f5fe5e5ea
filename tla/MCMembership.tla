---------------------------- MODULE MCMembership ----------------------------
(* Membership on one backend: pinned, and on a port that ss and docker ps    *)
(* show.                                                                     *)
EXTENDS Membership

Down == [state |-> "down", models |-> {}]
Self == [state |-> "self", models |-> {}]
Up(M) == [state |-> "up", models |-> M]

AllConditions == {Down, Self} \cup {Up(M) : M \in SUBSET Models}

Pinned(b) == [by |-> "static", backend |-> b, sure |-> TRUE, shown |-> {}]
Port(b) == [by |-> "port", backend |-> b, sure |-> FALSE, shown |-> {"ps", "ss"}]
TwoWays == {Pinned("p"), Port("p")}
=============================================================================
