-------------------------------- MODULE Scans --------------------------------
(***************************************************************************)
(* What the hive promises of its membership, as if every scan happened in  *)
(* one instant: a backend that answered is a member as it was found since  *)
(* the scan before; one that did not stays as it was last known until it   *)
(* has missed Patience scans in a row; a container leaves at once.         *)
(*                                                                         *)
(* The code's scans take time, overlap and keep counters: module           *)
(* Membership, which implements this one.                                  *)
(***************************************************************************)
EXTENDS Integers

CONSTANTS
    Backends,       \* base URLs
    Models,         \* model names
    Conditions,     \* what a base URL may be: see World
    OnlyListed,     \* backends only listings tell of, which may fail
    Patience        \* scans a member may miss before it leaves

\* A base URL leads nowhere, to a server too busy to answer a probe in time,
\* back to this hive, or to a server with these models.
World == [state : {"down", "slow", "self", "up"}, models : SUBSET Models]
Sources == {"static", "docker", "port"}
NoSource == "none"

VARIABLES
    world,      \* backend -> its condition now
    since,      \* backend -> its conditions since the last scan
    members,    \* backends in the hive
    known,      \* member -> its models, as last known
    source,     \* member -> where it was found
    silent      \* member -> scans in a row it has missed

vars == <<world, since, members, known, source, silent>>

Init ==
    /\ world \in [Backends -> Conditions]
    /\ since = [b \in Backends |-> {world[b]}]
    /\ members = {}
    /\ known = [b \in Backends |-> {}]
    /\ source = [b \in Backends |-> NoSource]
    /\ silent = [b \in Backends |-> 0]

Change ==
    \E b \in Backends, w \in Conditions :
        /\ world' = [world EXCEPT ![b] = w]
        /\ since' = [since EXCEPT ![b] = @ \cup {w}]
        /\ UNCHANGED <<members, known, source, silent>>

\* b answered, with models it has had since the last scan.
Answers(b) ==
    /\ b \in members' /\ silent'[b] = 0 /\ source'[b] \in Sources
    /\ \E w \in since[b] : w.state = "up"
    /\ known'[b] \subseteq UNION {w.models : w \in {v \in since[b] : v.state = "up"}}

\* May b have been missed by the scan?
Excused(b) == b \in OnlyListed \/ \E w \in since[b] : w.state # "up"

\* b was a member, did not answer and is given more time.
IsKept(b) ==
    /\ Excused(b) /\ b \in members /\ b \in members'
    /\ source[b] # "docker" /\ silent[b] + 1 < Patience
    /\ silent'[b] = silent[b] + 1
    /\ known'[b] = known[b] /\ source'[b] = source[b]

\* b did not answer and is not, or no longer, a member.
IsOut(b) ==
    /\ Excused(b) /\ b \notin members'
    /\ b \in members => source[b] = "docker" \/ silent[b] + 1 >= Patience
    /\ silent'[b] = 0 /\ known'[b] = {} /\ source'[b] = NoSource

Scan ==
    /\ \A b \in Backends : Answers(b) \/ IsKept(b) \/ IsOut(b)
    /\ members' \subseteq Backends
    /\ since' = [b \in Backends |-> {world[b]}]
    /\ UNCHANGED world

Next == Change \/ Scan

Spec == Init /\ [][Next]_vars
=============================================================================
