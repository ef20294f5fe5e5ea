------------------------------ MODULE Ranking ------------------------------
(***************************************************************************)
(* How a hive orders the backends of a model (Hive::candidates) and the    *)
(* load it orders them by (load::effective_load).                          *)
(*                                                                         *)
(* A backend is a natural number: its place in the endpoint list, which    *)
(* set_endpoints keeps sorted by base_url.  The code sorts that list by    *)
(* (cooling, effective load) with a stable sort and rotates every run of   *)
(* equal keys by the model's round-robin turn; here the place each backend *)
(* ends at is defined directly.                                            *)
(***************************************************************************)
EXTENDS Integers, FiniteSets

LoadKinds == {"known", "measured", "unknown"}

\* A polled load.  "unknown" carries no number (n is 0).
UnknownLoad == [kind |-> "unknown", n |-> 0]

\* The worst of what the server reports and of what this hive has in
\* flight, and whether that number is a server's own exact report.
EffectiveLoad(server, flying) ==
    LET trusted == \/ server.kind = "known" /\ server.n > 0 /\ server.n >= flying
                   \/ server.kind = "measured" /\ server.n >= flying
    IN [n |-> IF server.n >= flying THEN server.n ELSE flying, exact |-> trusted]

-----------------------------------------------------------------------------
\* Seeded bug: the cooldown left out of the key.
RankedByLoad(cooling, eff, b, c) == eff[b] < eff[c]

\* The order of the rank keys (cooling, effective load): b strictly before c.
RankedBefore(cooling, eff, b, c) ==
    \/ b \notin cooling /\ c \in cooling
    \/ (b \in cooling <=> c \in cooling) /\ eff[b] < eff[c]

\* The members whose rank key equals b's: the run b is rotated in.
Tied(members, cooling, eff, b) ==
    {c \in members : (c \in cooling <=> b \in cooling) /\ eff[c] = eff[b]}

\* Seeded bugs, to see that the properties notice: the run's members
\* forgotten ahead of it; the whole list rotated instead of each run.
PlaceInRunOnly(members, cooling, eff, turn, b) ==
    LET run == Tied(members, cooling, eff, b)
    IN 1 + ((Cardinality({c \in run : c < b}) - turn) % Cardinality(run))

PlaceRotatingAll(members, cooling, eff, turn, b) ==
    LET ahead == {c \in members : RankedBefore(cooling, eff, c, b)}
        index == Cardinality({c \in Tied(members, cooling, eff, b) : c < b})
    IN 1 + ((Cardinality(ahead) + index - turn) % Cardinality(members))

\* b's place in the list of candidates: after everyone ranked before it,
\* then by its place in its own run, rotated left by the turn.
Place(members, cooling, eff, turn, b) ==
    LET ahead == {c \in members : RankedBefore(cooling, eff, c, b)}
        run   == Tied(members, cooling, eff, b)
        index == Cardinality({c \in run : c < b})
    IN 1 + Cardinality(ahead) + ((index - turn) % Cardinality(run))

\* The members in the order the proxy tries them.
Candidates(members, cooling, eff, turn) ==
    [i \in 1..Cardinality(members) |->
        CHOOSE b \in members : Place(members, cooling, eff, turn, b) = i]

\* Seeded bugs: a counter that does not wrap, one that does not advance.
TurnUnwrapped(turn, TurnSpace) == turn + 1
TurnStuck(turn, TurnSpace) == turn

\* The counter wraps (usize::wrapping_add); TurnSpace stands for 2^64.
NextTurn(turn, TurnSpace) == (turn + 1) % TurnSpace

-----------------------------------------------------------------------------
(* Aggregate load (GET /load): the effective load of the least loaded       *)
(* member, an exact number winning a tie; nothing to report without members. *)
AggregateLoad(loads) ==
    IF loads = {}
    THEN [n |-> 0, exact |-> FALSE]
    ELSE CHOOSE l \in loads : \A k \in loads :
            l.n < k.n \/ (l.n = k.n /\ (l.exact \/ ~k.exact))
=============================================================================
