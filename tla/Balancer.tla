------------------------------ MODULE Balancer ------------------------------
(***************************************************************************)
(* One hive's routing decisions for one model: the view it decides on      *)
(* (members, polled loads, requests in flight, cooling backends), the      *)
(* round-robin turn, and the load it tells peer hives.  What happens to a  *)
(* request after the decision is module Proxy's.                           *)
(***************************************************************************)
EXTENDS Ranking, Sequences

CONSTANTS
    Backends,       \* finite set of naturals: every backend there may be
    LoadReports,    \* loads a poll may find
    MaxInflight,    \* bound on the requests in flight per backend
    TurnSpace,      \* the round-robin counter's modulus (2^64 in the code)
    History         \* bound on the decisions remembered in firsts

ASSUME BalancerConstants ==
    /\ Backends \subseteq Nat /\ IsFiniteSet(Backends)
    /\ LoadReports \subseteq [kind : LoadKinds, n : Nat]
    /\ MaxInflight \in Nat /\ TurnSpace \in Nat \ {0} /\ History \in Nat
    /\ Cardinality(Backends) <= TurnSpace

VARIABLES
    members,    \* backends serving the model
    reported,   \* backend -> last polled load (Hive::loads)
    inflight,   \* backend -> requests this hive has there (Hive::inflight)
    cooling,    \* backends that just failed a request (Hive::cooldown)
    turn,       \* the model's round-robin counter (Hive::rr)
    firsts      \* history: turn and first choice of each decision since the
                \* view last changed

vars == <<members, reported, inflight, cooling, turn, firsts>>
view == <<members, reported, inflight, cooling>>

TypeOK ==
    /\ members \subseteq Backends /\ cooling \subseteq Backends
    /\ reported \in [Backends -> LoadReports \cup {UnknownLoad}]
    /\ inflight \in [Backends -> 0..MaxInflight]
    /\ turn \in 0..(TurnSpace - 1)
    /\ firsts \in Seq([turn : 0..(TurnSpace - 1), first : Backends])
    /\ Len(firsts) <= History

Effective == [b \in Backends |-> EffectiveLoad(reported[b], inflight[b]).n]
Order == Candidates(members, cooling, Effective, turn)

Init ==
    /\ members = {} /\ cooling = {}
    /\ reported = [b \in Backends |-> UnknownLoad]
    /\ inflight = [b \in Backends |-> 0]
    /\ turn = 0 /\ firsts = <<>>

-----------------------------------------------------------------------------
\* One call of candidates: the turn advances even if nobody serves the model.
Decide ==
    /\ Len(firsts) < History
    /\ firsts' = (IF members = {} THEN firsts
                  ELSE Append(firsts, [turn |-> turn, first |-> Order[1]]))
    /\ turn' = NextTurn(turn, TurnSpace)
    /\ UNCHANGED view

\* set_endpoints: a model no longer served loses its counter.
Install(S) ==
    /\ S # members
    /\ members' = S /\ turn' = (IF S = {} THEN 0 ELSE turn) /\ firsts' = <<>>
    /\ UNCHANGED <<reported, inflight, cooling>>

\* refresh_load, for one backend.
Poll(b, l) ==
    /\ reported[b] # l
    /\ reported' = [reported EXCEPT ![b] = l] /\ firsts' = <<>>
    /\ UNCHANGED <<members, inflight, cooling, turn>>

\* A request is sent to b, or the one there ends.
Begin(b) ==
    /\ inflight[b] < MaxInflight
    /\ inflight' = [inflight EXCEPT ![b] = @ + 1] /\ firsts' = <<>>
    /\ UNCHANGED <<members, reported, cooling, turn>>

End(b) ==
    /\ inflight[b] > 0
    /\ inflight' = [inflight EXCEPT ![b] = @ - 1] /\ firsts' = <<>>
    /\ UNCHANGED <<members, reported, cooling, turn>>

MarkFailed(b) ==
    /\ b \notin cooling
    /\ cooling' = cooling \cup {b} /\ firsts' = <<>>
    /\ UNCHANGED <<members, reported, inflight, turn>>

\* An answer from b, or the end of its cooldown.
MarkHealthy(b) ==
    /\ b \in cooling
    /\ cooling' = cooling \ {b} /\ firsts' = <<>>
    /\ UNCHANGED <<members, reported, inflight, turn>>

Next ==
    \/ Decide
    \/ \E S \in SUBSET Backends : Install(S)
    \/ \E b \in Backends : \/ \E l \in LoadReports : Poll(b, l)
                           \/ Begin(b) \/ End(b)
                           \/ MarkFailed(b) \/ MarkHealthy(b)

Spec == Init /\ [][Next]_vars

-----------------------------------------------------------------------------
\* Every member is a candidate exactly once: none is forgotten by the
\* rotation of a run, none is tried twice (the failover list of
\* Hive::candidates).
EveryMemberOnce ==
    {Place(members, cooling, Effective, turn, b) : b \in members} = 1..Cardinality(members)

\* Rotating a run never lifts a backend over a better one: no candidate
\* comes before one whose (cooling, effective load) is smaller.
NeverBeforeBetter ==
    \A i, j \in DOMAIN Order : i < j =>
        ~RankedBefore(cooling, Effective, Order[j], Order[i])

\* Ties take turns: while the view stays the same, as many consecutive
\* decisions as there are backends tied for first choose each of them
\* once (unless the counter wrapped in between).
TiesTakeTurns ==
    members # {} =>
        LET g == Cardinality(Tied(members, cooling, Effective, Order[1]))
        IN \A i, j \in DOMAIN firsts :
              i < j /\ j - i < g /\ firsts[i].turn <= firsts[j].turn
                  => firsts[i].first # firsts[j].first

=============================================================================
