------------------------------ MODULE LoadPolls ------------------------------
(***************************************************************************)
(* How hives learn the load of one model, from servers and from each       *)
(* other: each hive polls its members (refresh_load), a server by way of   *)
(* /metrics, then of /load, another hive by way of its aggregate, GET      *)
(* /load?model= (VllmMetricsProbe, VllmLoadProbe, HivLoadProbe,            *)
(* probe_backend, server_load).  What is routed on a load is module        *)
(* Balancer; which members a hive has comes from its scans.                *)
(***************************************************************************)
EXTENDS Ranking

CONSTANTS
    Hives,
    Servers,
    Links,          \* <<h, m>>: hive h may have m for a member
    Steady,         \* those that never leave
    Kinds,          \* the kinds of server there are, see ServerKinds
    Numbers,        \* how many requests a server may have
    MaxFlying,      \* bound: requests of a hive in flight to one member
    Losses          \* bound: polls of a member that are not answered

\* /metrics is served; /load is not there, counts, or always says 0; the model
\* is the server's only one.
ServerKinds == [metrics : BOOLEAN, load : {"none", "tracked", "zero"}, alone : BOOLEAN]

ASSUME PollConstants ==
    /\ Hives \cap Servers = {} /\ IsFiniteSet(Hives) /\ IsFiniteSet(Servers)
    /\ Links \subseteq Hives \X (Hives \cup Servers) /\ Steady \subseteq Links
    /\ Kinds \subseteq ServerKinds /\ Numbers \subseteq Nat
    /\ {MaxFlying, Losses} \subseteq Nat

Members == Hives \cup Servers
Reach(h) == {m \in Members : <<h, m>> \in Links}
Stays(h) == {m \in Members : <<h, m>> \in Steady}

VARIABLES
    kind,       \* server -> its kind, for good
    busy,       \* server -> requests it has
    had,        \* history: server -> the numbers of requests it has had
    members,    \* hive -> its members for the model
    flying,     \* hive -> member -> requests in flight there (Hive::inflight)
    loads,      \* hive -> member -> load last polled (Hive::loads)
    polling,    \* hives with a poll under way
    asked,      \* hive -> members the running poll is about
    told,       \* hive -> member -> what the running poll was told
    losses

world == <<kind, busy, had, members, flying>>
polls == <<loads, polling, asked, told>>
vars == <<world, polls, losses>>

-----------------------------------------------------------------------------
(* Probes.                                                                 *)

Known(n) == [kind |-> "known", n |-> n]
Measured(n) == [kind |-> "measured", n |-> n]
Pending == [kind |-> "pending", n |-> 0]

\* aggregate_load: what hive h answers to GET /load?model=.
Aggregate(h) == AggregateLoad({EffectiveLoad(loads[h][m], flying[h][m]) : m \in members[h]})

MetricsSay(s) == IF kind[s].metrics THEN Measured(busy[s]) ELSE UnknownLoad
LoadSays(s) ==
    CASE kind[s].load = "tracked" -> Known(busy[s])
      [] kind[s].load = "zero" -> Known(0)
      [] OTHER -> UnknownLoad

\* Seeded bug: the number of a hive is taken whether it is exact or not.
HiveSaysAnything(g) == Measured(Aggregate(g).n)

HiveSays(g) == IF Aggregate(g).exact THEN Measured(Aggregate(g).n) ELSE UnknownLoad

\* probe_backend over the probes of a server: the first that knows.
ServerSays(s) ==
    IF MetricsSay(s) # UnknownLoad THEN MetricsSay(s)
    ELSE IF kind[s].alone THEN LoadSays(s) ELSE UnknownLoad

Says(m) == IF m \in Hives THEN HiveSays(m) ELSE ServerSays(m)

-----------------------------------------------------------------------------
(* A poll.                                                                 *)

\* The members of the moment are asked, all at once.
StartPoll(h) ==
    /\ h \notin polling /\ polling' = polling \cup {h}
    /\ asked' = [asked EXCEPT ![h] = members[h]]
    /\ UNCHANGED <<world, loads, told, losses>>

Hear(h, m) ==
    /\ m \in asked[h] /\ told[h][m] = Pending
    /\ told' = [told EXCEPT ![h][m] = Says(m)]
    /\ UNCHANGED <<world, loads, polling, asked, losses>>

\* m does not answer in time: of a server, at least /metrics is not heard.
HearNothing(h, m) ==
    /\ losses < Losses /\ losses' = losses + 1
    /\ m \in asked[h] /\ told[h][m] = Pending
    /\ \E l \in {UnknownLoad} \cup
            (IF m \in Servers /\ kind[m].alone THEN {LoadSays(m)} ELSE {}) :
            told' = [told EXCEPT ![h][m] = l]
    /\ UNCHANGED <<world, loads, polling, asked>>

\* Seeded bug: answers of one poll are left for the next.
Left(h) == told[h]

\* The load map is replaced: who was not asked is unknown.
LoadsTold(h) == [m \in Members |-> IF m \in asked[h] THEN told[h][m] ELSE UnknownLoad]

\* A poll begins with no answers.
Untold(h) == [m \in Members |-> Pending]

EndPoll(h) ==
    /\ h \in polling /\ \A m \in asked[h] : told[h][m] # Pending
    /\ loads' = [loads EXCEPT ![h] = LoadsTold(h)]
    /\ polling' = polling \ {h} /\ asked' = [asked EXCEPT ![h] = {}]
    /\ told' = [told EXCEPT ![h] = Untold(h)]
    /\ UNCHANGED <<world, losses>>

-----------------------------------------------------------------------------
(* Outside the polls.                                                      *)

Work(s, n) ==
    /\ busy[s] # n
    /\ busy' = [busy EXCEPT ![s] = n]
    /\ had' = [had EXCEPT ![s] = @ \cup {n}]
    /\ UNCHANGED <<kind, members, flying, polls, losses>>

\* track_inflight and its guard.
Fly(h, m) ==
    /\ m \in members[h] /\ flying[h][m] < MaxFlying
    /\ flying' = [flying EXCEPT ![h][m] = @ + 1]
    /\ UNCHANGED <<kind, busy, had, members, polls, losses>>

Land(h, m) ==
    /\ flying[h][m] > 0
    /\ flying' = [flying EXCEPT ![h][m] = @ - 1]
    /\ UNCHANGED <<kind, busy, had, members, polls, losses>>

\* set_endpoints, after a scan.
Scanned(h, m) ==
    /\ m \in Reach(h) \ Stays(h)
    /\ members' \in {[members EXCEPT ![h] = @ \cup {m}], [members EXCEPT ![h] = @ \ {m}]}
    /\ members' # members
    /\ UNCHANGED <<kind, busy, had, flying, polls, losses>>

-----------------------------------------------------------------------------
Init ==
    /\ kind \in [Servers -> Kinds]
    /\ busy \in [Servers -> Numbers]
    /\ had = [s \in Servers |-> {busy[s]}]
    /\ members = [h \in Hives |-> Stays(h)]
    /\ flying = [h \in Hives |-> [m \in Members |-> 0]]
    /\ loads = [h \in Hives |-> [m \in Members |-> UnknownLoad]]
    /\ polling = {}
    /\ asked = [h \in Hives |-> {}]
    /\ told = [h \in Hives |-> [m \in Members |-> Pending]]
    /\ losses = 0

Poll(h) == StartPoll(h) \/ (\E m \in Members : Hear(h, m)) \/ EndPoll(h)

Next ==
    \/ \E h \in Hives : Poll(h)
    \/ \E h \in Hives, m \in Members :
            HearNothing(h, m) \/ Fly(h, m) \/ Land(h, m) \/ Scanned(h, m)
    \/ \E s \in Servers, n \in Numbers : Work(s, n)

Spec == Init /\ [][Next]_vars

\* The poll timer of every hive comes round (--load-interval is not zero), and
\* probes have timeouts.
FairSpec == Spec /\ \A h \in Hives : WF_vars(Poll(h))

-----------------------------------------------------------------------------
Loads == [kind : LoadKinds, n : Nat]

TypeOK ==
    /\ kind \in [Servers -> Kinds]
    /\ busy \in [Servers -> Numbers]
    /\ had \in [Servers -> SUBSET Numbers]
    /\ members \in [Hives -> SUBSET Members]
    /\ flying \in [Hives -> [Members -> 0..MaxFlying]]
    /\ loads \in [Hives -> [Members -> Loads]]
    /\ polling \subseteq Hives
    /\ asked \in [Hives -> SUBSET Members]
    /\ told \in [Hives -> [Members -> Loads \cup {Pending}]]
    /\ losses \in 0..Losses

\* "Approximations never launder into exact across hops" (hive.rs:338-341,
\* load.rs:150-155): whatever a hive advertises as exact, some server that is
\* counted has had just this number of requests: neither a hive's own count nor
\* a zero that /load always answers becomes a fact further on.
ExactIsFact ==
    \A h \in Hives : Aggregate(h).exact => \E s \in Servers : Aggregate(h).n \in had[s]

\* The servers are busy as in B, hives have all their members, and no request
\* in flight.
Quiet(B) ==
    /\ busy = B /\ members = [h \in Hives |-> Reach(h)]
    /\ flying = [h \in Hives |-> [m \in Members |-> 0]]

\* README.md:62-67: "a stale number can't circulate hive-to-hive as fact": when
\* the servers' loads no longer change and nothing is in flight, an exact
\* number that a hive advertises is in the end a server's number of now.
StaleFactsDie ==
    \A B \in [Servers -> Numbers] :
        <>[]Quiet(B) =>
            <>[](\A h \in Hives : Aggregate(h).exact => \E s \in Servers : Aggregate(h).n = B[s])
=============================================================================
