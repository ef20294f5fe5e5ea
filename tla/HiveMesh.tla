------------------------------- MODULE HiveMesh -------------------------------
(***************************************************************************)
(* Hives that are members of each other (README.md, "Hive-of-hives model   *)
(* routes"), and one request on its way through them.  Each hive scans its *)
(* members and records, for one model, the routes they advertise: the ids  *)
(* of the hives a request would pass, down to a real backend               *)
(* (model_objects, advertised_paths, hive_paths, without_self).  A request *)
(* carries the ids of the hives it has passed, its Via path, and is kept   *)
(* from hives on it (without_visited, proxy_by_model).                     *)
(*                                                                         *)
(* A hive may have a backend of its own.  A scan is one step here: module  *)
(* Membership shows what its scans, which take time and overlap, amount    *)
(* to.  Candidates are tried in any order: how they are ranked is module   *)
(* Balancer, what else befalls a request in one hive is module Proxy.      *)
(***************************************************************************)
EXTENDS Integers, FiniteSets, Sequences

CONSTANTS
    Hives,
    Own,            \* the place of a hive's own backend
    Owners,         \* the hives that may have a backend of their own
    Links,          \* <<h, g>>: hive h has the address of hive g
    DropAfter,      \* --drop-after
    MaxHops,        \* MAX_HOPS
    MaxPaths,       \* MAX_ADVERTISED_PATHS
    Called,         \* the hives that clients send requests to
    Frail,          \* the hives that may stop
    Faults          \* bound: probes that are lost and hives that stop

ASSUME MeshConstants ==
    /\ IsFiniteSet(Hives) /\ Own \notin Hives
    /\ Owners \cup Called \subseteq Hives /\ Frail \subseteq Hives
    /\ Links \subseteq Hives \X Hives
    /\ {DropAfter, MaxHops, MaxPaths, Faults} \subseteq Nat

Patience == IF DropAfter >= 1 THEN DropAfter ELSE 1

\* Where h looks for members: its backend and the hives it knows of.
Places == Hives \cup {Own}
Looks(h) == {Own} \cup {g \in Hives : <<h, g>> \in Links}

\* An instance id: a hive that starts again has a new one (new_hive_id).
Ids == Hives \X (0..Faults)
Nobody == <<Own, 0>>

Hops(s) == {s[i] : i \in DOMAIN s}
Prefixed(x, r) == <<x>> \o r

VARIABLES
    backend,    \* hives whose own backend is up
    state,      \* hive -> down, starting (first scan) or serving
    life,       \* hive -> how often it has started again
    view,       \* hive -> place -> what it knows of this member (endpoints)
    missed,     \* hive -> place -> scans in a row missed (missed_scans)
    call,       \* the request: the hives it is at, each waiting for the next
    faults      \* probes lost and hives stopped

world == <<backend, state, life>>
records == <<view, missed>>
vars == <<world, records, call, faults>>

Id(h) == <<h, life[h]>>

(***************************************************************************)
(* Routes.                                                                 *)
(***************************************************************************)

\* What a hive knows of a place: is it a member, under which id, and the
\* routes of the model through it.  A backend has the empty route; a hive
\* that does not list the model has none.
Stranger == [in |-> FALSE, id |-> Nobody, routes |-> {}]
Server == [in |-> TRUE, id |-> Nobody, routes |-> {<<>>}]
Peer(x, R) == [in |-> TRUE, id |-> x, routes |-> R]

Serves(r) == r.in /\ r.routes # {}

\* routes_of: a hive without recorded routes is one opaque hop.
RoutesOf(r) ==
    IF r.id = Nobody THEN {<<>>} ELSE IF r.routes = {} THEN {<<r.id>>} ELSE r.routes

LoopFree(r, avoid) == Hops(r) \cap avoid = {}

\* The routes g could advertise to a caller that came by via.
Open(g, via) ==
    {r \in UNION {RoutesOf(view[g][p]) : p \in {q \in Places : Serves(view[g][q])}} :
        Len(r) < MaxHops /\ LoopFree(r, via \cup {Id(g)})}

\* The first MaxPaths of R, shortest first; those of one length in some order.
Shortest(R) ==
    IF Cardinality(R) <= MaxPaths THEN R
    ELSE R \cap CHOOSE S \in SUBSET R :
                /\ Cardinality(S) = MaxPaths
                /\ \A r \in S, q \in R \ S : Len(r) <= Len(q)

\* What g answers to the probe of h, which names h as Via.
Adverts(g, h) == Shortest(Open(g, {Id(h)}))

\* Seeded bugs: the member is not put in front; a member that does not list
\* the model is taken for one hop to it.
ReceivedBare(x, S) == {r \in S : Len(r) <= MaxHops}
ReceivedOpaque(x, S) == IF S = {} THEN {<<x>>} ELSE {Prefixed(x, q) : q \in S}

\* hive_paths: as seen by the prober.
Received(x, S) == {r \in {Prefixed(x, q) : q \in S} : Len(r) <= MaxHops}

(***************************************************************************)
(* Scans.                                                                  *)
(***************************************************************************)

Nothing == [p \in Places |-> Stranger]
NoMisses == [p \in Places |-> 0]

\* What h finds at p; nothing at a hive in quiet, which answers too late.
Found(h, p, quiet) ==
    IF p = Own THEN IF h \in backend THEN Server ELSE Stranger
    ELSE IF p \in Looks(h) \ quiet /\ state[p] = "serving"
    THEN Peer(Id(p), Received(Id(p), Adverts(p, h)))
    ELSE Stranger

\* without_self: the answer a is one, and not h's own; with routes not through h.
Fresh(h, a) == a.in /\ a.id # Id(h)
Filtered(h, a) == [a EXCEPT !.routes = {r \in @ : LoopFree(r, {Id(h)})}]

\* Seeded bug: a member misses one scan more than it may.
KeptOneMore(h, p, a) == view[h][p].in /\ ~Fresh(h, a) /\ missed[h][p] + 1 <= Patience

\* carry_over_missing.
Kept(h, p, a) == view[h][p].in /\ ~Fresh(h, a) /\ missed[h][p] + 1 < Patience

\* Seeded bug: a member stays as it was first found.
FirstTaken(h, p, a) ==
    IF view[h][p].in THEN view[h][p] ELSE IF Fresh(h, a) THEN Filtered(h, a) ELSE Stranger

\* What h knows of p after a scan that found a there.
Taken(h, p, a) ==
    IF Fresh(h, a) THEN Filtered(h, a) ELSE IF Kept(h, p, a) THEN view[h][p] ELSE Stranger

\* A scan; a hive serves when its first one is over (main).
Scan(h) ==
    /\ state[h] # "down"
    /\ \E quiet \in SUBSET {g \in Looks(h) \ {Own} : state[g] = "serving"} :
        /\ faults + Cardinality(quiet) <= Faults
        /\ faults' = faults + Cardinality(quiet)
        /\ \E found \in {[p \in Places |-> Found(h, p, quiet)]} :
            /\ view' = [view EXCEPT ![h] = [p \in Places |-> Taken(h, p, found[p])]]
            /\ missed' = [missed EXCEPT ![h] =
                [p \in Places |-> IF Kept(h, p, found[p]) THEN missed[h][p] + 1 ELSE 0]]
    /\ state' = [state EXCEPT ![h] = "serving"]
    /\ UNCHANGED <<backend, life, call>>

(***************************************************************************)
(* A request.  call is the chain of hives it has come through; the last    *)
(* one is at work.                                                         *)
(***************************************************************************)

Last(s) == s[Len(s)]
Below(s) == SubSeq(s, 1, Len(s) - 1)

\* Seeded bug: the Via path it came with is not read.
ArrivalBlank(h, via) ==
    [at |-> h, via |-> {}, stage |-> "filter", left |-> {p \in Places : Serves(view[h][p])}]

\* A request that has come to h, and candidates, its first look at the members.
Candidates(h) == {p \in Places : Serves(view[h][p])}
Arrival(h, via) == [at |-> h, via |-> via, stage |-> "filter", left |-> Candidates(h)]

Arrive(h) ==
    /\ h \in Called /\ call = <<>> /\ state[h] = "serving"
    /\ call' = <<Arrival(h, {})>>
    /\ UNCHANGED <<world, records, faults>>

At(stage) == call # <<>> /\ Last(call).stage = stage

\* The hive at work goes on with f.
Continue(f) == call' = Append(Below(call), f)

\* p is a member all of whose routes run through via.
LeadsBack(h, p, via) ==
    view[h][p].in /\ \A r \in RoutesOf(view[h][p]) : ~LoopFree(r, via)

\* Answers of a hive, to the client or to the hive that sent the request on:
\* ok, unknown (404), bad (502: a loop, or nobody could be reached).
Answers == {"ok", "unknown", "bad"}

Retryable(a) == a = "bad"

\* The hive before the one at work has answer a: it tries another candidate if
\* it has one and a is retryable, and passes a on otherwise.
Told(back, a) ==
    Append(Below(back),
        LET f == Last(back)
        IN [f EXCEPT !.stage = IF Retryable(a) /\ f.left # {} THEN "send" ELSE a])

\* The hive at work is done, with answer a.
Reply(a) ==
    IF Len(call) = 1 THEN Continue([Last(call) EXCEPT !.stage = a])
                     ELSE call' = Told(Below(call), a)

\* An answer that is passed on as it is, in the end to the client.
PassOn ==
    /\ \E a \in Answers :
        /\ At(a)
        /\ call' = IF Len(call) = 1 THEN <<>> ELSE Told(Below(call), a)
    /\ UNCHANGED <<world, records, faults>>

\* without_visited: a second look at the members.
Filter ==
    /\ At("filter")
    /\ LET f == Last(call)
           open == {p \in f.left : ~LeadsBack(f.at, p, f.via)}
       IN IF open # {}
          THEN Continue([f EXCEPT !.stage = "send", !.left = open])
          ELSE Reply(IF f.left = {} THEN "unknown" ELSE "bad")
    /\ UNCHANGED <<world, records, faults>>

\* The Via path a request is sent on with, and the candidates left after p.
Onward(f) == f.via \cup {Id(f.at)}
Without(f, p) == [f EXCEPT !.left = @ \ {p}]

\* The candidate p is sent to: a backend answers or does not; a hive takes
\* the request, with the id of this one on its path, or cannot be reached.
Send(p) ==
    /\ At("send") /\ p \in Last(call).left
    /\ LET f == Last(call)
           rest == Without(f, p)
       IN CASE p = Own /\ f.at \in backend -> Reply("ok")
            [] p # Own /\ state[p] = "serving" ->
                 call' = Append(Append(Below(call), [rest EXCEPT !.stage = "wait"]),
                                Arrival(p, Onward(f)))
            [] OTHER -> IF rest.left # {} THEN Continue(rest) ELSE Reply("bad")
    /\ UNCHANGED <<world, records, faults>>

(***************************************************************************)
(* The world.                                                              *)
(***************************************************************************)

BackendUp(h) == h \in Owners \ backend /\ backend' = backend \cup {h}
BackendDown(h) == h \in backend /\ backend' = backend \ {h}

Backend(h) ==
    /\ BackendUp(h) \/ BackendDown(h)
    /\ UNCHANGED <<state, life, records, call, faults>>

\* The last of these hives has lost the one it waits for.
Cut(back) ==
    [back EXCEPT ![Len(back)].stage = IF back[Len(back)].left = {} THEN "bad" ELSE "send"]

\* A hive stops, and a request that is at it or beyond comes back to the hive
\* before it as not sent.
Crash(h) ==
    /\ h \in Frail /\ state[h] # "down" /\ faults < Faults
    /\ faults' = faults + 1
    /\ state' = [state EXCEPT ![h] = "down"]
    /\ view' = [view EXCEPT ![h] = Nothing]
    /\ missed' = [missed EXCEPT ![h] = NoMisses]
    /\ LET hit == {i \in DOMAIN call : call[i].at = h}
       IN \/ hit = {} /\ UNCHANGED call
          \/ \E i \in hit :
                /\ \A k \in hit : i <= k
                /\ call' = IF i = 1 THEN <<>> ELSE Cut(SubSeq(call, 1, i - 1))
    /\ UNCHANGED <<backend, life>>

Start(h) ==
    /\ state[h] = "down"
    /\ state' = [state EXCEPT ![h] = "starting"]
    /\ life' = [life EXCEPT ![h] = @ + 1]
    /\ UNCHANGED <<backend, records, call, faults>>

-----------------------------------------------------------------------------
Init ==
    /\ backend \in SUBSET Owners
    /\ state = [h \in Hives |-> "starting"]
    /\ life = [h \in Hives |-> 0]
    /\ view = [h \in Hives |-> Nothing]
    /\ missed = [h \in Hives |-> NoMisses]
    /\ call = <<>>
    /\ faults = 0

RequestStep == Filter \/ (\E p \in Places : Send(p)) \/ PassOn

Next ==
    \/ \E h \in Hives : Scan(h) \/ Arrive(h) \/ Backend(h) \/ Crash(h) \/ Start(h)
    \/ RequestStep

Spec == Init /\ [][Next]_vars

\* The timer of every hive that runs comes round and its probes time out; a
\* request that is being served goes on.
FairSpec == Spec /\ (\A h \in Hives : WF_vars(Scan(h))) /\ WF_vars(RequestStep)

-----------------------------------------------------------------------------
(* Safety.                                                                 *)

Records == [in : BOOLEAN, id : Ids \cup {Nobody}, routes : SUBSET Seq(Ids)]
Stages == {"filter", "send", "wait"} \cup Answers
Frames == [at : Hives, via : SUBSET Ids, stage : Stages, left : SUBSET Places]

TypeOK ==
    /\ backend \subseteq Hives
    /\ state \in [Hives -> {"down", "starting", "serving"}]
    /\ faults \in 0..Faults
    /\ life \in [Hives -> 0..faults]
    /\ view \in [Hives -> [Places -> Records]]
    /\ missed \in [Hives -> [Places -> 0..(Patience - 1)]]
    /\ call \in Seq(Frames)

\* Every route a hive knows through a member starts with the id of this
\* member, passes no hive twice, is no longer than MaxHops and does not lead
\* through the hive itself (hive_paths, advertised_paths, without_self), even
\* when hives stop and start again under new ids.
RoutesLeadOn ==
    \A h, g \in Hives : \A r \in view[h][g].routes :
        /\ r # <<>> /\ Head(r) = view[h][g].id
        /\ \A i, j \in DOMAIN r : r[i] = r[j] => i = j
        /\ Len(r) <= MaxHops
        /\ Id(h) \notin Hops(r)

\* A request is kept from every hive it is at, even if the hive it has come
\* to learns of that one between its two looks at the members, in all but two
\* cases (candidates, without_visited): its list has that hive under an id
\* from before its last start, which is not the one on the request's path, or
\* it was dropped from the list between the two looks.
SentBackOnlyIfLost ==
    [][\A p \in Hives, i \in DOMAIN call :
        /\ At("filter") /\ call[i].at = p
        /\ At("send")' /\ Len(call') = Len(call) /\ p \in Last(call').left
        => LET known == view[Last(call).at][p]
           IN ~known.in \/ known.id # Id(p)]_vars

-----------------------------------------------------------------------------
(* Liveness.                                                               *)

\* README.md:80-85: hives that know each other "can't keep a dead backend's
\* model alive by re-advertising it": in the end no hive lists it.
GhostsDie ==
    <>[](backend = {}) => <>[](\A h \in Hives, p \in Places : ~Serves(view[h][p]))

\* When every hive stays up, every backend stays up or stays down and one is
\* up, requests are not refused in the end, at whatever hive they arrive: where
\* hives can reach each other along Links within MaxHops, a route to a backend
\* is found, and no route to one that is gone is left to fail on.  It does not
\* do that one backend stays up while another comes and goes: a hive may then
\* be sent a request it has no candidates for, and its 404 is passed on
\* (without_visited, proxy_by_model).
SettledServes ==
    /\ <>[](backend # {} /\ \A h \in Hives : state[h] = "serving")
    /\ <>[][UNCHANGED backend]_backend
    => <>[](Len(call) = 1 => call[1].stage \notin {"unknown", "bad"})
=============================================================================
