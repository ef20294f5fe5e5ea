------------------------------ MODULE Membership ------------------------------
(***************************************************************************)
(* The membership of a hive: scan passes, started by a timer and by Docker *)
(* events, probe every place a backend may be found at, wait for one       *)
(* another, and install what they found; members that did not answer are   *)
(* carried over for a while (refresh, scan_and_install, set_endpoints,     *)
(* carry_over_missing; the probes of discover, probe_static and            *)
(* container_backends; the loops of main and watch_events).                *)
(*                                                                         *)
(* A backend is a base URL.  A probe is one step, at the moment its answer *)
(* is made; the probes of a pass come in any order, and backends change    *)
(* between them, and between the listings a pass starts with and its       *)
(* probes.  A container has one port to probe.  Routes of hive members are *)
(* not in the model.                                                       *)
(***************************************************************************)
EXTENDS Integers, FiniteSets, Sequences

CONSTANTS
    Backends,       \* base URLs
    Models,         \* model names
    Conditions,     \* what a base URL may be: records of Scans!World
    Jobs,           \* the probes of a pass: records of Probes
    DropAfter       \* --drop-after

\* How a backend is looked for: pinned URL, labeled container, port of the
\* machine.
Finders == {"static", "docker", "port"}

\* What a pass lists first: containers with their labels, the ports that
\* containers publish (docker ps), the ports listened on (ss).
Listings == {"docker", "ps", "ss"}

\* A probe is made in every pass if it is sure, and else if one of the listings
\* that can show its backend does: pinned URLs and well-known or extra ports are
\* sure, other ports and containers are not.
Probes ==
    [by : Finders, backend : Backends, sure : BOOLEAN, shown : SUBSET Listings]

World == [state : {"down", "slow", "self", "up"}, models : SUBSET Models]

ASSUME MembershipConstants ==
    /\ Conditions \subseteq World
    /\ Jobs \subseteq Probes
    /\ \A j \in Jobs : j.by = "static" => j.sure
    /\ \A j, k \in Jobs : j.backend = k.backend /\ "static" \notin {j.by, k.by} => j = k
    /\ DropAfter \in Nat

Sources == {"static", "docker", "port"}
NoSource == "none"

\* The lines of a pass's listings.
Entries == {e \in Listings \X Jobs : e[1] \in e[2].shown}

\* with_drop_after: zero counts as one.
Patience == IF DropAfter >= 1 THEN DropAfter ELSE 1

\* Backends only listings tell of, which may fail.
OnlyListed == {b \in Backends : \A j \in Jobs : j.backend = b => ~j.sure}

\* Who scans: main before it serves, then its loop and the Docker watcher.
Passes == {"startup", "timer", "watcher"}

VARIABLES
    world,      \* backend -> its condition now
    since,      \* history: backend -> its conditions since the last install
    members,    \* backends in the hive (Hive::endpoints)
    known,      \* member -> its models, as last known
    source,     \* member -> where it was found
    missed,     \* scans in a row missed, 0 when not counted (Hive::missed_scans)
    rr,         \* models with a round-robin counter (Hive::rr)
    pc,         \* pass -> is it off, waiting for the lock, or probing
    queue,      \* the passes at the scan lock, its holder first
    listed,     \* pass -> the lines of its listings
    found       \* pass -> probe -> what it found

outside == <<world, since>>
hive == <<members, known, source, missed>>
scanning == <<pc, queue, listed, found>>
vars == <<outside, hive, rr, scanning>>

\* What a probe finds: nothing yet, no answer, this hive itself, or a server.
Pending == [kind |-> "pending", models |-> {}, source |-> NoSource]
Silence == [kind |-> "none", models |-> {}, source |-> NoSource]
Mirror == [kind |-> "self", models |-> {}, source |-> NoSource]
Server(M, s) == [kind |-> "server", models |-> M, source |-> s]
Findings == {Pending, Silence, Mirror} \cup {Server(M, s) : M \in SUBSET Models, s \in Sources}

NothingFound == [j \in Jobs |-> Pending]

TypeOK ==
    /\ world \in [Backends -> Conditions]
    /\ since \in [Backends -> SUBSET Conditions]
    /\ members \subseteq Backends
    /\ known \in [Backends -> SUBSET Models]
    /\ source \in [Backends -> Sources \cup {NoSource}]
    /\ missed \in [Backends -> 0..(Patience - 1)]
    /\ rr \subseteq Models
    /\ pc \in [Passes -> {"off", "waiting", "probing"}]
    /\ queue \in Seq(Passes)
    /\ listed \in [Passes -> SUBSET Entries]
    /\ found \in [Passes -> [Jobs -> Findings]]

Init ==
    /\ world \in [Backends -> Conditions]
    /\ since = [b \in Backends |-> {world[b]}]
    /\ members = {}
    /\ known = [b \in Backends |-> {}]
    /\ source = [b \in Backends |-> NoSource]
    /\ missed = [b \in Backends |-> 0]
    /\ rr = {}
    /\ pc = [p \in Passes |-> IF p = "startup" THEN "waiting" ELSE "off"]
    /\ queue = <<"startup">>
    /\ listed = [p \in Passes |-> {}]
    /\ found = [p \in Passes |-> NothingFound]

-----------------------------------------------------------------------------
(* Outside the hive.                                                       *)

Change(b, w) ==
    /\ world[b] # w
    /\ world' = [world EXCEPT ![b] = w]
    /\ since' = [since EXCEPT ![b] = @ \cup {w}]
    /\ UNCHANGED <<hive, rr, scanning>>

\* A request for model m is routed: m gets a counter, served or not.
Route(m) ==
    /\ m \notin rr /\ pc["startup"] = "off"
    /\ rr' = rr \cup {m}
    /\ UNCHANGED <<outside, hive, scanning>>

-----------------------------------------------------------------------------
(* A pass.                                                                 *)

\* The timer ran out, or a burst of container events ended.
Request(p) ==
    /\ pc[p] = "off" /\ p # "startup" /\ pc["startup"] = "off"
    /\ pc' = [pc EXCEPT ![p] = "waiting"]
    /\ queue' = Append(queue, p)
    /\ UNCHANGED <<outside, hive, rr, listed, found>>

\* p makes its listings: each works or comes out empty, and one that works shows
\* everything that is there; what is down may be on it or not.
List(p) ==
    \E working \in SUBSET Listings,
       hidden \in SUBSET {e \in Entries : world[e[2].backend].state = "down"} :
        listed' = [listed EXCEPT ![p] = {e \in Entries \ hidden : e[1] \in working}]

\* Seeded bug: probing starts before the lock is had.
BeginUnlocked(p) ==
    /\ pc[p] = "waiting"
    /\ pc' = [pc EXCEPT ![p] = "probing"]
    /\ List(p)
    /\ UNCHANGED <<outside, hive, rr, queue, found>>

\* The lock is had, and the listings are made.
Begin(p) ==
    /\ pc[p] = "waiting" /\ queue # <<>> /\ Head(queue) = p
    /\ pc' = [pc EXCEPT ![p] = "probing"]
    /\ List(p)
    /\ UNCHANGED <<outside, hive, rr, queue, found>>

\* The label a finding by j carries.
Label(p, j) == IF j.by = "port" /\ <<"ps", j>> \in listed[p] THEN "docker" ELSE j.by

\* Does p make probe j?
Looked(p, j) == j.sure \/ \E l \in Listings : <<l, j>> \in listed[p]

\* What probe j of p finds now.
Seen(p, j) ==
    LET w == world[j.backend]
    IN IF ~Looked(p, j) THEN Silence
       ELSE IF w.state = "self" THEN Mirror
       ELSE IF w.state = "up" THEN Server(w.models, Label(p, j))
       ELSE Silence

Probe(p, j) ==
    /\ pc[p] = "probing" /\ found[p][j] = Pending
    /\ found' = [found EXCEPT ![p][j] = Seen(p, j)]
    /\ UNCHANGED <<outside, hive, rr, pc, queue, listed>>

-----------------------------------------------------------------------------
(* The end of a pass: merge_endpoints, without_self, carry_over_missing and *)
(* set_endpoints.                                                           *)

ProbesOf(b) == {j \in Jobs : j.backend = b}
ServersFound(p, b) == {found[p][j] : j \in {k \in ProbesOf(b) : found[p][k].kind = "server"}}

\* b answered, and not as this hive.
Present(p, b) ==
    /\ ServersFound(p, b) # {}
    /\ \A j \in ProbesOf(b) : found[p][j].kind # "self"

Merged(p, b) ==
    LET S == ServersFound(p, b)
    IN [models |-> UNION {s.models : s \in S},
        source |-> IF \E s \in S : s.source = "static" THEN "static"
                   ELSE (CHOOSE s \in S : TRUE).source]

\* Seeded bugs: the count starts anew in every scan; one scan too many;
\* counters are never dropped; the lock is not given back.
MissedAnew(b) == 1

KeptOneMore(p, b) ==
    /\ b \in members /\ ~Present(p, b)
    /\ source[b] # "docker" /\ missed[b] + 1 <= Patience

CountersKept(M, models) == rr

LeaveLocked(p) ==
    /\ pc' = [pc EXCEPT ![p] = "off"]
    /\ listed' = [listed EXCEPT ![p] = {}]
    /\ found' = [found EXCEPT ![p] = NothingFound]
    /\ UNCHANGED queue

MissedNow(b) == missed[b] + 1

\* The missing member b is given more time.
Kept(p, b) ==
    /\ b \in members /\ ~Present(p, b)
    /\ source[b] # "docker" /\ MissedNow(b) < Patience

\* A member that answered is taken as it is now.
Taken(p, b) == Merged(p, b)

InstallAs(p, fresh, kept) ==
    /\ members' = fresh \cup kept
    /\ known' = [b \in Backends |-> IF b \in fresh THEN Taken(p, b).models
                                    ELSE IF b \in kept THEN known[b] ELSE {}]
    /\ source' = [b \in Backends |-> IF b \in fresh THEN Taken(p, b).source
                                     ELSE IF b \in kept THEN source[b] ELSE NoSource]
    /\ missed' = [b \in Backends |-> IF b \in kept THEN MissedNow(b) ELSE 0]

\* The round-robin counters of models that members M serve.
CountersServed(M, models) == {m \in rr : \E b \in M : m \in models[b]}

\* The pass leaves the lock to the next one.
Leave(p) ==
    /\ pc' = [pc EXCEPT ![p] = "off"]
    /\ queue' = Tail(queue)
    /\ listed' = [listed EXCEPT ![p] = {}]
    /\ found' = [found EXCEPT ![p] = NothingFound]

Install(p) ==
    /\ pc[p] = "probing" /\ \A j \in Jobs : found[p][j] # Pending
    /\ InstallAs(p, {b \in Backends : Present(p, b)}, {b \in Backends : Kept(p, b)})
    /\ rr' = CountersServed(members', known')
    /\ Leave(p)
    /\ since' = [b \in Backends |-> {world[b]}]
    /\ UNCHANGED world

-----------------------------------------------------------------------------
Pass(p) == Begin(p) \/ (\E j \in Jobs : Probe(p, j)) \/ Install(p)

Next ==
    \/ \E b \in Backends, w \in Conditions : Change(b, w)
    \/ \E m \in Models : Route(m)
    \/ \E p \in Passes : Request(p) \/ Pass(p)

Spec == Init /\ [][Next]_vars

\* Every probe has a timeout and the timer comes round (--scan-interval is not
\* zero); nothing makes containers change or requests come.
FairSpec == Spec /\ WF_vars(Request("timer")) /\ \A p \in Passes : WF_vars(Pass(p))

-----------------------------------------------------------------------------
(* Safety: what the scans promise, for passes that overlap and take time.  *)

Atomic == INSTANCE Scans WITH silent <- missed

\* Passes that wait for one another look like scans made in one instant:
\* nothing older than the previous install is ever installed over it
\* (scan_and_install, "the last write is always the freshest view"), and a
\* member that does not answer leaves with its drop_after-th missed scan in
\* a row, no sooner and no later, a container at once (carry_over_missing).  Only
\* a backend that no pass is sure to probe may be missed while it serves: a
\* listing that fails comes out empty (discover, container_backends).
ScansAreAtomic == Atomic!Spec

-----------------------------------------------------------------------------
(* Liveness.                                                               *)

\* The list shows b as it is in condition w.
Listed(b, w) ==
    /\ w.state = "down" => b \notin members
    /\ w.state = "up" /\ b \notin OnlyListed => b \in members /\ known[b] = w.models

\* What stays as it is gets into the list: a backend that is gone for good is no
\* member in the end, and one that serves the same models for good is a member
\* with just these, whoever scans and whatever container events are lost; of a
\* container, or a port that is neither pinned nor well known, which only listings
\* tell of that may fail in every scan, no more is promised than that it leaves.
ListFollows ==
    \A b \in Backends, w \in Conditions : <>[](world[b] = w) => <>[]Listed(b, w)

\* Nobody waits for the scan lock for ever: each pass at the lock gets to
\* install, whatever the others do.
PassesEnd == \A p \in Passes : pc[p] = "waiting" ~> pc[p] = "off"

\* The round-robin counter of a model that no member serves, made by a
\* request for it, does not stay: names that clients make up do not pile up.
CountersGo ==
    \A m \in Models :
        LET served == \E b \in members : m \in known[b]
        IN m \in rr /\ ~served ~> m \notin rr \/ served
=============================================================================
