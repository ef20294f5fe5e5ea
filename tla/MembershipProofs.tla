--------------------------- MODULE MembershipProofs ---------------------------
(***************************************************************************)
(* Why passes that take time and overlap look like atomic scans: the lock  *)
(* lets one pass probe at a time (OnePass), so whatever a pass has found   *)
(* was true of its backend since the last install (FoundSince).            *)
(***************************************************************************)
EXTENDS Membership, TLAPS

\* A probing pass is the holder of the lock, the head of the queue.
OnePass ==
    \A p \in Passes : pc[p] = "probing" => queue # <<>> /\ Head(queue) = p

\* What f says of j's backend was so at some time since the last install; no
\* answer may also mean that j was not made, for want of a listing.
WasSo(f, j) ==
    /\ f.kind = "server" => \E w \in since[j.backend] : w.state = "up" /\ f.models = w.models
    /\ f.kind = "self" => \E w \in since[j.backend] : w.state = "self"
    /\ f.kind = "none" => ~j.sure \/ \E w \in since[j.backend] : w.state # "up"

FoundSince ==
    /\ \A b \in Backends : world[b] \in since[b]
    /\ \A p \in Passes : pc[p] # "probing" => found[p] = NothingFound
    /\ \A p \in Passes, j \in Jobs : WasSo(found[p][j], j)

-----------------------------------------------------------------------------
(* Types.                                                                   *)

LEMMA PatienceIsPositive == Patience \in Nat \ {0}
BY MembershipConstants DEF Patience

LEMMA ServerFindings ==
    ASSUME NEW f \in Findings, f.kind = "server"
    PROVE  f.models \in SUBSET Models /\ f.source \in Sources
<1>1. CASE f \in {Pending, Silence, Mirror}
  BY <1>1 DEF Pending, Silence, Mirror
<1>2. CASE \E M \in SUBSET Models, s \in Sources : f = Server(M, s)
  BY <1>2 DEF Server
<1> QED BY <1>1, <1>2 DEF Findings

LEMMA JobsTyped ==
    ASSUME NEW j \in Jobs
    PROVE  j.by \in Finders /\ j.backend \in Backends
BY MembershipConstants DEF Probes

LEMMA SeenTyped ==
    ASSUME TypeOK, NEW p \in Passes, NEW j \in Jobs
    PROVE  Seen(p, j) \in Findings /\ Seen(p, j) # Pending
<1> DEFINE w == world[j.backend]
<1>1. w \in World
  BY JobsTyped, MembershipConstants DEF TypeOK
<1>2. Label(p, j) \in Sources
  BY JobsTyped DEF Label, Finders, Sources
<1>3. Server(w.models, Label(p, j)) \in Findings
  BY <1>1, <1>2 DEF Findings, World
<1>4. Server(w.models, Label(p, j)) # Pending /\ Silence # Pending /\ Mirror # Pending
  BY DEF Server, Pending, Silence, Mirror
<1> QED BY <1>3, <1>4 DEF Seen, Findings

LEMMA MergedTyped ==
    ASSUME TypeOK, NEW p \in Passes, NEW b \in Backends, Present(p, b)
    PROVE  Merged(p, b).models \in SUBSET Models /\ Merged(p, b).source \in Sources
<1> DEFINE S == ServersFound(p, b)
<1>1. \A s \in S : s.models \in SUBSET Models /\ s.source \in Sources
  <2> SUFFICES ASSUME NEW j \in ProbesOf(b), found[p][j].kind = "server"
               PROVE  found[p][j].models \in SUBSET Models /\ found[p][j].source \in Sources
    BY DEF ServersFound
  <2>1. found[p][j] \in Findings
    BY DEF TypeOK, ProbesOf
  <2> QED BY <2>1, ServerFindings
<1>2. S # {}
  BY DEF Present
<1>3. (CHOOSE s \in S : TRUE) \in S
  BY <1>2
<1>4. UNION {s.models : s \in S} \in SUBSET Models
  BY <1>1
<1> QED BY <1>1, <1>3, <1>4 DEF Merged, Sources

-----------------------------------------------------------------------------
LEMMA MembershipTypeInit == Init => TypeOK
<1> SUFFICES ASSUME Init PROVE TypeOK
  OBVIOUS
<1>1. world \in [Backends -> Conditions] /\ since \in [Backends -> SUBSET Conditions]
  BY DEF Init
<1>2. found \in [Passes -> [Jobs -> Findings]]
  BY DEF Init, NothingFound, Findings
<1>3. /\ known \in [Backends -> SUBSET Models]
      /\ source \in [Backends -> Sources \cup {NoSource}]
      /\ missed \in [Backends -> 0..(Patience - 1)]
  BY PatienceIsPositive DEF Init
<1>4. pc \in [Passes -> {"off", "waiting", "probing"}] /\ listed \in [Passes -> SUBSET Entries]
  BY DEF Init
<1>5. queue \in Seq(Passes)
  BY DEF Init, Passes
<1> QED BY <1>1, <1>2, <1>3, <1>4, <1>5 DEF Init, TypeOK

LEMMA InstallTyped ==
    ASSUME TypeOK, OnePass, NEW p \in Passes, Install(p)
    PROVE  TypeOK'
<1> DEFINE fresh == {b \in Backends : Present(p, b)}
           kept == {b \in Backends : Kept(p, b)}
<1>1. InstallAs(p, fresh, kept) /\ Leave(p)
  BY DEF Install
<1>2. members' \subseteq Backends
  BY <1>1 DEF InstallAs
<1>3. known' \in [Backends -> SUBSET Models]
  <2>1. \A b \in fresh : Taken(p, b).models \in SUBSET Models
    BY MergedTyped DEF Taken
  <2>2. \A b \in Backends : known[b] \in SUBSET Models
    BY DEF TypeOK
  <2> QED BY <1>1, <2>1, <2>2 DEF InstallAs
<1>4. source' \in [Backends -> Sources \cup {NoSource}]
  <2>1. \A b \in fresh : Taken(p, b).source \in Sources
    BY MergedTyped DEF Taken
  <2>2. \A b \in Backends : source[b] \in Sources \cup {NoSource}
    BY DEF TypeOK
  <2> QED BY <1>1, <2>1, <2>2 DEF InstallAs
<1>5. missed' \in [Backends -> 0..(Patience - 1)]
  <2>1. \A b \in kept : MissedNow(b) \in 0..(Patience - 1)
    BY PatienceIsPositive DEF TypeOK, Kept, MissedNow
  <2> QED BY <1>1, <2>1, PatienceIsPositive DEF InstallAs
<1>6. rr' \subseteq Models
  BY DEF Install, CountersServed, TypeOK
<1>7. queue' \in Seq(Passes)
  BY <1>1 DEF Leave, TypeOK, Install, OnePass
<1>8. /\ pc' \in [Passes -> {"off", "waiting", "probing"}]
      /\ listed' \in [Passes -> SUBSET Entries]
  BY <1>1 DEF Leave, TypeOK
<1>9. found' \in [Passes -> [Jobs -> Findings]]
  <2>1. NothingFound \in [Jobs -> Findings]
    BY DEF NothingFound, Findings
  <2> QED BY <1>1, <2>1 DEF Leave, TypeOK
<1>10. since' \in [Backends -> SUBSET Conditions] /\ world' \in [Backends -> Conditions]
  BY DEF Install, TypeOK
<1> QED BY <1>2, <1>3, <1>4, <1>5, <1>6, <1>7, <1>8, <1>9, <1>10 DEF TypeOK

LEMMA ListTyped ==
    ASSUME TypeOK, NEW p \in Passes, List(p)
    PROVE  listed' \in [Passes -> SUBSET Entries]
BY DEF List, TypeOK

LEMMA MembershipTypeStep == TypeOK /\ OnePass /\ [Next]_vars => TypeOK'
<1> SUFFICES ASSUME TypeOK, OnePass, [Next]_vars PROVE TypeOK'
  OBVIOUS
<1>1. ASSUME NEW b \in Backends, NEW w \in Conditions, Change(b, w) PROVE TypeOK'
  BY <1>1 DEF Change, TypeOK, hive, scanning
<1>2. ASSUME NEW m \in Models, Route(m) PROVE TypeOK'
  BY <1>2 DEF Route, TypeOK, outside, hive, scanning
<1>3. ASSUME NEW p \in Passes, Request(p) PROVE TypeOK'
  BY <1>3 DEF Request, TypeOK, outside, hive
<1>4. ASSUME NEW p \in Passes, Begin(p) PROVE TypeOK'
  BY <1>4, ListTyped DEF Begin, TypeOK, outside, hive
<1>5. ASSUME NEW p \in Passes, NEW j \in Jobs, Probe(p, j) PROVE TypeOK'
  <2>1. found' \in [Passes -> [Jobs -> Findings]]
    BY <1>5, SeenTyped DEF Probe, TypeOK
  <2> QED BY <1>5, <2>1 DEF Probe, TypeOK, outside, hive
<1>6. ASSUME NEW p \in Passes, Install(p) PROVE TypeOK'
  BY <1>6, InstallTyped
<1>7. CASE UNCHANGED vars
  BY <1>7 DEF vars, outside, hive, scanning, TypeOK
<1> QED BY <1>1, <1>2, <1>3, <1>4, <1>5, <1>6, <1>7 DEF Next, Pass

-----------------------------------------------------------------------------
(* The lock.                                                                *)

LEMMA OnePassInit == Init => OnePass
BY DEF Init, OnePass

LEMMA OnePassStep == TypeOK /\ OnePass /\ [Next]_vars => OnePass'
<1> SUFFICES ASSUME TypeOK, OnePass, [Next]_vars PROVE OnePass'
  OBVIOUS
<1>1. ASSUME UNCHANGED <<pc, queue>> PROVE OnePass'
  BY <1>1 DEF OnePass
<1>2. ASSUME NEW p \in Passes, Request(p) PROVE OnePass'
  BY <1>2 DEF Request, OnePass, TypeOK
<1>3. ASSUME NEW p \in Passes, Begin(p) PROVE OnePass'
  BY <1>3 DEF Begin, OnePass, TypeOK
<1>4. ASSUME NEW p \in Passes, Install(p) PROVE OnePass'
  <2>1. \A q \in Passes : q # p => pc[q] # "probing"
    BY <1>4 DEF Install, OnePass
  <2>2. pc' = [pc EXCEPT ![p] = "off"]
    BY <1>4 DEF Install, Leave
  <2> QED BY <2>1, <2>2 DEF OnePass, TypeOK
<1>5. ASSUME NEW b \in Backends, NEW w \in Conditions, Change(b, w) PROVE OnePass'
  BY <1>1, <1>5 DEF Change, scanning
<1>6. ASSUME NEW m \in Models, Route(m) PROVE OnePass'
  BY <1>1, <1>6 DEF Route, scanning
<1>7. ASSUME NEW p \in Passes, NEW j \in Jobs, Probe(p, j) PROVE OnePass'
  BY <1>1, <1>7 DEF Probe
<1>8. CASE UNCHANGED vars
  BY <1>1, <1>8 DEF vars, scanning
<1> QED BY <1>2, <1>3, <1>4, <1>5, <1>6, <1>7, <1>8 DEF Next, Pass

-----------------------------------------------------------------------------
(* Whatever a pass has found was so since the last install.                 *)

LEMMA FoundSinceInit == Init => FoundSince
BY DEF Init, FoundSince, WasSo, NothingFound, Pending

\* Histories only grow between installs, so findings stay true.
LEMMA WasSoStays ==
    ASSUME NEW f, NEW j \in Jobs, WasSo(f, j), since[j.backend] \subseteq since'[j.backend]
    PROVE  WasSo(f, j)'
BY DEF WasSo

\* A probe reports what is so now.
LEMMA SeenIsSo ==
    ASSUME TypeOK, FoundSince, NEW p \in Passes, NEW j \in Jobs
    PROVE  WasSo(Seen(p, j), j)
<1> DEFINE w == world[j.backend]
<1>1. w \in since[j.backend] /\ w \in World
  BY JobsTyped, MembershipConstants DEF TypeOK, FoundSince
<1>2. /\ Silence.kind = "none" /\ Mirror.kind = "self"
      /\ Server(w.models, Label(p, j)).kind = "server"
      /\ Server(w.models, Label(p, j)).models = w.models
  BY DEF Silence, Mirror, Server
<1>3. CASE ~Looked(p, j)
  <2>1. ~j.sure
    BY <1>3 DEF Looked
  <2> QED BY <1>2, <1>3, <2>1 DEF Seen, WasSo
<1>4. CASE Looked(p, j) /\ w.state = "self"
  BY <1>1, <1>2, <1>4 DEF Seen, WasSo
<1>5. CASE Looked(p, j) /\ w.state = "up"
  BY <1>1, <1>2, <1>5 DEF Seen, WasSo
<1>6. CASE Looked(p, j) /\ w.state \notin {"self", "up"}
  BY <1>1, <1>2, <1>6 DEF Seen, WasSo
<1> QED BY <1>3, <1>4, <1>5, <1>6

LEMMA FoundSinceStep == TypeOK /\ OnePass /\ FoundSince /\ [Next]_vars => FoundSince'
<1> SUFFICES ASSUME TypeOK, OnePass, FoundSince, [Next]_vars PROVE FoundSince'
  OBVIOUS
<1>1. ASSUME UNCHANGED <<world, since, found>>,
             \A p \in Passes : pc'[p] # "probing" => pc[p] # "probing"
      PROVE  FoundSince'
  BY <1>1 DEF FoundSince, WasSo
<1>2. ASSUME NEW b \in Backends, NEW w \in Conditions, Change(b, w) PROVE FoundSince'
  <2>1. \A c \in Backends : since[c] \subseteq since'[c] /\ world'[c] \in since'[c]
    BY <1>2 DEF Change, TypeOK, FoundSince
  <2>2. UNCHANGED <<pc, found>>
    BY <1>2 DEF Change, scanning
  <2>3. \A p \in Passes, j \in Jobs : WasSo(found[p][j], j)'
    BY <2>1, <2>2, JobsTyped, WasSoStays DEF FoundSince, WasSo
  <2> QED BY <2>1, <2>2, <2>3 DEF FoundSince, NothingFound
<1>3. ASSUME NEW m \in Models, Route(m) PROVE FoundSince'
  BY <1>1, <1>3 DEF Route, outside, scanning
<1>4. ASSUME NEW p \in Passes, Request(p) PROVE FoundSince'
  BY <1>1, <1>4 DEF Request, outside, TypeOK
<1>5. ASSUME NEW p \in Passes, Begin(p) PROVE FoundSince'
  BY <1>1, <1>5 DEF Begin, outside, TypeOK
<1>6. ASSUME NEW p \in Passes, NEW j \in Jobs, Probe(p, j) PROVE FoundSince'
  <2>1. UNCHANGED <<world, since, pc>> /\ pc[p] = "probing"
    BY <1>6 DEF Probe, outside
  <2>2. found' = [found EXCEPT ![p][j] = Seen(p, j)]
    BY <1>6 DEF Probe
  <2>3. \A q \in Passes, k \in Jobs :
            found'[q][k] = IF q = p /\ k = j THEN Seen(p, j) ELSE found[q][k]
    BY <2>2 DEF TypeOK
  <2>4. \A q \in Passes : q # p => found'[q] = found[q]
    BY <2>2 DEF TypeOK
  <2>5. \A q \in Passes, k \in Jobs : WasSo(found'[q][k], k)
    BY <2>3, SeenIsSo DEF FoundSince
  <2>6. \A q \in Passes, k \in Jobs : WasSo(found[q][k], k)'
    BY <2>1, <2>5 DEF WasSo
  <2> QED BY <2>1, <2>4, <2>6 DEF FoundSince, NothingFound
<1>7. ASSUME NEW p \in Passes, Install(p) PROVE FoundSince'
  <2>1. /\ world' = world /\ since' = [b \in Backends |-> {world[b]}]
        /\ pc' = [pc EXCEPT ![p] = "off"] /\ found' = [found EXCEPT ![p] = NothingFound]
    BY <1>7 DEF Install, Leave
  <2>2. \A q \in Passes : q # p => pc[q] # "probing"
    BY <1>7 DEF Install, OnePass
  <2>3. \A q \in Passes : found'[q] = NothingFound
    BY <2>1, <2>2 DEF FoundSince, TypeOK
  <2>4. \A q \in Passes, j \in Jobs : found'[q][j].kind = "pending"
    BY <2>3 DEF NothingFound, Pending
  <2>5. \A q \in Passes, j \in Jobs : WasSo(found[q][j], j)'
    BY <2>4 DEF WasSo
  <2> QED BY <2>1, <2>3, <2>5 DEF FoundSince, NothingFound
<1>8. CASE UNCHANGED vars
  BY <1>1, <1>8 DEF vars, outside, scanning
<1> QED BY <1>2, <1>3, <1>4, <1>5, <1>6, <1>7, <1>8 DEF Next, Pass

-----------------------------------------------------------------------------
(* The theorems.                                                            *)

LEMMA MembershipInvariant == Spec => [](TypeOK /\ OnePass /\ FoundSince)
<1>1. Init => TypeOK /\ OnePass /\ FoundSince
  BY MembershipTypeInit, OnePassInit, FoundSinceInit
<1>2. TypeOK /\ OnePass /\ FoundSince /\ [Next]_vars => (TypeOK /\ OnePass /\ FoundSince)'
  BY MembershipTypeStep, OnePassStep, FoundSinceStep
<1> QED BY <1>1, <1>2, PTL DEF Spec

\* The membership keeps its types: no member is ever kept with drop_after
\* misses or more, whatever passes run when.
THEOREM MembershipTypeCorrect == Spec => []TypeOK
BY MembershipInvariant, PTL

\* An install is an atomic scan: every backend either answered, with models
\* it has had since the last one, or is excused, and stays or leaves as its
\* misses say.
LEMMA InstallIsScan ==
    ASSUME TypeOK, OnePass, FoundSince, NEW p \in Passes, Install(p)
    PROVE  Atomic!Scan
<1> DEFINE fresh == {b \in Backends : Present(p, b)}
           kept == {b \in Backends : Kept(p, b)}
<1>1. InstallAs(p, fresh, kept)
  BY DEF Install
<1>3. ASSUME NEW b \in Backends, Present(p, b) PROVE Atomic!Answers(b)
  <2>1. b \in fresh /\ b \notin kept
    BY <1>3 DEF Kept
  <2>2. /\ b \in members' /\ missed'[b] = 0
        /\ known'[b] = Merged(p, b).models /\ source'[b] = Merged(p, b).source
    BY <1>1, <2>1 DEF InstallAs, Taken
  <2>3. Merged(p, b).source \in Sources
    BY <1>3, MergedTyped
  <2>4. \A s \in ServersFound(p, b) : \E w \in since[b] : w.state = "up" /\ s.models = w.models
    BY DEF ServersFound, ProbesOf, FoundSince, WasSo
  <2>5. \E w \in since[b] : w.state = "up"
    BY <1>3, <2>4 DEF Present
  <2>6. Merged(p, b).models \subseteq UNION {w.models : w \in {v \in since[b] : v.state = "up"}}
    BY <2>4 DEF Merged
  <2> QED BY <2>2, <2>3, <2>5, <2>6 DEF Atomic!Answers, Atomic!Sources, Sources
<1>4. ASSUME NEW b \in Backends, ~Present(p, b) PROVE Atomic!Excused(b)
  <2>1. CASE \E j \in ProbesOf(b) : found[p][j].kind = "self"
    BY <2>1 DEF ProbesOf, FoundSince, WasSo, Atomic!Excused
  <2>2. CASE \A j \in ProbesOf(b) : found[p][j].kind # "self"
    <3>1. \A j \in ProbesOf(b) : found[p][j].kind # "server"
      BY <1>4, <2>2 DEF Present, ServersFound
    <3>2. \A j \in ProbesOf(b) : found[p][j] \in Findings /\ found[p][j] # Pending
      BY DEF Install, TypeOK, ProbesOf
    <3>3. \A f \in Findings : f # Pending => f.kind \in {"none", "self", "server"}
      BY DEF Findings, Silence, Mirror, Server
    <3>4. \A j \in ProbesOf(b) : found[p][j].kind = "none"
      BY <2>2, <3>1, <3>2, <3>3
    <3>5. CASE \A j \in Jobs : j.backend = b => ~j.sure
      BY <3>5 DEF OnlyListed, Atomic!Excused
    <3>6. CASE \E j \in Jobs : j.backend = b /\ j.sure
      <4>1. PICK j \in Jobs : j.backend = b /\ j.sure
        BY <3>6
      <4>2. found[p][j].kind = "none"
        BY <3>4, <4>1 DEF ProbesOf
      <4> QED BY <4>1, <4>2 DEF FoundSince, WasSo, Atomic!Excused
    <3> QED BY <3>5, <3>6
  <2> QED BY <2>1, <2>2
<1>5. ASSUME NEW b \in Backends, Kept(p, b) PROVE Atomic!IsKept(b)
  <2>1. b \in kept /\ b \notin fresh /\ b \in members
    BY <1>5 DEF Kept
  <2>2. /\ b \in members' /\ missed'[b] = missed[b] + 1
        /\ known'[b] = known[b] /\ source'[b] = source[b]
    BY <1>1, <2>1 DEF InstallAs, MissedNow
  <2>3. ~Present(p, b) /\ source[b] # "docker" /\ missed[b] + 1 < Patience
    BY <1>5 DEF Kept, MissedNow
  <2> QED BY <1>4, <2>1, <2>2, <2>3 DEF Atomic!IsKept
<1>6. ASSUME NEW b \in Backends, ~Present(p, b), ~Kept(p, b) PROVE Atomic!IsOut(b)
  <2>1. /\ b \notin members' /\ missed'[b] = 0
        /\ known'[b] = {} /\ source'[b] = NoSource
    BY <1>1, <1>6 DEF InstallAs
  <2>2. b \in members => source[b] = "docker" \/ missed[b] + 1 >= Patience
    BY <1>6, PatienceIsPositive DEF Kept, MissedNow, TypeOK
  <2> QED BY <1>4, <1>6, <2>1, <2>2 DEF Atomic!IsOut, Atomic!NoSource, NoSource
<1>7. members' \subseteq Backends
  BY <1>1 DEF InstallAs
<1> QED BY <1>3, <1>5, <1>6, <1>7 DEF Install, Atomic!Scan

\* Every step of the passes is a scan made in one instant, a change outside,
\* or invisible: the scan lock makes slow, overlapping passes look atomic, for
\* any probes, sure or hanging on listings that may fail; a serving backend that
\* is missed by a scan is one that only listings tell of (discover).
THEOREM ScansLookAtomic == Spec => ScansAreAtomic
<1>1. Init => Atomic!Init
  BY DEF Init, Atomic!Init, NoSource, Atomic!NoSource
<1>2. TypeOK /\ OnePass /\ FoundSince /\ [Next]_vars => [Atomic!Next]_(Atomic!vars)
  <2> SUFFICES ASSUME TypeOK, OnePass, FoundSince, [Next]_vars
               PROVE  [Atomic!Next]_(Atomic!vars)
    OBVIOUS
  <2>1. ASSUME UNCHANGED <<outside, hive>> PROVE UNCHANGED Atomic!vars
    BY <2>1 DEF outside, hive, Atomic!vars
  <2>2. ASSUME NEW b \in Backends, NEW w \in Conditions, Change(b, w) PROVE Atomic!Change
    BY <2>2 DEF Change, hive, Atomic!Change
  <2>3. ASSUME NEW m \in Models, Route(m) PROVE UNCHANGED Atomic!vars
    BY <2>1, <2>3 DEF Route
  <2>4. ASSUME NEW p \in Passes, Request(p) PROVE UNCHANGED Atomic!vars
    BY <2>1, <2>4 DEF Request
  <2>5. ASSUME NEW p \in Passes, Begin(p) PROVE UNCHANGED Atomic!vars
    BY <2>1, <2>5 DEF Begin
  <2>6. ASSUME NEW p \in Passes, NEW j \in Jobs, Probe(p, j) PROVE UNCHANGED Atomic!vars
    BY <2>1, <2>6 DEF Probe
  <2>7. ASSUME NEW p \in Passes, Install(p) PROVE Atomic!Scan
    BY <2>7, InstallIsScan
  <2>8. CASE UNCHANGED vars
    BY <2>1, <2>8 DEF vars
  <2> QED BY <2>2, <2>3, <2>4, <2>5, <2>6, <2>7, <2>8 DEF Next, Pass, Atomic!Next
<1> QED BY <1>1, <1>2, MembershipInvariant, PTL DEF Spec, ScansAreAtomic, Atomic!Spec
=============================================================================
