---------------------------- MODULE HiveMeshProofs ----------------------------
(***************************************************************************)
(* Why routes lead on and requests are not sent back, for any number of    *)
(* hives, backends, failures and addresses: a hive takes from a member only *)
(* routes without itself on them and puts the member in front              *)
(* (FoundRoutes), so that an id on a request's Via path is met at the head *)
(* of every route through its hive.                                        *)
(***************************************************************************)
EXTENDS HiveMesh, FiniteSetTheorems, SequenceTheorems, TLAPS

\* A route to hold: of ids, through no hive twice.
Simple(r) == r \in Seq(Ids) /\ \A i, j \in DOMAIN r : r[i] = r[j] => i = j

\* A hive that is down has no records, and a new life left to start.
DownIsBlank ==
    \A h \in Hives : state[h] = "down" => view[h] = Nothing /\ life[h] < faults

\* A backend is one direct route.
OwnIsDirect == \A h \in Hives : view[h][Own] \in {Stranger, Server}

\* What a hive knows of a member is of some life of it, and not of itself.
IdsAreTheirs ==
    \A h, g \in Hives : view[h][g].in =>
        \E k \in 0..life[g] : view[h][g].id = <<g, k>> /\ <<g, k>> # Id(h)

Inv == TypeOK /\ DownIsBlank /\ OwnIsDirect /\ IdsAreTheirs /\ RoutesLeadOn

-----------------------------------------------------------------------------
(* Types.                                                                   *)

LEMMA PatienceIsPositive == Patience \in Nat \ {0}
BY MeshConstants DEF Patience

LEMMA IdTyped ==
    ASSUME TypeOK, NEW h \in Hives
    PROVE  Id(h) \in Ids /\ Id(h) # Nobody
<1>1. life[h] \in 0..Faults
  BY MeshConstants DEF TypeOK
<1>2. h # Own
  BY MeshConstants
<1> QED BY <1>1, <1>2 DEF Id, Ids, Nobody

LEMMA StrangerTyped == Stranger \in Records /\ Server \in Records /\ ~Stranger.in
BY DEF Stranger, Server, Records

LEMMA ShortestIsPart == ASSUME NEW R PROVE Shortest(R) \subseteq R
BY DEF Shortest

LEMMA PrefixedIsSimple ==
    ASSUME NEW x \in Ids, NEW q, Simple(q), x \notin Hops(q)
    PROVE  /\ Simple(Prefixed(x, q)) /\ Prefixed(x, q) # <<>> /\ Head(Prefixed(x, q)) = x
           /\ Hops(Prefixed(x, q)) = {x} \cup Hops(q)
<1> DEFINE r == Prefixed(x, q)
<1>1. q \in Seq(Ids)
  BY DEF Simple
<1>2. r \in Seq(Ids) /\ Len(r) = Len(q) + 1 /\ r[1] = x
  BY <1>1 DEF Prefixed
<1>3. \A i \in 1..Len(q) : r[i + 1] = q[i]
  BY <1>1 DEF Prefixed
<1>4. DOMAIN r = 1..(Len(q) + 1) /\ DOMAIN q = 1..Len(q) /\ Len(q) \in Nat
  BY <1>1, <1>2
<1>5. \A i \in DOMAIN r : i = 1 \/ (i - 1 \in 1..Len(q) /\ r[i] = q[i - 1])
  <2> SUFFICES ASSUME NEW i \in DOMAIN r, i # 1 PROVE i - 1 \in 1..Len(q) /\ r[i] = q[i - 1]
    OBVIOUS
  <2>1. i - 1 \in 1..Len(q)
    BY <1>4
  <2>2. r[(i - 1) + 1] = q[i - 1]
    BY <2>1, <1>3
  <2> QED BY <2>1, <2>2, <1>4
<1> HIDE DEF r
<1>6. \A i, j \in DOMAIN r : r[i] = r[j] => i = j
  <2> SUFFICES ASSUME NEW i \in DOMAIN r, NEW j \in DOMAIN r, r[i] = r[j] PROVE i = j
    OBVIOUS
  <2>1. \A k \in 1..Len(q) : q[k] # x
    BY <1>4 DEF Hops
  <2>2. (i = 1) <=> (j = 1)
    BY <1>2, <1>5, <2>1
  <2>3. CASE i # 1 /\ j # 1
    <3>1. q[i - 1] = q[j - 1] /\ i - 1 \in DOMAIN q /\ j - 1 \in DOMAIN q
      BY <2>3, <1>5, <1>4
    <3>2. i - 1 = j - 1
      BY <3>1 DEF Simple
    <3> QED BY <3>2, <1>4
  <2> QED BY <2>2, <2>3
<1>7. Hops(r) = {x} \cup Hops(q)
  <2>1. \A i \in DOMAIN r : r[i] \in {x} \cup Hops(q)
    BY <1>2, <1>4, <1>5 DEF Hops
  <2>2. x \in Hops(r)
    BY <1>2, <1>4 DEF Hops
  <2>3. \A i \in DOMAIN q : q[i] \in Hops(r)
    <3> SUFFICES ASSUME NEW i \in DOMAIN q PROVE q[i] \in Hops(r)
      OBVIOUS
    <3>1. i + 1 \in DOMAIN r /\ r[i + 1] = q[i]
      BY <1>3, <1>4
    <3> QED BY <3>1 DEF Hops
  <2> QED BY <2>1, <2>2, <2>3 DEF Hops
<1>8. r # <<>> /\ Head(r) = x
  BY <1>2
<1> QED BY <1>2, <1>6, <1>7, <1>8 DEF Simple, r

-----------------------------------------------------------------------------
(* What a hive finds and takes.                                             *)

\* What hive h may know of hive g.
Good(h, g, rec) ==
    /\ rec \in Records
    /\ \A r \in rec.routes : /\ r # <<>> /\ Head(r) = rec.id /\ Simple(r)
                             /\ Len(r) <= MaxHops /\ Id(h) \notin Hops(r)
    /\ rec.in => \E k \in 0..life[g] : rec.id = <<g, k>> /\ <<g, k>> # Id(h)

LEMMA KnownIsGood ==
    ASSUME Inv, NEW h \in Hives, NEW g \in Hives
    PROVE  Good(h, g, view[h][g])
<1>1. view[h][g] \in Records
  BY DEF Inv, TypeOK, Places
<1>2. \A r \in view[h][g].routes : r \in Seq(Ids)
  BY <1>1 DEF Records
<1> QED BY <1>1, <1>2 DEF Inv, RoutesLeadOn, IdsAreTheirs, Good, Simple

LEMMA StrangerIsGood ==
    ASSUME NEW h \in Hives, NEW g \in Hives
    PROVE  Good(h, g, Stranger)
BY StrangerTyped DEF Good, Stranger

\* Routes that are open to a caller are whole, and lead past it and the hive.
LEMMA OpenRoutes ==
    ASSUME Inv, NEW g \in Hives, NEW via, NEW r \in Open(g, via)
    PROVE  /\ Simple(r) /\ Len(r) < MaxHops
           /\ Hops(r) \cap (via \cup {Id(g)}) = {}
<1>1. PICK q \in Places : Serves(view[g][q]) /\ r \in RoutesOf(view[g][q])
  BY DEF Open
<1>2. Len(r) < MaxHops /\ Hops(r) \cap (via \cup {Id(g)}) = {}
  BY DEF Open, LoopFree
<1>3. Simple(<<>>)
  BY DEF Simple
<1>4. CASE view[g][q].id = Nobody
  BY <1>1, <1>2, <1>3, <1>4 DEF RoutesOf
<1>5. CASE view[g][q].id # Nobody
  <2>1. r \in view[g][q].routes
    BY <1>1, <1>5 DEF RoutesOf, Serves
  <2>2. CASE q = Own
    BY <2>2, <1>5 DEF Inv, OwnIsDirect, Stranger, Server
  <2>3. CASE q \in Hives
    BY <2>1, <2>3, <1>2, KnownIsGood DEF Good
  <2> QED BY <2>2, <2>3 DEF Places
<1> QED BY <1>4, <1>5

LEMMA FoundRoutes ==
    ASSUME Inv, NEW h \in Hives, NEW p \in Hives, NEW quiet
    PROVE  LET a == Found(h, p, quiet)
           IN /\ a \in Records
              /\ a.in => a.id = Id(p)
              /\ \A r \in a.routes : /\ r # <<>> /\ Head(r) = a.id /\ Simple(r)
                                     /\ Len(r) <= MaxHops
<1> DEFINE R == Received(Id(p), Adverts(p, h))
<1>1. p # Own
  BY MeshConstants
<1>2. CASE Found(h, p, quiet) = Stranger
  BY <1>2, StrangerTyped DEF Stranger
<1>3. CASE Found(h, p, quiet) = Peer(Id(p), R)
  <2>1. \A r \in R : r # <<>> /\ Head(r) = Id(p) /\ Simple(r) /\ Len(r) <= MaxHops
    <3> SUFFICES ASSUME NEW r \in R
                 PROVE  r # <<>> /\ Head(r) = Id(p) /\ Simple(r) /\ Len(r) <= MaxHops
      OBVIOUS
    <3>1. PICK q \in Adverts(p, h) : r = Prefixed(Id(p), q) /\ Len(r) <= MaxHops
      BY DEF Received
    <3>2. q \in Open(p, {Id(h)})
      BY ShortestIsPart DEF Adverts
    <3>3. Simple(q) /\ Id(p) \notin Hops(q)
      BY <3>2, OpenRoutes
    <3>4. Id(p) \in Ids
      BY IdTyped DEF Inv
    <3> QED BY <3>1, <3>3, <3>4, PrefixedIsSimple
  <2>2. R \subseteq Seq(Ids) /\ Id(p) \in Ids
    BY <2>1, IdTyped DEF Inv, Simple
  <2> HIDE DEF R
  <2>3. Peer(Id(p), R) \in Records
    BY <2>2 DEF Peer, Records
  <2> QED BY <1>3, <2>1, <2>3 DEF Peer
<1>4. Found(h, p, quiet) \in {Stranger, Peer(Id(p), R)}
  BY <1>1 DEF Found
<1> QED BY <1>2, <1>3, <1>4

LEMMA TakenIsGood ==
    ASSUME Inv, NEW h \in Hives, NEW p \in Hives, NEW quiet
    PROVE  Good(h, p, Taken(h, p, Found(h, p, quiet)))
<1> DEFINE a == Found(h, p, quiet)
<1>1. CASE Fresh(h, a)
  <2>1. /\ a \in Records /\ a.in /\ a.id = Id(p) /\ a.id # Id(h)
        /\ \A r \in a.routes : r # <<>> /\ Head(r) = a.id /\ Simple(r) /\ Len(r) <= MaxHops
    BY <1>1, FoundRoutes DEF Fresh
  <2> HIDE DEF a
  <2>2. life[p] \in Nat /\ a.id = <<p, life[p]>>
    BY <2>1, MeshConstants DEF Inv, TypeOK, Id
  <2>3. /\ Filtered(h, a) \in Records /\ Filtered(h, a).id = a.id
        /\ Filtered(h, a).routes = {r \in a.routes : LoopFree(r, {Id(h)})}
    BY <2>1 DEF Filtered, Records
  <2>4. Good(h, p, Filtered(h, a))
    BY <2>1, <2>2, <2>3 DEF Good, LoopFree
  <2> QED BY <1>1, <2>4 DEF Taken, a
<1>2. CASE ~Fresh(h, a) /\ Kept(h, p, a)
  BY <1>2, KnownIsGood DEF Taken
<1>3. CASE ~Fresh(h, a) /\ ~Kept(h, p, a)
  BY <1>3, StrangerIsGood DEF Taken
<1> QED BY <1>1, <1>2, <1>3

LEMMA TakenAtOwn ==
    ASSUME Inv, NEW h \in Hives, NEW quiet
    PROVE  Taken(h, Own, Found(h, Own, quiet)) \in {Stranger, Server}
<1>1. Found(h, Own, quiet) \in {Stranger, Server}
  BY DEF Found
<1>2. Id(h) # Nobody
  BY IdTyped DEF Inv
<1>3. LoopFree(<<>>, {Id(h)})
  BY DEF LoopFree, Hops
<1>4. Filtered(h, Server) = Server
  <2>1. {r \in Server.routes : LoopFree(r, {Id(h)})} = {<<>>}
    BY <1>3 DEF Server
  <2>2. Filtered(h, Server) = [Server EXCEPT !.routes = {<<>>}]
    BY <2>1 DEF Filtered
  <2> QED BY <2>2 DEF Server
<1>5. ~Fresh(h, Stranger)
  BY DEF Fresh, Stranger
<1> QED BY <1>1, <1>4, <1>5 DEF Taken, Inv, OwnIsDirect

-----------------------------------------------------------------------------
(* The request.                                                             *)

\* c is a chain of the same hives as d, or of the first of them.
SameHives(c, d) ==
    /\ c \in Seq(Frames) /\ Len(c) <= Len(d)
    /\ \A i \in 1..Len(c) : c[i].at = d[i].at /\ c[i].via = d[i].via

LEMMA Parts ==
    ASSUME NEW d \in Seq(Frames), d # <<>>
    PROVE  /\ Last(d) \in Frames /\ Len(d) \in Nat \ {0}
           /\ Below(d) \in Seq(Frames) /\ Len(Below(d)) = Len(d) - 1
           /\ \A i \in 1..(Len(d) - 1) : Below(d)[i] = d[i]
<1>1. Len(d) \in Nat \ {0} /\ \A i \in 1..Len(d) : d[i] \in Frames
  OBVIOUS
<1>2. \A i \in 1..(Len(d) - 1) : d[i] \in Frames
  BY <1>1
<1> DEFINE n == Len(d) - 1
<1> n \in Nat
  BY <1>1
<1>3. n \in Int /\ 1 \in Int
  OBVIOUS
<1>4. \A i \in 1..n : d[i] \in Frames
  BY <1>2
<1> HIDE DEF n
<1>5. /\ SubSeq(d, 1, n) \in Seq(Frames)
      /\ Len(SubSeq(d, 1, n)) = IF 1 <= n THEN n - 1 + 1 ELSE 0
      /\ \A i \in 1..(n - 1 + 1) : SubSeq(d, 1, n)[i] = d[1 + i - 1]
  BY <1>3, <1>4, SubSeqProperties
<1>6. Len(SubSeq(d, 1, n)) = n /\ \A i \in 1..n : SubSeq(d, 1, n)[i] = d[i]
  BY <1>3, <1>5
<1> QED BY <1>1, <1>5, <1>6 DEF Last, Below, n

LEMMA LastRewritten ==
    ASSUME NEW d \in Seq(Frames), d # <<>>,
           NEW f \in Frames, f.at = Last(d).at, f.via = Last(d).via
    PROVE  LET c == Append(Below(d), f)
           IN SameHives(c, d) /\ Len(c) = Len(d) /\ Last(c) = f
<1> DEFINE c == Append(Below(d), f)
<1>1. /\ Below(d) \in Seq(Frames) /\ Len(Below(d)) = Len(d) - 1 /\ Len(d) \in Nat \ {0}
      /\ \A i \in 1..(Len(d) - 1) : Below(d)[i] = d[i]
  BY Parts
<1>2. /\ c \in Seq(Frames) /\ Len(c) = Len(d) /\ c[Len(d)] = f
      /\ \A i \in 1..(Len(d) - 1) : c[i] = d[i]
  BY <1>1, AppendProperties
<1>3. ASSUME NEW i \in 1..Len(d) PROVE c[i].at = d[i].at /\ c[i].via = d[i].via
  <2>1. CASE i = Len(d)
    BY <2>1, <1>2 DEF Last
  <2>2. CASE i \in 1..(Len(d) - 1)
    BY <2>2, <1>2
  <2> QED BY <2>1, <2>2, <1>1
<1> QED BY <1>1, <1>2, <1>3 DEF SameHives, Last

LEMMA ToldSame ==
    ASSUME NEW d \in Seq(Frames), d # <<>>, NEW a \in Answers
    PROVE  SameHives(Told(d, a), d) /\ Len(Told(d, a)) = Len(d)
<1> DEFINE f == Last(d)
           g == [f EXCEPT !.stage = IF Retryable(a) /\ f.left # {} THEN "send" ELSE a]
<1>1. f \in Frames
  BY Parts
<1>2. g \in Frames /\ g.at = f.at /\ g.via = f.via
  BY <1>1 DEF Frames, Stages
<1> HIDE DEF g
<1>3. SameHives(Append(Below(d), g), d) /\ Len(Append(Below(d), g)) = Len(d)
  BY <1>2, LastRewritten
<1> QED BY <1>3 DEF Told, g

\* An answer told to the hive before leaves one hive less.
LEMMA ToldBack ==
    ASSUME NEW d \in Seq(Frames), Len(d) > 1, NEW a \in Answers
    PROVE  SameHives(Told(Below(d), a), d) /\ Len(Told(Below(d), a)) = Len(d) - 1
<1>1. /\ Below(d) \in Seq(Frames) /\ Len(Below(d)) = Len(d) - 1 /\ Len(d) \in Nat
      /\ \A i \in 1..(Len(d) - 1) : Below(d)[i] = d[i]
  BY Parts
<1>2. Below(d) # <<>>
  BY <1>1
<1> DEFINE c == Told(Below(d), a)
<1>3. SameHives(c, Below(d)) /\ Len(c) = Len(d) - 1
  BY <1>1, <1>2, ToldSame
<1> HIDE DEF c
<1>4. SameHives(c, d)
  BY <1>1, <1>3 DEF SameHives
<1> QED BY <1>3, <1>4 DEF c

LEMMA ReplySame ==
    ASSUME call \in Seq(Frames), call # <<>>, NEW a \in Answers, Reply(a)
    PROVE  /\ SameHives(call', call)
           /\ Len(call') = Len(call) => Last(call').stage = a
<1>1. CASE Len(call) = 1
  <2> DEFINE f == [Last(call) EXCEPT !.stage = a]
  <2>1. Last(call) \in Frames
    BY Parts
  <2>2. f \in Frames /\ f.at = Last(call).at /\ f.via = Last(call).via /\ f.stage = a
    BY <2>1 DEF Frames, Stages
  <2>3. call' = Append(Below(call), f)
    BY <1>1 DEF Reply, Continue
  <2> HIDE DEF f
  <2> QED BY <2>2, <2>3, LastRewritten
<1>2. CASE Len(call) # 1
  <2>1. Len(call) \in Nat /\ Len(call) # 0
    BY Parts
  <2>2. \A n \in Nat : n # 0 /\ n # 1 => n > 1 /\ n # n - 1
    OBVIOUS
  <2>3. Len(call) > 1 /\ Len(call) # Len(call) - 1
    BY <1>2, <2>1, <2>2
  <2>4. call' = Told(Below(call), a)
    BY <1>2 DEF Reply
  <2> QED BY <2>3, <2>4, ToldBack
<1> QED BY <1>1, <1>2

LEMMA ArrivalTyped ==
    ASSUME NEW h \in Hives, NEW via \in SUBSET Ids
    PROVE  Arrival(h, via) \in Frames /\ Arrival(h, via).at = h /\ Arrival(h, via).via = via
BY DEF Arrival, Candidates, Frames, Stages

LEMMA CutSame ==
    ASSUME NEW d \in Seq(Frames), NEW i \in 2..Len(d)
    PROVE  SameHives(Cut(SubSeq(d, 1, i - 1)), d) /\ Len(Cut(SubSeq(d, 1, i - 1))) = i - 1
<1> DEFINE b == SubSeq(d, 1, i - 1)
<1>1. /\ b \in Seq(Frames) /\ Len(b) = i - 1
      /\ \A j \in 1..(i - 1) : b[j] = d[j]
  <2>1. \A j \in 1..(i - 1) : d[j] \in Frames
    OBVIOUS
  <2> QED BY <2>1, SubSeqProperties
<1> HIDE DEF b
<1> DEFINE s == IF b[Len(b)].left = {} THEN "bad" ELSE "send"
           c == [b EXCEPT ![Len(b)].stage = s]
<1>2. s \in Stages
  BY DEF Stages, Answers
<1> HIDE DEF s
<1>3. ASSUME NEW j \in 1..Len(b)
      PROVE  c[j] \in Frames /\ c[j].at = b[j].at /\ c[j].via = b[j].via
  <2>1. b[j] \in Frames /\ j \in DOMAIN b
    BY <1>1
  <2>2. c[j] = IF j = Len(b) THEN [b[j] EXCEPT !.stage = s] ELSE b[j]
    BY <2>1
  <2>3. [b[j] EXCEPT !.stage = s] \in Frames
    BY <2>1, <1>2 DEF Frames
  <2> QED BY <2>1, <2>2, <2>3 DEF Frames
<1>4. c \in Seq(Frames) /\ Len(c) = Len(b)
  BY <1>1, <1>3
<1> QED BY <1>1, <1>3, <1>4 DEF SameHives, Cut, b, s

\* The hives a request is at run, and those it has come through are on its Via
\* path under the ids they have: with a hive that stops, a request at it or
\* beyond is cut off.
Chain ==
    /\ \A i \in DOMAIN call : state[call[i].at] # "down"
    /\ \A j \in DOMAIN call : \A i \in 1..(j - 1) : Id(call[i].at) \in call[j].via

\* The hives that the request is still at run on.
RunOn == \A i \in DOMAIN call' : state'[call'[i].at] # "down" /\ life'[call'[i].at] = life[call'[i].at]

LEMMA ChainKept ==
    ASSUME TypeOK, Chain, RunOn, SameHives(call', call)
    PROVE  Chain'
<1>1. \A i \in DOMAIN call' : state'[call'[i].at] # "down"
  BY DEF RunOn
<1>2. ASSUME NEW j \in DOMAIN call', NEW i \in 1..(j - 1)
      PROVE  Id(call[i].at)' \in call'[j].via
  <2>1. /\ j \in 1..Len(call') /\ i \in 1..Len(call') /\ Len(call') \in Nat
        /\ Len(call') <= Len(call) /\ Len(call) \in Nat
    BY <1>2 DEF SameHives, TypeOK
  <2>2. j \in DOMAIN call /\ i \in DOMAIN call'
    BY <2>1 DEF TypeOK, SameHives
  <2>3. call'[i].at = call[i].at /\ call'[j].via = call[j].via
    BY <2>1 DEF SameHives
  <2>4. Id(call[i].at) \in call[j].via
    BY <1>2, <2>2 DEF Chain
  <2>5. life'[call'[i].at] = life[call[i].at]
    BY <2>2, <2>3 DEF RunOn
  <2> QED BY <2>3, <2>4, <2>5 DEF Id
<1> QED BY <1>1, <1>2 DEF Chain

\* A step in which no hive stops or starts again.
LEMMA ChainStays ==
    ASSUME TypeOK, Chain, life' = life, \A h \in Hives : state[h] # "down" => state'[h] # "down",
           SameHives(call', call)
    PROVE  Chain'
<1>1. ASSUME NEW i \in DOMAIN call'
      PROVE  state'[call'[i].at] # "down"
  <2>1. i \in DOMAIN call /\ call'[i].at = call[i].at
    BY DEF SameHives, TypeOK
  <2>2. call[i] \in Frames /\ state[call[i].at] # "down"
    BY <2>1 DEF TypeOK, Chain
  <2> QED BY <2>1, <2>2 DEF Frames
<1> QED BY <1>1, ChainKept DEF RunOn

\* A step of the request that leaves the hives alone.
LEMMA RequestKept ==
    ASSUME Inv, Chain, UNCHANGED <<world, records, faults>>, SameHives(call', call)
    PROVE  Inv' /\ Chain'
<1>1. call' \in Seq(Frames)
  BY DEF SameHives
<1>2. UNCHANGED <<backend, state, life, view, missed, faults>>
  BY DEF world, records
<1>3. Inv'
  <2>1. TypeOK'
    BY <1>1, <1>2 DEF Inv, TypeOK
  <2>2. DownIsBlank' /\ OwnIsDirect'
    BY <1>2 DEF Inv, DownIsBlank, OwnIsDirect
  <2>3. \A h \in Hives : Id(h)' = Id(h)
    BY <1>2 DEF Id
  <2>4. IdsAreTheirs'
    BY <1>2, <2>3 DEF Inv, IdsAreTheirs
  <2>5. RoutesLeadOn'
    BY <1>2, <2>3 DEF Inv, RoutesLeadOn
  <2> QED BY <2>1, <2>2, <2>4, <2>5 DEF Inv
<1> QED BY <1>2, <1>3, ChainStays DEF Inv

LEMMA CallUnchanged ==
    ASSUME TypeOK, UNCHANGED call
    PROVE  SameHives(call', call)
BY DEF TypeOK, SameHives

LEMMA InitInv == Init => Inv /\ Chain
<1> SUFFICES ASSUME Init PROVE Inv /\ Chain
  OBVIOUS
<1>1. view = [h \in Hives |-> [p \in Places |-> Stranger]]
  BY DEF Init, Nothing
<1>2. view \in [Hives -> [Places -> Records]]
  BY <1>1, StrangerTyped
<1>3. missed \in [Hives -> [Places -> 0..(Patience - 1)]]
  BY PatienceIsPositive DEF Init, NoMisses
<1>4. TypeOK
  <2>1. backend \subseteq Hives /\ call \in Seq(Frames)
    BY MeshConstants DEF Init
  <2>2. faults \in 0..Faults /\ life \in [Hives -> 0..faults]
    BY MeshConstants DEF Init
  <2>3. state \in [Hives -> {"down", "starting", "serving"}]
    BY DEF Init
  <2> QED BY <1>2, <1>3, <2>1, <2>2, <2>3 DEF TypeOK
<1>5. DownIsBlank /\ Chain
  BY DEF Init, DownIsBlank, Chain
<1>6. OwnIsDirect /\ IdsAreTheirs /\ RoutesLeadOn
  BY <1>1 DEF OwnIsDirect, IdsAreTheirs, RoutesLeadOn, Stranger, Places
<1> QED BY <1>4, <1>5, <1>6 DEF Inv

LEMMA ScanKeeps ==
    ASSUME Inv, Chain, NEW h \in Hives, Scan(h)
    PROVE  Inv' /\ Chain'
<1>1. PICK quiet \in SUBSET {g \in Looks(h) \ {Own} : state[g] = "serving"} :
        /\ faults + Cardinality(quiet) <= Faults
        /\ faults' = faults + Cardinality(quiet)
        /\ \E found \in {[p \in Places |-> Found(h, p, quiet)]} :
            /\ view' = [view EXCEPT ![h] = [p \in Places |-> Taken(h, p, found[p])]]
            /\ missed' = [missed EXCEPT ![h] =
                [p \in Places |-> IF Kept(h, p, found[p]) THEN missed[h][p] + 1 ELSE 0]]
  BY DEF Scan
<1>2. /\ state[h] # "down" /\ state' = [state EXCEPT ![h] = "serving"]
      /\ UNCHANGED <<backend, life, call>>
  BY DEF Scan
<1>3. faults' \in Nat /\ faults <= faults' /\ faults' <= Faults /\ faults \in Nat
  <2>1. quiet \subseteq Hives
    BY DEF Looks
  <2>2. Cardinality(quiet) \in Nat
    BY <2>1, MeshConstants, FS_Subset, FS_CardinalityType
  <2> QED BY <1>1, <2>2, MeshConstants DEF Inv, TypeOK
<1>4. view' = [view EXCEPT ![h] = [p \in Places |-> Taken(h, p, Found(h, p, quiet))]]
  <2>1. PICK found \in {[p \in Places |-> Found(h, p, quiet)]} :
            view' = [view EXCEPT ![h] = [p \in Places |-> Taken(h, p, found[p])]]
    BY <1>1
  <2>2. \A p \in Places : found[p] = Found(h, p, quiet)
    OBVIOUS
  <2> QED BY <2>1, <2>2
<1>5. missed' = [missed EXCEPT ![h] =
          [p \in Places |-> IF Kept(h, p, Found(h, p, quiet)) THEN missed[h][p] + 1 ELSE 0]]
  <2>1. PICK found \in {[p \in Places |-> Found(h, p, quiet)]} :
            missed' = [missed EXCEPT ![h] =
                [p \in Places |-> IF Kept(h, p, found[p]) THEN missed[h][p] + 1 ELSE 0]]
    BY <1>1
  <2>2. \A p \in Places : found[p] = Found(h, p, quiet)
    OBVIOUS
  <2> QED BY <2>1, <2>2
<1>6. /\ \A p \in Places : view'[h][p] = Taken(h, p, Found(h, p, quiet))
      /\ \A g \in Hives \ {h} : view'[g] = view[g]
      /\ Own \in Places /\ Hives \subseteq Places
  BY <1>4 DEF Inv, TypeOK, Places
<1>7. \A g \in Hives : Id(g)' = Id(g)
  BY <1>2 DEF Id
<1>8. \A g, p \in Hives : Good(g, p, view'[g][p])
  <2> SUFFICES ASSUME NEW g \in Hives, NEW p \in Hives PROVE Good(g, p, view'[g][p])
    OBVIOUS
  <2>1. CASE g = h
    BY <2>1, <1>6, TakenIsGood
  <2>2. CASE g # h
    BY <2>2, <1>6, KnownIsGood
  <2> QED BY <2>1, <2>2
<1>9. \A g \in Hives : view'[g][Own] \in {Stranger, Server}
  <2> SUFFICES ASSUME NEW g \in Hives PROVE view'[g][Own] \in {Stranger, Server}
    OBVIOUS
  <2>1. CASE g = h
    BY <2>1, <1>6, TakenAtOwn
  <2>2. CASE g # h
    BY <2>2, <1>6 DEF Inv, OwnIsDirect
  <2> QED BY <2>1, <2>2
<1>10. TypeOK'
  <2>1. view' \in [Hives -> [Places -> Records]]
    <3>1. \A p \in Places : Taken(h, p, Found(h, p, quiet)) \in Records
      <4> SUFFICES ASSUME NEW p \in Places PROVE Taken(h, p, Found(h, p, quiet)) \in Records
        OBVIOUS
      <4>1. CASE p = Own
        BY <4>1, TakenAtOwn, StrangerTyped
      <4>2. CASE p \in Hives
        BY <4>2, TakenIsGood DEF Good
      <4> QED BY <4>1, <4>2 DEF Places
    <3> QED BY <3>1, <1>4 DEF Inv, TypeOK
  <2>2. missed' \in [Hives -> [Places -> 0..(Patience - 1)]]
    <3>1. \A p \in Places :
            (IF Kept(h, p, Found(h, p, quiet)) THEN missed[h][p] + 1 ELSE 0) \in 0..(Patience - 1)
      <4> SUFFICES ASSUME NEW p \in Places
                   PROVE  (IF Kept(h, p, Found(h, p, quiet)) THEN missed[h][p] + 1 ELSE 0)
                             \in 0..(Patience - 1)
        OBVIOUS
      <4>1. missed[h][p] \in 0..(Patience - 1)
        BY DEF Inv, TypeOK
      <4> QED BY <4>1, PatienceIsPositive DEF Kept
    <3> QED BY <3>1, <1>5 DEF Inv, TypeOK
  <2>3. life' \in [Hives -> 0..faults']
    BY <1>2, <1>3 DEF Inv, TypeOK
  <2>4. faults' \in 0..Faults
    BY <1>3, MeshConstants
  <2> QED BY <1>2, <2>1, <2>2, <2>3, <2>4 DEF Inv, TypeOK
<1>11. DownIsBlank'
  <2> SUFFICES ASSUME NEW g \in Hives, state'[g] = "down"
               PROVE  view'[g] = Nothing /\ life'[g] < faults'
    BY DEF DownIsBlank, Nothing
  <2>1. g # h /\ state[g] = "down"
    BY <1>2 DEF Inv, TypeOK
  <2>2. view[g] = Nothing /\ life[g] < faults /\ life[g] \in Nat
    BY <2>1 DEF Inv, DownIsBlank, TypeOK
  <2> QED BY <2>1, <2>2, <1>2, <1>3, <1>6
<1>12. OwnIsDirect'
  BY <1>9 DEF OwnIsDirect, Stranger, Server
<1>13. IdsAreTheirs' /\ RoutesLeadOn'
  BY <1>8, <1>7, <1>2 DEF Good, IdsAreTheirs, RoutesLeadOn, Simple
<1>14. Chain'
  <2>1. \A g \in Hives : state[g] # "down" => state'[g] # "down"
    BY <1>2 DEF Inv, TypeOK
  <2> QED BY <2>1, <1>2, ChainStays, CallUnchanged DEF Inv
<1> QED BY <1>10, <1>11, <1>12, <1>13, <1>14 DEF Inv

\* Backends come and go.
LEMMA BackendKeeps ==
    ASSUME Inv, Chain, NEW h \in Hives, Backend(h)
    PROVE  Inv' /\ Chain'
<1>1. /\ backend' \subseteq Hives
      /\ UNCHANGED <<state, life, view, missed, call, faults>>
  BY MeshConstants DEF Backend, BackendUp, BackendDown, records, Inv, TypeOK
<1>2. TypeOK'
  BY <1>1 DEF Inv, TypeOK
<1>3. DownIsBlank' /\ OwnIsDirect'
  BY <1>1 DEF Inv, DownIsBlank, OwnIsDirect
<1>4. \A g \in Hives : Id(g)' = Id(g)
  BY <1>1 DEF Id
<1>5. IdsAreTheirs'
  BY <1>1, <1>4 DEF Inv, IdsAreTheirs
<1>6. RoutesLeadOn'
  BY <1>1, <1>4 DEF Inv, RoutesLeadOn
<1>7. Chain'
  BY <1>1, ChainStays, CallUnchanged DEF Inv
<1> QED BY <1>2, <1>3, <1>5, <1>6, <1>7 DEF Inv

LEMMA CrashKeeps ==
    ASSUME Inv, Chain, NEW h \in Hives, Crash(h)
    PROVE  Inv' /\ Chain'
<1>1. /\ faults < Faults /\ faults' = faults + 1
      /\ state' = [state EXCEPT ![h] = "down"]
      /\ view' = [view EXCEPT ![h] = Nothing]
      /\ missed' = [missed EXCEPT ![h] = NoMisses]
      /\ UNCHANGED <<backend, life>>
  BY DEF Crash
<1>2. SameHives(call', call) /\ \A k \in DOMAIN call' : call'[k].at # h
  <2>1. call \in Seq(Frames) /\ Len(call) \in Nat /\ DOMAIN call = 1..Len(call)
    BY DEF Inv, TypeOK
  <2>2. CASE UNCHANGED call /\ {i \in DOMAIN call : call[i].at = h} = {}
    BY <2>2, CallUnchanged DEF Inv
  <2>3. ASSUME NEW i \in DOMAIN call, call[i].at = h,
               \A k \in DOMAIN call : call[k].at = h => i <= k,
               call' = IF i = 1 THEN <<>> ELSE Cut(SubSeq(call, 1, i - 1))
        PROVE  SameHives(call', call) /\ \A k \in DOMAIN call' : call'[k].at # h
    <3>1. CASE i = 1
      BY <2>1, <2>3, <3>1 DEF SameHives
    <3>2. CASE i # 1
      <4>1. i \in 2..Len(call)
        BY <2>1, <3>2
      <4>2. SameHives(call', call) /\ Len(call') = i - 1
        BY <2>1, <2>3, <3>2, <4>1, CutSame
      <4>3. ASSUME NEW k \in DOMAIN call' PROVE call'[k].at # h
        <5>1. k \in 1..(i - 1)
          BY <4>2 DEF SameHives
        <5>2. k \in DOMAIN call /\ ~(i <= k)
          BY <5>1, <4>1, <2>1
        <5>3. call'[k].at = call[k].at
          BY <5>1, <4>2 DEF SameHives
        <5> QED BY <5>2, <5>3, <2>3
      <4> QED BY <4>2, <4>3
    <3> QED BY <3>1, <3>2
  <2>4. \/ UNCHANGED call /\ {i \in DOMAIN call : call[i].at = h} = {}
        \/ \E i \in DOMAIN call :
              /\ call[i].at = h
              /\ \A k \in DOMAIN call : call[k].at = h => i <= k
              /\ call' = IF i = 1 THEN <<>> ELSE Cut(SubSeq(call, 1, i - 1))
    BY DEF Crash
  <2> QED BY <2>2, <2>3, <2>4
<1>3. Nothing \in [Places -> Records] /\ NoMisses \in [Places -> 0..(Patience - 1)]
  BY StrangerTyped, PatienceIsPositive DEF Nothing, NoMisses
<1>4. faults' \in 0..Faults /\ faults < faults' /\ faults \in Nat
  BY <1>1, MeshConstants DEF Inv, TypeOK
<1>5. TypeOK'
  <2>1. life' \in [Hives -> 0..faults']
    BY <1>1, <1>4 DEF Inv, TypeOK
  <2>2. call' \in Seq(Frames)
    BY <1>2 DEF SameHives
  <2> QED BY <1>1, <1>3, <1>4, <2>1, <2>2 DEF Inv, TypeOK
<1>6. /\ view'[h] = Nothing /\ \A g \in Hives \ {h} : view'[g] = view[g]
      /\ \A g \in Hives \ {h} : state'[g] = state[g]
  BY <1>1 DEF Inv, TypeOK
<1>7. DownIsBlank'
  <2> SUFFICES ASSUME NEW g \in Hives, state'[g] = "down"
               PROVE  view'[g] = Nothing /\ life'[g] < faults'
    BY DEF DownIsBlank, Nothing
  <2>1. life'[g] \in 0..faults
    BY <1>1 DEF Inv, TypeOK
  <2>2. view'[g] = Nothing
    BY <1>6 DEF Inv, DownIsBlank
  <2> QED BY <2>1, <2>2, <1>4
<1>8. \A p \in Places : Nothing[p] = Stranger
  BY DEF Nothing
<1>9. \A g \in Hives : Id(g)' = Id(g)
  BY <1>1 DEF Id
<1>10. OwnIsDirect'
  <2> SUFFICES ASSUME NEW g \in Hives PROVE view'[g][Own] \in {Stranger, Server}
    BY DEF OwnIsDirect, Stranger, Server
  <2>1. CASE g = h
    BY <2>1, <1>6, <1>8 DEF Places
  <2>2. CASE g # h
    BY <2>2, <1>6 DEF Inv, OwnIsDirect
  <2> QED BY <2>1, <2>2
<1>11. \A g, p \in Hives : Good(g, p, view'[g][p])
  <2> SUFFICES ASSUME NEW g \in Hives, NEW p \in Hives PROVE Good(g, p, view'[g][p])
    OBVIOUS
  <2>1. CASE g = h
    BY <2>1, <1>6, <1>8, StrangerIsGood DEF Places
  <2>2. CASE g # h
    BY <2>2, <1>6, KnownIsGood
  <2> QED BY <2>1, <2>2
<1>12. IdsAreTheirs' /\ RoutesLeadOn'
  BY <1>11, <1>9, <1>1 DEF Good, IdsAreTheirs, RoutesLeadOn, Simple
<1>13. Chain'
  <2>1. ASSUME NEW i \in DOMAIN call'
        PROVE  state'[call'[i].at] # "down" /\ life'[call'[i].at] = life[call'[i].at]
    <3>1. i \in DOMAIN call /\ call'[i].at = call[i].at
      <4>1. /\ i \in 1..Len(call') /\ Len(call') \in Nat
            /\ Len(call') <= Len(call) /\ Len(call) \in Nat
        BY <1>2 DEF SameHives, Inv, TypeOK
      <4> QED BY <4>1, <1>2 DEF SameHives, Inv, TypeOK
    <3>2. call[i] \in Frames /\ state[call[i].at] # "down"
      BY <3>1 DEF Inv, TypeOK, Chain
    <3>3. call'[i].at \in Hives \ {h}
      BY <3>1, <3>2, <1>2 DEF Frames
    <3>4. state'[call'[i].at] = state[call'[i].at]
      BY <3>3, <1>6
    <3> QED BY <3>1, <3>2, <3>4, <1>1
  <2> QED BY <2>1, <1>2, ChainKept DEF Inv, RunOn
<1> QED BY <1>5, <1>7, <1>10, <1>12, <1>13 DEF Inv

\* A hive that starts again has a new id, which is on no route: it knows none.
LEMMA StartKeeps ==
    ASSUME Inv, Chain, NEW h \in Hives, Start(h)
    PROVE  Inv' /\ Chain'
<1>1. /\ state[h] = "down" /\ state' = [state EXCEPT ![h] = "starting"]
      /\ life' = [life EXCEPT ![h] = @ + 1]
      /\ UNCHANGED <<backend, view, missed, call, faults>>
  BY DEF Start, records
<1>2. view[h] = Nothing /\ life[h] < faults
  BY <1>1 DEF Inv, DownIsBlank
<1>3. /\ life \in [Hives -> 0..faults] /\ faults \in 0..Faults /\ Faults \in Nat
      /\ state \in [Hives -> {"down", "starting", "serving"}]
  BY MeshConstants DEF Inv, TypeOK
<1>4. life' \in [Hives -> 0..faults]
  BY <1>1, <1>2, <1>3
<1>5. TypeOK'
  BY <1>1, <1>4 DEF Inv, TypeOK
<1>6. DownIsBlank'
  <2> SUFFICES ASSUME NEW g \in Hives, state'[g] = "down"
               PROVE  view'[g] = Nothing /\ life'[g] < faults'
    BY DEF DownIsBlank, Nothing
  <2>1. g # h /\ state[g] = "down"
    BY <1>1, <1>3
  <2> QED BY <2>1, <1>1, <1>3 DEF Inv, DownIsBlank
<1>7. OwnIsDirect'
  BY <1>1 DEF Inv, OwnIsDirect
<1>8. \A p \in Places : view[h][p] = Stranger
  BY <1>2 DEF Nothing
<1>9. \A k \in 0..life[h] : k \in 0..life'[h]
  BY <1>1, <1>3
<1>10. \A g \in Hives \ {h} : Id(g)' = Id(g)
  BY <1>1, <1>3 DEF Id
<1>11. IdsAreTheirs'
  <2> SUFFICES ASSUME NEW g \in Hives, NEW p \in Hives, view[g][p].in
               PROVE  \E k \in 0..life'[p] : view[g][p].id = <<p, k>> /\ <<p, k>> # Id(g)'
    BY <1>1 DEF IdsAreTheirs
  <2>1. g # h
    BY <1>8 DEF Stranger, Places
  <2>2. PICK k \in 0..life[p] : view[g][p].id = <<p, k>> /\ <<p, k>> # Id(g)
    BY DEF Inv, IdsAreTheirs
  <2>3. k \in 0..life'[p]
    <3>1. CASE p = h
      BY <3>1, <2>2, <1>9
    <3>2. CASE p # h
      BY <3>2, <2>2, <1>1, <1>3
    <3> QED BY <3>1, <3>2
  <2> QED BY <2>1, <2>2, <2>3, <1>10
<1>12. RoutesLeadOn'
  <2> SUFFICES ASSUME NEW g \in Hives, NEW p \in Hives, NEW r \in view[g][p].routes
               PROVE  /\ r # <<>> /\ Head(r) = view[g][p].id
                      /\ \A i, j \in DOMAIN r : r[i] = r[j] => i = j
                      /\ Len(r) <= MaxHops
                      /\ Id(g)' \notin Hops(r)
    BY <1>1 DEF RoutesLeadOn
  <2>1. g # h
    BY <1>8 DEF Stranger, Places
  <2> QED BY <2>1, <1>10 DEF Inv, RoutesLeadOn
<1>13. Chain'
  <2>1. ASSUME NEW i \in DOMAIN call'
        PROVE  state'[call'[i].at] # "down" /\ life'[call'[i].at] = life[call'[i].at]
    <3>1. call'[i].at = call[i].at /\ call[i] \in Frames /\ state[call[i].at] # "down"
      BY <1>1 DEF Inv, TypeOK, Chain
    <3>2. call'[i].at \in Hives \ {h} /\ state[call'[i].at] # "down"
      BY <3>1, <1>1 DEF Frames
    <3> QED BY <3>2, <1>1, <1>3
  <2> QED BY <2>1, <1>1, ChainKept, CallUnchanged DEF Inv, RunOn
<1> QED BY <1>5, <1>6, <1>7, <1>11, <1>12, <1>13 DEF Inv

LEMMA ArriveKeeps ==
    ASSUME Inv, Chain, NEW h \in Hives, Arrive(h)
    PROVE  Inv' /\ Chain'
<1>1. call' = <<Arrival(h, {})>> /\ UNCHANGED <<world, records, faults>>
  BY DEF Arrive
<1>2. UNCHANGED <<backend, state, life, view, missed, faults>>
  BY <1>1 DEF world, records
<1>3. Arrival(h, {}) \in Frames
  BY ArrivalTyped
<1>4. call' \in Seq(Frames) /\ Len(call') = 1
  BY <1>1, <1>3
<1>5. TypeOK'
  BY <1>2, <1>4 DEF Inv, TypeOK
<1>6. DownIsBlank' /\ OwnIsDirect'
  BY <1>2 DEF Inv, DownIsBlank, OwnIsDirect
<1>7. \A g \in Hives : Id(g)' = Id(g)
  BY <1>2 DEF Id
<1>8. IdsAreTheirs'
  BY <1>2, <1>7 DEF Inv, IdsAreTheirs
<1>9. RoutesLeadOn'
  BY <1>2, <1>7 DEF Inv, RoutesLeadOn
<1>10. Chain'
  <2>1. DOMAIN call' = {1} /\ call'[1].at = h /\ state'[h] = "serving"
    BY <1>1, <1>2, <1>3, ArrivalTyped DEF Arrive
  <2> QED BY <2>1 DEF Chain
<1> QED BY <1>5, <1>6, <1>8, <1>9, <1>10 DEF Inv

\* What the second look leaves of the candidates.
Unvisited(f) == {p \in f.left : ~LeadsBack(f.at, p, f.via)}

LEMMA FilterSame ==
    ASSUME Inv, Filter
    PROVE  /\ SameHives(call', call)
           /\ At("send")' /\ Len(call') = Len(call) => Last(call').left = Unvisited(Last(call))
<1> DEFINE f == Last(call)
           open == Unvisited(f)
           g == [f EXCEPT !.stage = "send", !.left = open]
           a == IF f.left = {} THEN "unknown" ELSE "bad"
<1>1. call \in Seq(Frames) /\ call # <<>>
  BY DEF Inv, TypeOK, Filter, At
<1>2. f \in Frames
  BY <1>1, Parts
<1>3. \/ call' = Append(Below(call), g)
      \/ Reply(a)
  BY DEF Filter, Continue, Unvisited
<1>4. CASE call' = Append(Below(call), g)
  <2>1. g \in Frames /\ g.at = f.at /\ g.via = f.via /\ g.left = open
    BY <1>2 DEF Frames, Stages, Unvisited
  <2> HIDE DEF g
  <2> QED BY <1>1, <1>4, <2>1, LastRewritten
<1>5. CASE Reply(a)
  <2>1. a \in Answers /\ a # "send"
    BY DEF Answers
  <2> HIDE DEF a
  <2> QED BY <1>1, <1>5, <2>1, ReplySame DEF At
<1> QED BY <1>3, <1>4, <1>5

LEMMA PassOnSame ==
    ASSUME Inv, PassOn
    PROVE  SameHives(call', call)
<1>1. PICK a \in Answers :
        /\ At(a)
        /\ call' = IF Len(call) = 1 THEN <<>> ELSE Told(Below(call), a)
  BY DEF PassOn
<1>2. call \in Seq(Frames) /\ call # <<>> /\ Len(call) \in Nat /\ Len(call) # 0
  BY <1>1 DEF Inv, TypeOK, At
<1>3. CASE Len(call) = 1
  BY <1>1, <1>2, <1>3 DEF SameHives
<1>4. CASE Len(call) # 1
  <2>1. Len(call) > 1
    BY <1>2, <1>4
  <2> QED BY <1>1, <1>2, <1>4, <2>1, ToldBack
<1> QED BY <1>3, <1>4

\* A request is sent on to hive p with the id of this one on its path.
LEMMA HandedOn ==
    ASSUME Inv, Chain, UNCHANGED <<world, records, faults>>,
           NEW p \in Hives, state[p] = "serving", call # <<>>, NEW f \in Frames,
           f.at = Last(call).at, f.via = Last(call).via,
           call' = Append(Append(Below(call), f), Arrival(p, Onward(f)))
    PROVE  Inv' /\ Chain'
<1> DEFINE c == Append(Below(call), f)
           n == Len(call)
           b == Arrival(p, Onward(f))
<1>1. call \in Seq(Frames) /\ n \in Nat
  BY DEF Inv, TypeOK
<1>2. SameHives(c, call) /\ Len(c) = n /\ Last(c) = f
  BY <1>1, LastRewritten
<1>3. f.at \in Hives /\ f.via \in SUBSET Ids /\ Id(f.at) \in Ids
  BY IdTyped DEF Frames, Inv
<1>4. b \in Frames /\ b.at = p /\ b.via = f.via \cup {Id(f.at)}
  BY <1>3, ArrivalTyped DEF Onward
<1> HIDE DEF b, c
<1>5. c \in Seq(Frames) /\ n # 0 /\ c[n] = f /\ call[n].at = f.at /\ call[n].via = f.via
  BY <1>1, <1>2 DEF SameHives, Last
<1>6. /\ call' \in Seq(Frames) /\ Len(call') = n + 1 /\ call'[n + 1] = b
      /\ \A i \in 1..n : call'[i] = c[i]
  <2>1. call' = Append(c, b)
    BY DEF b, c
  <2> QED BY <2>1, <1>2, <1>4, <1>5, AppendProperties
<1>7. \A i \in 1..n : call'[i].at = call[i].at /\ call'[i].via = call[i].via
  BY <1>2, <1>6 DEF SameHives
<1>8. UNCHANGED <<backend, state, life, view, missed, faults>>
  BY DEF world, records
<1>9. TypeOK'
  BY <1>6, <1>8 DEF Inv, TypeOK
<1>10. DownIsBlank' /\ OwnIsDirect'
  BY <1>8 DEF Inv, DownIsBlank, OwnIsDirect
<1>11. \A g \in Hives : Id(g)' = Id(g)
  BY <1>8 DEF Id
<1>12. IdsAreTheirs'
  BY <1>8, <1>11 DEF Inv, IdsAreTheirs
<1>13. RoutesLeadOn'
  BY <1>8, <1>11 DEF Inv, RoutesLeadOn
<1>14. \A i \in DOMAIN call' : state'[call'[i].at] # "down"
  <2> SUFFICES ASSUME NEW i \in DOMAIN call' PROVE state'[call'[i].at] # "down"
    OBVIOUS
  <2>1. i \in 1..n \/ i = n + 1
    BY <1>1, <1>6
  <2>2. CASE i \in 1..n
    BY <2>2, <1>1, <1>7, <1>8 DEF Chain
  <2>3. CASE i = n + 1
    BY <2>3, <1>4, <1>6, <1>8
  <2> QED BY <2>1, <2>2, <2>3
<1>15. \A j \in DOMAIN call' : \A i \in 1..(j - 1) : Id(call[i].at)' \in call'[j].via
  <2> SUFFICES ASSUME NEW j \in DOMAIN call', NEW i \in 1..(j - 1)
               PROVE  Id(call[i].at)' \in call'[j].via
    OBVIOUS
  <2>1. j \in 1..(n + 1) /\ i \in 1..n
    BY <1>1, <1>6
  <2>9. Id(call[i].at)' = Id(call[i].at)
    BY <2>1, <1>7, <1>8 DEF Id
  <2>2. CASE j \in 1..n
    <3>1. Id(call[i].at) \in call[j].via
      BY <2>2, <1>1 DEF Chain
    <3> QED BY <3>1, <2>2, <2>9, <1>7
  <2>3. CASE j = n + 1 /\ i = n
    BY <2>3, <2>9, <1>4, <1>5, <1>6
  <2>4. CASE j = n + 1 /\ i # n
    <3>1. i \in 1..(n - 1) /\ n \in DOMAIN call
      BY <1>1, <1>5, <2>1, <2>4
    <3>2. Id(call[i].at) \in call[n].via
      BY <3>1 DEF Chain
    <3> QED BY <3>2, <2>4, <2>9, <1>4, <1>5, <1>6
  <2>5. j \in 1..n \/ (j = n + 1 /\ i = n) \/ (j = n + 1 /\ i # n)
    <3>1. \A m \in Nat : \A k \in 1..(m + 1) : k \in 1..m \/ k = m + 1
      OBVIOUS
    <3>2. n \in Nat /\ j \in 1..(n + 1)
      BY <2>1, <1>1
    <3> QED BY <3>1, <3>2
  <2> HIDE DEF n
  <2> QED BY <2>2, <2>3, <2>4, <2>5
<1>16. Chain'
  BY <1>14, <1>15 DEF Chain
<1> QED BY <1>9, <1>10, <1>12, <1>13, <1>16 DEF Inv

LEMMA SendKeeps ==
    ASSUME Inv, Chain, NEW p \in Places, Send(p)
    PROVE  Inv' /\ Chain'
<1> DEFINE f == Last(call)
           rest == Without(f, p)
           w == [rest EXCEPT !.stage = "wait"]
<1>1. call \in Seq(Frames) /\ call # <<>> /\ UNCHANGED <<world, records, faults>>
  BY DEF Inv, TypeOK, Send, At
<1>2. f \in Frames
  BY <1>1, Parts
<1>3. /\ rest \in Frames /\ rest.at = f.at /\ rest.via = f.via
      /\ w \in Frames /\ w.at = f.at /\ w.via = f.via
  BY <1>2 DEF Without, Frames, Stages
<1>4. \/ \E a \in {"ok", "bad"} : Reply(a)
      \/ /\ p # Own /\ state[p] = "serving"
         /\ call' = Append(Append(Below(call), w), Arrival(p, Onward(f)))
      \/ call' = Append(Below(call), rest)
  BY DEF Send, Continue
<1>5. CASE \E a \in {"ok", "bad"} : Reply(a)
  BY <1>1, <1>5, ReplySame, RequestKept DEF Answers
<1>6. CASE /\ p # Own /\ state[p] = "serving"
           /\ call' = Append(Append(Below(call), w), Arrival(p, Onward(f)))
  <2>1. Onward(f) = Onward(w)
    BY <1>3 DEF Onward
  <2>2. p \in Hives
    BY <1>6 DEF Places
  <2> HIDE DEF w, f
  <2>3. call' = Append(Append(Below(call), w), Arrival(p, Onward(w)))
    BY <1>6, <2>1
  <2> QED BY <1>1, <1>3, <1>6, <2>2, <2>3, HandedOn DEF f
<1>7. CASE call' = Append(Below(call), rest)
  <2> HIDE DEF rest
  <2> QED BY <1>1, <1>3, <1>7, LastRewritten, RequestKept
<1> QED BY <1>4, <1>5, <1>6, <1>7

LEMMA StepKeeps ==
    ASSUME Inv, Chain, [Next]_vars
    PROVE  Inv' /\ Chain'
<1>1. CASE UNCHANGED vars
  BY <1>1, CallUnchanged, RequestKept DEF vars, Inv
<1>2. CASE Filter
  BY <1>2, FilterSame, RequestKept DEF Filter
<1>3. CASE PassOn
  BY <1>3, PassOnSame, RequestKept DEF PassOn
<1> QED BY <1>1, <1>2, <1>3, ScanKeeps, ArriveKeeps, BackendKeeps, CrashKeeps, StartKeeps, SendKeeps
       DEF Next, RequestStep

-----------------------------------------------------------------------------
(* Theorems.                                                                *)

LEMMA Invariance == Spec => [](Inv /\ Chain)
<1>1. Init => Inv /\ Chain
  BY InitInv
<1>2. Inv /\ Chain /\ [Next]_vars => Inv' /\ Chain'
  BY StepKeeps
<1> QED BY <1>1, <1>2, PTL DEF Spec

\* Type correctness of the mesh: grace counters stay below the limit, no hive
\* starts more often than hives stop, a request's frames are frames (Hive,
\* proxy_by_model).
THEOREM MeshTypeCorrect == Spec => []TypeOK
<1>1. Inv /\ Chain => TypeOK
  BY DEF Inv
<1> QED BY <1>1, Invariance, PTL

\* Routes are simple, start at the member they are known through, keep to the
\* limit and stay clear of the hive that keeps them, for any number of hives in
\* any arrangement (hive_paths, advertised_paths, without_self).
THEOREM RoutesAlwaysLeadOn == Spec => []RoutesLeadOn
<1>1. Inv /\ Chain => RoutesLeadOn
  BY DEF Inv
<1> QED BY <1>1, Invariance, PTL

LEMMA RouteStartsThere ==
    ASSUME Inv, NEW h \in Hives, NEW p \in Hives, view[h][p].in,
           NEW r \in RoutesOf(view[h][p])
    PROVE  view[h][p].id \in Hops(r)
<1> DEFINE rec == view[h][p]
<1>1. rec.id # Nobody
  <2>1. PICK k \in 0..life[p] : rec.id = <<p, k>>
    BY DEF Inv, IdsAreTheirs
  <2>2. p # Own
    BY MeshConstants
  <2> QED BY <2>1, <2>2 DEF Nobody
<1>2. CASE rec.routes = {}
  <2>1. r = <<rec.id>>
    BY <1>1, <1>2 DEF RoutesOf
  <2> QED BY <2>1 DEF Hops
<1>3. CASE rec.routes # {}
  <2>1. r \in rec.routes
    BY <1>1, <1>3 DEF RoutesOf
  <2>2. r # <<>> /\ Head(r) = rec.id /\ r \in Seq(Ids)
    BY <2>1, KnownIsGood DEF Good, Simple
  <2>3. 1 \in DOMAIN r /\ r[1] = rec.id
    BY <2>2
  <2> QED BY <2>3 DEF Hops
<1> QED BY <1>2, <1>3

\* A hive that is on the way, and is listed under the id it has, leads back.
LEMMA WayLeadsBack ==
    ASSUME Inv, Chain, call # <<>>, NEW i \in DOMAIN call,
           LET known == view[Last(call).at][call[i].at]
           IN known.in /\ known.id = Id(call[i].at)
    PROVE  LeadsBack(Last(call).at, call[i].at, Last(call).via)
<1> DEFINE f == Last(call)
           p == call[i].at
           n == Len(call)
<1>1. call \in Seq(Frames) /\ n \in Nat /\ i \in 1..n /\ f = call[n]
  BY DEF Inv, TypeOK, Last
<1>2. p \in Hives /\ f.at \in Hives
  <2>1. call[i] \in Frames /\ f \in Frames
    BY <1>1, Parts
  <2> QED BY <2>1 DEF Frames
<1>3. view[f.at][p].in /\ view[f.at][p].id = Id(p) /\ Id(p) # Id(f.at)
  BY <1>2 DEF Inv, IdsAreTheirs
<1>4. i # n
  BY <1>1, <1>3
<1>5. Id(p) \in f.via
  <2>1. n \in DOMAIN call /\ i \in 1..(n - 1)
    BY <1>1, <1>4
  <2> QED BY <2>1, <1>1 DEF Chain
<1>6. \A r \in RoutesOf(view[f.at][p]) : Id(p) \in Hops(r)
  BY <1>2, <1>3, RouteStartsThere
<1> QED BY <1>3, <1>5, <1>6 DEF LeadsBack, LoopFree

\* A request that has arrived at a hive is not sent on to any hive it is at,
\* through any chain of hives with views however stale, unless the list has
\* that hive under an id from before its last start, or has lost it between the
\* two looks (proxy_by_model, without_visited).
THEOREM NeverSentBackToKnown == Spec => SentBackOnlyIfLost
<1> DEFINE A == \A p \in Hives, i \in DOMAIN call :
                    /\ At("filter") /\ call[i].at = p
                    /\ At("send")' /\ Len(call') = Len(call) /\ p \in Last(call').left
                    => LET known == view[Last(call).at][p]
                       IN ~known.in \/ known.id # Id(p)
<1>1. Inv /\ Chain /\ [Next]_vars => [A]_vars
  <2> SUFFICES ASSUME Inv, Chain, Next,
                      NEW p \in Hives, NEW i \in DOMAIN call,
                      At("filter"), call[i].at = p,
                      At("send")', Len(call') = Len(call), p \in Last(call').left,
                      view[Last(call).at][p].in, view[Last(call).at][p].id = Id(p)
               PROVE  FALSE
    BY DEF A
  <2>1. call # <<>> /\ Last(call).stage = "filter"
    BY DEF At
  <2>2. Filter
    <3>1. ~UNCHANGED call
      BY <2>1 DEF At
    <3>2. ASSUME NEW h \in Hives, Scan(h) \/ Arrive(h) \/ Backend(h) \/ Start(h) PROVE FALSE
      BY <3>1, <3>2, <2>1 DEF Scan, Arrive, Backend, Start
    <3>3. ASSUME NEW h \in Hives, Crash(h) PROVE FALSE
      <4>1. call \in Seq(Frames) /\ Len(call) \in Nat \ {0}
        BY <2>1, Parts DEF Inv, TypeOK
      <4>2. PICK j \in DOMAIN call :
                call' = IF j = 1 THEN <<>> ELSE Cut(SubSeq(call, 1, j - 1))
        BY <3>1, <3>3 DEF Crash
      <4>3. CASE j = 1
        BY <4>1, <4>2, <4>3
      <4>4. CASE j # 1
        <5>1. j \in 2..Len(call) /\ \A k \in 1..(j - 1) : call[k] \in Frames
          BY <4>1, <4>4
        <5>2. Len(SubSeq(call, 1, j - 1)) = j - 1 /\ SubSeq(call, 1, j - 1) \in Seq(Frames)
          BY <5>1, SubSeqProperties
        <5>3. Len(Cut(SubSeq(call, 1, j - 1))) = j - 1
          BY <5>1, <5>2, CutSame DEF Cut
        <5> QED BY <4>2, <4>4, <5>1, <5>3
      <4> QED BY <4>3, <4>4
    <3>4. ASSUME NEW q \in Places, Send(q) PROVE FALSE
      BY <3>4, <2>1 DEF Send, At
    <3>5. ~PassOn
      BY <2>1 DEF PassOn, At, Answers
    <3> QED BY <3>2, <3>3, <3>4, <3>5 DEF Next, RequestStep
  <2>3. p \in Unvisited(Last(call))
    BY <2>2, FilterSame
  <2> QED BY <2>1, <2>3, WayLeadsBack DEF Unvisited
<1>2. Spec => [][A]_vars
  BY <1>1, Invariance, PTL DEF Spec
<1> QED BY <1>2 DEF SentBackOnlyIfLost

=============================================================================
