--------------------------- MODULE SequentialProofs ---------------------------
(***************************************************************************)
(* The parts of hivLLM that no other step comes between: every routing     *)
(* decision, for any number of backends, any loads and any turn (Balancer); *)
(* which key a backend is sent, what merging the findings of several        *)
(* finders keeps, and what is read of an upload, wherever it is cut         *)
(* (Readers).                                                               *)
(***************************************************************************)
EXTENDS Balancer, Readers, OrderProofs

\* What the ranking lemmas ask of the view.
LEMMA ViewIsRankable ==
    ASSUME TypeOK
    PROVE  /\ members \in SUBSET Nat /\ IsFiniteSet(members) /\ turn \in Int
           /\ \A b \in Backends : Effective[b] \in Nat
<1>1. members \in SUBSET Nat /\ IsFiniteSet(members)
  BY BalancerConstants, FS_Subset DEF TypeOK
<1>2. turn \in Int
  BY BalancerConstants DEF TypeOK
<1>3. \A b \in Backends : reported[b].n \in Nat /\ inflight[b] \in Nat
  BY BalancerConstants DEF TypeOK, UnknownLoad
<1>4. \A b \in Backends : Effective[b] \in Nat
  BY <1>3 DEF Effective, EffectiveLoad
<1> QED BY <1>1, <1>2, <1>4

LEMMA OrderIsPlaced ==
    ASSUME TypeOK
    PROVE  /\ Order \in [1..Cardinality(members) -> members]
           /\ \A i \in DOMAIN Order : Place(members, cooling, Effective, turn, Order[i]) = i
           /\ \A b \in members : \E i \in DOMAIN Order : Order[i] = b
<1>1. \A b \in members : Effective[b] \in Int
  BY ViewIsRankable DEF TypeOK
<1>2. /\ Order \in [1..Cardinality(members) -> members]
      /\ \A i \in 1..Cardinality(members) :
            Place(members, cooling, Effective, turn, Order[i]) = i
      /\ \A b \in members : Order[Place(members, cooling, Effective, turn, b)] = b
  BY <1>1, ViewIsRankable, CandidatesArePlaced DEF Order
<1>3. \A b \in members :
          Place(members, cooling, Effective, turn, b) \in 1..Cardinality(members)
  BY <1>1, ViewIsRankable, PlaceInRange
<1> QED BY <1>2, <1>3

-----------------------------------------------------------------------------
LEMMA BalancerTypeInit == Init => TypeOK
<1> SUFFICES ASSUME Init PROVE TypeOK
  OBVIOUS
<1>1. members \subseteq Backends /\ cooling \subseteq Backends
  BY DEF Init
<1>2. reported \in [Backends -> LoadReports \cup {UnknownLoad}]
  BY DEF Init
<1>3. inflight \in [Backends -> 0..MaxInflight] /\ turn \in 0..(TurnSpace - 1)
  BY BalancerConstants DEF Init
<1>4. firsts \in Seq([turn : 0..(TurnSpace - 1), first : Backends]) /\ Len(firsts) <= History
  BY BalancerConstants DEF Init
<1> QED BY <1>1, <1>2, <1>3, <1>4 DEF TypeOK

LEMMA BalancerTypeStep == TypeOK /\ [Next]_vars => TypeOK'
<1> SUFFICES ASSUME TypeOK, [Next]_vars PROVE TypeOK'
  OBVIOUS
<1> USE BalancerConstants DEF TypeOK
<1>1. CASE Decide
  <2>1. turn' \in 0..(TurnSpace - 1)
    BY <1>1 DEF Decide, NextTurn
  <2>2. firsts' \in Seq([turn : 0..(TurnSpace - 1), first : Backends]) /\ Len(firsts') <= History
    <3>1. CASE members = {}
      BY <1>1, <3>1 DEF Decide
    <3>2. CASE members # {}
      <4>1. 1 \in 1..Cardinality(members)
        BY <3>2, ViewIsRankable, FS_CardinalityType, FS_EmptySet
      <4>2. Order[1] \in Backends
        BY <4>1, OrderIsPlaced
      <4>3. [turn |-> turn, first |-> Order[1]] \in [turn : 0..(TurnSpace - 1), first : Backends]
        BY <4>2
      <4>4. firsts \in Seq([turn : 0..(TurnSpace - 1), first : Backends])
            /\ Len(firsts) < History
        BY <1>1 DEF Decide
      <4>5. firsts' = Append(firsts, [turn |-> turn, first |-> Order[1]])
        BY <1>1, <3>2 DEF Decide
      <4> DEFINE D == [turn : 0..(TurnSpace - 1), first : Backends]
                 d == [turn |-> turn, first |-> Order[1]]
      <4>6. \A q \in Seq(D) : Append(q, d) \in Seq(D) /\ Len(Append(q, d)) = Len(q) + 1
        <5> HIDE DEF D, d
        <5>1. d \in D
          BY <4>3 DEF D, d
        <5> QED BY <5>1
      <4>7. Len(firsts) \in Nat
        BY <4>4
      <4>8. firsts' \in Seq(D) /\ Len(firsts') = Len(firsts) + 1
        BY <4>4, <4>5, <4>6
      <4>9. Len(firsts') <= History
        BY <4>4, <4>7, <4>8
      <4> QED BY <4>8, <4>9
    <3> QED BY <3>1, <3>2
  <2> QED BY <1>1, <2>1, <2>2 DEF Decide, view
<1>2. ASSUME NEW S \in SUBSET Backends, Install(S) PROVE TypeOK'
  BY <1>2 DEF Install
<1>3. ASSUME NEW b \in Backends, NEW l \in LoadReports, Poll(b, l) PROVE TypeOK'
  <2>1. reported' \in [Backends -> LoadReports \cup {UnknownLoad}]
    BY <1>3 DEF Poll
  <2>2. firsts' \in Seq([turn : 0..(TurnSpace - 1), first : Backends]) /\ Len(firsts') <= History
    BY <1>3 DEF Poll
  <2> QED BY <1>3, <2>1, <2>2 DEF Poll
<1>4. ASSUME NEW b \in Backends, Begin(b) PROVE TypeOK'
  BY <1>4 DEF Begin
<1>5. ASSUME NEW b \in Backends, End(b) PROVE TypeOK'
  BY <1>5 DEF End
<1>6. ASSUME NEW b \in Backends, MarkFailed(b) \/ MarkHealthy(b) PROVE TypeOK'
  <2>1. cooling' \subseteq Backends
    BY <1>6 DEF MarkFailed, MarkHealthy
  <2>2. firsts' = <<>> /\ UNCHANGED <<members, reported, inflight, turn>>
    BY <1>6 DEF MarkFailed, MarkHealthy
  <2>3. <<>> \in Seq([turn : 0..(TurnSpace - 1), first : Backends]) /\ Len(<<>>) = 0
    OBVIOUS
  <2> QED BY <2>1, <2>2, <2>3
<1>7. CASE UNCHANGED vars
  BY <1>7 DEF vars
<1> QED BY <1>1, <1>2, <1>3, <1>4, <1>5, <1>6, <1>7 DEF Next

\* The view of the balancer keeps its types; in particular what a decision
\* picks first is always a backend.
THEOREM BalancerTypeCorrect == Spec => []TypeOK
BY BalancerTypeInit, BalancerTypeStep, PTL DEF Spec

\* The failover list of every decision is a permutation of the members: for
\* any number of backends, no rotation loses one or repeats one.
THEOREM EveryMemberIsACandidateOnce == Spec => []EveryMemberOnce
<1>1. TypeOK => EveryMemberOnce
  <2> SUFFICES ASSUME TypeOK PROVE EveryMemberOnce
    OBVIOUS
  <2>1. \A b \in members : Effective[b] \in Int
    BY ViewIsRankable DEF TypeOK
  <2>2. \A b \in members :
            Place(members, cooling, Effective, turn, b) \in 1..Cardinality(members)
    BY <2>1, ViewIsRankable, PlaceInRange
  <2>3. \A i \in 1..Cardinality(members) : \E b \in members :
            Place(members, cooling, Effective, turn, b) = i
    BY OrderIsPlaced
  <2> QED BY <2>2, <2>3 DEF EveryMemberOnce
<1> QED BY <1>1, BalancerTypeCorrect, PTL

\* Whatever the turn, a cooling backend never comes before one that is not,
\* nor a busier one before one less loaded.
THEOREM RotationKeepsRank == Spec => []NeverBeforeBetter
<1>1. TypeOK => NeverBeforeBetter
  <2> SUFFICES ASSUME TypeOK, NEW i \in DOMAIN Order, NEW j \in DOMAIN Order, i < j,
                      RankedBefore(cooling, Effective, Order[j], Order[i])
               PROVE  FALSE
    BY DEF NeverBeforeBetter
  <2>1. Order[i] \in members /\ Order[j] \in members
    BY OrderIsPlaced
  <2>2. \A b \in members : Effective[b] \in Int
    BY ViewIsRankable DEF TypeOK
  <2>3. Place(members, cooling, Effective, turn, Order[j])
            < Place(members, cooling, Effective, turn, Order[i])
    BY <2>1, <2>2, ViewIsRankable, BetterIsFirst
  <2>4. j < i
    BY <2>3, OrderIsPlaced
  <2>5. i \in Nat /\ j \in Nat
    BY OrderIsPlaced, ViewIsRankable, FS_CardinalityType
  <2> QED BY <2>4, <2>5
<1> QED BY <1>1, BalancerTypeCorrect, PTL

-----------------------------------------------------------------------------
(* Turns.                                                                   *)

\* Turn u comes k decisions after turn t: the counter has wrapped or not.
Follows(t, u, k) == u = t + k \/ u <= t + k - TurnSpace

FirstAt(t, b) == b \in members /\ Place(members, cooling, Effective, t, b) = 1

\* What the remembered decisions chose under the view there is, and that one
\* turn went by with each.
Remembered ==
    /\ members = {} => firsts = <<>>
    /\ \A i \in DOMAIN firsts :
          /\ FirstAt(firsts[i].turn, firsts[i].first)
          /\ Follows(firsts[i].turn, turn, Len(firsts) + 1 - i)
    /\ \A i, j \in DOMAIN firsts :
          i < j => Follows(firsts[i].turn, firsts[j].turn, j - i)

LEMMA FollowsNext ==
    ASSUME NEW t \in 0..(TurnSpace - 1), NEW u \in 0..(TurnSpace - 1), NEW k \in Nat,
           (t = u /\ k = 0) \/ Follows(t, u, k)
    PROVE  Follows(t, NextTurn(u, TurnSpace), k + 1)
<1>1. TurnSpace \in Nat \ {0}
  BY BalancerConstants
<1>2. CASE u + 1 < TurnSpace
  <2>1. NextTurn(u, TurnSpace) = u + 1
    BY <1>1, <1>2 DEF NextTurn
  <2> QED BY <1>1, <2>1 DEF Follows
<1>3. CASE u + 1 = TurnSpace
  <2>1. NextTurn(u, TurnSpace) = 0
    BY <1>1, <1>3 DEF NextTurn
  <2> QED BY <1>1, <1>3, <2>1 DEF Follows
<1> QED BY <1>1, <1>2, <1>3

LEMMA FirstIsFirst ==
    ASSUME TypeOK, members # {}
    PROVE  FirstAt(turn, Order[1])
<1>1. 1 \in 1..Cardinality(members)
  BY ViewIsRankable, FS_CardinalityType, FS_EmptySet
<1> QED BY <1>1, OrderIsPlaced DEF FirstAt

LEMMA EachRemembered ==
    ASSUME TypeOK, NEW i \in DOMAIN firsts
    PROVE  firsts[i].turn \in 0..(TurnSpace - 1) /\ firsts[i].first \in Backends /\ i \in Nat
<1> DEFINE D == [turn : 0..(TurnSpace - 1), first : Backends]
<1>1. firsts \in Seq(D)
  BY DEF TypeOK
<1>2. i \in 1..Len(firsts) /\ Len(firsts) \in Nat
  BY <1>1, LenProperties
<1>3. firsts[i] \in D
  <2> HIDE DEF D
  <2> QED BY <1>1, <1>2, ElementOfSeq
<1> QED BY <1>2, <1>3

LEMMA RememberedForgotten ==
    ASSUME firsts' = <<>>
    PROVE  Remembered'
<1>1. DOMAIN firsts' = {}
  OBVIOUS
<1> QED BY <1>1 DEF Remembered

LEMMA RememberedDecides == TypeOK /\ Remembered /\ Decide => Remembered'
<1> SUFFICES ASSUME TypeOK, Remembered, Decide PROVE Remembered'
  OBVIOUS
<1> DEFINE D == [turn : 0..(TurnSpace - 1), first : Backends]
           n == Len(firsts) + 1
<1>1. firsts \in Seq(D) /\ turn \in 0..(TurnSpace - 1)
  BY DEF TypeOK
<1>2. UNCHANGED <<members, reported, inflight, cooling>> /\ turn' = NextTurn(turn, TurnSpace)
  BY DEF Decide, view
<1>3. \A t, b : FirstAt(t, b)' <=> FirstAt(t, b)
  BY <1>2 DEF FirstAt, Effective
<1>4. n \in Nat /\ DOMAIN firsts = 1..(n - 1)
  BY <1>1, LenProperties
<1>5. \A i \in DOMAIN firsts : firsts[i].turn \in 0..(TurnSpace - 1)
  BY EachRemembered
<1>6. CASE members = {}
  BY <1>2, <1>6, RememberedForgotten DEF Decide, Remembered
<1>7. CASE members # {}
  <2> DEFINE d == [turn |-> turn, first |-> Order[1]]
  <2>1. firsts' = Append(firsts, d) /\ d \in D
    BY <1>1, <1>7, FirstIsFirst DEF Decide, FirstAt, TypeOK
  <2>2. /\ Len(firsts') = n /\ DOMAIN firsts' = 1..n
        /\ firsts'[n] = d /\ \A i \in DOMAIN firsts : firsts'[i] = firsts[i]
    <3> HIDE DEF D, d
    <3> QED BY <1>1, <1>4, <2>1, AppendProperties
  <2>3. ASSUME NEW i \in DOMAIN firsts'
        PROVE  /\ FirstAt(firsts'[i].turn, firsts'[i].first)
               /\ Follows(firsts'[i].turn, turn', Len(firsts') + 1 - i)
    <3>1. CASE i = n
      <4>1. firsts'[i] = d /\ Len(firsts') + 1 - i = 0 + 1
        BY <1>4, <2>2, <3>1
      <4>2. Follows(turn, turn', 0 + 1)
        BY <1>1, <1>2, FollowsNext
      <4> QED BY <1>7, <4>1, <4>2, FirstIsFirst
    <3>2. CASE i # n
      <4>1. i \in DOMAIN firsts /\ n - i \in Nat
        BY <1>4, <2>2, <3>2
      <4>2. Follows(firsts[i].turn, turn, n - i) /\ FirstAt(firsts[i].turn, firsts[i].first)
        BY <4>1 DEF Remembered
      <4>3. Follows(firsts[i].turn, turn', n - i + 1)
        <5> HIDE DEF n
        <5> QED BY <1>1, <1>2, <1>5, <4>1, <4>2, FollowsNext
      <4>4. Len(firsts') + 1 - i = n - i + 1
        BY <1>4, <2>2, <4>1
      <4> QED BY <2>2, <4>1, <4>2, <4>3, <4>4
    <3> QED BY <3>1, <3>2
  <2>4. ASSUME NEW i \in DOMAIN firsts', NEW j \in DOMAIN firsts', i < j
        PROVE  Follows(firsts'[i].turn, firsts'[j].turn, j - i)
    <3>1. i \in DOMAIN firsts
      BY <1>4, <2>2, <2>4
    <3>2. CASE j = n
      <4>1. Follows(firsts[i].turn, turn, n - i)
        BY <3>1 DEF Remembered
      <4> QED BY <2>2, <3>1, <3>2, <4>1
    <3>3. CASE j # n
      <4>1. j \in DOMAIN firsts
        BY <1>4, <2>2, <3>3
      <4> QED BY <2>2, <2>4, <3>1, <4>1 DEF Remembered
    <3> QED BY <3>2, <3>3
  <2>5. \A i \in DOMAIN firsts' :
            /\ FirstAt(firsts'[i].turn, firsts'[i].first)
            /\ Follows(firsts'[i].turn, turn', Len(firsts') + 1 - i)
    BY <2>3
  <2>6. \A i, j \in DOMAIN firsts' :
            i < j => Follows(firsts'[i].turn, firsts'[j].turn, j - i)
    BY <2>4
  <2> HIDE DEF d, n
  <2> QED BY <1>2, <1>7, <2>5, <2>6 DEF Remembered, FirstAt, Effective, Follows
<1> QED BY <1>6, <1>7

LEMMA RememberedKept == TypeOK /\ Remembered /\ [Next]_vars => Remembered'
<1> SUFFICES ASSUME TypeOK, Remembered, [Next]_vars PROVE Remembered'
  OBVIOUS
<1>1. CASE Decide
  BY <1>1, RememberedDecides
<1>2. CASE firsts' = <<>>
  BY <1>2, RememberedForgotten
<1>3. CASE UNCHANGED vars
  BY <1>3 DEF vars, Remembered, FirstAt, Follows, Effective
<1> QED BY <1>1, <1>2, <1>3 DEF Next, Install, Poll, Begin, End, MarkFailed, MarkHealthy

\* Two remembered decisions of one turn of the run differ.
LEMMA RememberedDiffer == TypeOK /\ Remembered => TiesTakeTurns
<1> DEFINE g == Cardinality(Tied(members, cooling, Effective, Order[1]))
<1> SUFFICES ASSUME TypeOK, Remembered, members # {},
                    NEW i \in DOMAIN firsts, NEW j \in DOMAIN firsts,
                    i < j, j - i < g, firsts[i].turn <= firsts[j].turn,
                    firsts[i].first = firsts[j].first
             PROVE  FALSE
  BY DEF TiesTakeTurns
<1> DEFINE b == firsts[i].first
           t == firsts[i].turn
           u == firsts[j].turn
<1>1. \A d \in members : Effective[d] \in Int
  <2>1. members \subseteq Backends /\ \A d \in Backends : Effective[d] \in Nat
    BY ViewIsRankable DEF TypeOK
  <2> QED BY <2>1
<1>2. t \in 0..(TurnSpace - 1) /\ u \in 0..(TurnSpace - 1) /\ i \in Nat /\ j \in Nat
  BY EachRemembered
<1>3. t \in Nat /\ u \in Nat /\ TurnSpace \in Nat
  BY <1>2, BalancerConstants
<1>4. FirstAt(t, b) /\ FirstAt(u, b) /\ Follows(t, u, j - i)
  BY DEF Remembered
<1>5. Tied(members, cooling, Effective, b) = Tied(members, cooling, Effective, Order[1])
  <2>1. FirstAt(turn, Order[1])
    BY FirstIsFirst
  <2>2. Ahead(members, cooling, Effective, b) = {}
    BY <1>3, <1>4, ViewIsRankable, FirstPlace DEF FirstAt
  <2>3. Ahead(members, cooling, Effective, Order[1]) = {}
    BY <2>1, ViewIsRankable, FirstPlace DEF FirstAt
  <2> QED BY <1>1, <1>4, <2>1, <2>2, <2>3, BestAreTied DEF FirstAt
<1>6. g \in Nat /\ g <= TurnSpace
  <2>1. Tied(members, cooling, Effective, Order[1]) \subseteq Backends
    BY DEF Tied, TypeOK
  <2>2. g <= Cardinality(Backends) /\ g \in Nat /\ Cardinality(Backends) \in Nat
    BY <2>1, BalancerConstants, FS_Subset, FS_CardinalityType
  <2> QED BY <2>2, BalancerConstants
<1> HIDE DEF g
<1>7. u = t + (j - i)
  BY <1>2, <1>3, <1>4, <1>6 DEF Follows
<1>8. t < u
  BY <1>2, <1>3, <1>7
<1>9. u - t >= g
  BY <1>3, <1>4, <1>5, <1>8, ViewIsRankable, FirstAgain DEF FirstAt, g
<1> QED BY <1>2, <1>3, <1>6, <1>7, <1>9

\* Backends tied for first take turns, however many there are, until the view
\* changes or the counter wraps (the round robin of Hive::candidates).
THEOREM TiesAlternate == Spec => []TiesTakeTurns
<1>1. Init => Remembered
  BY DEF Init, Remembered
<1>2. Spec => []Remembered
  BY <1>1, RememberedKept, BalancerTypeCorrect, PTL DEF Spec
<1> QED BY <1>2, RememberedDiffer, BalancerTypeCorrect, PTL

-----------------------------------------------------------------------------
(* Keys.                                                                    *)

Characters == UNION {ToSet(u) : u \in Urls}

LEMMA UrlsAreSequences == Urls \subseteq Seq(Characters)
<1> SUFFICES ASSUME NEW u \in Urls PROVE u \in Seq(Characters)
  OBVIOUS
<1>1. u \in Seq(ToSet(u)) /\ ToSet(u) \subseteq Characters
  BY ReadersConstants DEF Characters
<1>2. DOMAIN u = 1..Len(u) /\ Len(u) \in Nat /\ \A i \in 1..Len(u) : u[i] \in Characters
  BY <1>1
<1>3. u = [i \in 1..Len(u) |-> u[i]]
  BY <1>1
<1> QED BY <1>2, <1>3

LEMMA EntriesAreSequences ==
    ASSUME NEW n \in Nat, NEW entries \in SeqOf(Urls, n)
    PROVE  entries \in Seq(Seq(Characters))
<1>1. PICK m \in 0..n : entries \in [1..m -> Urls]
  BY DEF SeqOf
<1>2. entries \in [1..m -> Seq(Characters)] /\ m \in Nat
  BY <1>1, UrlsAreSequences
<1> QED BY <1>2

LEMMA NearestKeyKept == NearestKey /\ [ReadersNext]_readersVars => NearestKey'
<1> SUFFICES ASSUME NearestKey, [ReadersNext]_readersVars PROVE NearestKey'
  OBVIOUS
<1>1. CASE UNCHANGED readersVars
  BY <1>1 DEF readersVars, NearestKey
<1>2. CASE ReadersNext
  <2>1. CASE job' = "key" /\ FindKey
    <3>1. PICK entries \in SeqOf(Urls, MaxEntries), url \in Urls :
            /\ given' = [entries |-> entries, url |-> url]
            /\ result' = ForUrl(entries, url)
      BY <2>1 DEF FindKey
    <3>2. entries \in Seq(Seq(Characters)) /\ url \in Seq(Characters)
      BY <3>1, EntriesAreSequences, UrlsAreSequences, ReadersConstants
    <3>3. ForUrl(entries, url) = Nearest(entries, url)
      BY <3>2, ForUrlIsNearest
    <3>4. given'.entries = entries /\ given'.url = url
      BY <3>1
    <3> QED BY <3>1, <3>3, <3>4 DEF NearestKey
  <2>2. CASE job' # "key"
    BY <2>2 DEF NearestKey
  <2> QED BY <1>2, <2>1, <2>2 DEF ReadersNext
<1> QED BY <1>1, <1>2

\* A backend gets the key of the nearest URL on the way up from its own that has
\* one, for any alphabet, any URLs and any number of entries (for_url).
THEOREM KeyOfNearest == ReadersSpec => []NearestKey
<1>1. ReadersInit => NearestKey
  BY DEF ReadersInit, NearestKey
<1> QED BY <1>1, NearestKeyKept, PTL DEF ReadersSpec

-----------------------------------------------------------------------------
(* Merging.                                                                 *)

Endpointlike(e) == {"url", "source", "id", "models", "paths"} \subseteq DOMAIN e

LEMMA MergedFields ==
    ASSUME NEW old, Endpointlike(old), NEW ep
    PROVE  /\ Endpointlike(Merged(old, ep))
           /\ Merged(old, ep).url = old.url
           /\ Merged(old, ep).models = old.models \cup ep.models
           /\ Merged(old, ep).source = IF ep.source = "static" THEN "static" ELSE old.source
           /\ Merged(old, ep).id = IF old.id = Nothing THEN ep.id ELSE old.id
           /\ Merged(old, ep).paths = MergePaths(old.paths, ep.paths)
BY DEF Endpointlike, Merged

\* What KeepsAll says of one URL: e is what the endpoints of There add up to.
AddsUp(e, u, There) ==
    /\ e.url = u
    /\ e.models = UNION {d.models : d \in There}
    /\ \A m \in DOMAIN e.paths : e.paths[m] = UNION {d.paths[m] : d \in {c \in There : m \in DOMAIN c.paths}}
    /\ UNION {DOMAIN d.paths : d \in There} = DOMAIN e.paths
    /\ e.source = "static" <=> \E d \in There : d.source = "static"
    /\ e.id = Nothing <=> \A d \in There : d.id = Nothing

LEMMA KeepsByUrl ==
    ASSUME NEW merged, NEW found
    PROVE  KeepsAll(merged, found) <=>
             /\ DOMAIN merged = {e.url : e \in found}
             /\ \A u \in DOMAIN merged : AddsUp(merged[u], u, {e \in found : e.url = u})
BY DEF KeepsAll, AddsUp

LEMMA FirstAddsUp ==
    ASSUME NEW ep
    PROVE  AddsUp(ep, ep.url, {ep})
<1>1. ASSUME NEW m \in DOMAIN ep.paths
      PROVE  ep.paths[m] = UNION {d.paths[m] : d \in {c \in {ep} : m \in DOMAIN c.paths}}
  <2>1. {c \in {ep} : m \in DOMAIN c.paths} = {ep}
    OBVIOUS
  <2>2. {d.paths[m] : d \in {ep}} = {ep.paths[m]}
    OBVIOUS
  <2> QED BY <2>1, <2>2
<1>2. UNION {DOMAIN d.paths : d \in {ep}} = DOMAIN ep.paths
  OBVIOUS
<1>3. ep.models = UNION {d.models : d \in {ep}}
  OBVIOUS
<1> QED BY <1>1, <1>2, <1>3 DEF AddsUp

LEMMA NextAddsUp ==
    ASSUME NEW old, Endpointlike(old), NEW ep, NEW u, NEW There, AddsUp(old, u, There)
    PROVE  AddsUp(Merged(old, ep), u, There \cup {ep})
<1> DEFINE e == Merged(old, ep)
           All == There \cup {ep}
<1>1. /\ e.url = old.url
      /\ e.models = old.models \cup ep.models
      /\ e.source = IF ep.source = "static" THEN "static" ELSE old.source
      /\ e.id = IF old.id = Nothing THEN ep.id ELSE old.id
      /\ e.paths = MergePaths(old.paths, ep.paths)
  BY MergedFields
<1> HIDE DEF e
<1>2. /\ DOMAIN e.paths = DOMAIN old.paths \cup DOMAIN ep.paths
      /\ \A m \in DOMAIN e.paths :
            e.paths[m] = (IF m \in DOMAIN old.paths THEN old.paths[m] ELSE {})
                            \cup (IF m \in DOMAIN ep.paths THEN ep.paths[m] ELSE {})
  BY <1>1 DEF MergePaths
<1>3. e.models = UNION {d.models : d \in All}
  <2>1. old.models = UNION {d.models : d \in There}
    BY DEF AddsUp
  <2> QED BY <1>1, <2>1
<1>4. UNION {DOMAIN d.paths : d \in All} = DOMAIN e.paths
  <2>1. UNION {DOMAIN d.paths : d \in There} = DOMAIN old.paths
    BY DEF AddsUp
  <2> QED BY <1>2, <2>1
<1>5. ASSUME NEW m \in DOMAIN e.paths
      PROVE  e.paths[m] = UNION {d.paths[m] : d \in {c \in All : m \in DOMAIN c.paths}}
  <2> DEFINE Old == {c \in There : m \in DOMAIN c.paths}
  <2>1. m \in DOMAIN old.paths => old.paths[m] = UNION {d.paths[m] : d \in Old}
    BY DEF AddsUp
  <2>2. m \notin DOMAIN old.paths => Old = {}
    <3>1. UNION {DOMAIN d.paths : d \in There} = DOMAIN old.paths
      BY DEF AddsUp
    <3> QED BY <3>1
  <2>3. (IF m \in DOMAIN old.paths THEN old.paths[m] ELSE {}) = UNION {d.paths[m] : d \in Old}
    BY <2>1, <2>2
  <2>4. CASE m \in DOMAIN ep.paths
    <3>1. {c \in All : m \in DOMAIN c.paths} = Old \cup {ep}
      BY <2>4
    <3>2. UNION {d.paths[m] : d \in Old \cup {ep}} = (UNION {d.paths[m] : d \in Old}) \cup ep.paths[m]
      OBVIOUS
    <3>3. e.paths[m] = (IF m \in DOMAIN old.paths THEN old.paths[m] ELSE {}) \cup ep.paths[m]
      BY <1>2, <2>4
    <3> QED BY <2>3, <3>1, <3>2, <3>3
  <2>5. CASE m \notin DOMAIN ep.paths
    <3>1. {c \in All : m \in DOMAIN c.paths} = Old
      BY <2>5
    <3>2. e.paths[m] = (IF m \in DOMAIN old.paths THEN old.paths[m] ELSE {}) \cup {}
      BY <1>2, <2>5
    <3> QED BY <2>3, <3>1, <3>2
  <2> QED BY <2>4, <2>5
<1>6. e.source = "static" <=> \E d \in All : d.source = "static"
  <2>1. old.source = "static" <=> \E d \in There : d.source = "static"
    BY DEF AddsUp
  <2> QED BY <1>1, <2>1
<1>7. e.id = Nothing <=> \A d \in All : d.id = Nothing
  <2>1. old.id = Nothing <=> \A d \in There : d.id = Nothing
    BY DEF AddsUp
  <2> QED BY <1>1, <2>1
<1>8. e.url = u
  BY <1>1 DEF AddsUp
<1> QED BY <1>3, <1>4, <1>5, <1>6, <1>7, <1>8 DEF AddsUp, e

LEMMA AddKeepsAll ==
    ASSUME NEW by, NEW found, KeepsAll(by, found), \A u \in DOMAIN by : Endpointlike(by[u]),
           NEW ep, Endpointlike(ep)
    PROVE  /\ KeepsAll(Add(by, ep), found \cup {ep})
           /\ \A u \in DOMAIN Add(by, ep) : Endpointlike(Add(by, ep)[u])
<1> DEFINE new == Add(by, ep)
           There(u) == {e \in found : e.url = u}
           All(u) == {e \in found \cup {ep} : e.url = u}
<1>1. /\ DOMAIN new = DOMAIN by \cup {ep.url}
      /\ \A u \in DOMAIN new : u # ep.url => new[u] = by[u]
      /\ ep.url \in DOMAIN by => new[ep.url] = Merged(by[ep.url], ep)
      /\ ep.url \notin DOMAIN by => new[ep.url] = ep
  BY DEF Add
<1>2. /\ DOMAIN by = {e.url : e \in found}
      /\ \A u \in DOMAIN by : AddsUp(by[u], u, There(u))
  BY KeepsByUrl
<1> HIDE DEF new
<1>3. DOMAIN new = {e.url : e \in found \cup {ep}}
  BY <1>1, <1>2
<1>4. ASSUME NEW u \in DOMAIN new
      PROVE  AddsUp(new[u], u, All(u)) /\ Endpointlike(new[u])
  <2>1. CASE u # ep.url
    <3>1. All(u) = There(u)
      BY <2>1
    <3>2. new[u] = by[u] /\ u \in DOMAIN by
      BY <1>1, <2>1
    <3> QED BY <1>2, <3>1, <3>2
  <2>2. CASE u = ep.url /\ u \in DOMAIN by
    <3>1. All(u) = There(u) \cup {ep}
      BY <2>2
    <3>2. AddsUp(by[u], u, There(u)) /\ Endpointlike(by[u])
      BY <1>2, <2>2
    <3> HIDE DEF All, There
    <3>3. AddsUp(Merged(by[u], ep), u, There(u) \cup {ep}) /\ Endpointlike(Merged(by[u], ep))
      BY <3>2, NextAddsUp, MergedFields
    <3> QED BY <1>1, <2>2, <3>1, <3>3
  <2>3. CASE u = ep.url /\ u \notin DOMAIN by
    <3>1. All(u) = {ep}
      BY <1>2, <2>3
    <3> HIDE DEF All
    <3> QED BY <1>1, <2>3, <3>1, FirstAddsUp
  <2> QED BY <1>1, <2>1, <2>2, <2>3
<1>5. KeepsAll(new, found \cup {ep})
  BY <1>3, <1>4, KeepsByUrl
<1> QED BY <1>4, <1>5 DEF new

\* The map after each endpoint, which MergeEndpoints defines by recursion.
IsByUrl(byUrl, all, n) ==
    byUrl = [k \in 0..n |-> IF k = 0 THEN <<>> ELSE Add(byUrl[k - 1], all[k])]

LEMMA ByUrlExists ==
    ASSUME NEW all, NEW n \in Nat
    PROVE  \E f : IsByUrl(f, all, n)
<1> DEFINE G == {k \in Nat : \E f : IsByUrl(f, all, k)}
<1>1. 0 \in G
  <2> DEFINE f == [l \in 0..0 |-> <<>>]
  <2>1. f = [l \in 0..0 |-> IF l = 0 THEN <<>> ELSE Add(f[l - 1], all[l])]
    OBVIOUS
  <2>2. IsByUrl(f, all, 0)
    BY <2>1 DEF IsByUrl
  <2> QED BY <2>2
<1>2. ASSUME NEW k \in Nat, k \in G PROVE k + 1 \in G
  <2>1. PICK old : IsByUrl(old, all, k)
    BY <1>2
  <2> DEFINE f == [l \in 0..(k + 1) |-> IF l = k + 1 THEN Add(old[k], all[k + 1]) ELSE old[l]]
  <2>2. ASSUME NEW l \in 0..(k + 1)
        PROVE  f[l] = IF l = 0 THEN <<>> ELSE Add(f[l - 1], all[l])
    <3>1. CASE l = k + 1
      <4>1. l # 0 /\ l - 1 = k /\ f[k] = old[k]
        BY <1>2, <3>1
      <4>2. f[l] = Add(old[k], all[k + 1])
        BY <3>1
      <4> HIDE DEF f
      <4> QED BY <3>1, <4>1, <4>2
    <3>2. CASE l # k + 1
      <4>1. l \in 0..k /\ f[l] = old[l] /\ (l # 0 => f[l - 1] = old[l - 1])
        BY <1>2, <3>2
      <4>2. old[l] = IF l = 0 THEN <<>> ELSE Add(old[l - 1], all[l])
        BY <2>1, <4>1 DEF IsByUrl
      <4> HIDE DEF f
      <4> QED BY <4>1, <4>2
    <3> QED BY <3>1, <3>2
  <2>3. f = [l \in 0..(k + 1) |-> f[l]]
    OBVIOUS
  <2> HIDE DEF f
  <2>4. IsByUrl(f, all, k + 1)
    BY <2>2, <2>3 DEF IsByUrl
  <2> QED BY <1>2, <2>4
<1>3. Nat \subseteq G
  <2> HIDE DEF G
  <2> QED BY <1>1, <1>2, EveryNumber
<1> QED BY <1>3

LEMMA MergeKeeps ==
    ASSUME NEW discovered \in Seq(Endpoints), NEW static \in Seq(Endpoints)
    PROVE  KeepsAll(MergeEndpoints(discovered, static), ToSet(discovered \o static))
<1> DEFINE all == discovered \o static
           byUrl == CHOOSE f : IsByUrl(f, all, Len(all))
           Upto(n) == {all[k] : k \in 1..n}
           Good(n) == /\ KeepsAll(byUrl[n], Upto(n))
                      /\ \A u \in DOMAIN byUrl[n] : Endpointlike(byUrl[n][u])
           G == {n \in Nat : n \in 0..Len(all) => Good(n)}
<1>1. MergeEndpoints(discovered, static) = byUrl[Len(all)]
  BY DEF MergeEndpoints, IsByUrl
<1>2. all \in Seq(Endpoints) /\ Len(all) \in Nat /\ DOMAIN all = 1..Len(all)
  <2>1. all \in Seq(Endpoints)
    BY ConcatProperties
  <2> HIDE DEF all
  <2> QED BY <2>1
<1> HIDE DEF all
<1>3. IsByUrl(byUrl, all, Len(all))
  BY <1>2, ByUrlExists
<1> HIDE DEF byUrl
<1>4. \A n \in 0..Len(all) : byUrl[n] = IF n = 0 THEN <<>> ELSE Add(byUrl[n - 1], all[n])
  BY <1>3 DEF IsByUrl
<1>5. Good(0)
  <2>1. byUrl[0] = <<>> /\ Upto(0) = {}
    BY <1>2, <1>4
  <2>2. DOMAIN <<>> = {}
    OBVIOUS
  <2>3. KeepsAll(<<>>, {})
    BY <2>2, KeepsByUrl
  <2> QED BY <2>1, <2>2, <2>3
<1>6. ASSUME NEW n \in 1..Len(all), Good(n - 1) PROVE Good(n)
  <2>1. all[n] \in Endpoints /\ Endpointlike(all[n])
    BY <1>2, ReadersConstants DEF Endpointlike
  <2>2. byUrl[n] = Add(byUrl[n - 1], all[n])
    BY <1>2, <1>4
  <2>3. Upto(n) = Upto(n - 1) \cup {all[n]}
    <3>1. \A k : k \in 1..n <=> k \in 1..(n - 1) \/ k = n
      BY <1>2
    <3> QED BY <3>1
  <2> DEFINE before == byUrl[n - 1]
  <2>4. KeepsAll(before, Upto(n - 1)) /\ \A u \in DOMAIN before : Endpointlike(before[u])
    BY <1>6
  <2> HIDE DEF Upto, before
  <2>5. /\ KeepsAll(Add(before, all[n]), Upto(n - 1) \cup {all[n]})
        /\ \A u \in DOMAIN Add(before, all[n]) : Endpointlike(Add(before, all[n])[u])
    BY <2>1, <2>4, AddKeepsAll
  <2>6. byUrl[n] = Add(before, all[n])
    BY <2>2 DEF before
  <2> QED BY <2>3, <2>5, <2>6
<1>7. ASSUME NEW n \in Nat, n \in G PROVE n + 1 \in G
  <2> SUFFICES ASSUME n + 1 \in 0..Len(all) PROVE Good(n + 1)
    OBVIOUS
  <2>1. n + 1 \in 1..Len(all) /\ (n + 1) - 1 = n /\ n \in 0..Len(all)
    BY <1>2, <1>7
  <2>2. Good(n)
    BY <1>7, <2>1
  <2> HIDE DEF Good
  <2>3. Good((n + 1) - 1)
    BY <2>1, <2>2
  <2> QED BY <1>6, <2>1, <2>3
<1>8. Good(Len(all))
  <2>1. 0 \in G
    BY <1>5
  <2>2. Nat \subseteq G
    <3> HIDE DEF G
    <3> QED BY <1>7, <2>1, EveryNumber
  <2>3. Len(all) \in Nat /\ Len(all) \in 0..Len(all)
    BY <1>2
  <2> QED BY <2>2, <2>3
<1>9. Upto(Len(all)) = ToSet(all)
  BY <1>2 DEF ToSet
<1> QED BY <1>1, <1>8, <1>9 DEF all

LEMMA MergeKept == MergeKeepsAll /\ [ReadersNext]_readersVars => MergeKeepsAll'
<1> SUFFICES ASSUME MergeKeepsAll, [ReadersNext]_readersVars PROVE MergeKeepsAll'
  OBVIOUS
<1>1. CASE UNCHANGED readersVars
  BY <1>1 DEF readersVars, MergeKeepsAll
<1>2. CASE job' = "merge" /\ Merge
  <2>1. PICK discovered \in SeqOf({e \in Endpoints : e.source # "static"}, MaxFound),
             static \in SeqOf({e \in Endpoints : e.source = "static"}, MaxFound) :
          /\ given' = [discovered |-> discovered, static |-> static]
          /\ result' = MergeEndpoints(discovered, static)
    BY <1>2 DEF Merge
  <2>2. ASSUME NEW S \in SUBSET Endpoints, NEW s \in SeqOf(S, MaxFound)
        PROVE  s \in Seq(Endpoints)
    <3>1. PICK n \in 0..MaxFound : s \in [1..n -> S]
      BY <2>2 DEF SeqOf
    <3>2. n \in Nat
      BY ReadersConstants
    <3> QED BY <3>1, <3>2
  <2>3. discovered \in Seq(Endpoints) /\ static \in Seq(Endpoints)
    BY <2>1, <2>2
  <2>4. given'.discovered = discovered /\ given'.static = static
    BY <2>1
  <2>5. KeepsAll(result', ToSet(given'.discovered \o given'.static))
    BY <2>1, <2>3, <2>4, MergeKeeps
  <2> QED BY <2>5 DEF MergeKeepsAll
<1>3. CASE job' # "merge"
  BY <1>3 DEF MergeKeepsAll
<1> QED BY <1>1, <1>2, <1>3 DEF ReadersNext

\* One endpoint for each URL that any finder found, with every model and every
\* route that any of them found there, for any endpoints, however many and in
\* whatever order (merge_endpoints).
THEOREM MergeLosesNothing == ReadersSpec => []MergeKeepsAll
<1>1. ReadersInit => MergeKeepsAll
  BY DEF ReadersInit, MergeKeepsAll
<1> QED BY <1>1, MergeKept, PTL DEF ReadersSpec

-----------------------------------------------------------------------------
(* Forms.  A form is written as one block for each part and its end; which  *)
(* delimiters a body has, and what stands between two, follows from where   *)
(* the blocks begin.                                                        *)

Tokens == {Delimiter, NewLine, Dashes} \cup Heads \cup UNION {ToSet(c) : c \in Contents}

Block(p) == <<Delimiter, NewLine, p.head>> \o Blank \o p.content \o <<NewLine>>

\* What is to be read of a part.
Readable == {[name |-> Header[h].name, file |-> Header[h].file, content |-> c] :
                h \in Heads, c \in Contents}
Piece(p) ==
    IF Header[p.head].name = Nothing THEN <<>>
    ELSE <<[name |-> Header[p.head].name, file |-> Header[p.head].file, content |-> p.content]>>

LEMMA ContentTyped ==
    ASSUME NEW c \in Contents
    PROVE  /\ c \in Seq(Tokens) /\ Len(c) \in Nat
           /\ \A j \in 1..Len(c) : c[j] # Delimiter
<1>1. c \in Seq(ToSet(c)) /\ ToSet(c) \subseteq Tokens /\ Delimiter \notin ToSet(c)
  BY ReadersConstants DEF Tokens, Delimiter
<1>2. Len(c) \in Nat /\ c = [j \in 1..Len(c) |-> c[j]] /\ \A j \in 1..Len(c) : c[j] \in ToSet(c)
  BY <1>1
<1>3. \A j \in 1..Len(c) : c[j] \in Tokens
  BY <1>1, <1>2
<1>4. [j \in 1..Len(c) |-> c[j]] \in Seq(Tokens)
  BY <1>2, <1>3
<1> QED BY <1>1, <1>2, <1>4

Chained(u, s, t) ==
    /\ Len(u) = Len(s) + Len(t)
    /\ \A i \in 1..Len(s) : u[i] = s[i]
    /\ \A i \in 1..Len(t) : u[Len(s) + i] = t[i]

LEMMA ConcatIs ==
    ASSUME NEW X, NEW s \in Seq(X), NEW t \in Seq(X)
    PROVE  s \o t \in Seq(X) /\ Chained(s \o t, s, t)
<1> DEFINE u == s \o t
<1>1. Len(s) \in Nat /\ Len(t) \in Nat
  OBVIOUS
<1>2. u \in Seq(X) /\ Len(u) = Len(s) + Len(t)
      /\ \A i \in 1..(Len(s) + Len(t)) : u[i] = IF i <= Len(s) THEN s[i] ELSE t[i - Len(s)]
  OBVIOUS
<1> HIDE DEF u
<1>3. ASSUME NEW i \in 1..Len(s) PROVE u[i] = s[i]
  <2>1. i \in 1..(Len(s) + Len(t)) /\ i <= Len(s)
    BY <1>1
  <2> QED BY <1>2, <2>1
<1>4. ASSUME NEW i \in 1..Len(t) PROVE u[Len(s) + i] = t[i]
  <2>1. Len(s) + i \in 1..(Len(s) + Len(t)) /\ ~(Len(s) + i <= Len(s)) /\ (Len(s) + i) - Len(s) = i
    BY <1>1
  <2> QED BY <1>2, <2>1
<1> QED BY <1>1, <1>2, <1>3, <1>4 DEF u, Chained

LEMMA BlockIs ==
    ASSUME NEW p \in Parts
    PROVE  /\ p.head \in Heads /\ p.content \in Contents /\ Len(p.content) \in Nat
           /\ Block(p) \in Seq(Tokens)
           /\ Len(Block(p)) = Len(p.content) + 6
           /\ Block(p)[1] = Delimiter /\ Block(p)[2] = NewLine /\ Block(p)[3] = p.head
           /\ Block(p)[4] = NewLine /\ Block(p)[5] = NewLine
           /\ Block(p)[Len(p.content) + 6] = NewLine
           /\ \A j \in 1..Len(p.content) : Block(p)[j + 5] = p.content[j]
           /\ \A j \in 2..(Len(p.content) + 6) : Block(p)[j] # Delimiter
<1> DEFINE c == p.content
           l == Len(c)
           s == <<Delimiter, NewLine, p.head>> \o Blank
           b == (s \o c) \o <<NewLine>>
<1>1. p.head \in Heads /\ c \in Contents
  BY DEF Parts
<1>2. c \in Seq(Tokens) /\ l \in Nat /\ \A j \in 1..l : c[j] # Delimiter
  BY <1>1, ContentTyped
<1>3. p.head \in Tokens /\ Delimiter \in Tokens /\ NewLine \in Tokens
  BY <1>1 DEF Tokens
<1>4. p.head # Delimiter /\ NewLine # Delimiter
  <2>1. Heads \cap {Delimiter, NewLine, Dashes} = {}
    BY ReadersConstants DEF Delimiter, NewLine, Dashes
  <2> QED BY <1>1, <2>1 DEF Delimiter, NewLine
<1>5. Block(p) = b
  BY DEF Block
<1> HIDE DEF c, l
<1>6. s \in Seq(Tokens) /\ Len(s) = 5 /\ s[1] = Delimiter /\ s[2] = NewLine /\ s[3] = p.head
      /\ s[4] = NewLine /\ s[5] = NewLine
  <2> DEFINE x == <<Delimiter, NewLine, p.head>>
  <2>1. x \in Seq(Tokens) /\ Len(x) = 3 /\ x[1] = Delimiter /\ x[2] = NewLine /\ x[3] = p.head
    BY <1>3
  <2>2. Blank \in Seq(Tokens) /\ Len(Blank) = 2 /\ Blank[1] = NewLine /\ Blank[2] = NewLine
    BY <1>3 DEF Blank
  <2> HIDE DEF x
  <2>3. /\ x \o Blank \in Seq(Tokens) /\ Len(x \o Blank) = 3 + 2
        /\ \A i \in 1..3 : (x \o Blank)[i] = x[i]
        /\ \A i \in 1..2 : (x \o Blank)[3 + i] = Blank[i]
    <3>1. x \o Blank \in Seq(Tokens) /\ Chained(x \o Blank, x, Blank)
      BY <2>1, <2>2, ConcatIs
    <3> QED BY <2>1, <2>2, <3>1 DEF Chained
  <2>4. (x \o Blank)[3 + 1] = Blank[1] /\ (x \o Blank)[3 + 2] = Blank[2]
    BY <2>3
  <2>5. s = x \o Blank
    BY DEF x
  <2> HIDE DEF s
  <2> QED BY <2>1, <2>2, <2>3, <2>4, <2>5
<1> DEFINE sc == s \o c
           z == <<NewLine>>
<1>7. z \in Seq(Tokens) /\ Len(z) = 1 /\ z[1] = NewLine
  BY <1>3
<1> HIDE DEF s, z
<1>8. /\ sc \in Seq(Tokens) /\ Len(sc) = 5 + l
      /\ \A j \in 1..5 : sc[j] = s[j]
      /\ \A j \in 1..l : sc[5 + j] = c[j]
  <2>1. sc \in Seq(Tokens) /\ Chained(sc, s, c)
    BY <1>2, <1>6, ConcatIs
  <2> HIDE DEF sc
  <2> QED BY <1>6, <2>1 DEF Chained, l
<1> HIDE DEF sc
<1>9. /\ b \in Seq(Tokens) /\ Len(b) = (5 + l) + 1
      /\ \A j \in 1..(5 + l) : b[j] = sc[j]
      /\ \A j \in 1..1 : b[(5 + l) + j] = z[j]
  <2>1. b = sc \o z
    BY DEF b, sc, z
  <2>2. sc \o z \in Seq(Tokens) /\ Chained(sc \o z, sc, z)
    BY <1>7, <1>8, ConcatIs
  <2> HIDE DEF b
  <2> QED BY <1>7, <1>8, <2>1, <2>2 DEF Chained
<1>10. /\ b \in Seq(Tokens) /\ Len(b) = l + 6
       /\ \A j \in 1..(l + 5) : b[j] = sc[j]
       /\ b[l + 6] = NewLine
  <2>1. (5 + l) + 1 = l + 6 /\ 5 + l = l + 5 /\ 1 \in 1..1
    BY <1>2
  <2> HIDE DEF b
  <2> QED BY <1>7, <1>9, <2>1
<1> HIDE DEF b
<1>11. \A j \in 1..5 : b[j] = s[j]
  <2> SUFFICES ASSUME NEW j \in 1..5 PROVE b[j] = s[j]
    OBVIOUS
  <2>1. j \in 1..(l + 5)
    BY <1>2
  <2> QED BY <1>8, <1>10, <2>1
<1>12. b[1] = Delimiter /\ b[2] = NewLine /\ b[3] = p.head /\ b[4] = NewLine /\ b[5] = NewLine
  BY <1>6, <1>11
<1>13. \A j \in 1..l : b[j + 5] = c[j]
  <2> SUFFICES ASSUME NEW j \in 1..l PROVE b[j + 5] = c[j]
    OBVIOUS
  <2>1. j + 5 \in 1..(l + 5) /\ 5 + j = j + 5
    BY <1>2
  <2> QED BY <1>8, <1>10, <2>1
<1>14. ASSUME NEW j \in 2..(l + 6) PROVE b[j] # Delimiter
  <2>1. CASE j <= 5
    <3>1. j \in 2..5
      BY <1>2, <1>14, <2>1
    <3> QED BY <1>4, <1>12, <3>1
  <2>2. CASE j > 5 /\ j < l + 6
    <3>1. j - 5 \in 1..l /\ (j - 5) + 5 = j
      BY <1>2, <1>14, <2>2
    <3>2. b[j] = c[j - 5] /\ c[j - 5] # Delimiter
      BY <1>2, <1>13, <3>1
    <3> QED BY <3>2
  <2>3. CASE j = l + 6
    BY <1>4, <1>10, <2>3
  <2> QED BY <1>2, <1>14, <2>1, <2>2, <2>3
<1> QED BY <1>1, <1>2, <1>5, <1>10, <1>12, <1>13, <1>14 DEF c, l

\* What stands between two delimiters is read as the part that was written there.
LEMMA PartIsRead ==
    ASSUME NEW p \in Parts
    PROVE  PartOf([j \in 1..(Len(p.content) + 5) |-> Block(p)[j + 1]]) = Piece(p)
<1> DEFINE c == p.content
           l == Len(c)
           b == Block(p)
           s == [j \in 1..(l + 5) |-> b[j + 1]]
           t == [j \in 1..(l + 4) |-> b[j + 2]]
           raw == [j \in 1..(l + 3) |-> b[j + 2]]
<1>1. /\ p.head \in Heads /\ c \in Contents /\ l \in Nat
      /\ b \in Seq(Tokens) /\ Len(b) = l + 6
      /\ b[2] = NewLine /\ b[3] = p.head /\ b[4] = NewLine /\ b[5] = NewLine
      /\ b[l + 6] = NewLine
      /\ \A j \in 1..l : b[j + 5] = c[j]
  BY BlockIs
<1>2. c \in Seq(Tokens) /\ c = [j \in 1..l |-> c[j]]
  BY <1>1, ContentTyped
<1> HIDE DEF c, l, b
<1>3. s \in Seq(Tokens) /\ t \in Seq(Tokens) /\ raw \in Seq(Tokens)
  <2>1. \A j \in 1..(l + 6) : b[j] \in Tokens
    BY <1>1
  <2>2. \A j \in 1..(l + 5) : b[j + 1] \in Tokens
    <3> SUFFICES ASSUME NEW j \in 1..(l + 5) PROVE b[j + 1] \in Tokens
      OBVIOUS
    <3>1. j + 1 \in 1..(l + 6)
      BY <1>1
    <3> QED BY <2>1, <3>1
  <2>3. \A j \in 1..(l + 4) : b[j + 2] \in Tokens
    <3> SUFFICES ASSUME NEW j \in 1..(l + 4) PROVE b[j + 2] \in Tokens
      OBVIOUS
    <3>1. j + 2 \in 1..(l + 6)
      BY <1>1
    <3> QED BY <2>1, <3>1
  <2>4. \A j \in 1..(l + 3) : b[j + 2] \in Tokens
    BY <1>1, <2>3
  <2> QED BY <1>1, <2>2, <2>3, <2>4
<1>4. StripPrefix(s) = t
  <2>1. Len(s) = l + 5 /\ s # <<>> /\ Head(s) = NewLine
    BY <1>1, <1>3
  <2>2. Tail(s) = t
    <3>1. Tail(s) = [j \in 1..((l + 5) - 1) |-> s[j + 1]]
      BY <1>1, <1>3, <2>1
    <3>2. (l + 5) - 1 = l + 4
      BY <1>1
    <3>3. \A j \in 1..(l + 4) : s[j + 1] = b[j + 2]
      <4> SUFFICES ASSUME NEW j \in 1..(l + 4) PROVE s[j + 1] = b[j + 2]
        OBVIOUS
      <4>1. j + 1 \in 1..(l + 5) /\ (j + 1) + 1 = j + 2
        BY <1>1
      <4> QED BY <4>1
    <3> HIDE DEF s
    <3> QED BY <3>1, <3>2, <3>3
  <2> QED BY <2>1, <2>2 DEF StripPrefix
<1>5. StripSuffix(t) = raw
  <2>1. Len(t) = l + 4 /\ t # <<>>
    <3>1. Len(t) = l + 4
      BY <1>1
    <3>2. l + 4 # 0 /\ Len(<<>>) = 0
      BY <1>1
    <3> QED BY <3>1, <3>2
  <2>2. Last(t) = NewLine
    <3>1. l + 4 \in 1..(l + 4) /\ (l + 4) + 2 = l + 6
      BY <1>1
    <3>2. t[l + 4] = b[l + 6]
      BY <3>1
    <3> QED BY <1>1, <2>1, <3>2 DEF Last
  <2>3. Front(t) = raw
    <3>1. Front(t) = SubSeq(t, 1, (l + 4) - 1)
      BY <2>1 DEF Front
    <3>2. (l + 4) - 1 = l + 3
      BY <1>1
    <3>3. SubSeq(t, 1, l + 3) = [j \in 1..(l + 3) |-> t[j]]
      BY <1>1, <1>3, <2>1
    <3>4. \A j \in 1..(l + 3) : t[j] = b[j + 2]
      BY <1>1
    <3> HIDE DEF t
    <3> QED BY <3>1, <3>2, <3>3, <3>4
  <2> QED BY <2>1, <2>2, <2>3 DEF StripSuffix
<1>6. Len(raw) = l + 3 /\ \A j \in 1..(l + 3) : raw[j] = b[j + 2]
  BY <1>1
<1>7. raw[1] = p.head /\ raw[2] = NewLine /\ raw[3] = NewLine
  <2>1. raw[1] = b[1 + 2] /\ raw[2] = b[2 + 2] /\ raw[3] = b[3 + 2]
    BY <1>1, <1>6
  <2> QED BY <1>1, <2>1
<1> HIDE DEF s, t, raw
<1> DEFINE blank == {i \in 1..(Len(raw) - 1) : SubSeq(raw, i, i + 1) = Blank}
           split == Min(blank)
           heads == {i \in 1..(split - 1) : raw[i] \in Heads}
<1>8. p.head # NewLine
  BY <1>1, ReadersConstants DEF NewLine
<1>9. \A i \in 1..(l + 2) : SubSeq(raw, i, i + 1) = <<raw[i], raw[i + 1]>>
  <2> SUFFICES ASSUME NEW i \in 1..(l + 2) PROVE SubSeq(raw, i, i + 1) = <<raw[i], raw[i + 1]>>
    OBVIOUS
  <2>1. i \in 1..Len(raw) /\ i + 1 \in 1..Len(raw) /\ (i + 1) - i + 1 = 2
    BY <1>1, <1>6
  <2>2. SubSeq(raw, i, i + 1) = [k \in 1..2 |-> raw[i + k - 1]]
    BY <1>3, <2>1
  <2>3. i + 1 - 1 = i /\ i + 2 - 1 = i + 1
    OBVIOUS
  <2>4. [k \in 1..2 |-> raw[i + k - 1]] = <<raw[i + 1 - 1], raw[i + 2 - 1]>>
    OBVIOUS
  <2> QED BY <2>2, <2>3, <2>4
<1>10. 2 \in blank /\ 1 \notin blank
  <2>1. 1 \in 1..(l + 2) /\ 2 \in 1..(l + 2) /\ Len(raw) - 1 = l + 2
    BY <1>1, <1>6
  <2>2. SubSeq(raw, 2, 3) = <<NewLine, NewLine>> /\ SubSeq(raw, 1, 2) = <<p.head, NewLine>>
    BY <1>7, <1>9, <2>1
  <2> QED BY <1>8, <2>1, <2>2 DEF Blank
<1>11. split = 2
  <2>1. blank \in SUBSET Nat /\ blank # {}
    <3>1. \A i \in 1..(Len(raw) - 1) : i \in Nat
      BY <1>1, <1>6
    <3>2. blank \in SUBSET Nat
      BY <3>1
    <3> HIDE DEF blank
    <3> QED BY <1>10, <3>2
  <2>2. split \in blank /\ \A i \in blank : split <= i
    <3> HIDE DEF blank
    <3> QED BY <2>1, LeastIs
  <2>3. split # 0
    <3>1. 0 \notin blank
      BY <1>1, <1>6
    <3> HIDE DEF blank
    <3> QED BY <2>2, <3>1
  <2>4. split \in Nat /\ split <= 2 /\ split # 1
    <3> HIDE DEF blank
    <3> QED BY <1>10, <2>1, <2>2
  <2> HIDE DEF split
  <2> QED BY <2>3, <2>4
<1>12. heads = {1}
  <2>1. 1..(split - 1) = {1}
    <3> HIDE DEF split
    <3> QED BY <1>11
  <2> QED BY <1>1, <1>7, <2>1
<1>13. Min(heads) = 1
  <2>1. Min({1}) \in {1}
    BY LeastIs
  <2> QED BY <1>12, <2>1
<1>14. SubSeq(raw, split + 2, Len(raw)) = c
  <2>1. split + 2 = 4
    BY <1>11
  <2>2. SubSeq(raw, 4, l + 3) = [j \in 1..l |-> raw[j + 3]]
    BY <1>1, <1>3, <1>6
  <2>3. \A j \in 1..l : raw[j + 3] = c[j]
    <3> SUFFICES ASSUME NEW j \in 1..l PROVE raw[j + 3] = c[j]
      OBVIOUS
    <3>1. j + 3 \in 1..(l + 3) /\ (j + 3) + 2 = j + 5
      BY <1>1
    <3> QED BY <1>1, <1>6, <3>1
  <2>4. [j \in 1..l |-> raw[j + 3]] = c
    BY <1>2, <2>3
  <2> QED BY <1>6, <2>1, <2>2, <2>4
<1>15. PartOf(s) = IF blank = {} \/ heads = {} \/ Header[raw[Min(heads)]].name = Nothing THEN <<>>
                   ELSE <<[name |-> Header[raw[Min(heads)]].name, file |-> Header[raw[Min(heads)]].file,
                           content |-> SubSeq(raw, split + 2, Len(raw))]>>
  BY <1>4, <1>5 DEF PartOf
<1>16. blank # {} /\ heads # {} /\ raw[Min(heads)] = p.head
  BY <1>7, <1>10, <1>12, <1>13
<1> HIDE DEF blank, split, heads
<1>17. PartOf(s) = Piece(p)
  BY <1>14, <1>15, <1>16 DEF Piece, c
<1> QED BY <1>17 DEF s, b, c, l

\* The first n blocks of a form, and where the delimiter behind them stands.
Blocked(form) == [n \in DOMAIN form |-> Block(form[n])]
Laid(form, n) == Joined(Blocked(form), n)
Behind(form, n) == Len(Laid(form, n)) + 1

LEMMA BlocksTyped ==
    ASSUME NEW form \in Seq(Parts)
    PROVE  /\ Len(form) \in Nat /\ DOMAIN form = 1..Len(form)
           /\ \A n \in 1..Len(form) : form[n] \in Parts
           /\ \A n \in 1..Len(form) : Blocked(form)[n] = Block(form[n])
           /\ \A n \in 1..Len(form) : Block(form[n]) \in Seq(Tokens)
<1>1. Len(form) \in Nat /\ DOMAIN form = 1..Len(form) /\ \A n \in 1..Len(form) : form[n] \in Parts
  OBVIOUS
<1>2. \A n \in 1..Len(form) : Block(form[n]) \in Seq(Tokens)
  BY <1>1, BlockIs
<1>3. \A n \in 1..Len(form) : Blocked(form)[n] = Block(form[n])
  BY <1>1 DEF Blocked
<1> QED BY <1>1, <1>2, <1>3

LEMMA LaidNext ==
    ASSUME NEW form \in Seq(Parts), NEW n \in Nat, n < Len(form)
    PROVE  /\ Laid(form, n) \in Seq(Tokens) /\ Laid(form, n + 1) \in Seq(Tokens)
           /\ Chained(Laid(form, n + 1), Laid(form, n), Block(form[n + 1]))
<1> DEFINE g == Blocked(form)
<1>1. \A j \in 1..(n + 1) : g[j] \in Seq(Tokens)
  <2> SUFFICES ASSUME NEW j \in 1..(n + 1) PROVE g[j] \in Seq(Tokens)
    OBVIOUS
  <2>1. j \in 1..Len(form)
    BY BlocksTyped
  <2> QED BY <2>1, BlocksTyped
<1>2. g[n + 1] = Block(form[n + 1]) /\ g[n + 1] \in Seq(Tokens)
  <2>1. n + 1 \in 1..Len(form) /\ n + 1 \in 1..(n + 1)
    BY BlocksTyped
  <2> QED BY <1>1, <2>1, BlocksTyped
<1> HIDE DEF g
<1>3. Joined(g, n) \in Seq(Tokens) /\ Joined(g, n + 1) = Joined(g, n) \o g[n + 1]
  BY <1>1, JoinedNext
<1>4. /\ Joined(g, n) \o g[n + 1] \in Seq(Tokens)
      /\ Chained(Joined(g, n) \o g[n + 1], Joined(g, n), g[n + 1])
  BY <1>2, <1>3, ConcatIs
<1> QED BY <1>2, <1>3, <1>4 DEF Laid, g

\* Blocks keep their places, and delimiters stand where they begin.
Marked(form, n) ==
    /\ Laid(form, n) \in Seq(Tokens)
    /\ \A m \in 0..(n - 1) : Behind(form, m) < Behind(form, n)
    /\ \A m \in 0..n : \A i \in 1..Len(Laid(form, m)) : Laid(form, n)[i] = Laid(form, m)[i]
    /\ \A i \in 1..Len(Laid(form, n)) :
         Laid(form, n)[i] = Delimiter <=> \E m \in 0..(n - 1) : i = Behind(form, m)

LEMMA MarkedNext ==
    ASSUME NEW form \in Seq(Parts), NEW n \in Nat, n < Len(form), Marked(form, n)
    PROVE  Marked(form, n + 1)
<1> DEFINE L(m) == Laid(form, m)
           b == Block(form[n + 1])
           l == Len(L(n))
           k == Len(b)
<1>1. /\ L(n) \in Seq(Tokens) /\ L(n + 1) \in Seq(Tokens) /\ l \in Nat
      /\ Len(L(n + 1)) = l + k
      /\ \A i \in 1..l : L(n + 1)[i] = L(n)[i]
      /\ \A i \in 1..k : L(n + 1)[l + i] = b[i]
  <2>1. L(n) \in Seq(Tokens) /\ L(n + 1) \in Seq(Tokens) /\ Chained(L(n + 1), L(n), b)
    BY LaidNext
  <2>2. Len(L(n)) \in Nat
    BY <2>1
  <2> QED BY <2>1, <2>2 DEF Chained
<1>2. k \in Nat /\ k >= 6 /\ b[1] = Delimiter /\ \A j \in 2..k : b[j] # Delimiter
  <2>1. form[n + 1] \in Parts
    <3>1. n + 1 \in 1..Len(form)
      BY BlocksTyped
    <3> QED BY <3>1, BlocksTyped
  <2>2. /\ Len(form[n + 1].content) \in Nat
        /\ k = Len(form[n + 1].content) + 6 /\ b[1] = Delimiter
        /\ \A j \in 2..(Len(form[n + 1].content) + 6) : b[j] # Delimiter
    BY <2>1, BlockIs
  <2> HIDE DEF b
  <2> QED BY <2>2
<1>3. /\ \A m \in 0..(n - 1) : Len(L(m)) + 1 < l + 1
      /\ \A m \in 0..n : \A i \in 1..Len(L(m)) : L(n)[i] = L(m)[i]
      /\ \A i \in 1..l : L(n)[i] = Delimiter <=> \E m \in 0..(n - 1) : i = Len(L(m)) + 1
  BY DEF Marked, Behind
<1>4. \A m \in 0..n : Len(L(m)) \in Nat /\ Len(L(m)) <= l
  <2> SUFFICES ASSUME NEW m \in 0..n PROVE Len(L(m)) \in Nat /\ Len(L(m)) <= l
    OBVIOUS
  <2>1. CASE m = n
    BY <1>1, <2>1
  <2>2. CASE m # n
    <3>1. m \in 0..(n - 1) /\ m \in Nat /\ m < Len(form)
      BY <2>2, BlocksTyped
    <3>2. L(m) \in Seq(Tokens)
      BY <3>1, LaidNext
    <3>3. Len(L(m)) \in Nat
      BY <3>2
    <3> HIDE DEF L, l
    <3> QED BY <1>1, <1>3, <3>1, <3>3
  <2> QED BY <2>1, <2>2
<1> HIDE DEF L, l, b, k
<1>5. Len(L(n)) = l
  BY DEF l
<1>6. ASSUME NEW m \in 0..n PROVE Len(L(m)) + 1 < Len(L(n + 1)) + 1
  BY <1>1, <1>2, <1>4
<1>7. ASSUME NEW m \in 0..(n + 1), NEW i \in 1..Len(L(m)) PROVE L(n + 1)[i] = L(m)[i]
  <2>1. CASE m = n + 1
    BY <2>1
  <2>2. CASE m # n + 1
    <3>1. m \in 0..n
      BY <2>2
    <3>2. i \in 1..l
      BY <1>1, <1>4, <3>1
    <3> QED BY <1>1, <1>3, <3>1, <3>2
  <2> QED BY <2>1, <2>2
<1>8. ASSUME NEW i \in 1..Len(L(n + 1))
      PROVE  L(n + 1)[i] = Delimiter <=> \E m \in 0..n : i = Len(L(m)) + 1
  <2>1. CASE i <= l
    <3>1. i \in 1..l
      BY <1>1, <2>1
    <3>2. L(n + 1)[i] = Delimiter <=> \E m \in 0..(n - 1) : i = Len(L(m)) + 1
      BY <1>1, <1>3, <3>1
    <3>3. i # Len(L(n)) + 1
      BY <1>1, <1>5, <3>1
    <3>4. \A m \in 0..n : m \in 0..(n - 1) \/ m = n
      OBVIOUS
    <3>5. \A m \in 0..(n - 1) : m \in 0..n
      OBVIOUS
    <3> QED BY <3>2, <3>3, <3>4, <3>5
  <2>2. CASE i > l
    <3>1. i - l \in 1..k /\ l + (i - l) = i
      BY <1>1, <1>2, <2>2
    <3>2. L(n + 1)[i] = b[i - l]
      BY <1>1, <3>1
    <3>3. b[i - l] = Delimiter <=> i - l = 1
      BY <1>2, <3>1
    <3>4. i - l = 1 <=> i = l + 1
      BY <1>1, <1>2
    <3>5. n \in 0..n
      OBVIOUS
    <3>6. (\E m \in 0..n : i = Len(L(m)) + 1) <=> i = l + 1
      <4>1. \A m \in 0..n : i = Len(L(m)) + 1 => i = l + 1
        <5> SUFFICES ASSUME NEW m \in 0..n, i = Len(L(m)) + 1 PROVE i = l + 1
          OBVIOUS
        <5>1. Len(L(m)) \in Nat /\ Len(L(m)) <= l
          BY <1>4
        <5> QED BY <1>1, <2>2, <5>1
      <4> QED BY <1>5, <3>5, <4>1
    <3> QED BY <3>2, <3>3, <3>4, <3>6
  <2> QED BY <1>1, <1>2, <2>1, <2>2
<1>9. (n + 1) - 1 = n
  OBVIOUS
<1> QED BY <1>1, <1>6, <1>7, <1>8, <1>9 DEF Marked, Behind, L

LEMMA AllMarked ==
    ASSUME NEW form \in Seq(Parts), NEW n \in 0..Len(form)
    PROVE  Marked(form, n)
<1> DEFINE G == {m \in Nat : m <= Len(form) => Marked(form, m)}
<1>1. 0 \in G
  <2>1. Laid(form, 0) = <<>> /\ <<>> \in Seq(Tokens) /\ Len(<<>>) = 0
    BY JoinedNone DEF Laid
  <2>2. \A m \in 0..0 : m = 0
    OBVIOUS
  <2>3. \A m \in 0..(0 - 1) : FALSE
    OBVIOUS
  <2>4. \A i \in 1..0 : FALSE
    OBVIOUS
  <2>5. Marked(form, 0)
    BY <2>1, <2>2, <2>3, <2>4 DEF Marked
  <2> QED BY <2>5
<1>2. ASSUME NEW m \in Nat, m \in G PROVE m + 1 \in G
  <2> SUFFICES ASSUME m + 1 <= Len(form) PROVE Marked(form, m + 1)
    OBVIOUS
  <2>1. m < Len(form) /\ m <= Len(form)
    BY BlocksTyped
  <2>2. Marked(form, m)
    BY <1>2, <2>1
  <2> QED BY <2>1, <2>2, MarkedNext
<1>3. Nat \subseteq G
  <2> HIDE DEF G
  <2> QED BY <1>1, <1>2, EveryNumber
<1>4. n \in Nat /\ n <= Len(form)
  BY BlocksTyped
<1> QED BY <1>3, <1>4

Closing == <<Delimiter, Dashes, NewLine>>

LEMMA WrittenIs ==
    ASSUME NEW form \in Seq(Parts)
    PROVE  Written(form) = Laid(form, Len(form)) \o Closing
<1>1. Len(form) \in Nat /\ DOMAIN form = 1..Len(form)
      /\ \A n \in 1..Len(form) : Blocked(form)[n] = Block(form[n])
  BY BlocksTyped
<1>2. Written(form) = FlattenSeq([n \in DOMAIN form |-> Block(form[n])]) \o Closing
  BY DEF Written, Block, Closing
<1>3. [n \in DOMAIN form |-> Block(form[n])] = [n \in 1..Len(form) |-> Blocked(form)[n]]
  BY <1>1
<1> QED BY <1>2, <1>3 DEF Laid, Joined

\* The first n parts are written in as many tokens as come before the delimiter
\* behind them, and the end.
LEMMA WrittenFirst ==
    ASSUME NEW form \in Seq(Parts), NEW n \in 1..Len(form)
    PROVE  Len(Written(SubSeq(form, 1, n))) = Behind(form, n) + 2
<1> DEFINE f == SubSeq(form, 1, n)
<1>1. n \in Nat /\ n <= Len(form) /\ Len(form) \in Nat
  OBVIOUS
<1>2. f \in Seq(Parts) /\ Len(f) = n /\ \A i \in 1..n : f[i] = form[i]
  BY <1>1
<1> HIDE DEF f
<1>3. \A i \in 1..n : Blocked(f)[i] = Blocked(form)[i]
  <2> SUFFICES ASSUME NEW i \in 1..n PROVE Blocked(f)[i] = Blocked(form)[i]
    OBVIOUS
  <2>1. i \in 1..Len(form) /\ i \in 1..Len(f)
    BY <1>1, <1>2
  <2>2. Blocked(f)[i] = Block(f[i])
    BY <1>2, <2>1, BlocksTyped
  <2>3. Blocked(form)[i] = Block(form[i])
    BY <2>1, BlocksTyped
  <2> QED BY <1>2, <2>2, <2>3
<1>4. Laid(f, n) = Laid(form, n)
  <2>1. [i \in 1..n |-> Blocked(f)[i]] = [i \in 1..n |-> Blocked(form)[i]]
    BY <1>3
  <2> QED BY <2>1 DEF Laid, Joined
<1>5. Laid(form, n) \in Seq(Tokens)
  <2>1. n \in 0..Len(form)
    BY <1>1
  <2>2. Marked(form, n)
    BY <2>1, AllMarked
  <2> QED BY <2>2 DEF Marked
<1>6. Closing \in Seq(Tokens) /\ Len(Closing) = 3
  BY DEF Closing, Tokens
<1>7. Written(f) = Laid(form, n) \o Closing
  BY <1>2, <1>4, WrittenIs
<1>8. Chained(Laid(form, n) \o Closing, Laid(form, n), Closing)
  BY <1>5, <1>6, ConcatIs
<1>9. Len(Laid(form, n)) \in Nat
  BY <1>5
<1> QED BY <1>6, <1>7, <1>8, <1>9 DEF Chained, Behind, f

\* Where delimiters stand in a form that is written, and what follows them.
Structured(form, w) ==
    /\ w \in Seq(Tokens) /\ Len(w) = Behind(form, Len(form)) + 2
    /\ \A n \in 0..Len(form) : Behind(form, n) \in 1..(Len(w) - 2)
    /\ \A m, n \in 0..Len(form) : m < n => Behind(form, m) < Behind(form, n)
    /\ \A i \in 1..Len(w) : w[i] = Delimiter <=> \E n \in 0..Len(form) : i = Behind(form, n)
    /\ w[Behind(form, Len(form)) + 1] = Dashes
    /\ \A n \in 0..(Len(form) - 1) :
         /\ Behind(form, n + 1) = Behind(form, n) + Len(Block(form[n + 1]))
         /\ \A j \in 1..Len(Block(form[n + 1])) : w[(Behind(form, n) - 1) + j] = Block(form[n + 1])[j]

LEMMA WrittenStructured ==
    ASSUME NEW form \in Seq(Parts)
    PROVE  Structured(form, Written(form))
<1> DEFINE K == Len(form)
           w == Written(form)
           L(n) == Laid(form, n)
           l == Len(L(K))
<1>1. K \in Nat
  OBVIOUS
<1>2. Closing \in Seq(Tokens) /\ Len(Closing) = 3 /\ Closing[1] = Delimiter /\ Closing[2] = Dashes /\ Closing[3] = NewLine
  BY DEF Closing, Tokens
<1>3. Dashes # Delimiter /\ NewLine # Delimiter
  BY DEF Dashes, NewLine, Delimiter
<1>4. \A n \in 0..K : Marked(form, n)
  BY AllMarked
<1>5. \A n \in 0..K : L(n) \in Seq(Tokens)
  BY <1>4 DEF Marked
<1>6. \A n \in 0..K : Len(L(n)) \in Nat
  BY <1>5
<1>7. K \in 0..K
  BY <1>1
<1>8. /\ w \in Seq(Tokens) /\ Len(w) = l + 3
      /\ \A i \in 1..l : w[i] = L(K)[i]
      /\ \A i \in 1..3 : w[l + i] = Closing[i]
  <2>1. L(K) \o Closing \in Seq(Tokens) /\ Chained(L(K) \o Closing, L(K), Closing)
    BY <1>2, <1>5, <1>7, ConcatIs
  <2>2. w = L(K) \o Closing
    BY WrittenIs
  <2> HIDE DEF w
  <2> QED BY <1>2, <2>1, <2>2 DEF Chained
<1>9. w[l + 1] = Delimiter /\ w[l + 2] = Dashes /\ w[l + 3] = NewLine
  BY <1>2, <1>8
<1> HIDE DEF w, K
<1>10. \A n \in 0..K : \A m \in 0..(n - 1) : Len(L(m)) + 1 < Len(L(n)) + 1
  BY <1>4 DEF Marked, Behind
<1>11. \A m, n \in 0..K : m < n => Len(L(m)) + 1 < Len(L(n)) + 1
  <2> SUFFICES ASSUME NEW m \in 0..K, NEW n \in 0..K, m < n PROVE Len(L(m)) + 1 < Len(L(n)) + 1
    OBVIOUS
  <2>1. m \in 0..(n - 1)
    BY <1>1
  <2> QED BY <1>10, <2>1
<1>12. \A i \in 1..l : L(K)[i] = Delimiter <=> \E m \in 0..(K - 1) : i = Len(L(m)) + 1
  BY <1>4, <1>7 DEF Marked, Behind
<1>13. \A m \in 0..K : \A i \in 1..Len(L(m)) : L(K)[i] = L(m)[i]
  BY <1>4, <1>7 DEF Marked
<1>14. \A n \in 0..(K - 1) : Chained(L(n + 1), L(n), Block(form[n + 1])) /\ Len(Block(form[n + 1])) \in Nat
  <2> SUFFICES ASSUME NEW n \in 0..(K - 1)
               PROVE  Chained(L(n + 1), L(n), Block(form[n + 1])) /\ Len(Block(form[n + 1])) \in Nat
    OBVIOUS
  <2>1. n \in Nat /\ n < Len(form) /\ n + 1 \in 1..Len(form)
    BY <1>1 DEF K
  <2>2. Chained(L(n + 1), L(n), Block(form[n + 1]))
    BY <2>1, LaidNext
  <2>3. Block(form[n + 1]) \in Seq(Tokens)
    BY <2>1, BlocksTyped
  <2>4. Len(Block(form[n + 1])) \in Nat
    BY <2>3
  <2> QED BY <2>2, <2>4
<1>15. \A n \in 0..K : Len(L(n)) <= l
  <2> SUFFICES ASSUME NEW n \in 0..K PROVE Len(L(n)) <= l
    OBVIOUS
  <2>1. n < K \/ n = K
    BY <1>1
  <2> HIDE DEF L
  <2> QED BY <1>6, <1>7, <1>11, <2>1
<1> HIDE DEF L
<1>16. l \in Nat
  BY <1>6, <1>7
<1> HIDE DEF l
<1>17. Len(L(K)) = l
  BY DEF l
<1>18. ASSUME NEW i \in 1..Len(w) PROVE w[i] = Delimiter <=> \E n \in 0..K : i = Len(L(n)) + 1
  <2>1. CASE i <= l
    <3>1. i \in 1..l
      BY <1>8, <1>16, <2>1
    <3>2. w[i] = Delimiter <=> \E m \in 0..(K - 1) : i = Len(L(m)) + 1
      BY <1>8, <1>12, <3>1
    <3>3. i # Len(L(K)) + 1
      BY <1>16, <1>17, <3>1
    <3>4. \A m \in 0..K : m \in 0..(K - 1) \/ m = K
      BY <1>1
    <3>5. \A m \in 0..(K - 1) : m \in 0..K
      BY <1>1
    <3> QED BY <3>2, <3>3, <3>4, <3>5
  <2>2. CASE i = l + 1
    BY <1>7, <1>9, <1>17, <2>2
  <2>3. CASE i = l + 2 \/ i = l + 3
    <3>1. w[i] # Delimiter
      BY <1>3, <1>9, <2>3
    <3>2. \A n \in 0..K : i # Len(L(n)) + 1
      <4> SUFFICES ASSUME NEW n \in 0..K PROVE i # Len(L(n)) + 1
        OBVIOUS
      <4>1. Len(L(n)) \in Nat /\ Len(L(n)) <= l
        BY <1>6, <1>15
      <4> QED BY <1>16, <2>3, <4>1
    <3> QED BY <3>1, <3>2
  <2>4. i <= l \/ i = l + 1 \/ i = l + 2 \/ i = l + 3
    BY <1>8, <1>16
  <2> QED BY <2>1, <2>2, <2>3, <2>4
<1>19. ASSUME NEW n \in 0..(K - 1)
       PROVE  /\ Len(L(n + 1)) + 1 = Len(L(n)) + 1 + Len(Block(form[n + 1]))
              /\ \A j \in 1..Len(Block(form[n + 1])) :
                   w[(Len(L(n)) + 1 - 1) + j] = Block(form[n + 1])[j]
  <2>1. n \in 0..K /\ n + 1 \in 0..K
    BY <1>1
  <2> DEFINE a == Len(L(n))
             b == Block(form[n + 1])
             k == Len(b)
  <2>2. a \in Nat /\ k \in Nat /\ Len(L(n + 1)) = a + k /\ \A j \in 1..k : L(n + 1)[a + j] = b[j]
    BY <1>6, <1>14, <2>1 DEF Chained
  <2>3. a + k <= l /\ \A i \in 1..(a + k) : L(K)[i] = L(n + 1)[i]
    BY <1>13, <1>15, <2>1, <2>2
  <2> HIDE DEF b, k, a
  <2>4. ASSUME NEW j \in 1..k PROVE w[(a + 1 - 1) + j] = b[j]
    <3>1. a + j \in 1..(a + k) /\ a + j \in 1..l /\ (a + 1 - 1) + j = a + j
      BY <1>16, <2>2, <2>3
    <3> QED BY <1>8, <2>2, <2>3, <3>1
  <2>5. (a + k) + 1 = a + 1 + k
    BY <2>2
  <2> QED BY <2>2, <2>4, <2>5 DEF a, b, k
<1>20. Len(w) = (l + 1) + 2 /\ w[(l + 1) + 1] = Dashes
  BY <1>8, <1>9, <1>16
<1>21. \A n \in 0..K : Len(L(n)) + 1 \in 1..(Len(w) - 2)
  <2> SUFFICES ASSUME NEW n \in 0..K PROVE Len(L(n)) + 1 \in 1..(Len(w) - 2)
    OBVIOUS
  <2>1. Len(L(n)) \in Nat /\ Len(L(n)) <= l
    BY <1>6, <1>15
  <2> QED BY <1>8, <1>16, <2>1
<1> QED BY <1>8, <1>11, <1>17, <1>18, <1>19, <1>20, <1>21 DEF Structured, Behind, L, K, w

-----------------------------------------------------------------------------
(* As much of a form as has arrived.                                        *)

LEMMA CutIs ==
    ASSUME NEW form \in Seq(Parts), NEW cut \in 0..Len(Written(form))
    PROVE  /\ cut \in Nat /\ SubSeq(Written(form), 1, cut) \in Seq(Tokens)
           /\ Len(SubSeq(Written(form), 1, cut)) = cut
           /\ DOMAIN SubSeq(Written(form), 1, cut) = 1..cut
           /\ \A i \in 1..cut : SubSeq(Written(form), 1, cut)[i] = Written(form)[i]
<1>1. Written(form) \in Seq(Tokens)
  BY WrittenStructured DEF Structured
<1> QED BY <1>1

LEMMA CutMarks ==
    ASSUME NEW form \in Seq(Parts), NEW cut \in 0..Len(Written(form))
    PROVE  Marks(SubSeq(Written(form), 1, cut)) = {i \in 1..cut : \E n \in 0..Len(form) : i = Behind(form, n)}
<1> DEFINE w == Written(form)
           body == SubSeq(w, 1, cut)
           K == Len(form)
           B(n) == Behind(form, n)
           all == {i \in DOMAIN body : body[i] = Delimiter}
           closing == {i \in all : i < Len(body) /\ body[i + 1] = Dashes}
<1>1. cut \in Nat /\ Len(body) = cut /\ DOMAIN body = 1..cut /\ \A i \in 1..cut : body[i] = w[i]
  BY CutIs
<1>2. /\ Len(w) \in Nat /\ cut <= Len(w) /\ K \in Nat
      /\ \A n \in 0..K : B(n) \in 1..(Len(w) - 2)
      /\ \A m, n \in 0..K : m < n => B(m) < B(n)
      /\ \A i \in 1..Len(w) : w[i] = Delimiter <=> \E n \in 0..K : i = B(n)
      /\ \A n \in 0..(K - 1) : \A j \in 1..Len(Block(form[n + 1])) :
            w[(B(n) - 1) + j] = Block(form[n + 1])[j]
  <2>1. Structured(form, w)
    BY WrittenStructured
  <2>2. Len(w) \in Nat
    BY <2>1 DEF Structured
  <2>3. cut <= Len(w) /\ K \in Nat
    BY <2>2
  <2> HIDE DEF w
  <2> QED BY <2>1, <2>2, <2>3 DEF Structured
<1> HIDE DEF w, body, B
<1>3. all = {i \in 1..cut : \E n \in 0..K : i = B(n)}
  <2> SUFFICES ASSUME NEW i \in 1..cut PROVE body[i] = Delimiter <=> \E n \in 0..K : i = B(n)
    BY <1>1
  <2>1. i \in 1..Len(w)
    BY <1>1, <1>2
  <2> QED BY <1>1, <1>2, <2>1
<1>4. ASSUME NEW c \in closing PROVE c = B(K)
  <2>1. c \in all /\ c < cut /\ body[c + 1] = Dashes
    BY <1>1
  <2>2. PICK n \in 0..K : c = B(n) /\ c \in 1..cut
    BY <1>3, <2>1
  <2> HIDE DEF all, closing
  <2>3. CASE n = K
    BY <2>2, <2>3
  <2>4. CASE n # K
    <3>1. n \in 0..(K - 1) /\ n + 1 \in 1..Len(form)
      BY <1>2, <2>4
    <3>2. form[n + 1] \in Parts
      BY <3>1, BlocksTyped
    <3>3. Block(form[n + 1])[2] = NewLine /\ 2 \in 1..Len(Block(form[n + 1]))
      <4>1. Len(form[n + 1].content) \in Nat /\ Len(Block(form[n + 1])) = Len(form[n + 1].content) + 6
            /\ Block(form[n + 1])[2] = NewLine
        BY <3>2, BlockIs
      <4> QED BY <4>1
    <3>4. w[(B(n) - 1) + 2] = NewLine
      BY <1>2, <3>1, <3>3
    <3>5. (B(n) - 1) + 2 = c + 1 /\ c + 1 \in 1..cut
      BY <1>1, <2>1, <2>2
    <3>6. body[c + 1] = NewLine
      BY <1>1, <3>4, <3>5
    <3> QED BY <2>1, <3>6 DEF NewLine, Dashes
  <2> QED BY <2>3, <2>4
<1>5. \A i \in all : \A c \in closing : i <= c
  <2> SUFFICES ASSUME NEW i \in all, NEW c \in closing PROVE i <= c
    OBVIOUS
  <2>1. PICK n \in 0..K : i = B(n)
    BY <1>3
  <2>2. c = B(K)
    BY <1>4
  <2>3. n < K \/ n = K
    BY <1>2
  <2>4. K \in 0..K /\ B(n) \in Nat /\ B(K) \in Nat
    BY <1>2
  <2> QED BY <1>2, <2>1, <2>2, <2>3, <2>4
<1>6. Marks(body) = all
  BY <1>5 DEF Marks
<1> QED BY <1>3, <1>6 DEF w, body, B, K

\* What Parse makes of the delimiter at i.
Taken(body, i) ==
    LET After == {j \in Marks(body) : j > i}
    IN IF i \notin Marks(body) \/ After = {} THEN <<>>
       ELSE PartOf(SubSeq(body, i + 1, Min(After) - 1))

LEMMA TakenNowhere ==
    ASSUME NEW form \in Seq(Parts), NEW cut \in 0..Len(Written(form)), NEW i \in 1..cut,
           \A n \in 0..(Len(form) - 1) : i # Behind(form, n)
    PROVE  Taken(SubSeq(Written(form), 1, cut), i) = <<>>
<1> DEFINE body == SubSeq(Written(form), 1, cut)
           K == Len(form)
<1>1. Marks(body) = {j \in 1..cut : \E n \in 0..K : j = Behind(form, n)}
  BY CutMarks
<1> HIDE DEF body
<1>2. CASE i \notin Marks(body)
  BY <1>2 DEF Taken, body
<1>3. CASE i \in Marks(body)
  <2>1. K \in Nat /\ \A n \in 0..K : n \in 0..(K - 1) \/ n = K
    BY BlocksTyped
  <2>2. i = Behind(form, K)
    BY <1>1, <1>3, <2>1
  <2>3. /\ \A m, n \in 0..K : m < n => Behind(form, m) < Behind(form, n)
        /\ \A n \in 0..K : Behind(form, n) \in 1..(Len(Written(form)) - 2)
    BY WrittenStructured DEF Structured
  <2>4. \A n \in 0..K : Behind(form, n) \in Int
    BY <2>3
  <2>5. ASSUME NEW j \in Marks(body), j > i PROVE FALSE
    <3>1. PICK n \in 0..K : j = Behind(form, n)
      BY <1>1, <2>5
    <3>2. n < K \/ n = K
      BY <2>1
    <3>3. K \in 0..K /\ Behind(form, n) \in Int /\ Behind(form, K) \in Int
      BY <2>1, <2>4
    <3> QED BY <2>2, <2>3, <2>5, <3>1, <3>2, <3>3
  <2>6. {j \in Marks(body) : j > i} = {}
    BY <2>5
  <2> QED BY <2>6 DEF Taken, body
<1> QED BY <1>2, <1>3

LEMMA TakenAt ==
    ASSUME NEW form \in Seq(Parts), NEW cut \in 0..Len(Written(form)),
           NEW n \in 0..(Len(form) - 1), Behind(form, n) <= cut
    PROVE  Taken(SubSeq(Written(form), 1, cut), Behind(form, n)) =
               IF Behind(form, n + 1) > cut THEN <<>> ELSE Piece(form[n + 1])
<1> DEFINE w == Written(form)
           body == SubSeq(w, 1, cut)
           K == Len(form)
           B(m) == Behind(form, m)
           b == Block(form[n + 1])
           k == Len(b)
           After == {j \in Marks(body) : j > B(n)}
<1>1. /\ cut \in Nat /\ body \in Seq(Tokens) /\ Len(body) = cut
      /\ DOMAIN body = 1..cut /\ \A i \in 1..cut : body[i] = w[i]
  BY CutIs
<1>2. Marks(body) = {j \in 1..cut : \E m \in 0..K : j = B(m)}
  BY CutMarks
<1>3. K \in Nat /\ n \in 0..K /\ n + 1 \in 0..K /\ n + 1 \in 1..K /\ n \in Nat
  BY BlocksTyped
<1>4. /\ \A m \in 0..K : B(m) \in 1..(Len(w) - 2)
      /\ \A m, o \in 0..K : m < o => B(m) < B(o)
      /\ B(n + 1) = B(n) + k
      /\ \A j \in 1..k : w[(B(n) - 1) + j] = b[j]
  BY WrittenStructured DEF Structured
<1>5. \A m \in 0..K : B(m) \in Nat /\ B(m) >= 1
  BY <1>4
<1>6. form[n + 1] \in Parts
  BY <1>3, BlocksTyped
<1>7. Len(form[n + 1].content) \in Nat /\ k = Len(form[n + 1].content) + 6
  BY <1>6, BlockIs
<1> HIDE DEF w, body, B, b, k, K
<1>8. B(n) \in Marks(body)
  BY <1>2, <1>3, <1>5 DEF B
<1>9. ASSUME NEW m \in 0..K, B(m) > B(n) PROVE B(m) >= B(n + 1)
  <2>1. m > n
    <3>1. m < n \/ m = n \/ m > n
      BY <1>3
    <3> QED BY <1>3, <1>4, <1>5, <1>9, <3>1
  <2>2. m = n + 1 \/ n + 1 < m
    BY <1>3, <2>1
  <2>3. B(m) \in Nat /\ B(n + 1) \in Nat
    BY <1>3, <1>5
  <2>4. n + 1 < m => B(n + 1) < B(m)
    BY <1>3, <1>4
  <2> QED BY <2>2, <2>3, <2>4
<1>10. CASE B(n + 1) > cut
  <2>1. After = {}
    <3> SUFFICES ASSUME NEW j \in Marks(body), j > B(n) PROVE FALSE
      OBVIOUS
    <3>1. PICK m \in 0..K : j = B(m) /\ j \in 1..cut
      BY <1>2
    <3>2. B(m) >= B(n + 1) /\ B(m) \in Nat /\ B(n + 1) \in Nat
      BY <1>3, <1>5, <1>9, <3>1
    <3> QED BY <1>1, <1>10, <3>1, <3>2
  <2>2. Taken(body, B(n)) = <<>>
    BY <2>1 DEF Taken
  <2> QED BY <1>10, <2>2 DEF body, w, B
<1>11. CASE ~(B(n + 1) > cut)
  <2>1. B(n + 1) \in After
    <3>1. B(n + 1) \in 1..cut /\ B(n + 1) > B(n)
      BY <1>1, <1>3, <1>4, <1>5, <1>11
    <3> QED BY <1>2, <1>3, <3>1
  <2>2. \A j \in After : B(n + 1) <= j
    <3> SUFFICES ASSUME NEW j \in Marks(body), j > B(n) PROVE B(n + 1) <= j
      OBVIOUS
    <3>1. PICK m \in 0..K : j = B(m) /\ j \in 1..cut
      BY <1>2
    <3>2. B(m) >= B(n + 1)
      BY <1>9, <3>1
    <3> QED BY <1>3, <1>5, <3>1, <3>2
  <2>3. After \in SUBSET Nat /\ After # {}
    <3>1. \A j \in Marks(body) : j \in Nat
      BY <1>1, <1>2
    <3> QED BY <2>1, <3>1
  <2>4. Min(After) = B(n + 1)
    <3> HIDE DEF After
    <3>1. Min(After) \in After /\ \A j \in After : Min(After) <= j
      BY <2>3, LeastIs
    <3>2. Min(After) <= B(n + 1) /\ B(n + 1) <= Min(After) /\ Min(After) \in Nat
      BY <2>1, <2>2, <2>3, <3>1
    <3> QED BY <1>3, <1>5, <3>2
  <2>5. Taken(body, B(n)) = PartOf(SubSeq(body, B(n) + 1, B(n + 1) - 1))
    <3>1. Taken(body, B(n)) = IF B(n) \notin Marks(body) \/ After = {} THEN <<>>
                              ELSE PartOf(SubSeq(body, B(n) + 1, Min(After) - 1))
      BY DEF Taken
    <3> HIDE DEF After
    <3> QED BY <1>8, <2>3, <2>4, <3>1
  <2>6. SubSeq(body, B(n) + 1, B(n + 1) - 1) = [j \in 1..(k - 1) |-> b[j + 1]]
    <3> DEFINE x == B(n)
               y == B(n + 1)
    <3>1. x \in Nat /\ x >= 1 /\ y \in Nat /\ y <= cut /\ y = x + k /\ cut \in Nat
      BY <1>1, <1>3, <1>4, <1>5, <1>11
    <3>2. k \in Nat /\ k >= 6
      BY <1>7
    <3>3. \A j \in 1..k : w[(x - 1) + j] = b[j]
      BY <1>4
    <3> HIDE DEF x, y
    <3>4. x + 1 \in 1..(cut + 1) /\ y - 1 \in 0..cut /\ (y - 1) - (x + 1) + 1 = k - 1
      BY <3>1, <3>2
    <3>5. SubSeq(body, x + 1, y - 1) = [j \in 1..((y - 1) - (x + 1) + 1) |-> body[(x + 1) + j - 1]]
      BY <1>1, <3>4
    <3>6. \A j \in 1..(k - 1) : body[(x + 1) + j - 1] = b[j + 1]
      <4> SUFFICES ASSUME NEW j \in 1..(k - 1) PROVE body[(x + 1) + j - 1] = b[j + 1]
        OBVIOUS
      <4>1. (x + 1) + j - 1 \in 1..cut /\ (x - 1) + (j + 1) = (x + 1) + j - 1 /\ j + 1 \in 1..k
        BY <3>1, <3>2
      <4> QED BY <1>1, <3>3, <4>1
    <3>7. SubSeq(body, x + 1, y - 1) = [j \in 1..(k - 1) |-> b[j + 1]]
      BY <3>4, <3>5, <3>6
    <3> QED BY <3>7 DEF x, y
  <2>7. k - 1 = Len(form[n + 1].content) + 5
    BY <1>7
  <2>8. PartOf([j \in 1..(Len(form[n + 1].content) + 5) |-> b[j + 1]]) = Piece(form[n + 1])
    BY <1>6, PartIsRead DEF b
  <2>9. Taken(body, B(n)) = Piece(form[n + 1])
    BY <2>5, <2>6, <2>7, <2>8
  <2> QED BY <1>11, <2>9 DEF body, w, B
<1> QED BY <1>10, <1>11

LEMMA PieceTyped == \A p \in Parts : Piece(p) \in Seq(Readable) /\ <<>> \in Seq(Readable)
<1> SUFFICES ASSUME NEW p \in Parts PROVE Piece(p) \in Seq(Readable) /\ <<>> \in Seq(Readable)
  OBVIOUS
<1>1. p.head \in Heads /\ p.content \in Contents
  BY DEF Parts
<1> DEFINE r == [name |-> Header[p.head].name, file |-> Header[p.head].file, content |-> p.content]
<1>2. r \in Readable
  BY <1>1 DEF Readable
<1> HIDE DEF r
<1>3. <<r>> \in Seq(Readable) /\ <<>> \in Seq(Readable)
  BY <1>2
<1> QED BY <1>3 DEF Piece, r

\* Arrived, part by part.
Came(form, cut) ==
    [n \in 1..Len(form) |-> IF Behind(form, n) > cut THEN <<>> ELSE Piece(form[n])]

LEMMA ArrivedIs ==
    ASSUME NEW form \in Seq(Parts), NEW cut \in 0..Len(Written(form))
    PROVE  Arrived(form, SubSeq(Written(form), 1, cut)) = Joined(Came(form, cut), Len(form))
<1> DEFINE body == SubSeq(Written(form), 1, cut)
           K == Len(form)
           Until(n) == Len(Written(SubSeq(form, 1, n))) - 2
           e(n) == IF Until(n) > Len(body) \/ Header[form[n].head].name = Nothing THEN <<>>
                   ELSE <<[name |-> Header[form[n].head].name, file |-> Header[form[n].head].file,
                           content |-> form[n].content]>>
<1>1. Len(body) = cut
  BY CutIs
<1>2. DOMAIN form = 1..K
  BY BlocksTyped
<1>3. Arrived(form, body) = FlattenSeq([n \in DOMAIN form |-> e(n)])
  BY DEF Arrived
<1>4. ASSUME NEW n \in 1..K PROVE e(n) = Came(form, cut)[n]
  <2>1. Len(Written(SubSeq(form, 1, n))) = Behind(form, n) + 2
    BY WrittenFirst
  <2>2. Behind(form, n) \in Int
    <3>1. n \in 0..K
      BY BlocksTyped
    <3>2. Laid(form, n) \in Seq(Tokens)
      BY <3>1, AllMarked DEF Marked
    <3>3. Len(Laid(form, n)) \in Nat
      BY <3>2
    <3> QED BY <3>3 DEF Behind
  <2>3. Until(n) = Behind(form, n)
    BY <2>1, <2>2
  <2> HIDE DEF Until
  <2>4. e(n) = IF Behind(form, n) > cut THEN <<>> ELSE Piece(form[n])
    BY <1>1, <2>3 DEF Piece
  <2> QED BY <2>4 DEF Came
<1> HIDE DEF e
<1>5. [n \in DOMAIN form |-> e(n)] = [n \in 1..K |-> Came(form, cut)[n]]
  BY <1>2, <1>4
<1> QED BY <1>3, <1>5 DEF Joined

\* What is read of a form, wherever it is cut, are the parts that came whole.
THEOREM FormIsRead ==
    ASSUME NEW form \in Seq(Parts), NEW cut \in 0..Len(Written(form))
    PROVE  Parse(SubSeq(Written(form), 1, cut)) = Arrived(form, SubSeq(Written(form), 1, cut))
<1> DEFINE w == Written(form)
           body == SubSeq(w, 1, cut)
           K == Len(form)
           B(m) == Behind(form, m)
           h == Came(form, cut)
           g == [i \in 1..Len(w) |-> IF i <= cut THEN Taken(body, i) ELSE <<>>]
<1>1. /\ cut \in Nat /\ Len(w) \in Nat /\ cut <= Len(w) /\ K \in Nat
      /\ DOMAIN body = 1..cut
      /\ \A m \in 0..K : B(m) \in 1..(Len(w) - 2)
      /\ \A m, n \in 0..K : m < n => B(m) < B(n)
  <2>1. Structured(form, w)
    BY WrittenStructured
  <2>2. w \in Seq(Tokens)
    BY <2>1 DEF Structured
  <2>3. Len(w) \in Nat /\ cut \in Nat /\ cut <= Len(w) /\ K \in Nat
    BY <2>2
  <2>4. DOMAIN body = 1..cut
    BY CutIs
  <2> QED BY <2>1, <2>3, <2>4 DEF Structured
<1>2. \A m \in 0..K : B(m) \in Nat /\ B(m) >= 1 /\ B(m) <= Len(w)
  BY <1>1
<1>3. ASSUME NEW i \in 1..Len(w), \A n \in 0..(K - 1) : i # B(n)
      PROVE  g[i] = <<>>
  <2>1. CASE i <= cut
    <3>1. i \in 1..cut
      BY <1>1, <2>1
    <3>2. Taken(body, i) = <<>>
      BY <1>3, <3>1, TakenNowhere
    <3> QED BY <3>2
  <2>2. CASE ~(i <= cut)
    BY <2>2
  <2> QED BY <2>1, <2>2
<1>4. \A n \in 1..K : form[n] \in Parts /\ h[n] = IF B(n) > cut THEN <<>> ELSE Piece(form[n])
  BY BlocksTyped DEF Came
<1>5. ASSUME NEW n \in 0..(K - 1) PROVE g[B(n)] = h[n + 1]
  <2>1. n \in 0..K /\ n + 1 \in 0..K /\ n + 1 \in 1..K /\ n < n + 1
    BY <1>1
  <2>2. B(n) \in 1..Len(w) /\ B(n) < B(n + 1) /\ B(n) \in Nat /\ B(n + 1) \in Nat
    BY <1>1, <1>2, <2>1
  <2>3. h[n + 1] = IF B(n + 1) > cut THEN <<>> ELSE Piece(form[n + 1])
    BY <1>4, <2>1
  <2>4. CASE B(n) <= cut
    <3>1. Taken(body, B(n)) = IF B(n + 1) > cut THEN <<>> ELSE Piece(form[n + 1])
      BY <2>4, TakenAt
    <3>2. g[B(n)] = Taken(body, B(n))
      BY <2>2, <2>4
    <3> QED BY <2>3, <3>1, <3>2
  <2>5. CASE ~(B(n) <= cut)
    <3>1. g[B(n)] = <<>>
      BY <2>2, <2>5
    <3>2. B(n + 1) > cut
      BY <1>1, <2>2, <2>5
    <3> QED BY <2>3, <3>1, <3>2
  <2> QED BY <2>4, <2>5
<1>6. \A n \in 1..K : h[n] \in Seq(Readable)
  BY <1>4, PieceTyped
<1>7. \A i \in 1..Len(w) : g[i] \in Seq(Readable)
  <2> SUFFICES ASSUME NEW i \in 1..Len(w) PROVE g[i] \in Seq(Readable)
    OBVIOUS
  <2>1. CASE \E n \in 0..(K - 1) : i = B(n)
    <3>1. PICK n \in 0..(K - 1) : i = B(n)
      BY <2>1
    <3>2. n + 1 \in 1..K
      BY <1>1
    <3>3. g[i] = h[n + 1]
      BY <1>5, <3>1
    <3> HIDE DEF g, h
    <3> QED BY <1>6, <3>2, <3>3
  <2>2. CASE ~(\E n \in 0..(K - 1) : i = B(n))
    <3>1. g[i] = <<>>
      BY <1>3, <2>2
    <3>2. <<>> \in Seq(Readable)
      OBVIOUS
    <3> QED BY <3>1, <3>2
  <2> QED BY <2>1, <2>2
<1>8. Parse(body) = Joined(g, cut)
  <2>1. Parse(body) = FlattenSeq([i \in DOMAIN body |-> Taken(body, i)])
    BY DEF Parse, Taken
  <2>2. [i \in DOMAIN body |-> Taken(body, i)] = [i \in 1..cut |-> g[i]]
    <3>1. \A i \in 1..cut : g[i] = Taken(body, i)
      BY <1>1
    <3> HIDE DEF body, g
    <3> QED BY <1>1, <3>1
  <2> QED BY <2>1, <2>2 DEF Joined
<1> HIDE DEF w, body, g, h, B, K
<1>9. ASSUME NEW a \in Nat, NEW b \in Nat, a <= b, b <= Len(w),
             \A i \in (a + 1)..b : \A n \in 0..(K - 1) : i # B(n)
      PROVE  Joined(g, b) = Joined(g, a)
  <2>1. \A i \in 1..b : g[i] \in Seq(Readable)
    BY <1>1, <1>7, <1>9
  <2>2. \A i \in (a + 1)..b : g[i] = <<>>
    <3> SUFFICES ASSUME NEW i \in (a + 1)..b PROVE g[i] = <<>>
      OBVIOUS
    <3>1. i \in 1..Len(w)
      BY <1>1, <1>9
    <3> QED BY <1>3, <1>9, <3>1
  <2> QED BY <1>9, <2>1, <2>2, JoinedEmpty
<1> DEFINE G == {n \in Nat : n <= K => Joined(g, B(n) - 1) = Joined(h, n)}
<1>10. 0 \in G
  <2>1. 0 \in 0..K
    BY <1>1
  <2>2. B(0) - 1 \in Nat /\ B(0) - 1 <= Len(w) /\ 0 <= B(0) - 1
    BY <1>1, <1>2, <2>1
  <2>3. \A i \in 1..(B(0) - 1) : \A n \in 0..(K - 1) : i # B(n)
    <3> SUFFICES ASSUME NEW i \in 1..(B(0) - 1), NEW n \in 0..(K - 1) PROVE i # B(n)
      OBVIOUS
    <3>1. n \in 0..K /\ (n = 0 \/ 0 < n)
      BY <1>1
    <3>2. B(0) \in Nat /\ B(n) \in Nat /\ (n = 0 \/ B(0) < B(n))
      BY <1>1, <1>2, <2>1, <3>1
    <3> QED BY <3>2
  <2>4. 0 + 1 = 1 /\ 0 \in Nat
    OBVIOUS
  <2>5. Joined(g, B(0) - 1) = Joined(g, 0)
    BY <1>9, <2>2, <2>3, <2>4
  <2>6. Joined(g, 0) = <<>> /\ Joined(h, 0) = <<>>
    BY JoinedNone
  <2> QED BY <2>4, <2>5, <2>6
<1>11. ASSUME NEW n \in Nat, n \in G PROVE n + 1 \in G
  <2> SUFFICES ASSUME n + 1 <= K PROVE Joined(g, B(n + 1) - 1) = Joined(h, n + 1)
    OBVIOUS
  <2>1. n \in 0..(K - 1) /\ n \in 0..K /\ n + 1 \in 0..K /\ n <= K /\ n < n + 1
    BY <1>1
  <2>2. Joined(g, B(n) - 1) = Joined(h, n)
    BY <1>11, <2>1
  <2> DEFINE x == B(n)
             y == B(n + 1)
  <2>3. x \in Nat /\ x >= 1 /\ y \in Nat /\ x < y /\ y <= Len(w)
    BY <1>1, <1>2, <2>1
  <2>4. g[x] = h[n + 1]
    BY <1>5, <2>1
  <2>5. \A i \in (x + 1)..(y - 1) : \A m \in 0..(K - 1) : i # B(m)
    <3> SUFFICES ASSUME NEW i \in (x + 1)..(y - 1), NEW m \in 0..(K - 1) PROVE i # B(m)
      OBVIOUS
    <3>1. m \in 0..K /\ (m < n \/ m = n \/ m = n + 1 \/ n + 1 < m)
      BY <1>1, <2>1
    <3>2. B(m) \in Nat
      BY <1>2, <3>1
    <3>3. /\ m < n => B(m) < x
          /\ m = n => B(m) = x
          /\ m = n + 1 => B(m) = y
          /\ n + 1 < m => y < B(m)
      BY <1>1, <2>1, <3>1
    <3> HIDE DEF x, y
    <3> QED BY <2>3, <3>1, <3>2, <3>3
  <2> HIDE DEF x, y
  <2>6. Joined(g, y - 1) = Joined(g, x)
    <3>1. y - 1 \in Nat /\ x <= y - 1 /\ y - 1 <= Len(w)
      BY <1>1, <2>3
    <3> QED BY <1>9, <2>3, <2>5, <3>1
  <2>7. Joined(g, x) = Joined(g, x - 1) \o g[x]
    <3>1. x - 1 \in Nat /\ (x - 1) + 1 = x
      BY <2>3
    <3>2. \A i \in 1..((x - 1) + 1) : g[i] \in Seq(Readable)
      BY <1>1, <1>7, <2>3
    <3>3. Joined(g, (x - 1) + 1) = Joined(g, x - 1) \o g[(x - 1) + 1]
      BY <3>1, <3>2, JoinedNext
    <3> QED BY <3>1, <3>3
  <2>8. Joined(h, n + 1) = Joined(h, n) \o h[n + 1]
    <3>1. \A i \in 1..(n + 1) : h[i] \in Seq(Readable)
      BY <1>1, <1>6, <2>1
    <3> QED BY <3>1, JoinedNext
  <2>9. Joined(g, y - 1) = Joined(h, n + 1)
    BY <2>2, <2>4, <2>6, <2>7, <2>8 DEF x
  <2> QED BY <2>9 DEF y
<1>12. Joined(g, B(K) - 1) = Joined(h, K)
  <2>1. Nat \subseteq G
    <3> HIDE DEF G
    <3> QED BY <1>10, <1>11, EveryNumber
  <2> QED BY <1>1, <2>1
<1>13. Joined(g, Len(w)) = Joined(g, B(K) - 1)
  <2>1. K \in 0..K
    BY <1>1
  <2>2. B(K) - 1 \in Nat /\ B(K) - 1 <= Len(w) /\ B(K) \in Nat
    BY <1>1, <1>2, <2>1
  <2>3. \A i \in (B(K) - 1 + 1)..Len(w) : \A n \in 0..(K - 1) : i # B(n)
    <3> SUFFICES ASSUME NEW i \in (B(K) - 1 + 1)..Len(w), NEW n \in 0..(K - 1) PROVE i # B(n)
      OBVIOUS
    <3>1. n \in 0..K /\ n < K
      BY <1>1
    <3>2. B(n) < B(K) /\ B(n) \in Nat
      BY <1>1, <1>2, <2>1, <3>1
    <3>3. i >= B(K)
      BY <1>1, <2>2
    <3> QED BY <1>1, <2>2, <3>2, <3>3
  <2>4. Len(w) \in Nat /\ Len(w) <= Len(w)
    BY <1>1
  <2> QED BY <1>9, <2>2, <2>3, <2>4
<1>14. Joined(g, Len(w)) = Joined(g, cut)
  <2>1. \A i \in 1..Len(w) : g[i] \in Seq(Readable)
    BY <1>7
  <2>2. \A i \in (cut + 1)..Len(w) : g[i] = <<>>
    <3> SUFFICES ASSUME NEW i \in (cut + 1)..Len(w) PROVE g[i] = <<>>
      OBVIOUS
    <3>1. i \in 1..Len(w) /\ ~(i <= cut)
      BY <1>1
    <3> QED BY <3>1 DEF g
  <2> QED BY <1>1, <2>1, <2>2, JoinedEmpty
<1>15. Arrived(form, body) = Joined(h, K)
  BY ArrivedIs DEF body, w, h, K
<1> QED BY <1>8, <1>12, <1>13, <1>14, <1>15 DEF body, w

LEMMA ArrivedTyped ==
    ASSUME NEW form \in Seq(Parts), NEW cut \in 0..Len(Written(form))
    PROVE  Arrived(form, SubSeq(Written(form), 1, cut)) \in Seq(Readable)
<1>1. \A n \in 1..Len(form) : Came(form, cut)[n] \in Seq(Readable)
  <2> SUFFICES ASSUME NEW n \in 1..Len(form) PROVE Came(form, cut)[n] \in Seq(Readable)
    OBVIOUS
  <2>1. form[n] \in Parts
    BY BlocksTyped
  <2>2. Piece(form[n]) \in Seq(Readable) /\ <<>> \in Seq(Readable)
    BY <2>1, PieceTyped
  <2> QED BY <2>2 DEF Came
<1>2. Len(form) \in Nat
  OBVIOUS
<1>3. Joined(Came(form, cut), Len(form)) \in Seq(Readable)
  BY <1>1, <1>2, JoinedType
<1> QED BY <1>3, ArrivedIs

\* What is made of parts, whatever parts there are.
LEMMA FormIsRouted ==
    ASSUME NEW query \in {Nothing} \cup Models, NEW body, NEW parts \in Seq(Readable), Parse(body) = parts
    PROVE  LET r == ParseForm(query, body)
               models == {i \in DOMAIN parts : parts[i].name = "model" /\ ~parts[i].file}
           IN /\ r.ok <=> query # Nothing \/ models # {}
              /\ r.ok => r.model = IF query # Nothing THEN <<query>> ELSE parts[Min(models)].content
              /\ r.logged = Describe(parts)
<1> DEFINE models == {i \in DOMAIN parts : parts[i].name = "model" /\ ~parts[i].file}
           those == {i \in DOMAIN parts : ~parts[i].file /\ parts[i].name = "model"}
           named == IF query # Nothing THEN <<query>> ELSE Field(parts, "model")
           r == ParseForm(query, body)
<1>1. those = models
  OBVIOUS
<1>2. Field(parts, "model") = IF models = {} THEN Nothing ELSE parts[Min(models)].content
  BY <1>1 DEF Field
<1>3. models # {} => parts[Min(models)].content # Nothing
  <2> SUFFICES ASSUME models # {} PROVE parts[Min(models)].content # Nothing
    OBVIOUS
  <2>1. DOMAIN parts = 1..Len(parts) /\ Len(parts) \in Nat /\ \A i \in DOMAIN parts : parts[i] \in Readable
    OBVIOUS
  <2>2. models \in SUBSET Nat
    BY <2>1
  <2>3. Min(models) \in models
    <3> HIDE DEF models
    <3> QED BY <2>2, LeastIs
  <2>4. parts[Min(models)] \in Readable
    BY <2>1, <2>3
  <2>5. parts[Min(models)].content \in Contents
    <3>1. \A x \in Readable : x.content \in Contents
      BY DEF Readable
    <3> HIDE DEF models
    <3> QED BY <2>4, <3>1
  <2> QED BY <2>5, ReadersConstants
<1>4. query # Nothing => <<query>> # Nothing
  <2> SUFFICES ASSUME query # Nothing PROVE <<query>> # Nothing
    OBVIOUS
  <2>1. query \in Models
    OBVIOUS
  <2>2. <<query>> \in {<<m>> : m \in Models}
    BY <2>1
  <2> QED BY <2>2, ReadersConstants
<1> HIDE DEF models
<1>5. named # Nothing <=> query # Nothing \/ models # {}
  BY <1>2, <1>3, <1>4
<1>6. named # Nothing => named = IF query # Nothing THEN <<query>> ELSE parts[Min(models)].content
  BY <1>2, <1>5
<1> HIDE DEF named
<1>7. r = IF named = Nothing THEN Refused(Describe(parts))
          ELSE [ok |-> TRUE, model |-> named, forwarded |-> body, logged |-> Describe(parts),
                stream |-> Field(parts, "stream") = <<"true">>]
  BY DEF ParseForm, named
<1> HIDE DEF r
<1>8. CASE named = Nothing
  <2>1. r = [ok |-> FALSE, logged |-> Describe(parts)]
    BY <1>7, <1>8 DEF Refused
  <2>2. r.ok = FALSE /\ r.logged = Describe(parts)
    BY <2>1
  <2> QED BY <1>5, <1>8, <2>2 DEF r, models
<1>9. CASE named # Nothing
  <2>1. r.ok = TRUE /\ r.model = named /\ r.logged = Describe(parts)
    BY <1>7, <1>9
  <2> QED BY <1>5, <1>6, <1>9, <2>1 DEF r, models
<1> QED BY <1>8, <1>9

LEMMA JsonIsRouted ==
    ASSUME NEW query \in {Nothing} \cup Models, NEW content \in Json
    PROVE  LET r == ParseJson(query, content)
           IN /\ r.ok <=> query # Nothing \/ (content.object /\ content.model # Nothing)
              /\ r.ok /\ content.object => r.model = <<r.forwarded.model>>
              /\ r.ok /\ query # Nothing => r.model = <<query>>
<1> DEFINE own == IF content.object THEN content.model ELSE Nothing
           named == IF query # Nothing THEN query ELSE own
           written == IF content.object THEN [content EXCEPT !.model = named] ELSE content
           r == ParseJson(query, content)
<1>1. named # Nothing <=> query # Nothing \/ (content.object /\ content.model # Nothing)
  OBVIOUS
<1>2. content.object => written.model = named
  <2>1. [content EXCEPT !.model = named].model = named
    BY DEF Json
  <2> QED BY <2>1
<1>3. query # Nothing => named = query
  OBVIOUS
<1> HIDE DEF named, written
<1>4. r = IF named = Nothing THEN Refused(content)
          ELSE [ok |-> TRUE, model |-> <<named>>, forwarded |-> written, logged |-> written,
                stream |-> content.object /\ content.stream]
  BY DEF ParseJson, named, written
<1> HIDE DEF r
<1>5. CASE named = Nothing
  <2>1. r.ok = FALSE
    BY <1>4, <1>5 DEF Refused
  <2> QED BY <1>1, <1>5, <2>1 DEF r
<1>6. CASE named # Nothing
  <2>1. r.ok = TRUE /\ r.model = <<named>> /\ r.forwarded = written
    BY <1>4, <1>6
  <2> QED BY <1>1, <1>2, <1>3, <1>6, <2>1 DEF r
<1> QED BY <1>5, <1>6

LEMMA RequestsKept == RequestsReadRight /\ [ReadersNext]_readersVars => RequestsReadRight'
<1> SUFFICES ASSUME RequestsReadRight, [ReadersNext]_readersVars PROVE RequestsReadRight'
  OBVIOUS
<1>1. CASE UNCHANGED readersVars
  BY <1>1 DEF readersVars, RequestsReadRight
<1>2. CASE job' = "request" /\ ReadForm
  <2>1. PICK form \in SeqOf(Parts, MaxParts), query \in {Nothing} \cup Models :
          \E cut \in 0..Len(Written(form)) :
            /\ given' = [form |-> form, query |-> query, content |-> Form(SubSeq(Written(form), 1, cut))]
            /\ result' = ParseRequest(query, given'.content)
    BY <1>2 DEF ReadForm
  <2>2. PICK cut \in 0..Len(Written(form)) :
            /\ given' = [form |-> form, query |-> query, content |-> Form(SubSeq(Written(form), 1, cut))]
            /\ result' = ParseRequest(query, given'.content)
    BY <2>1
  <2>3. form \in Seq(Parts)
    <3>1. PICK m \in 0..MaxParts : form \in [1..m -> Parts]
      BY <2>1 DEF SeqOf
    <3>2. m \in Nat
      BY <3>1, ReadersConstants
    <3> QED BY <3>1, <3>2
  <2> DEFINE body == SubSeq(Written(form), 1, cut)
             parts == Arrived(form, body)
             models == {i \in DOMAIN parts : parts[i].name = "model" /\ ~parts[i].file}
             r == ParseForm(query, body)
  <2>4. parts \in Seq(Readable) /\ Parse(body) = parts
    BY <2>2, <2>3, ArrivedTyped, FormIsRead
  <2> HIDE DEF body, parts
  <2>5. /\ r.ok <=> query # Nothing \/ models # {}
        /\ r.ok => r.model = IF query # Nothing THEN <<query>> ELSE parts[Min(models)].content
        /\ r.logged = Describe(parts)
    BY <2>1, <2>4, FormIsRouted
  <2>6. /\ given'.form = form /\ given'.query = query
        /\ given'.content.type = "form" /\ given'.content.body = body
        /\ given'.content = Form(body)
    BY <2>2 DEF Form, body
  <2>7. result' = r
    <3>1. result' = ParseRequest(query, given'.content)
      BY <2>2
    <3>2. given'.content.type # "json" /\ given'.content.type = "form" /\ given'.content.type # "garbage"
      BY <2>6
    <3>3. result' = ParseForm(query, given'.content.body)
      BY <3>1, <3>2 DEF ParseRequest
    <3> QED BY <2>6, <3>3
  <2> HIDE DEF r, models
  <2>8. Describe(parts).files = Files(parts)
    BY DEF Describe
  <2>9. DOMAIN Describe(parts).form = {p.name : p \in {q \in ToSet(parts) : ~q.file}}
    <3> DEFINE texts == {i \in DOMAIN parts : ~parts[i].file}
    <3>1. DOMAIN Describe(parts).form = {parts[i].name : i \in texts}
      BY DEF Describe
    <3>2. ToSet(parts) = {parts[i] : i \in DOMAIN parts}
      BY DEF ToSet
    <3>3. {parts[i].name : i \in texts} = {p.name : p \in {q \in ToSet(parts) : ~q.file}}
      BY <3>2
    <3> QED BY <3>1, <3>3
  <2>10. Arrived(given'.form, given'.content.body) = parts
    BY <2>6 DEF parts
  <2>11. given'.content.type # "garbage" /\ given'.content.type # "json"
    BY <2>6
  <2>12. /\ result'.ok <=> given'.query # Nothing \/ models # {}
         /\ result'.ok => result'.model = IF given'.query # Nothing THEN <<given'.query>>
                                          ELSE parts[Min(models)].content
         /\ result'.logged.files = Files(parts)
         /\ DOMAIN result'.logged.form = {p.name : p \in {q \in ToSet(parts) : ~q.file}}
    BY <2>5, <2>6, <2>7, <2>8, <2>9
  <2> QED BY <2>6, <2>10, <2>11, <2>12 DEF RequestsReadRight, models
<1>3. CASE job' = "request" /\ ReadJson
  <2>1. PICK query \in {Nothing} \cup Models, content \in Json \cup {Garbage} :
          /\ given' = [form |-> <<>>, query |-> query, content |-> content]
          /\ result' = ParseRequest(query, given'.content)
    BY <1>3 DEF ReadJson
  <2>2. given'.query = query /\ given'.content = content
    BY <2>1
  <2>3. CASE content = Garbage
    <3>1. content.type = "garbage" /\ content.type # "form" /\ content.type # "json"
      BY <2>3 DEF Garbage
    <3>2. result' = Refused(Nothing)
      BY <2>1, <2>2, <3>1 DEF ParseRequest
    <3>3. result'.ok = FALSE
      BY <3>2 DEF Refused
    <3> QED BY <2>2, <3>1, <3>3 DEF RequestsReadRight
  <2>4. CASE content \in Json
    <3>1. content.type = "json" /\ content.type # "form" /\ content.type # "garbage"
      BY <2>4 DEF Json
    <3> DEFINE r == ParseJson(query, content)
    <3>2. result' = r
      BY <2>1, <2>2, <3>1 DEF ParseRequest
    <3>3. /\ r.ok <=> query # Nothing \/ (content.object /\ content.model # Nothing)
          /\ r.ok /\ content.object => r.model = <<r.forwarded.model>>
          /\ r.ok /\ query # Nothing => r.model = <<query>>
      BY <2>1, <2>4, JsonIsRouted
    <3> HIDE DEF r
    <3> QED BY <2>2, <3>1, <3>2, <3>3 DEF RequestsReadRight
  <2> QED BY <2>1, <2>3, <2>4
<1>4. CASE job' # "request"
  BY <1>4 DEF RequestsReadRight
<1> QED BY <1>1, <1>2, <1>3, <1>4 DEF ReadersNext

\* Whatever parts a form has, wherever it is cut and whatever they hold, what is
\* routed, logged and sent on is right about the parts that came whole
\* (parse_request, multipart::parse).
THEOREM RequestsAreRead == ReadersSpec => []RequestsReadRight
<1>1. ReadersInit => RequestsReadRight
  BY DEF ReadersInit, RequestsReadRight
<1> QED BY <1>1, RequestsKept, PTL DEF ReadersSpec
=============================================================================
