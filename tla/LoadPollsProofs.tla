-------------------------- MODULE LoadPollsProofs --------------------------
(***************************************************************************)
(* Why an exact number is a server's own, however many hives have handed   *)
(* it on: every exact load that a hive keeps or was told is a number some  *)
(* server has had (AllFacts), an aggregate is one of the loads it is taken *)
(* from (AggregateIsOne), and whatever makes an effective load exact was   *)
(* exact before (ExactWasFact).                                            *)
(***************************************************************************)
EXTENDS LoadPolls, OrderProofs

Inexact(l) == l.kind \notin {"known", "measured"} \/ (l.kind = "known" /\ l.n = 0)
Fact(l) == Inexact(l) \/ \E s \in Servers : l.n \in had[s]

AllFacts ==
    /\ \A s \in Servers : busy[s] \in had[s]
    /\ \A h \in Hives, m \in Members : Fact(loads[h][m]) /\ Fact(told[h][m])

Effects == [n : Nat, exact : BOOLEAN]

-----------------------------------------------------------------------------
(* Aggregates.                                                             *)

\* aggregate_load of some loads is one of them.
LEMMA AggregateIsOne ==
    ASSUME NEW S \in SUBSET Effects, S # {}
    PROVE  AggregateLoad(S) \in S
<1> DEFINE Best(l) == \A k \in S : l.n < k.n \/ (l.n = k.n /\ (l.exact \/ ~k.exact))
<1>1. PICK x \in {l.n : l \in S} : \A y \in {l.n : l \in S} : x <= y
  <2>1. {l.n : l \in S} \in SUBSET Nat /\ {l.n : l \in S} # {}
    BY DEF Effects
  <2> QED BY <2>1, LeastExists
<1>2. PICK l \in S : l.n = x
  BY <1>1
<1>3. \A k \in S : l.n < k.n \/ l.n = k.n
  <2> SUFFICES ASSUME NEW k \in S PROVE l.n < k.n \/ l.n = k.n
    OBVIOUS
  <2>1. l.n <= k.n /\ l.n \in Nat /\ k.n \in Nat
    BY <1>1, <1>2 DEF Effects
  <2> QED BY <2>1
<1>4. \E b \in S : Best(b)
  <2>1. CASE \E e \in S : e.n = l.n /\ e.exact
    BY <1>3, <2>1
  <2>2. CASE ~\E e \in S : e.n = l.n /\ e.exact
    <3>1. Best(l)
      BY <1>3, <2>2
    <3> QED BY <3>1
  <2> QED BY <2>1, <2>2
<1>5. AggregateLoad(S) = CHOOSE b \in S : Best(b)
  BY DEF AggregateLoad
<1> HIDE DEF Best
<1> QED BY <1>4, <1>5

LEMMA EffectTyped ==
    ASSUME NEW l \in Loads, NEW n \in Nat
    PROVE  EffectiveLoad(l, n) \in Effects
<1>1. l.n \in Nat
  BY DEF Loads
<1> QED BY <1>1 DEF EffectiveLoad, Effects

\* What is exact with n requests in flight was exact without them.
LEMMA ExactWasFact ==
    ASSUME NEW l \in Loads, NEW n \in Nat, EffectiveLoad(l, n).exact
    PROVE  ~Inexact(l) /\ EffectiveLoad(l, n).n = l.n
<1>1. l.n \in Nat
  BY DEF Loads
<1>2. l.n >= n /\ (l.kind = "measured" \/ (l.kind = "known" /\ l.n > 0))
  BY DEF EffectiveLoad
<1> QED BY <1>1, <1>2 DEF EffectiveLoad, Inexact

LEMMA AggregateFact ==
    ASSUME TypeOK, AllFacts, NEW h \in Hives, Aggregate(h).exact
    PROVE  Aggregate(h).n \in Nat /\ \E s \in Servers : Aggregate(h).n \in had[s]
<1> DEFINE S == {EffectiveLoad(loads[h][m], flying[h][m]) : m \in members[h]}
<1>1. \A m \in members[h] : m \in Members /\ loads[h][m] \in Loads /\ flying[h][m] \in Nat
  BY PollConstants DEF TypeOK
<1>2. S \in SUBSET Effects
  BY <1>1, EffectTyped
<1>3. S # {}
  BY DEF Aggregate, AggregateLoad
<1>4. Aggregate(h) \in S
  BY <1>2, <1>3, AggregateIsOne DEF Aggregate
<1>5. PICK m \in members[h] : Aggregate(h) = EffectiveLoad(loads[h][m], flying[h][m])
  BY <1>4
<1>6. ~Inexact(loads[h][m]) /\ Aggregate(h).n = loads[h][m].n
  BY <1>1, <1>5, ExactWasFact
<1>7. Fact(loads[h][m])
  BY <1>1 DEF AllFacts
<1>8. loads[h][m].n \in Nat
  BY <1>1 DEF Loads
<1> QED BY <1>6, <1>7, <1>8 DEF Fact

-----------------------------------------------------------------------------
(* What a member says.                                                     *)

LEMMA UnknownTyped == UnknownLoad \in Loads /\ UnknownLoad # Pending /\ Inexact(UnknownLoad)
BY DEF UnknownLoad, Loads, LoadKinds, Pending, Inexact

LEMMA ServerWords ==
    ASSUME TypeOK, AllFacts, NEW s \in Servers
    PROVE  /\ MetricsSay(s) \in Loads /\ Fact(MetricsSay(s))
           /\ LoadSays(s) \in Loads /\ Fact(LoadSays(s))
<1>1. busy[s] \in Nat /\ busy[s] \in had[s]
  BY PollConstants DEF TypeOK, AllFacts
<1>2. Measured(busy[s]) \in Loads /\ Fact(Measured(busy[s]))
  BY <1>1 DEF Measured, Loads, LoadKinds, Fact
<1>3. Known(busy[s]) \in Loads /\ Fact(Known(busy[s]))
  BY <1>1 DEF Known, Loads, LoadKinds, Fact
<1>4. Known(0) \in Loads /\ Fact(Known(0))
  BY DEF Known, Loads, LoadKinds, Fact, Inexact
<1>5. UnknownLoad \in Loads /\ Fact(UnknownLoad)
  BY UnknownTyped DEF Fact
<1> HIDE DEF Fact
<1>6. MetricsSay(s) \in {Measured(busy[s]), UnknownLoad}
  BY DEF MetricsSay
<1>7. LoadSays(s) \in {Known(busy[s]), Known(0), UnknownLoad}
  BY DEF LoadSays
<1> QED BY <1>2, <1>3, <1>4, <1>5, <1>6, <1>7

LEMMA Words ==
    ASSUME TypeOK, AllFacts, NEW m \in Members
    PROVE  Says(m) \in Loads /\ Fact(Says(m))
<1>0. UnknownLoad \in Loads /\ Fact(UnknownLoad)
  BY UnknownTyped DEF Fact
<1>1. CASE m \in Hives
  <2>1. CASE Aggregate(m).exact
    <3>1. Aggregate(m).n \in Nat /\ \E s \in Servers : Aggregate(m).n \in had[s]
      BY <1>1, <2>1, AggregateFact
    <3>2. Says(m) = Measured(Aggregate(m).n)
      BY <1>1, <2>1 DEF Says, HiveSays
    <3> QED BY <3>1, <3>2 DEF Measured, Loads, LoadKinds, Fact
  <2>2. CASE ~Aggregate(m).exact
    BY <1>0, <1>1, <2>2 DEF Says, HiveSays
  <2> QED BY <2>1, <2>2
<1>2. CASE m \notin Hives
  <2>1. m \in Servers
    BY <1>2 DEF Members
  <2>2. Says(m) \in {MetricsSay(m), LoadSays(m), UnknownLoad}
    BY <1>2 DEF Says, ServerSays
  <2> QED BY <1>0, <2>1, <2>2, ServerWords
<1> QED BY <1>1, <1>2

-----------------------------------------------------------------------------
(* Types.                                                                  *)

LEMMA PollsTypeInit == Init => TypeOK
<1> SUFFICES ASSUME Init PROVE TypeOK
  OBVIOUS
<1> USE DEF Init
<1>1. kind \in [Servers -> Kinds] /\ busy \in [Servers -> Numbers] /\ had \in [Servers -> SUBSET Numbers]
  OBVIOUS
<1>2. members \in [Hives -> SUBSET Members]
  BY DEF Stays
<1>3. flying \in [Hives -> [Members -> 0..MaxFlying]]
  BY PollConstants
<1>4. loads \in [Hives -> [Members -> Loads]]
  BY UnknownTyped
<1>5. told \in [Hives -> [Members -> Loads \cup {Pending}]]
  OBVIOUS
<1> QED BY <1>1, <1>2, <1>3, <1>4, <1>5, PollConstants DEF TypeOK

LEMMA PollsInit == Init => AllFacts
<1> SUFFICES ASSUME Init PROVE AllFacts
  OBVIOUS
<1>1. \A s \in Servers : busy[s] \in had[s]
  BY DEF Init
<1>2. \A h \in Hives, m \in Members : loads[h][m] = UnknownLoad /\ told[h][m] = Pending
  BY DEF Init
<1>3. Fact(UnknownLoad) /\ Fact(Pending)
  BY UnknownTyped DEF Fact, Inexact, Pending
<1> QED BY <1>1, <1>2, <1>3 DEF AllFacts

LEMMA TypeNext == TypeOK /\ AllFacts /\ [Next]_vars => TypeOK'
<1> SUFFICES ASSUME TypeOK, AllFacts, [Next]_vars PROVE TypeOK'
  OBVIOUS
<1> USE DEF TypeOK
<1>1. ASSUME NEW h \in Hives, StartPoll(h) PROVE TypeOK'
  BY <1>1 DEF StartPoll, world
<1>2. ASSUME NEW h \in Hives, NEW m \in Members, Hear(h, m) PROVE TypeOK'
  <2>1. Says(m) \in Loads
    BY Words
  <2> QED BY <1>2, <2>1 DEF Hear, world
<1>3. ASSUME NEW h \in Hives, NEW m \in Members, HearNothing(h, m) PROVE TypeOK'
  <2>1. PICK l : /\ l \in {UnknownLoad} \cup
                      (IF m \in Servers /\ kind[m].alone THEN {LoadSays(m)} ELSE {})
                 /\ told' = [told EXCEPT ![h][m] = l]
    BY <1>3 DEF HearNothing
  <2>2. l \in Loads
    BY <2>1, UnknownTyped, ServerWords
  <2>3. told' \in [Hives -> [Members -> Loads \cup {Pending}]]
    BY <2>1, <2>2
  <2>4. losses' \in 0..Losses
    BY <1>3, PollConstants DEF HearNothing
  <2> QED BY <1>3, <2>3, <2>4 DEF HearNothing, world
<1>4. ASSUME NEW h \in Hives, EndPoll(h) PROVE TypeOK'
  <2>1. \A m \in Members : LoadsTold(h)[m] \in Loads
    <3> SUFFICES ASSUME NEW m \in Members PROVE LoadsTold(h)[m] \in Loads
      OBVIOUS
    <3>1. m \in asked[h] => told[h][m] \in Loads
      BY <1>4 DEF EndPoll
    <3> QED BY <3>1, UnknownTyped DEF LoadsTold
  <2>2. LoadsTold(h) \in [Members -> Loads]
    BY <2>1 DEF LoadsTold
  <2>3. loads' \in [Hives -> [Members -> Loads]]
    BY <1>4, <2>2 DEF EndPoll
  <2>4. told' \in [Hives -> [Members -> Loads \cup {Pending}]]
    BY <1>4 DEF EndPoll, Untold
  <2>5. polling' \subseteq Hives /\ asked' \in [Hives -> SUBSET Members]
    BY <1>4 DEF EndPoll
  <2> QED BY <1>4, <2>3, <2>4, <2>5 DEF EndPoll, world
<1>5. ASSUME NEW s \in Servers, NEW n \in Numbers, Work(s, n) PROVE TypeOK'
  BY <1>5 DEF Work, polls
<1>6. ASSUME NEW h \in Hives, NEW m \in Members, Fly(h, m) PROVE TypeOK'
  <2>1. flying[h][m] + 1 \in 0..MaxFlying
    BY <1>6, PollConstants DEF Fly
  <2>2. flying' \in [Hives -> [Members -> 0..MaxFlying]]
    BY <1>6, <2>1 DEF Fly
  <2> QED BY <1>6, <2>2 DEF Fly, polls
<1>7. ASSUME NEW h \in Hives, NEW m \in Members, Land(h, m) PROVE TypeOK'
  <2>1. flying[h][m] - 1 \in 0..MaxFlying
    BY <1>7, PollConstants DEF Land
  <2>2. flying' \in [Hives -> [Members -> 0..MaxFlying]]
    BY <1>7, <2>1 DEF Land
  <2> QED BY <1>7, <2>2 DEF Land, polls
<1>8. ASSUME NEW h \in Hives, NEW m \in Members, Scanned(h, m) PROVE TypeOK'
  <2>1. m \in Members
    OBVIOUS
  <2>2. PICK M \in {members[h] \cup {m}, members[h] \ {m}} : members' = [members EXCEPT ![h] = M]
    BY <1>8 DEF Scanned
  <2>3. M \in SUBSET Members
    BY <2>1, <2>2
  <2>4. members' \in [Hives -> SUBSET Members]
    BY <2>2, <2>3
  <2> QED BY <1>8, <2>4 DEF Scanned, polls
<1>9. CASE UNCHANGED vars
  BY <1>9 DEF vars, world, polls
<1> HIDE DEF TypeOK
<1>10. ASSUME NEW h \in Hives, Poll(h) PROVE TypeOK'
  BY <1>1, <1>2, <1>4, <1>10 DEF Poll
<1> QED BY <1>3, <1>5, <1>6, <1>7, <1>8, <1>9, <1>10 DEF Next

-----------------------------------------------------------------------------
(* Facts.                                                                  *)

LEMMA FactsNext == TypeOK /\ AllFacts /\ [Next]_vars => AllFacts'
<1> SUFFICES ASSUME TypeOK, AllFacts, [Next]_vars PROVE AllFacts'
  OBVIOUS
<1> DEFINE New(h, m) == Fact(loads'[h][m]) /\ Fact(told'[h][m])
<1>0. ASSUME UNCHANGED <<busy, had>>, \A h \in Hives, m \in Members : New(h, m) PROVE AllFacts'
  BY <1>0 DEF AllFacts, Fact, Inexact
<1>1. \A h \in Hives, m \in Members : Fact(loads[h][m]) /\ Fact(told[h][m])
  BY DEF AllFacts
<1>2. ASSUME UNCHANGED <<busy, had, loads, told>> PROVE AllFacts'
  BY <1>0, <1>1, <1>2
<1>3. ASSUME NEW h \in Hives, NEW m \in Members, NEW l, Fact(l), UNCHANGED <<busy, had, loads>>,
             told' = [told EXCEPT ![h][m] = l]
      PROVE  AllFacts'
  <2>1. told \in [Hives -> [Members -> Loads \cup {Pending}]]
    BY DEF TypeOK
  <2>2. \A g \in Hives, k \in Members :
            told'[g][k] = IF g = h /\ k = m THEN l ELSE told[g][k]
    BY <1>3, <2>1
  <2>3. \A g \in Hives, k \in Members : New(g, k)
    BY <1>1, <1>3, <2>2
  <2> QED BY <1>0, <1>3, <2>3
<1>4. ASSUME NEW h \in Hives, StartPoll(h) PROVE AllFacts'
  BY <1>2, <1>4 DEF StartPoll, world
<1>5. ASSUME NEW h \in Hives, NEW m \in Members, Hear(h, m) PROVE AllFacts'
  <2>1. Fact(Says(m))
    BY Words
  <2> HIDE DEF Fact
  <2> QED BY <1>3, <1>5, <2>1 DEF Hear, world
<1>6. ASSUME NEW h \in Hives, NEW m \in Members, HearNothing(h, m) PROVE AllFacts'
  <2>1. PICK l : /\ l \in {UnknownLoad} \cup
                      (IF m \in Servers /\ kind[m].alone THEN {LoadSays(m)} ELSE {})
                 /\ told' = [told EXCEPT ![h][m] = l]
    BY <1>6 DEF HearNothing
  <2>2. Fact(UnknownLoad)
    BY UnknownTyped DEF Fact
  <2>3. Fact(l)
    BY <2>1, <2>2, ServerWords
  <2> QED BY <1>3, <1>6, <2>1, <2>3 DEF HearNothing, world
<1>7. ASSUME NEW h \in Hives, EndPoll(h) PROVE AllFacts'
  <2>1. Fact(UnknownLoad) /\ Fact(Pending)
    BY UnknownTyped DEF Fact, Inexact, Pending
  <2>2. \A m \in Members : Fact(LoadsTold(h)[m])
    BY <1>1, <2>1 DEF LoadsTold
  <2>3. \A g \in Hives : loads'[g] = IF g = h THEN LoadsTold(h) ELSE loads[g]
    BY <1>7 DEF EndPoll, TypeOK
  <2>4. \A g \in Hives, k \in Members :
            told'[g][k] = IF g = h THEN Pending ELSE told[g][k]
    BY <1>7 DEF EndPoll, TypeOK, Untold
  <2>5. \A g \in Hives, k \in Members : New(g, k)
    BY <1>1, <2>1, <2>2, <2>3, <2>4
  <2> QED BY <1>0, <1>7, <2>5 DEF EndPoll, world
<1>8. ASSUME NEW s \in Servers, NEW n \in Numbers, Work(s, n) PROVE AllFacts'
  <2>1. \A t \in Servers : had[t] \subseteq had'[t]
    BY <1>8 DEF Work, TypeOK
  <2>2. \A t \in Servers : busy'[t] \in had'[t]
    BY <1>8 DEF Work, TypeOK, AllFacts
  <2>3. UNCHANGED <<loads, told>>
    BY <1>8 DEF Work, polls
  <2>4. \A h \in Hives, m \in Members : Fact(loads[h][m])' /\ Fact(told[h][m])'
    BY <1>1, <2>1, <2>3 DEF Fact, Inexact
  <2> QED BY <2>2, <2>4 DEF AllFacts
<1>9. ASSUME NEW h \in Hives, NEW m \in Members, Fly(h, m) \/ Land(h, m) \/ Scanned(h, m)
      PROVE  AllFacts'
  BY <1>2, <1>9 DEF Fly, Land, Scanned, polls
<1>10. CASE UNCHANGED vars
  BY <1>2, <1>10 DEF vars, world, polls
<1> QED BY <1>4, <1>5, <1>6, <1>7, <1>8, <1>9, <1>10 DEF Next, Poll

-----------------------------------------------------------------------------
LEMMA PollsInvariant == Spec => [](TypeOK /\ AllFacts)
<1>1. Init => TypeOK /\ AllFacts
  BY PollsTypeInit, PollsInit
<1>2. TypeOK /\ AllFacts /\ [Next]_vars => (TypeOK /\ AllFacts)'
  BY TypeNext, FactsNext
<1> QED BY <1>1, <1>2, PTL DEF Spec

\* The load maps, the running polls and the counts keep their types, whatever
\* the kinds of server and however the hives are linked (refresh_load).
THEOREM PollsTypeCorrect == Spec => []TypeOK
BY PollsInvariant, PTL

\* However many hives hand a load on, in whatever order they poll and whatever
\* polls are lost: what is advertised as exact is a number a server has had
\* (load.rs: effective_load, HivLoadProbe; hive.rs: aggregate_load).
THEOREM FactsStayFacts == Spec => []ExactIsFact
<1>1. TypeOK /\ AllFacts => ExactIsFact
  BY AggregateFact DEF ExactIsFact
<1> QED BY <1>1, PollsInvariant, PTL
=============================================================================
