----------------------------- MODULE ProxyProofs -----------------------------
(***************************************************************************)
(* What module Proxy guarantees for any number of requests and backends,   *)
(* proved.                                                                 *)
(***************************************************************************)
EXTENDS Proxy, OrderProofs

USE DEF NoBackend

\* The turn stays a remainder.
LEMMA NextTurnInRange ==
    ASSUME NEW t \in Nat, NEW n \in Nat \ {0}
    PROVE  NextTurn(t, n) \in 0..(n - 1)
BY DEF NextTurn

-----------------------------------------------------------------------------
(* Type correctness.                                                        *)

LEMMA TypeInit == Init => TypeOK
<1> SUFFICES ASSUME Init PROVE TypeOK
  OBVIOUS
<1> USE ProxyConstants DEF Init
<1>1. UnknownLoad \in [kind : LoadKinds, n : Nat]
  BY DEF UnknownLoad, LoadKinds
<1>2. NoOutcome \in Outcomes
  BY DEF NoOutcome, Outcomes, OutcomeStatuses, Statuses, Errors
<1>3. "idle" \in Stages /\ "untried" \in Verdicts /\ "none" \in Bodies \cap Oneshots
  BY DEF Stages, Verdicts, Bodies, Oneshots
<1>4. logged \in [Reqs -> Seq(Outcomes)]
  BY DEF Init
<1>5. members \subseteq Backends
  BY DEF Init
<1>6. turn \in 0..(TurnSpace - 1)
  BY DEF Init
<1> QED BY <1>1, <1>2, <1>3, <1>4, <1>5, <1>6 DEF TypeOK

\* An outcome the handler makes is one it may log.
LEMMA GoLogType ==
    ASSUME TypeOK, NEW r \in Reqs, NEW s \in OutcomeStatuses,
           NEW b \in Backends \cup {NoBackend}, GoLog(r, s, b)
    PROVE  pc' \in [Reqs -> Stages] /\ outcome' \in [Reqs -> Outcomes]
BY DEF TypeOK, GoLog, Stages, Handling, Outcomes, Errors

LEMMA NextCandidateType ==
    ASSUME TypeOK, NEW r \in Reqs, NextCandidate(r)
    PROVE  pc' \in [Reqs -> Stages] /\ outcome' \in [Reqs -> Outcomes]
<1>1. CASE left[r] = {}
  <2>1. "exhausted" \in OutcomeStatuses
    BY DEF OutcomeStatuses
  <2> QED BY <1>1, <2>1, GoLogType DEF NextCandidate
<1>2. CASE left[r] # {}
  BY <1>2 DEF NextCandidate, TypeOK, Stages, Handling
<1> QED BY <1>1, <1>2

LEMMA ReleaseType ==
    ASSUME inflight \in [Backends -> Nat], NEW b, Release(b)
    PROVE  inflight' \in [Backends -> Nat]
<1>1. CASE b \in Backends
  BY <1>1 DEF Release
<1>2. CASE b \notin Backends
  BY <1>2 DEF Release
<1> QED BY <1>1, <1>2

LEMMA EnterType ==
    ASSUME pc \in [Reqs -> Stages], NEW r, NEW s \in Stages, Enter(r, s)
    PROVE  pc' \in [Reqs -> Stages]
BY DEF Enter

LEMMA ConcludeType ==
    ASSUME TypeOK, NEW r \in Reqs, NEW v \in Verdicts, Conclude(r, v)
    PROVE  verdict' \in [Reqs -> [Backends -> Verdicts]]
BY DEF TypeOK, Conclude

LEMMA OpenStreamType ==
    ASSUME TypeOK, NEW r \in Reqs, OpenStream(r)
    PROVE  /\ pc' \in [Reqs -> Stages]
           /\ body' \in [Reqs -> Bodies] /\ oneshot' \in [Reqs -> Oneshots]
<1>1. "streaming" \in Stages /\ "open" \in Bodies /\ "open" \in Oneshots
  BY DEF Stages, Bodies, Oneshots
<1> QED BY <1>1 DEF TypeOK, OpenStream, Enter

\* What the handler may rely on between two steps: a guard is held on a
\* backend; past the headers there is a status, a retryable one while the
\* refusal is drained; before routing nothing was tried.
Attempt(r) ==
    /\ Guarded(r) => at[r] \in Backends
    /\ pc[r] \in {"draining", "reading", "streaming"} =>
            verdict[r][at[r]] \in Statuses
    /\ pc[r] = "draining" => verdict[r][at[r]] \in Retryable
    /\ pc[r] \in {"idle", "routing", "filtering"} =>
            \A b \in Backends : verdict[r][b] = "untried"
AttemptKnown == \A r \in Reqs : Attempt(r)

LEMMA TypeStep == TypeOK /\ AttemptKnown /\ [Next]_vars => TypeOK'
<1> SUFFICES ASSUME TypeOK, AttemptKnown, [Next]_vars PROVE TypeOK'
  OBVIOUS
<1> USE DEF view, tee, asked, route
<1>1. ASSUME NEW r \in Reqs, Receive(r) PROVE TypeOK'
  <2>1. pc' \in [Reqs -> Stages] /\ outcome' \in [Reqs -> Outcomes]
    <3>1. "bad_request" \in OutcomeStatuses /\ "routing" \in Stages
      BY DEF OutcomeStatuses, Stages, Handling
    <3> QED BY <1>1, <3>1, GoLogType, EnterType DEF Receive, TypeOK
  <2>2. streams' \in [Reqs -> BOOLEAN] /\ via' \in [Reqs -> SUBSET Backends]
    <3>1. \A s \in BOOLEAN : [streams EXCEPT ![r] = s] \in [Reqs -> BOOLEAN]
      BY DEF TypeOK
    <3>2. \A V \in ViaPaths : [via EXCEPT ![r] = V] \in [Reqs -> SUBSET Backends]
      BY ProxyConstants DEF TypeOK
    <3>3. streams' = streams \/ \E s \in BOOLEAN : streams' = [streams EXCEPT ![r] = s]
      BY <1>1 DEF Receive
    <3>4. via' = via \/ \E V \in ViaPaths : via' = [via EXCEPT ![r] = V]
      BY <1>1 DEF Receive
    <3>5. streams \in [Reqs -> BOOLEAN] /\ via \in [Reqs -> SUBSET Backends]
      BY DEF TypeOK
    <3>6. streams' \in [Reqs -> BOOLEAN]
      BY <3>1, <3>3, <3>5
    <3>7. via' \in [Reqs -> SUBSET Backends]
      BY <3>2, <3>4, <3>5
    <3> QED BY <3>6, <3>7
  <2> QED BY <1>1, <2>1, <2>2 DEF Receive, TypeOK
<1>2. ASSUME NEW r \in Reqs, Rank(r) PROVE TypeOK'
  <2> DEFINE eff == [b \in Backends |-> EffectiveLoad(reported[b], inflight[b]).n]
             p == [b \in Backends |-> IF b \in members
                        THEN Place(members, cooling, eff, turn, b) ELSE 0]
  <2>1. IsFiniteSet(members) /\ turn \in Int
    <3>1. members \subseteq Backends /\ turn \in 0..(TurnSpace - 1)
      BY DEF TypeOK
    <3>2. IsFiniteSet(members)
      BY <3>1, ProxyConstants, FS_Subset
    <3> QED BY <3>1, <3>2, ProxyConstants
  <2>2. p \in [Backends -> Nat]
    <3>1. members \in SUBSET Nat
      BY ProxyConstants DEF TypeOK
    <3> HIDE DEF eff
    <3> QED BY <2>1, <3>1, PlaceIsNat
  <2>3. place' = [place EXCEPT ![r] = p]
    BY <1>2 DEF Rank
  <2>4. place' \in [Reqs -> [Backends -> Nat]]
    <3> HIDE DEF p
    <3> QED BY <2>2, <2>3 DEF TypeOK
  <2>5. turn' \in 0..(TurnSpace - 1)
    BY <1>2, NextTurnInRange, ProxyConstants DEF Rank, TypeOK
  <2>6. pc' \in [Reqs -> Stages]
    BY <1>2, EnterType DEF Rank, TypeOK, Stages, Handling
  <2>7. left' \in [Reqs -> SUBSET Backends] /\ shunned' \in [Reqs -> SUBSET Backends]
    BY <1>2 DEF Rank, TypeOK
  <2>8. UNCHANGED <<members, reported, cooling, inflight, tee, asked, at, verdict, outcome, logged>>
    BY <1>2 DEF Rank
  <2> HIDE DEF eff, p
  <2> QED BY <2>4, <2>5, <2>6, <2>7, <2>8 DEF TypeOK
<1>3. ASSUME NEW r \in Reqs, Filter(r) PROVE TypeOK'
  <2>1. pc' \in [Reqs -> Stages] /\ outcome' \in [Reqs -> Outcomes]
    <3>1. {"loop", "not_found"} \subseteq OutcomeStatuses /\ "sending" \in Stages
      BY DEF OutcomeStatuses, Stages, Handling
    <3> QED BY <1>3, <3>1, GoLogType, EnterType DEF Filter, TypeOK
  <2>2. left' \in [Reqs -> SUBSET Backends]
    BY <1>3 DEF Filter, TypeOK
  <2> QED BY <1>3, <2>1, <2>2 DEF Filter, TypeOK
<1>4. ASSUME NEW r \in Reqs, Send(r) PROVE TypeOK'
  <2>1. PICK b \in left[r] : at' = [at EXCEPT ![r] = b]
                             /\ left' = [left EXCEPT ![r] = @ \ {b}] /\ Count(b)
    BY <1>4 DEF Send
  <2>2. b \in Backends
    BY DEF TypeOK
  <2>3. at' \in [Reqs -> Backends \cup {NoBackend}] /\ left' \in [Reqs -> SUBSET Backends]
    BY <2>1, <2>2 DEF TypeOK
  <2>4. inflight' \in [Backends -> Nat]
    BY <2>1, <2>2 DEF Count, TypeOK
  <2>5. pc' \in [Reqs -> Stages]
    BY <1>4, EnterType DEF Send, TypeOK, Stages, Handling
  <2> QED BY <1>4, <2>3, <2>4, <2>5 DEF Send, TypeOK
<1>5. ASSUME NEW r \in Reqs, NEW s \in Statuses, Answer(r, s) PROVE TypeOK'
  <2>1. /\ pc' \in [Reqs -> Stages]
        /\ body' \in [Reqs -> Bodies] /\ oneshot' \in [Reqs -> Oneshots]
    <3>1. {"draining", "reading"} \subseteq Stages
      BY DEF Stages, Handling
    <3>2. CASE OpenStream(r)
      BY <3>2, OpenStreamType
    <3>3. CASE UNCHANGED tee /\ \E stage \in {"draining", "reading"} : Enter(r, stage)
      BY <3>1, <3>3, EnterType DEF TypeOK
    <3>4. \/ OpenStream(r)
          \/ UNCHANGED tee /\ \E stage \in {"draining", "reading"} : Enter(r, stage)
      BY <1>5 DEF Answer
    <3> QED BY <3>2, <3>3, <3>4
  <2>2. verdict' \in [Reqs -> [Backends -> Verdicts]]
    BY <1>5, ConcludeType DEF Answer, Verdicts
  <2>3. cooling' \subseteq Backends
    BY <1>5 DEF Answer, MarkHealthy, TypeOK
  <2> QED BY <1>5, <2>1, <2>2, <2>3 DEF Answer, TypeOK
<1>6. ASSUME NEW r \in Reqs, ReadTimeout(r) PROVE TypeOK'
  <2>1. pc' \in [Reqs -> Stages] /\ outcome' \in [Reqs -> Outcomes]
    BY <1>6, GoLogType DEF ReadTimeout, OutcomeStatuses, TypeOK
  <2>2. verdict' \in [Reqs -> [Backends -> Verdicts]]
    BY <1>6, ConcludeType DEF ReadTimeout, Verdicts
  <2> QED BY <1>6, <2>1, <2>2 DEF ReadTimeout, TypeOK
<1>7. ASSUME NEW r \in Reqs, Unreachable(r) PROVE TypeOK'
  <2>1. pc' \in [Reqs -> Stages] /\ outcome' \in [Reqs -> Outcomes]
    BY <1>7, NextCandidateType DEF Unreachable
  <2>2. verdict' \in [Reqs -> [Backends -> Verdicts]]
    BY <1>7, ConcludeType DEF Unreachable, Verdicts
  <2>3. at[r] \in Backends
    BY <1>7 DEF Unreachable, AttemptKnown, Attempt, Guarded
  <2>4. cooling' \subseteq Backends
    BY <1>7, <2>3 DEF Unreachable, MarkFailed, TypeOK
  <2>5. inflight' \in [Backends -> Nat]
    BY <1>7, ReleaseType DEF Unreachable, TypeOK
  <2> QED BY <1>7, <2>1, <2>2, <2>4, <2>5 DEF Unreachable, TypeOK
<1>8. ASSUME NEW r \in Reqs, Drain(r) PROVE TypeOK'
  <2>1. pc' \in [Reqs -> Stages] /\ outcome' \in [Reqs -> Outcomes]
    BY <1>8, NextCandidateType DEF Drain
  <2>2. at[r] \in Backends
    BY <1>8 DEF Drain, AttemptKnown, Attempt, Guarded
  <2>3. cooling' \subseteq Backends
    BY <1>8, <2>2 DEF Drain, MarkFailed, TypeOK
  <2>4. inflight' \in [Backends -> Nat]
    BY <1>8, ReleaseType DEF Drain, TypeOK
  <2> QED BY <1>8, <2>1, <2>3, <2>4 DEF Drain, TypeOK
<1>9. ASSUME NEW r \in Reqs, ReadBody(r) PROVE TypeOK'
  <2>1. PICK s \in {verdict[r][at[r]], "timeout", "cut"} : GoLog(r, s, at[r])
    BY <1>9 DEF ReadBody
  <2>2. s \in OutcomeStatuses
    BY <1>9, <2>1 DEF ReadBody, AttemptKnown, Attempt, OutcomeStatuses
  <2>3. pc' \in [Reqs -> Stages] /\ outcome' \in [Reqs -> Outcomes]
    BY <2>1, <2>2, GoLogType DEF TypeOK
  <2> QED BY <1>9, <2>3 DEF ReadBody, TypeOK
<1>10. ASSUME NEW r \in Reqs, Log(r) PROVE TypeOK'
  <2>1. logged' \in [Reqs -> Seq(Outcomes)]
    BY <1>10 DEF Log, TypeOK
  <2>2. inflight' \in [Backends -> Nat]
    BY <1>10, ReleaseType DEF Log, TypeOK
  <2>3. pc' \in [Reqs -> Stages]
    BY <1>10, EnterType DEF Log, TypeOK, Stages
  <2> QED BY <1>10, <2>1, <2>2, <2>3 DEF Log, TypeOK
<1>11. ASSUME NEW r \in Reqs, Settle(r) PROVE TypeOK'
  <2> DEFINE o == [status |-> verdict[r][at[r]], upstream |-> at[r], error |-> StreamError(r)]
  <2>1. StreamError(r) \in Errors
    BY DEF StreamError, Errors
  <2>2. o \in Outcomes
    BY <1>11, <2>1 DEF Settle, AttemptKnown, Attempt, TypeOK, Outcomes, OutcomeStatuses
  <2>3. outcome' = [outcome EXCEPT ![r] = o]
    BY <1>11 DEF Settle
  <2>4. outcome' \in [Reqs -> Outcomes]
    <3> HIDE DEF o
    <3> QED BY <2>2, <2>3 DEF TypeOK
  <2>5. pc' \in [Reqs -> Stages]
    BY <1>11, EnterType DEF Settle, TypeOK, Stages
  <2> QED BY <1>11, <2>4, <2>5 DEF Settle, TypeOK
<1>12. ASSUME NEW r \in Reqs, LogStream(r) PROVE TypeOK'
  <2>1. logged' \in [Reqs -> Seq(Outcomes)]
    BY <1>12 DEF LogStream, TypeOK
  <2>2. inflight' \in [Backends -> Nat]
    BY <1>12, ReleaseType DEF LogStream, TypeOK
  <2>3. pc' \in [Reqs -> Stages]
    BY <1>12, EnterType DEF LogStream, TypeOK, Stages
  <2> QED BY <1>12, <2>1, <2>2, <2>3 DEF LogStream, TypeOK
<1>13. ASSUME NEW r \in Reqs, ClientGone(r) PROVE TypeOK'
  <2>1. inflight' \in [Backends -> Nat]
    BY <1>13, ReleaseType DEF ClientGone, TypeOK
  <2>2. pc' \in [Reqs -> Stages]
    BY <1>13, EnterType DEF ClientGone, TypeOK, Stages
  <2> QED BY <1>13, <2>1, <2>2 DEF ClientGone, TypeOK
<1>14. ASSUME NEW r \in Reqs, Deliver(r) PROVE TypeOK'
  <2>1. pc' \in [Reqs -> Stages]
    BY <1>14, EnterType DEF Deliver, TypeOK, Stages
  <2> QED BY <1>14, <2>1 DEF Deliver, TypeOK
<1>15. ASSUME NEW r \in Reqs, EndBody(r) \/ BreakBody(r) \/ DropBody(r) PROVE TypeOK'
  <2>1. body' \in [Reqs -> Bodies]
    BY <1>15 DEF EndBody, BreakBody, DropBody, TypeOK, Bodies
  <2>2. oneshot' \in [Reqs -> Oneshots]
    BY <1>15 DEF EndBody, BreakBody, DropBody, TypeOK, Oneshots
  <2>3. UNCHANGED <<view, inflight, pc, asked, route, left, at, verdict, outcome, logged>>
    BY <1>15 DEF EndBody, BreakBody, DropBody
  <2> QED BY <2>1, <2>2, <2>3 DEF TypeOK
<1>16. ASSUME Environment PROVE TypeOK'
  <2>1. ASSUME NEW S \in Memberships, Rescan(S) PROVE TypeOK'
    <3>1. turn' \in 0..(TurnSpace - 1) /\ members' \subseteq Backends
      BY <2>1, ProxyConstants DEF Rescan, TypeOK
    <3> QED BY <2>1, <3>1 DEF Rescan, TypeOK
  <2>2. ASSUME NEW f \in LoadMaps, RefreshLoad(f) PROVE TypeOK'
    <3>1. reported' \in [Backends -> [kind : LoadKinds, n : Nat]]
      BY <2>2, ProxyConstants DEF RefreshLoad
    <3> QED BY <2>2, <3>1 DEF RefreshLoad, TypeOK
  <2>3. ASSUME NEW b \in Backends, CoolOff(b) PROVE TypeOK'
    BY <2>3 DEF CoolOff, TypeOK
  <2> QED BY <1>16, <2>1, <2>2, <2>3 DEF Environment
<1>17. CASE UNCHANGED vars
  BY <1>17 DEF vars, TypeOK
<1> QED
  BY <1>1, <1>2, <1>3, <1>4, <1>5, <1>6, <1>7, <1>8, <1>9, <1>10, <1>11, <1>12, <1>13,
     <1>14, <1>15, <1>16, <1>17 DEF Next, Handler, Server

-----------------------------------------------------------------------------
(* A step of one request's handler leaves the other requests alone.         *)

Steps(r) == Receive(r) \/ Handler(r) \/ Server(r)

Apart(q) ==
    /\ pc'[q] = pc[q] /\ body'[q] = body[q] /\ oneshot'[q] = oneshot[q] /\ at'[q] = at[q]
    /\ outcome'[q] = outcome[q] /\ verdict'[q] = verdict[q]
    /\ left'[q] = left[q] /\ logged'[q] = logged[q] /\ streams'[q] = streams[q]

LEMMA MovesOne ==
    ASSUME TypeOK, NEW r \in Reqs, Steps(r), NEW q \in Reqs, q # r
    PROVE  Apart(q)
<1> USE DEF Apart, TypeOK, tee, asked, Enter, OpenStream, GoLog, NextCandidate, Conclude
<1>1. CASE Receive(r)
  BY <1>1 DEF Receive
<1>2. CASE Rank(r)
  BY <1>2 DEF Rank
<1>3. CASE Filter(r)
  BY <1>3 DEF Filter
<1>4. CASE Send(r)
  BY <1>4 DEF Send
<1>5. CASE \E s \in Statuses : Answer(r, s)
  BY <1>5 DEF Answer
<1>6. CASE ReadTimeout(r)
  BY <1>6 DEF ReadTimeout
<1>7. CASE Unreachable(r)
  BY <1>7 DEF Unreachable
<1>8. CASE Drain(r)
  BY <1>8 DEF Drain
<1>9. CASE ReadBody(r)
  BY <1>9 DEF ReadBody
<1>10. CASE Log(r)
  BY <1>10 DEF Log
<1>11. CASE LogStream(r)
  BY <1>11 DEF LogStream
<1>12. CASE Settle(r)
  BY <1>12 DEF Settle
<1>13. CASE ClientGone(r)
  BY <1>13 DEF ClientGone
<1>14. CASE Deliver(r)
  BY <1>14 DEF Deliver
<1>15. CASE EndBody(r) \/ BreakBody(r) \/ DropBody(r)
  BY <1>15 DEF EndBody, BreakBody, DropBody
<1> QED
  BY <1>1, <1>2, <1>3, <1>4, <1>5, <1>6, <1>7, <1>8, <1>9, <1>10, <1>11, <1>12, <1>13, <1>14,
     <1>15 DEF Steps, Handler, Server

LEMMA AllApart ==
    ASSUME Environment \/ UNCHANGED vars, NEW q \in Reqs
    PROVE  Apart(q)
BY DEF Environment, Rescan, RefreshLoad, CoolOff, vars, tee, asked, Apart

\* Every step is one request's or nobody's.
LEMMA StepCases ==
    ASSUME [Next]_vars
    PROVE  (\E r \in Reqs : Steps(r)) \/ Environment \/ UNCHANGED vars
BY DEF Next, Steps

-----------------------------------------------------------------------------
LEMMA AttemptInit == Init => AttemptKnown
BY DEF Init, AttemptKnown, Attempt, Guarded, NoOutcome

LEMMA AttemptStep == TypeOK /\ AttemptKnown /\ [Next]_vars => AttemptKnown'
<1> SUFFICES ASSUME TypeOK, AttemptKnown, [Next]_vars PROVE AttemptKnown'
  OBVIOUS
<1>1. ASSUME NEW q \in Reqs, Apart(q) PROVE Attempt(q)'
  BY <1>1 DEF Apart, AttemptKnown, Attempt, Guarded
<1>2. ASSUME NEW r \in Reqs, Steps(r) PROVE Attempt(r)'
  <2> USE DEF AttemptKnown, Attempt, Guarded, TypeOK, Enter
  <2>1. CASE Receive(r)
    BY <2>1 DEF Receive, GoLog
  <2>2. CASE Rank(r)
    BY <2>2 DEF Rank
  <2>3. CASE Filter(r)
    BY <2>3 DEF Filter, GoLog
  <2>4. CASE Send(r)
    BY <2>4 DEF Send
  <2>5. ASSUME NEW s \in Statuses, Answer(r, s) PROVE Attempt(r)'
    BY <2>5 DEF Answer, OpenStream, Conclude, Statuses, Retryable
  <2>6. CASE ReadTimeout(r)
    BY <2>6 DEF ReadTimeout, GoLog
  <2>7. CASE Unreachable(r)
    BY <2>7 DEF Unreachable, NextCandidate, GoLog
  <2>8. CASE Drain(r)
    BY <2>8 DEF Drain, NextCandidate, GoLog
  <2>9. CASE ReadBody(r)
    BY <2>9 DEF ReadBody, GoLog
  <2>10. CASE Log(r)
    BY <2>10 DEF Log
  <2>11. CASE LogStream(r)
    BY <2>11 DEF LogStream
  <2>12. CASE Settle(r)
    BY <2>12 DEF Settle
  <2>13. CASE ClientGone(r)
    BY <2>13 DEF ClientGone
  <2>14. CASE Deliver(r)
    BY <2>14 DEF Deliver
  <2>15. CASE EndBody(r) \/ BreakBody(r) \/ DropBody(r)
    BY <2>15 DEF EndBody, BreakBody, DropBody
  <2> QED
    BY <1>2, <2>1, <2>2, <2>3, <2>4, <2>5, <2>6, <2>7, <2>8, <2>9, <2>10, <2>11, <2>12, <2>13,
       <2>14, <2>15 DEF Steps, Handler, Server
<1>3. \A q \in Reqs : Attempt(q)'
  BY <1>1, <1>2, MovesOne, AllApart, StepCases
<1> QED BY <1>3 DEF AttemptKnown, Attempt, Guarded

\* Every variable keeps its type, whatever the number of requests and of
\* backends: the statuses the handler logs, the places it ranks by and the
\* counts it keeps stay what the code declares them to be.
THEOREM TypeCorrect == Spec => [](TypeOK /\ AttemptKnown)
<1>1. Init => TypeOK /\ AttemptKnown
  BY TypeInit, AttemptInit
<1>2. TypeOK /\ AttemptKnown /\ [Next]_vars => (TypeOK /\ AttemptKnown)'
  BY TypeStep, AttemptStep
<1> QED BY <1>1, <1>2, PTL DEF Spec

-----------------------------------------------------------------------------
(* The in-flight counts are exact.                                          *)

LEMMA HoldersFinite ==
    ASSUME NEW b PROVE IsFiniteSet(Holders(b)) /\ Cardinality(Holders(b)) \in Nat
<1>1. Holders(b) \subseteq Reqs
  BY DEF Holders
<1> QED BY <1>1, ProxyConstants, FS_Subset, FS_CardinalityType

\* A step that neither takes nor drops a guard.
LEMMA SameGuards ==
    ASSUME TypeOK, InflightExact, UNCHANGED inflight,
           \A q \in Reqs : (Guarded(q)' <=> Guarded(q)) /\ (Guarded(q) => at'[q] = at[q])
    PROVE  InflightExact'
<1>1. ASSUME NEW b \in Backends PROVE Holders(b)' = Holders(b)
  BY DEF Holders
<1> QED BY <1>1 DEF InflightExact

\* A guard taken with the count it stands for.
LEMMA GuardTaken ==
    ASSUME TypeOK, InflightExact, NEW r \in Reqs, NEW b \in Backends,
           Count(b), ~Guarded(r), Guarded(r)', at'[r] = b,
           \A q \in Reqs : q # r => at'[q] = at[q] /\ (Guarded(q)' <=> Guarded(q))
    PROVE  InflightExact'
<1> SUFFICES ASSUME NEW c \in Backends PROVE (inflight[c] = Cardinality(Holders(c)))'
  BY DEF InflightExact
<1>1. CASE c = b
  <2>1. Holders(b)' = Holders(b) \cup {r} /\ r \notin Holders(b)
    BY DEF Holders
  <2>2. Cardinality(Holders(b) \cup {r}) = Cardinality(Holders(b)) + 1
    BY <2>1, HoldersFinite, FS_AddElement
  <2>3. inflight'[b] = inflight[b] + 1
    BY DEF Count, TypeOK
  <2> QED BY <1>1, <2>1, <2>2, <2>3 DEF InflightExact
<1>2. CASE c # b
  <2>1. Holders(c)' = Holders(c)
    BY <1>2 DEF Holders
  <2>2. inflight'[c] = inflight[c]
    BY <1>2 DEF Count, TypeOK
  <2> QED BY <2>1, <2>2 DEF InflightExact
<1> QED BY <1>1, <1>2

\* A guard dropped: saturating_sub never saturates.
LEMMA GuardDropped ==
    ASSUME TypeOK, InflightExact, NEW r \in Reqs, at[r] \in Backends,
           Release(at[r]), Guarded(r), ~Guarded(r)',
           \A q \in Reqs : q # r => at'[q] = at[q] /\ (Guarded(q)' <=> Guarded(q))
    PROVE  InflightExact'
<1> SUFFICES ASSUME NEW c \in Backends PROVE (inflight[c] = Cardinality(Holders(c)))'
  BY DEF InflightExact
<1>1. CASE c = at[r]
  <2>1. Holders(c)' = Holders(c) \ {r} /\ r \in Holders(c)
    BY <1>1 DEF Holders
  <2>2. Cardinality(Holders(c) \ {r}) = Cardinality(Holders(c)) - 1
    BY <2>1, HoldersFinite, FS_RemoveElement
  <2>3. Cardinality(Holders(c)) > 0
    BY <2>1, HoldersFinite, FS_EmptySet
  <2>4. inflight'[c] = inflight[c] - 1
    BY <1>1, <2>3 DEF Release, InflightExact, TypeOK
  <2> QED BY <2>1, <2>2, <2>4 DEF InflightExact
<1>2. CASE c # at[r]
  <2>1. Holders(c)' = Holders(c)
    BY <1>2 DEF Holders
  <2>2. inflight'[c] = inflight[c]
    BY <1>2 DEF Release, TypeOK
  <2> QED BY <2>1, <2>2 DEF InflightExact
<1> QED BY <1>1, <1>2

LEMMA InflightInit == Init => InflightExact
<1> SUFFICES ASSUME Init, NEW b \in Backends PROVE inflight[b] = Cardinality(Holders(b))
  BY DEF InflightExact
<1>1. Holders(b) = {}
  BY ProxyConstants DEF Init, Holders, Guarded
<1> QED BY <1>1, FS_EmptySet DEF Init

LEMMA InflightStep ==
    TypeOK /\ AttemptKnown /\ InflightExact /\ [Next]_vars => InflightExact'
<1> SUFFICES ASSUME TypeOK, AttemptKnown, InflightExact, [Next]_vars PROVE InflightExact'
  OBVIOUS
<1>1. ASSUME NEW q \in Reqs, Apart(q) PROVE at'[q] = at[q] /\ (Guarded(q)' <=> Guarded(q))
  BY <1>1 DEF Apart, Guarded
<1>2. ASSUME NEW r \in Reqs, Steps(r) PROVE InflightExact'
  <2>1. \A q \in Reqs : q # r => at'[q] = at[q] /\ (Guarded(q)' <=> Guarded(q))
    BY <1>1, <1>2, MovesOne
  <2>2. ASSUME UNCHANGED inflight, Guarded(r)' <=> Guarded(r), Guarded(r) => at'[r] = at[r]
        PROVE  InflightExact'
    BY <2>1, <2>2, SameGuards
  <2>3. ASSUME Release(at[r]), Guarded(r), ~Guarded(r)' PROVE InflightExact'
    BY <2>1, <2>3, GuardDropped DEF AttemptKnown, Attempt
  <2> USE DEF TypeOK, Enter, Guarded
  <2>4. CASE Receive(r)
    <3>1. ~Guarded(r) /\ ~Guarded(r)'
      BY <2>4 DEF Receive, GoLog
    <3> QED BY <2>2, <2>4, <3>1 DEF Receive
  <2>5. CASE Rank(r)
    BY <2>2, <2>5 DEF Rank
  <2>6. CASE Filter(r)
    BY <2>2, <2>6 DEF Filter, GoLog
  <2>7. CASE Send(r)
    <3>1. PICK b \in left[r] : at' = [at EXCEPT ![r] = b] /\ Count(b)
      BY <2>7 DEF Send
    <3>2. b \in Backends /\ at'[r] = b /\ ~Guarded(r) /\ Guarded(r)'
      BY <2>7, <3>1 DEF Send
    <3> HIDE DEF Guarded, TypeOK
    <3> QED BY <2>1, <3>1, <3>2, GuardTaken
  <2>8. ASSUME NEW s \in Statuses, Answer(r, s) PROVE InflightExact'
    BY <2>2, <2>8 DEF Answer, OpenStream
  <2>9. CASE ReadTimeout(r)
    <3>1. at[r] \in Backends
      BY <2>9 DEF ReadTimeout, AttemptKnown, Attempt
    <3> QED BY <2>2, <2>9, <3>1, ProxyConstants DEF ReadTimeout, GoLog
  <2>10. CASE Unreachable(r)
    <3>1. Guarded(r) /\ ~Guarded(r)'
      BY <2>10 DEF Unreachable, NextCandidate, GoLog
    <3> QED BY <2>3, <2>10, <3>1 DEF Unreachable
  <2>11. CASE Drain(r)
    <3>1. Guarded(r) /\ ~Guarded(r)'
      BY <2>11 DEF Drain, NextCandidate, GoLog
    <3> QED BY <2>3, <2>11, <3>1 DEF Drain
  <2>12. CASE ReadBody(r)
    <3>1. at[r] \in Backends
      BY <2>12 DEF ReadBody, AttemptKnown, Attempt
    <3>2. Guarded(r) /\ Guarded(r)'
      BY <2>12, <3>1, ProxyConstants DEF ReadBody, GoLog
    <3> QED BY <2>2, <2>12, <3>2 DEF ReadBody
  <2>13. CASE Log(r)
    <3>1. ~Guarded(r)'
      BY <2>13 DEF Log
    <3>2. CASE Guarded(r)
      BY <2>3, <2>13, <3>1, <3>2 DEF Log
    <3>3. CASE ~Guarded(r)
      BY <2>2, <2>13, <3>1, <3>3 DEF Log
    <3> QED BY <3>2, <3>3
  <2>14. CASE LogStream(r)
    <3>1. Guarded(r) /\ ~Guarded(r)'
      BY <2>14 DEF LogStream
    <3> QED BY <2>3, <2>14, <3>1 DEF LogStream
  <2>15. CASE Settle(r)
    BY <2>2, <2>15 DEF Settle
  <2>16. CASE ClientGone(r)
    <3>1. ~Guarded(r)'
      BY <2>16 DEF ClientGone
    <3>2. CASE Guarded(r)
      BY <2>3, <2>16, <3>1, <3>2 DEF ClientGone
    <3>3. CASE ~Guarded(r)
      BY <2>2, <2>16, <3>1, <3>3 DEF ClientGone
    <3> QED BY <3>2, <3>3
  <2>17. CASE Deliver(r)
    BY <2>2, <2>17 DEF Deliver
  <2>18. CASE EndBody(r) \/ BreakBody(r) \/ DropBody(r)
    BY <2>2, <2>18 DEF EndBody, BreakBody, DropBody
  <2> QED
    BY <1>2, <2>4, <2>5, <2>6, <2>7, <2>8, <2>9, <2>10, <2>11, <2>12, <2>13, <2>14, <2>15, <2>16,
       <2>17, <2>18 DEF Steps, Handler, Server
<1>3. CASE Environment \/ UNCHANGED vars
  <2>1. UNCHANGED inflight
    BY <1>3 DEF Environment, Rescan, RefreshLoad, CoolOff, vars
  <2>2. \A q \in Reqs : at'[q] = at[q] /\ (Guarded(q)' <=> Guarded(q))
    BY <1>1, <1>3, AllApart
  <2> QED BY <2>1, <2>2, SameGuards
<1> QED BY <1>2, <1>3, StepCases

\* The in-flight count of every backend is the number of requests there, for
\* any number of requests and backends and every interleaving of failovers,
\* timeouts, stream ends and departing clients: no count leaks, none is
\* released twice, and the drop's saturating_sub never saturates.
THEOREM InflightNeverLeaks == Spec => []InflightExact
<1>1. Init => InflightExact
  BY InflightInit
<1>2. TypeOK /\ AttemptKnown /\ InflightExact /\ [Next]_vars => InflightExact'
  BY InflightStep
<1> QED BY <1>1, <1>2, TypeCorrect, PTL DEF Spec

-----------------------------------------------------------------------------
(* Failover and the query log.                                              *)

\* The body and the oneshot of r agree with one another and with its task: a
\* sender that is still there belongs to a body that is not at its end.
NoStream(r) == body[r] = "none" /\ oneshot[r] = "none"
Reading(r) == body[r] \in {"open", "broken"} /\ oneshot[r] = "open"
Over(r) ==
    \/ body[r] = "ended" /\ oneshot[r] = "sent"
    \/ body[r] \in {"broken", "dropped"} /\ oneshot[r] = "closed"
Teed(r) ==
    /\ NoStream(r) \/ Reading(r) \/ Over(r)
    /\ pc[r] = "streaming" => ~NoStream(r)
    /\ pc[r] = "settling" => Over(r)
    /\ pc[r] = "done" => ~Reading(r)
    /\ pc[r] \notin {"streaming", "settling", "done"} => NoStream(r)
AllTeed == \A r \in Reqs : Teed(r)

\* Everything the answer of r rests on, at each stage of its handler.
Accountable(r) ==
    /\ \A b \in Backends : verdict[r][b] \notin Failed \cup {"untried"} =>
            at[r] = b /\ pc[r] # "sending"
    /\ pc[r] = "draining" => left[r] # {}
    /\ pc[r] \in {"reading", "streaming"} =>
            (verdict[r][at[r]] \in Retryable => left[r] = {})
    /\ pc[r] = "reading" => ~streams[r]
    /\ pc[r] \in {"logging", "settling", "answering", "done"} \/ logged[r] # <<>> =>
            Truthful(r, outcome[r])
    /\ pc[r] \in {"logging", "settling", "answering", "done"} =>
        /\ outcome[r].status = "exhausted" => left[r] = {} /\ verdict[r][at[r]] = "unreachable"
        /\ outcome[r].status \in Retryable => left[r] = {}
    /\ logged[r] \in {<<>>, <<outcome[r]>>}
    /\ pc[r] \in {"answering", "done"} => logged[r] = <<outcome[r]>>
    /\ pc[r] \notin {"answering", "done", "gone"} => logged[r] = <<>>
AllAccountable == \A r \in Reqs : Accountable(r)

LEMMA TeedInit == Init => AllTeed
BY DEF Init, AllTeed, Teed, NoStream

\* A step of the handler before there is a body.
LEMMA NotTeedYet ==
    ASSUME NEW r, UNCHANGED tee, NoStream(r), pc'[r] \notin {"streaming", "settling"}
    PROVE  Teed(r)'
BY DEF tee, NoStream, Reading, Over, Teed

LEMMA TeedStep == TypeOK /\ AllTeed /\ [Next]_vars => AllTeed'
<1> SUFFICES ASSUME TypeOK, AllTeed, [Next]_vars PROVE AllTeed'
  OBVIOUS
<1> USE DEF NoStream, Reading, Over
<1>1. ASSUME NEW q \in Reqs, Apart(q) PROVE Teed(q)'
  BY <1>1 DEF Apart, AllTeed, Teed
<1>2. ASSUME NEW r \in Reqs, Steps(r) PROVE Teed(r)'
  <2>1. Teed(r)
    BY DEF AllTeed
  <2> USE <2>1 DEF TypeOK, Enter
  <2> HIDE DEF NoStream, Reading, Over
  <2>2. CASE Receive(r)
    BY <2>2, NotTeedYet DEF Teed, Receive, GoLog
  <2>3. CASE Rank(r)
    BY <2>3, NotTeedYet DEF Teed, Rank
  <2>4. CASE Filter(r)
    BY <2>4, NotTeedYet DEF Teed, Filter, GoLog
  <2>5. CASE Send(r)
    BY <2>5, NotTeedYet DEF Teed, Send
  <2>6. ASSUME NEW s \in Statuses, Answer(r, s) PROVE Teed(r)'
    <3>1. CASE OpenStream(r)
      BY <3>1 DEF OpenStream, Teed, NoStream, Reading, Over
    <3>2. CASE UNCHANGED tee /\ pc'[r] \in {"draining", "reading"}
      BY <2>6, <3>2, NotTeedYet DEF Teed, Answer
    <3> QED BY <2>6, <3>1, <3>2 DEF Answer
  <2>7. CASE ReadTimeout(r)
    BY <2>7, NotTeedYet DEF Teed, ReadTimeout, GoLog
  <2>8. CASE Unreachable(r)
    BY <2>8, NotTeedYet DEF Teed, Unreachable, NextCandidate, GoLog
  <2>9. CASE Drain(r)
    BY <2>9, NotTeedYet DEF Teed, Drain, NextCandidate, GoLog
  <2>10. CASE ReadBody(r)
    BY <2>10, NotTeedYet DEF Teed, ReadBody, GoLog
  <2>11. CASE Log(r)
    BY <2>11, NotTeedYet DEF Teed, Log
  <2>12. CASE Settle(r)
    BY <2>12 DEF Settle, Teed, tee, NoStream, Reading, Over
  <2>13. CASE LogStream(r)
    BY <2>13 DEF LogStream, Teed, tee, NoStream, Reading, Over
  <2>14. CASE ClientGone(r)
    BY <2>14, NotTeedYet DEF Teed, ClientGone, Handling
  <2>15. CASE Deliver(r)
    BY <2>15, NotTeedYet DEF Teed, Deliver
  <2>16. CASE EndBody(r)
    BY <2>16 DEF EndBody, Teed, NoStream, Reading, Over
  <2>17. CASE BreakBody(r)
    BY <2>17 DEF BreakBody, Teed, NoStream, Reading, Over
  <2>18. CASE DropBody(r)
    BY <2>18 DEF DropBody, Teed, NoStream, Reading, Over
  <2> QED
    BY <1>2, <2>2, <2>3, <2>4, <2>5, <2>6, <2>7, <2>8, <2>9, <2>10, <2>11, <2>12, <2>13, <2>14,
       <2>15, <2>16, <2>17, <2>18 DEF Steps, Handler, Server
<1>3. \A q \in Reqs : Teed(q)'
  BY <1>1, <1>2, MovesOne, AllApart, StepCases
<1> QED BY <1>3 DEF AllTeed

LEMMA AccountableInit == Init => AllAccountable
BY DEF Init, AllAccountable, Accountable, Failed

LEMMA AccountableStep ==
    TypeOK /\ AttemptKnown /\ AllTeed /\ AllAccountable /\ [Next]_vars => AllAccountable'
<1> SUFFICES ASSUME TypeOK, AttemptKnown, AllTeed, AllAccountable, [Next]_vars
             PROVE  AllAccountable'
  OBVIOUS
<1>1. ASSUME NEW q \in Reqs, Apart(q) PROVE Accountable(q)'
  BY <1>1 DEF Apart, AllAccountable, Accountable, Truthful
<1>2. ASSUME NEW r \in Reqs, Steps(r) PROVE Accountable(r)'
  <2>1. Accountable(r) /\ Attempt(r) /\ Teed(r)
    BY DEF AllAccountable, AttemptKnown, AllTeed
  <2> USE <2>1 DEF Accountable, TypeOK, Enter, tee, asked
  <2>2. CASE Receive(r)
    BY <2>2 DEF Receive, GoLog, Attempt, Teed, NoStream, Truthful, Failed, Retryable
  <2>3. CASE Rank(r)
    BY <2>3 DEF Rank
  <2>4. CASE Filter(r)
    BY <2>4 DEF Filter, GoLog, Attempt, Teed, NoStream, Truthful, Failed, Retryable
  <2>5. CASE Send(r)
    BY <2>5 DEF Send
  <2>6. ASSUME NEW s \in Statuses, Answer(r, s) PROVE Accountable(r)'
    BY <2>6 DEF Answer, OpenStream, Conclude, Attempt, Guarded, Failed
  <2>7. CASE ReadTimeout(r)
    BY <2>7, ProxyConstants DEF ReadTimeout, GoLog, Conclude, Attempt, Guarded, Teed, NoStream,
       Truthful, Failed, Retryable
  <2>8. CASE Unreachable(r)
    BY <2>8 DEF Unreachable, NextCandidate, GoLog, Conclude, Attempt, Guarded, Teed, NoStream,
       Truthful, Failed, Retryable
  <2>9. CASE Drain(r)
    BY <2>9 DEF Drain, NextCandidate, GoLog, Attempt, Failed
  <2>10. CASE ReadBody(r)
    BY <2>10, ProxyConstants DEF ReadBody, GoLog, Attempt, Guarded, Teed, NoStream, Truthful, Failed,
       Retryable, Statuses
  <2>11. CASE Log(r)
    BY <2>11 DEF Log, Truthful
  <2>12. CASE Settle(r)
    BY <2>12, ProxyConstants DEF Settle, StreamError, Attempt, Guarded, Teed, NoStream, Reading, Over,
       Truthful, Failed, Retryable, Statuses
  <2>13. CASE LogStream(r)
    BY <2>13 DEF LogStream, Truthful
  <2>14. CASE ClientGone(r)
    BY <2>14 DEF ClientGone, Handling, Truthful
  <2>15. CASE Deliver(r)
    BY <2>15 DEF Deliver, Truthful
  <2>16. CASE EndBody(r) \/ BreakBody(r) \/ DropBody(r)
    BY <2>16 DEF EndBody, BreakBody, DropBody, Teed, NoStream, Reading, Over
  <2> HIDE DEF Accountable
  <2> QED
    BY <1>2, <2>2, <2>3, <2>4, <2>5, <2>6, <2>7, <2>8, <2>9, <2>10, <2>11, <2>12, <2>13, <2>14,
       <2>15, <2>16 DEF Steps, Handler, Server
<1>3. \A q \in Reqs : Accountable(q)'
  BY <1>1, <1>2, MovesOne, AllApart, StepCases
<1> QED BY <1>3 DEF AllAccountable

LEMMA AlwaysAccountable == Spec => [](AllTeed /\ AllAccountable)
<1>1. Init => AllTeed /\ AllAccountable
  BY TeedInit, AccountableInit
<1>2. /\ TypeOK /\ AttemptKnown /\ AllTeed /\ AllAccountable /\ [Next]_vars
      => (AllTeed /\ AllAccountable)'
  BY TeedStep, AccountableStep
<1> QED BY <1>1, <1>2, TypeCorrect, PTL DEF Spec

\* No generation runs twice: a backend that timed out or gave a final answer
\* is the last one its request is ever sent to.
THEOREM OnlyFailuresAreRetried == Spec => []OnlyFailuresRetried
<1>1. AllAccountable => OnlyFailuresRetried
  BY DEF AllAccountable, Accountable, OnlyFailuresRetried
<1> QED BY <1>1, AlwaysAccountable, PTL

\* Giving up means every candidate was tried and failed.
THEOREM FailoverIsComplete == Spec => []GivesUpLast
<1>1. TypeOK /\ AllAccountable => GivesUpLast
  <2> SUFFICES ASSUME TypeOK, AllAccountable, NEW r \in Reqs,
                      pc[r] \in {"answering", "done"},
                      outcome[r].status = "exhausted", NEW b \in Backends
               PROVE  verdict[r][b] \in Failed \cup {"untried"}
    BY DEF AllAccountable, Accountable, GivesUpLast
  <2>1. Accountable(r)
    BY DEF AllAccountable
  <2> QED BY <2>1 DEF Accountable, Failed
<1> QED BY <1>1, AlwaysAccountable, TypeCorrect, PTL

\* Whatever the number of requests, each has one entry at most, a truthful
\* one; it is in the log when the client has its whole answer, and it is not
\* while a stream's body is open.
THEOREM LogIsTruthful == Spec => []LogTellsTruth
<1>1. ASSUME TypeOK, AllTeed, AllAccountable, NEW r \in Reqs
      PROVE  /\ Len(logged[r]) <= 1
             /\ logged[r] # <<>> => Truthful(r, logged[r][1])
             /\ pc[r] = "done" => logged[r] # <<>>
             /\ body[r] = "open" => logged[r] = <<>>
  <2>1. Accountable(r) /\ Teed(r)
    BY <1>1 DEF AllTeed, AllAccountable
  <2>2. logged[r] = <<>> \/ logged[r] = <<outcome[r]>>
    BY <2>1 DEF Accountable
  <2>7. Len(logged[r]) <= 1
    <3>1. Len(<<>>) = 0 /\ Len(<<outcome[r]>>) = 1
      OBVIOUS
    <3>2. CASE logged[r] = <<>>
      BY <3>1, <3>2
    <3>3. CASE logged[r] = <<outcome[r]>>
      BY <3>1, <3>3
    <3> QED BY <2>2, <3>2, <3>3
  <2>8. logged[r] # <<>> => logged[r][1] = outcome[r]
    BY <2>2
  <2>3. logged[r] # <<>> => Truthful(r, outcome[r])
    BY <2>1 DEF Accountable
  <2>4. pc[r] = "done" => logged[r] = <<outcome[r]>>
    BY <2>1 DEF Accountable
  <2>5. body[r] = "open" => pc[r] = "streaming"
    BY <2>1 DEF Teed, NoStream, Reading, Over
  <2>6. pc[r] = "streaming" => logged[r] = <<>>
    BY <2>1 DEF Accountable
  <2>9. <<outcome[r]>> # <<>>
    OBVIOUS
  <2> HIDE DEF Truthful
  <2> QED BY <2>3, <2>4, <2>5, <2>6, <2>7, <2>8, <2>9
<1>2. TypeOK /\ AllTeed /\ AllAccountable => LogTellsTruth
  BY <1>1 DEF LogTellsTruth
<1> QED BY <1>2, AlwaysAccountable, TypeCorrect, PTL

-----------------------------------------------------------------------------
(* Backends that just failed come last.                                     *)

\* Among the candidates left, those that were cooling have later places;
\* once one of them is asked, only such are left.
Shunning(r) ==
    /\ \A b \in left[r] \ shunned[r], c \in left[r] \cap shunned[r] : place[r][b] < place[r][c]
    /\ at[r] \in shunned[r] /\ Guarded(r) => left[r] \subseteq shunned[r]
AllShunning == \A r \in Reqs : Shunning(r)

LEMMA ShunningInit == Init => AllShunning
BY DEF Init, AllShunning, Shunning

\* A step that ranks nothing and sends nothing.
LEMMA ShunningKept ==
    ASSUME NEW r, Shunning(r), place'[r] = place[r], shunned'[r] = shunned[r],
           at'[r] = at[r], left'[r] \subseteq left[r], Guarded(r)' => Guarded(r)
    PROVE  Shunning(r)'
BY DEF Shunning

LEMMA RankShuns ==
    ASSUME TypeOK, NEW r \in Reqs, Rank(r)
    PROVE  Shunning(r)'
<1> DEFINE eff == [b \in Backends |-> EffectiveLoad(reported[b], inflight[b]).n]
           p == [b \in Backends |-> IF b \in members
                    THEN Place(members, cooling, eff, turn, b) ELSE 0]
<1>1. members \in SUBSET Nat /\ members \subseteq Backends /\ IsFiniteSet(members) /\ turn \in Int
  <2>1. members \subseteq Backends /\ turn \in 0..(TurnSpace - 1)
    BY DEF TypeOK
  <2>2. IsFiniteSet(members)
    BY <2>1, ProxyConstants, FS_Subset
  <2> QED BY <2>1, <2>2, ProxyConstants
<1>2. \A b \in Backends : eff[b] \in Int
  <2>1. \A b \in Backends : reported[b].n \in Nat /\ inflight[b] \in Nat
    BY DEF TypeOK
  <2> QED BY <2>1 DEF EffectiveLoad
<1>3. /\ place'[r] = p /\ left'[r] = members /\ shunned'[r] = cooling \cap members
      /\ ~Guarded(r)'
  BY DEF Rank, TypeOK, Guarded, Enter
<1> SUFFICES ASSUME NEW b \in members \ cooling, NEW c \in members \cap cooling
             PROVE  p[b] < p[c]
  <2> HIDE DEF p
  <2> QED BY <1>3 DEF Shunning
<1>4. RankedBefore(cooling, eff, b, c)
  BY DEF RankedBefore
<1>5. \A d \in members : eff[d] \in Int
  BY <1>1, <1>2
<1> HIDE DEF eff
<1>6. Place(members, cooling, eff, turn, b) < Place(members, cooling, eff, turn, c)
  BY <1>1, <1>4, <1>5, BetterIsFirst
<1> QED BY <1>1, <1>6

LEMMA SendShuns ==
    ASSUME TypeOK, NEW r \in Reqs, Shunning(r), Send(r)
    PROVE  Shunning(r)'
<1>1. PICK b \in left[r] : /\ \A c \in left[r] : place[r][b] <= place[r][c]
                           /\ at' = [at EXCEPT ![r] = b]
                           /\ left' = [left EXCEPT ![r] = @ \ {b}]
  BY DEF Send
<1>2. at'[r] = b /\ left'[r] = left[r] \ {b} /\ UNCHANGED route
  BY <1>1 DEF Send, TypeOK
<1>3. ASSUME b \in shunned[r], NEW c \in left[r] PROVE c \in shunned[r]
  <2>1. place[r][b] <= place[r][c] /\ place[r][b] \in Nat /\ place[r][c] \in Nat
    BY <1>1 DEF TypeOK
  <2> QED BY <1>3, <2>1 DEF Shunning
<1> QED BY <1>2, <1>3 DEF Shunning, route

LEMMA ShunningStep == TypeOK /\ AllShunning /\ [Next]_vars => AllShunning'
<1> SUFFICES ASSUME TypeOK, AllShunning, [Next]_vars, NEW q \in Reqs PROVE Shunning(q)'
  BY DEF AllShunning
<1>1. Shunning(q)
  BY DEF AllShunning
<1> USE DEF route, asked, TypeOK, Enter, GoLog, Guarded
<1>2. ASSUME Apart(q), place'[q] = place[q], shunned'[q] = shunned[q] PROVE Shunning(q)'
  BY <1>1, <1>2, ShunningKept DEF Apart
<1>3. ASSUME NEW r \in Reqs, Steps(r), r # q PROVE Shunning(q)'
  <2>1. Apart(q)
    BY <1>3, MovesOne
  <2>2. place'[q] = place[q] /\ shunned'[q] = shunned[q]
    BY <1>3 DEF Steps, Handler, Receive, Rank, Filter, Send, Answer, ReadTimeout, Unreachable,
       Drain, ReadBody, Log, Settle, LogStream, Server, Deliver, EndBody, BreakBody, DropBody,
       ClientGone
  <2> QED BY <1>2, <2>1, <2>2
<1>4. CASE Environment \/ UNCHANGED vars
  <2>1. place'[q] = place[q] /\ shunned'[q] = shunned[q]
    BY <1>4 DEF Environment, Rescan, RefreshLoad, CoolOff, vars
  <2> QED BY <1>2, <1>4, <2>1, AllApart
<1>5. CASE Steps(q)
  <2>1. CASE Rank(q)
    BY <2>1, RankShuns
  <2>2. CASE Send(q)
    BY <1>1, <2>2, SendShuns
  <2>3. CASE Receive(q)
    <3>1. ~Guarded(q)'
      BY <2>3 DEF Receive
    <3>2. UNCHANGED <<route, left, at>>
      BY <2>3 DEF Receive
    <3> HIDE DEF Guarded
    <3> QED BY <1>1, <3>1, <3>2, ShunningKept
  <2>4. CASE Filter(q)
    <3>1. ~Guarded(q)'
      BY <2>4 DEF Filter
    <3>2. UNCHANGED <<route, at>> /\ left'[q] \subseteq left[q]
      BY <2>4 DEF Filter
    <3> HIDE DEF Guarded
    <3> QED BY <1>1, <3>1, <3>2, ShunningKept
  <2>5. ASSUME NEW s \in Statuses, Answer(q, s) PROVE Shunning(q)'
    BY <1>1, <2>5, ShunningKept DEF Answer, OpenStream
  <2>6. CASE ReadTimeout(q)
    BY <1>1, <2>6, ShunningKept DEF ReadTimeout
  <2>7. CASE Unreachable(q)
    <3>1. Guarded(q) /\ ~Guarded(q)'
      BY <2>7 DEF Unreachable, NextCandidate
    <3>2. UNCHANGED <<route, left, at>>
      BY <2>7 DEF Unreachable
    <3> HIDE DEF Guarded
    <3> QED BY <1>1, <3>1, <3>2, ShunningKept
  <2>8. CASE Drain(q)
    <3>1. Guarded(q) /\ ~Guarded(q)'
      BY <2>8 DEF Drain, NextCandidate
    <3>2. UNCHANGED <<route, left, at>>
      BY <2>8 DEF Drain
    <3> HIDE DEF Guarded
    <3> QED BY <1>1, <3>1, <3>2, ShunningKept
  <2>9. CASE ReadBody(q)
    BY <1>1, <2>9, ShunningKept DEF ReadBody
  <2>10. CASE Log(q)
    BY <1>1, <2>10, ShunningKept DEF Log
  <2>11. CASE LogStream(q)
    BY <1>1, <2>11, ShunningKept DEF LogStream
  <2>12. CASE Settle(q)
    BY <1>1, <2>12, ShunningKept DEF Settle
  <2>13. CASE ClientGone(q)
    BY <1>1, <2>13, ShunningKept DEF ClientGone
  <2>14. CASE Deliver(q)
    BY <1>1, <2>14, ShunningKept DEF Deliver
  <2>15. CASE EndBody(q) \/ BreakBody(q) \/ DropBody(q)
    BY <1>1, <2>15, ShunningKept DEF EndBody, BreakBody, DropBody
  <2> QED
    BY <1>5, <2>1, <2>2, <2>3, <2>4, <2>5, <2>6, <2>7, <2>8, <2>9, <2>10, <2>11, <2>12, <2>13,
       <2>14, <2>15 DEF Steps, Handler, Server
<1> QED BY <1>3, <1>4, <1>5, StepCases

\* A cooling backend is asked only when every candidate that was not cooling
\* has failed the request, for any number of backends and any loads.
THEOREM FailedComeLast == Spec => []CoolingAskedLast
<1>1. TypeOK /\ AllShunning /\ [Next]_vars => AllShunning'
  BY ShunningStep
<1>2. AllShunning => CoolingAskedLast
  BY DEF AllShunning, Shunning, CoolingAskedLast
<1> QED BY <1>1, <1>2, ShunningInit, TypeCorrect, PTL DEF Spec
=============================================================================
