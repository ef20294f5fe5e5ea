-------------------------------- MODULE Proxy --------------------------------
(***************************************************************************)
(* The request path of one hive (proxy_by_model): concurrent requests for  *)
(* one model are ranked over its backends, sent to the first one, failed   *)
(* over to the next, streamed or read, logged and answered, while scans    *)
(* change the membership, polls change the loads, cooldowns run out and    *)
(* clients leave.                                                          *)
(*                                                                         *)
(* Backends are naturals in base_url order (module Ranking).  A request is *)
(* used once.  A stretch of the handler without an await that touches      *)
(* shared state once is one step; every await is a point where the other   *)
(* requests, the scans and the client's departure come in.                 *)
(***************************************************************************)
EXTENDS Ranking, Sequences

CONSTANTS
    Reqs,           \* requests
    Backends,       \* every backend there may be
    Memberships,    \* what a scan may install: sets of backends
    LoadMaps,       \* what a poll may find: backend -> load
    ViaPaths,       \* sets of backends that are hives on a request's Via path
    TurnSpace       \* the round-robin counter's modulus (2^64 in the code)

ASSUME ProxyConstants ==
    /\ IsFiniteSet(Reqs)
    /\ Backends \subseteq Nat \ {0} /\ IsFiniteSet(Backends)
    /\ Memberships \subseteq SUBSET Backends
    /\ ViaPaths \subseteq SUBSET Backends
    /\ LoadMaps \subseteq [Backends -> [kind : LoadKinds, n : Nat]]
    /\ TurnSpace \in Nat \ {0}

NoBackend == 0

\* Upstream statuses, as far as the handler tells them apart: 2xx; 429 and
\* 503; 500 and 502; every other one (4xx, 504).
Statuses == {"ok", "busy", "broken", "refused"}
Retryable == {"busy", "broken"}

\* What became of an attempt: an answer, a read timeout, or no answer.
Verdicts == Statuses \cup {"untried", "silent", "unreachable"}

\* The statuses an answer is logged with: the upstream's, or one made here:
\* 400, 404, 502 loop detected, 504, 502 nobody left, 502 body cut short.
OutcomeStatuses ==
    Statuses \cup {"bad_request", "not_found", "loop", "timeout", "exhausted", "cut"}
\* What its error field says: nothing; that the request failed; that the
\* stream broke; that it was dropped before its end.
Errors == {"none", "failed", "broken", "unfinished"}
Outcomes ==
    [status : OutcomeStatuses, upstream : Backends \cup {NoBackend}, error : Errors]

\* The handler's stages, then: the answer is the server's to deliver; the
\* stream's task waits for the end of the body, or writes its entry.
Handling == {"routing", "filtering", "sending", "waiting", "draining", "reading", "logging"}
Stages == Handling \cup {"idle", "answering", "streaming", "settling", "done", "gone"}

\* The streamed body (TeeStream): none, being read, read to its end, failed,
\* dropped before either.  And the oneshot its end is reported through.
Bodies == {"none", "open", "ended", "broken", "dropped"}
Oneshots == {"none", "open", "sent", "closed"}

VARIABLES
    members,    \* backends serving the model (Hive::endpoints)
    reported,   \* backend -> last polled load (Hive::loads)
    inflight,   \* backend -> requests counted against it (Hive::inflight)
    cooling,    \* backends ranked last after a failure (Hive::cooldown)
    turn,       \* the model's round-robin counter (Hive::rr)
    pc,         \* request -> where its handler, or its stream's task, is
    body,       \* request -> its streamed body
    oneshot,    \* request -> the channel between body and task
    streams,    \* request -> did the client ask for a stream
    via,        \* request -> the backends that are hives it went through
    place,      \* request -> candidate -> its place in the order
    left,       \* request -> candidates not tried yet
    at,         \* request -> the backend tried last
    verdict,    \* request -> backend -> what became of that attempt
    outcome,    \* request -> the outcome being logged
    logged,     \* request -> its query-log entries
    shunned     \* history: request -> candidates cooling when it was ranked

view == <<members, reported, cooling, turn>>
asked == <<streams, via>>
route == <<place, shunned>>
tee == <<body, oneshot>>
vars == <<view, inflight, pc, tee, asked, route, left, at, verdict, outcome, logged>>

TypeOK ==
    /\ members \subseteq Backends /\ cooling \subseteq Backends
    /\ reported \in [Backends -> [kind : LoadKinds, n : Nat]]
    /\ inflight \in [Backends -> Nat]
    /\ turn \in 0..(TurnSpace - 1)
    /\ pc \in [Reqs -> Stages]
    /\ body \in [Reqs -> Bodies] /\ oneshot \in [Reqs -> Oneshots]
    /\ streams \in [Reqs -> BOOLEAN]
    /\ via \in [Reqs -> SUBSET Backends]
    /\ place \in [Reqs -> [Backends -> Nat]]
    /\ left \in [Reqs -> SUBSET Backends]
    /\ at \in [Reqs -> Backends \cup {NoBackend}]
    /\ verdict \in [Reqs -> [Backends -> Verdicts]]
    /\ outcome \in [Reqs -> Outcomes]
    /\ logged \in [Reqs -> Seq(Outcomes)]
    /\ shunned \in [Reqs -> SUBSET Backends]

NoOutcome == [status |-> "ok", upstream |-> NoBackend, error |-> "none"]

Init ==
    /\ members \in Memberships /\ cooling = {}
    /\ reported = [b \in Backends |-> UnknownLoad]
    /\ inflight = [b \in Backends |-> 0]
    /\ turn = 0
    /\ pc = [r \in Reqs |-> "idle"]
    /\ body = [r \in Reqs |-> "none"] /\ oneshot = [r \in Reqs |-> "none"]
    /\ streams = [r \in Reqs |-> FALSE]
    /\ via = [r \in Reqs |-> {}]
    /\ place = [r \in Reqs |-> [b \in Backends |-> 0]]
    /\ left = [r \in Reqs |-> {}]
    /\ at = [r \in Reqs |-> NoBackend]
    /\ verdict = [r \in Reqs |-> [b \in Backends |-> "untried"]]
    /\ outcome = [r \in Reqs |-> NoOutcome]
    /\ logged = [r \in Reqs |-> <<>>]
    /\ shunned = [r \in Reqs |-> {}]

-----------------------------------------------------------------------------
(* Shared pieces of the handler.                                           *)

\* track_inflight, and the guard's drop.
Count(b) == inflight' = [inflight EXCEPT ![b] = @ + 1]
Release(b) == inflight' = [inflight EXCEPT ![b] = IF @ > 0 THEN @ - 1 ELSE 0]

\* Does r's handler (or stream) hold an in-flight guard?
Guarded(r) ==
    \/ pc[r] \in {"waiting", "draining", "reading", "streaming", "settling"}
    \/ pc[r] = "logging" /\ outcome[r].upstream # NoBackend

MarkHealthy(b) == cooling' = cooling \ {b}
MarkFailed(b) == cooling' = cooling \cup {b}

\* Reach the log_query of an exit of the handler.
GoLog(r, status, upstream) ==
    /\ pc' = [pc EXCEPT ![r] = "logging"]
    /\ outcome' = [outcome EXCEPT ![r] =
            [status |-> status, upstream |-> upstream,
             error |-> IF status = "ok" THEN "none" ELSE "failed"]]

\* The attempt failed: take the next candidate, or give up.
NextCandidate(r) ==
    IF left[r] = {}
    THEN GoLog(r, "exhausted", NoBackend)
    ELSE pc' = [pc EXCEPT ![r] = "sending"] /\ UNCHANGED outcome

Conclude(r, v) == verdict' = [verdict EXCEPT ![r][at[r]] = v]
Enter(r, stage) == pc' = [pc EXCEPT ![r] = stage]

\* Return the body that is read as it comes, and spawn the task that waits
\* for its end.
OpenStream(r) ==
    /\ Enter(r, "streaming")
    /\ body' = [body EXCEPT ![r] = "open"] /\ oneshot' = [oneshot EXCEPT ![r] = "open"]

-----------------------------------------------------------------------------
(* Seeded bugs: variants of steps below, to see that the properties notice. *)

\* The candidate stays in the list while it is tried.
SendRequeues(r) ==
    /\ pc[r] = "sending"
    /\ \E b \in left[r] :
        /\ \A c \in left[r] : place[r][b] <= place[r][c]
        /\ at' = [at EXCEPT ![r] = b] /\ Count(b)
    /\ Enter(r, "waiting")
    /\ UNCHANGED <<view, tee, asked, route, left, verdict, outcome, logged>>

\* Any status is passed through, candidates left or not.
AnswerPassedOn(r, s) ==
    /\ pc[r] = "waiting"
    /\ Conclude(r, s) /\ MarkHealthy(at[r])
    /\ IF streams[r] THEN OpenStream(r) ELSE Enter(r, "reading") /\ UNCHANGED tee
    /\ UNCHANGED <<members, reported, turn, inflight, asked, route, left, at, outcome, logged>>

\* A timeout fails over like a connection error.
ReadTimeoutRetried(r) ==
    /\ pc[r] = "waiting"
    /\ Conclude(r, "silent") /\ Release(at[r])
    /\ NextCandidate(r)
    /\ UNCHANGED <<view, tee, asked, route, left, at, logged>>

\* The entry is left to a task of its own, and the answer not held up for it.
LogInBackground(r) ==
    /\ \/ pc[r] = "logging" /\ Enter(r, "answering") /\ UNCHANGED logged
       \/ /\ pc[r] \in {"answering", "done"} /\ body[r] = "none" /\ logged[r] = <<>>
          /\ logged' = [logged EXCEPT ![r] = Append(@, outcome[r])] /\ UNCHANGED pc
    /\ IF Guarded(r) THEN Release(at[r]) ELSE UNCHANGED inflight
    /\ UNCHANGED <<view, tee, asked, route, left, at, verdict, outcome>>

\* The sender outlives the body: somebody else holds it too.
DropBodyKeepsSender(r) ==
    /\ oneshot[r] = "open"
    /\ body' = [body EXCEPT ![r] = IF @ = "broken" THEN @ ELSE "dropped"]
    /\ UNCHANGED <<view, inflight, pc, oneshot, asked, route, left, at, verdict, outcome, logged>>

\* A cancelled handler keeps its count.
ClientGoneLeaks(r) ==
    /\ pc[r] \in (Handling \ {"sending"}) \cup {"answering"}
    /\ Enter(r, "gone")
    /\ UNCHANGED <<view, inflight, tee, asked, route, left, at, verdict, outcome, logged>>

-----------------------------------------------------------------------------
(* The handler.                                                            *)

\* A request parses, or is refused with 400.
Receive(r) ==
    /\ pc[r] = "idle"
    /\ \/ /\ Enter(r, "routing")
          /\ \E s \in BOOLEAN : streams' = [streams EXCEPT ![r] = s]
          /\ \E V \in ViaPaths : via' = [via EXCEPT ![r] = V]
          /\ UNCHANGED outcome
       \/ GoLog(r, "bad_request", NoBackend) /\ UNCHANGED asked
    /\ UNCHANGED <<view, inflight, tee, route, left, at, verdict, logged>>

\* candidates(): one routing decision; the turn advances.
Rank(r) ==
    LET eff == [b \in Backends |-> EffectiveLoad(reported[b], inflight[b]).n]
    IN /\ pc[r] = "routing"
       /\ Enter(r, "filtering")
       /\ place' = [place EXCEPT ![r] =
                        [b \in Backends |-> IF b \in members
                            THEN Place(members, cooling, eff, turn, b) ELSE 0]]
       /\ left' = [left EXCEPT ![r] = members]
       /\ shunned' = [shunned EXCEPT ![r] = cooling \cap members]
       /\ turn' = NextTurn(turn, TurnSpace)
       /\ UNCHANGED <<members, reported, cooling, inflight, tee, asked, at, verdict, outcome, logged>>

\* without_visited(): a second look at the endpoints, which a scan may have
\* replaced since, drops the candidates that are hives on the Via path.
Filter(r) ==
    LET kept == left[r] \ (members \cap via[r])
    IN /\ pc[r] = "filtering"
       /\ left' = [left EXCEPT ![r] = kept]
       /\ IF kept # {}
          THEN Enter(r, "sending") /\ UNCHANGED outcome
          ELSE GoLog(r, IF left[r] # {} THEN "loop" ELSE "not_found", NoBackend)
       /\ UNCHANGED <<view, inflight, tee, asked, route, at, verdict, logged>>

\* The next candidate in order is counted, then sent to.
Send(r) ==
    /\ pc[r] = "sending"
    /\ \E b \in left[r] :
        /\ \A c \in left[r] : place[r][b] <= place[r][c]
        /\ at' = [at EXCEPT ![r] = b]
        /\ left' = [left EXCEPT ![r] = @ \ {b}]
        /\ Count(b)
    /\ Enter(r, "waiting")
    /\ UNCHANGED <<view, tee, asked, route, verdict, outcome, logged>>

\* Response headers arrived.  A retryable status is drained for its detail
\* if candidates are left, else passed through like any other answer.
Answer(r, s) ==
    /\ pc[r] = "waiting"
    /\ Conclude(r, s) /\ MarkHealthy(at[r])
    /\ IF s \in Retryable /\ left[r] # {}
       THEN Enter(r, "draining") /\ UNCHANGED tee
       ELSE \/ streams[r] /\ OpenStream(r)
            \/ ~streams[r] /\ Enter(r, "reading") /\ UNCHANGED tee
    /\ UNCHANGED <<members, reported, turn, inflight, asked, route, left, at, outcome, logged>>

\* Read timeout: the backend took the request; nobody else gets it.
ReadTimeout(r) ==
    /\ pc[r] = "waiting"
    /\ Conclude(r, "silent")
    /\ GoLog(r, "timeout", at[r])
    /\ UNCHANGED <<view, inflight, tee, asked, route, left, at, logged>>

\* Any other transport error, a connect timeout included.
Unreachable(r) ==
    /\ pc[r] = "waiting"
    /\ Conclude(r, "unreachable") /\ MarkFailed(at[r]) /\ Release(at[r])
    /\ NextCandidate(r)
    /\ UNCHANGED <<members, reported, turn, tee, asked, route, left, at, logged>>

\* The refusal's text was read (or not: unwrap_or_default); move on.
Drain(r) ==
    /\ pc[r] = "draining"
    /\ IF verdict[r][at[r]] = "busy" THEN MarkFailed(at[r]) ELSE UNCHANGED cooling
    /\ Release(at[r])
    /\ NextCandidate(r)
    /\ UNCHANGED <<members, reported, turn, tee, asked, route, left, at, verdict, logged>>

\* The body arrived, timed out or broke off.
ReadBody(r) ==
    /\ pc[r] = "reading"
    /\ \E s \in {verdict[r][at[r]], "timeout", "cut"} : GoLog(r, s, at[r])
    /\ UNCHANGED <<view, inflight, tee, asked, route, left, at, verdict, logged>>

\* The entry is queued, the guard dropped, the answer returned: there is no
\* await between the three, and from then on the answer is the server's.
Log(r) ==
    /\ pc[r] = "logging"
    /\ logged' = [logged EXCEPT ![r] = Append(@, outcome[r])]
    /\ IF Guarded(r) THEN Release(at[r]) ELSE UNCHANGED inflight
    /\ Enter(r, "answering")
    /\ UNCHANGED <<view, tee, asked, route, left, at, verdict, outcome>>

\* The server writes the answer out: the client has it.
Deliver(r) ==
    /\ pc[r] = "answering" /\ Enter(r, "done")
    /\ UNCHANGED <<view, inflight, tee, asked, route, left, at, verdict, outcome, logged>>

\* The body came to its end, and says so to the task.
EndBody(r) ==
    /\ body[r] = "open"
    /\ body' = [body EXCEPT ![r] = "ended"] /\ oneshot' = [oneshot EXCEPT ![r] = "sent"]
    /\ UNCHANGED <<view, inflight, pc, asked, route, left, at, verdict, outcome, logged>>

\* The backend's side failed, or was silent for the read timeout: the error
\* is noted and handed on to the server; the task is told nothing.
BreakBody(r) ==
    /\ body[r] = "open" /\ body' = [body EXCEPT ![r] = "broken"]
    /\ UNCHANGED <<view, inflight, pc, oneshot, asked, route, left, at, verdict, outcome, logged>>

\* The server drops a body that is not at its end, because its client left
\* or because it broke, and the sender with it.
DropBody(r) ==
    /\ oneshot[r] = "open"
    /\ oneshot' = [oneshot EXCEPT ![r] = "closed"]
    /\ body' = [body EXCEPT ![r] = IF @ = "broken" THEN @ ELSE "dropped"]
    /\ UNCHANGED <<view, inflight, pc, asked, route, left, at, verdict, outcome, logged>>

\* What the task says of the stream: the error noted in the accumulator
\* first, then a sender that is gone, then the backend's status.
StreamError(r) ==
    IF body[r] = "broken" THEN "broken"
    ELSE IF oneshot[r] = "closed" THEN "unfinished"
    ELSE IF verdict[r][at[r]] = "ok" THEN "none" ELSE "failed"

\* The task's wait for the oneshot is over: it makes up the entry.
Settle(r) ==
    /\ pc[r] = "streaming" /\ oneshot[r] \in {"sent", "closed"}
    /\ outcome' = [outcome EXCEPT ![r] =
            [status |-> verdict[r][at[r]], upstream |-> at[r], error |-> StreamError(r)]]
    /\ Enter(r, "settling")
    /\ UNCHANGED <<view, inflight, tee, asked, route, left, at, verdict, logged>>

\* The log took the entry; the task drops the guard.
LogStream(r) ==
    /\ pc[r] = "settling"
    /\ logged' = [logged EXCEPT ![r] = Append(@, outcome[r])]
    /\ Release(at[r]) /\ Enter(r, "done")
    /\ UNCHANGED <<view, tee, asked, route, left, at, verdict, outcome>>

\* The client leaves while the handler is suspended: its future is dropped,
\* guard included.  (Between Filter and Send there is no await.)  Or it
\* leaves before the answer that was made for it is delivered.
ClientGone(r) ==
    /\ pc[r] \in (Handling \ {"sending"}) \cup {"answering"}
    /\ IF Guarded(r) THEN Release(at[r]) ELSE UNCHANGED inflight
    /\ Enter(r, "gone")
    /\ UNCHANGED <<view, tee, asked, route, left, at, verdict, outcome, logged>>

-----------------------------------------------------------------------------
(* The rest of the hive, as the request path sees it.                      *)

Rescan(S) ==
    /\ S # members
    /\ members' = S /\ turn' = (IF S = {} THEN 0 ELSE turn)
    /\ UNCHANGED <<reported, cooling, inflight, pc, tee, asked, route, left, at, verdict, outcome, logged>>

RefreshLoad(f) ==
    /\ f # reported /\ reported' = f
    /\ UNCHANGED <<members, cooling, turn, inflight, pc, tee, asked, route, left, at, verdict, outcome, logged>>

CoolOff(b) ==
    /\ b \in cooling /\ cooling' = cooling \ {b}
    /\ UNCHANGED <<members, reported, turn, inflight, pc, tee, asked, route, left, at, verdict, outcome, logged>>

Handler(r) ==
    \/ Rank(r) \/ Filter(r) \/ Send(r)
    \/ (\E s \in Statuses : Answer(r, s)) \/ ReadTimeout(r) \/ Unreachable(r)
    \/ Drain(r) \/ ReadBody(r) \/ Log(r) \/ Settle(r) \/ LogStream(r)

\* The HTTP server and the two ends of the connections it holds.
Server(r) ==
    \/ Deliver(r) \/ ClientGone(r)
    \/ EndBody(r) \/ BreakBody(r) \/ DropBody(r)

Environment ==
    \/ \E S \in Memberships : Rescan(S)
    \/ \E f \in LoadMaps : RefreshLoad(f)
    \/ \E b \in Backends : CoolOff(b)

Next ==
    \/ \E r \in Reqs : Receive(r) \/ Handler(r) \/ Server(r)
    \/ Environment

Spec == Init /\ [][Next]_vars

\* A handler or a stream's task that can take a step takes one: the handler
\* waits only for its backend, which answers or is cut off by the connect or
\* the read timeout, and the task only for the oneshot.  The server drops a
\* body that has failed.  Nothing makes a body end or fail, a client take its
\* answer or leave, or a scan happen.
BreakOff(r) == body[r] = "broken" /\ DropBody(r)
FairSpec == Spec /\ \A r \in Reqs : WF_vars(Handler(r)) /\ WF_vars(BreakOff(r))

-----------------------------------------------------------------------------
(* Safety.                                                                  *)

\* The requests whose handler or stream holds a guard on b.
Holders(b) == {r \in Reqs : at[r] = b /\ Guarded(r)}

\* The in-flight count of a backend is the number of requests there, over
\* every exit of the handler: failover, timeout, stream end, a client that
\* leaves (InflightGuard, "cancelled requests can't leak").  A leak would
\* make a backend look busy for ever, a double release would make it look
\* idle.
InflightExact == \A b \in Backends : inflight[b] = Cardinality(Holders(b))

Failed == Retryable \cup {"unreachable"}

\* A request whose backend may be generating, or has answered it for good,
\* goes nowhere else: only a refusal (429, 500, 502, 503) or a transport
\* failure sends it on, never a timeout, another 4xx or a 504 (proxy_by_model,
\* "retrying elsewhere would run the same generation twice").
OnlyFailuresRetried ==
    \A r \in Reqs, b \in Backends :
        verdict[r][b] \notin Failed \cup {"untried"} => at[r] = b /\ pc[r] # "sending"

\* 502 "no hive member could serve" is said only once every candidate was
\* tried and none answered for good, the last one not at all; an upstream's
\* own retryable error reaches the client only from the last candidate.
GivesUpLast ==
    \A r \in Reqs : pc[r] \in {"answering", "done"} =>
        /\ outcome[r].status = "exhausted" =>
            /\ left[r] = {} /\ verdict[r][at[r]] = "unreachable"
            /\ \A b \in Backends : verdict[r][b] \in Failed \cup {"untried"}
        /\ outcome[r].status \in Retryable => left[r] = {}

\* Does entry e say what happened to r: the backend that answered or timed
\* out, with its own status or the way its body was lost; or no backend,
\* and then none answered for good?  And is its error that of the stream, or
\* there whenever r did not succeed?
Truthful(r, e) ==
    /\ IF e.upstream = NoBackend
       THEN /\ e.status \in {"bad_request", "not_found", "loop", "exhausted"}
            /\ \A b \in Backends : verdict[r][b] \in Failed \cup {"untried"}
       ELSE \/ e.status = verdict[r][e.upstream]
            \/ e.status = "timeout" /\ verdict[r][e.upstream] \in Statuses \cup {"silent"}
            \/ e.status = "cut" /\ verdict[r][e.upstream] \in Statuses /\ ~streams[r]
    /\ e.error = "broken" <=> body[r] = "broken"
    /\ e.error = "unfinished" <=> body[r] = "dropped"
    /\ e.error = "none" <=> e.status = "ok" /\ body[r] \in {"none", "ended"}

\* A request has at most one query-log entry, and it is a truthful one: of
\* the backend that answered in the end, whatever was tried before, and of
\* the way a stream was over.  A client that has its whole answer finds the
\* entry there (Hive::recent_queries counts on that), whereas a stream's
\* entry is never there before the stream is over, however it was, so that
\* its latency covers the generation; a stream that is done with has one,
\* its client gone or not.  Of the handlers dropped with their client only
\* those that had written theirs have one.
LogTellsTruth ==
    \A r \in Reqs :
        /\ Len(logged[r]) <= 1
        /\ logged[r] # <<>> => Truthful(r, logged[r][1])
        /\ pc[r] = "done" => logged[r] # <<>>
        /\ body[r] = "open" => logged[r] = <<>>

\* A backend that was cooling when a request was ranked is asked only after
\* every other candidate of that request has failed it: a dead backend,
\* which reports no load and so looks idle, costs nothing while others
\* serve (Hive::candidates, RankKey).
CoolingAskedLast ==
    \A r \in Reqs :
        at[r] \in shunned[r] /\ Guarded(r) => left[r] \subseteq shunned[r]

-----------------------------------------------------------------------------
(* Liveness.                                                                *)

\* A request that came in is answered, is streaming, or lost its client:
\* failover never goes round, nobody waits for somebody else's slot.
Answered ==
    \A r \in Reqs : pc[r] = "routing" ~> pc[r] \in {"answering", "gone", "streaming"}

\* A stream that is over is logged and stops counting as load on its backend,
\* whichever of the three ways it went: read to its end, which the body
\* reports; broken, which it does not, so that the task waits until the
\* server lets go of the body; or dropped with its client (TeeStream, the
\* oneshot, and the task proxy_by_model spawns).
StreamSettled ==
    \A r \in Reqs : body[r] \in {"ended", "broken", "dropped"} ~>
                        /\ pc[r] = "done" /\ logged[r] # <<>>
                        /\ r \notin Holders(at[r])
=============================================================================
