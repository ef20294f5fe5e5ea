------------------------------- MODULE LogQueue -------------------------------
(***************************************************************************)
(* The query log's queue (RequestLogger) from the call of log or flush to  *)
(* the file, and what a shutdown waits for: request handlers and stream    *)
(* tasks log, readers of GET /api/hive/queries flush before they read, one *)
(* writer task empties a bounded channel, and main flushes before it ends. *)
(*                                                                         *)
(* Every caller calls once, and is its own message: an entry or a flush.   *)
(* How the file is written and rolled is another module's subject.         *)
(***************************************************************************)
EXTENDS Integers, FiniteSets, Sequences

CONSTANTS
    Handlers,       \* requests that log before they answer
    Streams,        \* tasks that log once their stream is over
    Readers,        \* requests that read the log back
    Main,           \* the flush of a shutdown
    Nobody,
    Capacity        \* of the channel (LOG_QUEUE)

Entries == Handlers \cup Streams
Flushers == Readers \cup {Main}
Callers == Entries \cup Flushers
Requests == Handlers \cup Readers       \* dropped with their clients

ASSUME LogQueueConstants ==
    /\ Entries \cap Flushers = {} /\ Handlers \cap Streams = {} /\ Main \notin Readers
    /\ Nobody \notin Callers
    /\ IsFiniteSet(Callers)
    /\ Capacity \in Nat \ {0}

VARIABLES
    queue,      \* the channel
    writing,    \* the entry the writer is at, or Nobody
    file,       \* what is written, in order
    stage,      \* caller -> how far its call is
    phase,      \* of the process
    accepted,   \* history: entries whose log returned, in order
    asked       \* history: flush -> entries whose log had returned when it was called

vars == <<queue, writing, file, stage, phase, accepted, asked>>

\* "sent": log has returned, or the flush waits; "done": the flush returned.
Stages == {"off", "calling", "holding", "sent", "done", "gone"}
Phases == {"serving", "draining", "settled", "exited"}

TypeOK ==
    /\ queue \in Seq(Callers) /\ Len(queue) <= Capacity
    /\ writing \in Entries \cup {Nobody}
    /\ file \in Seq(Entries) /\ accepted \in Seq(Entries)
    /\ stage \in [Callers -> Stages]
    /\ phase \in Phases
    /\ asked \in [Flushers -> SUBSET Entries]

Init ==
    /\ queue = <<>> /\ writing = Nobody /\ file = <<>> /\ accepted = <<>>
    /\ stage = [c \in Callers |-> "off"]
    /\ phase = "serving"
    /\ asked = [f \in Flushers |-> {}]

Reach(c, s) == stage' = [stage EXCEPT ![c] = s]
Elements(q) == {q[i] : i \in DOMAIN q}
Holding == {c \in Callers : stage[c] = "holding"}

-----------------------------------------------------------------------------
(* Seeded bugs: a cancelled call keeps its permit; no bound; the next        *)
(* message taken while an entry is written, or a flush only; a flush nobody  *)
(* waits for stops the writer; a shutdown that does not wait for requests;   *)
(* a log that drops its entry instead of waiting for room.                   *)

RoomLeaked ==
    Len(queue) + Cardinality({c \in Callers : stage[c] \in {"holding", "gone"}}) < Capacity

ReserveAlways(c) ==
    /\ stage[c] = "calling" /\ phase # "exited"
    /\ Reach(c, "holding")
    /\ UNCHANGED <<queue, writing, file, phase, accepted, asked>>

TakeEntryEager ==
    /\ queue # <<>> /\ phase # "exited" /\ Head(queue) \in Entries
    /\ writing' = Head(queue) /\ queue' = Tail(queue)
    /\ UNCHANGED <<file, stage, phase, accepted, asked>>

AnswerFlushEager ==
    /\ queue # <<>> /\ phase # "exited" /\ Head(queue) \in Flushers
    /\ queue' = Tail(queue)
    /\ IF stage[Head(queue)] = "sent" THEN Reach(Head(queue), "done") ELSE UNCHANGED stage
    /\ UNCHANGED <<writing, file, phase, accepted, asked>>

AnswerFlushLiving ==
    /\ writing = Nobody /\ queue # <<>> /\ phase # "exited" /\ Head(queue) \in Flushers
    /\ queue' = Tail(queue)
    /\ stage[Head(queue)] = "sent" /\ Reach(Head(queue), "done")
    /\ UNCHANGED <<writing, file, phase, accepted, asked>>

ReserveLossy(c) ==
    /\ stage[c] = "calling" /\ phase # "exited"
    /\ Reach(c, IF Len(queue) < Capacity THEN "holding" ELSE "sent")
    /\ UNCHANGED <<queue, writing, file, phase, accepted, asked>>

SettleAtOnce ==
    /\ phase = "draining" /\ phase' = "settled"
    /\ UNCHANGED <<queue, writing, file, stage, accepted, asked>>

-----------------------------------------------------------------------------
(* The callers.                                                             *)

\* log or flush is called.  Requests come in until the server has stopped;
\* a stream's task may be late; main flushes when the requests are over.
Call(c) ==
    /\ stage[c] = "off"
    /\ \/ c \in Requests /\ phase \in {"serving", "draining"}
       \/ c \in Streams /\ phase # "exited"
       \/ c = Main /\ phase = "settled"
    /\ Reach(c, "calling")
    /\ asked' = IF c \in Flushers
                THEN [asked EXCEPT ![c] = {e \in Entries : stage[e] = "sent"}] ELSE asked
    /\ UNCHANGED <<queue, writing, file, phase, accepted>>

\* A place in the channel is free for one more.
Room == Len(queue) + Cardinality(Holding) < Capacity

\* Sender::send: a permit, then the push; callers with a permit may push in
\* any order.
Reserve(c) ==
    /\ stage[c] = "calling" /\ phase # "exited"
    /\ Room
    /\ Reach(c, "holding")
    /\ UNCHANGED <<queue, writing, file, phase, accepted, asked>>

Push(c) ==
    /\ stage[c] = "holding" /\ phase # "exited"
    /\ Reach(c, "sent")
    /\ queue' = Append(queue, c)
    /\ accepted' = (IF c \in Entries THEN Append(accepted, c) ELSE accepted)
    /\ UNCHANGED <<writing, file, phase, asked>>

\* c's call is awaited.
UnderWay(c) ==
    \/ stage[c] \in {"calling", "holding"}
    \/ c \in Flushers /\ stage[c] = "sent"

\* The client of a request leaves while it waits, for room or for the flush.
Cancel(c) ==
    /\ c \in Requests /\ phase \in {"serving", "draining"}
    /\ UnderWay(c)
    /\ Reach(c, "gone")
    /\ UNCHANGED <<queue, writing, file, phase, accepted, asked>>

-----------------------------------------------------------------------------
(* The writer task.                                                         *)

TakeEntry ==
    /\ writing = Nobody /\ queue # <<>> /\ phase # "exited"
    /\ Head(queue) \in Entries
    /\ writing' = Head(queue) /\ queue' = Tail(queue)
    /\ UNCHANGED <<file, stage, phase, accepted, asked>>

\* The caller may be gone: its end of the oneshot is, then.
AnswerFlush ==
    /\ writing = Nobody /\ queue # <<>> /\ phase # "exited"
    /\ Head(queue) \in Flushers
    /\ queue' = Tail(queue)
    /\ IF stage[Head(queue)] = "sent" THEN Reach(Head(queue), "done") ELSE UNCHANGED stage
    /\ UNCHANGED <<writing, file, phase, accepted, asked>>

\* Every sink has emitted the entry.
Emit ==
    /\ writing # Nobody /\ phase # "exited"
    /\ file' = Append(file, writing) /\ writing' = Nobody
    /\ UNCHANGED <<queue, stage, phase, accepted, asked>>

-----------------------------------------------------------------------------
(* The process.                                                             *)

Signal ==
    /\ phase = "serving" /\ phase' = "draining"
    /\ UNCHANGED <<queue, writing, file, stage, accepted, asked>>

\* The server has no request any more, and the pause after it is over.
Settle ==
    /\ phase = "draining" /\ \A c \in Requests : ~UnderWay(c)
    /\ phase' = "settled"
    /\ UNCHANGED <<queue, writing, file, stage, accepted, asked>>

Exit ==
    /\ phase = "settled" /\ stage[Main] = "done"
    /\ phase' = "exited"
    /\ UNCHANGED <<queue, writing, file, stage, accepted, asked>>

Writer == TakeEntry \/ AnswerFlush \/ Emit

Next ==
    \/ \E c \in Callers : Call(c) \/ Reserve(c) \/ Push(c) \/ Cancel(c)
    \/ Writer
    \/ Signal \/ Settle \/ Exit

Spec == Init /\ [][Next]_vars

\* The runtime polls every task that can move: callers with room, the writer,
\* main.  Nothing makes requests come, clients leave or the signal arrive.
FairSpec ==
    /\ Spec
    /\ \A c \in Callers : WF_vars(Reserve(c)) /\ WF_vars(Push(c))
    /\ WF_vars(Writer)
    /\ WF_vars(Settle) /\ WF_vars(Call(Main)) /\ WF_vars(Exit)

-----------------------------------------------------------------------------
(* Safety.                                                                  *)

Written == Elements(file)

\* What has left the queue, and how many of its first i messages are entries.
Begun == IF writing = Nobody THEN file ELSE Append(file, writing)
EntriesIn(q, i) == Cardinality({k \in 1..i : q[k] \in Entries})

\* Entries reach the file in the order their log calls returned, none lost
\* and none twice: what is accepted is in the file, at the writer, or queued
\* behind it, in this order ("Nothing is dropped", RequestLogger).
KeptInOrder ==
    /\ Len(accepted) = Len(Begun) + EntriesIn(queue, Len(queue))
    /\ \A i \in DOMAIN Begun : accepted[i] = Begun[i]
    /\ \A i \in DOMAIN queue :
          queue[i] \in Entries => accepted[Len(Begun) + EntriesIn(queue, i)] = queue[i]

\* When a flush returns, every entry whose log had returned before the flush
\* was called is in the file, however the callers interleave (flush; a reader
\* sees its own last query, Hive::recent_queries).
FlushCovers ==
    \A f \in Flushers : stage[f] = "done" => asked[f] \subseteq Written

\* A process that exits in order has written the entry of every request whose
\* handler logged it before it answered, although handlers log until the server
\* has stopped (proxy_by_model, run).  The tasks that log streams are not among
\* the handlers: nothing waits for them.
ExitKeepsAnswered ==
    phase = "exited" => \A h \in Handlers : stage[h] = "sent" => h \in Written

\* What a caller of flush sees of its call.
FlushStates ==
    [f \in Flushers |->
        IF stage[f] \in {"calling", "holding", "sent"} THEN "waiting" ELSE stage[f]]

\* Channel, permits, writer and leaving callers together look like a log that
\* accepts each entry once, writes in the order of acceptance and returns a
\* flush when all that was accepted before it is written (RequestLogger).
Promise == INSTANCE FlushedLog WITH written <- file, flush <- FlushStates

QueueIsUnseen == Promise!Spec

-----------------------------------------------------------------------------
(* Liveness.                                                                *)

\* A full queue delays, it never blocks for good: unless its client leaves or
\* the process ends, a flush returns and an entry that is logged gets on disk,
\* whoever else leaves while waiting for room or for an answer.
CallsSettle ==
    \A c \in Callers :
        stage[c] = "calling" ~>
            \/ stage[c] \in {"done", "gone"}
            \/ c \in Entries /\ c \in Written
            \/ phase = "exited"

\* The queue never keeps a process from ending that was told to.
ShutsDown == phase = "draining" ~> phase = "exited"
=============================================================================
