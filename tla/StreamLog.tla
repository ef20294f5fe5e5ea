------------------------------ MODULE StreamLog ------------------------------
(***************************************************************************)
(* How a streamed answer gets into the log (src/src/logging.rs, StreamAcc, *)
(* feed_sse, TeeStream; the task at the end of proxy_by_model).  The bytes *)
(* of a body pass to the client in chunks that are cut anywhere; on their  *)
(* way they are put together to lines, the lines' events to choices, and   *)
(* the entry is made when the body has ended, broken, or lost its client.  *)
(*                                                                         *)
(* A byte is its position; a line is its event and its length; text is the *)
(* sequence of the pieces it came in, so no text is the empty sequence.    *)
(***************************************************************************)
EXTENDS Integers, SequencesExt

CONSTANTS
    Scripts,    \* what backends stream: sequences of events
    Sizes,      \* the lengths a line may have, without its newline
    Limit,      \* MAX_SSE_LINE
    Pieces,     \* what texts are made of, and ids, finish reasons, usages
    Nothing     \* no finish reason, no id, no usage, no entry

VARIABLES
    script,     \* the events of this stream's lines
    size,       \* the length of each line
    at,         \* bytes that have passed
    from,       \* where the buffer begins: it holds the bytes from here to at
    skipping,   \* skipping_line
    acc,        \* choices, usage, error and chunks of the StreamAcc
    body,       \* "open", "broken", "ended" or "dropped"
    entry       \* what the log task wrote

streamVars == <<script, size, at, from, skipping, acc, body, entry>>

-----------------------------------------------------------------------------
(* Events.  A chat chunk has choices, each with the pieces of its delta; an *)
(* event of the Responses API has a type and a delta or a final response.  *)

Noise == [type |-> "noise"]    \* a comment, an empty line, [DONE], no JSON

Delta(i, text, thought, calls, finish) ==
    [index |-> i, content |-> text, reasoning |-> thought, calls |-> calls, finish |-> finish]

Chunk(choices, usage) == [type |-> "chat", choices |-> choices, usage |-> usage]
Text(p) == [type |-> "text", delta |-> <<p>>]
Thought(p) == [type |-> "thought", delta |-> <<p>>]
Other == [type |-> "other"]    \* an event that is counted and says nothing here
Final(response) == [type |-> "final", response |-> response]

\* What is left of a line whose beginning was discarded may read as an event.
Remnant == Chunk(<<Delta(0, <<"remnant">>, <<>>, <<>>, Nothing)>>, Nothing)

\* What backends stream: chat chunks, or events of the Responses API of which no
\* more than "other" ones follow a final response; noise in between.
Words == Pieces \cup {Nothing}
CallPieces == [slot : Nat, id : Words, arguments : Seq(Pieces)]
Deltas == [index : Nat, content : Seq(Pieces), reasoning : Seq(Pieces),
           calls : Seq(CallPieces), finish : Words]
Chunks == [type : {"chat"}, choices : Seq(Deltas), usage : Words]

Items == [type : {"message", "reasoning"}, text : Seq(Pieces)]
         \cup [type : {"function_call"}, call : [id : Words, arguments : Seq(Pieces)]]
Answers == [output : Seq(Items), status : Words, usage : Words]
Events == [type : {"text", "thought"}, delta : Seq(Pieces)]
          \cup [type : {"final"}, response : Answers] \cup {Other}

Chats == Seq(Chunks \cup {Noise})
Streamed ==
    {s \in Seq(Events \cup {Noise}) :
        \A i, j \in DOMAIN s : i < j /\ s[i].type = "final" => s[j].type \in {"other", "noise"}}

ASSUME StreamLogConstants ==
    /\ Limit \in Nat /\ Sizes \subseteq Nat
    /\ \A s \in Scripts : s \in Chats \/ s \in Streamed

NewChoice == [content |-> <<>>, reasoning |-> <<>>, calls |-> <<>>, finish |-> Nothing]
NewAcc == [choices |-> <<>>, usage |-> Nothing, error |-> FALSE, chunks |-> 0]

Or(new, old) == IF new = Nothing THEN old ELSE new

\* Op with each of s in turn, from base on.
Each(Op(_, _), base, s) ==
    LET after[n \in 0..Len(s)] == IF n = 0 THEN base ELSE Op(after[n - 1], s[n])
    IN after[Len(s)]

-----------------------------------------------------------------------------
(* A complete object, as it is read from an answer that is not streamed.   *)

ExtractChoice(c) ==
    [content |-> c.content, reasoning |-> c.reasoning, calls |-> c.calls, finish |-> c.finish]

Texts(items, type) ==
    FlattenSeq([i \in DOMAIN items |-> IF items[i].type = type THEN items[i].text ELSE <<>>])

Calls(items) ==
    FlattenSeq([i \in DOMAIN items |->
                  IF items[i].type = "function_call" THEN <<items[i].call>> ELSE <<>>])

ExtractOutput(response) ==
    [content |-> Texts(response.output, "message"),
     reasoning |-> Texts(response.output, "reasoning"),
     calls |-> Calls(response.output),
     finish |-> response.status]

ExtractResponse(object) ==
    IF "choices" \in DOMAIN object
    THEN [i \in DOMAIN object.choices |-> ExtractChoice(object.choices[i])]
    ELSE <<ExtractOutput(object)>>

-----------------------------------------------------------------------------
(* What an event does to the choices.                                      *)

ChoiceOf(choices, i) == IF i \in DOMAIN choices THEN choices[i] ELSE NewChoice

Put(f, i, v) == [j \in DOMAIN f \cup {i} |-> IF j = i THEN v ELSE f[j]]

\* id, type and name come once, arguments in pieces.
MergeToolCall(calls, d) ==
    LET slot == IF d.slot \in DOMAIN calls THEN calls[d.slot]
                                           ELSE [id |-> Nothing, arguments |-> <<>>]
    IN Put(calls, d.slot, [id |-> Or(slot.id, d.id),
                           arguments |-> slot.arguments \o d.arguments])

ApplyChoice(choices, d) ==
    LET old == ChoiceOf(choices, d.index)
    IN Put(choices, d.index,
           [content |-> old.content \o d.content,
            reasoning |-> old.reasoning \o d.reasoning,
            calls |-> Each(MergeToolCall, old.calls, d.calls),
            finish |-> Or(d.finish, old.finish)])

\* The final object fills in what no delta brought.
ApplyFinal(choices, response) ==
    LET old == ChoiceOf(choices, 0)
        done == ExtractOutput(response)
        Fill(o, d) == IF o = <<>> THEN d ELSE o
    IN Put(choices, 0,
           [content |-> Fill(old.content, done.content),
            reasoning |-> Fill(old.reasoning, done.reasoning),
            calls |-> Fill(old.calls, done.calls),
            finish |-> done.finish])

ApplyResponsesEvent(choices, e) ==
    LET old == ChoiceOf(choices, 0)
    IN CASE e.type = "text" -> Put(choices, 0, [old EXCEPT !.content = @ \o e.delta])
         [] e.type = "thought" -> Put(choices, 0, [old EXCEPT !.reasoning = @ \o e.delta])
         [] e.type = "final" -> ApplyFinal(choices, e.response)
         [] e.type = "other" -> choices

Apply(a, e) ==
    IF e.type = "noise" THEN a
    ELSE [choices |-> IF e.type = "chat" THEN Each(ApplyChoice, a.choices, e.choices)
                                         ELSE ApplyResponsesEvent(a.choices, e),
          usage |-> CASE e.type = "chat" -> Or(e.usage, a.usage)
                      [] e.type = "final" -> Or(e.response.usage, a.usage)
                      [] OTHER -> a.usage,
          error |-> a.error,
          chunks |-> a.chunks + 1]

\* The values of f, by their keys.
InOrder(f) ==
    LET Place(k) == Cardinality({j \in DOMAIN f : j <= k})
    IN [n \in 1..Cardinality(DOMAIN f) |-> f[CHOOSE k \in DOMAIN f : Place(k) = n]]

\* StreamAcc::summary: the choices by index, each one's calls by slot.
Summary(a) ==
    [choices |-> InOrder([i \in DOMAIN a.choices |->
                            [a.choices[i] EXCEPT !.calls = InOrder(@)]]),
     usage |-> a.usage,
     chunks |-> a.chunks]

-----------------------------------------------------------------------------
(* Lines.                                                                  *)

Lines == DOMAIN script
\* Past the newline of line k.
EndOf(k) ==
    LET end[n \in 0..Len(script)] == IF n = 0 THEN 0 ELSE end[n - 1] + size[n] + 1
    IN end[k]

StartOf(k) == EndOf(k) - size[k] - 1
Bytes == EndOf(Len(script))

Read(begin, k) == IF begin = StartOf(k) THEN script[k] ELSE Remnant

\* How many lines have their newline among the first b bytes.
Passed(b) == Max({0} \cup {k \in Lines : EndOf(k) <= b})

\* The lines that end between at and `to`, the first as far as it is still in the
\* buffer.
Ending(to) ==
    [n \in 1..(Passed(to) - Passed(at)) |->
        Read(IF n = 1 THEN from ELSE StartOf(Passed(at) + n), Passed(at) + n)]

\* Seeded bug: the rest of a skipped line is read like any other line.
HeardWithRest(to) == Ending(to)

\* What they say, unless it is the rest of a line that is being skipped.
Heard(to) == IF skipping /\ Ending(to) # <<>> THEN Tail(Ending(to)) ELSE Ending(to)

BufferFrom(to) == IF Ending(to) = <<>> THEN from ELSE EndOf(Passed(to))

\* Seeded bug: a line that never ends is only dropped the first time.
TooLongOnce(to) == to - BufferFrom(to) > Limit /\ ~skipping

TooLong(to) == to - BufferFrom(to) > Limit

-----------------------------------------------------------------------------
(* The body.                                                               *)

StreamInit ==
    /\ script \in Scripts
    /\ size \in [DOMAIN script -> Sizes]
    /\ at = 0 /\ from = 0
    /\ skipping = FALSE
    /\ acc = NewAcc
    /\ body = "open"
    /\ entry = Nothing

\* TeeStream::poll_next with a chunk: fed, then passed on.
Feed(to) ==
    /\ body = "open"
    /\ at' = to
    /\ from' = IF TooLong(to) THEN to ELSE BufferFrom(to)
    /\ skipping' = (TooLong(to) \/ (skipping /\ Ending(to) = <<>>))
    /\ acc' = Each(Apply, acc, Heard(to))
    /\ UNCHANGED <<script, size, body, entry>>

\* The backend's last byte has passed, though it may have meant to send more.
EndOfBody ==
    /\ body = "open"
    /\ body' = "ended"
    /\ UNCHANGED <<script, size, at, from, skipping, acc, entry>>

Break ==
    /\ body = "open"
    /\ body' = "broken"
    /\ acc' = [acc EXCEPT !.error = TRUE]
    /\ UNCHANGED <<script, size, at, from, skipping, entry>>

\* The server lets go of the body: its client has left, or it has broken.
DropBody ==
    /\ body \in {"open", "broken"}
    /\ body' = "dropped"
    /\ UNCHANGED <<script, size, at, from, skipping, acc, entry>>

Blame(success) ==
    CASE acc.error -> "stream broken"
      [] ~acc.error /\ body = "dropped" -> "ended before completion"
      [] ~acc.error /\ body = "ended" -> IF success THEN "none" ELSE "upstream status"

\* The task that has waited for the summary or for the body to be dropped.
LogStream ==
    /\ body \in {"ended", "dropped"}
    /\ entry = Nothing
    /\ \E success \in BOOLEAN :
          entry' = [choices |-> Summary(acc).choices, usage |-> acc.usage, chunks |-> acc.chunks,
                    success |-> success, error |-> Blame(success)]
    /\ UNCHANGED <<script, size, at, from, skipping, acc, body>>

StreamNext ==
    \/ \E to \in (at + 1)..Bytes : Feed(to)
    \/ EndOfBody \/ Break \/ DropBody \/ LogStream

StreamSpec == StreamInit /\ [][StreamNext]_streamVars

-----------------------------------------------------------------------------
(* What the entry is to say, from the lines alone.                         *)

Complete == {k \in Lines : EndOf(k) <= at}
Overlong == {k \in Complete : size[k] > Limit}

\* The first and the last word of a sequence, if any.
FirstOf(s) ==
    LET there == {n \in DOMAIN s : s[n] # Nothing}
    IN IF there = {} THEN Nothing ELSE s[Min(there)]
LastOf(s) ==
    LET there == {n \in DOMAIN s : s[n] # Nothing}
    IN IF there = {} THEN Nothing ELSE s[Max(there)]

WholeCall(calls, i) ==
    [id |-> FirstOf([n \in DOMAIN calls |-> IF calls[n].slot = i THEN calls[n].id ELSE Nothing]),
     arguments |-> FlattenSeq([n \in DOMAIN calls |->
                                 IF calls[n].slot = i THEN calls[n].arguments ELSE <<>>])]

WholeCalls(calls) == [i \in {calls[n].slot : n \in DOMAIN calls} |-> WholeCall(calls, i)]

\* What the deltas of choice i add up to.
WholeChoice(deltas, i) ==
    LET Of(n) == deltas[n].index = i
        calls == FlattenSeq([n \in DOMAIN deltas |-> IF Of(n) THEN deltas[n].calls ELSE <<>>])
    IN [content |-> FlattenSeq([n \in DOMAIN deltas |-> IF Of(n) THEN deltas[n].content ELSE <<>>]),
        reasoning |-> FlattenSeq([n \in DOMAIN deltas |-> IF Of(n) THEN deltas[n].reasoning ELSE <<>>]),
        calls |-> InOrder(WholeCalls(calls)),
        finish |-> LastOf([n \in DOMAIN deltas |-> IF Of(n) THEN deltas[n].finish ELSE Nothing])]

\* The chat completion that chunks add up to.
DeltasOf(events) ==
    FlattenSeq([n \in DOMAIN events |-> IF events[n].type = "chat" THEN events[n].choices ELSE <<>>])

WholeChat(events) ==
    LET deltas == DeltasOf(events)
    IN [choices |-> InOrder([i \in {deltas[n].index : n \in DOMAIN deltas} |-> WholeChoice(deltas, i)])]

\* The response that events add up to: their deltas, and the rest from the
\* final object.
Said(events, type) ==
    FlattenSeq([n \in DOMAIN events |-> IF events[n].type = type THEN events[n].delta ELSE <<>>])

FunctionCalls(items) ==
    FlattenSeq([i \in DOMAIN items |-> IF items[i].type = "function_call" THEN <<items[i]>> ELSE <<>>])

WholeResponse(events) ==
    LET final == {n \in DOMAIN events : events[n].type = "final"}
        response == IF final = {} THEN [output |-> <<>>, status |-> Nothing]
                                  ELSE events[Max(final)].response
        Item(type, deltas) ==
            [type |-> type, text |-> IF deltas = <<>> THEN Texts(response.output, type) ELSE deltas]
    IN [output |-> <<Item("message", Said(events, "text")), Item("reasoning", Said(events, "thought"))>>
                     \o FunctionCalls(response.output),
        status |-> response.status]

Whole(events) ==
    IF \E n \in DOMAIN events : events[n].type \in {"text", "thought", "final"}
    THEN WholeResponse(events)
    ELSE WholeChat(events)

\* The stream with the lines of K only.
Only(K) == [n \in Lines |-> IF n \in K THEN script[n] ELSE Noise]

TellsOf(K) ==
    /\ entry.choices = ExtractResponse(Whole(Only(K)))
    /\ entry.chunks = Cardinality({k \in K : script[k].type # "noise"})

-----------------------------------------------------------------------------
(* Properties.                                                             *)

\* The types; and the buffer never holds more than the limit once a chunk is
\* dealt with, however long a line is.
StreamTypeOK ==
    /\ script \in Scripts
    /\ size \in [Lines -> Sizes]
    /\ at \in 0..Bytes
    /\ from \in 0..at /\ at - from <= Limit
    /\ skipping \in BOOLEAN
    /\ acc.error \in BOOLEAN /\ acc.chunks \in 0..Len(script)
    /\ body \in {"open", "broken", "ended", "dropped"}

\* However the bytes are cut into chunks and whenever the stream ends, the
\* entry of a stream is the entry of the complete answer its lines add up to:
\* all lines up to the limit that came whole, in order, each once; of longer
\* ones all or nothing; and never the rest of one (feed_sse, StreamAcc).  If it
\* names no error, the body was passed on to its end.  Token usage is not
\* compared.
EntryRebuilds ==
    entry # Nothing =>
        /\ \E S \in SUBSET Overlong : TellsOf((Complete \ Overlong) \cup S)
        /\ entry.error = "none" => entry.success /\ body = "ended"
=============================================================================
