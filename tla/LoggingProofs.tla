---------------------------- MODULE LoggingProofs ----------------------------
(***************************************************************************)
(* Why a flush covers what was logged before it: an accepted entry is in   *)
(* the file, at the writer or queued (Somewhere), and what a queued flush  *)
(* must cover is queued before it (InFront).  Why a shutdown loses no      *)
(* answer: its flush is called when no request is left (Covered).          *)
(* Why a stream's entry is that of its whole answer: what has been applied *)
(* is at every moment what the lines up to the buffer say (HeardWhole),    *)
(* and applying events one by one adds up to what they say together        *)
(* (ChatRebuilt, ResponseRebuilt).                                         *)
(***************************************************************************)
EXTENDS LogQueue, StreamLog, OrderProofs

\* Permits handed out are places kept free.
PermitsFit == Len(queue) + Cardinality(Holding) <= Capacity

Sent == {e \in Entries : stage[e] = "sent"}

Somewhere == Sent \subseteq Written \cup {writing} \cup Elements(queue)

\* Entry e is dealt with before the message at position i of the queue.
Before(e, i) ==
    e \in Written \/ e = writing \/ \E k \in DOMAIN queue : k < i /\ queue[k] = e

InFront ==
    \A i \in DOMAIN queue :
        /\ stage[queue[i]] # "off"
        /\ queue[i] \in Flushers => \A e \in asked[queue[i]] : Before(e, i)

AskedSent == \A f \in Flushers : asked[f] \subseteq Sent

Quiet == phase \in {"settled", "exited"} => \A c \in Requests : ~UnderWay(c)

Covered ==
    /\ stage[Main] # "off" => /\ phase \in {"settled", "exited"}
                              /\ \A h \in Handlers : stage[h] = "sent" => h \in asked[Main]
    /\ phase = "exited" => stage[Main] = "done"

-----------------------------------------------------------------------------
(* Types.                                                                   *)

LEMMA HoldingTyped ==
    ASSUME TypeOK
    PROVE  IsFiniteSet(Holding) /\ Cardinality(Holding) \in Nat
<1>1. Holding \subseteq Callers
  BY DEF Holding
<1>2. IsFiniteSet(Holding)
  BY <1>1, LogQueueConstants, FS_Subset
<1> QED BY <1>2, FS_CardinalityType

LEMMA HoldingShrinks ==
    ASSUME TypeOK, Holding' \subseteq Holding
    PROVE  Cardinality(Holding)' <= Cardinality(Holding) /\ Cardinality(Holding)' \in Nat
<1>1. IsFiniteSet(Holding)
  BY HoldingTyped
<1>2. Cardinality(Holding') <= Cardinality(Holding) /\ IsFiniteSet(Holding')
  BY <1>1, FS_Subset
<1> QED BY <1>2, FS_CardinalityType

LEMMA ReserveFits ==
    ASSUME TypeOK, PermitsFit, NEW c \in Callers, Reserve(c)
    PROVE  PermitsFit'
<1>1. Holding' = Holding \cup {c}
  BY DEF TypeOK, Reserve, Reach, Holding
<1>2. IsFiniteSet(Holding)
  BY HoldingTyped
<1>3. Cardinality(Holding') = IF c \in Holding THEN Cardinality(Holding)
                                                ELSE Cardinality(Holding) + 1
  BY <1>1, <1>2, FS_AddElement
<1>4. Len(queue) \in Nat /\ Cardinality(Holding) \in Nat /\ queue' = queue
  BY HoldingTyped DEF TypeOK, Reserve
<1>5. Cardinality(Holding') = Cardinality(Holding)'
  OBVIOUS
<1> QED BY <1>3, <1>4, <1>5, LogQueueConstants DEF PermitsFit, Reserve, Room

LEMMA PushFits ==
    ASSUME TypeOK, PermitsFit, NEW c \in Callers, Push(c)
    PROVE  PermitsFit'
<1>1. c \in Holding /\ Holding' = Holding \ {c}
  BY DEF TypeOK, Push, Reach, Holding
<1>2. IsFiniteSet(Holding)
  BY HoldingTyped
<1>3. Cardinality(Holding') = Cardinality(Holding) - 1
  BY <1>1, <1>2, FS_RemoveElement
<1>4. queue \in Seq(Callers) /\ queue' = Append(queue, c)
  BY DEF TypeOK, Push
<1>5. Len(queue') = Len(queue) + 1 /\ Len(queue) \in Nat
  BY <1>4
<1>6. Cardinality(Holding') = Cardinality(Holding)'
  OBVIOUS
<1> QED BY <1>3, <1>5, <1>6, HoldingTyped, LogQueueConstants DEF PermitsFit

LEMMA HeadTail ==
    ASSUME NEW S, NEW q \in Seq(S), q # <<>>
    PROVE  /\ Head(q) \in S /\ Head(q) = q[1] /\ 1 \in DOMAIN q
           /\ Tail(q) \in Seq(S) /\ Len(Tail(q)) = Len(q) - 1 /\ Len(q) \in Nat
           /\ \A i \in DOMAIN Tail(q) : i + 1 \in DOMAIN q /\ Tail(q)[i] = q[i + 1]
           /\ \A i \in DOMAIN q : i = 1 \/ (i - 1 \in DOMAIN Tail(q) /\ Tail(q)[i - 1] = q[i])
OBVIOUS

LEMMA AppendAt ==
    ASSUME NEW S, NEW q \in Seq(S), NEW x \in S
    PROVE  /\ Append(q, x) \in Seq(S) /\ Len(Append(q, x)) = Len(q) + 1
           /\ DOMAIN Append(q, x) = DOMAIN q \cup {Len(q) + 1}
           /\ Append(q, x)[Len(q) + 1] = x
           /\ \A i \in DOMAIN q : Append(q, x)[i] = q[i] /\ i < Len(q) + 1
OBVIOUS

LEMMA ElementsOfAppend ==
    ASSUME NEW S, NEW q \in Seq(S), NEW x \in S
    PROVE  Elements(Append(q, x)) = Elements(q) \cup {x}
BY AppendAt DEF Elements

LEMMA ElementsOfTail ==
    ASSUME NEW S, NEW q \in Seq(S), q # <<>>
    PROVE  Elements(q) = {Head(q)} \cup Elements(Tail(q))
BY HeadTail DEF Elements

TypesHold == TypeOK /\ PermitsFit

LEMMA TypesKept == TypesHold /\ [Next]_vars => TypesHold'
<1> SUFFICES ASSUME TypeOK, PermitsFit, [Next]_vars PROVE TypesHold'
  BY DEF TypesHold
<1> USE LogQueueConstants
<1>1. ASSUME NEW c \in Callers, Call(c) PROVE TypesHold'
  <2>1. Holding' \subseteq Holding /\ queue' = queue
    BY <1>1 DEF TypeOK, Call, Reach, Holding
  <2>2. PermitsFit'
    BY <2>1, HoldingShrinks, HoldingTyped DEF TypeOK, PermitsFit
  <2>3. stage' \in [Callers -> Stages] /\ asked' \in [Flushers -> SUBSET Entries]
    BY <1>1 DEF TypeOK, Call, Reach, Stages
  <2> QED BY <1>1, <2>2, <2>3 DEF TypesHold, TypeOK, Call
<1>2. ASSUME NEW c \in Callers, Reserve(c) PROVE TypesHold'
  BY <1>2, ReserveFits DEF TypesHold, TypeOK, Reserve, Reach, Stages
<1>3. ASSUME NEW c \in Callers, Push(c) PROVE TypesHold'
  <2>1. PermitsFit'
    BY <1>3, PushFits
  <2>2. queue' \in Seq(Callers) /\ Len(queue') \in Nat
    BY <1>3, AppendAt DEF TypeOK, Push
  <2>3. IsFiniteSet(Holding') /\ Cardinality(Holding)' \in Nat
    <3>1. Holding' \subseteq Holding
      BY <1>3 DEF TypeOK, Push, Reach, Holding
    <3> QED BY <3>1, HoldingTyped, HoldingShrinks, FS_Subset
  <2>4. Len(queue') <= Capacity
    BY <2>1, <2>2, <2>3 DEF PermitsFit
  <2>5. stage' \in [Callers -> Stages] /\ accepted' \in Seq(Entries)
    BY <1>3 DEF TypeOK, Push, Reach, Stages
  <2> QED BY <1>3, <2>1, <2>2, <2>4, <2>5 DEF TypesHold, TypeOK, Push
<1>4. ASSUME NEW c \in Callers, Cancel(c) PROVE TypesHold'
  <2>1. Holding' \subseteq Holding /\ queue' = queue
    BY <1>4 DEF TypeOK, Cancel, Reach, Holding
  <2>2. PermitsFit'
    BY <2>1, HoldingShrinks, HoldingTyped DEF TypeOK, PermitsFit
  <2> QED BY <1>4, <2>2 DEF TypesHold, TypeOK, Cancel, Reach, Stages
<1>5. CASE TakeEntry
  <2>1. Holding' \subseteq Holding /\ stage' = stage
    BY <1>5 DEF TakeEntry, Holding
  <2>2. queue' \in Seq(Callers) /\ Len(queue') = Len(queue) - 1 /\ Len(queue) \in Nat
    BY <1>5, HeadTail DEF TypeOK, TakeEntry
  <2>3. PermitsFit'
    BY <2>1, <2>2, HoldingShrinks, HoldingTyped DEF PermitsFit
  <2> QED BY <1>5, <2>2, <2>3 DEF TypesHold, TypeOK, TakeEntry
<1>6. CASE AnswerFlush
  <2>1. queue' \in Seq(Callers) /\ Len(queue') = Len(queue) - 1 /\ Len(queue) \in Nat
        /\ Head(queue) \in Callers
    BY <1>6, HeadTail DEF TypeOK, AnswerFlush
  <2>2. stage' \in [Callers -> Stages] /\ Holding' \subseteq Holding
    BY <1>6, <2>1 DEF TypeOK, AnswerFlush, Reach, Holding, Stages
  <2>3. PermitsFit'
    BY <2>1, <2>2, HoldingShrinks, HoldingTyped DEF PermitsFit
  <2> QED BY <1>6, <2>1, <2>2, <2>3 DEF TypesHold, TypeOK, AnswerFlush
<1>7. CASE Emit
  <2>1. Holding' = Holding
    BY <1>7 DEF Emit, Holding
  <2>2. Cardinality(Holding)' = Cardinality(Holding)
    BY <2>1
  <2> QED BY <1>7, <2>2 DEF TypesHold, TypeOK, PermitsFit, Emit
<1>8. CASE Signal \/ Settle \/ Exit
  <2>1. Holding' = Holding
    BY <1>8 DEF Signal, Settle, Exit, Holding
  <2>2. Cardinality(Holding)' = Cardinality(Holding)
    BY <2>1
  <2> QED BY <1>8, <2>2 DEF TypesHold, TypeOK, PermitsFit, Signal, Settle, Exit, Phases
<1>9. CASE UNCHANGED vars
  <2>1. Holding' = Holding
    BY <1>9 DEF vars, Holding
  <2>2. Cardinality(Holding)' = Cardinality(Holding)
    BY <2>1
  <2> QED BY <1>9, <2>2 DEF TypesHold, TypeOK, PermitsFit, vars
<1> QED BY <1>1, <1>2, <1>3, <1>4, <1>5, <1>6, <1>7, <1>8, <1>9 DEF Next, Writer

LEMMA TypesFirst == Init => TypesHold
<1> SUFFICES ASSUME Init PROVE TypesHold
  OBVIOUS
<1>1. Holding = {}
  BY DEF Init, Holding
<1>2. Cardinality(Holding) = 0
  BY <1>1, FS_EmptySet
<1>3. Len(queue) = 0
  BY DEF Init
<1> QED BY <1>2, <1>3, LogQueueConstants DEF Init, TypesHold, TypeOK, PermitsFit, Stages, Phases

\* Every variable keeps its type, and the channel never holds more messages
\* than its capacity, permits in callers' hands included
\* (RequestLogger::spawn_writer).
THEOREM QueueTypeCorrect == Spec => []TypeOK
<1>1. TypesHold => TypeOK
  BY DEF TypesHold
<1> QED BY TypesFirst, TypesKept, <1>1, PTL DEF Spec

-----------------------------------------------------------------------------
(* Order.                                                                   *)

LEMMA OnlyPushSends ==
    ASSUME TypeOK, [Next]_vars, \A c \in Callers : ~Push(c)
    PROVE  Sent' = Sent
<1> USE LogQueueConstants
<1>1. ASSUME NEW c \in Callers, Call(c) \/ Reserve(c) \/ Cancel(c) PROVE Sent' = Sent
  BY <1>1 DEF TypeOK, Sent, Callers, Call, Reserve, Cancel, Reach, UnderWay, Stages
<1>2. CASE AnswerFlush
  BY <1>2 DEF TypeOK, Sent, Callers, AnswerFlush, Reach
<1>3. CASE TakeEntry \/ Emit \/ Signal \/ Settle \/ Exit \/ UNCHANGED vars
  BY <1>3 DEF Sent, TakeEntry, Emit, Signal, Settle, Exit, vars
<1> QED BY <1>1, <1>2, <1>3 DEF Next, Writer

LEMMA PushSends ==
    ASSUME TypeOK, NEW c \in Callers, Push(c)
    PROVE  Sent' = Sent \cup ({c} \cap Entries)
BY LogQueueConstants DEF TypeOK, Sent, Push, Reach

LEMMA WrittenByEmit ==
    ASSUME TypeOK, Emit
    PROVE  Written' = Written \cup {writing}
<1>1. writing \in Entries /\ file \in Seq(Entries) /\ file' = Append(file, writing)
  BY DEF TypeOK, Emit
<1> QED BY <1>1, ElementsOfAppend DEF Written

LEMMA SomewhereKept == TypeOK /\ Somewhere /\ [Next]_vars => Somewhere'
<1> SUFFICES ASSUME TypeOK, Somewhere, [Next]_vars PROVE Somewhere'
  OBVIOUS
<1>1. ASSUME NEW c \in Callers, Push(c) PROVE Somewhere'
  <2>1. Elements(queue)' = Elements(queue) \cup {c}
    BY <1>1, ElementsOfAppend DEF TypeOK, Push
  <2>2. Written' = Written /\ writing' = writing
    BY <1>1 DEF Push, Written
  <2> QED BY <1>1, <2>1, <2>2, PushSends DEF Somewhere
<1>2. CASE \A c \in Callers : ~Push(c)
  <2>1. Sent' = Sent
    BY <1>2, OnlyPushSends
  <2>2. CASE TakeEntry
    <3>1. Elements(queue) = {writing'} \cup Elements(queue)'
      BY <2>2, ElementsOfTail DEF TypeOK, TakeEntry
    <3>2. Written' = Written /\ writing = Nobody
      BY <2>2 DEF TakeEntry, Written
    <3> QED BY <2>1, <3>1, <3>2, LogQueueConstants DEF Somewhere, Sent, Callers
  <2>3. CASE AnswerFlush
    <3>1. Elements(queue) = {Head(queue)} \cup Elements(queue)' /\ Head(queue) \notin Entries
      BY <2>3, ElementsOfTail, LogQueueConstants DEF TypeOK, AnswerFlush
    <3>2. Written' = Written /\ writing' = writing
      BY <2>3 DEF AnswerFlush, Written
    <3> QED BY <2>1, <3>1, <3>2 DEF Somewhere, Sent
  <2>4. CASE Emit
    <3>1. queue' = queue /\ Written' = Written \cup {writing}
      BY <2>4, WrittenByEmit DEF Emit
    <3>2. Elements(queue)' = Elements(queue)
      BY <3>1
    <3> QED BY <2>1, <3>1, <3>2 DEF Somewhere
  <2>5. ASSUME queue' = queue, writing' = writing, file' = file PROVE Somewhere'
    BY <2>1, <2>5 DEF Somewhere, Written, Elements
  <2> QED BY <1>2, <2>2, <2>3, <2>4, <2>5
          DEF Next, Writer, Call, Reserve, Cancel, Signal, Settle, Exit, vars
<1> QED BY <1>1, <1>2

LEMMA AskedSentKept == TypeOK /\ AskedSent /\ [Next]_vars => AskedSent'
<1> SUFFICES ASSUME TypeOK, AskedSent, [Next]_vars PROVE AskedSent'
  OBVIOUS
<1>1. Sent \subseteq Sent'
  BY OnlyPushSends, PushSends
<1>2. ASSUME NEW c \in Callers, Call(c) PROVE AskedSent'
  BY <1>1, <1>2 DEF AskedSent, TypeOK, Call, Sent
<1>3. CASE asked' = asked
  BY <1>1, <1>3 DEF AskedSent
<1> QED BY <1>2, <1>3 DEF Next, Writer, Reserve, Push, Cancel, TakeEntry, AnswerFlush, Emit,
                          Signal, Settle, Exit, vars

\* A caller that called once does not call again.
LEMMA CalledStays ==
    ASSUME TypeOK, [Next]_vars, NEW c \in Callers, stage[c] # "off"
    PROVE  stage'[c] # "off" /\ (c \in Flushers => asked'[c] = asked[c])
<1> USE LogQueueConstants
<1>1. ASSUME NEW d \in Callers, Call(d) PROVE stage'[c] = stage[c] /\ (c \in Flushers => asked'[c] = asked[c])
  BY <1>1 DEF TypeOK, Call, Reach
<1>2. ASSUME NEW d \in Callers, Reserve(d) \/ Push(d) \/ Cancel(d)
      PROVE  stage'[c] # "off" /\ asked' = asked
  BY <1>2 DEF TypeOK, Reserve, Push, Cancel, Reach
<1>3. CASE Writer \/ Signal \/ Settle \/ Exit \/ UNCHANGED vars
  BY <1>3 DEF TypeOK, Writer, TakeEntry, AnswerFlush, Emit, Signal, Settle, Exit, vars, Reach
<1> QED BY <1>1, <1>2, <1>3 DEF Next

LEMMA InFrontKept ==
    TypeOK /\ Somewhere /\ AskedSent /\ InFront /\ [Next]_vars => InFront'
<1> SUFFICES ASSUME TypeOK, Somewhere, AskedSent, InFront, [Next]_vars PROVE InFront'
  OBVIOUS
<1> USE LogQueueConstants
<1>0. queue \in Seq(Callers) /\ \A i \in DOMAIN queue : queue[i] \in Callers /\ i \in Nat
  BY DEF TypeOK
<1>1. ASSUME NEW i \in DOMAIN queue
      PROVE  stage'[queue[i]] # "off" /\ (queue[i] \in Flushers => asked'[queue[i]] = asked[queue[i]])
  BY <1>0, CalledStays DEF InFront
<1>2. ASSUME NEW c \in Callers, Push(c) PROVE InFront'
  <2>0. PICK n \in Nat : n = Len(queue) + 1
    BY <1>0
  <2>1. /\ DOMAIN queue' = DOMAIN queue \cup {n} /\ queue'[n] = c
        /\ \A i \in DOMAIN queue : queue'[i] = queue[i] /\ i < n
    BY <1>0, <1>2, <2>0, AppendAt DEF Push
  <2>2. Written' = Written /\ writing' = writing /\ asked' = asked
    BY <1>2 DEF Push, Written
  <2>3. ASSUME NEW i \in DOMAIN queue, NEW e, Before(e, i) PROVE Before(e, i)'
    BY <2>1, <2>2, <2>3 DEF Before
  <2>4. ASSUME NEW e \in Sent PROVE Before(e, n)'
    <3>1. e \in Written \/ e = writing \/ \E i \in DOMAIN queue : queue[i] = e
      BY <2>4 DEF Somewhere, Elements
    <3>2. ASSUME NEW i \in DOMAIN queue, queue[i] = e
          PROVE  i \in DOMAIN queue' /\ i < n /\ queue'[i] = e
      BY <2>1, <3>2
    <3> QED BY <2>2, <3>1, <3>2 DEF Before
  <2>5. ASSUME NEW i \in DOMAIN queue
        PROVE  /\ stage'[queue'[i]] # "off"
               /\ queue'[i] \in Flushers => \A e \in asked'[queue'[i]] : Before(e, i)'
    BY <1>1, <2>1, <2>2, <2>3 DEF InFront
  <2>6. /\ stage'[queue'[n]] # "off"
        /\ queue'[n] \in Flushers => \A e \in asked'[queue'[n]] : Before(e, n)'
    BY <1>2, <2>1, <2>2, <2>4 DEF AskedSent, Push, Reach, TypeOK
  <2>7. ASSUME NEW i \in DOMAIN queue'
        PROVE  /\ stage'[queue'[i]] # "off"
               /\ queue'[i] \in Flushers => \A e \in asked'[queue'[i]] : Before(e, i)'
    <3>1. CASE i = n
      BY <3>1, <2>6
    <3>2. CASE i \in DOMAIN queue
      BY <3>2, <2>5
    <3> QED BY <2>1, <3>1, <3>2
  <2> QED BY <2>7 DEF InFront
<1>3. CASE TakeEntry \/ AnswerFlush
  <2>1. queue # <<>> /\ queue' = Tail(queue) /\ writing = Nobody /\ Written' = Written
        /\ asked' = asked
    BY <1>3 DEF TakeEntry, AnswerFlush, Written
  <2>2. ASSUME NEW i \in DOMAIN queue', NEW e \in Entries, Before(e, i + 1) PROVE Before(e, i)'
    <3>1. e # Nobody
      BY DEF Callers
    <3>2. CASE e \in Written
      BY <2>1, <3>2 DEF Before
    <3>3. ASSUME NEW k \in DOMAIN queue, k < i + 1, queue[k] = e, k # 1 PROVE Before(e, i)'
      <4>1. k - 1 \in DOMAIN queue' /\ queue'[k - 1] = e
        BY <1>0, <2>1, <3>3, HeadTail
      <4>2. k - 1 < i
        <5>1. k \in Nat /\ i \in Nat
          BY <1>0, <2>1, HeadTail
        <5> QED BY <5>1, <3>3
      <4> QED BY <4>1, <4>2 DEF Before
    <3>4. CASE Head(queue) = e
      <4>1. TakeEntry /\ writing' = e
        BY <1>3, <3>4 DEF TakeEntry, AnswerFlush
      <4> QED BY <4>1 DEF Before
    <3>5. Head(queue) = queue[1]
      BY <1>0, <2>1, HeadTail
    <3> QED BY <2>1, <2>2, <3>1, <3>2, <3>3, <3>4, <3>5 DEF Before
  <2>3. ASSUME NEW i \in DOMAIN queue' PROVE i + 1 \in DOMAIN queue /\ queue'[i] = queue[i + 1]
    BY <1>0, <2>1, HeadTail
  <2>4. ASSUME NEW i \in DOMAIN queue', queue'[i] \in Flushers, NEW e \in asked'[queue'[i]]
        PROVE  Before(e, i)'
    <3>1. e \in Entries
      BY <2>1, <2>4 DEF TypeOK
    <3>2. Before(e, i + 1)
      BY <2>1, <2>3, <2>4 DEF InFront
    <3> QED BY <2>2, <3>1, <3>2
  <2> QED BY <1>1, <2>3, <2>4 DEF InFront
<1>4. CASE Emit
  <2>1. queue' = queue /\ Written' = Written \cup {writing} /\ asked' = asked
    BY <1>4, WrittenByEmit DEF Emit
  <2>2. ASSUME NEW i \in DOMAIN queue, NEW e, Before(e, i) PROVE Before(e, i)'
    BY <2>1, <2>2 DEF Before
  <2> QED BY <1>1, <2>1, <2>2 DEF InFront
<1>5. ASSUME queue' = queue, writing' = writing, file' = file PROVE InFront'
  <2>1. ASSUME NEW i \in DOMAIN queue, NEW e, Before(e, i) PROVE Before(e, i)'
    BY <1>5, <2>1 DEF Before, Written
  <2> QED BY <1>1, <1>5, <2>1 DEF InFront
<1> QED BY <1>2, <1>3, <1>4, <1>5
        DEF Next, Writer, Call, Reserve, Cancel, Signal, Settle, Exit, vars

LEMMA FlushKept ==
    TypeOK /\ InFront /\ FlushCovers /\ [Next]_vars => FlushCovers'
<1> SUFFICES ASSUME TypeOK, InFront, FlushCovers, [Next]_vars,
                    NEW f \in Flushers, stage'[f] = "done"
             PROVE  asked'[f] \subseteq Written'
  BY DEF FlushCovers
<1> USE LogQueueConstants
<1>1. Written \subseteq Written'
  <2>1. CASE Emit
    BY <2>1, WrittenByEmit
  <2>2. CASE file' = file
    BY <2>2 DEF Written
  <2> QED BY <2>1, <2>2 DEF Next, Writer, Call, Reserve, Push, Cancel, TakeEntry, AnswerFlush,
                            Signal, Settle, Exit, vars
<1>2. CASE stage[f] = "done"
  <2>1. asked'[f] = asked[f]
    BY <1>2, CalledStays DEF Callers
  <2> QED BY <1>1, <1>2, <2>1 DEF FlushCovers
<1>3. CASE stage[f] # "done"
  <2>1. AnswerFlush /\ f = Head(queue)
    BY <1>3 DEF TypeOK, Callers, Next, Writer, Call, Reserve, Push, Cancel, TakeEntry,
                AnswerFlush, Emit, Signal, Settle, Exit, vars, Reach
  <2>2. queue # <<>> /\ writing = Nobody /\ asked' = asked /\ queue \in Seq(Callers)
    BY <2>1 DEF AnswerFlush, TypeOK
  <2>3. 1 \in DOMAIN queue /\ queue[1] = f
    BY <2>1, <2>2, HeadTail
  <2>4. \A e \in asked[f] : Before(e, 1)
    BY <2>3 DEF InFront
  <2>5. ASSUME NEW e \in asked[f] PROVE e \in Written
    <3>1. e \in Entries /\ e # Nobody
      BY DEF TypeOK, Callers
    <3>2. ~ \E k \in DOMAIN queue : k < 1
      BY <2>2
    <3> QED BY <2>2, <2>4, <3>1, <3>2 DEF Before
  <2> QED BY <1>1, <2>2, <2>5
<1> QED BY <1>2, <1>3

-----------------------------------------------------------------------------
(* Shutting down.                                                           *)

LEMMA QuietKept == TypeOK /\ Quiet /\ [Next]_vars => Quiet'
<1> SUFFICES ASSUME TypeOK, Quiet, [Next]_vars PROVE Quiet'
  OBVIOUS
<1> USE LogQueueConstants
<1>1. ASSUME NEW c \in Callers, Call(c) \/ Reserve(c) \/ Push(c) \/ Cancel(c) PROVE Quiet'
  <2>1. phase' = phase
    BY <1>1 DEF Call, Reserve, Push, Cancel
  <2>2. ASSUME phase \in {"settled", "exited"}, NEW r \in Requests, ~UnderWay(r) PROVE ~UnderWay(r)'
    <3>1. Requests \subseteq Callers
      BY DEF Requests, Callers, Entries, Flushers
    <3> QED BY <1>1, <2>2, <3>1 DEF TypeOK, UnderWay, Call, Reserve, Push, Cancel, Reach,
                                    Requests, Entries, Flushers
  <2> QED BY <2>1, <2>2 DEF Quiet
<1>2. CASE Settle
  BY <1>2 DEF Settle, Quiet, UnderWay
<1>3. CASE AnswerFlush
  <2>1. ASSUME NEW r \in Requests, ~UnderWay(r) PROVE ~UnderWay(r)'
    BY <1>3, <2>1 DEF AnswerFlush, Reach, UnderWay, TypeOK, Requests, Callers, Entries, Flushers
  <2> QED BY <1>3, <2>1 DEF Quiet, AnswerFlush
<1>4. CASE Signal \/ Exit
  BY <1>4 DEF Signal, Exit, Quiet, UnderWay
<1>5. CASE TakeEntry \/ Emit \/ UNCHANGED vars
  BY <1>5 DEF TakeEntry, Emit, Quiet, UnderWay, vars
<1> QED BY <1>1, <1>2, <1>3, <1>4, <1>5 DEF Next, Writer

LEMMA CoveredKept == TypeOK /\ Quiet /\ Covered /\ [Next]_vars => Covered'
<1> SUFFICES ASSUME TypeOK, Quiet, Covered, [Next]_vars PROVE Covered'
  OBVIOUS
<1> USE LogQueueConstants
<1>1. Main \in Callers /\ Main \in Flushers /\ Main \notin Requests /\ Main \notin Streams
      /\ Handlers \subseteq Callers /\ Handlers \subseteq Entries /\ Handlers \subseteq Requests
  BY DEF Callers, Flushers, Entries, Requests
<1>2. ASSUME NEW c \in Callers, Call(c) PROVE Covered'
  <2>1. CASE c = Main
    BY <1>1, <1>2, <2>1 DEF Call, Reach, Covered, TypeOK
  <2>2. CASE c # Main
    BY <1>1, <1>2, <2>2 DEF Call, Reach, Covered, TypeOK
  <2> QED BY <2>1, <2>2
<1>3. ASSUME NEW c \in Callers, Reserve(c) \/ Push(c) \/ Cancel(c) PROVE Covered'
  <2>1. c = Main => stage[Main] # "off" /\ stage[Main] # "done"
    BY <1>3, <1>1 DEF Reserve, Push, Cancel, UnderWay
  <2>2. c # Main => stage'[Main] = stage[Main]
    BY <1>3, <1>1 DEF Reserve, Push, Cancel, Reach, TypeOK
  <2>3. phase' = phase /\ asked' = asked
    BY <1>3 DEF Reserve, Push, Cancel
  <2>4. phase # "exited" \/ c # Main
    BY <2>1 DEF Covered
  <2>5. ASSUME NEW h \in Handlers, stage'[h] = "sent", phase \in {"settled", "exited"}
        PROVE  stage[h] = "sent"
    BY <1>1, <1>3, <2>5 DEF Quiet, UnderWay, Reserve, Push, Cancel, Reach, TypeOK
  <2> QED BY <2>1, <2>2, <2>3, <2>4, <2>5 DEF Covered
<1>4. CASE AnswerFlush
  <2>1. phase' = phase /\ asked' = asked /\ (stage[Main] = "off" => stage'[Main] = "off")
    BY <1>1, <1>4 DEF AnswerFlush, Reach, TypeOK
  <2>2. phase # "exited"
    BY <1>4 DEF AnswerFlush
  <2>3. \A h \in Handlers : stage'[h] = "sent" => stage[h] = "sent"
    BY <1>1, <1>4 DEF AnswerFlush, Reach, TypeOK
  <2> QED BY <2>1, <2>2, <2>3 DEF Covered
<1>5. CASE TakeEntry \/ Emit \/ Signal \/ Settle \/ Exit \/ UNCHANGED vars
  BY <1>5 DEF Covered, TakeEntry, Emit, Signal, Settle, Exit, vars
<1> QED BY <1>2, <1>3, <1>4, <1>5 DEF Next, Writer

-----------------------------------------------------------------------------
(* The order of the file.                                                   *)

LEMMA EntriesInTyped ==
    ASSUME NEW q, NEW i \in Nat
    PROVE  /\ IsFiniteSet({k \in 1..i : q[k] \in Entries})
           /\ EntriesIn(q, i) \in 0..i
<1>1. IsFiniteSet(1..i) /\ Cardinality(1..i) = i
  BY FS_Interval
<1>2. {k \in 1..i : q[k] \in Entries} \subseteq 1..i
  OBVIOUS
<1>3. /\ IsFiniteSet({k \in 1..i : q[k] \in Entries})
      /\ Cardinality({k \in 1..i : q[k] \in Entries}) <= i
  BY <1>1, <1>2, FS_Subset
<1> QED BY <1>3, FS_CardinalityType DEF EntriesIn

LEMMA EntriesInAgree ==
    ASSUME NEW q, NEW r, NEW i \in Nat, \A k \in 1..i : q[k] = r[k]
    PROVE  EntriesIn(q, i) = EntriesIn(r, i)
<1>1. {k \in 1..i : q[k] \in Entries} = {k \in 1..i : r[k] \in Entries}
  OBVIOUS
<1> QED BY <1>1 DEF EntriesIn

LEMMA EntriesInNext ==
    ASSUME NEW q, NEW i \in Nat
    PROVE  EntriesIn(q, i + 1) = EntriesIn(q, i) + (IF q[i + 1] \in Entries THEN 1 ELSE 0)
<1> DEFINE A == {k \in 1..i : q[k] \in Entries}
           B == {k \in 1..(i + 1) : q[k] \in Entries}
<1>1. IsFiniteSet(A) /\ Cardinality(A) \in Nat
  BY EntriesInTyped, FS_CardinalityType
<1>2. i + 1 \notin A
  OBVIOUS
<1>3. B = IF q[i + 1] \in Entries THEN A \cup {i + 1} ELSE A
  OBVIOUS
<1> HIDE DEF A, B
<1>4. Cardinality(B) = Cardinality(A) + (IF q[i + 1] \in Entries THEN 1 ELSE 0)
  <2>1. Cardinality(A \cup {i + 1}) = Cardinality(A) + 1
    BY <1>1, <1>2, FS_AddElement
  <2> QED BY <1>1, <1>3, <2>1
<1> QED BY <1>4 DEF A, B, EntriesIn

LEMMA EntriesInTail ==
    ASSUME NEW S, NEW q \in Seq(S), q # <<>>, NEW i \in Nat, i <= Len(Tail(q))
    PROVE  EntriesIn(q, i + 1) = EntriesIn(Tail(q), i) + (IF Head(q) \in Entries THEN 1 ELSE 0)
<1> DEFINE r == Tail(q)
           A == {k \in 1..i : r[k] \in Entries}
           B == {k \in 2..(i + 1) : q[k] \in Entries}
           C == {k \in 1..(i + 1) : q[k] \in Entries}
           f == [k \in A |-> k + 1]
<1>1. /\ Head(q) = q[1] /\ Len(r) \in Nat /\ Len(q) \in Nat /\ Len(r) = Len(q) - 1
      /\ \A k \in 1..i : r[k] = q[k + 1]
  BY HeadTail
<1> HIDE DEF r
<1>2. IsFiniteSet(A) /\ Cardinality(A) \in Nat
  BY EntriesInTyped, FS_CardinalityType
<1>3. f \in [A -> B]
  BY <1>1
<1>4. \A j, k \in A : f[j] = f[k] => j = k
  OBVIOUS
<1>5. \A k \in B : \E j \in A : f[j] = k
  <2> SUFFICES ASSUME NEW k \in B PROVE k - 1 \in A /\ f[k - 1] = k
    OBVIOUS
  <2>1. k - 1 \in 1..i /\ r[k - 1] = q[k]
    BY <1>1
  <2> QED BY <2>1
<1>6. f \in Injection(A, B) /\ f \in Surjection(A, B)
  <2> HIDE DEF A, B, f
  <2> QED BY <1>3, <1>4, <1>5 DEF Injection, IsInjective, Surjection
<1>7. 1 \notin B /\ C = IF Head(q) \in Entries THEN B \cup {1} ELSE B
  <2>1. 1..(i + 1) = {1} \cup 2..(i + 1)
    OBVIOUS
  <2> QED BY <1>1, <2>1
<1> HIDE DEF A, B, C, f
<1>8. IsFiniteSet(B) /\ Cardinality(B) = Cardinality(A)
  BY <1>2, <1>6, FS_Surjection
<1>9. Cardinality(C) = Cardinality(A) + (IF Head(q) \in Entries THEN 1 ELSE 0)
  <2>1. Cardinality(B \cup {1}) = Cardinality(B) + 1
    BY <1>2, <1>7, <1>8, FS_AddElement
  <2> QED BY <1>2, <1>7, <1>8, <2>1
<1> QED BY <1>9 DEF A, C, r, EntriesIn

LEMMA BegunTyped ==
    ASSUME TypeOK
    PROVE  Begun \in Seq(Entries) /\ Len(Begun) \in Nat /\ DOMAIN Begun = 1..Len(Begun)
<1>1. Begun \in Seq(Entries)
  BY AppendAt DEF TypeOK, Begun
<1> QED BY <1>1

\* Nothing enters the queue, and nothing that was begun is forgotten.
LEMMA OrderSame ==
    ASSUME TypeOK, KeptInOrder, Begun' = Begun, queue' = queue, accepted' = accepted
    PROVE  KeptInOrder'
BY DEF KeptInOrder, EntriesIn

LEMMA OrderPushed ==
    ASSUME TypeOK, KeptInOrder, NEW c \in Callers, Push(c)
    PROVE  KeptInOrder'
<1> DEFINE n == Len(queue)
           b == Len(Begun)
<1>1. queue \in Seq(Callers) /\ n \in Nat /\ DOMAIN queue = 1..n /\ accepted \in Seq(Entries)
  BY DEF TypeOK
<1>2. b \in Nat /\ DOMAIN Begun = 1..b /\ Begun' = Begun
  BY BegunTyped DEF Push, Begun
<1>3. /\ Len(queue') = n + 1 /\ DOMAIN queue' = 1..(n + 1) /\ queue'[n + 1] = c
      /\ \A i \in 1..n : queue'[i] = queue[i]
  BY <1>1, AppendAt DEF Push
<1>4. \A i \in 0..n : EntriesIn(queue', i) = EntriesIn(queue, i) /\ EntriesIn(queue, i) \in 0..i
  <2> SUFFICES ASSUME NEW i \in 0..n
               PROVE  EntriesIn(queue', i) = EntriesIn(queue, i) /\ EntriesIn(queue, i) \in 0..i
    OBVIOUS
  <2>1. i \in Nat /\ \A k \in 1..i : queue'[k] = queue[k]
    BY <1>1, <1>3
  <2> QED BY <2>1, EntriesInAgree, EntriesInTyped
<1>5. EntriesIn(queue', n + 1) = EntriesIn(queue, n) + (IF c \in Entries THEN 1 ELSE 0)
  <2>1. n \in Nat /\ n \in 0..n
    BY <1>1
  <2>2. EntriesIn(queue', n) = EntriesIn(queue, n)
    BY <1>4, <2>1
  <2> HIDE DEF n
  <2>3. EntriesIn(queue', n + 1)
            = EntriesIn(queue', n) + (IF queue'[n + 1] \in Entries THEN 1 ELSE 0)
    BY <2>1, EntriesInNext
  <2> QED BY <1>3, <2>2, <2>3 DEF n
<1>6. Len(accepted) = b + EntriesIn(queue, n)
  BY DEF KeptInOrder
<1> DEFINE a == Len(accepted)
<1>7. /\ Len(accepted') = a + (IF c \in Entries THEN 1 ELSE 0)
      /\ \A i \in 1..a : accepted'[i] = accepted[i]
      /\ c \in Entries => accepted'[a + 1] = c
      /\ a \in Nat
  BY <1>1, AppendAt DEF Push
<1>8. \A i \in 1..b : accepted[i] = Begun[i]
  BY <1>2 DEF KeptInOrder
<1>9. \A i \in 1..n : queue[i] \in Entries => accepted[b + EntriesIn(queue, i)] = queue[i]
  BY <1>1 DEF KeptInOrder
<1>10. ASSUME NEW i \in 1..n, queue[i] \in Entries PROVE b + EntriesIn(queue, i) \in 1..a
  <2>1. \A k \in 1..i : k \in 1..n
    BY <1>1
  <2>2. {k \in 1..i : queue[k] \in Entries} \subseteq {k \in 1..n : queue[k] \in Entries}
    BY <2>1
  <2>3. IsFiniteSet({k \in 1..n : queue[k] \in Entries})
    BY <1>1, EntriesInTyped
  <2>4. EntriesIn(queue, i) <= EntriesIn(queue, n)
    BY <2>2, <2>3, FS_Subset DEF EntriesIn
  <2>5. i \in {k \in 1..i : queue[k] \in Entries}
    BY <1>10
  <2>6. EntriesIn(queue, i) # 0
    <3>1. IsFiniteSet({k \in 1..i : queue[k] \in Entries})
      <4>1. i \in Nat
        OBVIOUS
      <4> QED BY <4>1, EntriesInTyped
    <3> QED BY <2>5, <3>1, FS_EmptySet DEF EntriesIn
  <2>7. i \in 0..n /\ n \in 0..n
    BY <1>1
  <2>8. EntriesIn(queue, i) \in Nat /\ EntriesIn(queue, n) \in Nat
    BY <1>1, <1>4, <2>7
  <2> HIDE DEF a, b
  <2> QED BY <1>2, <1>6, <1>7, <2>4, <2>6, <2>8 DEF a, b
<1> HIDE DEF n, a, b
<1>11. EntriesIn(queue, n) \in Nat
  BY <1>1, <1>4
<1>12. Len(accepted') = b + EntriesIn(queue', n + 1)
  BY <1>2, <1>5, <1>6, <1>7, <1>11 DEF a
<1>13. \A i \in 1..b : accepted'[i] = Begun[i]
  BY <1>2, <1>6, <1>7, <1>8, <1>11 DEF a
<1>14. ASSUME NEW i \in 1..(n + 1), queue'[i] \in Entries
       PROVE  accepted'[b + EntriesIn(queue', i)] = queue'[i]
  <2>1. CASE i = n + 1
    <3>1. b + EntriesIn(queue', i) = a + 1 /\ queue'[i] = c /\ c \in Entries
      BY <1>2, <1>3, <1>5, <1>6, <1>11, <1>14, <2>1 DEF a
    <3> QED BY <1>7, <3>1
  <2>2. CASE i # n + 1
    <3>1. i \in 1..n /\ i \in 0..n /\ queue'[i] = queue[i]
      BY <1>1, <1>3, <2>2
    <3>2. EntriesIn(queue', i) = EntriesIn(queue, i) /\ b + EntriesIn(queue, i) \in 1..a
      BY <1>4, <1>10, <1>14, <3>1
    <3> QED BY <1>7, <1>9, <1>14, <3>1, <3>2
  <2> QED BY <2>1, <2>2
<1> QED BY <1>2, <1>3, <1>12, <1>13, <1>14 DEF KeptInOrder, b

LEMMA OrderTaken ==
    ASSUME TypeOK, KeptInOrder, TakeEntry \/ AnswerFlush
    PROVE  KeptInOrder'
<1> DEFINE n == Len(queue)
           b == Len(Begun)
           one == IF Head(queue) \in Entries THEN 1 ELSE 0
<1>1. queue \in Seq(Callers) /\ n \in Nat /\ DOMAIN queue = 1..n /\ queue # <<>>
      /\ queue' = Tail(queue) /\ accepted' = accepted /\ file \in Seq(Entries)
  BY DEF TypeOK, TakeEntry, AnswerFlush
<1>2. b \in Nat /\ DOMAIN Begun = 1..b
  BY BegunTyped
<1>3. /\ Len(queue') = n - 1 /\ DOMAIN queue' = 1..(n - 1) /\ n - 1 \in Nat
      /\ \A i \in 1..(n - 1) : queue'[i] = queue[i + 1]
      /\ Head(queue) = queue[1]
  <2>1. Tail(queue) \in Seq(Callers)
    BY <1>1, HeadTail
  <2> QED BY <1>1, <2>1, HeadTail
<1>4. /\ Len(Begun') = b + one
      /\ DOMAIN Begun' = 1..(b + one)
      /\ \A i \in 1..b : Begun'[i] = Begun[i]
      /\ one = 1 => Begun'[b + 1] = Head(queue)
  <2>1. CASE TakeEntry
    <3>1. Begun = file /\ Begun' = Append(file, Head(queue)) /\ Head(queue) \in Entries
      BY <2>1, LogQueueConstants DEF TakeEntry, Begun, Callers
    <3> QED BY <1>1, <1>2, <3>1, AppendAt
  <2>2. CASE AnswerFlush
    <3>1. Begun = file /\ Begun' = file /\ Head(queue) \notin Entries
      BY <2>2, LogQueueConstants DEF AnswerFlush, Begun
    <3> QED BY <1>1, <1>2, <3>1
  <2> QED BY <2>1, <2>2
<1>5. \A i \in 0..(n - 1) : /\ EntriesIn(queue, i + 1) = EntriesIn(queue', i) + one
                            /\ EntriesIn(queue', i) \in Nat
  <2> SUFFICES ASSUME NEW i \in 0..(n - 1)
               PROVE  /\ EntriesIn(queue, i + 1) = EntriesIn(queue', i) + one
                      /\ EntriesIn(queue', i) \in Nat
    OBVIOUS
  <2>1. i \in Nat /\ i <= Len(Tail(queue))
    BY <1>1, <1>3
  <2>2. EntriesIn(queue, i + 1) = EntriesIn(Tail(queue), i) + one
    <3> HIDE DEF n, b
    <3> QED BY <1>1, <2>1, EntriesInTail
  <2>3. EntriesIn(queue', i) \in 0..i
    BY <2>1, EntriesInTyped
  <2> QED BY <1>1, <2>2, <2>3
<1>6. /\ Len(accepted) = b + EntriesIn(queue, n)
      /\ \A i \in 1..b : accepted[i] = Begun[i]
      /\ \A i \in 1..n : queue[i] \in Entries => accepted[b + EntriesIn(queue, i)] = queue[i]
  BY <1>1, <1>2 DEF KeptInOrder
<1>7. one = 1 => accepted[b + 1] = Head(queue)
  <2>1. EntriesIn(queue, 0 + 1) = EntriesIn(queue', 0) + one /\ EntriesIn(queue', 0) \in 0..0
    <3>1. 0 \in 0..(n - 1)
      BY <1>3
    <3>2. EntriesIn(queue', 0) \in 0..0
      BY EntriesInTyped
    <3> QED BY <1>5, <3>1, <3>2
  <2>2. one = 1 => EntriesIn(queue, 1) = 1 /\ queue[1] \in Entries
    BY <1>3, <2>1
  <2> QED BY <1>3, <1>6, <2>2
<1> HIDE DEF n, b, one
<1>8. one \in {0, 1}
  BY DEF one
<1>9. Len(accepted') = b + one + EntriesIn(queue', n - 1)
  <2>1. EntriesIn(queue, (n - 1) + 1) = EntriesIn(queue', n - 1) + one
        /\ EntriesIn(queue', n - 1) \in Nat
    BY <1>3, <1>5
  <2>2. (n - 1) + 1 = n
    BY <1>1
  <2> QED BY <1>1, <1>2, <1>6, <1>8, <2>1, <2>2
<1>10. \A i \in 1..(b + one) : accepted'[i] = Begun'[i]
  <2> SUFFICES ASSUME NEW i \in 1..(b + one) PROVE accepted[i] = Begun'[i]
    BY <1>1
  <2>1. i \in 1..b \/ (one = 1 /\ i = b + 1)
    BY <1>2, <1>8
  <2> QED BY <1>4, <1>6, <1>7, <2>1
<1>11. ASSUME NEW i \in 1..(n - 1), queue'[i] \in Entries
       PROVE  accepted'[b + one + EntriesIn(queue', i)] = queue'[i]
  <2>1. i \in 0..(n - 1) /\ i + 1 \in 1..n /\ queue'[i] = queue[i + 1]
    BY <1>1, <1>3
  <2>2. EntriesIn(queue, i + 1) = EntriesIn(queue', i) + one /\ EntriesIn(queue', i) \in Nat
    BY <1>5, <2>1
  <2>3. b + EntriesIn(queue, i + 1) = b + one + EntriesIn(queue', i)
    BY <1>2, <1>8, <2>2
  <2> QED BY <1>1, <1>6, <1>11, <2>1, <2>3
<1> QED BY <1>3, <1>4, <1>9, <1>10, <1>11 DEF KeptInOrder

LEMMA OrderKept == TypeOK /\ KeptInOrder /\ [Next]_vars => KeptInOrder'
<1> SUFFICES ASSUME TypeOK, KeptInOrder, [Next]_vars PROVE KeptInOrder'
  OBVIOUS
<1>1. ASSUME NEW c \in Callers, Push(c) PROVE KeptInOrder'
  BY <1>1, OrderPushed
<1>2. CASE TakeEntry \/ AnswerFlush
  BY <1>2, OrderTaken
<1>3. CASE Emit
  <2>1. Begun' = Begun /\ queue' = queue /\ accepted' = accepted
    BY <1>3 DEF Emit, Begun
  <2> QED BY <2>1, OrderSame
<1>4. ASSUME UNCHANGED <<queue, writing, file, accepted>> PROVE KeptInOrder'
  BY <1>4, OrderSame DEF Begun
<1> QED BY <1>1, <1>2, <1>3, <1>4
        DEF Next, Writer, Call, Reserve, Cancel, Signal, Settle, Exit, vars

\* Entries reach the file in the order their log calls returned, none lost and
\* none twice, for any callers and any capacity (RequestLogger::log).
THEOREM OrderIsKept == Spec => []KeptInOrder
<1>1. Init => KeptInOrder
  <2> SUFFICES ASSUME Init PROVE KeptInOrder
    OBVIOUS
  <2>1. Begun = <<>> /\ queue = <<>> /\ accepted = <<>>
    BY DEF Init, Begun
  <2>2. EntriesIn(queue, 0) \in 0..0
    BY EntriesInTyped
  <2>3. EntriesIn(queue, 0) = 0
    BY <2>2
  <2> QED BY <2>1, <2>3 DEF KeptInOrder
<1> QED BY <1>1, OrderKept, QueueTypeCorrect, PTL DEF Spec

-----------------------------------------------------------------------------
QueueInv ==
    /\ TypesHold /\ Somewhere /\ AskedSent /\ InFront
    /\ FlushCovers /\ Quiet /\ Covered

LEMMA QueueInvHolds == Spec => []QueueInv
<1>1. Init => QueueInv
  <2> SUFFICES ASSUME Init PROVE QueueInv
    OBVIOUS
  <2>1. Somewhere /\ AskedSent /\ InFront
    BY DEF Init, Somewhere, AskedSent, InFront, Sent, Callers
  <2>2. FlushCovers /\ Quiet /\ Covered
    <3>1. Main \in Callers /\ Flushers \subseteq Callers
      BY DEF Callers, Flushers
    <3> QED BY <3>1 DEF Init, FlushCovers, Quiet, Covered
  <2> QED BY <2>1, <2>2, TypesFirst DEF QueueInv
<1>2. QueueInv /\ [Next]_vars => QueueInv'
  BY TypesKept, SomewhereKept, AskedSentKept, InFrontKept, FlushKept, QuietKept, CoveredKept
     DEF QueueInv, TypesHold
<1> QED BY <1>1, <1>2, PTL DEF Spec

\* A flush covers every entry whose log had returned before it was called,
\* for any callers and any capacity (RequestLogger::flush).
THEOREM FlushesCover == Spec => []FlushCovers
<1>1. QueueInv => FlushCovers
  BY DEF QueueInv
<1> QED BY QueueInvHolds, <1>1, PTL

\* An exit in order leaves no answered request out of the file (run, after
\* with_graceful_shutdown).
THEOREM AnswersSurviveExit == Spec => []ExitKeepsAnswered
<1>1. QueueInv => ExitKeepsAnswered
  <2> SUFFICES ASSUME QueueInv, phase = "exited", NEW h \in Handlers, stage[h] = "sent"
               PROVE  h \in Written
    BY DEF ExitKeepsAnswered
  <2>1. stage[Main] = "done" /\ h \in asked[Main]
    BY DEF QueueInv, Covered
  <2> QED BY <2>1 DEF QueueInv, FlushCovers, Flushers
<1> QED BY QueueInvHolds, <1>1, PTL

-----------------------------------------------------------------------------
(* The promise of module FlushedLog.                                        *)

AcceptedSent == Elements(accepted) = Sent

LEMMA AcceptedSentKept == TypeOK /\ AcceptedSent /\ [Next]_vars => AcceptedSent'
<1> SUFFICES ASSUME TypeOK, AcceptedSent, [Next]_vars PROVE AcceptedSent'
  OBVIOUS
<1>1. ASSUME NEW c \in Callers, Push(c) PROVE AcceptedSent'
  <2>1. Sent' = Sent \cup ({c} \cap Entries)
    BY <1>1, PushSends
  <2>2. CASE c \in Entries
    <3>1. accepted' = Append(accepted, c) /\ accepted \in Seq(Entries)
      BY <1>1, <2>2 DEF Push, TypeOK
    <3>2. Elements(accepted)' = Elements(accepted) \cup {c}
      BY <2>2, <3>1, ElementsOfAppend
    <3> QED BY <2>1, <2>2, <3>2 DEF AcceptedSent
  <2>3. CASE c \notin Entries
    BY <1>1, <2>1, <2>3 DEF Push, AcceptedSent, Elements
  <2> QED BY <2>2, <2>3
<1>2. CASE \A c \in Callers : ~Push(c)
  <2>1. Sent' = Sent
    BY <1>2, OnlyPushSends
  <2>2. accepted' = accepted
    BY <1>2 DEF Next, Writer, Call, Reserve, Cancel, TakeEntry, AnswerFlush, Emit, Signal,
                Settle, Exit, vars
  <2> QED BY <2>1, <2>2 DEF AcceptedSent, Elements
<1> QED BY <1>1, <1>2

LogInv == QueueInv /\ KeptInOrder /\ AcceptedSent

LEMMA LogInvHolds == Spec => []LogInv
<1>1. Init => AcceptedSent
  BY DEF Init, AcceptedSent, Elements, Sent, Callers
<1>2. QueueInv => TypeOK
  BY DEF QueueInv, TypesHold
<1> QED BY <1>1, <1>2, AcceptedSentKept, QueueInvHolds, OrderIsKept, PTL DEF Spec, LogInv

\* Nothing a caller of log or flush could tell apart happens.
LEMMA Unseen ==
    ASSUME UNCHANGED <<accepted, file, asked>>, FlushStates' = FlushStates
    PROVE  UNCHANGED Promise!vars
BY DEF Promise!vars

LEMMA CallIsAsked ==
    ASSUME TypeOK, LogInv, NEW c \in Callers, Call(c)
    PROVE  Promise!Next \/ UNCHANGED Promise!vars
<1> USE LogQueueConstants
<1>1. stage \in [Callers -> Stages] /\ stage[c] = "off" /\ stage' = [stage EXCEPT ![c] = "calling"]
      /\ accepted' = accepted /\ file' = file
  BY DEF TypeOK, Call, Reach
<1>2. CASE c \in Flushers
  <2>1. FlushStates[c] = "off" /\ FlushStates' = [FlushStates EXCEPT ![c] = "waiting"]
    BY <1>1, <1>2 DEF FlushStates, Callers
  <2>2. asked' = [asked EXCEPT ![c] = Promise!Elements(accepted)]
    BY <1>2 DEF Call, LogInv, AcceptedSent, Sent, Elements, Promise!Elements
  <2>3. Promise!Ask(c)
    BY <1>1, <2>1, <2>2 DEF Promise!Ask
  <2> QED BY <1>2, <2>3 DEF Promise!Next
<1>3. CASE c \notin Flushers
  <2>1. FlushStates' = FlushStates
    BY <1>1, <1>3 DEF FlushStates, Callers
  <2> QED BY <1>1, <1>3, <2>1, Unseen DEF Call
<1> QED BY <1>2, <1>3

LEMMA PushIsAccepted ==
    ASSUME TypeOK, LogInv, NEW c \in Callers, Push(c)
    PROVE  Promise!Next \/ UNCHANGED Promise!vars
<1> USE LogQueueConstants
<1>1. FlushStates' = FlushStates
  BY DEF TypeOK, FlushStates, Push, Reach, Callers
<1>2. CASE c \in Entries
  <2>1. c \notin Promise!Elements(accepted)
    BY DEF Push, LogInv, AcceptedSent, Sent, Elements, Promise!Elements
  <2>2. Promise!Accept(c)
    BY <1>1, <1>2, <2>1 DEF Push, Promise!Accept
  <2> QED BY <1>2, <2>2 DEF Promise!Next
<1>3. CASE c \notin Entries
  BY <1>1, <1>3, Unseen DEF Push
<1> QED BY <1>2, <1>3

LEMMA CancelIsLeft ==
    ASSUME TypeOK, NEW c \in Callers, Cancel(c)
    PROVE  Promise!Next \/ UNCHANGED Promise!vars
<1> USE LogQueueConstants
<1>1. stage \in [Callers -> Stages] /\ stage' = [stage EXCEPT ![c] = "gone"]
      /\ UNCHANGED <<accepted, file, asked>>
  BY DEF TypeOK, Cancel, Reach
<1>2. CASE c \in Flushers
  <2>1. FlushStates[c] = "waiting" /\ FlushStates' = [FlushStates EXCEPT ![c] = "gone"]
    BY <1>1, <1>2 DEF FlushStates, Cancel, UnderWay, Callers
  <2>2. Promise!Leave(c)
    BY <1>1, <2>1 DEF Promise!Leave
  <2> QED BY <1>2, <2>2 DEF Promise!Next
<1>3. CASE c \notin Flushers
  <2>1. FlushStates' = FlushStates
    BY <1>1, <1>3 DEF FlushStates, Callers
  <2> QED BY <1>1, <2>1, Unseen
<1> QED BY <1>2, <1>3

LEMMA AnswerIsReturned ==
    ASSUME TypeOK, LogInv, FlushCovers', AnswerFlush
    PROVE  Promise!Next \/ UNCHANGED Promise!vars
<1> USE LogQueueConstants
<1> DEFINE f == Head(queue)
<1>1. f \in Flushers /\ UNCHANGED <<accepted, file, asked>> /\ stage \in [Callers -> Stages]
  BY DEF AnswerFlush, TypeOK
<1>2. CASE stage[f] = "sent"
  <2>1. stage' = [stage EXCEPT ![f] = "done"]
    BY <1>2 DEF AnswerFlush, Reach
  <2>2. FlushStates[f] = "waiting" /\ FlushStates' = [FlushStates EXCEPT ![f] = "done"]
    BY <1>1, <1>2, <2>1 DEF FlushStates, Callers
  <2>3. asked'[f] \subseteq Written'
    BY <1>1, <2>1 DEF FlushCovers, Callers
  <2>4. asked[f] \subseteq Promise!Elements(file)
    BY <1>1, <2>3 DEF Written, Elements, Promise!Elements
  <2>5. Promise!Return(f)
    BY <1>1, <2>2, <2>4 DEF Promise!Return
  <2> QED BY <1>1, <2>5 DEF Promise!Next
<1>3. CASE stage[f] # "sent"
  <2>1. stage' = stage
    BY <1>3 DEF AnswerFlush
  <2>2. FlushStates' = FlushStates
    BY <2>1 DEF FlushStates
  <2> QED BY <1>1, <2>2, Unseen
<1> QED BY <1>2, <1>3

LEMMA EmitIsWritten ==
    ASSUME TypeOK, LogInv, Emit
    PROVE  Promise!Next
<1>1. /\ file \in Seq(Entries) /\ writing \in Entries /\ file' = Append(file, writing)
      /\ UNCHANGED <<accepted, asked, stage>> /\ accepted \in Seq(Entries)
  BY DEF TypeOK, Emit
<1>2. Begun = Append(file, writing)
  BY DEF Emit, Begun
<1>3. Len(file) \in Nat /\ Len(Begun) = Len(file) + 1 /\ Begun[Len(file) + 1] = writing
      /\ Len(file) + 1 \in DOMAIN Begun
  BY <1>1, <1>2, AppendAt
<1>4. accepted[Len(file) + 1] = writing
  BY <1>3 DEF LogInv, KeptInOrder
<1>5. Len(file) < Len(accepted)
  <2>1. Len(queue) \in Nat
    BY DEF TypeOK
  <2>2. EntriesIn(queue, Len(queue)) \in Nat
    <3>1. EntriesIn(queue, Len(queue)) \in 0..Len(queue)
      BY <2>1, EntriesInTyped
    <3> QED BY <2>1, <3>1
  <2>3. Len(accepted) = Len(Begun) + EntriesIn(queue, Len(queue))
    BY DEF LogInv, KeptInOrder
  <2> QED BY <1>3, <2>2, <2>3
<1>6. FlushStates' = FlushStates
  BY <1>1 DEF FlushStates
<1>7. Promise!Write
  BY <1>1, <1>4, <1>5, <1>6 DEF Promise!Write
<1> QED BY <1>7 DEF Promise!Next

\* Queue, permits, writer and callers that leave implement the promise that
\* RequestLogger's doc comments make, for any callers and any capacity.
THEOREM QueueImplementsLog == Spec => QueueIsUnseen
<1>1. Init => Promise!Init
  <2>1. ASSUME Init PROVE FlushStates = [f \in Flushers |-> "off"]
    BY <2>1 DEF Init, FlushStates, Callers
  <2> QED BY <2>1 DEF Init, Promise!Init
<1>2. LogInv /\ LogInv' /\ [Next]_vars => [Promise!Next]_Promise!vars
  <2> SUFFICES ASSUME LogInv, LogInv', [Next]_vars
               PROVE  Promise!Next \/ UNCHANGED Promise!vars
    OBVIOUS
  <2>1. TypeOK /\ FlushCovers'
    BY DEF LogInv, QueueInv, TypesHold
  <2>2. ASSUME NEW c \in Callers, Call(c) \/ Push(c) \/ Cancel(c)
        PROVE  Promise!Next \/ UNCHANGED Promise!vars
    BY <2>1, <2>2, CallIsAsked, PushIsAccepted, CancelIsLeft
  <2>3. ASSUME NEW c \in Callers, Reserve(c) PROVE UNCHANGED Promise!vars
    <3>1. FlushStates' = FlushStates
      BY <2>1, <2>3, LogQueueConstants DEF Reserve, Reach, FlushStates, TypeOK, Callers
    <3> QED BY <2>3, <3>1, Unseen DEF Reserve
  <2>4. CASE AnswerFlush \/ Emit
    BY <2>1, <2>4, AnswerIsReturned, EmitIsWritten
  <2>5. CASE TakeEntry \/ Signal \/ Settle \/ Exit \/ UNCHANGED vars
    <3>1. UNCHANGED <<accepted, file, asked, stage>>
      BY <2>5 DEF TakeEntry, Signal, Settle, Exit, vars
    <3>2. FlushStates' = FlushStates
      BY <3>1 DEF FlushStates
    <3> QED BY <3>1, <3>2, Unseen
  <2> QED BY <2>2, <2>3, <2>4, <2>5 DEF Next, Writer
<1> QED BY <1>1, <1>2, LogInvHolds, PTL DEF Spec, QueueIsUnseen, Promise!Spec

-----------------------------------------------------------------------------
(* Streams: what folding a sequence does, one element at a time.            *)

ApplyAll(b, s) == Each(Apply, b, s)

\* The accumulators that Each(Apply, b, s) goes through.
IsApply(f, b, s, n) == f = [k \in 0..n |-> IF k = 0 THEN b ELSE Apply(f[k - 1], s[k])]

LEMMA ApplyExists ==
    ASSUME NEW b, NEW s, NEW n \in Nat
    PROVE  \E f : IsApply(f, b, s, n)
<1> DEFINE G == {k \in Nat : \E f : IsApply(f, b, s, k)}
<1>1. 0 \in G
  <2> DEFINE f == [l \in 0..0 |-> b]
  <2>1. f = [l \in 0..0 |-> IF l = 0 THEN b ELSE Apply(f[l - 1], s[l])]
    OBVIOUS
  <2>2. IsApply(f, b, s, 0)
    BY <2>1 DEF IsApply
  <2> QED BY <2>2
<1>2. ASSUME NEW k \in Nat, k \in G PROVE k + 1 \in G
  <2>1. PICK old : IsApply(old, b, s, k)
    BY <1>2
  <2> DEFINE f == [l \in 0..(k + 1) |-> IF l = k + 1 THEN Apply(old[k], s[k + 1]) ELSE old[l]]
  <2>2. ASSUME NEW l \in 0..(k + 1)
        PROVE  f[l] = IF l = 0 THEN b ELSE Apply(f[l - 1], s[l])
    <3>1. CASE l = k + 1
      <4>1. l # 0 /\ l - 1 = k /\ f[k] = old[k]
        BY <1>2, <3>1
      <4>2. f[l] = Apply(old[k], s[k + 1])
        BY <3>1
      <4> HIDE DEF f
      <4> QED BY <3>1, <4>1, <4>2
    <3>2. CASE l # k + 1
      <4>1. l \in 0..k /\ f[l] = old[l] /\ (l # 0 => f[l - 1] = old[l - 1])
        BY <1>2, <3>2
      <4>2. old[l] = IF l = 0 THEN b ELSE Apply(old[l - 1], s[l])
        BY <2>1, <4>1 DEF IsApply
      <4> HIDE DEF f
      <4> QED BY <4>1, <4>2
    <3> QED BY <3>1, <3>2
  <2>3. f = [l \in 0..(k + 1) |-> f[l]]
    OBVIOUS
  <2> HIDE DEF f
  <2>4. IsApply(f, b, s, k + 1)
    BY <2>2, <2>3 DEF IsApply
  <2> QED BY <1>2, <2>4
<1>3. Nat \subseteq G
  <2> HIDE DEF G
  <2> QED BY <1>1, <1>2, EveryNumber
<1> QED BY <1>3

LEMMA ApplyFirst == \A b : ApplyAll(b, <<>>) = b
<1> SUFFICES ASSUME NEW b PROVE ApplyAll(b, <<>>) = b
  OBVIOUS
<1> DEFINE f == CHOOSE g : IsApply(g, b, <<>>, 0)
<1>1. ApplyAll(b, <<>>) = f[0]
  BY DEF ApplyAll, Each, IsApply
<1>2. IsApply(f, b, <<>>, 0)
  BY ApplyExists
<1> HIDE DEF f
<1>3. f[0] = b
  BY <1>2 DEF IsApply
<1> QED BY <1>1, <1>3

LEMMA EachApply ==
    ASSUME NEW X, NEW s \in Seq(X), NEW x \in X, NEW b
    PROVE  ApplyAll(b, Append(s, x)) = Apply(ApplyAll(b, s), x)
<1> DEFINE Chain(t) == CHOOSE f : IsApply(f, b, t, Len(t))
           t == Append(s, x)
           f == Chain(s)
           g == Chain(t)
<1>1. \A u : ApplyAll(b, u) = Chain(u)[Len(u)]
  BY DEF ApplyAll, Each, IsApply
<1>2. \A u : Len(u) \in Nat => IsApply(Chain(u), b, u, Len(u))
  BY ApplyExists
<1> HIDE DEF Chain
<1>4. Len(s) \in Nat /\ Len(t) = Len(s) + 1 /\ t[Len(s) + 1] = x /\ \A k \in 1..Len(s) : t[k] = s[k]
  OBVIOUS
<1>5. /\ \A k \in 0..Len(s) : f[k] = IF k = 0 THEN b ELSE Apply(f[k - 1], s[k])
      /\ \A k \in 0..(Len(s) + 1) : g[k] = IF k = 0 THEN b ELSE Apply(g[k - 1], t[k])
  <2> HIDE DEF t
  <2>1. IsApply(f, b, s, Len(s)) /\ IsApply(g, b, t, Len(t))
    BY <1>2, <1>4
  <2> HIDE DEF f, g
  <2>2. IsApply(g, b, t, Len(s) + 1)
    BY <1>4, <2>1
  <2> QED BY <2>1, <2>2 DEF IsApply
<1> HIDE DEF f, g, t
<1>6. Nat \subseteq {k \in Nat : k <= Len(s) => f[k] = g[k]}
  <2> DEFINE G == {k \in Nat : k <= Len(s) => f[k] = g[k]}
  <2>1. 0 \in G
    BY <1>4, <1>5
  <2>2. ASSUME NEW k \in Nat, k \in G PROVE k + 1 \in G
    <3> SUFFICES ASSUME k + 1 <= Len(s) PROVE f[k + 1] = g[k + 1]
      OBVIOUS
    <3>1. k + 1 \in 1..Len(s) /\ (k + 1) - 1 = k /\ k + 1 # 0
      BY <1>4
    <3>2. f[k] = g[k] /\ t[k + 1] = s[k + 1]
      BY <1>4, <2>2, <3>1
    <3>3. k + 1 \in 0..Len(s) /\ k + 1 \in 0..(Len(s) + 1)
      BY <1>4, <3>1
    <3>4. f[k + 1] = Apply(f[k], s[k + 1]) /\ g[k + 1] = Apply(g[k], t[k + 1])
      BY <1>5, <3>1, <3>3
    <3> QED BY <3>2, <3>4
  <2> HIDE DEF G
  <2> QED BY <2>1, <2>2, EveryNumber DEF G
<1>7. f[Len(s)] = g[Len(s)]
  BY <1>4, <1>6
<1>8. g[Len(s) + 1] = Apply(g[Len(s)], x)
  <2>1. Len(s) + 1 \in 0..(Len(s) + 1) /\ Len(s) + 1 # 0 /\ (Len(s) + 1) - 1 = Len(s)
    BY <1>4
  <2> QED BY <1>4, <1>5, <2>1
<1>9. ApplyAll(b, s) = f[Len(s)] /\ ApplyAll(b, t) = g[Len(s) + 1]
  BY <1>1, <1>4 DEF f, g
<1> QED BY <1>7, <1>8, <1>9 DEF t

-----------------------------------------------------------------------------
(* Streams: lines and their ends.                                           *)

Shaped == script \in Scripts /\ size \in [Lines -> Sizes]

AnyEvent == Chunks \cup Events \cup {Noise}

LEMMA ScriptsAreSequences ==
    ASSUME Shaped
    PROVE  /\ script \in Seq(AnyEvent)
           /\ Len(script) \in Nat /\ Lines = 1..Len(script)
           /\ \A k \in Lines : size[k] \in Nat
<1>1. script \in Seq(AnyEvent)
  <2>1. script \in Chats \/ script \in Streamed
    BY StreamLogConstants DEF Shaped
  <2>2. CASE script \in Chats
    <3>1. script \in Seq(Chunks \cup {Noise})
      BY <2>2 DEF Chats
    <3> QED BY <3>1 DEF AnyEvent
  <2>3. CASE script \in Streamed
    <3>1. script \in Seq(Events \cup {Noise})
      BY <2>3 DEF Streamed
    <3> QED BY <3>1 DEF AnyEvent
  <2> QED BY <2>1, <2>2, <2>3
<1>2. Len(script) \in Nat /\ Lines = 1..Len(script)
  BY <1>1 DEF Lines
<1> QED BY <1>1, <1>2, StreamLogConstants DEF Shaped

IsEnd(f, n) == f = [k \in 0..n |-> IF k = 0 THEN 0 ELSE f[k - 1] + size[k] + 1]

LEMMA EndExists ==
    ASSUME NEW n \in Nat
    PROVE  \E f : IsEnd(f, n)
<1> DEFINE G == {k \in Nat : \E f : IsEnd(f, k)}
<1>1. 0 \in G
  <2> DEFINE f == [l \in 0..0 |-> 0]
  <2>1. f = [l \in 0..0 |-> IF l = 0 THEN 0 ELSE f[l - 1] + size[l] + 1]
    OBVIOUS
  <2>2. IsEnd(f, 0)
    BY <2>1 DEF IsEnd
  <2> QED BY <2>2
<1>2. ASSUME NEW k \in Nat, k \in G PROVE k + 1 \in G
  <2>1. PICK old : IsEnd(old, k)
    BY <1>2
  <2> DEFINE f == [l \in 0..(k + 1) |-> IF l = k + 1 THEN old[k] + size[k + 1] + 1 ELSE old[l]]
  <2>2. ASSUME NEW l \in 0..(k + 1)
        PROVE  f[l] = IF l = 0 THEN 0 ELSE f[l - 1] + size[l] + 1
    <3>1. CASE l = k + 1
      <4>1. l # 0 /\ l - 1 = k /\ f[k] = old[k]
        BY <1>2, <3>1
      <4>2. f[l] = old[k] + size[k + 1] + 1
        BY <3>1
      <4> HIDE DEF f
      <4> QED BY <3>1, <4>1, <4>2
    <3>2. CASE l # k + 1
      <4>1. l \in 0..k /\ f[l] = old[l] /\ (l # 0 => f[l - 1] = old[l - 1])
        BY <1>2, <3>2
      <4>2. old[l] = IF l = 0 THEN 0 ELSE old[l - 1] + size[l] + 1
        BY <2>1, <4>1 DEF IsEnd
      <4> HIDE DEF f
      <4> QED BY <4>1, <4>2
    <3> QED BY <3>1, <3>2
  <2>3. f = [l \in 0..(k + 1) |-> f[l]]
    OBVIOUS
  <2> HIDE DEF f
  <2>4. IsEnd(f, k + 1)
    BY <2>2, <2>3 DEF IsEnd
  <2> QED BY <1>2, <2>4
<1>3. Nat \subseteq G
  <2> HIDE DEF G
  <2> QED BY <1>1, <1>2, EveryNumber
<1> QED BY <1>3

LEMMA EndOfLines ==
    ASSUME Shaped
    PROVE  /\ EndOf(0) = 0
           /\ \A k \in Lines : EndOf(k) = EndOf(k - 1) + size[k] + 1
           /\ \A k \in 0..Len(script) : EndOf(k) \in Nat
<1> DEFINE end == CHOOSE f : IsEnd(f, Len(script))
<1>1. \A k : EndOf(k) = end[k]
  BY DEF EndOf, IsEnd
<1>2. IsEnd(end, Len(script))
  BY ScriptsAreSequences, EndExists
<1> HIDE DEF end
<1>3. \A k \in 0..Len(script) : end[k] = IF k = 0 THEN 0 ELSE end[k - 1] + size[k] + 1
  BY <1>2 DEF IsEnd
<1>4. EndOf(0) = 0
  BY <1>1, <1>3, ScriptsAreSequences
<1>5. ASSUME NEW k \in Lines
      PROVE  k \in Nat /\ k # 0 /\ EndOf(k) = EndOf(k - 1) + size[k] + 1
  <2>1. k \in 0..Len(script) /\ k # 0
    BY ScriptsAreSequences
  <2> QED BY <1>1, <1>3, <2>1
<1> DEFINE G == {k \in Nat : k \in 0..Len(script) => EndOf(k) \in Nat}
<1>6. 0 \in G
  BY <1>4
<1>7. ASSUME NEW k \in Nat, k \in G PROVE k + 1 \in G
  <2> SUFFICES ASSUME k + 1 \in 0..Len(script) PROVE EndOf(k + 1) \in Nat
    OBVIOUS
  <2>1. k + 1 \in Lines /\ (k + 1) - 1 = k /\ k \in 0..Len(script)
    BY ScriptsAreSequences
  <2>2. EndOf(k + 1) = EndOf(k) + size[k + 1] + 1
    BY <1>5, <2>1
  <2>3. EndOf(k) \in Nat /\ size[k + 1] \in Nat
    BY <1>7, <2>1, ScriptsAreSequences
  <2> QED BY <2>2, <2>3
<1>8. Nat \subseteq G
  <2> HIDE DEF G
  <2> QED BY <1>6, <1>7, EveryNumber
<1>9. \A k \in 0..Len(script) : EndOf(k) \in Nat
  BY <1>8, ScriptsAreSequences
<1> QED BY <1>4, <1>5, <1>9

LEMMA StartOfLines ==
    ASSUME Shaped, NEW k \in Lines
    PROVE  StartOf(k) = EndOf(k - 1)
<1>1. EndOf(k) = EndOf(k - 1) + size[k] + 1 /\ size[k] \in Nat
  BY EndOfLines, ScriptsAreSequences
<1>2. k - 1 \in 0..Len(script) /\ EndOf(k - 1) \in Nat
  BY EndOfLines, ScriptsAreSequences
<1> QED BY <1>1, <1>2 DEF StartOf

LEMMA EndsRise ==
    ASSUME Shaped
    PROVE  \A j, k \in 0..Len(script) : j < k => EndOf(j) < EndOf(k)
<1> DEFINE G == {k \in Nat : k \in 0..Len(script) => \A j \in 0..Len(script) : j < k => EndOf(j) < EndOf(k)}
<1>1. 0 \in G
  OBVIOUS
<1>2. ASSUME NEW k \in Nat, k \in G PROVE k + 1 \in G
  <2> SUFFICES ASSUME k + 1 \in 0..Len(script), NEW j \in 0..Len(script), j < k + 1
               PROVE  EndOf(j) < EndOf(k + 1)
    OBVIOUS
  <2>1. k + 1 \in Lines /\ (k + 1) - 1 = k /\ k \in 0..Len(script)
    BY ScriptsAreSequences
  <2>2. EndOf(k + 1) = EndOf(k) + size[k + 1] + 1
    BY <2>1, EndOfLines
  <2>3. EndOf(j) \in Nat /\ EndOf(k) \in Nat /\ EndOf(k + 1) \in Nat /\ size[k + 1] \in Nat
    BY <2>1, EndOfLines, ScriptsAreSequences
  <2>4. EndOf(k) < EndOf(k + 1)
    BY <2>2, <2>3
  <2>5. j < k => EndOf(j) < EndOf(k)
    BY <1>2, <2>1
  <2>6. j < k \/ j = k
    BY ScriptsAreSequences
  <2> QED BY <2>3, <2>4, <2>5, <2>6
<1>3. Nat \subseteq G
  <2> HIDE DEF G
  <2> QED BY <1>1, <1>2, EveryNumber
<1> QED BY <1>3, ScriptsAreSequences

\* Passed(b) is where b falls among the ends.
LEMMA PassedSplits ==
    ASSUME Shaped, NEW b \in Nat
    PROVE  /\ Passed(b) \in 0..Len(script)
           /\ EndOf(Passed(b)) <= b
           /\ \A k \in 0..Len(script) : EndOf(k) <= b <=> k <= Passed(b)
<1> DEFINE S == {0} \cup {k \in Lines : EndOf(k) <= b}
<1>1. S \in SUBSET (0..Len(script)) /\ S # {}
  BY ScriptsAreSequences
<1>2. \A k \in S : EndOf(k) <= b
  BY EndOfLines
<1>3. \A k \in 0..Len(script) : EndOf(k) <= b => k \in S
  BY ScriptsAreSequences
<1>4. Passed(b) = Max(S)
  BY DEF Passed
<1> HIDE DEF S
<1>5. Max(S) \in S /\ \A n \in S : n <= Max(S)
  BY <1>1, ScriptsAreSequences, GreatestIs
<1>6. Passed(b) \in S /\ Passed(b) \in 0..Len(script) /\ EndOf(Passed(b)) <= b
  BY <1>1, <1>2, <1>4, <1>5
<1>7. ASSUME NEW k \in 0..Len(script)
      PROVE  EndOf(k) <= b <=> k <= Passed(b)
  <2>1. EndOf(k) <= b => k <= Passed(b)
    BY <1>3, <1>4, <1>5
  <2>2. EndOf(k) \in Nat /\ EndOf(Passed(b)) \in Nat
    BY <1>6, EndOfLines
  <2>3. k < Passed(b) => EndOf(k) < EndOf(Passed(b))
    BY <1>6, EndsRise
  <2>4. k \in Nat /\ Passed(b) \in Nat /\ Len(script) \in Nat
    BY <1>6, ScriptsAreSequences
  <2>5. k <= Passed(b) => EndOf(k) <= EndOf(Passed(b))
    BY <2>2, <2>3, <2>4
  <2>6. k <= Passed(b) => EndOf(k) <= b
    BY <1>6, <2>2, <2>5
  <2> QED BY <2>1, <2>6
<1> QED BY <1>6, <1>7

-----------------------------------------------------------------------------
(* Streams: what the lines of K add up to.                                  *)

\* The first n lines, without those that are not in K.
Upto(K, n) == ApplyAll(NewAcc, [k \in 1..n |-> IF k \in K THEN script[k] ELSE Noise])

Told(K) == Upto(K, Len(script))

LEMMA NoiseSaysNothing == \A a : Apply(a, Noise) = a
BY DEF Apply, Noise

LEMMA UptoNext ==
    ASSUME Shaped, NEW K
    PROVE  /\ Upto(K, 0) = NewAcc
           /\ \A n \in Nat : n + 1 \in Lines =>
                Upto(K, n + 1) = IF n + 1 \in K THEN Apply(Upto(K, n), script[n + 1]) ELSE Upto(K, n)
<1> DEFINE es(n) == [k \in 1..n |-> IF k \in K THEN script[k] ELSE Noise]
<1>1. Noise \in AnyEvent
  BY DEF AnyEvent
<1>2. ASSUME NEW n \in Nat, n <= Len(script)
      PROVE  es(n) \in Seq(AnyEvent)
  <2>1. \A k \in 1..n : k \in Lines /\ script[k] \in AnyEvent
    BY <1>2, ScriptsAreSequences
  <2> QED BY <1>1, <2>1
<1>3. es(0) = <<>>
  OBVIOUS
<1>4. Upto(K, 0) = NewAcc
  BY <1>3, ApplyFirst DEF Upto
<1>5. ASSUME NEW n \in Nat, n + 1 \in Lines
      PROVE  Upto(K, n + 1) = IF n + 1 \in K THEN Apply(Upto(K, n), script[n + 1]) ELSE Upto(K, n)
  <2> DEFINE x == IF n + 1 \in K THEN script[n + 1] ELSE Noise
  <2>1. n <= Len(script) /\ script[n + 1] \in AnyEvent
    BY <1>5, ScriptsAreSequences
  <2>2. x \in AnyEvent /\ es(n) \in Seq(AnyEvent)
    BY <1>1, <1>2, <2>1
  <2>3. es(n + 1) = Append(es(n), x)
    OBVIOUS
  <2> HIDE DEF x, es
  <2>4. ApplyAll(NewAcc, es(n + 1)) = Apply(ApplyAll(NewAcc, es(n)), x)
    BY <2>2, <2>3, EachApply
  <2>5. Upto(K, n + 1) = Apply(Upto(K, n), x)
    BY <2>4 DEF Upto, es
  <2> QED BY <2>5, NoiseSaysNothing DEF x
<1> QED BY <1>4, <1>5

LEMMA UptoSame ==
    ASSUME NEW K, NEW M, NEW n \in Nat, \A k \in 1..n : k \in K <=> k \in M
    PROVE  Upto(K, n) = Upto(M, n)
<1>1. [k \in 1..n |-> IF k \in K THEN script[k] ELSE Noise]
        = [k \in 1..n |-> IF k \in M THEN script[k] ELSE Noise]
  OBVIOUS
<1> QED BY <1>1 DEF Upto

LEMMA UptoStays ==
    ASSUME Shaped, NEW K, NEW n \in 0..Len(script), \A k \in Lines : k > n => k \notin K
    PROVE  Told(K) = Upto(K, n)
<1> DEFINE G == {d \in Nat : n + d <= Len(script) => Upto(K, n + d) = Upto(K, n)}
<1>1. 0 \in G
  BY ScriptsAreSequences
<1>2. ASSUME NEW d \in Nat, d \in G PROVE d + 1 \in G
  <2> SUFFICES ASSUME n + (d + 1) <= Len(script) PROVE Upto(K, n + (d + 1)) = Upto(K, n)
    OBVIOUS
  <2>1. n + (d + 1) = (n + d) + 1 /\ n + d \in Nat /\ (n + d) + 1 \in Lines /\ (n + d) + 1 > n
    BY ScriptsAreSequences
  <2>2. (n + d) + 1 \notin K
    BY <2>1
  <2>3. Upto(K, (n + d) + 1) = Upto(K, n + d)
    BY <2>1, <2>2, UptoNext
  <2>4. Upto(K, n + d) = Upto(K, n)
    BY <1>2, <2>1, ScriptsAreSequences
  <2> QED BY <2>1, <2>3, <2>4
<1>3. Nat \subseteq G
  <2> HIDE DEF G
  <2> QED BY <1>1, <1>2, EveryNumber
<1>4. Len(script) - n \in Nat /\ n + (Len(script) - n) = Len(script)
  BY ScriptsAreSequences
<1>5. Upto(K, n + (Len(script) - n)) = Upto(K, n)
  BY <1>3, <1>4
<1> QED BY <1>4, <1>5 DEF Told

\* Hearing the lines after p, up to p + d.
LEMMA UptoHears ==
    ASSUME Shaped, NEW K, NEW p \in Nat, NEW d \in Nat, p + d <= Len(script),
           \A k \in Lines : p < k /\ k <= p + d => k \in K
    PROVE  ApplyAll(Upto(K, p), [n \in 1..d |-> script[p + n]]) = Upto(K, p + d)
<1> DEFINE h(e) == [n \in 1..e |-> script[p + n]]
           G == {e \in Nat : e <= d => ApplyAll(Upto(K, p), h(e)) = Upto(K, p + e)}
<1>1. 0 \in G
  <2>1. h(0) = <<>> /\ p + 0 = p
    OBVIOUS
  <2>2. ApplyAll(Upto(K, p), <<>>) = Upto(K, p)
    BY ApplyFirst
  <2> HIDE DEF h
  <2> QED BY <2>1, <2>2
<1>2. ASSUME NEW e \in Nat, e \in G PROVE e + 1 \in G
  <2> SUFFICES ASSUME e + 1 <= d
               PROVE  ApplyAll(Upto(K, p), h(e + 1)) = Upto(K, p + (e + 1))
    OBVIOUS
  <2>1. \A n \in 1..(e + 1) : p + n \in Lines /\ script[p + n] \in AnyEvent
    BY ScriptsAreSequences
  <2>2. h(e) \in Seq(AnyEvent) /\ script[p + (e + 1)] \in AnyEvent
    <3>1. \A n \in 1..e : n \in 1..(e + 1)
      OBVIOUS
    <3>4. \A n \in 1..e : script[p + n] \in AnyEvent
      BY <2>1, <3>1
    <3>2. h(e) \in Seq(AnyEvent)
      BY <3>4
    <3>3. e + 1 \in 1..(e + 1)
      OBVIOUS
    <3> QED BY <2>1, <3>2, <3>3
  <2>3. h(e + 1) = Append(h(e), script[p + (e + 1)])
    OBVIOUS
  <2>4. ApplyAll(Upto(K, p), h(e)) = Upto(K, p + e)
    BY <1>2
  <2> HIDE DEF h
  <2>5. ApplyAll(Upto(K, p), h(e + 1)) = Apply(Upto(K, p + e), script[p + (e + 1)])
    BY <2>2, <2>3, <2>4, EachApply
  <2>6. p + (e + 1) = (p + e) + 1 /\ p + e \in Nat /\ (p + e) + 1 \in Lines /\ (p + e) + 1 \in K
    <3>1. p + (e + 1) = (p + e) + 1 /\ p + e \in Nat /\ p < (p + e) + 1 /\ (p + e) + 1 <= p + d
      OBVIOUS
    <3>2. (p + e) + 1 \in Lines
      BY <3>1, ScriptsAreSequences
    <3> QED BY <3>1, <3>2
  <2> QED BY <2>5, <2>6, UptoNext
<1>3. Nat \subseteq G
  <2> HIDE DEF G
  <2> QED BY <1>1, <1>2, EveryNumber
<1>4. d \in G
  BY <1>3
<1> QED BY <1>4

\* Nothing but an error of the body sets error; chunks counts what is no noise.
LEMMA UptoShape ==
    ASSUME Shaped, NEW K, NEW n \in 0..Len(script)
    PROVE  Upto(K, n) = [choices |-> Upto(K, n).choices, usage |-> Upto(K, n).usage, error |-> FALSE,
                         chunks |-> Cardinality({k \in 1..n : k \in K /\ script[k].type # "noise"})]
<1> DEFINE N(m) == {k \in 1..m : k \in K /\ script[k].type # "noise"}
           Good(m) == Upto(K, m) = [choices |-> Upto(K, m).choices, usage |-> Upto(K, m).usage,
                                    error |-> FALSE, chunks |-> Cardinality(N(m))]
           G == {m \in Nat : m <= Len(script) => Good(m)}
<1>1. 0 \in G
  <2>1. N(0) = {}
    OBVIOUS
  <2>2. Cardinality(N(0)) = 0
    BY <2>1, FS_EmptySet
  <2> HIDE DEF N
  <2>3. Upto(K, 0) = NewAcc
    BY UptoNext
  <2> QED BY <2>2, <2>3 DEF NewAcc
<1>2. ASSUME NEW m \in Nat, m \in G PROVE m + 1 \in G
  <2> HIDE DEF Good
  <2> SUFFICES ASSUME m + 1 <= Len(script) PROVE Good(m + 1)
    OBVIOUS
  <2>1. m + 1 \in Lines /\ m <= Len(script)
    BY ScriptsAreSequences
  <2>2. Good(m)
    BY <1>2, <2>1
  <2>3. CASE m + 1 \in K /\ script[m + 1].type # "noise"
    <3>1. N(m + 1) = N(m) \cup {m + 1} /\ m + 1 \notin N(m)
      BY <2>3
    <3>2. IsFiniteSet(N(m))
      <4>1. N(m) \in SUBSET (1..m)
        OBVIOUS
      <4>2. \A l \in Nat : IsFiniteSet(1..l)
        BY FS_Interval
      <4> HIDE DEF N
      <4> QED BY <4>1, <4>2, FS_Subset
    <3>3. Cardinality(N(m + 1)) = Cardinality(N(m)) + 1
      <4> HIDE DEF N
      <4> QED BY <3>1, <3>2, FS_AddElement
    <3> HIDE DEF N
    <3> USE DEF Good
    <3>4. Upto(K, m + 1) = Apply(Upto(K, m), script[m + 1])
      BY <2>1, <2>3, UptoNext
    <3>5. Upto(K, m).error = FALSE /\ Upto(K, m).chunks = Cardinality(N(m))
      BY <2>2
    <3>6. Upto(K, m + 1) = [choices |-> Upto(K, m + 1).choices, usage |-> Upto(K, m + 1).usage,
                            error |-> Upto(K, m).error, chunks |-> Upto(K, m).chunks + 1]
      BY <2>3, <3>4 DEF Apply
    <3> QED BY <3>3, <3>5, <3>6
  <2>4. CASE ~(m + 1 \in K /\ script[m + 1].type # "noise")
    <3>1. N(m + 1) = N(m)
      BY <2>4
    <3>2. Upto(K, m + 1) = Upto(K, m)
      BY <2>1, <2>4, UptoNext DEF Apply
    <3> HIDE DEF N
    <3> QED BY <2>2, <3>1, <3>2 DEF Good
  <2> QED BY <2>3, <2>4
<1>3. Nat \subseteq G
  <2> HIDE DEF G
  <2> QED BY <1>1, <1>2, EveryNumber
<1>4. n \in Nat /\ n <= Len(script)
  BY ScriptsAreSequences
<1> HIDE DEF Good
<1>5. Good(n)
  BY <1>3, <1>4
<1> QED BY <1>5 DEF Good

-----------------------------------------------------------------------------
(* Streams: the buffer, and which lines have been heard.                    *)

CompleteAt(b) == {k \in Lines : EndOf(k) <= b}
OverlongAt(b) == {k \in CompleteAt(b) : size[k] > Limit}

\* The buffer begins where a line does, unless a long line is being skipped.
Buffered ==
    /\ Shaped
    /\ at \in 0..Bytes /\ from \in 0..at /\ at - from <= Limit
    /\ skipping \in BOOLEAN
    /\ ~skipping => from = EndOf(Passed(at))
    /\ skipping => Passed(at) + 1 \in Lines /\ size[Passed(at) + 1] > Limit

\* What has been heard is all lines up to the limit that have passed whole, and
\* some longer ones.
HeardWhole ==
    \E K \in SUBSET Complete :
        /\ Complete \ Overlong \subseteq K
        /\ acc = [choices |-> Told(K).choices, usage |-> Told(K).usage,
                  error |-> acc.error, chunks |-> Told(K).chunks]

LEMMA IsSequence ==
    ASSUME NEW m \in Nat, NEW e, e = [n \in 1..m |-> e[n]]
    PROVE  /\ e \in Seq(ToSet(e)) /\ Len(e) = m
           /\ e = <<>> <=> m = 0
           /\ m # 0 => Tail(e) = [n \in 1..(m - 1) |-> e[n + 1]]
<1> DEFINE T == ToSet(e)
<1>1. \A n \in 1..m : e[n] \in T
  <2>1. DOMAIN e = 1..m
    OBVIOUS
  <2> QED BY <2>1 DEF ToSet
<1> HIDE DEF T
<1>2. [n \in 1..m |-> e[n]] \in Seq(T) /\ Len([n \in 1..m |-> e[n]]) = m
  BY <1>1
<1>3. e \in Seq(T) /\ Len(e) = m
  BY <1>2
<1>4. e = <<>> <=> m = 0
  BY <1>3
<1>5. ASSUME m # 0 PROVE Tail(e) = [n \in 1..(m - 1) |-> e[n + 1]]
  <2>1. e # <<>> /\ m - 1 \in Nat
    BY <1>4, <1>5
  <2>2. Tail(e) \in Seq(T) /\ Len(Tail(e)) = m - 1 /\ \A n \in 1..(m - 1) : Tail(e)[n] = e[n + 1]
    <3>1. Tail(e) \in Seq(T) /\ Len(Tail(e)) = Len(e) - 1
      BY <1>3, <2>1
    <3>2. \A n \in 1..(Len(e) - 1) : Tail(e)[n] = e[n + 1]
      BY <1>3, <2>1
    <3> QED BY <1>3, <3>1, <3>2
  <2> DEFINE t == Tail(e)
  <2> HIDE DEF t
  <2>3. t \in Seq(T) /\ Len(t) = m - 1 /\ \A n \in 1..(m - 1) : t[n] = e[n + 1]
    BY <2>2 DEF t
  <2>4. DOMAIN t = 1..(m - 1) /\ t = [n \in DOMAIN t |-> t[n]]
    BY <2>3
  <2>5. t = [n \in 1..(m - 1) |-> t[n]]
    BY <2>4
  <2>6. t = [n \in 1..(m - 1) |-> e[n + 1]]
    BY <2>3, <2>5
  <2> QED BY <2>6 DEF t
<1> QED BY <1>3, <1>4, <1>5 DEF T

LEMMA PassedGrows ==
    ASSUME Shaped, NEW a \in Nat, NEW b \in Nat, a <= b
    PROVE  /\ Passed(a) \in 0..Len(script) /\ Passed(b) \in 0..Len(script)
           /\ Passed(a) \in Nat /\ Passed(b) \in Nat /\ Passed(a) <= Passed(b)
<1>1. Passed(a) \in 0..Len(script) /\ Passed(b) \in 0..Len(script) /\ EndOf(Passed(a)) <= a
  BY PassedSplits
<1>2. Len(script) \in Nat /\ EndOf(Passed(a)) \in Nat
  BY <1>1, EndOfLines, ScriptsAreSequences
<1>3. EndOf(Passed(a)) <= b
  BY <1>1, <1>2
<1>4. Passed(a) <= Passed(b)
  BY <1>1, <1>3, PassedSplits
<1> QED BY <1>1, <1>2, <1>4

LEMMA EndingIsEmpty ==
    ASSUME Buffered, NEW to \in (at + 1)..Bytes
    PROVE  /\ at \in Nat /\ to \in Nat
           /\ Passed(at) \in Nat /\ Passed(to) \in Nat /\ Passed(at) <= Passed(to)
           /\ Ending(to) = <<>> <=> Passed(to) = Passed(at)
<1>1. Shaped /\ Bytes \in Nat /\ at \in Nat
  <2>1. Shaped /\ at \in 0..Bytes
    BY DEF Buffered
  <2>2. Len(script) \in 0..Len(script)
    BY <2>1, ScriptsAreSequences
  <2>3. Bytes \in Nat
    BY <2>1, <2>2, EndOfLines DEF Bytes
  <2> QED BY <2>1, <2>3
<1>2. to \in Nat /\ at <= to
  BY <1>1
<1>3. Passed(at) \in Nat /\ Passed(to) \in Nat /\ Passed(at) <= Passed(to)
  BY <1>1, <1>2, PassedGrows
<1>4. Ending(to) = [n \in 1..(Passed(to) - Passed(at)) |-> Ending(to)[n]]
  BY DEF Ending
<1>5. Ending(to) = <<>> <=> Passed(to) - Passed(at) = 0
  <2>1. Passed(to) - Passed(at) \in Nat
    BY <1>3
  <2> HIDE DEF Ending
  <2> QED BY <1>4, <2>1, IsSequence
<1> QED BY <1>1, <1>2, <1>3, <1>4, <1>5

LEMMA FeedBuffers ==
    ASSUME Buffered, NEW to \in (at + 1)..Bytes,
           NEW f, f = (IF TooLong(to) THEN to ELSE BufferFrom(to)),
           NEW s, s = (TooLong(to) \/ (skipping /\ Ending(to) = <<>>))
    PROVE  /\ to \in 0..Bytes /\ f \in 0..to /\ to - f <= Limit
           /\ s \in BOOLEAN
           /\ ~s => f = EndOf(Passed(to))
           /\ s => Passed(to) + 1 \in Lines /\ size[Passed(to) + 1] > Limit
<1>1. /\ at \in Nat /\ to \in Nat /\ Passed(at) \in Nat /\ Passed(to) \in Nat
      /\ Passed(at) <= Passed(to) /\ (Ending(to) = <<>> <=> Passed(to) = Passed(at))
  BY EndingIsEmpty
<1>2. /\ Shaped /\ at \in 0..Bytes /\ from \in 0..at /\ at - from <= Limit /\ skipping \in BOOLEAN
      /\ (~skipping => from = EndOf(Passed(at)))
      /\ (skipping => Passed(at) + 1 \in Lines /\ size[Passed(at) + 1] > Limit)
  BY DEF Buffered
<1>3. Len(script) \in Nat /\ Bytes \in Nat /\ Limit \in Nat /\ Lines = 1..Len(script)
  <2>1. Len(script) \in Nat /\ Lines = 1..Len(script)
    BY <1>2, ScriptsAreSequences
  <2>2. Bytes \in Nat
    BY <1>2, <2>1, EndOfLines DEF Bytes
  <2> QED BY <2>1, <2>2, StreamLogConstants
<1>4. /\ Passed(to) \in 0..Len(script) /\ EndOf(Passed(to)) <= to /\ EndOf(Passed(to)) \in Nat
      /\ \A k \in 0..Len(script) : EndOf(k) <= to <=> k <= Passed(to)
  BY <1>1, <1>2, PassedSplits, EndOfLines
<1>5. BufferFrom(to) = IF Passed(to) = Passed(at) THEN from ELSE EndOf(Passed(to))
  BY <1>1 DEF BufferFrom
<1>6. BufferFrom(to) \in 0..to
  <2>1. from \in 0..to
    BY <1>1, <1>2
  <2> QED BY <1>1, <1>4, <1>5, <2>1
<1>7. f \in 0..to /\ to - f <= Limit
  <2>1. CASE TooLong(to)
    BY <1>1, <1>3, <2>1
  <2>2. CASE ~TooLong(to)
    <3>1. f = BufferFrom(to) /\ ~(to - BufferFrom(to) > Limit)
      BY <2>2 DEF TooLong
    <3> QED BY <1>1, <1>3, <1>6, <3>1
  <2> QED BY <2>1, <2>2
<1>8. ASSUME ~s PROVE f = EndOf(Passed(to))
  <2>1. ~TooLong(to) /\ f = BufferFrom(to) /\ (~skipping \/ Passed(to) # Passed(at))
    BY <1>1, <1>8
  <2>2. CASE Passed(to) # Passed(at)
    BY <1>5, <2>1, <2>2
  <2>3. CASE Passed(to) = Passed(at) /\ ~skipping
    <3>1. from = EndOf(Passed(at))
      BY <1>2, <2>3
    <3> QED BY <1>5, <2>1, <2>3, <3>1
  <2> QED BY <2>1, <2>2, <2>3
<1>9. ASSUME s PROVE Passed(to) + 1 \in Lines /\ size[Passed(to) + 1] > Limit
  <2>1. CASE skipping /\ Passed(to) = Passed(at)
    BY <1>2, <2>1
  <2>2. CASE TooLong(to) /\ BufferFrom(to) = EndOf(Passed(to))
    <3> DEFINE p == Passed(to)
    <3>1. to - EndOf(p) > Limit
      BY <2>2 DEF TooLong
    <3>2. p # Len(script)
      <4>1. to <= EndOf(Len(script))
        BY <1>1, <1>3 DEF Bytes
      <4> QED BY <1>1, <1>3, <1>4, <3>1, <4>1
    <3>3. p + 1 \in Lines /\ (p + 1) - 1 = p /\ p + 1 \in 0..Len(script)
      BY <1>3, <1>4, <3>2
    <3>4. EndOf(p + 1) = EndOf(p) + size[p + 1] + 1 /\ EndOf(p + 1) \in Nat /\ size[p + 1] \in Nat
      BY <1>2, <3>3, EndOfLines, ScriptsAreSequences
    <3>5. ~(EndOf(p + 1) <= to)
      <4>1. ~(p + 1 <= p)
        BY <1>1
      <4> QED BY <1>4, <3>3, <4>1
    <3> HIDE DEF p
    <3>6. EndOf(p) \in Nat
      BY <1>4 DEF p
    <3>7. size[p + 1] > Limit
      <4> DEFINE w == size[p + 1]
                 d == EndOf(p)
      <4>1. w \in Nat /\ d \in Nat /\ to \in Nat /\ Limit \in Nat
        BY <1>1, <1>3, <3>4, <3>6
      <4>2. to - d > Limit /\ ~(d + w + 1 <= to)
        BY <3>1, <3>4, <3>5
      <4> HIDE DEF w, d
      <4>3. w > Limit
        BY <4>1, <4>2
      <4> QED BY <4>3 DEF w
    <3> QED BY <3>3, <3>7 DEF p
  <2>3. TooLong(to) \/ (skipping /\ Passed(to) = Passed(at))
    BY <1>1, <1>9
  <2>4. ~skipping /\ Passed(to) = Passed(at) => BufferFrom(to) = EndOf(Passed(to))
    BY <1>2, <1>5
  <2>5. Passed(to) # Passed(at) => BufferFrom(to) = EndOf(Passed(to))
    BY <1>5
  <2> QED BY <2>1, <2>2, <2>3, <2>4, <2>5
<1> QED BY <1>1, <1>3, <1>7, <1>8, <1>9

\* The lines that end while `to` is fed: all of them, or all but the one that is
\* being skipped.
LEMMA HeardIs ==
    ASSUME Buffered, NEW to \in (at + 1)..Bytes
    PROVE  Heard(to) = LET p == IF skipping /\ Passed(to) # Passed(at) THEN Passed(at) + 1 ELSE Passed(at)
                       IN [n \in 1..(Passed(to) - p) |-> script[p + n]]
<1> DEFINE p == Passed(at)
           q == Passed(to)
<1>1. p \in Nat /\ q \in Nat /\ p <= q /\ (Ending(to) = <<>> <=> q = p) /\ at \in Nat /\ to \in Nat
  BY EndingIsEmpty
<1>2. Shaped /\ skipping \in BOOLEAN /\ (~skipping => from = EndOf(p))
  BY DEF Buffered
<1>3. q \in 0..Len(script) /\ Len(script) \in Nat /\ Lines = 1..Len(script)
  BY <1>1, <1>2, PassedSplits, ScriptsAreSequences
<1>4. Ending(to) = [n \in 1..(q - p) |-> Read(IF n = 1 THEN from ELSE StartOf(p + n), p + n)]
  BY DEF Ending
<1>5. \A n \in 1..(q - p) : p + n \in Lines /\ StartOf(p + n) = EndOf((p + n) - 1)
  <2> SUFFICES ASSUME NEW n \in 1..(q - p)
               PROVE  p + n \in Lines /\ StartOf(p + n) = EndOf((p + n) - 1)
    OBVIOUS
  <2>1. p + n \in Lines
    BY <1>1, <1>3
  <2> QED BY <1>2, <2>1, StartOfLines
<1> HIDE DEF p, q
<1>6. \A n \in 1..(q - p) : n # 1 => Ending(to)[n] = script[p + n]
  BY <1>4 DEF Read
<1>7. CASE q = p
  <2>1. Heard(to) = <<>>
    BY <1>1, <1>7 DEF Heard
  <2>2. [n \in 1..(q - p) |-> script[p + n]] = <<>>
    BY <1>1, <1>7
  <2> QED BY <1>7, <2>1, <2>2 DEF p, q
<1>8. CASE q # p /\ ~skipping
  <2>1. 1 \in 1..(q - p) /\ (p + 1) - 1 = p
    BY <1>1, <1>8
  <2>2. StartOf(p + 1) = from
    BY <1>2, <1>5, <1>8, <2>1
  <2>3. Ending(to)[1] = script[p + 1]
    BY <1>4, <2>1, <2>2 DEF Read
  <2>4. Ending(to) = [n \in 1..(q - p) |-> script[p + n]]
    BY <1>4, <1>6, <2>3
  <2>5. Heard(to) = Ending(to)
    BY <1>8 DEF Heard
  <2> QED BY <1>8, <2>4, <2>5 DEF p, q
<1>9. CASE q # p /\ skipping
  <2> DEFINE e == Ending(to)
  <2>1. Heard(to) = Tail(e)
    BY <1>1, <1>9 DEF Heard
  <2>2. e = [n \in 1..(q - p) |-> e[n]]
    BY <1>4
  <2>3. q - p \in Nat /\ q - p # 0
    BY <1>1, <1>9
  <2> HIDE DEF e
  <2>5. Tail(e) = [n \in 1..(q - p - 1) |-> e[n + 1]]
    BY <2>2, <2>3, IsSequence
  <2>6. ASSUME NEW n \in 1..(q - p - 1) PROVE e[n + 1] = script[(p + 1) + n]
    <3>1. n + 1 \in 1..(q - p) /\ n + 1 # 1 /\ p + (n + 1) = (p + 1) + n
      BY <1>1
    <3>2. e[n + 1] = script[p + (n + 1)]
      BY <1>6, <3>1 DEF e
    <3> QED BY <3>1, <3>2
  <2>7. q - p - 1 = q - (p + 1)
    BY <1>1
  <2>8. Tail(e) = [n \in 1..(q - (p + 1)) |-> script[(p + 1) + n]]
    BY <2>5, <2>6, <2>7
  <2> QED BY <1>9, <2>1, <2>8 DEF p, q
<1> QED BY <1>2, <1>7, <1>8, <1>9

LEMMA CompleteIs ==
    ASSUME Shaped, NEW b \in Nat
    PROVE  CompleteAt(b) = 1..Passed(b)
<1>1. Passed(b) \in 0..Len(script) /\ Lines = 1..Len(script) /\ Len(script) \in Nat
  BY PassedSplits, ScriptsAreSequences
<1>2. \A k \in Lines : k \in 0..Len(script)
  BY <1>1
<1>3. \A k \in Lines : EndOf(k) <= b <=> k <= Passed(b)
  BY <1>2, PassedSplits
<1> QED BY <1>1, <1>3 DEF CompleteAt

LEMMA ToldShape ==
    ASSUME Shaped, NEW K
    PROVE  Told(K) = [choices |-> Told(K).choices, usage |-> Told(K).usage, error |-> FALSE,
                      chunks |-> Cardinality({k \in Lines : k \in K /\ script[k].type # "noise"})]
<1>1. Len(script) \in 0..Len(script) /\ Lines = 1..Len(script)
  BY ScriptsAreSequences
<1>2. Upto(K, Len(script))
        = [choices |-> Upto(K, Len(script)).choices, usage |-> Upto(K, Len(script)).usage, error |-> FALSE,
           chunks |-> Cardinality({k \in 1..Len(script) : k \in K /\ script[k].type # "noise"})]
  BY <1>1, UptoShape
<1> QED BY <1>1, <1>2 DEF Told

\* Feeding a chunk hears the lines that it completes.
LEMMA FeedHears ==
    ASSUME Buffered, NEW to \in (at + 1)..Bytes,
           NEW K \in SUBSET CompleteAt(at), CompleteAt(at) \ OverlongAt(at) \subseteq K
    PROVE  \E M \in SUBSET CompleteAt(to) :
              /\ CompleteAt(to) \ OverlongAt(to) \subseteq M
              /\ ApplyAll(Told(K), Heard(to)) = Told(M)
<1> DEFINE p == Passed(at)
           q == Passed(to)
           o == IF skipping /\ q # p THEN p + 1 ELSE p
           M == K \cup ((o + 1)..q)
<1>1. p \in Nat /\ q \in Nat /\ p <= q /\ at \in Nat /\ to \in Nat
  BY EndingIsEmpty
<1>2. Shaped /\ skipping \in BOOLEAN /\ (skipping => size[p + 1] > Limit)
  BY DEF Buffered
<1>3. CompleteAt(at) = 1..p /\ CompleteAt(to) = 1..q
  BY <1>1, <1>2, CompleteIs
<1>4. Heard(to) = [n \in 1..(q - o) |-> script[o + n]]
  BY HeardIs
<1>5. q \in 0..Len(script) /\ p \in 0..Len(script) /\ Len(script) \in Nat /\ Lines = 1..Len(script)
  BY <1>1, <1>2, PassedSplits, ScriptsAreSequences
<1>6. o \in Nat /\ p <= o /\ o <= q /\ (o = p \/ (o = p + 1 /\ size[p + 1] > Limit))
  BY <1>1, <1>2
<1> HIDE DEF p, q, o
<1>7. M \in SUBSET (1..q) /\ K \in SUBSET (1..p)
  BY <1>1, <1>3, <1>6
<1>8. CompleteAt(to) \ OverlongAt(to) \subseteq M
  <2> SUFFICES ASSUME NEW k \in 1..q, ~(size[k] > Limit), k \notin (o + 1)..q
               PROVE  k \in K
    BY <1>3 DEF OverlongAt
  <2>1. k <= o
    BY <1>1, <1>6
  <2>2. k \in 1..p
    BY <1>1, <1>6, <2>1
  <2> QED BY <1>3, <2>2 DEF OverlongAt
<1>9. Told(K) = Upto(K, p)
  <2>1. \A k \in Lines : k > p => k \notin K
    BY <1>1, <1>5, <1>7
  <2> QED BY <1>2, <1>5, <2>1, UptoStays
<1>10. Upto(M, p) = Upto(K, p)
  <2>1. \A k \in 1..p : k \in M <=> k \in K
    BY <1>1, <1>6
  <2> HIDE DEF M
  <2> QED BY <1>1, <2>1, UptoSame
<1>11. Upto(M, o) = Upto(M, p)
  <2>1. CASE o = p
    BY <2>1
  <2>2. CASE o = p + 1
    <3>1. p + 1 \in Lines /\ p + 1 \notin M
      BY <1>1, <1>5, <1>6, <1>7, <2>2
    <3> HIDE DEF M
    <3>2. Upto(M, p + 1) = Upto(M, p)
      BY <1>1, <1>2, <3>1, UptoNext
    <3> QED BY <2>2, <3>2
  <2> QED BY <1>6, <2>1, <2>2
<1>12. ApplyAll(Upto(M, o), [n \in 1..(q - o) |-> script[o + n]]) = Upto(M, q)
  <2> DEFINE d == q - o
  <2>1. d \in Nat /\ o + d = q /\ o + d <= Len(script)
    BY <1>1, <1>5, <1>6
  <2>2. \A k \in Lines : o < k /\ k <= o + d => k \in M
    BY <1>1, <1>5, <1>6, <2>1
  <2> HIDE DEF M, d
  <2>3. ApplyAll(Upto(M, o), [n \in 1..d |-> script[o + n]]) = Upto(M, o + d)
    BY <1>2, <1>6, <2>1, <2>2, UptoHears
  <2> QED BY <2>1, <2>3 DEF d
<1>13. Told(M) = Upto(M, q)
  <2>1. \A k \in Lines : k > q => k \notin M
    BY <1>1, <1>5, <1>7
  <2> HIDE DEF M
  <2> QED BY <1>2, <1>5, <2>1, UptoStays
<1>14. ApplyAll(Told(K), Heard(to)) = Told(M)
  <2> HIDE DEF M
  <2> QED BY <1>4, <1>9, <1>10, <1>11, <1>12, <1>13
<1>15. M \in SUBSET CompleteAt(to)
  BY <1>3, <1>7
<1> HIDE DEF M
<1> QED BY <1>8, <1>14, <1>15

-----------------------------------------------------------------------------
(* Streams: the inductive invariant.                                        *)

BodyTypeOK ==
    /\ acc.error \in BOOLEAN
    /\ body \in {"open", "broken", "ended", "dropped"}
    /\ body = "open" => acc.error = FALSE

EntryMade ==
    entry # Nothing =>
        /\ body \in {"ended", "dropped"}
        /\ entry.choices = Summary(acc).choices /\ entry.chunks = acc.chunks
        /\ entry.error = "none" => entry.success /\ body = "ended"

StreamInv == Buffered /\ HeardWhole /\ BodyTypeOK /\ EntryMade

LEMMA StreamStarts == StreamInit => StreamInv
<1> SUFFICES ASSUME StreamInit PROVE StreamInv
  OBVIOUS
<1>1. Shaped /\ at = 0 /\ from = 0 /\ skipping = FALSE /\ acc = NewAcc /\ body = "open" /\ entry = Nothing
  BY DEF StreamInit, Shaped, Lines
<1>2. Passed(0) = 0
  <2>1. Passed(0) \in 0..Len(script) /\ EndOf(Passed(0)) <= 0
    BY <1>1, PassedSplits
  <2>2. Len(script) \in Nat /\ EndOf(0) = 0 /\ EndOf(Passed(0)) \in Nat
    BY <1>1, <2>1, EndOfLines, ScriptsAreSequences
  <2>3. 0 \in 0..Len(script) /\ (0 < Passed(0) => EndOf(0) < EndOf(Passed(0)))
    BY <1>1, <2>1, <2>2, EndsRise
  <2> QED BY <2>1, <2>2, <2>3
<1>3. Buffered
  <2>1. Len(script) \in Nat /\ EndOf(0) = 0 /\ EndOf(Len(script)) \in Nat /\ Limit \in Nat
    <3>1. Len(script) \in Nat
      BY <1>1, ScriptsAreSequences
    <3>2. Len(script) \in 0..Len(script)
      BY <3>1
    <3> QED BY <1>1, <3>1, <3>2, EndOfLines, StreamLogConstants
  <2>2. Bytes \in Nat
    BY <2>1 DEF Bytes
  <2>3. at \in 0..Bytes /\ from \in 0..at /\ at - from <= Limit
    BY <1>1, <2>1, <2>2
  <2>4. from = EndOf(Passed(at))
    BY <1>1, <1>2, <2>1
  <2> QED BY <1>1, <2>3, <2>4 DEF Buffered
<1>4. HeardWhole
  <2>1. CompleteAt(0) = {}
    <3>1. CompleteAt(0) = 1..0
      BY <1>1, <1>2, CompleteIs
    <3> QED BY <3>1
  <2>2. Complete = {} /\ Overlong = {}
    BY <1>1, <2>1 DEF Complete, Overlong, CompleteAt
  <2>3. Told({}) = NewAcc
    <3>1. Told({}) = Upto({}, 0)
      <4>1. 0 \in 0..Len(script) /\ \A k \in Lines : k > 0 => k \notin {}
        BY <1>1, ScriptsAreSequences
      <4> QED BY <1>1, <4>1, UptoStays
    <3> QED BY <1>1, <3>1, UptoNext
  <2>4. acc = [choices |-> Told({}).choices, usage |-> Told({}).usage,
               error |-> acc.error, chunks |-> Told({}).chunks]
    BY <1>1, <2>3 DEF NewAcc
  <2> QED BY <2>2, <2>4 DEF HeardWhole
<1>5. BodyTypeOK /\ EntryMade
  BY <1>1 DEF BodyTypeOK, EntryMade, NewAcc
<1> QED BY <1>3, <1>4, <1>5 DEF StreamInv

\* Nothing that is said of the lines changes while they do not.
LEMMA LinesStay ==
    ASSUME script' = script, size' = size
    PROVE  /\ Shaped' <=> Shaped
           /\ Lines' = Lines /\ Bytes' = Bytes
           /\ \A k : EndOf(k)' = EndOf(k)
           /\ \A b : Passed(b)' = Passed(b)
           /\ \A K : Told(K)' = Told(K)
<1>1. Lines' = Lines
  BY DEF Lines
<1>2. \A k : EndOf(k)' = EndOf(k)
  BY DEF EndOf
<1>3. Bytes' = Bytes
  BY <1>2 DEF Bytes
<1>4. \A b : Passed(b)' = Passed(b)
  BY <1>1, <1>2 DEF Passed
<1>5. \A K : Told(K)' = Told(K)
  BY DEF Told, Upto
<1>6. Shaped' <=> Shaped
  BY <1>1 DEF Shaped
<1> QED BY <1>1, <1>2, <1>3, <1>4, <1>5, <1>6

LEMMA ToldIs ==
    ASSUME Shaped, NEW K
    PROVE  Told(K) = [choices |-> Told(K).choices, usage |-> Told(K).usage,
                      error |-> FALSE, chunks |-> Told(K).chunks]
<1> DEFINE c == Cardinality({k \in Lines : k \in K /\ script[k].type # "noise"})
<1>1. Told(K) = [choices |-> Told(K).choices, usage |-> Told(K).usage, error |-> FALSE, chunks |-> c]
  BY ToldShape
<1> HIDE DEF c
<1> QED BY <1>1

LEMMA FeedKeeps ==
    ASSUME StreamInv, NEW to \in (at + 1)..Bytes, Feed(to)
    PROVE  StreamInv'
<1>1. Buffered /\ Shaped /\ at \in Nat /\ to \in Nat
  <2>1. Buffered
    BY DEF StreamInv
  <2> QED BY <2>1, EndingIsEmpty DEF Buffered
<1>2. /\ script' = script /\ size' = size /\ body' = body /\ entry' = entry /\ at' = to
      /\ from' = (IF TooLong(to) THEN to ELSE BufferFrom(to))
      /\ skipping' = (TooLong(to) \/ (skipping /\ Ending(to) = <<>>))
      /\ acc' = ApplyAll(acc, Heard(to))
      /\ body = "open"
  BY DEF Feed, ApplyAll
<1>3. Buffered'
  <2>1. /\ to \in 0..Bytes /\ from' \in 0..to /\ to - from' <= Limit
        /\ skipping' \in BOOLEAN
        /\ (~skipping' => from' = EndOf(Passed(to)))
        /\ (skipping' => Passed(to) + 1 \in Lines /\ size[Passed(to) + 1] > Limit)
    BY <1>1, <1>2, FeedBuffers
  <2>2. Shaped' /\ Bytes' = Bytes /\ Lines' = Lines
    BY <1>1, <1>2, LinesStay
  <2>3. EndOf(Passed(at))' = EndOf(Passed(to)) /\ Passed(at)' = Passed(to)
    BY <1>2 DEF EndOf, Passed, Lines
  <2> QED BY <1>2, <2>1, <2>2, <2>3 DEF Buffered
<1>4. PICK K \in SUBSET CompleteAt(at) :
          CompleteAt(at) \ OverlongAt(at) \subseteq K /\ acc = Told(K)
  <2>1. Complete = CompleteAt(at) /\ Overlong = OverlongAt(at)
    BY DEF Complete, Overlong, CompleteAt, OverlongAt
  <2>2. PICK K \in SUBSET CompleteAt(at) :
            /\ CompleteAt(at) \ OverlongAt(at) \subseteq K
            /\ acc = [choices |-> Told(K).choices, usage |-> Told(K).usage,
                      error |-> acc.error, chunks |-> Told(K).chunks]
    BY <2>1 DEF StreamInv, HeardWhole
  <2>3. acc.error = FALSE
    BY <1>2 DEF StreamInv, BodyTypeOK
  <2>4. acc = Told(K)
    BY <1>1, <2>2, <2>3, ToldIs
  <2> QED BY <2>2, <2>4
<1>5. PICK M \in SUBSET CompleteAt(to) :
          CompleteAt(to) \ OverlongAt(to) \subseteq M /\ acc' = Told(M)
  BY <1>1, <1>2, <1>4, FeedHears
<1>6. HeardWhole'
  <2>1. Complete' = CompleteAt(to) /\ Overlong' = OverlongAt(to)
    <3>1. Complete' = {k \in Lines' : EndOf(k)' <= at'}
      BY DEF Complete
    <3>2. Complete' = CompleteAt(to)
      BY <1>2, <3>1, LinesStay DEF CompleteAt
    <3>3. Overlong' = {k \in Complete' : size'[k] > Limit}
      BY DEF Overlong
    <3> QED BY <1>2, <3>2, <3>3 DEF OverlongAt
  <2>2. Told(M)' = Told(M)
    BY <1>2, LinesStay
  <2>3. acc' = [choices |-> Told(M).choices, usage |-> Told(M).usage,
                error |-> acc'.error, chunks |-> Told(M).chunks]
    BY <1>1, <1>5, ToldIs
  <2> QED BY <1>5, <2>1, <2>2, <2>3 DEF HeardWhole
<1>7. BodyTypeOK'
  <2>1. acc'.error = FALSE
    BY <1>1, <1>5, ToldIs
  <2> QED BY <1>2, <2>1 DEF BodyTypeOK, StreamInv
<1>8. EntryMade'
  BY <1>2 DEF EntryMade, StreamInv
<1> QED BY <1>3, <1>6, <1>7, <1>8 DEF StreamInv

\* The other steps leave the lines and what has been heard of them alone.
LEMMA HeardStays ==
    ASSUME StreamInv, script' = script, size' = size, at' = at, from' = from, skipping' = skipping,
           NEW b, acc' = [choices |-> acc.choices, usage |-> acc.usage, error |-> b, chunks |-> acc.chunks]
    PROVE  Buffered' /\ HeardWhole'
<1>1. Buffered /\ HeardWhole /\ Shaped
  BY DEF StreamInv, Buffered
<1>2. Buffered'
  <2>1. Shaped' /\ Bytes' = Bytes /\ Lines' = Lines
    BY <1>1, LinesStay
  <2>2. EndOf(Passed(at))' = EndOf(Passed(at)) /\ Passed(at)' = Passed(at)
    BY DEF EndOf, Passed, Lines
  <2> QED BY <1>1, <2>1, <2>2 DEF Buffered
<1>3. HeardWhole'
  <2>1. PICK K \in SUBSET Complete :
            /\ Complete \ Overlong \subseteq K
            /\ acc = [choices |-> Told(K).choices, usage |-> Told(K).usage,
                      error |-> acc.error, chunks |-> Told(K).chunks]
    BY <1>1 DEF HeardWhole
  <2>2. Complete' = Complete /\ Overlong' = Overlong
    <3>1. Complete' = {k \in Lines' : EndOf(k)' <= at'}
      BY DEF Complete
    <3>2. Complete' = Complete
      BY <3>1, LinesStay DEF Complete
    <3>3. Overlong' = {k \in Complete' : size'[k] > Limit}
      BY DEF Overlong
    <3> QED BY <3>2, <3>3 DEF Overlong
  <2>3. Told(K)' = Told(K)
    BY LinesStay
  <2>4. acc' = [choices |-> Told(K).choices, usage |-> Told(K).usage,
                error |-> acc'.error, chunks |-> Told(K).chunks]
    BY <2>1
  <2> QED BY <2>1, <2>2, <2>3, <2>4 DEF HeardWhole
<1> QED BY <1>2, <1>3

LEMMA StreamSteps == StreamInv /\ [StreamNext]_streamVars => StreamInv'
<1> SUFFICES ASSUME StreamInv, [StreamNext]_streamVars PROVE StreamInv'
  OBVIOUS
<1>1. acc = [choices |-> acc.choices, usage |-> acc.usage, error |-> acc.error, chunks |-> acc.chunks]
  BY DEF StreamInv, HeardWhole
<1>2. BodyTypeOK /\ EntryMade
  BY DEF StreamInv
<1>3. ASSUME UNCHANGED <<script, size, at, from, skipping, acc>> PROVE Buffered' /\ HeardWhole'
  <2>1. acc' = [choices |-> acc.choices, usage |-> acc.usage, error |-> acc.error, chunks |-> acc.chunks]
    BY <1>1, <1>3
  <2> QED BY <1>3, <2>1, HeardStays
<1>4. ASSUME NEW to \in (at + 1)..Bytes, Feed(to) PROVE StreamInv'
  BY <1>4, FeedKeeps
<1>5. CASE EndOfBody
  <2>1. Buffered' /\ HeardWhole'
    BY <1>3, <1>5 DEF EndOfBody
  <2>2. BodyTypeOK' /\ EntryMade'
    BY <1>2, <1>5 DEF EndOfBody, BodyTypeOK, EntryMade
  <2> QED BY <2>1, <2>2 DEF StreamInv
<1>6. CASE Break
  <2>1. acc' = [choices |-> acc.choices, usage |-> acc.usage, error |-> TRUE, chunks |-> acc.chunks]
    BY <1>1, <1>6 DEF Break
  <2>2. Buffered' /\ HeardWhole'
    BY <1>6, <2>1, HeardStays DEF Break
  <2>3. BodyTypeOK' /\ EntryMade'
    BY <1>2, <1>6, <2>1 DEF Break, BodyTypeOK, EntryMade
  <2> QED BY <2>2, <2>3 DEF StreamInv
<1>7. CASE DropBody
  <2>1. Buffered' /\ HeardWhole'
    BY <1>3, <1>7 DEF DropBody
  <2>2. BodyTypeOK' /\ EntryMade'
    BY <1>2, <1>7 DEF DropBody, BodyTypeOK, EntryMade
  <2> QED BY <2>1, <2>2 DEF StreamInv
<1>8. CASE LogStream
  <2>1. Buffered' /\ HeardWhole'
    BY <1>3, <1>8 DEF LogStream
  <2>2. BodyTypeOK'
    BY <1>2, <1>8 DEF LogStream, BodyTypeOK
  <2>3. EntryMade'
    <3>1. PICK success \in BOOLEAN :
              entry' = [choices |-> Summary(acc).choices, usage |-> acc.usage, chunks |-> acc.chunks,
                        success |-> success, error |-> Blame(success)]
      BY <1>8 DEF LogStream
    <3>2. body \in {"ended", "dropped"} /\ acc' = acc /\ body' = body
      BY <1>8 DEF LogStream
    <3>3. Blame(success) = "none" => success /\ body = "ended"
      BY <1>2, <3>2 DEF Blame, BodyTypeOK
    <3>4. Summary(acc)' = Summary(acc)
      BY <3>2 DEF Summary, InOrder
    <3>5. entry'.choices = Summary(acc).choices /\ entry'.chunks = acc.chunks
          /\ entry'.success = success /\ entry'.error = Blame(success)
      BY <3>1
    <3> QED BY <3>2, <3>3, <3>4, <3>5 DEF EntryMade
  <2> QED BY <2>1, <2>2, <2>3 DEF StreamInv
<1>9. CASE UNCHANGED streamVars
  <2>1. Buffered' /\ HeardWhole'
    BY <1>3, <1>9 DEF streamVars
  <2>2. BodyTypeOK' /\ EntryMade'
    BY <1>2, <1>9 DEF streamVars, BodyTypeOK, EntryMade, Summary, InOrder
  <2> QED BY <2>1, <2>2 DEF StreamInv
<1> QED BY <1>4, <1>5, <1>6, <1>7, <1>8, <1>9 DEF StreamNext

LEMMA StreamInvariant == StreamSpec => []StreamInv
<1>1. StreamInit => StreamInv
  BY StreamStarts
<1>2. StreamInv /\ [StreamNext]_streamVars => StreamInv'
  BY StreamSteps
<1> QED BY <1>1, <1>2, PTL DEF StreamSpec

\* What is buffered stays within the limit, and all variables have their types
\* (feed_sse), whatever backends stream and however it is cut.
THEOREM StreamTypes == StreamSpec => []StreamTypeOK
<1>1. StreamInv => StreamTypeOK
  <2> SUFFICES ASSUME StreamInv PROVE StreamTypeOK
    OBVIOUS
  <2>1. Buffered /\ Shaped /\ BodyTypeOK
    BY DEF StreamInv, Buffered
  <2>2. PICK K : acc.chunks = Told(K).chunks
    BY DEF StreamInv, HeardWhole
  <2>3. acc.chunks \in 0..Len(script)
    <3> DEFINE S == {k \in Lines : k \in K /\ script[k].type # "noise"}
    <3>1. S \in SUBSET Lines /\ Lines = 1..Len(script) /\ Len(script) \in Nat
      BY <2>1, ScriptsAreSequences
    <3>2. acc.chunks = Cardinality(S)
      BY <2>1, <2>2, ToldShape
    <3> HIDE DEF S
    <3>3. \A n \in Nat : IsFiniteSet(1..n) /\ Cardinality(1..n) = n
      BY FS_Interval
    <3>4. IsFiniteSet(Lines) /\ Cardinality(Lines) = Len(script)
      BY <3>1, <3>3
    <3>5. IsFiniteSet(S) /\ Cardinality(S) <= Len(script)
      BY <3>1, <3>4, FS_Subset
    <3>6. Cardinality(S) \in Nat
      BY <3>5, FS_CardinalityType
    <3> QED BY <3>1, <3>2, <3>5, <3>6
  <2> QED BY <2>1, <2>3 DEF StreamTypeOK, Buffered, Shaped, BodyTypeOK
<1> QED BY <1>1, StreamInvariant, PTL

-----------------------------------------------------------------------------
\* The first and the last word.
LEMMA FirstNext ==
    ASSUME NEW W, NEW s \in Seq(W), NEW x \in W
    PROVE  FirstOf(Append(s, x)) = Or(FirstOf(s), x) /\ LastOf(Append(s, x)) = Or(x, LastOf(s))
<1> DEFINE t == Append(s, x)
           l == Len(s) + 1
           S == {n \in DOMAIN s : s[n] # Nothing}
           T == {n \in DOMAIN t : t[n] # Nothing}
<1>1. /\ Len(s) \in Nat /\ DOMAIN s = 1..Len(s) /\ DOMAIN t = 1..l /\ t[l] = x
      /\ \A n \in 1..Len(s) : t[n] = s[n]
  <2>1. t \in Seq(W) /\ Len(t) = l /\ t[l] = x /\ \A n \in 1..Len(s) : t[n] = s[n]
    BY AppendProperties
  <2> HIDE DEF t
  <2> QED BY <2>1, LenProperties
<1>2. /\ FirstOf(s) = (IF S = {} THEN Nothing ELSE s[Min(S)])
      /\ LastOf(s) = (IF S = {} THEN Nothing ELSE s[Max(S)])
      /\ FirstOf(t) = (IF T = {} THEN Nothing ELSE t[Min(T)])
      /\ LastOf(t) = (IF T = {} THEN Nothing ELSE t[Max(T)])
  BY DEF FirstOf, LastOf
<1>3. /\ S \in SUBSET (1..Len(s)) /\ T \in SUBSET (1..l)
      /\ \A n \in S : n \in T /\ t[n] = s[n] /\ s[n] # Nothing
      /\ \A n \in T : n \in S \/ (n = l /\ x # Nothing)
      /\ x # Nothing => l \in T
  <2>1. l \in 1..l /\ \A n \in 1..Len(s) : n \in 1..l
    BY <1>1
  <2>2. \A n \in 1..l : n # l => n \in 1..Len(s)
    BY <1>1
  <2> HIDE DEF t, l
  <2> QED BY <1>1, <2>1, <2>2
<1> HIDE DEF t, S, T, l
<1>4. l \in Nat /\ l = Len(s) + 1
  BY <1>1 DEF l
<1>5. ASSUME NEW U \in SUBSET (1..l), U # {}
      PROVE  /\ Min(U) \in U /\ (\A n \in U : Min(U) <= n)
             /\ Max(U) \in U /\ (\A n \in U : n <= Max(U))
  <2>1. U \in SUBSET Nat /\ U \in SUBSET (0..l)
    BY <1>4
  <2>2. Min(U) \in U /\ (\A n \in U : Min(U) <= n)
    BY <1>5, <2>1, LeastIs
  <2>3. Max(U) \in U /\ (\A n \in U : n <= Max(U))
    BY <1>4, <1>5, <2>1, GreatestIs
  <2> QED BY <2>2, <2>3
<1>6. S \in SUBSET (1..l)
  BY <1>1, <1>3, <1>4
<1>7. FirstOf(t) = Or(FirstOf(s), x)
  <2>1. CASE S = {}
    <3>1. CASE x = Nothing
      <4>1. T = {}
        BY <1>3, <2>1, <3>1
      <4> QED BY <1>2, <2>1, <3>1, <4>1 DEF Or
    <3>2. CASE x # Nothing
      <4>1. T = {l}
        BY <1>3, <2>1, <3>2
      <4>2. Min(T) = l
        BY <1>3, <1>5, <4>1
      <4> QED BY <1>1, <1>2, <2>1, <4>1, <4>2 DEF Or
    <3> QED BY <3>1, <3>2
  <2>2. CASE S # {}
    <3>1. Min(S) \in S /\ (\A n \in S : Min(S) <= n)
      BY <1>5, <1>6, <2>2
    <3>2. T # {} /\ Min(T) \in T /\ (\A n \in T : Min(T) <= n)
      <4>1. T # {}
        BY <1>3, <2>2
      <4> QED BY <1>3, <1>5, <4>1
    <3>3. Min(T) <= Min(S) /\ Min(S) < l /\ Min(S) \in Nat /\ Min(T) \in Nat
      <4> DEFINE i == Min(S)
                 j == Min(T)
      <4>1. i \in 1..Len(s) /\ j \in 1..l /\ i \in T /\ j <= i
        BY <1>3, <3>1, <3>2
      <4> HIDE DEF i, j
      <4>2. j <= i /\ i < l /\ i \in Nat /\ j \in Nat
        BY <1>1, <1>4, <4>1
      <4> QED BY <4>2 DEF i, j
    <3>4. Min(T) \in S
      BY <1>3, <1>4, <3>2, <3>3
    <3>5. Min(T) = Min(S)
      BY <3>1, <3>3, <3>4
    <3> QED BY <1>2, <1>3, <2>2, <3>1, <3>2, <3>5 DEF Or
  <2> QED BY <2>1, <2>2
<1>8. LastOf(t) = Or(x, LastOf(s))
  <2>1. CASE x # Nothing
    <3>1. l \in T /\ T # {}
      BY <1>3, <2>1
    <3>2. Max(T) \in T /\ l <= Max(T)
      BY <1>3, <1>5, <3>1
    <3>3. Max(T) = l
      <4> DEFINE j == Max(T)
      <4>1. j \in 1..l /\ l <= j
        BY <1>3, <3>2
      <4> HIDE DEF j
      <4>2. j = l
        BY <1>4, <4>1
      <4> QED BY <4>2 DEF j
    <3> QED BY <1>1, <1>2, <2>1, <3>1, <3>3 DEF Or
  <2>2. CASE x = Nothing
    <3>1. T = S
      BY <1>3, <2>2
    <3>2. CASE S = {}
      BY <1>2, <2>2, <3>1, <3>2 DEF Or
    <3>3. CASE S # {}
      <4>1. Max(S) \in S
        BY <1>5, <1>6, <3>3
      <4> QED BY <1>2, <1>3, <2>2, <3>1, <3>3, <4>1 DEF Or
    <3> QED BY <3>2, <3>3
  <2> QED BY <2>1, <2>2
<1> QED BY <1>7, <1>8 DEF t

LEMMA FirstEmpty == FirstOf(<<>>) = Nothing /\ LastOf(<<>>) = Nothing
<1>1. {n \in DOMAIN <<>> : <<>>[n] # Nothing} = {}
  OBVIOUS
<1> QED BY <1>1 DEF FirstOf, LastOf

-----------------------------------------------------------------------------
(* Tool calls: merging pieces one after the other makes the whole calls.    *)

ApplyChoiceAll(b, s) == Each(ApplyChoice, b, s)

\* The accumulators that Each(ApplyChoice, b, s) goes through.
IsApplyChoice(f, b, s, n) == f = [k \in 0..n |-> IF k = 0 THEN b ELSE ApplyChoice(f[k - 1], s[k])]

LEMMA ApplyChoiceExists ==
    ASSUME NEW b, NEW s, NEW n \in Nat
    PROVE  \E f : IsApplyChoice(f, b, s, n)
<1> DEFINE G == {k \in Nat : \E f : IsApplyChoice(f, b, s, k)}
<1>1. 0 \in G
  <2> DEFINE f == [l \in 0..0 |-> b]
  <2>1. f = [l \in 0..0 |-> IF l = 0 THEN b ELSE ApplyChoice(f[l - 1], s[l])]
    OBVIOUS
  <2>2. IsApplyChoice(f, b, s, 0)
    BY <2>1 DEF IsApplyChoice
  <2> QED BY <2>2
<1>2. ASSUME NEW k \in Nat, k \in G PROVE k + 1 \in G
  <2>1. PICK old : IsApplyChoice(old, b, s, k)
    BY <1>2
  <2> DEFINE f == [l \in 0..(k + 1) |-> IF l = k + 1 THEN ApplyChoice(old[k], s[k + 1]) ELSE old[l]]
  <2>2. ASSUME NEW l \in 0..(k + 1)
        PROVE  f[l] = IF l = 0 THEN b ELSE ApplyChoice(f[l - 1], s[l])
    <3>1. CASE l = k + 1
      <4>1. l # 0 /\ l - 1 = k /\ f[k] = old[k]
        BY <1>2, <3>1
      <4>2. f[l] = ApplyChoice(old[k], s[k + 1])
        BY <3>1
      <4> HIDE DEF f
      <4> QED BY <3>1, <4>1, <4>2
    <3>2. CASE l # k + 1
      <4>1. l \in 0..k /\ f[l] = old[l] /\ (l # 0 => f[l - 1] = old[l - 1])
        BY <1>2, <3>2
      <4>2. old[l] = IF l = 0 THEN b ELSE ApplyChoice(old[l - 1], s[l])
        BY <2>1, <4>1 DEF IsApplyChoice
      <4> HIDE DEF f
      <4> QED BY <4>1, <4>2
    <3> QED BY <3>1, <3>2
  <2>3. f = [l \in 0..(k + 1) |-> f[l]]
    OBVIOUS
  <2> HIDE DEF f
  <2>4. IsApplyChoice(f, b, s, k + 1)
    BY <2>2, <2>3 DEF IsApplyChoice
  <2> QED BY <1>2, <2>4
<1>3. Nat \subseteq G
  <2> HIDE DEF G
  <2> QED BY <1>1, <1>2, EveryNumber
<1> QED BY <1>3

LEMMA ApplyChoiceFirst == \A b : ApplyChoiceAll(b, <<>>) = b
<1> SUFFICES ASSUME NEW b PROVE ApplyChoiceAll(b, <<>>) = b
  OBVIOUS
<1> DEFINE f == CHOOSE g : IsApplyChoice(g, b, <<>>, 0)
<1>1. ApplyChoiceAll(b, <<>>) = f[0]
  BY DEF ApplyChoiceAll, Each, IsApplyChoice
<1>2. IsApplyChoice(f, b, <<>>, 0)
  BY ApplyChoiceExists
<1> HIDE DEF f
<1>3. f[0] = b
  BY <1>2 DEF IsApplyChoice
<1> QED BY <1>1, <1>3

LEMMA EachApplyChoice ==
    ASSUME NEW X, NEW s \in Seq(X), NEW x \in X, NEW b
    PROVE  ApplyChoiceAll(b, Append(s, x)) = ApplyChoice(ApplyChoiceAll(b, s), x)
<1> DEFINE Chain(t) == CHOOSE f : IsApplyChoice(f, b, t, Len(t))
           t == Append(s, x)
           f == Chain(s)
           g == Chain(t)
<1>1. \A u : ApplyChoiceAll(b, u) = Chain(u)[Len(u)]
  BY DEF ApplyChoiceAll, Each, IsApplyChoice
<1>2. \A u : Len(u) \in Nat => IsApplyChoice(Chain(u), b, u, Len(u))
  BY ApplyChoiceExists
<1> HIDE DEF Chain
<1>4. Len(s) \in Nat /\ Len(t) = Len(s) + 1 /\ t[Len(s) + 1] = x /\ \A k \in 1..Len(s) : t[k] = s[k]
  OBVIOUS
<1>5. /\ \A k \in 0..Len(s) : f[k] = IF k = 0 THEN b ELSE ApplyChoice(f[k - 1], s[k])
      /\ \A k \in 0..(Len(s) + 1) : g[k] = IF k = 0 THEN b ELSE ApplyChoice(g[k - 1], t[k])
  <2> HIDE DEF t
  <2>1. IsApplyChoice(f, b, s, Len(s)) /\ IsApplyChoice(g, b, t, Len(t))
    BY <1>2, <1>4
  <2> HIDE DEF f, g
  <2>2. IsApplyChoice(g, b, t, Len(s) + 1)
    BY <1>4, <2>1
  <2> QED BY <2>1, <2>2 DEF IsApplyChoice
<1> HIDE DEF f, g, t
<1>6. Nat \subseteq {k \in Nat : k <= Len(s) => f[k] = g[k]}
  <2> DEFINE G == {k \in Nat : k <= Len(s) => f[k] = g[k]}
  <2>1. 0 \in G
    BY <1>4, <1>5
  <2>2. ASSUME NEW k \in Nat, k \in G PROVE k + 1 \in G
    <3> SUFFICES ASSUME k + 1 <= Len(s) PROVE f[k + 1] = g[k + 1]
      OBVIOUS
    <3>1. k + 1 \in 1..Len(s) /\ (k + 1) - 1 = k /\ k + 1 # 0
      BY <1>4
    <3>2. f[k] = g[k] /\ t[k + 1] = s[k + 1]
      BY <1>4, <2>2, <3>1
    <3>3. k + 1 \in 0..Len(s) /\ k + 1 \in 0..(Len(s) + 1)
      BY <1>4, <3>1
    <3>4. f[k + 1] = ApplyChoice(f[k], s[k + 1]) /\ g[k + 1] = ApplyChoice(g[k], t[k + 1])
      BY <1>5, <3>1, <3>3
    <3> QED BY <3>2, <3>4
  <2> HIDE DEF G
  <2> QED BY <2>1, <2>2, EveryNumber DEF G
<1>7. f[Len(s)] = g[Len(s)]
  BY <1>4, <1>6
<1>8. g[Len(s) + 1] = ApplyChoice(g[Len(s)], x)
  <2>1. Len(s) + 1 \in 0..(Len(s) + 1) /\ Len(s) + 1 # 0 /\ (Len(s) + 1) - 1 = Len(s)
    BY <1>4
  <2> QED BY <1>4, <1>5, <2>1
<1>9. ApplyChoiceAll(b, s) = f[Len(s)] /\ ApplyChoiceAll(b, t) = g[Len(s) + 1]
  BY <1>1, <1>4 DEF f, g
<1> QED BY <1>7, <1>8, <1>9 DEF t

MergeToolCallAll(b, s) == Each(MergeToolCall, b, s)

\* The accumulators that Each(MergeToolCall, b, s) goes through.
IsMergeToolCall(f, b, s, n) == f = [k \in 0..n |-> IF k = 0 THEN b ELSE MergeToolCall(f[k - 1], s[k])]

LEMMA MergeToolCallExists ==
    ASSUME NEW b, NEW s, NEW n \in Nat
    PROVE  \E f : IsMergeToolCall(f, b, s, n)
<1> DEFINE G == {k \in Nat : \E f : IsMergeToolCall(f, b, s, k)}
<1>1. 0 \in G
  <2> DEFINE f == [l \in 0..0 |-> b]
  <2>1. f = [l \in 0..0 |-> IF l = 0 THEN b ELSE MergeToolCall(f[l - 1], s[l])]
    OBVIOUS
  <2>2. IsMergeToolCall(f, b, s, 0)
    BY <2>1 DEF IsMergeToolCall
  <2> QED BY <2>2
<1>2. ASSUME NEW k \in Nat, k \in G PROVE k + 1 \in G
  <2>1. PICK old : IsMergeToolCall(old, b, s, k)
    BY <1>2
  <2> DEFINE f == [l \in 0..(k + 1) |-> IF l = k + 1 THEN MergeToolCall(old[k], s[k + 1]) ELSE old[l]]
  <2>2. ASSUME NEW l \in 0..(k + 1)
        PROVE  f[l] = IF l = 0 THEN b ELSE MergeToolCall(f[l - 1], s[l])
    <3>1. CASE l = k + 1
      <4>1. l # 0 /\ l - 1 = k /\ f[k] = old[k]
        BY <1>2, <3>1
      <4>2. f[l] = MergeToolCall(old[k], s[k + 1])
        BY <3>1
      <4> HIDE DEF f
      <4> QED BY <3>1, <4>1, <4>2
    <3>2. CASE l # k + 1
      <4>1. l \in 0..k /\ f[l] = old[l] /\ (l # 0 => f[l - 1] = old[l - 1])
        BY <1>2, <3>2
      <4>2. old[l] = IF l = 0 THEN b ELSE MergeToolCall(old[l - 1], s[l])
        BY <2>1, <4>1 DEF IsMergeToolCall
      <4> HIDE DEF f
      <4> QED BY <4>1, <4>2
    <3> QED BY <3>1, <3>2
  <2>3. f = [l \in 0..(k + 1) |-> f[l]]
    OBVIOUS
  <2> HIDE DEF f
  <2>4. IsMergeToolCall(f, b, s, k + 1)
    BY <2>2, <2>3 DEF IsMergeToolCall
  <2> QED BY <1>2, <2>4
<1>3. Nat \subseteq G
  <2> HIDE DEF G
  <2> QED BY <1>1, <1>2, EveryNumber
<1> QED BY <1>3

LEMMA MergeToolCallFirst == \A b : MergeToolCallAll(b, <<>>) = b
<1> SUFFICES ASSUME NEW b PROVE MergeToolCallAll(b, <<>>) = b
  OBVIOUS
<1> DEFINE f == CHOOSE g : IsMergeToolCall(g, b, <<>>, 0)
<1>1. MergeToolCallAll(b, <<>>) = f[0]
  BY DEF MergeToolCallAll, Each, IsMergeToolCall
<1>2. IsMergeToolCall(f, b, <<>>, 0)
  BY MergeToolCallExists
<1> HIDE DEF f
<1>3. f[0] = b
  BY <1>2 DEF IsMergeToolCall
<1> QED BY <1>1, <1>3

LEMMA EachMergeToolCall ==
    ASSUME NEW X, NEW s \in Seq(X), NEW x \in X, NEW b
    PROVE  MergeToolCallAll(b, Append(s, x)) = MergeToolCall(MergeToolCallAll(b, s), x)
<1> DEFINE Chain(t) == CHOOSE f : IsMergeToolCall(f, b, t, Len(t))
           t == Append(s, x)
           f == Chain(s)
           g == Chain(t)
<1>1. \A u : MergeToolCallAll(b, u) = Chain(u)[Len(u)]
  BY DEF MergeToolCallAll, Each, IsMergeToolCall
<1>2. \A u : Len(u) \in Nat => IsMergeToolCall(Chain(u), b, u, Len(u))
  BY MergeToolCallExists
<1> HIDE DEF Chain
<1>4. Len(s) \in Nat /\ Len(t) = Len(s) + 1 /\ t[Len(s) + 1] = x /\ \A k \in 1..Len(s) : t[k] = s[k]
  OBVIOUS
<1>5. /\ \A k \in 0..Len(s) : f[k] = IF k = 0 THEN b ELSE MergeToolCall(f[k - 1], s[k])
      /\ \A k \in 0..(Len(s) + 1) : g[k] = IF k = 0 THEN b ELSE MergeToolCall(g[k - 1], t[k])
  <2> HIDE DEF t
  <2>1. IsMergeToolCall(f, b, s, Len(s)) /\ IsMergeToolCall(g, b, t, Len(t))
    BY <1>2, <1>4
  <2> HIDE DEF f, g
  <2>2. IsMergeToolCall(g, b, t, Len(s) + 1)
    BY <1>4, <2>1
  <2> QED BY <2>1, <2>2 DEF IsMergeToolCall
<1> HIDE DEF f, g, t
<1>6. Nat \subseteq {k \in Nat : k <= Len(s) => f[k] = g[k]}
  <2> DEFINE G == {k \in Nat : k <= Len(s) => f[k] = g[k]}
  <2>1. 0 \in G
    BY <1>4, <1>5
  <2>2. ASSUME NEW k \in Nat, k \in G PROVE k + 1 \in G
    <3> SUFFICES ASSUME k + 1 <= Len(s) PROVE f[k + 1] = g[k + 1]
      OBVIOUS
    <3>1. k + 1 \in 1..Len(s) /\ (k + 1) - 1 = k /\ k + 1 # 0
      BY <1>4
    <3>2. f[k] = g[k] /\ t[k + 1] = s[k + 1]
      BY <1>4, <2>2, <3>1
    <3>3. k + 1 \in 0..Len(s) /\ k + 1 \in 0..(Len(s) + 1)
      BY <1>4, <3>1
    <3>4. f[k + 1] = MergeToolCall(f[k], s[k + 1]) /\ g[k + 1] = MergeToolCall(g[k], t[k + 1])
      BY <1>5, <3>1, <3>3
    <3> QED BY <3>2, <3>4
  <2> HIDE DEF G
  <2> QED BY <2>1, <2>2, EveryNumber DEF G
<1>7. f[Len(s)] = g[Len(s)]
  BY <1>4, <1>6
<1>8. g[Len(s) + 1] = MergeToolCall(g[Len(s)], x)
  <2>1. Len(s) + 1 \in 0..(Len(s) + 1) /\ Len(s) + 1 # 0 /\ (Len(s) + 1) - 1 = Len(s)
    BY <1>4
  <2> QED BY <1>4, <1>5, <2>1
<1>9. MergeToolCallAll(b, s) = f[Len(s)] /\ MergeToolCallAll(b, t) = g[Len(s) + 1]
  BY <1>1, <1>4 DEF f, g
<1> QED BY <1>7, <1>8, <1>9 DEF t

IdsOf(i) == [c \in CallPieces |-> IF c.slot = i THEN c.id ELSE Nothing]
ArgumentsOf(i) == [c \in CallPieces |-> IF c.slot = i THEN c.arguments ELSE <<>>]
Slots(cs) == {cs[n].slot : n \in DOMAIN cs}

LEMMA CallParts ==
    ASSUME NEW i
    PROVE  IdsOf(i) \in [CallPieces -> Words] /\ ArgumentsOf(i) \in [CallPieces -> Seq(Pieces)]
<1>1. \A c \in CallPieces : c.id \in Words /\ c.arguments \in Seq(Pieces)
  BY DEF CallPieces
<1>2. Nothing \in Words /\ <<>> \in Seq(Pieces)
  BY DEF Words
<1> QED BY <1>1, <1>2 DEF IdsOf, ArgumentsOf

LEMMA WholeCallIs ==
    ASSUME NEW cs \in Seq(CallPieces), NEW i
    PROVE  WholeCall(cs, i) = [id |-> FirstOf(Mapped(IdsOf(i), cs)),
                               arguments |-> Picked(ArgumentsOf(i), cs)]
<1>1. \A n \in DOMAIN cs : cs[n] \in CallPieces
  OBVIOUS
<1>2. [n \in DOMAIN cs |-> IF cs[n].slot = i THEN cs[n].id ELSE Nothing] = Mapped(IdsOf(i), cs)
  BY <1>1 DEF Mapped, IdsOf
<1>3. [n \in DOMAIN cs |-> IF cs[n].slot = i THEN cs[n].arguments ELSE <<>>] = Mapped(ArgumentsOf(i), cs)
  BY <1>1 DEF Mapped, ArgumentsOf
<1> QED BY <1>2, <1>3 DEF WholeCall, Picked

LEMMA WholeCallType ==
    ASSUME NEW cs \in Seq(CallPieces), NEW i
    PROVE  WholeCall(cs, i).arguments \in Seq(Pieces)
<1>1. Picked(ArgumentsOf(i), cs) \in Seq(Pieces)
  <2>1. ArgumentsOf(i) \in [CallPieces -> Seq(Pieces)]
    BY CallParts
  <2> QED BY <2>1, PickedType
<1> QED BY <1>1, WholeCallIs

LEMMA WholeCallNext ==
    ASSUME NEW cs \in Seq(CallPieces), NEW d \in CallPieces, NEW i
    PROVE  WholeCall(Append(cs, d), i)
             = IF d.slot = i
               THEN [id |-> Or(WholeCall(cs, i).id, d.id),
                     arguments |-> WholeCall(cs, i).arguments \o d.arguments]
               ELSE WholeCall(cs, i)
<1> DEFINE I == IdsOf(i)
           A == ArgumentsOf(i)
<1>1. I \in [CallPieces -> Words] /\ A \in [CallPieces -> Seq(Pieces)]
  BY CallParts
<1>2. I[d] = (IF d.slot = i THEN d.id ELSE Nothing) /\ A[d] = (IF d.slot = i THEN d.arguments ELSE <<>>)
  BY DEF IdsOf, ArgumentsOf
<1>3. WholeCall(cs, i) = [id |-> FirstOf(Mapped(I, cs)), arguments |-> Picked(A, cs)]
  BY WholeCallIs
<1>4. Append(cs, d) \in Seq(CallPieces)
  BY AppendProperties
<1>5. WholeCall(Append(cs, d), i)
        = [id |-> FirstOf(Mapped(I, Append(cs, d))), arguments |-> Picked(A, Append(cs, d))]
  BY <1>4, WholeCallIs
<1> HIDE DEF I, A
<1>6. FirstOf(Mapped(I, Append(cs, d))) = Or(FirstOf(Mapped(I, cs)), I[d])
  <2>1. Mapped(I, cs) \in Seq(Words) /\ I[d] \in Words
    BY <1>1, MappedType
  <2>2. Mapped(I, Append(cs, d)) = Append(Mapped(I, cs), I[d])
    BY <1>1, MappedNext
  <2> QED BY <2>1, <2>2, FirstNext
<1>7. Picked(A, cs) \in Seq(Pieces) /\ Picked(A, Append(cs, d)) = Picked(A, cs) \o A[d]
  <2>1. Picked(A, cs) \in Seq(Pieces)
    BY <1>1, PickedType
  <2>2. Picked(A, Append(cs, d)) = Picked(A, cs) \o A[d]
    BY <1>1, PickedNext
  <2> QED BY <2>1, <2>2
<1>8. CASE d.slot = i
  BY <1>2, <1>3, <1>5, <1>6, <1>7, <1>8
<1>9. CASE d.slot # i
  <2>1. \A w : Or(w, Nothing) = w
    BY DEF Or
  <2>2. Picked(A, cs) \o <<>> = Picked(A, cs)
    BY <1>7, ConcatEmptySeq
  <2> QED BY <1>2, <1>3, <1>5, <1>6, <1>7, <1>9, <2>1, <2>2
<1> QED BY <1>8, <1>9

LEMMA SlotsNext ==
    ASSUME NEW cs \in Seq(CallPieces), NEW d \in CallPieces
    PROVE  Slots(Append(cs, d)) = Slots(cs) \cup {d.slot}
<1> DEFINE t == Append(cs, d)
           l == Len(cs) + 1
<1>1. /\ DOMAIN t = 1..l /\ DOMAIN cs = 1..Len(cs) /\ Len(cs) \in Nat /\ t[l] = d
      /\ \A n \in 1..Len(cs) : t[n] = cs[n]
  <2>1. t \in Seq(CallPieces) /\ Len(t) = l /\ t[l] = d /\ \A n \in 1..Len(cs) : t[n] = cs[n]
    BY AppendProperties
  <2> HIDE DEF t
  <2> QED BY <2>1, LenProperties
<1>2. l \in 1..l /\ \A n : n \in 1..l <=> n \in 1..Len(cs) \/ n = l
  BY <1>1
<1> HIDE DEF t, l
<1> QED BY <1>1, <1>2 DEF Slots, t

\* A slot that no piece names has said nothing.
LEMMA WholeCallNone ==
    ASSUME NEW cs \in Seq(CallPieces), NEW i, i \notin Slots(cs)
    PROVE  WholeCall(cs, i) = [id |-> Nothing, arguments |-> <<>>]
<1> DEFINE G == {u \in Seq(CallPieces) :
                   i \notin Slots(u) => WholeCall(u, i) = [id |-> Nothing, arguments |-> <<>>]}
<1>1. <<>> \in G
  <2>1. <<>> \in Seq(CallPieces)
    OBVIOUS
  <2>2. WholeCall(<<>>, i) = [id |-> Nothing, arguments |-> <<>>]
    BY <2>1, WholeCallIs, PickedFirst, FirstEmpty
  <2> QED BY <2>1, <2>2
<1>2. ASSUME NEW u \in Seq(CallPieces), NEW d \in CallPieces, u \in G
      PROVE  Append(u, d) \in G
  <2>1. Append(u, d) \in Seq(CallPieces)
    BY AppendProperties
  <2>2. Slots(Append(u, d)) = Slots(u) \cup {d.slot}
    BY SlotsNext
  <2>3. ASSUME i \notin Slots(Append(u, d))
        PROVE  WholeCall(Append(u, d), i) = [id |-> Nothing, arguments |-> <<>>]
    <3>1. i \notin Slots(u) /\ d.slot # i
      BY <2>2, <2>3
    <3>2. WholeCall(u, i) = [id |-> Nothing, arguments |-> <<>>]
      BY <1>2, <3>1
    <3> QED BY <3>1, <3>2, WholeCallNext
  <2> QED BY <2>1, <2>3
<1>3. Seq(CallPieces) \subseteq G
  <2> HIDE DEF G
  <2> QED BY <1>1, <1>2, EverySequence
<1> QED BY <1>3

LEMMA MergeNext ==
    ASSUME NEW cs \in Seq(CallPieces), NEW d \in CallPieces
    PROVE  MergeToolCall(WholeCalls(cs), d) = WholeCalls(Append(cs, d))
<1> DEFINE w == WholeCalls(cs)
           slot == IF d.slot \in DOMAIN w THEN w[d.slot] ELSE [id |-> Nothing, arguments |-> <<>>]
<1>1. \A t : WholeCalls(t) = [i \in Slots(t) |-> WholeCall(t, i)]
  BY DEF WholeCalls, Slots
<1>2. slot = WholeCall(cs, d.slot)
  BY <1>1, WholeCallNone
<1>3. MergeToolCall(w, d) = Put(w, d.slot, [id |-> Or(slot.id, d.id), arguments |-> slot.arguments \o d.arguments])
  BY DEF MergeToolCall
<1> HIDE DEF slot
<1>4. MergeToolCall(w, d) = Put(w, d.slot, WholeCall(Append(cs, d), d.slot))
  BY <1>2, <1>3, WholeCallNext
<1>5. Put(w, d.slot, WholeCall(Append(cs, d), d.slot))
        = [i \in Slots(cs) \cup {d.slot} |-> WholeCall(Append(cs, d), i)]
  <2>1. \A i \in Slots(cs) : i # d.slot => w[i] = WholeCall(Append(cs, d), i)
    BY <1>1, WholeCallNext
  <2>2. DOMAIN w = Slots(cs)
    BY <1>1
  <2> HIDE DEF w
  <2> QED BY <2>1, <2>2 DEF Put
<1> HIDE DEF w
<1>6. Slots(Append(cs, d)) = Slots(cs) \cup {d.slot}
  BY SlotsNext
<1> QED BY <1>1, <1>4, <1>5, <1>6 DEF w

LEMMA MergeAll ==
    ASSUME NEW cs \in Seq(CallPieces), NEW ds \in Seq(CallPieces)
    PROVE  MergeToolCallAll(WholeCalls(cs), ds) = WholeCalls(cs \o ds)
<1> DEFINE G == {u \in Seq(CallPieces) : MergeToolCallAll(WholeCalls(cs), u) = WholeCalls(cs \o u)}
<1>1. <<>> \in G
  <2>1. cs \o <<>> = cs /\ <<>> \in Seq(CallPieces)
    BY ConcatEmptySeq
  <2> QED BY <2>1, MergeToolCallFirst
<1>2. ASSUME NEW u \in Seq(CallPieces), NEW d \in CallPieces, u \in G
      PROVE  Append(u, d) \in G
  <2>1. Append(u, d) \in Seq(CallPieces) /\ cs \o Append(u, d) = Append(cs \o u, d)
    BY AppendProperties, AppendedLater
  <2>2. cs \o u \in Seq(CallPieces)
    BY ConcatProperties
  <2>3. MergeToolCallAll(WholeCalls(cs), u) = WholeCalls(cs \o u)
    BY <1>2
  <2>4. MergeToolCallAll(WholeCalls(cs), Append(u, d)) = MergeToolCall(WholeCalls(cs \o u), d)
    BY <2>3, EachMergeToolCall
  <2>5. MergeToolCall(WholeCalls(cs \o u), d) = WholeCalls(Append(cs \o u, d))
    BY <2>2, MergeNext
  <2> QED BY <2>1, <2>4, <2>5
<1>3. Seq(CallPieces) \subseteq G
  <2> HIDE DEF G
  <2> QED BY <1>1, <1>2, EverySequence
<1> QED BY <1>3

-----------------------------------------------------------------------------
(* Chat streams: applying chunks one after the other makes whole choices.   *)

ContentOf(i) == [d \in Deltas |-> IF d.index = i THEN d.content ELSE <<>>]
ReasoningOf(i) == [d \in Deltas |-> IF d.index = i THEN d.reasoning ELSE <<>>]
CallsOf(i) == [d \in Deltas |-> IF d.index = i THEN d.calls ELSE <<>>]
FinishOf(i) == [d \in Deltas |-> IF d.index = i THEN d.finish ELSE Nothing]
Indices(ds) == {ds[n].index : n \in DOMAIN ds}

\* A choice whose calls are still to be put in order.
RawChoice(ds, i) ==
    [content |-> Picked(ContentOf(i), ds),
     reasoning |-> Picked(ReasoningOf(i), ds),
     calls |-> WholeCalls(Picked(CallsOf(i), ds)),
     finish |-> LastOf(Mapped(FinishOf(i), ds))]

RawChoices(ds) == [i \in Indices(ds) |-> RawChoice(ds, i)]

LEMMA DeltaParts ==
    ASSUME NEW i
    PROVE  /\ ContentOf(i) \in [Deltas -> Seq(Pieces)] /\ ReasoningOf(i) \in [Deltas -> Seq(Pieces)]
           /\ CallsOf(i) \in [Deltas -> Seq(CallPieces)] /\ FinishOf(i) \in [Deltas -> Words]
<1>1. \A d \in Deltas : /\ d.content \in Seq(Pieces) /\ d.reasoning \in Seq(Pieces)
                        /\ d.calls \in Seq(CallPieces) /\ d.finish \in Words
  BY DEF Deltas
<1>2. Nothing \in Words /\ <<>> \in Seq(Pieces) /\ <<>> \in Seq(CallPieces)
  BY DEF Words
<1>3. ContentOf(i) \in [Deltas -> Seq(Pieces)]
  BY <1>1, <1>2 DEF ContentOf
<1>4. ReasoningOf(i) \in [Deltas -> Seq(Pieces)]
  BY <1>1, <1>2 DEF ReasoningOf
<1>5. CallsOf(i) \in [Deltas -> Seq(CallPieces)]
  BY <1>1, <1>2 DEF CallsOf
<1>6. FinishOf(i) \in [Deltas -> Words]
  BY <1>1, <1>2 DEF FinishOf
<1> QED BY <1>3, <1>4, <1>5, <1>6

LEMMA RawNext ==
    ASSUME NEW ds \in Seq(Deltas), NEW d \in Deltas, NEW i
    PROVE  RawChoice(Append(ds, d), i)
             = IF d.index = i
               THEN [content |-> RawChoice(ds, i).content \o d.content,
                     reasoning |-> RawChoice(ds, i).reasoning \o d.reasoning,
                     calls |-> MergeToolCallAll(RawChoice(ds, i).calls, d.calls),
                     finish |-> Or(d.finish, RawChoice(ds, i).finish)]
               ELSE RawChoice(ds, i)
<1> DEFINE C == ContentOf(i)
           R == ReasoningOf(i)
           T == CallsOf(i)
           F == FinishOf(i)
           t == Append(ds, d)
<1>1. C \in [Deltas -> Seq(Pieces)] /\ R \in [Deltas -> Seq(Pieces)]
      /\ T \in [Deltas -> Seq(CallPieces)] /\ F \in [Deltas -> Words]
  BY DeltaParts
<1>2. /\ C[d] = (IF d.index = i THEN d.content ELSE <<>>)
      /\ R[d] = (IF d.index = i THEN d.reasoning ELSE <<>>)
      /\ T[d] = (IF d.index = i THEN d.calls ELSE <<>>)
      /\ F[d] = (IF d.index = i THEN d.finish ELSE Nothing)
  BY DEF ContentOf, ReasoningOf, CallsOf, FinishOf
<1>3. /\ RawChoice(ds, i) = [content |-> Picked(C, ds), reasoning |-> Picked(R, ds),
                             calls |-> WholeCalls(Picked(T, ds)), finish |-> LastOf(Mapped(F, ds))]
      /\ RawChoice(t, i) = [content |-> Picked(C, t), reasoning |-> Picked(R, t),
                            calls |-> WholeCalls(Picked(T, t)), finish |-> LastOf(Mapped(F, t))]
  BY DEF RawChoice
<1> HIDE DEF C, R, T, F
<1>4. Picked(C, ds) \in Seq(Pieces) /\ Picked(R, ds) \in Seq(Pieces) /\ Picked(T, ds) \in Seq(CallPieces)
  <2>1. Picked(C, ds) \in Seq(Pieces)
    BY <1>1, PickedType
  <2>2. Picked(R, ds) \in Seq(Pieces)
    BY <1>1, PickedType
  <2>3. Picked(T, ds) \in Seq(CallPieces)
    BY <1>1, PickedType
  <2> QED BY <2>1, <2>2, <2>3
<1>5. Picked(C, t) = Picked(C, ds) \o C[d]
  BY <1>1, PickedNext
<1>6. Picked(R, t) = Picked(R, ds) \o R[d]
  BY <1>1, PickedNext
<1>7. Picked(T, t) = Picked(T, ds) \o T[d]
  BY <1>1, PickedNext
<1>8. LastOf(Mapped(F, t)) = Or(F[d], LastOf(Mapped(F, ds)))
  <2>0. F \in [Deltas -> Words]
    BY <1>1
  <2>1. Mapped(F, ds) \in Seq(Words) /\ F[d] \in Words
    BY <2>0, MappedType
  <2>2. Mapped(F, t) = Append(Mapped(F, ds), F[d])
    BY <2>0, MappedNext
  <2> QED BY <2>1, <2>2, FirstNext
<1> HIDE DEF t
<1>9. CASE d.index = i
  <2>1. d.calls \in Seq(CallPieces)
    BY DEF Deltas
  <2>2. WholeCalls(Picked(T, t)) = MergeToolCallAll(WholeCalls(Picked(T, ds)), d.calls)
    BY <1>2, <1>4, <1>7, <1>9, <2>1, MergeAll
  <2>3. RawChoice(t, i) = [content |-> Picked(C, ds) \o d.content,
                           reasoning |-> Picked(R, ds) \o d.reasoning,
                           calls |-> MergeToolCallAll(WholeCalls(Picked(T, ds)), d.calls),
                           finish |-> Or(d.finish, LastOf(Mapped(F, ds)))]
    BY <1>2, <1>3, <1>5, <1>6, <1>8, <1>9, <2>2
  <2>4. /\ RawChoice(ds, i).content = Picked(C, ds) /\ RawChoice(ds, i).reasoning = Picked(R, ds)
        /\ RawChoice(ds, i).calls = WholeCalls(Picked(T, ds))
        /\ RawChoice(ds, i).finish = LastOf(Mapped(F, ds))
    BY <1>3
  <2> QED BY <1>9, <2>3, <2>4 DEF t
<1>10. CASE d.index # i
  <2>1. \A w : Or(Nothing, w) = w
    BY DEF Or
  <2>2. Picked(C, ds) \o <<>> = Picked(C, ds)
    BY <1>4, ConcatEmptySeq
  <2>3. Picked(R, ds) \o <<>> = Picked(R, ds)
    BY <1>4, ConcatEmptySeq
  <2>4. Picked(T, ds) \o <<>> = Picked(T, ds)
    BY <1>4, ConcatEmptySeq
  <2>5. RawChoice(t, i) = RawChoice(ds, i)
    BY <1>2, <1>3, <1>5, <1>6, <1>7, <1>8, <1>10, <2>1, <2>2, <2>3, <2>4
  <2> QED BY <1>10, <2>5 DEF t
<1> QED BY <1>9, <1>10

LEMMA IndicesNext ==
    ASSUME NEW ds \in Seq(Deltas), NEW d \in Deltas
    PROVE  Indices(Append(ds, d)) = Indices(ds) \cup {d.index}
<1> DEFINE t == Append(ds, d)
           l == Len(ds) + 1
<1>1. /\ DOMAIN t = 1..l /\ DOMAIN ds = 1..Len(ds) /\ Len(ds) \in Nat /\ t[l] = d
      /\ \A n \in 1..Len(ds) : t[n] = ds[n]
  <2>1. t \in Seq(Deltas) /\ Len(t) = l /\ t[l] = d /\ \A n \in 1..Len(ds) : t[n] = ds[n]
    BY AppendProperties
  <2> HIDE DEF t
  <2> QED BY <2>1, LenProperties
<1>2. l \in 1..l /\ \A n : n \in 1..l <=> n \in 1..Len(ds) \/ n = l
  BY <1>1
<1> HIDE DEF t, l
<1> QED BY <1>1, <1>2 DEF Indices, t

LEMMA NoChoices == RawChoices(<<>>) = <<>> /\ WholeCalls(<<>>) = <<>>
<1>1. Indices(<<>>) = {} /\ {<<>>[n].slot : n \in DOMAIN <<>>} = {}
  BY DEF Indices
<1>2. \A f : DOMAIN f = {} /\ f = [i \in {} |-> f[i]] => f = <<>>
  OBVIOUS
<1> QED BY <1>1, <1>2 DEF RawChoices, WholeCalls

\* A choice that no delta names has said nothing.
LEMMA RawNone ==
    ASSUME NEW ds \in Seq(Deltas), NEW i, i \notin Indices(ds)
    PROVE  RawChoice(ds, i) = NewChoice
<1> DEFINE G == {u \in Seq(Deltas) : i \notin Indices(u) => RawChoice(u, i) = NewChoice}
<1>1. <<>> \in G
  <2>1. RawChoice(<<>>, i) = NewChoice
    BY PickedFirst, FirstEmpty, NoChoices DEF RawChoice, NewChoice
  <2> QED BY <2>1
<1>2. ASSUME NEW u \in Seq(Deltas), NEW d \in Deltas, u \in G
      PROVE  Append(u, d) \in G
  <2>1. Append(u, d) \in Seq(Deltas)
    BY AppendProperties
  <2>2. Indices(Append(u, d)) = Indices(u) \cup {d.index}
    BY IndicesNext
  <2>3. ASSUME i \notin Indices(Append(u, d))
        PROVE  RawChoice(Append(u, d), i) = NewChoice
    <3>1. i \notin Indices(u) /\ d.index # i
      BY <2>2, <2>3
    <3>2. RawChoice(u, i) = NewChoice
      BY <1>2, <3>1
    <3> QED BY <3>1, <3>2, RawNext
  <2> QED BY <2>1, <2>3
<1>3. Seq(Deltas) \subseteq G
  <2> HIDE DEF G
  <2> QED BY <1>1, <1>2, EverySequence
<1> QED BY <1>3

LEMMA ApplyChoiceNext ==
    ASSUME NEW ds \in Seq(Deltas), NEW d \in Deltas
    PROVE  ApplyChoice(RawChoices(ds), d) = RawChoices(Append(ds, d))
<1> DEFINE w == RawChoices(ds)
           old == ChoiceOf(w, d.index)
<1>1. old = RawChoice(ds, d.index)
  BY RawNone DEF ChoiceOf, RawChoices
<1>2. ApplyChoice(w, d) = Put(w, d.index,
           [content |-> old.content \o d.content,
            reasoning |-> old.reasoning \o d.reasoning,
            calls |-> MergeToolCallAll(old.calls, d.calls),
            finish |-> Or(d.finish, old.finish)])
  BY DEF ApplyChoice, MergeToolCallAll
<1> HIDE DEF old
<1>3. ApplyChoice(w, d) = Put(w, d.index, RawChoice(Append(ds, d), d.index))
  BY <1>1, <1>2, RawNext
<1>4. Put(w, d.index, RawChoice(Append(ds, d), d.index))
        = [i \in Indices(ds) \cup {d.index} |-> RawChoice(Append(ds, d), i)]
  <2>1. \A i \in Indices(ds) : i # d.index => w[i] = RawChoice(Append(ds, d), i)
    BY RawNext DEF RawChoices
  <2>2. DOMAIN w = Indices(ds)
    BY DEF RawChoices
  <2> HIDE DEF w
  <2> QED BY <2>1, <2>2 DEF Put
<1> HIDE DEF w
<1>5. Indices(Append(ds, d)) = Indices(ds) \cup {d.index}
  BY IndicesNext
<1> QED BY <1>3, <1>4, <1>5 DEF RawChoices, w

LEMMA ApplyChoicesTwice ==
    ASSUME NEW ds \in Seq(Deltas), NEW ts \in Seq(Deltas)
    PROVE  ApplyChoiceAll(RawChoices(ds), ts) = RawChoices(ds \o ts)
<1> DEFINE G == {u \in Seq(Deltas) : ApplyChoiceAll(RawChoices(ds), u) = RawChoices(ds \o u)}
<1>1. <<>> \in G
  <2>1. ds \o <<>> = ds /\ <<>> \in Seq(Deltas)
    BY ConcatEmptySeq
  <2> QED BY <2>1, ApplyChoiceFirst
<1>2. ASSUME NEW u \in Seq(Deltas), NEW d \in Deltas, u \in G
      PROVE  Append(u, d) \in G
  <2>1. Append(u, d) \in Seq(Deltas) /\ ds \o Append(u, d) = Append(ds \o u, d)
    BY AppendProperties, AppendedLater
  <2>2. ds \o u \in Seq(Deltas)
    BY ConcatProperties
  <2>3. ApplyChoiceAll(RawChoices(ds), u) = RawChoices(ds \o u)
    BY <1>2
  <2>4. ApplyChoiceAll(RawChoices(ds), Append(u, d)) = ApplyChoice(RawChoices(ds \o u), d)
    BY <2>3, EachApplyChoice
  <2>5. ApplyChoice(RawChoices(ds \o u), d) = RawChoices(Append(ds \o u, d))
    BY <2>2, ApplyChoiceNext
  <2> QED BY <2>1, <2>4, <2>5
<1>3. Seq(Deltas) \subseteq G
  <2> HIDE DEF G
  <2> QED BY <1>1, <1>2, EverySequence
<1> QED BY <1>3

ChatLines == Chunks \cup {Noise}
DeltasIn == [e \in ChatLines |-> IF e.type = "chat" THEN e.choices ELSE <<>>]

LEMMA DeltasAre ==
    ASSUME NEW es \in Seq(ChatLines)
    PROVE  DeltasOf(es) = Picked(DeltasIn, es)
<1>1. \A n \in DOMAIN es : es[n] \in ChatLines
  OBVIOUS
<1>2. [n \in DOMAIN es |-> IF es[n].type = "chat" THEN es[n].choices ELSE <<>>] = Mapped(DeltasIn, es)
  BY <1>1 DEF Mapped, DeltasIn
<1> QED BY <1>2 DEF DeltasOf, Picked

LEMMA ChatHeard ==
    ASSUME NEW es \in Seq(ChatLines)
    PROVE  /\ ApplyAll(NewAcc, es).choices = RawChoices(DeltasOf(es))
           /\ DeltasOf(es) \in Seq(Deltas)
<1>1. DeltasIn \in [ChatLines -> Seq(Deltas)]
  <2>1. \A e \in ChatLines : e.type = "chat" => e.choices \in Seq(Deltas)
    BY DEF ChatLines, Chunks, Noise
  <2>2. <<>> \in Seq(Deltas)
    OBVIOUS
  <2> QED BY <2>1, <2>2 DEF DeltasIn
<1> DEFINE G == {u \in Seq(ChatLines) : ApplyAll(NewAcc, u).choices = RawChoices(Picked(DeltasIn, u))}
<1>2. <<>> \in G
  <2>1. ApplyAll(NewAcc, <<>>).choices = <<>>
    BY ApplyFirst DEF NewAcc
  <2>2. Picked(DeltasIn, <<>>) = <<>>
    BY PickedFirst
  <2> QED BY <2>1, <2>2, NoChoices
<1>3. ASSUME NEW u \in Seq(ChatLines), NEW e \in ChatLines, u \in G
      PROVE  Append(u, e) \in G
  <2> DEFINE a == ApplyAll(NewAcc, u)
             p == Picked(DeltasIn, u)
  <2>1. Append(u, e) \in Seq(ChatLines)
    BY AppendProperties
  <2>2. ApplyAll(NewAcc, Append(u, e)) = Apply(a, e)
    BY EachApply
  <2>3. Picked(DeltasIn, Append(u, e)) = p \o DeltasIn[e] /\ p \in Seq(Deltas)
    <3>1. Picked(DeltasIn, Append(u, e)) = p \o DeltasIn[e]
      BY <1>1, PickedNext
    <3>2. p \in Seq(Deltas)
      BY <1>1, PickedType
    <3> QED BY <3>1, <3>2
  <2>4. a.choices = RawChoices(p)
    BY <1>3
  <2> HIDE DEF a, p
  <2>5. Apply(a, e).choices = RawChoices(p \o DeltasIn[e])
    <3>1. CASE e.type = "noise"
      <4>1. DeltasIn[e] = <<>> /\ Apply(a, e) = a
        BY <3>1 DEF DeltasIn, Apply
      <4>2. p \o <<>> = p
        BY <2>3, ConcatEmptySeq
      <4> QED BY <2>4, <4>1, <4>2
    <3>2. CASE e.type = "chat"
      <4>1. DeltasIn[e] = e.choices /\ e.choices \in Seq(Deltas)
        BY <3>2 DEF DeltasIn, ChatLines, Chunks, Noise
      <4>2. Apply(a, e).choices = ApplyChoiceAll(a.choices, e.choices)
        BY <3>2 DEF Apply, ApplyChoiceAll
      <4>3. ApplyChoiceAll(RawChoices(p), e.choices) = RawChoices(p \o e.choices)
        BY <2>3, <4>1, ApplyChoicesTwice
      <4> QED BY <2>4, <4>1, <4>2, <4>3
    <3>3. e.type = "noise" \/ e.type = "chat"
      BY DEF ChatLines, Chunks, Noise
    <3> QED BY <3>1, <3>2, <3>3
  <2> QED BY <2>1, <2>2, <2>3, <2>5
<1>4. Seq(ChatLines) \subseteq G
  <2> HIDE DEF G
  <2> QED BY <1>2, <1>3, EverySequence
<1>5. ApplyAll(NewAcc, es).choices = RawChoices(Picked(DeltasIn, es))
  BY <1>4
<1>6. Picked(DeltasIn, es) \in Seq(Deltas)
  BY <1>1, PickedType
<1> QED BY <1>5, <1>6, DeltasAre

-----------------------------------------------------------------------------
(* Putting choices and calls in order.                                      *)

UpTo(D, k) == {j \in D : j <= k}
Nth(D, n) == CHOOSE k \in D : Cardinality(UpTo(D, k)) = n

LEMMA InOrderIs ==
    \A f : InOrder(f) = [n \in 1..Cardinality(DOMAIN f) |-> f[Nth(DOMAIN f, n)]]
BY DEF InOrder, Nth, UpTo

LEMMA NthExists ==
    ASSUME NEW D \in SUBSET Nat, IsFiniteSet(D), NEW n \in 1..Cardinality(D)
    PROVE  Nth(D, n) \in D /\ Cardinality(UpTo(D, Nth(D, n))) = n
<1> DEFINE c == Cardinality(D)
           G == {m \in Nat : m < c => \E k \in D : Cardinality(UpTo(D, k)) = m + 1}
<1>1. c \in Nat
  BY FS_CardinalityType
<1>2. ASSUME NEW B \in SUBSET D, Cardinality(B) < c, \A j \in B, i \in D \ B : j < i
      PROVE  \E k \in D : Cardinality(UpTo(D, k)) = Cardinality(B) + 1
  <2>1. D \ B # {}
    <3> SUFFICES ASSUME D \ B = {} PROVE FALSE
      OBVIOUS
    <3>1. B = D
      BY <1>2
    <3>2. Cardinality(B) = c
      BY <3>1
    <3> HIDE DEF c
    <3> QED BY <1>1, <1>2, <3>2
  <2>2. PICK k \in D \ B : \A j \in D \ B : k <= j
    <3>1. D \ B \in SUBSET Nat
      OBVIOUS
    <3> DEFINE T == D \ B
    <3> HIDE DEF T
    <3>2. \E k \in T : \A j \in T : k <= j
      BY <2>1, <3>1, LeastExists DEF T
    <3> QED BY <3>2 DEF T
  <2>3. UpTo(D, k) = B \cup {k}
    <3>1. ASSUME NEW j \in D, j <= k PROVE j \in B \cup {k}
      BY <2>2, <3>1
    <3>2. ASSUME NEW j \in B PROVE j \in D /\ j <= k
      BY <1>2, <2>2
    <3> QED BY <2>2, <3>1, <3>2 DEF UpTo
  <2>4. IsFiniteSet(B) /\ k \notin B
    BY <2>2, FS_Subset
  <2>5. Cardinality(B \cup {k}) = Cardinality(B) + 1
    BY <2>4, FS_AddElement
  <2> QED BY <2>2, <2>3, <2>5
<1>3. 0 \in G
  <2> SUFFICES ASSUME 0 < c PROVE \E k \in D : Cardinality(UpTo(D, k)) = 0 + 1
    OBVIOUS
  <2>1. Cardinality({}) = 0 /\ {} \in SUBSET D
    BY FS_EmptySet
  <2> HIDE DEF c
  <2>2. \E k \in D : Cardinality(UpTo(D, k)) = Cardinality({}) + 1
    BY <1>2, <2>1
  <2> QED BY <2>1, <2>2
<1>4. ASSUME NEW m \in Nat, m \in G PROVE m + 1 \in G
  <2> SUFFICES ASSUME m + 1 < c PROVE \E k \in D : Cardinality(UpTo(D, k)) = (m + 1) + 1
    OBVIOUS
  <2>1. PICK k \in D : Cardinality(UpTo(D, k)) = m + 1
    BY <1>1, <1>4
  <2> DEFINE B == UpTo(D, k)
  <2>2. B \in SUBSET D /\ \A j \in B, i \in D \ B : j < i
    BY DEF UpTo
  <2> HIDE DEF B, c
  <2>3. Cardinality(B) = m + 1
    BY <2>1 DEF B
  <2>4. \E i \in D : Cardinality(UpTo(D, i)) = Cardinality(B) + 1
    BY <1>2, <2>2, <2>3
  <2> QED BY <2>3, <2>4
<1>5. Nat \subseteq G
  <2> HIDE DEF G
  <2> QED BY <1>3, <1>4, EveryNumber
<1>6. n - 1 \in Nat /\ n - 1 < c /\ (n - 1) + 1 = n
  BY <1>1
<1>7. \E k \in D : Cardinality(UpTo(D, k)) = n
  BY <1>5, <1>6
<1> QED BY <1>7 DEF Nth

LEMMA InOrderPicks ==
    ASSUME NEW f, DOMAIN f \in SUBSET Nat, IsFiniteSet(DOMAIN f)
    PROVE  \A n \in 1..Cardinality(DOMAIN f) : \E k \in DOMAIN f : InOrder(f)[n] = f[k]
<1> DEFINE D == DOMAIN f
<1> SUFFICES ASSUME NEW n \in 1..Cardinality(D) PROVE \E k \in D : InOrder(f)[n] = f[k]
  OBVIOUS
<1>1. InOrder(f)[n] = f[Nth(D, n)]
  BY InOrderIs
<1>2. D \in SUBSET Nat /\ IsFiniteSet(D)
  OBVIOUS
<1> HIDE DEF D
<1>3. Nth(D, n) \in D
  BY <1>2, NthExists
<1> QED BY <1>1, <1>3

\* A sequence is in order.
LEMMA InOrderSequence ==
    ASSUME NEW X, NEW s \in Seq(X)
    PROVE  InOrder(s) = s
<1> DEFINE l == Len(s)
<1>1. l \in Nat /\ DOMAIN s = 1..l /\ s = [n \in 1..l |-> s[n]]
  OBVIOUS
<1> HIDE DEF l
<1>2. \A n \in Nat : Cardinality(1..n) = n /\ IsFiniteSet(1..n)
  BY FS_Interval
<1>3. \A k \in 1..l : UpTo(1..l, k) = 1..k
  BY <1>1 DEF UpTo
<1>4. \A k \in 1..l : Cardinality(UpTo(1..l, k)) = k
  BY <1>1, <1>2, <1>3
<1>5. \A n \in 1..l : Nth(1..l, n) = n
  <2> SUFFICES ASSUME NEW n \in 1..l PROVE Nth(1..l, n) = n
    OBVIOUS
  <2>1. \A k \in 1..l : Cardinality(UpTo(1..l, k)) = n <=> k = n
    BY <1>4
  <2> QED BY <2>1 DEF Nth
<1>6. InOrder(s) = [n \in 1..l |-> s[Nth(1..l, n)]]
  BY <1>1, <1>2, InOrderIs
<1>7. InOrder(s) = [n \in 1..l |-> s[n]]
  BY <1>5, <1>6
<1> QED BY <1>1, <1>7

LEMMA InOrderNone == \A f : DOMAIN f = {} => InOrder(f) = <<>>
<1> SUFFICES ASSUME NEW f, DOMAIN f = {} PROVE InOrder(f) = <<>>
  OBVIOUS
<1>1. Cardinality(DOMAIN f) = 0
  BY FS_EmptySet
<1>2. InOrder(f) = [n \in 1..0 |-> f[Nth(DOMAIN f, n)]]
  BY <1>1, InOrderIs
<1> QED BY <1>2

LEMMA InOrderOne == \A f : DOMAIN f = {0} => InOrder(f) = <<f[0]>>
<1> SUFFICES ASSUME NEW f, DOMAIN f = {0} PROVE InOrder(f) = <<f[0]>>
  OBVIOUS
<1>1. Cardinality(DOMAIN f) = 1 /\ IsFiniteSet(DOMAIN f) /\ DOMAIN f \in SUBSET Nat
  BY FS_Singleton
<1>2. 1 \in 1..Cardinality(DOMAIN f)
  BY <1>1
<1>3. \E k \in DOMAIN f : InOrder(f)[1] = f[k]
  BY <1>1, <1>2, InOrderPicks
<1>4. InOrder(f)[1] = f[0]
  BY <1>3
<1>5. InOrder(f) = [n \in 1..1 |-> InOrder(f)[n]]
  BY <1>1, InOrderIs
<1>6. [n \in 1..1 |-> InOrder(f)[n]] = <<InOrder(f)[1]>>
  OBVIOUS
<1> QED BY <1>4, <1>5, <1>6

LEMMA WholeChoiceIs ==
    ASSUME NEW ds \in Seq(Deltas), NEW i
    PROVE  WholeChoice(ds, i) = [RawChoice(ds, i) EXCEPT !.calls = InOrder(@)]
<1>1. \A n \in DOMAIN ds : ds[n] \in Deltas
  OBVIOUS
<1>2. [n \in DOMAIN ds |-> IF ds[n].index = i THEN ds[n].content ELSE <<>>] = Mapped(ContentOf(i), ds)
  BY <1>1 DEF Mapped, ContentOf
<1>3. [n \in DOMAIN ds |-> IF ds[n].index = i THEN ds[n].reasoning ELSE <<>>] = Mapped(ReasoningOf(i), ds)
  BY <1>1 DEF Mapped, ReasoningOf
<1>4. [n \in DOMAIN ds |-> IF ds[n].index = i THEN ds[n].calls ELSE <<>>] = Mapped(CallsOf(i), ds)
  BY <1>1 DEF Mapped, CallsOf
<1>5. [n \in DOMAIN ds |-> IF ds[n].index = i THEN ds[n].finish ELSE Nothing] = Mapped(FinishOf(i), ds)
  BY <1>1 DEF Mapped, FinishOf
<1>6. WholeChoice(ds, i)
        = [content |-> Picked(ContentOf(i), ds),
           reasoning |-> Picked(ReasoningOf(i), ds),
           calls |-> InOrder(WholeCalls(Picked(CallsOf(i), ds))),
           finish |-> LastOf(Mapped(FinishOf(i), ds))]
  BY <1>2, <1>3, <1>4, <1>5 DEF WholeChoice, Picked
<1> QED BY <1>6 DEF RawChoice

LEMMA IndicesFinite ==
    ASSUME NEW ds \in Seq(Deltas)
    PROVE  Indices(ds) \in SUBSET Nat /\ IsFiniteSet(Indices(ds))
<1>1. Indices(ds) \in SUBSET Nat
  <2>1. \A n \in DOMAIN ds : ds[n] \in Deltas
    OBVIOUS
  <2> QED BY <2>1 DEF Indices, Deltas
<1> DEFINE G == {u \in Seq(Deltas) : IsFiniteSet(Indices(u))}
<1>2. <<>> \in G
  <2>1. Indices(<<>>) = {}
    BY DEF Indices
  <2>2. IsFiniteSet({}) /\ <<>> \in Seq(Deltas)
    BY FS_EmptySet
  <2> QED BY <2>1, <2>2
<1>3. ASSUME NEW u \in Seq(Deltas), NEW d \in Deltas, u \in G
      PROVE  Append(u, d) \in G
  <2>1. Append(u, d) \in Seq(Deltas)
    BY AppendProperties
  <2>2. Indices(Append(u, d)) = Indices(u) \cup {d.index}
    BY IndicesNext
  <2>3. IsFiniteSet(Indices(u) \cup {d.index})
    BY <1>3, FS_AddElement
  <2> QED BY <2>1, <2>2, <2>3
<1>4. Seq(Deltas) \subseteq G
  <2> HIDE DEF G
  <2> QED BY <1>2, <1>3, EverySequence
<1> QED BY <1>1, <1>4

\* The choices of a chat stream, in order, are those of the completion that its
\* chunks add up to.
LEMMA ChatRebuilt ==
    ASSUME NEW es \in Seq(ChatLines)
    PROVE  Summary(ApplyAll(NewAcc, es)).choices = ExtractResponse(Whole(es))
<1> DEFINE ds == DeltasOf(es)
           f == [i \in Indices(ds) |-> WholeChoice(ds, i)]
<1>1. ApplyAll(NewAcc, es).choices = RawChoices(ds) /\ ds \in Seq(Deltas)
  BY ChatHeard
<1>2. Whole(es) = [choices |-> InOrder(f)]
  <2>1. \A n \in DOMAIN es : es[n] \in ChatLines
    OBVIOUS
  <2>2. \A n \in DOMAIN es : es[n].type \notin {"text", "thought", "final"}
    BY <2>1 DEF ChatLines, Chunks, Noise
  <2>3. Whole(es) = WholeChat(es)
    BY <2>2 DEF Whole
  <2> QED BY <2>3 DEF WholeChat, Indices
<1> HIDE DEF ds
<1>3. Summary(ApplyAll(NewAcc, es)).choices = InOrder(f)
  <2> DEFINE c == ApplyAll(NewAcc, es).choices
  <2>1. Summary(ApplyAll(NewAcc, es)).choices
          = InOrder([i \in DOMAIN c |-> [c[i] EXCEPT !.calls = InOrder(@)]])
    BY DEF Summary
  <2>2. c = RawChoices(ds)
    BY <1>1
  <2> HIDE DEF c
  <2>3. [i \in DOMAIN c |-> [c[i] EXCEPT !.calls = InOrder(@)]] = f
    BY <1>1, <2>2, WholeChoiceIs DEF RawChoices
  <2> QED BY <2>1, <2>3
<1>4. DOMAIN f = Indices(ds) /\ DOMAIN f \in SUBSET Nat /\ IsFiniteSet(DOMAIN f)
  BY <1>1, IndicesFinite
<1>5. \A k \in DOMAIN f : ExtractChoice(f[k]) = f[k]
  BY DEF WholeChoice, ExtractChoice
<1> DEFINE o == InOrder(f)
<1> HIDE DEF f
<1>6. o = [n \in 1..Cardinality(DOMAIN f) |-> o[n]]
  BY InOrderIs
<1>7. \A n \in 1..Cardinality(DOMAIN f) : ExtractChoice(o[n]) = o[n]
  BY <1>4, <1>5, InOrderPicks
<1> HIDE DEF o
<1>8. ExtractResponse([choices |-> o]) = [n \in DOMAIN o |-> ExtractChoice(o[n])]
  BY DEF ExtractResponse
<1>9. [n \in DOMAIN o |-> ExtractChoice(o[n])] = o
  BY <1>6, <1>7
<1> QED BY <1>2, <1>3, <1>8, <1>9 DEF o

-----------------------------------------------------------------------------
(* Streams of the Responses API: what the deltas and the final object say.  *)

TextIn(type) == [it \in Items |-> IF it.type = type THEN it.text ELSE <<>>]
CallIn == [it \in Items |-> IF it.type = "function_call" THEN <<it.call>> ELSE <<>>]
KeptIn == [it \in Items |-> IF it.type = "function_call" THEN <<it>> ELSE <<>>]
WholeCallWords == [id : Words, arguments : Seq(Pieces)]

LEMMA ItemParts ==
    ASSUME NEW type \in {"message", "reasoning"}
    PROVE  /\ TextIn(type) \in [Items -> Seq(Pieces)]
           /\ CallIn \in [Items -> Seq(WholeCallWords)] /\ KeptIn \in [Items -> Seq(Items)]
<1>1. \A it \in Items : it.type = type => it.text \in Seq(Pieces)
  BY DEF Items
<1>2. \A it \in Items : it.type = "function_call" => it.call \in WholeCallWords
  BY DEF Items, WholeCallWords
<1>3. TextIn(type) \in [Items -> Seq(Pieces)]
  <2>1. <<>> \in Seq(Pieces)
    OBVIOUS
  <2> QED BY <1>1, <2>1 DEF TextIn
<1>4. CallIn \in [Items -> Seq(WholeCallWords)]
  <2>1. <<>> \in Seq(WholeCallWords) /\ \A c \in WholeCallWords : <<c>> \in Seq(WholeCallWords)
    OBVIOUS
  <2> QED BY <1>2, <2>1 DEF CallIn
<1>5. KeptIn \in [Items -> Seq(Items)]
  <2> DEFINE I == Items
  <2> HIDE DEF I
  <2>1. <<>> \in Seq(I) /\ \A c \in I : <<c>> \in Seq(I)
    OBVIOUS
  <2> QED BY <2>1 DEF KeptIn, I
<1> QED BY <1>3, <1>4, <1>5

LEMMA ItemsPicked ==
    ASSUME NEW items \in Seq(Items)
    PROVE  /\ \A type : Texts(items, type) = Picked(TextIn(type), items)
           /\ Calls(items) = Picked(CallIn, items)
           /\ FunctionCalls(items) = Picked(KeptIn, items)
<1>1. \A n \in DOMAIN items : items[n] \in Items
  OBVIOUS
<1>2. ASSUME NEW type
      PROVE  [i \in DOMAIN items |-> IF items[i].type = type THEN items[i].text ELSE <<>>]
               = Mapped(TextIn(type), items)
  BY <1>1 DEF Mapped, TextIn
<1>3. [i \in DOMAIN items |-> IF items[i].type = "function_call" THEN <<items[i].call>> ELSE <<>>]
        = Mapped(CallIn, items)
  BY <1>1 DEF Mapped, CallIn
<1>4. [i \in DOMAIN items |-> IF items[i].type = "function_call" THEN <<items[i]>> ELSE <<>>]
        = Mapped(KeptIn, items)
  BY <1>1 DEF Mapped, KeptIn
<1> QED BY <1>2, <1>3, <1>4 DEF Texts, Calls, FunctionCalls, Picked

LEMMA ItemsType ==
    ASSUME NEW items \in Seq(Items), NEW type \in {"message", "reasoning"}
    PROVE  /\ Texts(items, type) \in Seq(Pieces)
           /\ Calls(items) \in Seq(WholeCallWords)
           /\ FunctionCalls(items) \in Seq(Items)
<1>1. TextIn(type) \in [Items -> Seq(Pieces)]
  BY ItemParts
<1>2. CallIn \in [Items -> Seq(WholeCallWords)]
  BY ItemParts
<1>3. KeptIn \in [Items -> Seq(Items)]
  BY ItemParts
<1>4. Picked(TextIn(type), items) \in Seq(Pieces)
  BY <1>1, PickedType
<1>5. Picked(CallIn, items) \in Seq(WholeCallWords)
  BY <1>2, PickedType
<1>6. Picked(KeptIn, items) \in Seq(Items)
  BY <1>3, PickedType
<1> QED BY <1>4, <1>5, <1>6, ItemsPicked

LEMMA ItemsNext ==
    ASSUME NEW items \in Seq(Items), NEW it \in Items, NEW type \in {"message", "reasoning"}
    PROVE  /\ Texts(Append(items, it), type)
                = Texts(items, type) \o (IF it.type = type THEN it.text ELSE <<>>)
           /\ Calls(Append(items, it))
                = Calls(items) \o (IF it.type = "function_call" THEN <<it.call>> ELSE <<>>)
           /\ FunctionCalls(Append(items, it))
                = FunctionCalls(items) \o (IF it.type = "function_call" THEN <<it>> ELSE <<>>)
<1>1. TextIn(type) \in [Items -> Seq(Pieces)]
  BY ItemParts
<1>2. CallIn \in [Items -> Seq(WholeCallWords)]
  BY ItemParts
<1>3. KeptIn \in [Items -> Seq(Items)]
  BY ItemParts
<1>4. Picked(TextIn(type), Append(items, it)) = Picked(TextIn(type), items) \o TextIn(type)[it]
  BY <1>1, PickedNext
<1>5. Picked(CallIn, Append(items, it)) = Picked(CallIn, items) \o CallIn[it]
  BY <1>2, PickedNext
<1>6. Picked(KeptIn, Append(items, it)) = Picked(KeptIn, items) \o KeptIn[it]
  BY <1>3, PickedNext
<1>7. Append(items, it) \in Seq(Items)
  BY AppendProperties
<1>8. /\ TextIn(type)[it] = (IF it.type = type THEN it.text ELSE <<>>)
      /\ CallIn[it] = (IF it.type = "function_call" THEN <<it.call>> ELSE <<>>)
      /\ KeptIn[it] = (IF it.type = "function_call" THEN <<it>> ELSE <<>>)
  BY DEF TextIn, CallIn, KeptIn
<1>9. Texts(Append(items, it), type) = Texts(items, type) \o TextIn(type)[it]
  BY <1>4, <1>7, ItemsPicked
<1>10. Calls(Append(items, it)) = Calls(items) \o CallIn[it]
  BY <1>5, <1>7, ItemsPicked
<1>11. FunctionCalls(Append(items, it)) = FunctionCalls(items) \o KeptIn[it]
  BY <1>6, <1>7, ItemsPicked
<1> QED BY <1>8, <1>9, <1>10, <1>11

LEMMA NoItems ==
    /\ \A type : Texts(<<>>, type) = <<>>
    /\ Calls(<<>>) = <<>> /\ FunctionCalls(<<>>) = <<>>
<1>1. <<>> \in Seq(Items)
  OBVIOUS
<1> QED BY <1>1, ItemsPicked, PickedFirst

\* The function calls of a response add its calls and no text.
LEMMA FunctionCallsAdd ==
    ASSUME NEW p \in Seq(Items), NEW items \in Seq(Items), NEW type \in {"message", "reasoning"}
    PROVE  /\ Texts(p \o FunctionCalls(items), type) = Texts(p, type)
           /\ Calls(p \o FunctionCalls(items)) = Calls(p) \o Calls(items)
<1> DEFINE P(u) == /\ Texts(p \o FunctionCalls(u), type) = Texts(p, type)
                   /\ Calls(p \o FunctionCalls(u)) = Calls(p) \o Calls(u)
           G == {u \in Seq(Items) : P(u)}
<1>1. <<>> \in G
  <2>1. p \o <<>> = p /\ <<>> \in Seq(Items)
    BY ConcatEmptySeq
  <2>2. Calls(p) \in Seq(WholeCallWords)
    BY ItemsType
  <2>3. Calls(p) \o <<>> = Calls(p)
    BY <2>2, ConcatEmptySeq
  <2> QED BY <2>1, <2>3, NoItems
<1>2. ASSUME NEW u \in Seq(Items), NEW it \in Items, u \in G
      PROVE  Append(u, it) \in G
  <2> DEFINE f == FunctionCalls(u)
             a == Texts(p, type)
             b == Calls(p)
             c == Calls(u)
  <2>1. Append(u, it) \in Seq(Items)
    BY AppendProperties
  <2>2. f \in Seq(Items) /\ a \in Seq(Pieces) /\ b \in Seq(WholeCallWords) /\ c \in Seq(WholeCallWords)
    BY ItemsType
  <2>3. Texts(p \o f, type) = a /\ Calls(p \o f) = b \o c
    BY <1>2
  <2>4. /\ FunctionCalls(Append(u, it)) = f \o (IF it.type = "function_call" THEN <<it>> ELSE <<>>)
        /\ Calls(Append(u, it)) = c \o (IF it.type = "function_call" THEN <<it.call>> ELSE <<>>)
    BY ItemsNext
  <2> HIDE DEF P, f, a, b, c
  <2>5. CASE it.type = "function_call"
    <3>1. f \o <<it>> = Append(f, it)
      BY <2>2, AppendIsConcat
    <3>2. p \o Append(f, it) = Append(p \o f, it) /\ p \o f \in Seq(Items)
      BY <2>2, AppendedLater
    <3>3. Texts(Append(p \o f, it), type) = Texts(p \o f, type) \o (IF it.type = type THEN it.text ELSE <<>>)
      BY <3>2, ItemsNext
    <3>4. Calls(Append(p \o f, it)) = Calls(p \o f) \o (IF it.type = "function_call" THEN <<it.call>> ELSE <<>>)
      BY <3>2, ItemsNext
    <3>5. it.call \in WholeCallWords
      BY <2>5 DEF Items, WholeCallWords
    <3>6. (b \o c) \o <<it.call>> = b \o (c \o <<it.call>>)
      <4>1. <<it.call>> \in Seq(WholeCallWords)
        BY <3>5
      <4> QED BY <2>2, <4>1, ConcatAssociative
    <3>7. a \o <<>> = a
      BY <2>2, ConcatEmptySeq
    <3>8. Texts(p \o FunctionCalls(Append(u, it)), type) = a
      BY <2>3, <2>4, <2>5, <3>1, <3>2, <3>3, <3>7
    <3>9. Calls(p \o FunctionCalls(Append(u, it))) = b \o Calls(Append(u, it))
      BY <2>3, <2>4, <2>5, <3>1, <3>2, <3>4, <3>6
    <3>10. P(Append(u, it))
      BY <3>8, <3>9 DEF P, a, b
    <3> QED BY <2>1, <3>10
  <2>6. CASE it.type # "function_call"
    <3>1. f \o <<>> = f
      BY <2>2, ConcatEmptySeq
    <3>2. c \o <<>> = c
      BY <2>2, ConcatEmptySeq
    <3>3. FunctionCalls(Append(u, it)) = f /\ Calls(Append(u, it)) = c
      BY <2>4, <2>6, <3>1, <3>2
    <3>4. P(Append(u, it))
      BY <2>3, <3>3 DEF P, a, b
    <3> QED BY <2>1, <3>4
  <2> QED BY <2>5, <2>6
<1>3. Seq(Items) \subseteq G
  <2> HIDE DEF G
  <2> QED BY <1>1, <1>2, EverySequence
<1> HIDE DEF P
<1>4. P(items)
  BY <1>3
<1> QED BY <1>4 DEF P

SaidLines == Events \cup {Noise}
SaidIn(type) == [e \in SaidLines |-> IF e.type = type THEN e.delta ELSE <<>>]
Finals(es) == {n \in DOMAIN es : es[n].type = "final"}
LastAnswer(es) == IF Finals(es) = {} THEN [output |-> <<>>, status |-> Nothing]
                                     ELSE es[Max(Finals(es))].response
Speaks(es) == \E n \in DOMAIN es : es[n].type \in {"text", "thought", "final"}
Filled(o, d) == IF o = <<>> THEN d ELSE o

\* The one choice of a response.
SaidChoice(es) ==
    [content |-> Filled(Said(es, "text"), Texts(LastAnswer(es).output, "message")),
     reasoning |-> Filled(Said(es, "thought"), Texts(LastAnswer(es).output, "reasoning")),
     calls |-> Calls(LastAnswer(es).output),
     finish |-> LastAnswer(es).status]

SaidChoices(es) == [j \in IF Speaks(es) THEN {0} ELSE {} |-> SaidChoice(es)]

LEMMA SaidNext ==
    ASSUME NEW es \in Seq(SaidLines), NEW e \in SaidLines, NEW type \in {"text", "thought"}
    PROVE  /\ Said(es, type) \in Seq(Pieces)
           /\ Said(Append(es, e), type) = IF e.type = type THEN Said(es, type) \o e.delta ELSE Said(es, type)
<1> DEFINE F == SaidIn(type)
<1>1. \A u \in Seq(SaidLines) : Said(u, type) = Picked(F, u)
  <2> SUFFICES ASSUME NEW u \in Seq(SaidLines) PROVE Said(u, type) = Picked(F, u)
    OBVIOUS
  <2>1. \A n \in DOMAIN u : u[n] \in SaidLines
    OBVIOUS
  <2>2. [n \in DOMAIN u |-> IF u[n].type = type THEN u[n].delta ELSE <<>>] = Mapped(F, u)
    BY <2>1 DEF Mapped, SaidIn
  <2> QED BY <2>2 DEF Said, Picked
<1>2. F \in [SaidLines -> Seq(Pieces)]
  <2>1. \A d \in SaidLines : d.type = type => d.delta \in Seq(Pieces)
    BY DEF SaidLines, Events, Noise, Other
  <2>2. <<>> \in Seq(Pieces)
    OBVIOUS
  <2> QED BY <2>1, <2>2 DEF SaidIn
<1>3. F[e] = IF e.type = type THEN e.delta ELSE <<>>
  BY DEF SaidIn
<1> HIDE DEF F
<1>4. Picked(F, es) \in Seq(Pieces)
  BY <1>2, PickedType
<1>5. Picked(F, Append(es, e)) = Picked(F, es) \o F[e]
  BY <1>2, PickedNext
<1>6. Picked(F, es) \o <<>> = Picked(F, es)
  BY <1>4, ConcatEmptySeq
<1>7. Append(es, e) \in Seq(SaidLines)
  BY AppendProperties
<1>8. Said(es, type) = Picked(F, es) /\ Said(Append(es, e), type) = Picked(F, Append(es, e))
  BY <1>1, <1>7
<1> QED BY <1>3, <1>4, <1>5, <1>6, <1>8

LEMMA Spoken ==
    ASSUME NEW es \in Seq(SaidLines), NEW e \in SaidLines
    PROVE  /\ DOMAIN Append(es, e) = DOMAIN es \cup {Len(es) + 1} /\ Len(es) + 1 \notin DOMAIN es
           /\ Append(es, e)[Len(es) + 1] = e
           /\ \A n \in DOMAIN es : Append(es, e)[n] = es[n]
           /\ DOMAIN es = 1..Len(es) /\ Len(es) \in Nat
<1> DEFINE t == Append(es, e)
<1>1. t \in Seq(SaidLines) /\ Len(t) = Len(es) + 1 /\ t[Len(es) + 1] = e /\ \A n \in 1..Len(es) : t[n] = es[n]
  BY AppendProperties
<1> HIDE DEF t
<1>2. DOMAIN t = 1..(Len(es) + 1) /\ DOMAIN es = 1..Len(es) /\ Len(es) \in Nat
  BY <1>1, LenProperties
<1>3. 1..(Len(es) + 1) = (1..Len(es)) \cup {Len(es) + 1} /\ Len(es) + 1 \notin 1..Len(es)
  BY <1>2
<1> QED BY <1>1, <1>2, <1>3 DEF t

LEMMA LastAnswerType ==
    ASSUME NEW es \in Seq(SaidLines)
    PROVE  LastAnswer(es).output \in Seq(Items) /\ (Finals(es) # {} => LastAnswer(es) \in Answers)
<1>1. CASE Finals(es) = {}
  <2>1. LastAnswer(es).output = <<>> /\ <<>> \in Seq(Items)
    BY <1>1 DEF LastAnswer
  <2> QED BY <1>1, <2>1
<1>2. CASE Finals(es) # {}
  <2>1. DOMAIN es = 1..Len(es) /\ Len(es) \in Nat
    BY LenProperties
  <2>2. Finals(es) \in SUBSET (0..Len(es))
    BY <2>1 DEF Finals
  <2>3. Max(Finals(es)) \in Finals(es)
    BY <1>2, <2>1, <2>2, GreatestIs
  <2>4. es[Max(Finals(es))] \in SaidLines /\ es[Max(Finals(es))].type = "final"
    BY <2>3 DEF Finals
  <2>5. LastAnswer(es) \in Answers
    BY <1>2, <2>4 DEF LastAnswer, SaidLines, Events, Noise, Other
  <2> QED BY <2>5 DEF Answers
<1> QED BY <1>1, <1>2

LEMMA FinalsNext ==
    ASSUME NEW es \in Seq(SaidLines), NEW e \in SaidLines, e.type # "final"
    PROVE  Finals(Append(es, e)) = Finals(es)
BY Spoken DEF Finals

LEMMA LastAnswerNext ==
    ASSUME NEW es \in Seq(SaidLines), NEW e \in SaidLines
    PROVE  /\ e.type # "final" => LastAnswer(Append(es, e)) = LastAnswer(es)
           /\ e.type = "final" /\ Finals(es) = {} => LastAnswer(Append(es, e)) = e.response
<1> DEFINE t == Append(es, e)
           l == Len(es) + 1
<1>1. DOMAIN t = DOMAIN es \cup {l} /\ l \notin DOMAIN es /\ t[l] = e /\ (\A n \in DOMAIN es : t[n] = es[n])
      /\ DOMAIN es = 1..Len(es) /\ Len(es) \in Nat
  BY Spoken
<1> HIDE DEF t, l
<1>2. ASSUME e.type # "final" PROVE LastAnswer(t) = LastAnswer(es)
  <2>1. Finals(t) = Finals(es)
    BY <1>2, FinalsNext DEF t
  <2>2. CASE Finals(es) = {}
    BY <2>1, <2>2 DEF LastAnswer
  <2>3. CASE Finals(es) # {}
    <3>1. Finals(es) \in SUBSET (0..Len(es))
      BY <1>1 DEF Finals
    <3>2. Max(Finals(es)) \in Finals(es)
      BY <1>1, <2>3, <3>1, GreatestIs
    <3>3. t[Max(Finals(es))] = es[Max(Finals(es))]
      BY <1>1, <3>2 DEF Finals
    <3> QED BY <2>1, <2>3, <3>3 DEF LastAnswer
  <2> QED BY <2>2, <2>3
<1>3. ASSUME e.type = "final", Finals(es) = {} PROVE LastAnswer(t) = e.response
  <2>1. Finals(t) = {l}
    BY <1>1, <1>3 DEF Finals
  <2>2. l \in Nat /\ Finals(t) \in SUBSET (0..l) /\ Finals(t) # {}
    BY <1>1, <2>1 DEF l
  <2>3. Max(Finals(t)) = l
    <3>1. Max(Finals(t)) \in Finals(t)
      BY <2>2, GreatestIs
    <3> QED BY <2>1, <3>1
  <2> QED BY <1>1, <2>1, <2>3 DEF LastAnswer
<1> QED BY <1>2, <1>3 DEF t

LEMMA SpeaksNext ==
    ASSUME NEW es \in Seq(SaidLines), NEW e \in SaidLines
    PROVE  Speaks(Append(es, e)) <=> Speaks(es) \/ e.type \in {"text", "thought", "final"}
<1> DEFINE t == Append(es, e)
           l == Len(es) + 1
<1>1. DOMAIN t = DOMAIN es \cup {l} /\ t[l] = e /\ (\A n \in DOMAIN es : t[n] = es[n])
  BY Spoken
<1> HIDE DEF t, l
<1>2. Speaks(t) => Speaks(es) \/ e.type \in {"text", "thought", "final"}
  BY <1>1 DEF Speaks
<1>3. Speaks(es) => Speaks(t)
  BY <1>1 DEF Speaks
<1>4. e.type \in {"text", "thought", "final"} => Speaks(t)
  BY <1>1 DEF Speaks
<1> QED BY <1>2, <1>3, <1>4 DEF t

\* After a final response nothing more is said.
LEMMA StreamedNext ==
    ASSUME NEW es \in Seq(SaidLines), NEW e \in SaidLines, Append(es, e) \in Streamed
    PROVE  es \in Streamed /\ (e.type \notin {"other", "noise"} => Finals(es) = {})
<1> DEFINE t == Append(es, e)
           l == Len(es) + 1
<1>1. DOMAIN t = DOMAIN es \cup {l} /\ t[l] = e /\ (\A n \in DOMAIN es : t[n] = es[n])
      /\ DOMAIN es = 1..Len(es) /\ Len(es) \in Nat
  BY Spoken
<1>2. \A i, j \in DOMAIN t : i < j /\ t[i].type = "final" => t[j].type \in {"other", "noise"}
  BY DEF Streamed
<1> HIDE DEF t
<1>3. \A i, j \in DOMAIN es : i < j /\ es[i].type = "final" => es[j].type \in {"other", "noise"}
  BY <1>1, <1>2
<1>4. \A i \in DOMAIN es : i < l
  BY <1>1
<1>5. ASSUME e.type \notin {"other", "noise"} PROVE Finals(es) = {}
  <2> SUFFICES ASSUME NEW i \in DOMAIN es, es[i].type = "final" PROVE FALSE
    BY DEF Finals
  <2>1. i \in DOMAIN t /\ l \in DOMAIN t /\ i < l /\ t[i].type = "final"
    BY <1>1, <1>4
  <2> QED BY <1>1, <1>2, <1>5, <2>1
<1> QED BY <1>3, <1>5 DEF Streamed, SaidLines

LEMMA NothingSaid ==
    /\ SaidChoice(<<>>) = NewChoice /\ ~Speaks(<<>>)
    /\ \A es \in Seq(SaidLines) : Finals(es) = {} =>
         SaidChoice(es) = [content |-> Said(es, "text"), reasoning |-> Said(es, "thought"),
                           calls |-> <<>>, finish |-> Nothing]
<1>1. \A es \in Seq(SaidLines) : Finals(es) = {} =>
         SaidChoice(es) = [content |-> Said(es, "text"), reasoning |-> Said(es, "thought"),
                           calls |-> <<>>, finish |-> Nothing]
  BY NoItems DEF SaidChoice, LastAnswer, Filled
<1>2. Said(<<>>, "text") = <<>> /\ Said(<<>>, "thought") = <<>>
  BY FlattenEmpty DEF Said
<1>3. <<>> \in Seq(SaidLines) /\ Finals(<<>>) = {}
  BY DEF Finals
<1>4. SaidChoice(<<>>) = NewChoice
  BY <1>1, <1>2, <1>3 DEF NewChoice
<1>5. ~Speaks(<<>>)
  BY DEF Speaks
<1> QED BY <1>1, <1>4, <1>5

\* What has been heard of a response is what it has said.
LEMMA SaidHeard ==
    ASSUME NEW es \in Streamed
    PROVE  /\ ApplyAll(NewAcc, es).choices = SaidChoices(es)
           /\ es \in Seq(SaidLines)
<1> DEFINE Heeded(u) == /\ ApplyAll(NewAcc, u).choices = SaidChoices(u)
                        /\ ~Speaks(u) => SaidChoice(u) = NewChoice
           G == {u \in Seq(SaidLines) : u \in Streamed => Heeded(u)}
<1>1. <<>> \in G
  <2>1. ApplyAll(NewAcc, <<>>).choices = <<>>
    BY ApplyFirst DEF NewAcc
  <2>2. SaidChoices(<<>>) = <<>>
    <3>1. SaidChoices(<<>>) = [j \in {} |-> SaidChoice(<<>>)]
      BY NothingSaid DEF SaidChoices
    <3> QED BY <3>1
  <2>3. <<>> \in Seq(SaidLines)
    OBVIOUS
  <2> QED BY <2>1, <2>2, <2>3, NothingSaid
<1>2. ASSUME NEW u \in Seq(SaidLines), NEW e \in SaidLines, u \in G
      PROVE  Append(u, e) \in G
  <2> DEFINE a == ApplyAll(NewAcc, u)
             t == Append(u, e)
  <2>1. t \in Seq(SaidLines)
    BY AppendProperties
  <2> HIDE DEF Heeded
  <2> SUFFICES ASSUME t \in Streamed PROVE Heeded(t)
    BY <2>1
  <2>2. u \in Streamed /\ (e.type \notin {"other", "noise"} => Finals(u) = {})
    BY StreamedNext
  <2>3. Heeded(u)
    BY <1>2, <2>2
  <2>4. ApplyAll(NewAcc, t) = Apply(a, e)
    BY EachApply
  <2>5. a.choices = SaidChoices(u) /\ (~Speaks(u) => SaidChoice(u) = NewChoice)
    BY <2>3 DEF Heeded
  <2>6. ChoiceOf(a.choices, 0) = SaidChoice(u)
    BY <2>5 DEF ChoiceOf, SaidChoices
  <2>7. \A v : Put(a.choices, 0, v) = [j \in {0} |-> v]
    <3>1. DOMAIN SaidChoices(u) \cup {0} = {0}
      BY DEF SaidChoices
    <3> QED BY <2>5, <3>1 DEF Put
  <2>8. /\ Said(u, "text") \in Seq(Pieces) /\ Said(u, "thought") \in Seq(Pieces)
        /\ Said(t, "text") = (IF e.type = "text" THEN Said(u, "text") \o e.delta ELSE Said(u, "text"))
        /\ Said(t, "thought") = (IF e.type = "thought" THEN Said(u, "thought") \o e.delta ELSE Said(u, "thought"))
    BY SaidNext
  <2>9. /\ e.type # "final" => LastAnswer(t) = LastAnswer(u)
        /\ e.type = "final" /\ Finals(u) = {} => LastAnswer(t) = e.response
    BY LastAnswerNext
  <2>10. Speaks(t) <=> Speaks(u) \/ e.type \in {"text", "thought", "final"}
    BY SpeaksNext
  <2>11. Finals(u) = {} =>
           /\ SaidChoice(u) = [content |-> Said(u, "text"), reasoning |-> Said(u, "thought"),
                               calls |-> <<>>, finish |-> Nothing]
           /\ LastAnswer(u) = [output |-> <<>>, status |-> Nothing]
    BY NothingSaid DEF LastAnswer
  <2>16. Finals(u) = {} /\ e.type # "final" =>
           SaidChoice(t) = [content |-> Said(t, "text"), reasoning |-> Said(t, "thought"),
                            calls |-> <<>>, finish |-> Nothing]
    <3>1. e.type # "final" => Finals(t) = Finals(u)
      BY FinalsNext
    <3> QED BY <2>1, <3>1, NothingSaid
  <2> HIDE DEF a, t
  <2>12. e.type # "noise" => Apply(a, e).choices = IF e.type = "chat" THEN ApplyChoiceAll(a.choices, e.choices)
                                                   ELSE ApplyResponsesEvent(a.choices, e)
    BY DEF Apply, ApplyChoiceAll
  <2>13. CASE e.type \in {"noise", "other"}
    <3>1. SaidChoice(t) = SaidChoice(u)
      BY <2>8, <2>9, <2>13 DEF SaidChoice
    <3>2. Speaks(t) <=> Speaks(u)
      BY <2>10, <2>13
    <3>3. SaidChoices(t) = SaidChoices(u)
      BY <3>1, <3>2 DEF SaidChoices
    <3>4. Apply(a, e).choices = a.choices
      <4>1. CASE e.type = "noise"
        BY <4>1 DEF Apply
      <4>2. CASE e.type = "other"
        BY <2>12, <4>2 DEF ApplyResponsesEvent
      <4> QED BY <2>13, <4>1, <4>2
    <3> QED BY <2>4, <2>5, <3>1, <3>2, <3>3, <3>4 DEF Heeded
  <2>14. CASE e.type \in {"text", "thought", "final"}
    <3>1. Finals(u) = {} /\ Speaks(t)
      BY <2>2, <2>10, <2>14
    <3>2. SaidChoices(t) = [j \in {0} |-> SaidChoice(t)]
      BY <3>1 DEF SaidChoices
    <3>3. Apply(a, e).choices = [j \in {0} |-> SaidChoice(t)]
      <4>1. CASE e.type = "text"
        <5> DEFINE v == [SaidChoice(u) EXCEPT !.content = @ \o e.delta]
        <5>1. SaidChoice(t) = [content |-> Said(t, "text"), reasoning |-> Said(t, "thought"),
                               calls |-> <<>>, finish |-> Nothing]
          BY <2>16, <3>1, <4>1
        <5>2. v = SaidChoice(t)
          <6>1. Said(t, "text") = Said(u, "text") \o e.delta /\ Said(t, "thought") = Said(u, "thought")
            BY <2>8, <4>1
          <6>2. SaidChoice(u) = [content |-> Said(u, "text"), reasoning |-> Said(u, "thought"),
                                 calls |-> <<>>, finish |-> Nothing]
            BY <2>11, <3>1
          <6> DEFINE new == Said(u, "text") \o e.delta
          <6>3. SaidChoice(u).content \o e.delta = new
            BY <6>2
          <6>4. v = [SaidChoice(u) EXCEPT !.content = new]
            BY <6>3
          <6>5. SaidChoice(t) = [content |-> new, reasoning |-> Said(u, "thought"),
                                 calls |-> <<>>, finish |-> Nothing]
            BY <5>1, <6>1
          <6> HIDE DEF new, v
          <6> QED BY <6>2, <6>4, <6>5
        <5>3. ApplyResponsesEvent(a.choices, e) = Put(a.choices, 0, v)
          BY <2>6, <4>1 DEF ApplyResponsesEvent
        <5> HIDE DEF v
        <5>4. Put(a.choices, 0, v) = [j \in {0} |-> SaidChoice(t)]
          BY <2>7, <5>2
        <5> QED BY <2>12, <4>1, <5>3, <5>4
      <4>2. CASE e.type = "thought"
        <5> DEFINE v == [SaidChoice(u) EXCEPT !.reasoning = @ \o e.delta]
        <5>1. SaidChoice(t) = [content |-> Said(t, "text"), reasoning |-> Said(t, "thought"),
                               calls |-> <<>>, finish |-> Nothing]
          BY <2>16, <3>1, <4>2
        <5>2. v = SaidChoice(t)
          <6>1. Said(t, "thought") = Said(u, "thought") \o e.delta /\ Said(t, "text") = Said(u, "text")
            BY <2>8, <4>2
          <6>2. SaidChoice(u) = [content |-> Said(u, "text"), reasoning |-> Said(u, "thought"),
                                 calls |-> <<>>, finish |-> Nothing]
            BY <2>11, <3>1
          <6> DEFINE new == Said(u, "thought") \o e.delta
          <6>3. SaidChoice(u).reasoning \o e.delta = new
            BY <6>2
          <6>4. v = [SaidChoice(u) EXCEPT !.reasoning = new]
            BY <6>3
          <6>5. SaidChoice(t) = [content |-> Said(u, "text"), reasoning |-> new,
                                 calls |-> <<>>, finish |-> Nothing]
            BY <5>1, <6>1
          <6> HIDE DEF new, v
          <6> QED BY <6>2, <6>4, <6>5
        <5>3. ApplyResponsesEvent(a.choices, e) = Put(a.choices, 0, v)
          BY <2>6, <4>2 DEF ApplyResponsesEvent
        <5> HIDE DEF v
        <5>4. Put(a.choices, 0, v) = [j \in {0} |-> SaidChoice(t)]
          BY <2>7, <5>2
        <5> QED BY <2>12, <4>2, <5>3, <5>4
      <4>3. CASE e.type = "final"
        <5> DEFINE r == e.response
        <5>1. SaidChoice(t) = [content |-> Filled(Said(u, "text"), Texts(r.output, "message")),
                               reasoning |-> Filled(Said(u, "thought"), Texts(r.output, "reasoning")),
                               calls |-> Calls(r.output), finish |-> r.status]
          BY <2>8, <2>9, <3>1, <4>3 DEF SaidChoice
        <5>2. ApplyResponsesEvent(a.choices, e) = ApplyFinal(a.choices, r)
          BY <4>3 DEF ApplyResponsesEvent
        <5>3. ApplyFinal(a.choices, r)
                = Put(a.choices, 0,
                      [content |-> Filled(SaidChoice(u).content, Texts(r.output, "message")),
                       reasoning |-> Filled(SaidChoice(u).reasoning, Texts(r.output, "reasoning")),
                       calls |-> Filled(SaidChoice(u).calls, Calls(r.output)),
                       finish |-> r.status])
          BY <2>6 DEF ApplyFinal, ExtractOutput, Filled
        <5> HIDE DEF r
        <5>4. /\ SaidChoice(u).content = Said(u, "text") /\ SaidChoice(u).reasoning = Said(u, "thought")
              /\ SaidChoice(u).calls = <<>>
          BY <2>11, <3>1
        <5>5. \A d : Filled(<<>>, d) = d
          BY DEF Filled
        <5>6. ApplyFinal(a.choices, r) = Put(a.choices, 0, SaidChoice(t))
          BY <5>1, <5>3, <5>4, <5>5
        <5> QED BY <2>7, <2>12, <4>3, <5>2, <5>6
      <4> QED BY <2>14, <4>1, <4>2, <4>3
    <3> QED BY <2>4, <3>1, <3>2, <3>3 DEF Heeded
  <2>15. e.type \in {"noise", "other", "text", "thought", "final"}
    BY DEF SaidLines, Events, Noise, Other
  <2> QED BY <2>13, <2>14, <2>15
<1>3. Seq(SaidLines) \subseteq G
  <2> HIDE DEF G
  <2> QED BY <1>1, <1>2, EverySequence
<1>4. es \in Seq(SaidLines)
  BY DEF Streamed, SaidLines
<1> HIDE DEF Heeded
<1>5. Heeded(es)
  BY <1>3, <1>4
<1> QED BY <1>4, <1>5 DEF Heeded

\* A stream of the Responses API ends up as the response its events add up to.
LEMMA ResponseRebuilt ==
    ASSUME NEW es \in Streamed
    PROVE  Summary(ApplyAll(NewAcc, es)).choices = ExtractResponse(Whole(es))
<1> DEFINE c == ApplyAll(NewAcc, es).choices
           r == LastAnswer(es)
           s == SaidChoice(es)
<1>1. c = SaidChoices(es) /\ es \in Seq(SaidLines)
  BY SaidHeard
<1>2. Summary(ApplyAll(NewAcc, es)).choices = InOrder([i \in DOMAIN c |-> [c[i] EXCEPT !.calls = InOrder(@)]])
  BY DEF Summary
<1>3. r.output \in Seq(Items)
  BY <1>1, LastAnswerType
<1>4. Said(es, "text") \in Seq(Pieces) /\ Said(es, "thought") \in Seq(Pieces)
  <2>1. Noise \in SaidLines
    BY DEF SaidLines
  <2> QED BY <1>1, <2>1, SaidNext
<1>5. CASE Speaks(es)
  <2> DEFINE m == [type |-> "message", text |-> s.content]
             t == [type |-> "reasoning", text |-> s.reasoning]
             f == FunctionCalls(r.output)
             p == <<m, t>>
  <2>1. /\ s.content = Filled(Said(es, "text"), Texts(r.output, "message"))
        /\ s.reasoning = Filled(Said(es, "thought"), Texts(r.output, "reasoning"))
        /\ s = [content |-> s.content, reasoning |-> s.reasoning, calls |-> Calls(r.output), finish |-> r.status]
    BY DEF SaidChoice
  <2>2. Whole(es) = [output |-> p \o f, status |-> r.status]
    <3>1. Whole(es) = WholeResponse(es)
      BY <1>5 DEF Whole, Speaks
    <3>2. /\ m = [type |-> "message", text |-> IF Said(es, "text") = <<>> THEN Texts(r.output, "message")
                                               ELSE Said(es, "text")]
          /\ t = [type |-> "reasoning", text |-> IF Said(es, "thought") = <<>> THEN Texts(r.output, "reasoning")
                                                 ELSE Said(es, "thought")]
      BY <2>1 DEF Filled
    <3> HIDE DEF m, t, s
    <3> QED BY <3>1, <3>2 DEF WholeResponse, LastAnswer, Finals
  <2>3. s.content \in Seq(Pieces) /\ s.reasoning \in Seq(Pieces)
    <3>1. Texts(r.output, "message") \in Seq(Pieces) /\ Texts(r.output, "reasoning") \in Seq(Pieces)
      BY <1>3, ItemsType
    <3> HIDE DEF r, s
    <3> QED BY <1>4, <2>1, <3>1 DEF Filled
  <2>4. m \in Items /\ t \in Items
    BY <2>3 DEF Items
  <2>5. /\ m.type = "message" /\ m.text = s.content
        /\ t.type = "reasoning" /\ t.text = s.reasoning
    OBVIOUS
  <2> HIDE DEF m, t
  <2>6. p \in Seq(Items) /\ p = Append(<<m>>, t) /\ <<m>> = Append(<<>>, m)
        /\ <<m>> \in Seq(Items) /\ <<>> \in Seq(Items)
    BY <2>4
  <2> HIDE DEF p
  <2>7. /\ Texts(<<m>>, "message") = <<>> \o m.text
        /\ Texts(<<m>>, "reasoning") = <<>> \o <<>>
        /\ Calls(<<m>>) = <<>> \o <<>>
    BY <2>4, <2>5, <2>6, ItemsNext, NoItems
  <2>8. /\ Texts(p, "message") = Texts(<<m>>, "message") \o <<>>
        /\ Texts(p, "reasoning") = Texts(<<m>>, "reasoning") \o t.text
        /\ Calls(p) = Calls(<<m>>) \o <<>>
    BY <2>4, <2>5, <2>6, ItemsNext
  <2>9. Texts(p, "message") = s.content /\ Texts(p, "reasoning") = s.reasoning /\ Calls(p) = <<>>
    <3>1. <<>> \o m.text = m.text /\ m.text \o <<>> = m.text /\ <<>> \o t.text = t.text
      BY <2>3, <2>5, ConcatEmptySeq
    <3>2. <<>> \o <<>> = <<>>
      OBVIOUS
    <3> QED BY <2>5, <2>7, <2>8, <3>1, <3>2
  <2>10. Texts(p \o f, "message") = s.content
    BY <1>3, <2>6, <2>9, FunctionCallsAdd
  <2>11. Texts(p \o f, "reasoning") = s.reasoning
    BY <1>3, <2>6, <2>9, FunctionCallsAdd
  <2>12. Calls(p \o f) = Calls(r.output)
    <3>1. Calls(p \o f) = <<>> \o Calls(r.output)
      BY <1>3, <2>6, <2>9, FunctionCallsAdd
    <3>2. Calls(r.output) \in Seq(WholeCallWords)
      BY <1>3, ItemsType
    <3> QED BY <3>1, <3>2, ConcatEmptySeq
  <2> HIDE DEF r, f, s
  <2>13. ExtractResponse(Whole(es)) = <<s>>
    <3> DEFINE w == [output |-> p \o f, status |-> r.status]
    <3>1. ExtractResponse(w) = <<ExtractOutput(w)>>
      BY DEF ExtractResponse
    <3>2. ExtractOutput(w) = [content |-> s.content, reasoning |-> s.reasoning, calls |-> Calls(r.output),
                              finish |-> r.status]
      BY <2>10, <2>11, <2>12 DEF ExtractOutput
    <3> QED BY <2>1, <2>2, <3>1, <3>2
  <2>14. [s EXCEPT !.calls = InOrder(@)] = s
    <3>1. Calls(r.output) \in Seq(WholeCallWords)
      BY <1>3, ItemsType
    <3>2. InOrder(Calls(r.output)) = Calls(r.output)
      BY <3>1, InOrderSequence
    <3>3. s.calls = Calls(r.output)
      BY <2>1
    <3> QED BY <2>1, <3>2, <3>3
  <2>15. DOMAIN c = {0} /\ c[0] = s
    BY <1>1, <1>5 DEF SaidChoices, s
  <2> HIDE DEF c
  <2> DEFINE g == [i \in DOMAIN c |-> [c[i] EXCEPT !.calls = InOrder(@)]]
  <2>16. DOMAIN g = {0} /\ g[0] = s
    BY <2>14, <2>15
  <2>17. InOrder(g) = <<s>>
    <3> HIDE DEF g
    <3> QED BY <2>16, InOrderOne
  <2> QED BY <1>2, <2>13, <2>17
<1>6. CASE ~Speaks(es)
  <2>1. Whole(es) = WholeChat(es)
    BY <1>6 DEF Whole, Speaks
  <2>2. DeltasOf(es) = <<>>
    <3>1. \A n \in DOMAIN es : es[n].type # "chat"
      <4>1. \A n \in DOMAIN es : es[n] \in SaidLines
        BY <1>1
      <4> QED BY <4>1 DEF SaidLines, Events, Noise, Other
    <3>2. DeltasOf(es) = FlattenSeq([n \in DOMAIN es |-> <<>>])
      BY <3>1 DEF DeltasOf
    <3>3. [n \in DOMAIN es |-> <<>>] \in Seq(Seq({}))
      <4> DEFINE Y == Seq({})
      <4>1. DOMAIN es = 1..Len(es) /\ Len(es) \in Nat /\ <<>> \in Y
        BY <1>1, LenProperties
      <4> HIDE DEF Y
      <4>2. [n \in 1..Len(es) |-> <<>>] \in Seq(Y)
        BY <4>1
      <4> QED BY <4>1, <4>2 DEF Y
    <3>4. DeltasOf(es) \in Seq({})
      BY <3>2, <3>3, FlattenType
    <3> HIDE DEF r, s, c
    <3> QED BY <3>4
  <2>3. ExtractResponse(Whole(es)) = <<>>
    <3> DEFINE f == [i \in {DeltasOf(es)[n].index : n \in DOMAIN DeltasOf(es)} |-> WholeChoice(DeltasOf(es), i)]
    <3>1. DOMAIN f = {}
      BY <2>2
    <3>2. Whole(es) = [choices |-> InOrder(f)]
      BY <2>1 DEF WholeChat
    <3> HIDE DEF f
    <3>3. Whole(es) = [choices |-> <<>>]
      BY <3>1, <3>2, InOrderNone
    <3>4. ExtractResponse([choices |-> <<>>]) = [i \in DOMAIN <<>> |-> ExtractChoice(<<>>[i])]
      BY DEF ExtractResponse
    <3>5. [i \in DOMAIN <<>> |-> ExtractChoice(<<>>[i])] = <<>>
      OBVIOUS
    <3> QED BY <3>3, <3>4, <3>5
  <2>4. DOMAIN c = {}
    BY <1>1, <1>6 DEF SaidChoices
  <2> HIDE DEF c
  <2> DEFINE g == [i \in DOMAIN c |-> [c[i] EXCEPT !.calls = InOrder(@)]]
  <2>5. DOMAIN g = {}
    BY <2>4
  <2>6. InOrder(g) = <<>>
    <3> HIDE DEF g
    <3> QED BY <2>5, InOrderNone
  <2> QED BY <1>2, <2>3, <2>6
<1> QED BY <1>5, <1>6

-----------------------------------------------------------------------------
(* Streams: the entry.                                                      *)

LEMMA ToldIsRebuilt ==
    ASSUME Shaped, NEW K
    PROVE  Summary(Told(K)).choices = ExtractResponse(Whole(Only(K)))
<1> DEFINE es == Only(K)
<1>1. script \in Seq(AnyEvent) /\ Lines = 1..Len(script) /\ Len(script) \in Nat
  BY ScriptsAreSequences
<1>2. Told(K) = ApplyAll(NewAcc, es)
  BY <1>1 DEF Told, Upto, Only
<1>3. \A n \in Lines : es[n] = script[n] \/ es[n] = Noise
  BY DEF Only
<1>4. es = [n \in 1..Len(script) |-> es[n]]
  BY <1>1 DEF Only
<1> HIDE DEF es
<1>5. CASE script \in Chats
  <2>1. \A n \in 1..Len(script) : es[n] \in ChatLines
    <3>1. \A n \in 1..Len(script) : script[n] \in ChatLines
      BY <1>5 DEF Chats, ChatLines
    <3> QED BY <1>1, <1>3, <3>1 DEF ChatLines
  <2>2. es \in Seq(ChatLines)
    <3> DEFINE L == ChatLines
    <3> HIDE DEF L
    <3>1. \A n \in 1..Len(script) : es[n] \in L
      BY <2>1 DEF L
    <3>2. [n \in 1..Len(script) |-> es[n]] \in Seq(L)
      BY <1>1, <3>1
    <3> QED BY <1>4, <3>2 DEF L
  <2> QED BY <1>2, <2>2, ChatRebuilt DEF es
<1>6. CASE script \in Streamed
  <2>1. \A n \in 1..Len(script) : es[n] \in SaidLines
    <3>1. \A n \in 1..Len(script) : script[n] \in SaidLines
      BY <1>6 DEF Streamed, SaidLines
    <3> QED BY <1>1, <1>3, <3>1 DEF SaidLines
  <2>2. es \in Seq(SaidLines)
    <3> DEFINE L == SaidLines
    <3> HIDE DEF L
    <3>1. \A n \in 1..Len(script) : es[n] \in L
      BY <2>1 DEF L
    <3>2. [n \in 1..Len(script) |-> es[n]] \in Seq(L)
      BY <1>1, <3>1
    <3> QED BY <1>4, <3>2 DEF L
  <2>3. DOMAIN es = Lines
    BY <1>1, <1>4
  <2>4. ASSUME NEW i \in Lines, NEW j \in Lines, i < j, es[i].type = "final"
        PROVE  es[j].type \in {"other", "noise"}
    <3>1. es[i] = script[i]
      BY <1>3, <2>4 DEF Noise
    <3>2. script[j].type \in {"other", "noise"}
      BY <1>6, <2>4, <3>1 DEF Streamed, Lines
    <3> QED BY <1>3, <3>2 DEF Noise
  <2>5. es \in Streamed
    BY <2>2, <2>3, <2>4 DEF Streamed, SaidLines
  <2> QED BY <1>2, <2>5, ResponseRebuilt DEF es
<1> QED BY <1>5, <1>6, StreamLogConstants DEF Shaped

\* However the bytes of a stream are cut into chunks and whenever it ends, its
\* entry is that of the complete answer its lines add up to, and names no error
\* only if the body was passed on to its end (feed_sse, StreamAcc, TeeStream).
THEOREM EntryIsWhole == StreamSpec => []EntryRebuilds
<1>1. StreamInv => EntryRebuilds
  <2> SUFFICES ASSUME StreamInv, entry # Nothing
               PROVE  /\ \E S \in SUBSET Overlong : TellsOf((Complete \ Overlong) \cup S)
                      /\ entry.error = "none" => entry.success /\ body = "ended"
    BY DEF EntryRebuilds
  <2>1. /\ Shaped
        /\ entry.choices = Summary(acc).choices /\ entry.chunks = acc.chunks
        /\ entry.error = "none" => entry.success /\ body = "ended"
    BY DEF StreamInv, Buffered, EntryMade
  <2>2. PICK K \in SUBSET Complete :
            /\ Complete \ Overlong \subseteq K
            /\ acc = [choices |-> Told(K).choices, usage |-> Told(K).usage,
                      error |-> acc.error, chunks |-> Told(K).chunks]
    BY DEF StreamInv, HeardWhole
  <2>3. entry.choices = ExtractResponse(Whole(Only(K)))
    <3>1. acc.choices = Told(K).choices
      BY <2>2
    <3>2. Summary(acc).choices = Summary(Told(K)).choices
      BY <3>1 DEF Summary
    <3> QED BY <2>1, <3>2, ToldIsRebuilt
  <2>4. entry.chunks = Cardinality({k \in K : script[k].type # "noise"})
    <3>1. {k \in Lines : k \in K /\ script[k].type # "noise"} = {k \in K : script[k].type # "noise"}
      BY DEF Complete
    <3>2. acc.chunks = Told(K).chunks
      BY <2>2
    <3> QED BY <2>1, <3>1, <3>2, ToldShape
  <2>5. TellsOf(K)
    BY <2>3, <2>4 DEF TellsOf
  <2>6. K \cap Overlong \in SUBSET Overlong /\ (Complete \ Overlong) \cup (K \cap Overlong) = K
    BY <2>2
  <2> HIDE DEF TellsOf
  <2>7. \E S \in SUBSET Overlong : TellsOf((Complete \ Overlong) \cup S)
    BY <2>5, <2>6
  <2> QED BY <2>1, <2>7
<1> QED BY <1>1, StreamInvariant, PTL
=============================================================================
