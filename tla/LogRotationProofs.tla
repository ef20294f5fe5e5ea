------------------------- MODULE LogRotationProofs -------------------------
(***************************************************************************)
(* Why no line is lost: a file that was renamed to an archive keeps a name *)
(* until its compressed copy has one (Kept), the copy is of all its lines  *)
(* because nothing is appended to it any more (Copies: the task starts     *)
(* after the new live file is open), and what any task deletes has had     *)
(* Keep newer archives since it was listed, which no deletion of another   *)
(* task can undo (OutnumberedLess).                                        *)
(*                                                                         *)
(* Why a read beside the sink has what stays (Found: it is in the answer,  *)
(* or where the read has yet to look, or in a file it could not read), and *)
(* newest first (Fresh and InOrder: the files in the order of their tags,  *)
(* the live one last, hold ascending entries; Reading: what is left to     *)
(* read is older).                                                         *)
(***************************************************************************)
EXTENDS LogReader, FiniteSetTheorems, SequenceTheorems, TLAPS

Rolls == Cardinality(DOMAIN rolled)

\* Rolls are numbered from 1, one at most in an emit.
RollsCounted ==
    /\ DOMAIN rolled = 1..Rolls /\ Rolls \in 0..entry
    /\ at \in {"stat", "reopen", "ready"} => Rolls < entry
    /\ at = "renamed" => Rolls > 0
    /\ at # "idle" => entry > 0

Names ==
    /\ DOMAIN plain \cup DOMAIN gz \subseteq DOMAIN rolled
    /\ \A t \in DOMAIN plain : plain[t] = rolled[t]
    /\ \A t \in DOMAIN rolled : rolled[t] # path
    /\ \A f \in Files : f = path \/ f \in taken \/ \E t \in DOMAIN rolled : rolled[t] = f

Copies ==
    /\ \A t \in DOMAIN gz : gz[t] = content[rolled[t]] /\ live.file # rolled[t]
    /\ \A t \in Tags : task[t] # "none" => t \in DOMAIN rolled /\ live.file # rolled[t]
    /\ \A t \in Tags : task[t] = "name" => t \in DOMAIN tmp /\ tmp[t] = content[rolled[t]]

Kept ==
    /\ \A t \in DOMAIN rolled : t \in Archives \/ Outnumbered(t)
    /\ \A t \in Tags : task[t] = "unlink" => t \in DOMAIN gz \/ Outnumbered(t)
    /\ \A t \in Tags : \A f \in doomed[t] : Outnumbered(f[1])

Inv == TypeOK /\ RollsCounted /\ Names /\ Copies /\ Kept

-----------------------------------------------------------------------------
(* Functions and files.                                                    *)

LEMMA WithTyped ==
    ASSUME NEW f, NEW t, NEW x, NEW D, NEW R, t \in D, x \in R,
           DOMAIN f \subseteq D, \A u \in DOMAIN f : f[u] \in R
    PROVE  DOMAIN With(f, t, x) \subseteq D /\ \A u \in DOMAIN With(f, t, x) : With(f, t, x)[u] \in R
BY DEF With

LEMMA FilesTyped ==
    ASSUME TypeOK
    PROVE  /\ Len(content) \in Nat /\ Files \subseteq Nat \ {NoFile}
           /\ \A f \in Files : content[f] \in Lines
<1>1. content \in Seq(Lines)
  BY DEF TypeOK
<1>2. Len(content) \in Nat /\ DOMAIN content = 1..Len(content)
  BY <1>1, LenProperties
<1>3. \A f \in Files : content[f] \in Lines
  BY <1>1, ElementOfSeq DEF Files
<1> QED BY <1>2, <1>3 DEF Files, NoFile

\* A new empty file.
LEMMA FileAdded ==
    ASSUME TypeOK, content' = Append(content, <<>>)
    PROVE  /\ content' \in Seq(Lines) /\ Files' = Files \cup {Len(content) + 1}
           /\ \A f \in Files : content'[f] = content[f]
           /\ Len(content') = Len(content) + 1 /\ content'[Len(content) + 1] = <<>>
<1>1. content \in Seq(Lines) /\ <<>> \in Lines
  BY DEF TypeOK, Lines
<1>2. /\ content' \in Seq(Lines) /\ Len(content') = Len(content) + 1
      /\ \A i \in 1..Len(content) : content'[i] = content[i]
      /\ content'[Len(content) + 1] = <<>>
  BY <1>1, AppendProperties
<1>3. Len(content) \in Nat
  BY FilesTyped
<1>4. Files' = Files \cup {Len(content) + 1}
  BY <1>2, <1>3 DEF Files
<1> QED BY <1>2, <1>4 DEF Files

\* open_append: the file at the path is the live one; no file changes.
LEMMA OpenIs ==
    ASSUME TypeOK, Open
    PROVE  /\ content' \in Seq(Lines) /\ Files' = Files \cup {path'}
           /\ \A f \in Files : content'[f] = content[f]
           /\ path # NoFile => path' = path
           /\ path = NoFile => path' \notin Files
           /\ path' # NoFile /\ live'.file = path'
           /\ live' \in [file : Files', size : Nat, failed : Nat, waiting : BOOLEAN]
<1>1. Len(content) \in Nat /\ Files \subseteq Nat \ {NoFile}
  BY FilesTyped
<1>2. /\ content' \in Seq(Lines) /\ Files' = Files \cup {path'}
      /\ \A f \in Files : content'[f] = content[f]
      /\ path # NoFile => path' = path
      /\ path = NoFile => path' \notin Files
      /\ path' # NoFile
  <2>1. CASE path = NoFile
    <3>1. path' = Len(content) + 1 /\ content' = Append(content, <<>>)
      BY <2>1 DEF Open
    <3>2. Len(content) + 1 \notin Files /\ Len(content) + 1 # NoFile
      BY <1>1 DEF Files, NoFile
    <3> QED BY <2>1, <3>1, <3>2, FileAdded
  <2>2. CASE path # NoFile
    <3>1. path' = path /\ content' = content /\ path \in Files
      BY <2>2 DEF Open, TypeOK
    <3>2. Files' = Files /\ content \in Seq(Lines)
      BY <3>1 DEF Files, TypeOK
    <3> QED BY <2>2, <3>1, <3>2
  <2> QED BY <2>1, <2>2
<1>3. Len(content'[path']) \in Nat
  <2>1. path' \in 1..Len(content')
    BY <1>2 DEF Files
  <2>2. content'[path'] \in Seq(Line)
    BY <1>2, <2>1, ElementOfSeq DEF Lines
  <2> QED BY <2>2, LenProperties
<1>4. live' = [file |-> path', size |-> Len(content'[path']), failed |-> 0, waiting |-> FALSE]
  BY DEF Open, Opened
<1> QED BY <1>2, <1>3, <1>4

-----------------------------------------------------------------------------
(* Archives that were outnumbered stay so.                                 *)

LEMMA ArchivesFinite ==
    ASSUME TypeOK
    PROVE  Archives \subseteq Tags /\ IsFiniteSet(Archives) /\ Tags \subseteq Nat
<1>1. Archives \subseteq Tags
  BY DEF TypeOK, Archives
<1>2. IsFiniteSet(Tags) /\ Tags \subseteq Nat
  BY FS_Interval, LogRotationConstants DEF Tags
<1> QED BY <1>1, <1>2, FS_Subset

\* Keep or more members of A are newer than t.
Out(t, A) == Keep > 0 /\ Cardinality({u \in A : u > t}) >= Keep

LEMMA OutnumberedIsOut == \A t : Outnumbered(t) <=> Out(t, Archives)
BY DEF Outnumbered, Out, Newer

LEMMA MoreNewer ==
    ASSUME NEW S, NEW T, IsFiniteSet(T), S \subseteq T, Cardinality(S) >= Keep
    PROVE  Cardinality(T) >= Keep
<1>1. IsFiniteSet(S) /\ Cardinality(S) <= Cardinality(T)
  BY FS_Subset
<1>2. Cardinality(S) \in Nat /\ Cardinality(T) \in Nat /\ Keep \in Nat
  BY <1>1, FS_CardinalityType, LogRotationConstants
<1> QED BY <1>1, <1>2

LEMMA OutnumberedMore ==
    ASSUME NEW A, NEW B, IsFiniteSet(B), A \subseteq B, NEW t, Out(t, A)
    PROVE  Out(t, B)
<1>1. IsFiniteSet({u \in B : u > t})
  BY FS_Subset
<1>2. {u \in A : u > t} \subseteq {u \in B : u > t}
  OBVIOUS
<1> QED BY <1>1, <1>2, MoreNewer DEF Out

\* If an outnumbered archive u goes, whoever was outnumbered still is: those
\* that outnumber u stay, and are newer than anything older than u.
LEMMA OutnumberedLess ==
    ASSUME NEW A, IsFiniteSet(A), A \subseteq Nat, NEW u \in Nat, Out(u, A), NEW t \in Nat, Out(t, A)
    PROVE  Out(t, A \ {u})
<1> DEFINE New(x, B) == {v \in B : v > x}
<1>1. IsFiniteSet(New(t, A \ {u}))
  BY FS_Subset
<1>2. PICK x \in {t, u} : New(x, A) \subseteq New(t, A \ {u})
  <2>1. CASE t < u
    <3>1. \A v \in A : v > u => v > t /\ v # u
      BY <2>1
    <3> QED BY <3>1
  <2>2. CASE ~(t < u)
    <3>1. \A v \in A : v > t => v # u
      BY <2>2
    <3> QED BY <3>1
  <2> QED BY <2>1, <2>2
<1>3. Cardinality(New(x, A)) >= Keep /\ Keep > 0
  BY <1>2 DEF Out
<1>4. Cardinality(New(t, A \ {u})) >= Keep
  <2> HIDE DEF New
  <2> QED BY <1>1, <1>2, <1>3, MoreNewer
<1> QED BY <1>3, <1>4 DEF Out

\* What a step does to the archives, as far as deleting goes.
Safely == \/ Archives \subseteq Archives'
          \/ \E u \in Tags : Outnumbered(u) /\ Archives' = Archives \ {u}

LEMMA StillOutnumbered ==
    ASSUME TypeOK, TypeOK', Safely, NEW t \in Tags, Outnumbered(t)
    PROVE  Outnumbered(t)'
<1>0. Outnumbered(t)' <=> Out(t, Archives')
  BY DEF Outnumbered, Out, Newer
<1>1. IsFiniteSet(Archives) /\ Archives \subseteq Nat /\ Tags \subseteq Nat
  BY ArchivesFinite
<1>2. IsFiniteSet(Archives')
  <2>1. Archives' \subseteq Tags
    BY DEF TypeOK, Archives
  <2>2. IsFiniteSet(Tags)
    BY FS_Interval, LogRotationConstants DEF Tags
  <2> QED BY <2>1, <2>2, FS_Subset
<1>3. CASE Archives \subseteq Archives'
  BY <1>0, <1>2, <1>3, OutnumberedIsOut, OutnumberedMore
<1>4. ASSUME NEW u \in Tags, Outnumbered(u), Archives' = Archives \ {u} PROVE Out(t, Archives')
  BY <1>1, <1>4, OutnumberedIsOut, OutnumberedLess
<1> QED BY <1>0, <1>3, <1>4 DEF Safely

-----------------------------------------------------------------------------
(* Types.                                                                  *)

LEMMA RotationTypeInit == Init => TypeOK
<1> SUFFICES ASSUME Init PROVE TypeOK
  OBVIOUS
<1> USE DEF Init
<1>1. <<>> \in Lines
  BY DEF Lines
<1>2. content \in Seq(Lines) /\ Len(content) = 1 /\ Files = 1..1
  BY <1>1 DEF Files
<1>3. path \in Files \cup {NoFile} /\ 1 \in Files
  BY <1>2
<1>4. live \in [file : Files, size : Nat, failed : Nat, waiting : BOOLEAN]
  BY <1>3 DEF Opened
<1>5. DOMAIN plain = {} /\ DOMAIN gz = {} /\ DOMAIN tmp = {} /\ DOMAIN rolled = {}
  OBVIOUS
<1>6. at = "idle" /\ entry \in 0..Entries
  BY LogRotationConstants
<1>7. task \in [Tags -> {"none", "copy", "name", "unlink", "list", "prune"}]
      /\ doomed \in [Tags -> SUBSET (Tags \X Kinds)]
  OBVIOUS
<1>8. budget \in [{"faults", "meddles", "restarts"} -> Nat]
  BY LogRotationConstants
<1>9. taken \subseteq Files /\ disturbed \in BOOLEAN
  OBVIOUS
<1> QED BY <1>2, <1>3, <1>4, <1>5, <1>6, <1>7, <1>8, <1>9 DEF TypeOK

Budgets == [{"faults", "meddles", "restarts"} -> Nat]

LEMMA BudgetSpent ==
    ASSUME TypeOK, NEW what \in {"faults", "meddles", "restarts"}, Spend(what)
    PROVE  budget' \in Budgets
<1>1. budget \in Budgets /\ budget[what] > 0 /\ budget' = [budget EXCEPT ![what] = @ - 1]
  BY DEF TypeOK, Budgets, Spend
<1>2. budget[what] - 1 \in Nat
  BY <1>1 DEF Budgets
<1> QED BY <1>1, <1>2 DEF Budgets

LEMMA FailureSpent ==
    ASSUME TypeOK, NEW o, Fails(o)
    PROVE  budget' \in Budgets
BY BudgetSpent DEF Fails

\* The parts of TypeOK that a step may leave alone together.
DiskTyped ==
    /\ content \in Seq(Lines) /\ path \in Files \cup {NoFile}
    /\ DOMAIN plain \subseteq Tags /\ \A t \in DOMAIN plain : plain[t] \in Files
    /\ DOMAIN gz \cup DOMAIN tmp \subseteq Tags
    /\ \A t \in DOMAIN gz : gz[t] \in Lines
    /\ \A t \in DOMAIN tmp : tmp[t] \in Lines

Lives == [file : Files, size : Nat, failed : Nat, waiting : BOOLEAN]

SinkTyped ==
    /\ live \in Lives
    /\ at \in {"idle", "stat", "reopen", "ready", "renamed", "vanished", "write"}
    /\ entry \in 0..Entries

TasksTyped ==
    /\ task \in [Tags -> {"none", "copy", "name", "unlink", "list", "prune"}]
    /\ doomed \in [Tags -> SUBSET (Tags \X Kinds)]

HistoryTyped ==
    /\ DOMAIN rolled \subseteq Tags /\ \A t \in DOMAIN rolled : rolled[t] \in Files
    /\ taken \subseteq Files /\ disturbed \in BOOLEAN

LEMMA TypeParts ==
    TypeOK <=> DiskTyped /\ SinkTyped /\ TasksTyped /\ HistoryTyped /\ budget \in Budgets
BY DEF TypeOK, DiskTyped, SinkTyped, Lives, TasksTyped, HistoryTyped, Budgets

LEMMA TypePartsNext ==
    TypeOK' <=> DiskTyped' /\ SinkTyped' /\ TasksTyped' /\ HistoryTyped' /\ budget' \in Budgets
BY DEF TypeOK, DiskTyped, SinkTyped, Lives, TasksTyped, HistoryTyped, Budgets

LEMMA SameFiles == UNCHANGED content => Files' = Files
BY DEF Files

\* Files are only added.
LEMMA DiskGrows ==
    ASSUME DiskTyped, content' \in Seq(Lines), Files \subseteq Files',
           path' \in Files' \cup {NoFile}, UNCHANGED <<plain, gz, tmp>>
    PROVE  DiskTyped'
BY DEF DiskTyped

LEMMA HistoryGrows ==
    ASSUME HistoryTyped, Files \subseteq Files', UNCHANGED <<rolled, taken>>, disturbed' \in BOOLEAN
    PROVE  HistoryTyped'
BY DEF HistoryTyped

LEMMA LivesGrow == ASSUME Files \subseteq Files', live \in Lives PROVE live \in Lives'
BY DEF Lives

\* open_append keeps the types of the disk, and the new live file's.
LEMMA OpenTyped ==
    ASSUME TypeOK, Open, UNCHANGED <<plain, gz, tmp>>
    PROVE  DiskTyped' /\ live' \in Lives' /\ Files \subseteq Files'
<1>1. DiskTyped
  BY TypeParts
<1>2. content' \in Seq(Lines) /\ Files \subseteq Files' /\ path' \in Files' /\ live' \in Lives'
  BY OpenIs DEF Lives
<1> QED BY <1>1, <1>2, DiskGrows

\* A failed roll: appending goes on.
LEMMA BackOffTyped ==
    ASSUME SinkTyped, BackOff, UNCHANGED <<content, entry>>
    PROVE  SinkTyped'
<1>1. live \in Lives /\ entry \in 0..Entries /\ Lives' = Lives
  BY SameFiles DEF SinkTyped, Lives
<1>2. live.failed + 1 \in Nat
  BY <1>1 DEF Lives
<1>3. live' \in Lives
  BY <1>1, <1>2 DEF BackOff, Lives
<1> QED BY <1>1, <1>3 DEF BackOff, SinkTyped

LEMMA SinkSteps ==
    ASSUME Inv, Sink \/ RetryDue
    PROVE  TypeOK'
<1>0. DiskTyped /\ SinkTyped /\ TasksTyped /\ HistoryTyped /\ budget \in Budgets /\ TypeOK
  BY TypeParts DEF Inv
<1>e. Entries \in Nat /\ entry \in 0..Entries
  BY <1>0, LogRotationConstants DEF SinkTyped
<1>1. CASE Emit
  <2>1. entry' \in 0..Entries
    BY <1>e, <1>1 DEF Emit
  <2>2. SinkTyped'
    BY <1>0, <1>1, <2>1, SameFiles DEF Emit, SinkTyped, Lives, disk
  <2>3. DiskTyped' /\ HistoryTyped'
    BY <1>0, <1>1, SameFiles DEF Emit, DiskTyped, HistoryTyped, disk
  <2> QED BY <1>0, <1>1, <2>2, <2>3, TypePartsNext DEF Emit, TasksTyped, background
<1>2. CASE FollowPath
  <2>1. SinkTyped' /\ DiskTyped'
    BY <1>0, <1>2, SameFiles DEF FollowPath, SinkTyped, Lives, DiskTyped, disk
  <2>2. HistoryTyped' /\ TasksTyped'
    BY <1>0, <1>2, SameFiles DEF FollowPath, HistoryTyped, TasksTyped, background, disk
  <2>3. budget' \in Budgets
    BY <1>0, <1>2, FailureSpent DEF FollowPath
  <2> QED BY <2>1, <2>2, <2>3, TypePartsNext
<1>3. CASE Reopen
  <2>1. DiskTyped' /\ live' \in Lives' /\ Files \subseteq Files'
    <3>1. CASE Open
      BY <1>0, <1>3, <3>1, OpenTyped DEF Reopen
    <3>2. CASE ~Open
      BY <1>0, <1>3, <3>2, SameFiles DEF Reopen, DiskTyped, SinkTyped, Lives
    <3> QED BY <3>1, <3>2
  <2>2. HistoryTyped'
    BY <1>0, <1>3, <2>1, HistoryGrows DEF Reopen, HistoryTyped
  <2>3. budget' \in Budgets
    BY <1>0, <1>3, FailureSpent DEF Reopen
  <2> QED BY <1>0, <1>3, <2>1, <2>2, <2>3, TypePartsNext
          DEF Reopen, SinkTyped, TasksTyped, background
<1>4. CASE Rename
  <2>1. Files' = Files
    BY <1>4, SameFiles DEF Rename
  <2>2. CASE path # NoFile /\ path' = NoFile
    <3> DEFINE t == Rolls + 1
    <3>1. /\ plain' = With(plain, t, path) /\ rolled' = With(rolled, t, path)
          /\ at' = "renamed" /\ UNCHANGED <<live, budget>>
      BY <1>4, <2>2 DEF Rename, Rolls
    <3>2. t \in Tags
      <4>1. Rolls \in 0..entry /\ Rolls < entry
        BY <1>4 DEF Rename, Inv, RollsCounted
      <4> QED BY <1>e, <4>1 DEF Tags
    <3>3. path \in Files
      BY <1>0, <2>2 DEF DiskTyped
    <3> HIDE DEF t
    <3>4. DOMAIN plain' \subseteq Tags /\ \A u \in DOMAIN plain' : plain'[u] \in Files
      BY <1>0, <3>1, <3>2, <3>3, WithTyped DEF DiskTyped
    <3>5. DOMAIN rolled' \subseteq Tags /\ \A u \in DOMAIN rolled' : rolled'[u] \in Files
      BY <1>0, <3>1, <3>2, <3>3, WithTyped DEF HistoryTyped
    <3>6. DiskTyped'
      BY <1>0, <1>4, <2>1, <2>2, <3>4 DEF Rename, DiskTyped
    <3>7. HistoryTyped'
      BY <1>0, <1>4, <2>1, <3>5 DEF Rename, HistoryTyped
    <3> QED BY <1>0, <1>4, <2>1, <3>1, <3>6, <3>7, TypePartsNext
            DEF Rename, SinkTyped, Lives, TasksTyped, background
  <2>3. CASE UNCHANGED <<path, plain, rolled>>
    <3>1. SinkTyped'
      <4>1. CASE at' = "vanished" /\ UNCHANGED live
        BY <1>0, <1>4, <2>1, <4>1 DEF Rename, SinkTyped, Lives
      <4>2. CASE BackOff
        BY <1>0, <1>4, <4>2, BackOffTyped DEF Rename
      <4> QED BY <1>0, <1>4, <2>3, <4>1, <4>2 DEF Rename
    <3>2. budget' \in Budgets
      BY <1>0, <1>4, <2>3, FailureSpent DEF Rename
    <3> QED BY <1>0, <1>4, <2>1, <2>3, <3>1, <3>2, TypePartsNext
            DEF Rename, DiskTyped, HistoryTyped, TasksTyped, background
  <2> QED BY <1>4, <2>2, <2>3 DEF Rename
<1>5. CASE Recreate
  <2>1. CASE Open /\ at' = "write" /\ UNCHANGED <<budget, disturbed>>
    <3>1. DiskTyped' /\ live' \in Lives' /\ Files \subseteq Files'
      BY <1>0, <1>5, <2>1, OpenTyped DEF Recreate
    <3>2. HistoryTyped'
      BY <1>0, <1>5, <2>1, <3>1, HistoryGrows DEF Recreate, HistoryTyped
    <3>3. TasksTyped'
      <4>1. task' = task \/ \E s \in {"copy", "list"} : task' = [task EXCEPT ![Rolls] = s]
        BY <1>0, <1>5, <2>1 DEF Recreate, Rolls, BackOff, TasksTyped
      <4> QED BY <1>0, <1>5, <4>1 DEF Recreate, TasksTyped
    <3> QED BY <1>0, <1>5, <2>1, <3>1, <3>2, <3>3, TypePartsNext DEF Recreate, SinkTyped
  <2>2. CASE Fails("open") /\ BackOff /\ disturbed' = TRUE /\ UNCHANGED <<content, path, task>>
    <3>1. Files' = Files
      BY <2>2, SameFiles
    <3>2. SinkTyped'
      BY <1>0, <1>5, <2>2, BackOffTyped DEF Recreate
    <3>3. budget' \in Budgets
      BY <1>0, <2>2, FailureSpent
    <3> QED BY <1>0, <1>5, <2>2, <3>1, <3>2, <3>3, TypePartsNext
            DEF Recreate, DiskTyped, HistoryTyped, TasksTyped
  <2> QED BY <1>5, <2>1, <2>2 DEF Recreate
<1>6. CASE Write
  <2>1. entry \in Tags
    <3>1. entry > 0
      BY <1>6 DEF Write, Inv, RollsCounted
    <3> QED BY <1>e, <3>1 DEF Tags
  <2>2. content' = content \/ \E form \in {"whole", "torn", "glued"} : Put(form)
    BY <1>6 DEF Write
  <2>3. content' \in Seq(Lines) /\ Files' = Files
    <3>1. CASE content' = content
      BY <1>0, <3>1, SameFiles DEF DiskTyped
    <3>2. ASSUME NEW form \in {"whole", "torn", "glued"}, Put(form)
          PROVE  content' \in Seq(Lines) /\ Files' = Files
      <4>1. live.file \in 1..Len(content)
        BY <1>0 DEF SinkTyped, Lives, Files
      <4>2. Append(content[live.file], [entry |-> entry, form |-> form]) \in Lines
        <5>1. content[live.file] \in Seq(Line)
          BY <1>0, <4>1, FilesTyped DEF Files, Lines
        <5>2. [entry |-> entry, form |-> form] \in Line
          BY <2>1, <3>2 DEF Line
        <5> QED BY <5>1, <5>2, AppendProperties DEF Lines
      <4>3. content' \in Seq(Lines) /\ Len(content') = Len(content)
        BY <1>0, <3>2, <4>1, <4>2, ExceptSeq DEF Put, DiskTyped
      <4> QED BY <4>3 DEF Files
    <3> QED BY <2>2, <3>1, <3>2
  <2>4. DiskTyped'
    BY <1>0, <1>6, <2>3 DEF Write, DiskTyped
  <2>5. live' \in Lives
    <3>1. live \in Lives /\ live.size + 1 \in Nat
      BY <1>0 DEF SinkTyped, Lives
    <3> QED BY <1>6, <3>1 DEF Write, Lives
  <2>6. budget' \in Budgets
    BY <1>0, <1>6, FailureSpent DEF Write
  <2>7. SinkTyped'
    BY <1>0, <1>6, <2>3, <2>5 DEF Write, SinkTyped, Lives
  <2> QED BY <1>0, <1>6, <2>3, <2>4, <2>6, <2>7, TypePartsNext
          DEF Write, HistoryTyped, TasksTyped, background, history
<1>7. CASE RetryDue
  <2>1. live' \in Lives
    BY <1>0, <1>7 DEF RetryDue, SinkTyped, Lives
  <2> QED BY <1>0, <1>7, <2>1, SameFiles, TypePartsNext
          DEF RetryDue, DiskTyped, SinkTyped, Lives, HistoryTyped, TasksTyped, disk, background, history
<1> QED BY <1>1, <1>2, <1>3, <1>4, <1>5, <1>6, <1>7 DEF Sink

\* A task goes to another stage.
LEMMA StageTyped ==
    ASSUME TasksTyped, NEW t \in Tags, UNCHANGED doomed,
           \E s \in {"none", "copy", "name", "unlink", "list", "prune"} : Stage(t, s)
    PROVE  TasksTyped'
BY DEF TasksTyped, Stage

\* Archives and temporary files that are there are as they should be.
ArchivesTyped(p, g, m) ==
    /\ DOMAIN p \subseteq Tags /\ \A t \in DOMAIN p : p[t] \in Files
    /\ DOMAIN g \subseteq Tags /\ \A t \in DOMAIN g : g[t] \in Lines
    /\ DOMAIN m \subseteq Tags /\ \A t \in DOMAIN m : m[t] \in Lines

LEMMA WithoutTyped ==
    ASSUME NEW f, NEW t, NEW D, NEW R, DOMAIN f \subseteq D, \A u \in DOMAIN f : f[u] \in R
    PROVE  /\ DOMAIN Without(f, t) \subseteq D
           /\ \A u \in DOMAIN Without(f, t) : Without(f, t)[u] \in R
BY DEF Without, Restrict

\* A step of a task leaves the files and the sink alone.
LEMMA TaskTyped ==
    ASSUME TypeOK, UNCHANGED <<content, path, sink, history>>,
           ArchivesTyped(plain', gz', tmp'), TasksTyped', budget' \in Budgets
    PROVE  TypeOK'
<1>1. DiskTyped /\ SinkTyped /\ HistoryTyped /\ Files' = Files
  BY TypeParts, SameFiles
<1>2. DiskTyped'
  BY <1>1 DEF DiskTyped, ArchivesTyped
<1>3. SinkTyped' /\ HistoryTyped'
  BY <1>1 DEF SinkTyped, Lives, HistoryTyped, sink, history
<1> QED BY <1>2, <1>3, TypePartsNext

LEMMA TaskSteps ==
    ASSUME Inv, NEW t \in Tags, Task(t)
    PROVE  TypeOK'
<1>0. TypeOK /\ DiskTyped /\ TasksTyped /\ budget \in Budgets
  BY TypeParts DEF Inv
<1>a. ArchivesTyped(plain, gz, tmp)
  BY <1>0 DEF DiskTyped, ArchivesTyped
<1>1. CASE Copy(t)
  <2>1. TasksTyped' /\ budget' \in Budgets
    BY <1>0, <1>1, StageTyped, FailureSpent DEF Copy
  <2>2. ArchivesTyped(plain', gz', tmp')
    <3>1. CASE UNCHANGED tmp
      BY <1>1, <1>a, <3>1 DEF Copy
    <3>2. CASE t \in DOMAIN plain /\ tmp' = With(tmp, t, content[plain[t]])
      <4>1. content[plain[t]] \in Lines
        BY <1>0, <1>a, <3>2, FilesTyped DEF ArchivesTyped
      <4> QED BY <1>1, <1>a, <3>2, <4>1, WithTyped DEF Copy, ArchivesTyped
    <3> QED BY <1>1, <3>1, <3>2 DEF Copy
  <2> QED BY <1>0, <1>1, <2>1, <2>2, TaskTyped DEF Copy
<1>2. CASE Name(t)
  <2>1. TasksTyped' /\ budget' \in Budgets
    BY <1>0, <1>2, StageTyped, FailureSpent DEF Name
  <2>2. ArchivesTyped(plain', gz', tmp')
    <3>1. CASE UNCHANGED <<gz, tmp>>
      BY <1>2, <1>a, <3>1 DEF Name
    <3>2. CASE gz' = With(gz, t, tmp[t]) /\ tmp' = Without(tmp, t)
      <4>1. tmp[t] \in Lines
        BY <1>2, <1>a DEF Name, Inv, Copies, ArchivesTyped
      <4>2. DOMAIN gz' \subseteq Tags /\ \A u \in DOMAIN gz' : gz'[u] \in Lines
        BY <1>a, <3>2, <4>1, WithTyped DEF ArchivesTyped
      <4>3. DOMAIN tmp' \subseteq Tags /\ \A u \in DOMAIN tmp' : tmp'[u] \in Lines
        BY <1>a, <3>2, WithoutTyped DEF ArchivesTyped
      <4> QED BY <1>2, <1>a, <4>2, <4>3 DEF Name, ArchivesTyped
    <3> QED BY <1>2, <3>1, <3>2 DEF Name
  <2> QED BY <1>0, <1>2, <2>1, <2>2, TaskTyped DEF Name
<1>3. CASE Unlink(t)
  <2>1. TasksTyped' /\ budget' \in Budgets
    BY <1>0, <1>3, StageTyped, FailureSpent DEF Unlink
  <2>2. ArchivesTyped(plain', gz', tmp')
    BY <1>3, <1>a, WithoutTyped DEF Unlink, ArchivesTyped
  <2> QED BY <1>0, <1>3, <2>1, <2>2, TaskTyped DEF Unlink
<1>4. CASE List(t)
  <2>1. Stored \subseteq Tags \X Kinds
    BY DEF Stored
  <2>2. TasksTyped'
    BY <1>0, <1>4, <2>1 DEF List, TasksTyped, Stage
  <2> QED BY <1>0, <1>a, <1>4, <2>2, TaskTyped DEF List, disk
<1>5. CASE Prune(t)
  <2>1. TasksTyped'
    BY <1>0, <1>5 DEF Prune, TasksTyped, Stage
  <2>2. ArchivesTyped(plain', gz', tmp')
    <3>1. plain' = plain \/ \E u : plain' = Without(plain, u)
      BY <1>5 DEF Prune
    <3>2. gz' = gz \/ \E u : gz' = Without(gz, u)
      BY <1>5 DEF Prune
    <3>3. DOMAIN plain' \subseteq Tags /\ \A u \in DOMAIN plain' : plain'[u] \in Files
      BY <1>a, <3>1, WithoutTyped DEF ArchivesTyped
    <3>4. DOMAIN gz' \subseteq Tags /\ \A u \in DOMAIN gz' : gz'[u] \in Lines
      BY <1>a, <3>2, WithoutTyped DEF ArchivesTyped
    <3> QED BY <1>5, <1>a, <3>3, <3>4 DEF Prune, ArchivesTyped
  <2> QED BY <1>0, <1>5, <2>1, <2>2, TaskTyped DEF Prune
<1> QED BY <1>1, <1>2, <1>3, <1>4, <1>5 DEF Task

LEMMA WorldSteps ==
    ASSUME Inv, Meddle \/ Restart
    PROVE  TypeOK'
<1>0. TypeOK /\ DiskTyped /\ SinkTyped /\ TasksTyped /\ HistoryTyped
  BY TypeParts DEF Inv
<1>1. CASE Meddle
  <2>1. content' \in Seq(Lines) /\ Files \subseteq Files' /\ path' \in Files' \cup {NoFile}
    <3>1. CASE content' = content /\ path' = NoFile
      BY <1>0, <3>1, SameFiles DEF DiskTyped
    <3>2. CASE content' = Append(content, <<>>) /\ path' = Len(content')
      BY <1>0, <3>2, FileAdded
    <3> QED BY <1>1, <3>1, <3>2 DEF Meddle
  <2>2. DiskTyped'
    BY <1>0, <1>1, <2>1, DiskGrows DEF Meddle
  <2>3. SinkTyped'
    BY <1>0, <1>1, <2>1, LivesGrow DEF Meddle, SinkTyped, sink
  <2>4. HistoryTyped'
    BY <1>0, <1>1, <2>1 DEF Meddle, HistoryTyped, DiskTyped
  <2>5. budget' \in Budgets
    BY <1>0, <1>1, BudgetSpent DEF Meddle
  <2> QED BY <1>0, <1>1, <2>2, <2>3, <2>4, <2>5, TypePartsNext DEF Meddle, TasksTyped, background
<1>2. CASE Restart
  <2>1. DiskTyped' /\ live' \in Lives' /\ Files \subseteq Files'
    BY <1>0, <1>2, OpenTyped DEF Restart
  <2>2. HistoryTyped'
    BY <1>0, <1>2, <2>1, HistoryGrows DEF Restart, history, HistoryTyped
  <2>3. budget' \in Budgets
    BY <1>0, <1>2, BudgetSpent DEF Restart
  <2>4. TasksTyped'
    BY <1>2 DEF Restart, TasksTyped
  <2> QED BY <1>0, <1>2, <2>1, <2>2, <2>3, <2>4, TypePartsNext DEF Restart, SinkTyped
<1> QED BY <1>1, <1>2

LEMMA RotationTypeNext == Inv /\ [Next]_vars => TypeOK'
<1> SUFFICES ASSUME Inv, [Next]_vars PROVE TypeOK'
  OBVIOUS
<1>1. CASE UNCHANGED vars
  <2>1. UNCHANGED <<content, path, plain, gz, tmp, live, at, entry, task, doomed, rolled, taken,
                    disturbed, budget>>
    BY <1>1 DEF vars, disk, sink, background, history
  <2> QED BY <2>1, SameFiles DEF Inv, TypeOK
<1> QED BY <1>1, SinkSteps, TaskSteps, WorldSteps DEF Next

-----------------------------------------------------------------------------
(* Rolls are counted.                                                      *)

LEMMA RollCount == \A n \in Nat : Cardinality(1..n) = n /\ 1..n \cup {n + 1} = 1..(n + 1)
<1>1. \A n \in Nat : Cardinality(1..n) = n
  <2> SUFFICES ASSUME NEW n \in Nat PROVE Cardinality(1..n) = n
    OBVIOUS
  <2>1. Cardinality(1..n) = IF 1 > n THEN 0 ELSE n - 1 + 1
    BY FS_Interval
  <2> QED BY <2>1
<1> QED BY <1>1

LEMMA CountedInit == Init => RollsCounted
<1>1. Cardinality(1..0) = 0
  BY RollCount
<1>2. Init => DOMAIN rolled = 1..0 /\ at = "idle" /\ entry = 0
  BY DEF Init
<1> QED BY <1>1, <1>2 DEF RollsCounted, Rolls

LEMMA CountedNext == Inv /\ [Next]_vars => RollsCounted'
<1> SUFFICES ASSUME Inv, [Next]_vars PROVE RollsCounted'
  OBVIOUS
<1>0. RollsCounted /\ entry \in Nat
  BY LogRotationConstants DEF Inv, TypeOK
<1>r. UNCHANGED rolled => Rolls' = Rolls /\ DOMAIN rolled' = DOMAIN rolled
  BY DEF Rolls
<1>1. CASE Emit
  BY <1>0, <1>1, <1>r DEF Emit, RollsCounted
<1>2. CASE FollowPath
  BY <1>0, <1>2, <1>r DEF FollowPath, RollsCounted
<1>3. CASE Reopen
  BY <1>0, <1>3, <1>r DEF Reopen, RollsCounted
<1>4. CASE Rename
  <2>1. Rolls \in Nat /\ DOMAIN rolled = 1..Rolls /\ Rolls < entry /\ entry > 0 /\ entry' = entry
    BY <1>0, <1>4 DEF Rename, RollsCounted
  <2>2. CASE UNCHANGED rolled
    <3>1. at' \in {"vanished", "write"} \/ path # NoFile
      BY <1>4 DEF Rename, BackOff
    <3>2. CASE at' \in {"vanished", "write"}
      BY <1>0, <1>r, <2>1, <2>2, <3>2 DEF RollsCounted
    <3>3. CASE at' = "renamed"
      <4>1. rolled' = With(rolled, Rolls + 1, path)
        BY <1>4, <3>3 DEF Rename, Rolls, BackOff
      <4>2. Rolls + 1 \in DOMAIN rolled'
        BY <4>1 DEF With
      <4> QED BY <2>1, <2>2, <4>2
    <3> QED BY <1>4, <3>2, <3>3 DEF Rename, BackOff
  <2>3. CASE rolled' = With(rolled, Rolls + 1, path) /\ at' = "renamed"
    <3>1. DOMAIN rolled' = 1..(Rolls + 1)
      BY <2>1, <2>3, RollCount DEF With
    <3>2. Rolls' = Rolls + 1
      BY <2>1, <3>1, RollCount DEF Rolls
    <3> QED BY <1>0, <2>1, <2>3, <3>1, <3>2 DEF RollsCounted
  <2> QED BY <1>4, <2>2, <2>3 DEF Rename, Rolls
<1>5. CASE Recreate
  <2>1. at' = "write" /\ at # "idle" /\ UNCHANGED <<rolled, entry>>
    BY <1>5 DEF Recreate, BackOff
  <2> QED BY <1>0, <1>r, <2>1 DEF RollsCounted
<1>6. CASE Write
  BY <1>0, <1>6, <1>r DEF Write, history, RollsCounted
<1>7. CASE RetryDue
  BY <1>0, <1>7, <1>r DEF RetryDue, history, RollsCounted
<1>8. ASSUME NEW t \in Tags, Task(t) PROVE RollsCounted'
  <2>1. UNCHANGED <<sink, history>>
    BY <1>8 DEF Task, Copy, Name, Unlink, List, Prune
  <2> QED BY <1>0, <1>r, <2>1 DEF sink, history, RollsCounted
<1>9. CASE Meddle
  BY <1>0, <1>9, <1>r DEF Meddle, sink, RollsCounted
<1>10. CASE Restart
  BY <1>0, <1>10, <1>r DEF Restart, history, RollsCounted
<1>11. CASE UNCHANGED vars
  BY <1>0, <1>11, <1>r DEF vars, sink, history, RollsCounted
<1> QED BY <1>1, <1>2, <1>3, <1>4, <1>5, <1>6, <1>7, <1>8, <1>9, <1>10, <1>11 DEF Next, Sink

-----------------------------------------------------------------------------
(* Every file has a name, or had one that is accounted for.                *)

LEMMA NamesInit == Init => Names
<1> SUFFICES ASSUME Init PROVE Names
  OBVIOUS
<1>1. Files = 1..1 /\ path = 1
  BY DEF Init, Files
<1>2. DOMAIN plain = {} /\ DOMAIN gz = {} /\ DOMAIN rolled = {}
  BY DEF Init
<1> QED BY <1>1, <1>2 DEF Names

LEMMA NamesSame ==
    ASSUME Names, UNCHANGED <<path, plain, gz, rolled, taken>>, Files' = Files
    PROVE  Names'
BY DEF Names

LEMMA NamesOpen ==
    ASSUME TypeOK, Names, Open, UNCHANGED <<plain, gz, rolled, taken>>
    PROVE  Names'
<1>1. \A t \in DOMAIN rolled : rolled[t] \in Files /\ rolled[t] # path
  BY DEF TypeOK, Names
<1>2. /\ Files' = Files \cup {path'}
      /\ path # NoFile => path' = path
      /\ path = NoFile => path' \notin Files
  BY OpenIs
<1>3. NoFile \notin Files
  BY FilesTyped
<1>4. \A t \in DOMAIN rolled' : rolled'[t] # path'
  BY <1>1, <1>2
<1>5. \A f \in Files' : f = path' \/ f \in taken' \/ \E t \in DOMAIN rolled' : rolled'[t] = f
  <2> SUFFICES ASSUME NEW f \in Files, f # path'
               PROVE  f \in taken \/ \E t \in DOMAIN rolled : rolled[t] = f
    BY <1>2
  <2>1. f # path
    BY <1>2, <1>3
  <2> QED BY <2>1 DEF Names
<1> QED BY <1>4, <1>5 DEF Names

LEMMA NamesRename ==
    ASSUME Inv, Rename
    PROVE  Names'
<1>0. Names /\ TypeOK /\ Files' = Files
  BY SameFiles DEF Inv, Rename
<1>1. CASE UNCHANGED <<path, plain, rolled>>
  BY <1>0, <1>1, NamesSame DEF Rename
<1>2. CASE path # NoFile /\ path' = NoFile
  <2> DEFINE t == Rolls + 1
  <2>1. /\ plain' = With(plain, t, path) /\ rolled' = With(rolled, t, path)
        /\ UNCHANGED <<gz, taken>>
    BY <1>2 DEF Rename, Rolls, BackOff
  <2>2. t \notin DOMAIN rolled
    BY LogRotationConstants DEF Inv, RollsCounted, TypeOK
  <2> HIDE DEF t
  <2>3. /\ DOMAIN rolled' = DOMAIN rolled \cup {t} /\ rolled'[t] = path
        /\ \A u \in DOMAIN rolled : rolled'[u] = rolled[u]
    BY <2>1, <2>2 DEF With
  <2>4. /\ DOMAIN plain' = DOMAIN plain \cup {t} /\ plain'[t] = path
        /\ \A u \in DOMAIN plain \ {t} : plain'[u] = plain[u]
    BY <2>1 DEF With
  <2>5. NoFile \notin Files /\ path \in Files /\ \A u \in DOMAIN rolled : rolled[u] \in Files
    BY <1>0, <1>2, FilesTyped DEF TypeOK
  <2>6. DOMAIN plain' \cup DOMAIN gz' \subseteq DOMAIN rolled'
    BY <1>0, <2>1, <2>3, <2>4 DEF Names
  <2>7. \A u \in DOMAIN plain' : plain'[u] = rolled'[u]
    BY <1>0, <2>3, <2>4 DEF Names
  <2>8. \A u \in DOMAIN rolled' : rolled'[u] # path'
    BY <1>2, <2>3, <2>5
  <2>9. \A f \in Files' : f \in taken' \/ \E u \in DOMAIN rolled' : rolled'[u] = f
    BY <1>0, <2>1, <2>3 DEF Names
  <2> QED BY <2>6, <2>7, <2>8, <2>9 DEF Names
<1> QED BY <1>1, <1>2 DEF Rename

LEMMA NamesMeddle ==
    ASSUME TypeOK, Names, Meddle
    PROVE  Names'
<1>1. path # NoFile /\ taken' = taken \cup {path} /\ UNCHANGED <<plain, gz, rolled>>
  BY DEF Meddle
<1>2. \A t \in DOMAIN rolled : rolled[t] \in Files
  BY DEF TypeOK
<1>3. path' \notin Files /\ Files' \subseteq Files \cup {path'}
  <2>1. CASE path' = NoFile /\ content' = content
    BY <2>1, FilesTyped, SameFiles
  <2>2. CASE content' = Append(content, <<>>) /\ path' = Len(content')
    <3>1. path' = Len(content) + 1 /\ Files' = Files \cup {path'} /\ Len(content) \in Nat
      BY <2>2, FileAdded, FilesTyped
    <3> QED BY <3>1 DEF Files
  <2> QED BY <2>1, <2>2 DEF Meddle
<1>4. \A t \in DOMAIN rolled' : rolled'[t] # path'
  BY <1>1, <1>2, <1>3
<1>5. \A f \in Files' : f = path' \/ f \in taken' \/ \E t \in DOMAIN rolled' : rolled'[t] = f
  BY <1>1, <1>3 DEF Names
<1> QED BY <1>1, <1>4, <1>5 DEF Names

\* Deleting archives, and adding the compressed form of one that was rolled.
LEMMA NamesTask ==
    ASSUME Inv, NEW t \in Tags, Task(t)
    PROVE  Names'
<1>0. Names /\ UNCHANGED <<content, path, rolled, taken>>
  BY DEF Inv, Task, Copy, Name, Unlink, List, Prune, disk, history
<1>1. plain' = plain \/ \E u : plain' = Without(plain, u)
  BY DEF Task, Copy, Name, Unlink, List, Prune, disk
<1>2. DOMAIN plain' \subseteq DOMAIN plain /\ \A u \in DOMAIN plain' : plain'[u] = plain[u]
  BY <1>1 DEF Without, Restrict
<1>3. DOMAIN gz' \subseteq DOMAIN rolled
  <2>1. CASE Name(t)
    <3>1. t \in DOMAIN rolled
      BY <2>1 DEF Name, Inv, Copies
    <3>2. DOMAIN gz' \subseteq DOMAIN gz \cup {t}
      BY <2>1 DEF Name, With
    <3> QED BY <1>0, <3>1, <3>2 DEF Names
  <2>2. CASE ~Name(t)
    <3>1. gz' = gz \/ \E u : gz' = Without(gz, u)
      BY <2>2 DEF Task, Copy, Unlink, List, Prune, disk
    <3>2. DOMAIN gz' \subseteq DOMAIN gz
      BY <3>1 DEF Without, Restrict
    <3> QED BY <1>0, <3>2 DEF Names
  <2> QED BY <2>1, <2>2
<1> QED BY <1>0, <1>2, <1>3, SameFiles DEF Names

LEMMA NamesNext == Inv /\ [Next]_vars => Names'
<1> SUFFICES ASSUME Inv, [Next]_vars PROVE Names'
  OBVIOUS
<1>0. TypeOK /\ Names
  BY DEF Inv
<1>1. CASE Emit \/ FollowPath \/ RetryDue
  BY <1>0, <1>1, NamesSame, SameFiles DEF Emit, FollowPath, RetryDue, disk, history
<1>2. CASE Reopen
  BY <1>0, <1>2, NamesOpen, NamesSame, SameFiles DEF Reopen
<1>3. CASE Recreate
  BY <1>0, <1>3, NamesOpen, NamesSame, SameFiles DEF Recreate
<1>4. CASE Write
  <2>1. Files' = Files
    <3>1. UNCHANGED content \/ \E form \in {"whole", "torn", "glued"} : Put(form)
      BY <1>4 DEF Write
    <3>2. DOMAIN content' = DOMAIN content
      BY <3>1 DEF Put
    <3>3. content \in Seq(Lines) /\ content' \in Seq(Lines)
      BY <1>0, <1>4, SinkSteps DEF Sink, TypeOK
    <3>4. Len(content') = Len(content)
      BY <3>2, <3>3, LenProperties
    <3> QED BY <3>4 DEF Files
  <2> QED BY <1>0, <1>4, <2>1, NamesSame DEF Write, history
<1>5. CASE Restart
  BY <1>0, <1>5, NamesOpen DEF Restart, history
<1>6. CASE UNCHANGED vars
  BY <1>0, <1>6, NamesSame, SameFiles DEF vars, disk, history
<1> QED BY <1>0, <1>1, <1>2, <1>3, <1>4, <1>5, <1>6, NamesRename, NamesMeddle, NamesTask
    DEF Next, Sink

-----------------------------------------------------------------------------
(* Copies are of whole files.                                              *)

LEMMA CopiesInit == Init => Copies
<1> SUFFICES ASSUME Init PROVE Copies
  OBVIOUS
<1>1. DOMAIN gz = {} /\ \A t \in Tags : task[t] = "none"
  BY DEF Init
<1> QED BY <1>1 DEF Copies

\* Lines are appended to the live file only, no file that was rolled becomes
\* live again, and a task starts when the file it is about is not live.
LEMMA CopiesKept ==
    ASSUME TypeOK, Names, Copies, UNCHANGED <<gz, tmp, rolled>>,
           \A f \in Files : f # live.file => content'[f] = content[f],
           \A t \in DOMAIN rolled : live'.file = rolled[t] => live.file = rolled[t],
           \A t \in Tags : \/ task'[t] \in {task[t], "none"}
                           \/ /\ task'[t] \in {"copy", "list"} /\ t \in DOMAIN rolled
                              /\ live'.file # rolled[t]
    PROVE  Copies'
<1>1. \A t \in DOMAIN rolled : rolled[t] \in Files
  BY DEF TypeOK
<1>2. ASSUME NEW t \in DOMAIN gz' PROVE gz'[t] = content'[rolled'[t]] /\ live'.file # rolled'[t]
  <2>1. t \in DOMAIN gz /\ t \in DOMAIN rolled
    BY DEF Names
  <2>2. gz[t] = content[rolled[t]] /\ live.file # rolled[t]
    BY <2>1 DEF Copies
  <2> QED BY <1>1, <2>1, <2>2
<1>3. ASSUME NEW t \in Tags, task'[t] # "none" PROVE t \in DOMAIN rolled' /\ live'.file # rolled'[t]
  BY <1>3 DEF Copies
<1>4. ASSUME NEW t \in Tags, task'[t] = "name"
      PROVE  t \in DOMAIN tmp' /\ tmp'[t] = content'[rolled'[t]]
  <2>1. task[t] = "name"
    BY <1>4
  <2>2. t \in DOMAIN rolled /\ live.file # rolled[t] /\ t \in DOMAIN tmp /\ tmp[t] = content[rolled[t]]
    BY <2>1 DEF Copies
  <2> QED BY <1>1, <2>2
<1> QED BY <1>2, <1>3, <1>4 DEF Copies

LEMMA CopiesOpen ==
    ASSUME Inv, Names', Open, UNCHANGED <<gz, tmp, rolled>>,
           \A t \in Tags : \/ task'[t] \in {task[t], "none"}
                           \/ task'[t] \in {"copy", "list"} /\ t \in DOMAIN rolled
    PROVE  Copies'
<1>1. live'.file = path' /\ \A f \in Files : content'[f] = content[f]
  BY OpenIs DEF Inv
<1>2. \A t \in DOMAIN rolled : live'.file # rolled[t]
  BY <1>1 DEF Names
<1> QED BY <1>1, <1>2, CopiesKept DEF Inv

LEMMA CopiesRename ==
    ASSUME Inv, Rename
    PROVE  Copies'
<1>0. TypeOK /\ Names /\ Copies
  BY DEF Inv
<1>f. live'.file = live.file
  BY <1>0 DEF Rename, BackOff, TypeOK
<1>1. CASE UNCHANGED rolled
  BY <1>0, <1>1, <1>f, CopiesKept DEF Rename, background
<1>2. CASE rolled' = With(rolled, Rolls + 1, path)
  <2> DEFINE t == Rolls + 1
  <2>1. t \notin DOMAIN rolled
    BY LogRotationConstants DEF Inv, RollsCounted, TypeOK
  <2>2. \A u \in DOMAIN rolled : rolled'[u] = rolled[u] /\ u \in DOMAIN rolled'
    BY <1>2, <2>1 DEF With
  <2>3. UNCHANGED <<content, gz, tmp, task>>
    BY DEF Rename, background
  <2>4. DOMAIN gz \subseteq DOMAIN rolled
    BY <1>0 DEF Names
  <2>5. \A u \in DOMAIN gz' : gz'[u] = content'[rolled'[u]] /\ live'.file # rolled'[u]
    BY <1>0, <1>f, <2>2, <2>3, <2>4 DEF Copies
  <2>6. \A u \in Tags : task'[u] # "none" => u \in DOMAIN rolled' /\ live'.file # rolled'[u]
    BY <1>0, <1>f, <2>2, <2>3 DEF Copies
  <2>7. \A u \in Tags : task'[u] = "name" => u \in DOMAIN tmp' /\ tmp'[u] = content'[rolled'[u]]
    BY <1>0, <2>2, <2>3 DEF Copies
  <2> QED BY <2>5, <2>6, <2>7 DEF Copies
<1> QED BY <1>1, <1>2 DEF Rename, Rolls

LEMMA CopiesTask ==
    ASSUME Inv, NEW t \in Tags, Task(t)
    PROVE  Copies'
<1>0. TypeOK /\ Names /\ Copies /\ UNCHANGED <<content, live, rolled>>
  BY DEF Inv, Task, Copy, Name, Unlink, List, Prune, disk, sink, history
<1>1. task[t] # "none" /\ \A u \in Tags \ {t} : task'[u] = task[u]
  BY <1>0 DEF Task, Copy, Name, Unlink, List, Prune, Stage, TypeOK
<1>2. t \in DOMAIN rolled /\ live.file # rolled[t]
  BY <1>0, <1>1 DEF Copies
<1>3. \A u \in Tags : task'[u] # "none" => u \in DOMAIN rolled' /\ live'.file # rolled'[u]
  BY <1>0, <1>1, <1>2 DEF Copies
<1>4. \A u \in DOMAIN gz' : gz'[u] = content'[rolled'[u]] /\ live'.file # rolled'[u]
  <2>1. CASE gz' = With(gz, t, tmp[t]) /\ Name(t)
    <3>1. tmp[t] = content[rolled[t]]
      BY <1>0, <2>1 DEF Name, Copies
    <3> QED BY <1>0, <1>2, <2>1, <3>1 DEF Copies, With
  <2>2. CASE gz' = gz \/ \E u : gz' = Without(gz, u)
    <3>1. \A u \in DOMAIN gz' : u \in DOMAIN gz /\ gz'[u] = gz[u]
      BY <2>2 DEF Without, Restrict
    <3> QED BY <1>0, <3>1 DEF Copies
  <2> QED BY <2>1, <2>2 DEF Task, Copy, Name, Unlink, List, Prune, disk
<1>5. \A u \in Tags : task'[u] = "name" => u \in DOMAIN tmp' /\ tmp'[u] = content'[rolled'[u]]
  <2>1. CASE tmp' = With(tmp, t, content[plain[t]]) /\ t \in DOMAIN plain
    <3>1. plain[t] = rolled[t]
      BY <1>0, <2>1 DEF Names
    <3> QED BY <1>0, <1>1, <2>1, <3>1 DEF Copies, With
  <2>2. CASE tmp' = Without(tmp, t) /\ task'[t] = "unlink"
    BY <1>0, <1>1, <2>2 DEF Copies, Without, Restrict
  <2>3. CASE tmp' = tmp /\ task'[t] # "name"
    BY <1>0, <1>1, <2>3 DEF Copies
  <2>4. task \in [Tags -> {"none", "copy", "name", "unlink", "list", "prune"}]
    BY <1>0 DEF TypeOK
  <2>5. CASE Copy(t)
    BY <2>1, <2>3, <2>4, <2>5 DEF Copy, Stage
  <2>6. CASE Name(t)
    BY <2>2, <2>3, <2>4, <2>6 DEF Name, Stage
  <2>7. CASE Unlink(t) \/ List(t) \/ Prune(t)
    BY <2>3, <2>4, <2>7 DEF Unlink, List, Prune, Stage, disk
  <2> QED BY <2>5, <2>6, <2>7 DEF Task
<1> QED BY <1>3, <1>4, <1>5 DEF Copies

LEMMA CopiesNext == Inv /\ [Next]_vars => Copies'
<1> SUFFICES ASSUME Inv, [Next]_vars PROVE Copies'
  OBVIOUS
<1>0. TypeOK /\ Names /\ Copies /\ Names'
  BY NamesNext DEF Inv
<1>1. CASE Emit \/ FollowPath \/ RetryDue
  <2>1. UNCHANGED <<content, gz, tmp, rolled, task>> /\ live'.file = live.file
    BY <1>0, <1>1 DEF Emit, FollowPath, RetryDue, disk, background, history, TypeOK
  <2> QED BY <1>0, <2>1, CopiesKept
<1>2. CASE Reopen
  <2>1. UNCHANGED <<gz, tmp, rolled, task>>
    BY <1>2 DEF Reopen, background
  <2>2. CASE Open
    BY <1>0, <2>1, <2>2, CopiesOpen
  <2>3. CASE UNCHANGED <<content, live>>
    BY <1>0, <2>1, <2>3, CopiesKept
  <2> QED BY <1>2, <2>2, <2>3 DEF Reopen
<1>3. CASE Recreate
  <2>1. UNCHANGED <<gz, tmp, rolled>>
    BY <1>3 DEF Recreate
  <2>2. CASE Open
    <3>1. \A t \in Tags : \/ task'[t] \in {task[t], "none"}
                          \/ task'[t] \in {"copy", "list"} /\ t \in DOMAIN rolled
      <4>1. CASE task' = task
        BY <4>1
      <4>2. ASSUME NEW s \in {"copy", "list"}, at = "renamed", task' = [task EXCEPT ![Rolls] = s]
            PROVE  \A t \in Tags : \/ task'[t] = task[t]
                                   \/ task'[t] \in {"copy", "list"} /\ t \in DOMAIN rolled
        <5>1. Rolls \in DOMAIN rolled
          BY <4>2, LogRotationConstants DEF Inv, RollsCounted, TypeOK
        <5> QED BY <1>0, <4>2, <5>1 DEF TypeOK
      <4> QED BY <1>3, <4>1, <4>2 DEF Recreate, Rolls
    <3> QED BY <1>0, <2>1, <2>2, <3>1, CopiesOpen
  <2>3. CASE BackOff /\ UNCHANGED <<content, task>>
    <3>1. live'.file = live.file
      BY <1>0, <2>3 DEF BackOff, TypeOK
    <3> QED BY <1>0, <2>1, <2>3, <3>1, CopiesKept
  <2> QED BY <1>3, <2>2, <2>3 DEF Recreate
<1>4. CASE Write
  <2>1. UNCHANGED <<gz, tmp, rolled, task>> /\ live'.file = live.file
    BY <1>0, <1>4 DEF Write, background, history, TypeOK
  <2>2. content \in Seq(Lines)
    BY <1>0 DEF TypeOK
  <2>3. \A f \in Files : f # live.file => content'[f] = content[f]
    <3>1. UNCHANGED content \/ \E form \in {"whole", "torn", "glued"} : Put(form)
      BY <1>4 DEF Write
    <3>2. DOMAIN content = Files
      BY <2>2, LenProperties DEF Files
    <3> QED BY <3>1, <3>2 DEF Put
  <2> QED BY <1>0, <2>1, <2>3, CopiesKept
<1>5. CASE Meddle
  <2>1. UNCHANGED <<gz, tmp, rolled, task, live>>
    BY <1>5 DEF Meddle, sink, background
  <2>2. \A f \in Files : content'[f] = content[f]
    BY <1>0, <1>5, FileAdded DEF Meddle
  <2> QED BY <1>0, <2>1, <2>2, CopiesKept
<1>6. CASE Restart
  <2>1. UNCHANGED <<gz, tmp, rolled>> /\ Open /\ \A t \in Tags : task'[t] = "none"
    BY <1>6 DEF Restart, history
  <2> QED BY <1>0, <2>1, CopiesOpen
<1>7. CASE UNCHANGED vars
  BY <1>0, <1>7, CopiesKept DEF vars, disk, sink, background, history
<1> QED BY <1>1, <1>2, <1>3, <1>4, <1>5, <1>6, <1>7, CopiesRename, CopiesTask DEF Next, Sink

-----------------------------------------------------------------------------
(* Archives go only if they were compressed or outnumbered.                *)

LEMMA KeptInit == Init => Kept
<1> SUFFICES ASSUME Init PROVE Kept
  OBVIOUS
<1>1. DOMAIN rolled = {} /\ \A t \in Tags : task[t] = "none" /\ doomed[t] = {}
  BY DEF Init
<1> QED BY <1>1 DEF Kept

LEMMA KeptSame ==
    ASSUME Kept, UNCHANGED <<plain, gz, rolled>>,
           \A t \in Tags : task'[t] = "unlink" => task[t] = "unlink",
           \A t \in Tags : doomed'[t] \subseteq doomed[t]
    PROVE  Kept'
<1>1. Archives' = Archives /\ \A t : Outnumbered(t)' <=> Outnumbered(t)
  BY DEF Archives, Outnumbered, Newer
<1>2. \A t \in DOMAIN rolled' : t \in Archives' \/ Outnumbered(t)'
  BY <1>1 DEF Kept
<1>3. \A t \in Tags : task'[t] = "unlink" => t \in DOMAIN gz' \/ Outnumbered(t)'
  BY <1>1 DEF Kept
<1>4. \A t \in Tags : \A f \in doomed'[t] : Outnumbered(f[1])'
  BY <1>1 DEF Kept
<1> QED BY <1>2, <1>3, <1>4 DEF Kept

\* A step that deletes safely: what was outnumbered still is, and whatever it
\* adds to the list of a task is.
LEMMA KeptSafely ==
    ASSUME Inv, TypeOK', Safely,
           \A t \in DOMAIN rolled' : t \in Archives' \/ Outnumbered(t)
                                     \/ (t \in DOMAIN rolled /\ t \notin Archives),
           \A t \in Tags : task'[t] = "unlink" =>
                \/ t \in DOMAIN gz' \/ Outnumbered(t)
                \/ (task[t] = "unlink" /\ t \notin DOMAIN gz),
           \A t \in Tags : doomed'[t] \subseteq doomed[t]
    PROVE  Kept'
<1>0. TypeOK /\ Kept
  BY DEF Inv
<1>1. \A t \in Tags : Outnumbered(t) => Outnumbered(t)'
  BY <1>0, StillOutnumbered
<1>2. \A t \in DOMAIN rolled' : t \in Archives' \/ Outnumbered(t)'
  <2>1. DOMAIN rolled' \subseteq Tags
    BY DEF TypeOK
  <2> QED BY <1>0, <1>1, <2>1 DEF Kept
<1>3. \A t \in Tags : task'[t] = "unlink" => t \in DOMAIN gz' \/ Outnumbered(t)'
  BY <1>0, <1>1 DEF Kept
<1>4. \A t \in Tags : \A f \in doomed'[t] : Outnumbered(f[1])'
  <2>1. \A t \in Tags : \A f \in doomed[t] : f[1] \in Tags
    BY <1>0 DEF TypeOK
  <2> QED BY <1>0, <1>1, <2>1 DEF Kept
<1> QED BY <1>2, <1>3, <1>4 DEF Kept

LEMMA KeptRename ==
    ASSUME Inv, Rename, TypeOK'
    PROVE  Kept'
<1>1. UNCHANGED <<gz, task, doomed>>
  BY DEF Rename, background
<1>2. CASE UNCHANGED <<plain, rolled>>
  BY <1>1, <1>2, KeptSame DEF Inv
<1>3. CASE plain' = With(plain, Rolls + 1, path) /\ rolled' = With(rolled, Rolls + 1, path)
  <2>1. Archives' = Archives \cup {Rolls + 1} /\ DOMAIN rolled' = DOMAIN rolled \cup {Rolls + 1}
    BY <1>1, <1>3 DEF Archives, With
  <2>2. \A t \in DOMAIN rolled' : t \in Archives' \/ Outnumbered(t)
    BY <2>1 DEF Inv, Kept
  <2>3. Safely
    BY <2>1 DEF Safely
  <2>4. \A t \in Tags : task'[t] = "unlink" => t \in DOMAIN gz' \/ Outnumbered(t)
    BY <1>1 DEF Inv, Kept
  <2> QED BY <1>1, <2>2, <2>3, <2>4, KeptSafely
<1> QED BY <1>2, <1>3 DEF Rename, Rolls

LEMMA KeptTask ==
    ASSUME Inv, NEW t \in Tags, Task(t), TypeOK'
    PROVE  Kept'
<1>0. TypeOK /\ Kept /\ UNCHANGED rolled
  BY DEF Inv, Task, Copy, Name, Unlink, List, Prune, history
<1>1. \A u \in Tags \ {t} : task'[u] = task[u]
  BY <1>0 DEF Task, Copy, Name, Unlink, List, Prune, Stage, TypeOK
<1>2. task' \in [Tags -> {"none", "copy", "name", "unlink", "list", "prune"}] /\ task \in [Tags -> {"none", "copy", "name", "unlink", "list", "prune"}]
  BY <1>0 DEF TypeOK
<1>3. CASE Copy(t)
  <2>1. task'[t] # "unlink"
    BY <1>2, <1>3 DEF Copy, Stage
  <2> QED BY <1>0, <1>1, <1>3, <2>1, KeptSame DEF Copy
<1>4. CASE Name(t)
  <2>1. CASE UNCHANGED gz /\ Stage(t, "list")
    <3>1. task'[t] # "unlink"
      BY <1>2, <2>1 DEF Stage
    <3> QED BY <1>0, <1>1, <1>4, <2>1, <3>1, KeptSame DEF Name
  <2>2. CASE gz' = With(gz, t, tmp[t])
    <3>1. DOMAIN gz' = DOMAIN gz \cup {t} /\ Archives' = Archives \cup {t}
      BY <1>4, <2>2 DEF Name, Archives, With
    <3>2. \A u \in DOMAIN rolled' : u \in Archives' \/ Outnumbered(u)
      BY <1>0, <3>1 DEF Kept
    <3>3. \A u \in Tags : task'[u] = "unlink" => u \in DOMAIN gz' \/ Outnumbered(u)
      BY <1>0, <1>1, <3>1 DEF Kept
    <3>4. Safely /\ UNCHANGED doomed
      BY <1>4, <3>1 DEF Safely, Name
    <3> QED BY <3>2, <3>3, <3>4, KeptSafely
  <2> QED BY <1>4, <2>1, <2>2 DEF Name
<1>5. CASE Unlink(t)
  <2>1. task'[t] # "unlink" /\ task[t] = "unlink"
    BY <1>2, <1>5 DEF Unlink, Stage
  <2>2. CASE UNCHANGED plain
    BY <1>0, <1>1, <1>5, <2>1, <2>2, KeptSame DEF Unlink
  <2>3. CASE plain' = Without(plain, t)
    <3>1. Archives' = Archives \/ (Archives' = Archives \ {t} /\ t \notin DOMAIN gz)
      BY <1>5, <2>3 DEF Unlink, Archives, Without, Restrict
    <3>2. t \in DOMAIN gz \/ Outnumbered(t)
      BY <1>0, <2>1 DEF Kept
    <3>3. Safely
      BY <3>1, <3>2 DEF Safely
    <3>4. \A u \in DOMAIN rolled' : u \in Archives' \/ Outnumbered(u)
      BY <1>0, <3>1, <3>2 DEF Kept
    <3>5. \A u \in Tags : task'[u] = "unlink" => u \in DOMAIN gz' \/ Outnumbered(u)
      BY <1>0, <1>1, <1>5, <2>1 DEF Kept, Unlink
    <3> QED BY <1>5, <3>3, <3>4, <3>5, KeptSafely DEF Unlink
  <2> QED BY <1>5, <2>2, <2>3 DEF Unlink
<1>6. CASE List(t)
  <2>1. Archives' = Archives /\ \A u : Outnumbered(u)' <=> Outnumbered(u)
    BY <1>6 DEF List, disk, Archives, Outnumbered, Newer
  <2>2. \A f \in doomed'[t] : Outnumbered(f[1])
    BY <1>0, <1>6 DEF List, Outnumbered, TypeOK
  <2>3. \A u \in Tags \ {t} : doomed'[u] = doomed[u]
    BY <1>0, <1>6 DEF List, TypeOK
  <2>4. \A u \in Tags : \A f \in doomed'[u] : Outnumbered(f[1])'
    BY <1>0, <2>1, <2>2, <2>3 DEF Kept
  <2>5. \A u \in Tags : task'[u] = "unlink" => u \in DOMAIN gz' \/ Outnumbered(u)'
    <3>1. task'[t] # "unlink" /\ UNCHANGED gz
      BY <1>2, <1>6 DEF List, Stage, disk
    <3> QED BY <1>0, <1>1, <2>1, <3>1 DEF Kept
  <2>6. \A u \in DOMAIN rolled' : u \in Archives' \/ Outnumbered(u)'
    BY <1>0, <2>1 DEF Kept
  <2> QED BY <2>4, <2>5, <2>6 DEF Kept
<1>7. CASE Prune(t)
  <2>1. CASE UNCHANGED <<plain, gz, doomed>> /\ Stage(t, "none")
    <3>1. task'[t] # "unlink"
      BY <1>2, <2>1 DEF Stage
    <3> QED BY <1>0, <1>1, <2>1, <3>1, KeptSame
  <2>2. ASSUME NEW f \in doomed[t], UNCHANGED task,
               doomed' = [doomed EXCEPT ![t] = @ \ {f}],
               plain' = (IF f[2] = "plain" THEN Without(plain, f[1]) ELSE plain),
               gz' = (IF f[2] = "gz" THEN Without(gz, f[1]) ELSE gz)
        PROVE  Kept'
    <3>1. f[1] \in Tags /\ Outnumbered(f[1])
      BY <1>0 DEF TypeOK, Kept
    <3>2. Archives' = Archives \/ Archives' = Archives \ {f[1]}
      BY <2>2 DEF Archives, Without, Restrict
    <3>3. Safely
      BY <3>1, <3>2 DEF Safely
    <3>4. \A u \in DOMAIN rolled' : u \in Archives' \/ Outnumbered(u)
      BY <1>0, <3>1, <3>2 DEF Kept
    <3>5. \A u \in Tags : task'[u] = "unlink" => u \in DOMAIN gz' \/ Outnumbered(u)
      BY <1>0, <2>2, <3>1 DEF Kept, Without, Restrict
    <3>6. \A u \in Tags : doomed'[u] \subseteq doomed[u]
      BY <1>0, <2>2 DEF TypeOK
    <3> QED BY <3>3, <3>4, <3>5, <3>6, KeptSafely
  <2> QED BY <1>7, <2>1, <2>2 DEF Prune
<1> QED BY <1>3, <1>4, <1>5, <1>6, <1>7 DEF Task

LEMMA KeptNext == Inv /\ [Next]_vars => Kept'
<1> SUFFICES ASSUME Inv, [Next]_vars PROVE Kept'
  OBVIOUS
<1>0. Kept /\ TypeOK /\ TypeOK'
  BY RotationTypeNext DEF Inv
<1>1. CASE Emit \/ FollowPath \/ Reopen \/ Write \/ RetryDue \/ Meddle \/ UNCHANGED vars
  <2>1. UNCHANGED <<plain, gz, rolled, task, doomed>>
    BY <1>1 DEF Emit, FollowPath, Reopen, Write, RetryDue, Meddle, vars, disk, background, history
  <2> QED BY <1>0, <2>1, KeptSame
<1>2. CASE Recreate
  <2>1. UNCHANGED <<plain, gz, rolled, doomed>>
    BY <1>2 DEF Recreate
  <2>2. \A t \in Tags : task'[t] = task[t] \/ task'[t] \in {"copy", "list"}
    BY <1>0, <1>2 DEF Recreate, TypeOK
  <2> QED BY <1>0, <2>1, <2>2, KeptSame
<1>3. CASE Restart
  BY <1>0, <1>3, KeptSame DEF Restart, history
<1> QED BY <1>0, <1>1, <1>2, <1>3, KeptRename, KeptTask DEF Next, Sink

-----------------------------------------------------------------------------
LEMMA InvNext == Inv /\ [Next]_vars => Inv'
BY RotationTypeNext, CountedNext, NamesNext, CopiesNext, KeptNext DEF Inv

LEMMA RotationInvariant == Spec => []Inv
<1>1. Init => Inv
  BY RotationTypeInit, CountedInit, NamesInit, CopiesInit, KeptInit DEF Inv
<1> QED BY <1>1, InvNext, PTL DEF Spec

\* Files, archives and tasks keep their types, for any limits, failures,
\* interventions and restarts (JsonLinesSink).
THEOREM RotationTypeCorrect == Spec => []TypeOK
<1>1. Inv => TypeOK
  BY DEF Inv
<1> QED BY <1>1, RotationInvariant, PTL

\* No entry is lost by rolling, compressing or pruning, however many tasks run
\* at a time, whatever fails and whenever the process is killed (Rotation,
\* gzip_in_place, prune_archives).
THEOREM NothingIsLost == Spec => []NothingLost
<1>1. Inv => NothingLost
  <2> SUFFICES ASSUME Inv, NEW f \in Files, f # path, f \notin taken
               PROVE  \E t \in DOMAIN rolled :
                        /\ rolled[t] = f
                        /\ \/ t \in DOMAIN plain
                           \/ t \in DOMAIN gz /\ gz[t] = content[f]
                           \/ Outnumbered(t)
    BY DEF NothingLost
  <2>1. PICK t \in DOMAIN rolled : rolled[t] = f
    BY DEF Inv, Names
  <2>2. t \in DOMAIN gz => gz[t] = content[f]
    BY <2>1 DEF Inv, Copies
  <2>3. t \in DOMAIN plain \/ t \in DOMAIN gz \/ Outnumbered(t)
    BY DEF Inv, Kept, Archives
  <2> QED BY <2>1, <2>2, <2>3
<1> QED BY <1>1, RotationInvariant, PTL

-----------------------------------------------------------------------------
(* Lines go to the file at the path.                                       *)

Following == at \in {"ready", "write"} => live.file = path \/ disturbed

LEMMA FollowingNext == Inv /\ Following /\ [Next]_vars => Following'
<1> SUFFICES ASSUME Inv, Following, [Next]_vars PROVE Following'
  OBVIOUS
<1>0. TypeOK
  BY DEF Inv
<1> USE DEF Following
<1>1. CASE Emit \/ Restart
  BY <1>1 DEF Emit, Restart
<1>2. CASE FollowPath
  BY <1>2 DEF FollowPath, disk
<1>3. CASE Reopen \/ Recreate
  <2>1. live'.file = path' \/ disturbed'
    BY <1>0, <1>3, OpenIs DEF Reopen, Recreate
  <2> QED BY <2>1
<1>4. CASE Rename
  <2>1. live'.file = live.file
    BY <1>0, <1>4 DEF Rename, BackOff, TypeOK
  <2> QED BY <1>4, <2>1 DEF Rename, BackOff
<1>5. CASE Write
  BY <1>5 DEF Write
<1>6. CASE RetryDue
  <2>1. live'.file = live.file
    BY <1>0, <1>6 DEF RetryDue, TypeOK
  <2> QED BY <1>6, <2>1 DEF RetryDue, disk, history
<1>7. CASE Meddle
  BY <1>7 DEF Meddle
<1>8. ASSUME NEW t \in Tags, Task(t) PROVE Following'
  <2>1. UNCHANGED <<path, live, at, disturbed>>
    BY <1>8 DEF Task, Copy, Name, Unlink, List, Prune, disk, sink, history
  <2> QED BY <2>1
<1>9. CASE UNCHANGED vars
  BY <1>9 DEF vars, disk, sink, history
<1> QED BY <1>1, <1>2, <1>3, <1>4, <1>5, <1>6, <1>7, <1>8, <1>9 DEF Next, Sink

\* Lines are added to the live file, by Write.
LEMMA OnlyWriteWrites ==
    ASSUME Inv, Next, NEW f \in Written
    PROVE  Write /\ f = live.file
<1>0. TypeOK /\ f \in Files /\ content'[f] # content[f]
  BY DEF Inv, Written
<1>1. Write
  <2>1. Open => content'[f] = content[f]
    BY <1>0, OpenIs
  <2>2. Meddle => content'[f] = content[f]
    BY <1>0, FileAdded DEF Meddle
  <2>3. \A t \in Tags : Task(t) => UNCHANGED content
    BY DEF Task, Copy, Name, Unlink, List, Prune, disk
  <2>4. Emit \/ FollowPath \/ Rename \/ RetryDue => UNCHANGED content
    BY DEF Emit, FollowPath, Rename, RetryDue, disk
  <2>5. Reopen \/ Recreate \/ Restart => Open \/ UNCHANGED content
    BY DEF Reopen, Recreate, Restart
  <2> QED BY <1>0, <2>1, <2>2, <2>3, <2>4, <2>5 DEF Next, Sink
<1>2. f = live.file
  <2>1. DOMAIN content = Files
    BY <1>0, LenProperties DEF TypeOK, Files
  <2>2. UNCHANGED content \/ \E form \in {"whole", "torn", "glued"} : Put(form)
    BY <1>1 DEF Write
  <2> QED BY <1>0, <2>1, <2>2 DEF Put
<1> QED BY <1>1, <1>2

\* A line is only ever added to another file than the one at the path if the
\* operator or a failure came between in its emit (follow_path).
THEOREM LinesFollowPath == Spec => WritesFollowPath
<1>1. Init => Following
  BY DEF Init, Following
<1>2. Inv /\ Following /\ [Next]_vars => [\A f \in Written : f = path \/ disturbed]_vars
  <2> SUFFICES ASSUME Inv, Following, Next, NEW f \in Written PROVE f = path \/ disturbed
    OBVIOUS
  <2>1. Write /\ f = live.file
    BY OnlyWriteWrites
  <2>2. at \in {"ready", "write"}
    BY <2>1 DEF Write
  <2> QED BY <2>1, <2>2 DEF Following
<1> QED BY <1>1, <1>2, FollowingNext, RotationInvariant, PTL DEF Spec, WritesFollowPath

-----------------------------------------------------------------------------
(* The live file is rolled in time.                                        *)

CountedAt(lines) == {i \in DOMAIN lines : lines[i].form # "torn"}

LEMMA CountedIs ==
    ASSUME NEW s \in Lines
    PROVE  /\ Counted(s) = Cardinality(CountedAt(s)) /\ IsFiniteSet(CountedAt(s))
           /\ Counted(s) \in Nat /\ Counted(s) <= Len(s)
<1>1. Len(s) \in Nat /\ DOMAIN s = 1..Len(s)
  BY LenProperties DEF Lines
<1>2. IsFiniteSet(1..Len(s)) /\ Cardinality(1..Len(s)) = Len(s)
  BY <1>1, FS_Interval, RollCount
<1>3. CountedAt(s) \subseteq 1..Len(s)
  BY <1>1 DEF CountedAt
<1>4. IsFiniteSet(CountedAt(s)) /\ Cardinality(CountedAt(s)) <= Len(s)
  BY <1>2, <1>3, FS_Subset
<1>5. Cardinality(CountedAt(s)) \in Nat
  BY <1>4, FS_CardinalityType
<1> QED BY <1>4, <1>5 DEF Counted, CountedAt

\* A line adds one, a torn one nothing.
LEMMA CountedAppend ==
    ASSUME NEW s \in Lines, NEW x \in Line
    PROVE  /\ Append(s, x) \in Lines
           /\ Counted(Append(s, x)) <= Counted(s) + 1
           /\ x.form = "torn" => Counted(Append(s, x)) = Counted(s)
<1> DEFINE r == Append(s, x)
           n == Len(s) + 1
<1>1. s \in Seq(Line)
  BY DEF Lines
<1>2. r \in Lines /\ Len(r) = n /\ (\A i \in 1..Len(s) : r[i] = s[i]) /\ r[n] = x
  BY <1>1, AppendProperties DEF Lines
<1>3. Len(s) \in Nat /\ DOMAIN s = 1..Len(s) /\ DOMAIN r = 1..n
  BY <1>1, <1>2, LenProperties DEF Lines
<1>4. 1..n = 1..Len(s) \cup {n} /\ n \notin 1..Len(s)
  BY <1>3
<1> HIDE DEF r, n
<1>5. CountedAt(r) = IF x.form = "torn" THEN CountedAt(s) ELSE CountedAt(s) \cup {n}
  BY <1>2, <1>3, <1>4 DEF CountedAt
<1>6. Cardinality(CountedAt(s) \cup {n}) <= Cardinality(CountedAt(s)) + 1
  <2>1. IsFiniteSet(CountedAt(s)) /\ Cardinality(CountedAt(s)) \in Nat
    BY CountedIs
  <2>2. Cardinality(CountedAt(s) \cup {n})
            = IF n \in CountedAt(s) THEN Cardinality(CountedAt(s)) ELSE Cardinality(CountedAt(s)) + 1
    BY <2>1, FS_AddElement
  <2> QED BY <2>1, <2>2
<1>7. /\ Counted(r) = Cardinality(CountedAt(r)) /\ Counted(s) = Cardinality(CountedAt(s))
      /\ Counted(s) \in Nat
  BY <1>2, CountedIs
<1>8. Counted(r) <= Counted(s) + 1 /\ (x.form = "torn" => Counted(r) = Counted(s))
  BY <1>5, <1>6, <1>7
<1> QED BY <1>2, <1>8 DEF r

\* The size is no less than the lines of the live file that count; there is room
\* for one more when a line is due, unless a roll of it failed.
Sized ==
    /\ Counted(content[live.file]) <= live.size
    /\ live.waiting => live.failed > 0
    /\ at \in {"renamed", "vanished"} => path = NoFile
    /\ at = "write" /\ MaxLines > 0 => live.failed > 0 \/ live.size = 0

LEMMA LiveTyped ==
    ASSUME TypeOK
    PROVE  live.file \in Files /\ live.size \in Nat /\ live.failed \in Nat /\ content[live.file] \in Lines
<1>1. live.file \in Files /\ live.size \in Nat /\ live.failed \in Nat
  BY DEF TypeOK
<1> QED BY <1>1, FilesTyped

LEMMA FilesTypedNext ==
    ASSUME TypeOK'
    PROVE  content'[live'.file] \in Lines
<1>1. content' \in Seq(Lines) /\ live'.file \in 1..Len(content')
  BY DEF TypeOK, Files
<1> QED BY <1>1, ElementOfSeq

LEMMA OpenSized ==
    ASSUME TypeOK, Open
    PROVE  /\ Counted(content'[live'.file]) <= live'.size /\ ~live'.waiting
           /\ path = NoFile => live'.size = 0
<1>1. /\ content' \in Seq(Lines) /\ Files' = Files \cup {path'} /\ live'.file = path'
  BY OpenIs
<1>2. content'[path'] \in Lines
  <2>1. path' \in 1..Len(content')
    BY <1>1 DEF Files
  <2> QED BY <1>1, <2>1, ElementOfSeq
<1>3. live'.size = Len(content'[path']) /\ ~live'.waiting
  BY DEF Open, Opened
<1>4. path = NoFile => content'[path'] = <<>>
  BY FileAdded DEF Open
<1> QED BY <1>1, <1>2, <1>3, <1>4, CountedIs

LEMMA BackOffSized ==
    ASSUME TypeOK, Sized, BackOff, UNCHANGED content
    PROVE  Counted(content'[live'.file]) <= live'.size /\ live'.failed > 0 /\ at' = "write"
<1>1. /\ live'.file = live.file /\ live'.size = live.size /\ live'.failed = live.failed + 1
      /\ at' = "write"
  BY DEF BackOff, TypeOK
<1> QED BY <1>1, LiveTyped DEF Sized

\* After the write: what counts in the live file, and what the sink counts.
LEMMA WriteSized ==
    ASSUME Inv, Sized, Write
    PROVE  /\ live'.file = live.file /\ Counted(content'[live.file]) <= live'.size
           /\ Counted(content'[live.file]) <= Counted(content[live.file]) + 1
           /\ live'.waiting = live.waiting /\ live'.failed = live.failed
<1>0. TypeOK /\ live.file \in Files /\ live.size \in Nat /\ content[live.file] \in Lines
  BY LiveTyped DEF Inv
<1>c. Counted(content[live.file]) \in Nat /\ Counted(content[live.file]) <= live.size
  BY <1>0, CountedIs DEF Sized
<1>1. ASSUME NEW form \in {"whole", "torn", "glued"}, Put(form)
      PROVE  /\ Counted(content'[live.file]) <= Counted(content[live.file]) + 1
             /\ form = "torn" => Counted(content'[live.file]) = Counted(content[live.file])
  <2> DEFINE x == [entry |-> entry, form |-> form]
  <2>1. x \in Line
    <3>1. entry \in Tags
      BY <1>0, LogRotationConstants DEF Write, Inv, RollsCounted, TypeOK, Tags
    <3> QED BY <3>1 DEF Line
  <2>2. DOMAIN content = Files
    BY <1>0, LenProperties DEF TypeOK, Files
  <2>3. content'[live.file] = Append(content[live.file], x)
    BY <1>0, <1>1, <2>2 DEF Put
  <2>4. x.form = form
    OBVIOUS
  <2> HIDE DEF x
  <2> QED BY <1>0, <2>1, <2>3, <2>4, CountedAppend
<1>2. CASE UNCHANGED <<content, live>>
  BY <1>c, <1>2
<1>3. CASE Put("torn") /\ UNCHANGED live
  BY <1>1, <1>c, <1>3
<1>4. CASE Put(IF EndsTorn(live.file) THEN "glued" ELSE "whole") /\ live' = [live EXCEPT !.size = @ + 1]
  <2>1. live'.size = live.size + 1 /\ live'.file = live.file
        /\ live'.waiting = live.waiting /\ live'.failed = live.failed
    BY <1>0, <1>4 DEF TypeOK
  <2>2. Counted(content'[live.file]) <= Counted(content[live.file]) + 1
    BY <1>1, <1>4
  <2>3. content'[live.file] \in Lines
    <3>1. TypeOK' /\ UNCHANGED live.file
      BY SinkSteps, <2>1 DEF Sink
    <3> QED BY <3>1, FilesTypedNext
  <2>4. Counted(content'[live.file]) \in Nat
    BY <2>3, CountedIs
  <2> QED BY <1>0, <1>c, <2>1, <2>2, <2>4
<1> QED BY <1>2, <1>3, <1>4 DEF Write

LEMMA SizedInit == Init => Sized
<1> SUFFICES ASSUME Init PROVE Sized
  OBVIOUS
<1>1. /\ live.file = 1 /\ live.size = 0 /\ ~live.waiting /\ at = "idle"
      /\ content[live.file] = <<>>
  BY DEF Init, Opened
<1>2. Counted(<<>>) <= 0
  <2>1. <<>> \in Lines /\ Len(<<>>) = 0
    BY DEF Lines
  <2> QED BY <2>1, CountedIs
<1> QED BY <1>1, <1>2 DEF Sized

\* The live file is the same and has the same lines.
LEMMA SizedSame ==
    ASSUME Sized, content'[live.file] = content[live.file], UNCHANGED live,
           at' \in {"renamed", "vanished"} => path' = NoFile,
           at' = "write" => at = "write"
    PROVE  Sized'
BY DEF Sized

LEMMA SizedNext == Inv /\ Sized /\ [Next]_vars => Sized'
<1> SUFFICES ASSUME Inv, Sized, [Next]_vars PROVE Sized'
  OBVIOUS
<1>0. TypeOK /\ live.file \in Files
  BY LiveTyped DEF Inv
<1>1. CASE Emit \/ FollowPath
  <2>1. UNCHANGED <<content, live>> /\ at' \in {"stat", "ready", "reopen"}
    BY <1>1 DEF Emit, FollowPath, disk
  <2> QED BY <2>1, SizedSame
<1>2. CASE Reopen
  <2>1. at' = "ready"
    BY <1>2 DEF Reopen
  <2>2. CASE Open
    BY <1>0, <2>1, <2>2, OpenSized DEF Sized
  <2>3. CASE UNCHANGED <<content, live>>
    BY <2>1, <2>3, SizedSame
  <2> QED BY <1>2, <2>2, <2>3 DEF Reopen
<1>3. CASE Rename
  <2>1. UNCHANGED content
    BY <1>3 DEF Rename
  <2>2. CASE UNCHANGED live /\ at' \in {"renamed", "vanished"} /\ path' = NoFile
    BY <2>1, <2>2, SizedSame
  <2>3. CASE BackOff
    BY <1>0, <2>1, <2>3, BackOffSized DEF Sized
  <2> QED BY <1>3, <2>2, <2>3 DEF Rename
<1>4. CASE Recreate
  <2>1. CASE Open /\ at' = "write"
    <3>1. path = NoFile
      BY <1>4 DEF Recreate, Sized
    <3> QED BY <1>0, <2>1, <3>1, OpenSized DEF Sized
  <2>2. CASE BackOff /\ UNCHANGED content
    BY <1>0, <2>2, BackOffSized DEF Sized
  <2> QED BY <1>4, <2>1, <2>2 DEF Recreate
<1>5. CASE Write
  <2>1. at' = "idle"
    BY <1>5 DEF Write
  <2> QED BY <1>5, <2>1, WriteSized DEF Sized
<1>6. CASE RetryDue
  <2>1. /\ live'.file = live.file /\ live'.size = live.size /\ live'.failed = live.failed
        /\ ~live'.waiting
    BY <1>0, <1>6 DEF RetryDue, TypeOK
  <2> QED BY <1>6, <2>1 DEF RetryDue, disk, Sized
<1>7. CASE Meddle
  <2>1. content'[live.file] = content[live.file]
    BY <1>0, <1>7, FileAdded DEF Meddle
  <2>2. UNCHANGED <<live, at>> /\ path # NoFile
    BY <1>7 DEF Meddle, sink
  <2>3. at \notin {"renamed", "vanished"}
    BY <2>2 DEF Sized
  <2> QED BY <2>1, <2>2, <2>3, SizedSame
<1>8. CASE Restart
  BY <1>0, <1>8, OpenSized DEF Restart, Sized
<1>9. ASSUME NEW t \in Tags, Task(t) PROVE Sized'
  <2>1. UNCHANGED <<content, path, live, at>>
    BY <1>9 DEF Task, Copy, Name, Unlink, List, Prune, disk, sink
  <2> QED BY <2>1, SizedSame DEF Sized
<1>10. CASE UNCHANGED vars
  BY <1>10, SizedSame DEF vars, disk, sink, Sized
<1> QED BY <1>1, <1>2, <1>3, <1>4, <1>5, <1>6, <1>7, <1>8, <1>9, <1>10 DEF Next, Sink

\* No file grows past the limit unless a roll of it failed, also if it was there
\* before the process or was moved and replaced (LiveFile::size, must_roll).
THEOREM LiveFileIsRolledInTime == Spec => RollsInTime
<1>1. Inv /\ Sized /\ [Next]_vars =>
        [\A f \in Written : MaxLines > 0 /\ Counted(content'[f]) > MaxLines => live.failed > 0]_vars
  <2> SUFFICES ASSUME Inv, Sized, Next, NEW f \in Written, MaxLines > 0,
                      Counted(content'[f]) > MaxLines
               PROVE  live.failed > 0
    OBVIOUS
  <2>1. Write /\ f = live.file
    BY OnlyWriteWrites
  <2>2. /\ live.size \in Nat /\ MaxLines \in Nat /\ content[live.file] \in Lines
        /\ Counted(content[live.file]) <= live.size
    BY LiveTyped, LogRotationConstants DEF Inv, Sized
  <2>3. Counted(content[live.file]) \in Nat
    BY <2>2, CountedIs
  <2>4. Counted(content'[f]) <= Counted(content[live.file]) + 1
    BY <2>1, WriteSized
  <2>5. Counted(content'[f]) \in Nat
    <3>1. TypeOK'
      BY <2>1, SinkSteps DEF Sink
    <3>2. live'.file = f
      BY <2>1, WriteSized
    <3> QED BY <3>1, <3>2, FilesTypedNext, CountedIs
  <2>6. live.size + 1 > MaxLines /\ live.size > 0
    BY <2>2, <2>3, <2>4, <2>5
  <2>7. CASE at = "write"
    BY <2>6, <2>7 DEF Sized
  <2>8. CASE at = "ready" /\ ~MustRoll
    BY <2>6, <2>8 DEF MustRoll, Sized
  <2> QED BY <2>1, <2>7, <2>8 DEF Write
<1> QED BY <1>1, SizedInit, SizedNext, RotationInvariant, PTL DEF Spec, RollsInTime

-----------------------------------------------------------------------------
(* What a read takes from a file.                                          *)

\* How many whole lines follow line i, with it.
Later(s, i) == {j \in Whole(s) : j >= i}
Rank(s, i) == Cardinality(Later(s, i))

LEMMA WholeTyped ==
    ASSUME NEW s \in Lines
    PROVE  /\ Whole(s) \subseteq Nat /\ IsFiniteSet(Whole(s)) /\ Cardinality(Whole(s)) \in Nat
           /\ \A i \in Whole(s) : s[i] \in Line /\ s[i].entry \in Tags
           /\ EntriesIn(s) \subseteq Tags
<1>1. Len(s) \in Nat /\ DOMAIN s = 1..Len(s) /\ s \in Seq(Line)
  BY LenProperties DEF Lines
<1>2. Whole(s) \subseteq 1..Len(s)
  BY <1>1 DEF Whole
<1>3. IsFiniteSet(Whole(s))
  <2>1. IsFiniteSet(1..Len(s))
    BY <1>1, FS_Interval
  <2> QED BY <1>2, <2>1, FS_Subset
<1>4. Cardinality(Whole(s)) \in Nat
  BY <1>3, FS_CardinalityType
<1>5. \A i \in Whole(s) : s[i] \in Line /\ s[i].entry \in Tags
  <2>1. \A i \in 1..Len(s) : s[i] \in Line
    BY <1>1, ElementOfSeq
  <2> QED BY <1>2, <2>1 DEF Line
<1>6. EntriesIn(s) \subseteq Tags
  BY <1>5 DEF EntriesIn
<1>7. Whole(s) \subseteq Nat
  BY <1>1, <1>2
<1> QED BY <1>3, <1>4, <1>5, <1>6, <1>7

\* A later line has a lower rank.
LEMMA RanksFall ==
    ASSUME NEW s \in Lines, NEW i \in Whole(s)
    PROVE  /\ Rank(s, i) \in 1..Cardinality(Whole(s))
           /\ \A j \in Whole(s) : i < j => Rank(s, j) < Rank(s, i)
<1>1. Whole(s) \subseteq Nat /\ IsFiniteSet(Whole(s)) /\ Cardinality(Whole(s)) \in Nat
  BY WholeTyped
<1>2. \A j \in Whole(s) : IsFiniteSet(Later(s, j)) /\ Rank(s, j) \in Nat
  <2> SUFFICES ASSUME NEW j \in Whole(s) PROVE IsFiniteSet(Later(s, j)) /\ Rank(s, j) \in Nat
    OBVIOUS
  <2>1. Later(s, j) \subseteq Whole(s)
    BY DEF Later
  <2>2. IsFiniteSet(Later(s, j))
    BY <1>1, <2>1, FS_Subset
  <2> QED BY <2>2, FS_CardinalityType DEF Rank
<1>3. Rank(s, i) <= Cardinality(Whole(s))
  BY <1>1, FS_Subset DEF Rank, Later
<1>4. \A S \in SUBSET (Later(s, i) \ {i}) : Cardinality(S) \in Nat /\ Cardinality(S) < Rank(s, i)
  <2> SUFFICES ASSUME NEW S \in SUBSET (Later(s, i) \ {i})
               PROVE  Cardinality(S) \in Nat /\ Cardinality(S) < Rank(s, i)
    OBVIOUS
  <2>1. i \in Later(s, i) /\ IsFiniteSet(Later(s, i)) /\ Rank(s, i) \in Nat
    BY <1>1, <1>2 DEF Later
  <2>2. IsFiniteSet(Later(s, i) \ {i}) /\ Cardinality(Later(s, i) \ {i}) = Rank(s, i) - 1
    BY <2>1, FS_RemoveElement DEF Rank
  <2>3. IsFiniteSet(S) /\ Cardinality(S) <= Cardinality(Later(s, i) \ {i})
    BY <2>2, FS_Subset
  <2>4. Cardinality(S) \in Nat
    BY <2>3, FS_CardinalityType
  <2> QED BY <2>1, <2>2, <2>3, <2>4
<1>5. Rank(s, i) >= 1
  <2>1. {} \in SUBSET (Later(s, i) \ {i})
    OBVIOUS
  <2>2. Cardinality({}) < Rank(s, i) /\ Cardinality({}) \in Nat
    BY <1>4, <2>1
  <2> QED BY <1>2, <2>2
<1>6. ASSUME NEW j \in Whole(s), i < j PROVE Rank(s, j) < Rank(s, i)
  <2>1. Later(s, j) \in SUBSET (Later(s, i) \ {i})
    BY <1>1, <1>6 DEF Later
  <2> QED BY <1>4, <2>1 DEF Rank
<1>7. Rank(s, i) \in Nat
  BY <1>2
<1> QED BY <1>1, <1>3, <1>5, <1>6, <1>7

LEMMA RanksFill ==
    ASSUME NEW s \in Lines, NEW k \in 1..Cardinality(Whole(s))
    PROVE  \E i \in Whole(s) : Rank(s, i) = k
<1> DEFINE W == Whole(s)
           n == Cardinality(W)
           f == [i \in W |-> Rank(s, i)]
<1>1. W \subseteq Nat /\ IsFiniteSet(W) /\ n \in Nat
  BY WholeTyped
<1>2. IsFiniteSet(1..n) /\ Cardinality(1..n) = n
  BY <1>1, FS_Interval, RollCount
<1>3. f \in [W -> 1..n]
  BY RanksFall
<1>4. \A i, j \in W : f[i] = f[j] => i = j
  <2> SUFFICES ASSUME NEW i \in W, NEW j \in W, i # j PROVE f[i] # f[j]
    OBVIOUS
  <2>1. i \in Nat /\ j \in Nat
    BY <1>1
  <2>2. f[i] \in Nat /\ f[j] \in Nat
    BY <1>3, <1>1
  <2>3. i < j => f[j] < f[i]
    BY RanksFall
  <2>4. j < i => f[i] < f[j]
    BY RanksFall
  <2> QED BY <2>1, <2>2, <2>3, <2>4
<1>5. f \in Injection(W, 1..n)
  <2> HIDE DEF f, W, n
  <2> QED BY <1>3, <1>4 DEF Injection, IsInjective
<1>6. f \in Surjection(W, 1..n)
  <2> HIDE DEF f, W
  <2> QED BY <1>1, <1>2, <1>5, FS_Injection
<1>7. \E i \in W : f[i] = k
  <2> HIDE DEF f
  <2> QED BY <1>6 DEF Surjection
<1> QED BY <1>7

\* The line that comes k-th in what take_from adds.
PlaceOf(s) == [k \in 1..Cardinality(Whole(s)) |-> CHOOSE i \in Whole(s) : Rank(s, i) = k]

\* All whole lines are taken, from the last to the first.
LEMMA TakenIs ==
    ASSUME NEW s \in Lines
    PROVE  LET T == TakenFrom(s)
               P == PlaceOf(s)
               n == Cardinality(Whole(s))
           IN  /\ T \in Seq(Tags) /\ Len(T) = n /\ n \in Nat
               /\ \A k \in 1..n : P[k] \in Whole(s) /\ T[k] = s[P[k]].entry
               /\ \A k, l \in 1..n : k < l => P[l] < P[k]
               /\ \A i \in Whole(s) : \E k \in 1..n : P[k] = i
<1> DEFINE T == TakenFrom(s)
           P == PlaceOf(s)
           n == Cardinality(Whole(s))
<1>1. n \in Nat /\ Whole(s) \subseteq Nat /\ \A i \in Whole(s) : s[i].entry \in Tags
  BY WholeTyped
<1>2. \A k \in 1..n : P[k] \in Whole(s) /\ Rank(s, P[k]) = k
  BY RanksFill DEF PlaceOf
<1>3. T = [k \in 1..n |-> s[P[k]].entry]
  BY DEF TakenFrom, PlaceOf, Rank, Later
<1> HIDE DEF P, T, n
<1>4. \A k \in 1..n : T[k] = s[P[k]].entry /\ T[k] \in Tags
  BY <1>1, <1>2, <1>3
<1>5. T \in Seq(Tags) /\ Len(T) = n
  BY <1>1, <1>3, <1>4
<1>6. ASSUME NEW k \in 1..n, NEW l \in 1..n, k < l PROVE P[l] < P[k]
  <2>1. P[k] \in Nat /\ P[l] \in Nat /\ k \in Nat /\ l \in Nat
    BY <1>1, <1>2
  <2>2. P[k] # P[l]
    BY <1>2, <1>6, <2>1
  <2>3. ~(P[k] < P[l])
    <3> SUFFICES ASSUME P[k] < P[l] PROVE FALSE
      OBVIOUS
    <3>1. Rank(s, P[l]) < Rank(s, P[k])
      BY <1>2, RanksFall
    <3> QED BY <1>2, <1>6, <2>1, <3>1
  <2> QED BY <2>1, <2>2, <2>3
<1>7. ASSUME NEW i \in Whole(s) PROVE \E k \in 1..n : P[k] = i
  <2> DEFINE k == Rank(s, i)
  <2>1. k \in 1..n
    BY RanksFall DEF n
  <2>2. P[k] \in Whole(s) /\ Rank(s, P[k]) = Rank(s, i)
    BY <1>2, <2>1
  <2>3. \A a, b \in Whole(s) : a < b => Rank(s, b) # Rank(s, a)
    <3> SUFFICES ASSUME NEW a \in Whole(s), NEW b \in Whole(s), a < b
                 PROVE  Rank(s, b) # Rank(s, a)
      OBVIOUS
    <3>1. Rank(s, b) < Rank(s, a) /\ Rank(s, a) \in 1..n /\ Rank(s, b) \in 1..n
      BY RanksFall DEF n
    <3> QED BY <1>1, <3>1
  <2>4. ~(P[k] < i) /\ ~(i < P[k])
    BY <2>2, <2>3
  <2>5. P[k] = i
    BY <1>1, <2>2, <2>4
  <2> QED BY <2>1, <2>5
<1> QED BY <1>1, <1>2, <1>4, <1>5, <1>6, <1>7 DEF P, T, n

\* The lines of a file are in the order of their entries.
Sorted(s) == \A i, j \in Whole(s) : i < j => s[i].entry < s[j].entry
Descending(x) == \A i, j \in DOMAIN x : i < j => x[i] > x[j]

LEMMA TakenAll ==
    ASSUME NEW s \in Lines
    PROVE  /\ TakenFrom(s) \in Seq(Tags) /\ Range(TakenFrom(s)) = EntriesIn(s)
           /\ Sorted(s) => Descending(TakenFrom(s))
<1> DEFINE T == TakenFrom(s)
           P == PlaceOf(s)
           n == Cardinality(Whole(s))
<1>1. /\ T \in Seq(Tags) /\ Len(T) = n /\ n \in Nat
      /\ \A k \in 1..n : P[k] \in Whole(s) /\ T[k] = s[P[k]].entry
      /\ \A k, l \in 1..n : k < l => P[l] < P[k]
      /\ \A i \in Whole(s) : \E k \in 1..n : P[k] = i
  BY TakenIs
<1> HIDE DEF T, P, n
<1>2. DOMAIN T = 1..n
  BY <1>1, LenProperties
<1>3. Range(T) \subseteq EntriesIn(s)
  BY <1>1, <1>2 DEF Range, EntriesIn
<1>4. EntriesIn(s) \subseteq Range(T)
  <2> SUFFICES ASSUME NEW i \in Whole(s) PROVE s[i].entry \in Range(T)
    BY DEF EntriesIn
  <2>1. PICK k \in 1..n : P[k] = i
    BY <1>1
  <2>2. T[k] = s[i].entry
    BY <1>1, <2>1
  <2> QED BY <1>2, <2>2 DEF Range
<1>5. ASSUME Sorted(s) PROVE Descending(T)
  <2> SUFFICES ASSUME NEW k \in 1..n, NEW l \in 1..n, k < l PROVE T[k] > T[l]
    BY <1>2 DEF Descending
  <2>1. P[l] < P[k] /\ P[k] \in Whole(s) /\ P[l] \in Whole(s)
    BY <1>1
  <2>2. s[P[l]].entry < s[P[k]].entry
    BY <1>5, <2>1 DEF Sorted
  <2>3. T[k] = s[P[k]].entry /\ T[l] = s[P[l]].entry
    BY <1>1
  <2>4. s[P[k]].entry \in Nat /\ s[P[l]].entry \in Nat
    BY <2>1, WholeTyped, LogRotationConstants DEF Tags
  <2> QED BY <2>2, <2>3, <2>4
<1> QED BY <1>1, <1>3, <1>4, <1>5 DEF T

LEMMA ConcatIs ==
    ASSUME NEW x \in Seq(Tags), NEW y \in Seq(Tags)
    PROVE  /\ x \o y \in Seq(Tags) /\ Range(x \o y) = Range(x) \cup Range(y)
           /\ Descending(x) /\ Descending(y) /\ (\A e \in Range(y), d \in Range(x) : e < d)
                 => Descending(x \o y)
<1> DEFINE z == x \o y
           n == Len(x)
           m == Len(y)
<1>1. /\ z \in Seq(Tags) /\ Len(z) = n + m
      /\ \A i \in 1..n + m : z[i] = IF i <= n THEN x[i] ELSE y[i - n]
  BY ConcatProperties
<1>2. /\ n \in Nat /\ m \in Nat
      /\ DOMAIN x = 1..n /\ DOMAIN y = 1..m /\ DOMAIN z = 1..(n + m)
  BY <1>1, LenProperties
<1>t. Tags \subseteq Nat /\ (\A i \in 1..n : x[i] \in Tags) /\ (\A i \in 1..m : y[i] \in Tags)
  <2>1. Tags \subseteq Nat
    BY LogRotationConstants DEF Tags
  <2>2. (\A i \in 1..n : x[i] \in Tags) /\ (\A i \in 1..m : y[i] \in Tags)
    BY ElementOfSeq
  <2> QED BY <2>1, <2>2
<1> HIDE DEF z, n, m
<1>3. Range(z) \subseteq Range(x) \cup Range(y)
  <2> SUFFICES ASSUME NEW i \in 1..(n + m) PROVE z[i] \in Range(x) \cup Range(y)
    BY <1>2 DEF Range
  <2>1. CASE i <= n
    <3>1. i \in 1..n /\ z[i] = x[i]
      BY <1>1, <1>2, <2>1
    <3> QED BY <1>2, <3>1 DEF Range
  <2>2. CASE ~(i <= n)
    <3>1. i - n \in 1..m /\ z[i] = y[i - n]
      BY <1>1, <1>2, <2>2
    <3> QED BY <1>2, <3>1 DEF Range
  <2> QED BY <2>1, <2>2
<1>4. Range(x) \subseteq Range(z)
  <2> SUFFICES ASSUME NEW i \in 1..n PROVE x[i] \in Range(z)
    BY <1>2 DEF Range
  <2>1. i \in 1..(n + m) /\ z[i] = x[i]
    BY <1>1, <1>2
  <2> QED BY <1>2, <2>1 DEF Range
<1>5. Range(y) \subseteq Range(z)
  <2> SUFFICES ASSUME NEW i \in 1..m PROVE y[i] \in Range(z)
    BY <1>2 DEF Range
  <2>1. i + n \in 1..(n + m) /\ ~(i + n <= n) /\ (i + n) - n = i
    BY <1>2
  <2>2. z[i + n] = y[i]
    BY <1>1, <2>1
  <2> QED BY <1>2, <2>1, <2>2 DEF Range
<1>6. ASSUME Descending(x), Descending(y), \A e \in Range(y), d \in Range(x) : e < d
      PROVE  Descending(z)
  <2> SUFFICES ASSUME NEW i \in 1..(n + m), NEW j \in 1..(n + m), i < j PROVE z[i] > z[j]
    BY <1>2 DEF Descending
  <2>1. CASE j <= n
    <3>1. i \in 1..n /\ j \in 1..n /\ z[i] = x[i] /\ z[j] = x[j]
      BY <1>1, <1>2, <2>1
    <3> QED BY <1>2, <1>6, <3>1 DEF Descending
  <2>2. CASE ~(j <= n) /\ i <= n
    <3>1. i \in 1..n /\ j - n \in 1..m /\ z[i] = x[i] /\ z[j] = y[j - n]
      BY <1>1, <1>2, <2>2
    <3>2. x[i] \in Range(x) /\ y[j - n] \in Range(y)
      BY <1>2, <3>1 DEF Range
    <3>3. y[j - n] < x[i] /\ x[i] \in Nat /\ y[j - n] \in Nat
      BY <1>6, <1>t, <3>1, <3>2
    <3> QED BY <3>1, <3>3
  <2>3. CASE ~(i <= n)
    <3>1. i - n \in 1..m /\ j - n \in 1..m /\ i - n < j - n
      BY <1>2, <2>3
    <3>2. z[i] = y[i - n] /\ z[j] = y[j - n]
      BY <1>1, <1>2, <2>3
    <3> QED BY <1>2, <1>6, <3>1, <3>2 DEF Descending
  <2> QED BY <2>1, <2>2, <2>3
<1> QED BY <1>1, <1>3, <1>4, <1>5, <1>6 DEF z

-----------------------------------------------------------------------------
(* What a step does to the entries of the files.                           *)

LEMMA EntriesAppended ==
    ASSUME NEW s \in Lines, NEW x \in Line
    PROVE  /\ EntriesIn(s) \subseteq EntriesIn(Append(s, x))
           /\ EntriesIn(Append(s, x)) \subseteq EntriesIn(s) \cup {x.entry}
           /\ Sorted(s) /\ (\A e \in EntriesIn(s) : e < x.entry) => Sorted(Append(s, x))
<1> DEFINE r == Append(s, x)
           n == Len(s) + 1
<1>1. s \in Seq(Line)
  BY DEF Lines
<1>2. r \in Lines /\ Len(r) = n /\ (\A i \in 1..Len(s) : r[i] = s[i]) /\ r[n] = x
  BY <1>1, AppendProperties DEF Lines
<1>3. Len(s) \in Nat /\ DOMAIN s = 1..Len(s) /\ DOMAIN r = 1..n
  BY <1>1, <1>2, LenProperties DEF Lines
<1>4. 1..n = 1..Len(s) \cup {n} /\ n \notin 1..Len(s) /\ \A i \in 1..Len(s) : i < n /\ ~(n < i)
  BY <1>3
<1> HIDE DEF r, n
<1>5. Whole(s) \subseteq Whole(r) /\ Whole(r) \subseteq Whole(s) \cup {n}
  BY <1>2, <1>3, <1>4 DEF Whole
<1>6. Whole(s) \subseteq 1..Len(s) /\ \A i \in Whole(s) : r[i].entry = s[i].entry
  BY <1>2, <1>3 DEF Whole
<1>7. EntriesIn(s) \subseteq EntriesIn(r)
  BY <1>5, <1>6 DEF EntriesIn
<1>8. EntriesIn(r) \subseteq EntriesIn(s) \cup {x.entry}
  BY <1>2, <1>5, <1>6 DEF EntriesIn
<1>9. ASSUME Sorted(s), \A e \in EntriesIn(s) : e < x.entry PROVE Sorted(r)
  <2> SUFFICES ASSUME NEW i \in Whole(r), NEW j \in Whole(r), i < j
               PROVE  r[i].entry < r[j].entry
    BY DEF Sorted
  <2>1. i \in Whole(s)
    <3>1. j # n => j \in 1..Len(s)
      BY <1>5, <1>6
    <3>2. i # n
      BY <1>3, <1>4, <3>1
    <3> QED BY <1>5, <3>2
  <2>2. CASE j \in Whole(s)
    BY <1>6, <1>9, <2>1, <2>2 DEF Sorted
  <2>3. CASE j = n
    <3>1. s[i].entry \in EntriesIn(s)
      BY <2>1 DEF EntriesIn
    <3> QED BY <1>2, <1>6, <1>9, <2>1, <2>3, <3>1
  <2> QED BY <1>5, <2>2, <2>3
<1> QED BY <1>7, <1>8, <1>9 DEF r

LEMMA NoEntries == EntriesIn(<<>>) = {} /\ Sorted(<<>>) /\ Descending(<<>>)
<1>1. DOMAIN <<>> = {}
  OBVIOUS
<1>2. Whole(<<>>) = {}
  BY <1>1 DEF Whole
<1> QED BY <1>1, <1>2 DEF EntriesIn, Sorted, Descending

\* The entry under way is put in the live file, last.
Puts(f) ==
    /\ f = live.file /\ at # "idle" /\ at' = "idle" /\ entry' = entry
    /\ \E x \in Line : x.entry = entry /\ content'[f] = Append(content[f], x)

LEMMA FilesGrow ==
    ASSUME Inv, [Next]_vars
    PROVE  /\ Files \subseteq Files' /\ \A f \in Files' \ Files : content'[f] = <<>>
           /\ \A f \in Files : content'[f] = content[f] \/ Puts(f)
<1>0. TypeOK
  BY DEF Inv
<1>1. CASE UNCHANGED content
  BY <1>1, SameFiles
<1>2. CASE Open
  <2>1. Files' = Files \cup {path'} /\ \A f \in Files : content'[f] = content[f]
    BY <1>0, <1>2, OpenIs
  <2>2. path = NoFile => content'[path'] = <<>>
    BY <1>0, <1>2, FileAdded DEF Open
  <2>3. path # NoFile => Files' = Files
    BY <1>2, SameFiles DEF Open
  <2> QED BY <2>1, <2>2, <2>3
<1>3. CASE Meddle
  BY <1>0, <1>1, <1>3, FileAdded DEF Meddle
<1>4. CASE Write
  <2>1. \A form : Put(form) => Files' = Files
    <3>1. Len(content) \in Nat /\ DOMAIN content = 1..Len(content)
      BY <1>0, LenProperties DEF TypeOK
    <3> SUFFICES ASSUME NEW form, Put(form) PROVE Files' = Files
      OBVIOUS
    <3>2. DOMAIN content' = DOMAIN content
      BY DEF Put
    <3>3. content' \in Seq(Lines)
      BY <1>4, SinkSteps DEF Sink, TypeOK
    <3>4. Len(content') \in Nat /\ DOMAIN content' = 1..Len(content')
      BY <3>3, LenProperties
    <3>5. Len(content') = Len(content)
      BY <3>1, <3>2, <3>4
    <3> QED BY <3>5 DEF Files
  <2>2. ASSUME NEW form \in {"whole", "torn", "glued"}, Put(form), NEW f \in Files
        PROVE  content'[f] = content[f] \/ Puts(f)
    <3> DEFINE x == [entry |-> entry, form |-> form]
    <3>1. x \in Line /\ x.entry = entry
      <4>1. entry \in Tags
        BY <1>0, <1>4, LogRotationConstants DEF Write, Inv, RollsCounted, TypeOK, Tags
      <4> QED BY <4>1 DEF Line
    <3>2. DOMAIN content = Files
      BY <1>0, LenProperties DEF TypeOK, Files
    <3>3. f = live.file => content'[f] = Append(content[f], x)
      BY <2>2, <3>2 DEF Put
    <3>4. f # live.file => content'[f] = content[f]
      BY <2>2, <3>2 DEF Put
    <3>5. at # "idle" /\ at' = "idle" /\ entry' = entry
      BY <1>4 DEF Write
    <3> HIDE DEF x
    <3> QED BY <3>1, <3>3, <3>4, <3>5 DEF Puts
  <2>3. (\E form \in {"whole", "torn", "glued"} : Put(form)) \/ UNCHANGED content
    BY <1>4 DEF Write
  <2> QED BY <1>1, <2>1, <2>2, <2>3
<1>5. \A t \in Tags : Task(t) => UNCHANGED content
  BY DEF Task, Copy, Name, Unlink, List, Prune, disk
<1>6. Emit \/ FollowPath \/ Rename \/ RetryDue \/ UNCHANGED vars => UNCHANGED content
  BY DEF Emit, FollowPath, Rename, RetryDue, vars, disk
<1>7. Reopen \/ Recreate \/ Restart => Open \/ UNCHANGED content
  BY DEF Reopen, Recreate, Restart
<1> QED BY <1>1, <1>2, <1>3, <1>4, <1>5, <1>6, <1>7 DEF Next, Sink

\* In terms of entries.
LEMMA EntriesGrow ==
    ASSUME Inv, [Next]_vars
    PROVE  /\ \A f \in Files' \ Files : EntriesIn(content'[f]) = {}
           /\ \A f \in Files :
                 /\ EntriesIn(content[f]) \subseteq EntriesIn(content'[f])
                 /\ \/ content'[f] = content[f]
                    \/ /\ Puts(f)
                       /\ EntriesIn(content'[f]) \subseteq EntriesIn(content[f]) \cup {entry}
<1>1. \A f \in Files' \ Files : EntriesIn(content'[f]) = {}
  BY FilesGrow, NoEntries
<1>2. ASSUME NEW f \in Files, Puts(f)
      PROVE  /\ EntriesIn(content[f]) \subseteq EntriesIn(content'[f])
             /\ EntriesIn(content'[f]) \subseteq EntriesIn(content[f]) \cup {entry}
  <2>1. PICK x \in Line : x.entry = entry /\ content'[f] = Append(content[f], x)
    BY <1>2 DEF Puts
  <2>2. content[f] \in Lines
    BY FilesTyped DEF Inv
  <2> QED BY <2>1, <2>2, EntriesAppended
<1> QED BY <1>1, <1>2, FilesGrow

\* The live file and the path move together; a roll is the rename of the file
\* at the path.
LEMMA FilesMove ==
    ASSUME Inv, [Next]_vars
    PROVE  /\ live'.file = live.file \/ (path' # NoFile /\ live'.file = path')
           /\ path' = path \/ path' = NoFile \/ path' \in Files' \ Files
           /\ path = NoFile /\ path' # NoFile => live'.file = path'
           /\ \/ rolled' = rolled
              \/ /\ path \in Files /\ path' = NoFile /\ rolled' = With(rolled, Rolls + 1, path)
                 /\ content' = content /\ live'.file = live.file
<1>0. TypeOK
  BY DEF Inv
<1>1. CASE Open /\ UNCHANGED rolled
  <2>1. /\ path # NoFile => path' = path
        /\ path = NoFile => path' \notin Files
        /\ path' # NoFile /\ live'.file = path' /\ Files' = Files \cup {path'}
    BY <1>0, <1>1, OpenIs
  <2> QED BY <1>1, <2>1
<1>2. CASE BackOff /\ UNCHANGED <<content, path, rolled>>
  BY <1>0, <1>2 DEF BackOff, TypeOK
<1>3. CASE UNCHANGED <<path, live, rolled>>
  BY <1>3
<1>4. CASE RetryDue
  BY <1>0, <1>4 DEF RetryDue, TypeOK, disk, history
<1>5. CASE Rename
  <2>1. CASE path # NoFile /\ path' = NoFile /\ rolled' = With(rolled, Rolls + 1, path) /\ UNCHANGED live
    <3>1. path \in Files
      BY <1>0, <2>1 DEF TypeOK
    <3>2. content' = content
      BY <1>5 DEF Rename
    <3> QED BY <2>1, <3>1, <3>2
  <2> QED BY <1>2, <1>3, <1>5, <2>1 DEF Rename, Rolls
<1>6. CASE Meddle
  <2>1. /\ UNCHANGED <<live, rolled>> /\ path # NoFile
        /\ path' = NoFile \/ (content' = Append(content, <<>>) /\ path' = Len(content'))
    BY <1>6 DEF Meddle, sink
  <2>2. CASE content' = Append(content, <<>>) /\ path' = Len(content')
    <3>1. Len(content') = Len(content) + 1 /\ Files' = Files \cup {Len(content) + 1} /\ Len(content) \in Nat
      BY <1>0, <2>2, FileAdded, FilesTyped
    <3>2. Len(content) + 1 \notin Files
      BY <3>1 DEF Files
    <3> QED BY <2>1, <2>2, <3>1, <3>2
  <2> QED BY <2>1, <2>2
<1>7. \A t \in Tags : Task(t) => UNCHANGED <<path, live, rolled>>
  BY DEF Task, Copy, Name, Unlink, List, Prune, disk, sink, history
<1>8. Emit \/ FollowPath \/ UNCHANGED vars => UNCHANGED <<path, live, rolled>>
  BY DEF Emit, FollowPath, vars, disk, sink, history
<1>9. Reopen \/ Recreate \/ Restart =>
        \/ Open /\ UNCHANGED rolled
        \/ UNCHANGED <<path, live, rolled>>
        \/ BackOff /\ UNCHANGED <<content, path, rolled>>
  BY DEF Reopen, Recreate, Restart, history
<1>10. CASE Write
  <2>1. live'.file = live.file
    BY <1>0, <1>10 DEF Write, TypeOK
  <2> QED BY <1>10, <2>1 DEF Write, history
<1> QED BY <1>1, <1>2, <1>3, <1>4, <1>5, <1>6, <1>7, <1>8, <1>9, <1>10 DEF Next, Sink

LEMMA EntryMoves ==
    ASSUME Inv, [Next]_vars
    PROVE  \/ entry' = entry /\ (at' # "idle" => at # "idle")
           \/ entry' = entry + 1 /\ content' = content
<1>1. CASE Emit
  BY <1>1 DEF Emit, disk
<1>2. CASE Restart
  BY <1>2 DEF Restart
<1>3. FollowPath \/ Reopen \/ Rename \/ Recreate \/ Write => UNCHANGED entry /\ at # "idle"
  BY DEF FollowPath, Reopen, Rename, Recreate, Write
<1>4. RetryDue \/ Meddle \/ UNCHANGED vars => UNCHANGED <<entry, at>>
  BY DEF RetryDue, Meddle, vars, sink
<1>5. \A t \in Tags : Task(t) => UNCHANGED <<entry, at>>
  BY DEF Task, Copy, Name, Unlink, List, Prune, sink
<1> QED BY <1>1, <1>2, <1>3, <1>4, <1>5 DEF Next, Sink

-----------------------------------------------------------------------------
(* Files and archives are in the order of their entries.                   *)

Older(s, r) == \A d \in EntriesIn(s), e \in EntriesIn(r) : d < e

\* What is under way is not in any file yet.
Fresh ==
    \A f \in Files : \A e \in EntriesIn(content[f]) :
        e <= entry /\ (at # "idle" => e < entry)

\* The archive that is still written to, when no new live file could be opened,
\* is the last, and nothing is at the path then.
InOrder ==
    /\ \A f \in Files : Sorted(content[f])
    /\ \A t, u \in DOMAIN rolled : t < u => Older(content[rolled[t]], content[rolled[u]])
    /\ path # NoFile => \A t \in DOMAIN rolled : Older(content[rolled[t]], content[path])
    /\ \A t \in DOMAIN rolled : live.file = rolled[t] => path = NoFile /\ t = Rolls

LEMMA FreshNext ==
    ASSUME Inv, Fresh, [Next]_vars
    PROVE  Fresh'
<1> SUFFICES ASSUME NEW f \in Files', NEW e \in EntriesIn(content'[f])
             PROVE  e <= entry' /\ (at' # "idle" => e < entry')
  BY DEF Fresh
<1>0. entry \in Nat
  BY LogRotationConstants DEF Inv, TypeOK
<1>1. f \in Files
  BY EntriesGrow
<1>2. content[f] \in Lines
  BY <1>1, FilesTyped DEF Inv
<1>3. EntriesIn(content[f]) \subseteq Nat
  BY <1>2, WholeTyped, LogRotationConstants DEF Tags
<1>4. CASE content'[f] = content[f]
  <2>1. e \in EntriesIn(content[f]) /\ e \in Nat
    BY <1>3, <1>4
  <2>2. e <= entry /\ (at # "idle" => e < entry)
    BY <1>1, <2>1 DEF Fresh
  <2> QED BY <1>0, <2>1, <2>2, EntryMoves
<1>5. CASE Puts(f) /\ EntriesIn(content'[f]) \subseteq EntriesIn(content[f]) \cup {entry}
  <2>1. at' = "idle" /\ entry' = entry
    BY <1>5 DEF Puts
  <2>2. e = entry \/ (e \in EntriesIn(content[f]) /\ e <= entry)
    BY <1>1, <1>5 DEF Fresh
  <2> QED BY <1>0, <2>1, <2>2
<1> QED BY <1>1, <1>4, <1>5, EntriesGrow

\* An older file stays older, unless it is the one written to.
LEMMA StillOlder ==
    ASSUME Inv, Fresh, [Next]_vars, NEW f \in Files, NEW g \in Files,
           Older(content[f], content[g]), content'[f] = content[f]
    PROVE  Older(content'[f], content'[g])
<1> SUFFICES ASSUME NEW d \in EntriesIn(content[f]), NEW e \in EntriesIn(content'[g]) PROVE d < e
  BY DEF Older
<1>1. CASE e \in EntriesIn(content[g])
  BY <1>1 DEF Older
<1>2. CASE Puts(g) /\ e = entry
  BY <1>2 DEF Puts, Fresh
<1> QED BY <1>1, <1>2, EntriesGrow

LEMMA InOrderNext ==
    ASSUME Inv, Inv', Fresh, InOrder, [Next]_vars
    PROVE  InOrder'
<1>0. TypeOK /\ \A t \in DOMAIN rolled : rolled[t] \in Files /\ rolled[t] # path
  BY DEF Inv, TypeOK, Names
<1>1. ASSUME NEW f \in Files' PROVE Sorted(content'[f])
  <2>1. CASE f \in Files' \ Files
    BY <2>1, FilesGrow, NoEntries
  <2>2. CASE f \in Files /\ content'[f] = content[f]
    BY <2>2 DEF InOrder
  <2>3. CASE f \in Files /\ Puts(f)
    <3>1. PICK x \in Line : x.entry = entry /\ content'[f] = Append(content[f], x)
      BY <2>3 DEF Puts
    <3>2. content[f] \in Lines /\ Sorted(content[f])
      BY <1>0, <2>3, FilesTyped DEF InOrder
    <3>3. \A e \in EntriesIn(content[f]) : e < x.entry
      BY <2>3, <3>1 DEF Puts, Fresh
    <3> QED BY <3>1, <3>2, <3>3, EntriesAppended
  <2> QED BY <1>1, <2>1, <2>2, <2>3, FilesGrow
<1>2. CASE rolled' = rolled
  <2>0. Rolls' = Rolls
    BY <1>2 DEF Rolls
  <2>1. ASSUME NEW t \in DOMAIN rolled, NEW u \in DOMAIN rolled, t < u
        PROVE  Older(content'[rolled[t]], content'[rolled[u]])
    <3>1. live.file # rolled[t]
      <4>1. DOMAIN rolled = 1..Rolls
        BY DEF Inv, RollsCounted
      <4>2. t # Rolls
        BY <2>1, <4>1
      <4> QED BY <4>2 DEF InOrder
    <3>2. content'[rolled[t]] = content[rolled[t]]
      BY <1>0, <3>1, FilesGrow DEF Puts
    <3>3. Older(content[rolled[t]], content[rolled[u]])
      BY <2>1 DEF InOrder
    <3> QED BY <1>0, <3>2, <3>3, StillOlder
  <2>2. ASSUME path' # NoFile, NEW t \in DOMAIN rolled
        PROVE  Older(content'[rolled[t]], content'[path'])
    <3>1. CASE path' = path
      <4>1. path \in Files /\ Older(content[rolled[t]], content[path]) /\ live.file # rolled[t]
        BY <1>0, <2>2, <3>1 DEF InOrder, TypeOK
      <4>2. content'[rolled[t]] = content[rolled[t]]
        BY <1>0, <4>1, FilesGrow DEF Puts
      <4> QED BY <1>0, <3>1, <4>1, <4>2, StillOlder
    <3>2. CASE path' \in Files' \ Files
      BY <3>2, EntriesGrow DEF Older
    <3> QED BY <2>2, <3>1, <3>2, FilesMove
  <2>3. ASSUME NEW t \in DOMAIN rolled, live'.file = rolled[t]
        PROVE  path' = NoFile /\ t = Rolls
    <3>1. rolled[t] # path'
      BY <1>2 DEF Inv, Names
    <3>2. live.file = rolled[t]
      BY <2>3, <3>1, FilesMove
    <3>3. path = NoFile /\ t = Rolls
      BY <3>2 DEF InOrder
    <3> QED BY <2>3, <3>1, <3>3, FilesMove
  <2> QED BY <1>1, <1>2, <2>0, <2>1, <2>2, <2>3 DEF InOrder
<1>3. CASE /\ path \in Files /\ path' = NoFile /\ rolled' = With(rolled, Rolls + 1, path)
           /\ content' = content /\ live'.file = live.file
  <2> DEFINE n == Rolls + 1
  <2>0. /\ Rolls \in Nat /\ DOMAIN rolled = 1..Rolls /\ DOMAIN rolled' = 1..Rolls'
        /\ Rolls' \in Nat
    BY LogRotationConstants DEF Inv, RollsCounted, TypeOK
  <2>1. /\ DOMAIN rolled' = DOMAIN rolled \cup {n} /\ rolled'[n] = path
        /\ \A t \in DOMAIN rolled : t # n /\ t < n /\ ~(n < t) /\ rolled'[t] = rolled[t]
    BY <1>3, <2>0 DEF With
  <2>2. Rolls' = n
    <3>1. 1..Rolls' = 1..n
      BY <2>0, <2>1, RollCount
    <3> QED BY <2>0, <3>1, RollCount
  <2> HIDE DEF n
  <2>3. path # NoFile
    BY <1>0, <1>3, FilesTyped
  <2>4. \A t, u \in DOMAIN rolled' : t < u => Older(content'[rolled'[t]], content'[rolled'[u]])
    <3> SUFFICES ASSUME NEW t \in DOMAIN rolled', NEW u \in DOMAIN rolled', t < u
                 PROVE  Older(content[rolled'[t]], content[rolled'[u]])
      BY <1>3
    <3>1. t \in DOMAIN rolled
      <4>1. n < n => FALSE
        BY <2>0 DEF n
      <4> QED BY <2>1, <4>1
    <3>2. CASE u \in DOMAIN rolled
      BY <2>1, <3>1, <3>2 DEF InOrder
    <3>3. CASE u = n
      BY <2>1, <2>3, <3>1, <3>3 DEF InOrder
    <3> QED BY <2>1, <3>2, <3>3
  <2>5. ASSUME NEW t \in DOMAIN rolled', live'.file = rolled'[t] PROVE t = n
    BY <1>3, <2>1, <2>3, <2>5 DEF InOrder
  <2> QED BY <1>1, <1>3, <2>2, <2>4, <2>5 DEF InOrder
<1> QED BY <1>2, <1>3, FilesMove

LEMMA FilesInOrder == Spec => [](Inv /\ Fresh /\ InOrder)
<1>1. Init => Fresh /\ InOrder
  <2> SUFFICES ASSUME Init PROVE Fresh /\ InOrder
    OBVIOUS
  <2>1. Files = 1..1 /\ content[1] = <<>> /\ path = 1 /\ DOMAIN rolled = {}
    BY DEF Init, Files
  <2>2. \A f \in Files : EntriesIn(content[f]) = {} /\ Sorted(content[f])
    BY <2>1, NoEntries
  <2> QED BY <2>1, <2>2 DEF Fresh, InOrder
<1>2. Inv /\ Inv' /\ Fresh /\ InOrder /\ [Next]_vars => Fresh' /\ InOrder'
  BY FreshNext, InOrderNext
<1> QED BY <1>1, <1>2, RotationInvariant, PTL DEF Spec

\* The reader changes nothing of the sink's.
LEMMA ReaderLooksOn == ReaderSpec => Spec
<1>1. ReaderInit => Init
  BY DEF ReaderInit
<1>2. [ReaderNext]_rvars => [Next]_vars
  BY DEF ReaderNext, rvars, Read, ReadLive, ListArchives, ReadArchive, Answer
<1> QED BY <1>1, <1>2, PTL DEF ReaderSpec, Spec

-----------------------------------------------------------------------------
(* What stays readable is found.                                           *)

FileOf(t) == content[rolled[t]]
Archived(e) == \E t \in Archives : e \in EntriesIn(FileOf(t))

LEMMA WhereReadable ==
    ASSUME Inv, NEW e
    PROVE  e \in Readable <=> e \in EntriesIn(AtPath) \/ Archived(e)
<1>1. \A t \in DOMAIN plain : content[plain[t]] = FileOf(t)
  BY DEF Inv, Names, FileOf
<1>2. \A t \in DOMAIN gz : gz[t] = FileOf(t)
  BY DEF Inv, Copies, FileOf
<1> QED BY <1>1, <1>2 DEF Readable, Archived, Archives

LEMMA ReadableIsFresh ==
    ASSUME Inv, Fresh, at # "idle"
    PROVE  entry \notin Readable
<1>1. entry \in Nat
  BY LogRotationConstants DEF Inv, TypeOK
<1>2. \A f \in Files : entry \notin EntriesIn(content[f])
  BY <1>1 DEF Fresh
<1>3. entry \notin EntriesIn(AtPath)
  BY <1>2, NoEntries DEF AtPath, Inv, TypeOK
<1>4. ~Archived(entry)
  BY <1>2 DEF Archived, Archives, FileOf, Inv, TypeOK, Names
<1> QED BY <1>3, <1>4, WhereReadable

ReaderTyped ==
    /\ reading \in {"off", "list", "archives", "done"}
    /\ out \in Seq(Tags) /\ listed \subseteq Tags \X Kinds

\* What stays and is not read yet was in a file that was gone or did not read,
\* or it is in an archive as soon as the live file was read, then in one that is
\* listed.
Wanting == stays \ (Range(out) \cup unseen)

Found ==
    /\ reading = "list" => \A e \in Wanting : e \in Readable /\ e \notin EntriesIn(AtPath)
    /\ reading \in {"archives", "done"} =>
          \A e \in Wanting : \E t \in DOMAIN rolled :
              e \in EntriesIn(FileOf(t)) /\ \E f \in listed : f[1] = t
    /\ reading = "done" => listed = {}

\* An archive's file stays, and its entries.
LEMMA ArchiveGrows ==
    ASSUME Inv, [Next]_vars, NEW t \in DOMAIN rolled
    PROVE  /\ t \in DOMAIN rolled' /\ rolled'[t] = rolled[t] /\ rolled[t] \in Files
           /\ EntriesIn(FileOf(t)) \subseteq EntriesIn(FileOf(t)')
<1>1. rolled[t] \in Files /\ t # Rolls + 1
  <2>1. DOMAIN rolled = 1..Rolls /\ Rolls \in Nat
    BY LogRotationConstants DEF Inv, RollsCounted, TypeOK
  <2>2. t # Rolls + 1
    BY <2>1
  <2> QED BY <2>2 DEF Inv, TypeOK
<1>2. t \in DOMAIN rolled' /\ rolled'[t] = rolled[t]
  BY <1>1, FilesMove DEF With
<1>3. EntriesIn(content[rolled[t]]) \subseteq EntriesIn(content'[rolled[t]])
  BY <1>1, EntriesGrow
<1> QED BY <1>1, <1>2, <1>3 DEF FileOf

LEMMA FoundBeside ==
    ASSUME Inv, Inv', Fresh, Found, [Next]_vars, stays' \subseteq stays, stays' \subseteq Readable',
           UNCHANGED <<reading, out, listed, unseen>>
    PROVE  Found'
<1>1. ASSUME reading = "list", NEW e \in Wanting'
      PROVE  e \in Readable' /\ e \notin EntriesIn(AtPath')
  <2>1. e \in Readable' /\ e \in Readable /\ e \notin EntriesIn(AtPath)
    BY <1>1 DEF Found, Wanting
  <2>2. CASE path' = NoFile
    BY <2>1, <2>2, NoEntries DEF AtPath
  <2>3. CASE path' \in Files' \ Files
    BY <2>1, <2>3, EntriesGrow, NoEntries DEF AtPath
  <2>4. CASE path' = path /\ path # NoFile
    <3>1. path \in Files /\ e \notin EntriesIn(content[path])
      BY <2>1, <2>4 DEF AtPath, Inv, TypeOK
    <3>2. CASE content'[path] = content[path]
      BY <2>1, <2>4, <3>1, <3>2 DEF AtPath
    <3>3. CASE Puts(path) /\ EntriesIn(content'[path]) \subseteq EntriesIn(content[path]) \cup {entry}
      <4>1. e # entry
        BY <2>1, <3>3, ReadableIsFresh DEF Puts
      <4> QED BY <2>1, <2>4, <3>1, <3>3, <4>1 DEF AtPath
    <3> QED BY <3>1, <3>2, <3>3, EntriesGrow
  <2> QED BY <2>2, <2>3, <2>4, FilesMove
<1>2. ASSUME reading \in {"archives", "done"}, NEW e \in Wanting'
      PROVE  \E t \in DOMAIN rolled' :
                e \in EntriesIn(FileOf(t)') /\ \E f \in listed : f[1] = t
  <2>1. PICK t \in DOMAIN rolled :
            e \in EntriesIn(FileOf(t)) /\ \E f \in listed : f[1] = t
    BY <1>2 DEF Found, Wanting
  <2>2. t \in DOMAIN rolled' /\ e \in EntriesIn(FileOf(t)')
    BY <2>1, ArchiveGrows
  <2> QED BY <2>1, <2>2
<1> QED BY <1>1, <1>2 DEF Found, FileOf

\* The lines there are to take are the archive's.
LEMMA ArchiveTaken ==
    ASSUME Inv, NEW t \in Tags, ReadArchive(t), out \in Seq(Tags)
    PROVE  /\ t \in DOMAIN rolled => FileOf(t) \in Lines
           /\ \/ /\ t \in DOMAIN rolled /\ out' = out \o TakenFrom(FileOf(t)) /\ unseen' = unseen
                 /\ out' \in Seq(Tags) /\ Range(out') = Range(out) \cup EntriesIn(FileOf(t))
              \/ out' = out /\ unseen' = unseen \cup EntriesIn(FileOf(t))
<1>1. t \in DOMAIN rolled => FileOf(t) \in Lines
  BY FilesTyped DEF Inv, TypeOK, FileOf
<1>2. ASSUME NEW k \in Kinds, There(t, k)
      PROVE  t \in DOMAIN rolled /\ LinesIn(t, k) = FileOf(t)
  <2>1. t \in (IF k = "plain" THEN DOMAIN plain ELSE DOMAIN gz)
    BY <1>2 DEF There, Stored
  <2>2. CASE k = "plain"
    BY <2>1, <2>2 DEF Inv, Names, FileOf, LinesIn
  <2>3. CASE k # "plain"
    BY <2>1, <2>3 DEF Inv, Names, Copies, FileOf, LinesIn
  <2> QED BY <2>2, <2>3
<1>3. CASE \E kind \in Kinds :
              /\ There(t, kind)
              /\ out' = out \o TakenFrom(LinesIn(t, kind)) /\ UNCHANGED unseen
  <2>1. t \in DOMAIN rolled /\ out' = out \o TakenFrom(FileOf(t)) /\ unseen' = unseen
    BY <1>2, <1>3
  <2> QED BY <1>1, <2>1, TakenAll, ConcatIs
<1>4. CASE unseen' = unseen \cup EntriesIn(content[rolled[t]]) /\ UNCHANGED out
  BY <1>1, <1>4 DEF FileOf
<1> QED BY <1>3, <1>4 DEF ReadArchive

LEMMA FoundRead ==
    ASSUME Inv, ReaderTyped, Found, Read
    PROVE  ReaderTyped' /\ Found'
<1>0. UNCHANGED vars
  BY DEF Read, ReadLive, ListArchives, ReadArchive, Answer
<1>v. UNCHANGED <<content, path, plain, gz, rolled>>
  BY <1>0 DEF vars, disk, history
<1>1. CASE ReadLive
  <2>1. AtPath \in Lines
    BY FilesTyped DEF Inv, TypeOK, AtPath, Lines
  <2>2. out' \in Seq(Tags) /\ EntriesIn(AtPath) \subseteq Range(out') \cup unseen'
    <3>1. CASE out' = TakenFrom(AtPath)
      BY <3>1, <2>1, TakenAll
    <3>2. CASE out' = <<>> /\ unseen' = EntriesIn(AtPath)
      BY <3>2
    <3> QED BY <1>1, <3>1, <3>2 DEF ReadLive
  <2>3. /\ reading' = "list" /\ listed' = listed
        /\ \A e \in Wanting' : e \in Readable /\ e \notin EntriesIn(AtPath)
    BY <1>1, <2>2 DEF ReadLive, Wanting
  <2>4. Readable' = Readable /\ AtPath' = AtPath
    BY <1>v DEF Readable, AtPath
  <2> QED BY <2>2, <2>3, <2>4 DEF ReaderTyped, Found
<1>2. CASE ListArchives
  <2>1. /\ reading = "list" /\ reading' = "archives" /\ listed' = Stored
        /\ UNCHANGED <<out, stays, unseen>>
    BY <1>2 DEF ListArchives
  <2>2. ASSUME NEW e \in Wanting
        PROVE  \E t \in DOMAIN rolled : e \in EntriesIn(FileOf(t)) /\ \E f \in Stored : f[1] = t
    <3>1. Archived(e)
      BY <2>1, WhereReadable DEF Found
    <3>2. PICK t \in Archives : e \in EntriesIn(FileOf(t))
      BY <3>1 DEF Archived
    <3>3. t \in DOMAIN rolled /\ t \in Tags
      BY DEF Inv, Names, TypeOK, Archives
    <3>4. <<t, "plain">> \in Stored \/ <<t, "gz">> \in Stored
      BY <3>3 DEF Stored, Kinds, Archives
    <3> QED BY <3>2, <3>3, <3>4
  <2>3. \A t : FileOf(t)' = FileOf(t)
    BY <1>v DEF FileOf
  <2>4. Found'
    BY <1>v, <2>1, <2>2, <2>3 DEF Found, Wanting
  <2> QED BY <2>1, <2>4 DEF ReaderTyped, Stored
<1>3. ASSUME NEW t \in Tags, ReadArchive(t) PROVE ReaderTyped' /\ Found'
  <2>1. /\ reading = "archives" /\ reading' = "archives" /\ stays' = stays
        /\ listed' = {f \in listed : f[1] # t}
    BY <1>3 DEF ReadArchive
  <2>2. /\ out' \in Seq(Tags)
        /\ Range(out') \cup unseen' = Range(out) \cup unseen \cup EntriesIn(FileOf(t))
    BY <1>3, ArchiveTaken DEF ReaderTyped
  <2>3. ASSUME NEW e \in Wanting'
        PROVE  \E u \in DOMAIN rolled :
                  e \in EntriesIn(FileOf(u)) /\ \E f \in listed' : f[1] = u
    <3>1. e \in Wanting /\ e \notin EntriesIn(FileOf(t))
      BY <2>1, <2>2, <2>3 DEF Wanting
    <3>2. PICK u \in DOMAIN rolled :
              e \in EntriesIn(FileOf(u)) /\ \E f \in listed : f[1] = u
      BY <2>1, <3>1 DEF Found
    <3>3. u # t
      BY <3>1, <3>2
    <3> QED BY <2>1, <3>2, <3>3
  <2>4. \A u : FileOf(u)' = FileOf(u)
    BY <1>v DEF FileOf
  <2>5. Found'
    BY <1>v, <2>1, <2>3, <2>4 DEF Found
  <2>6. out' \in Seq(Tags) /\ listed' \subseteq Tags \X Kinds
    BY <2>1, <2>2 DEF ReaderTyped
  <2> QED BY <2>1, <2>5, <2>6 DEF ReaderTyped
<1>4. CASE Answer
  <2>1. /\ reading = "archives" /\ reading' = "done" /\ listed = {}
        /\ UNCHANGED <<out, listed, stays, unseen>>
    BY <1>4 DEF Answer
  <2>2. \A t : FileOf(t)' = FileOf(t)
    BY <1>v DEF FileOf
  <2>3. Found'
    BY <1>v, <2>1, <2>2 DEF Found, Wanting
  <2> QED BY <2>1, <2>3 DEF ReaderTyped
<1> QED BY <1>1, <1>2, <1>3, <1>4 DEF Read

\* What the sink's step leaves alone of the reader's.
LEMMA BesideIs ==
    ASSUME [ReaderNext]_rvars, ~Read
    PROVE  /\ [Next]_vars /\ stays' \subseteq stays /\ UNCHANGED <<reading, out, listed, unseen>>
           /\ stays' \subseteq Readable' \/ UNCHANGED <<stays, vars>>
           /\ calm' => calm /\ (reading = "list" => rolled' = rolled)
<1>1. CASE UNCHANGED rvars
  <2>1. UNCHANGED <<vars, reading, out, listed, stays, unseen, calm>>
    BY <1>1 DEF rvars, reader
  <2>2. rolled' = rolled
    BY <2>1 DEF vars, history
  <2> QED BY <2>1, <2>2
<1>2. CASE /\ Next /\ stays' = stays \cap Readable'
           /\ calm' = (calm /\ (reading = "list" => rolled' = rolled))
           /\ UNCHANGED <<reading, out, listed, unseen>>
  <2>1. stays' \subseteq stays /\ stays' \subseteq Readable'
    BY <1>2
  <2>2. calm' => calm /\ (reading = "list" => rolled' = rolled)
    BY <1>2
  <2> QED BY <1>2, <2>1, <2>2
<1> QED BY <1>1, <1>2 DEF ReaderNext

LEMMA ReaderInvariant == ReaderSpec => [](Inv /\ Fresh /\ InOrder /\ ReaderTyped /\ Found)
<1>1. ReaderInit => ReaderTyped /\ Found
  BY DEF ReaderInit, ReaderTyped, Found
<1>2. Inv /\ Inv' /\ Fresh /\ ReaderTyped /\ Found /\ [ReaderNext]_rvars => ReaderTyped' /\ Found'
  <2> SUFFICES ASSUME Inv, Inv', Fresh, ReaderTyped, Found, [ReaderNext]_rvars
               PROVE  ReaderTyped' /\ Found'
    OBVIOUS
  <2>1. CASE Read
    BY <2>1, FoundRead
  <2>2. CASE ~Read
    <3>1. /\ [Next]_vars /\ stays' \subseteq stays /\ UNCHANGED <<reading, out, listed, unseen>>
          /\ stays' \subseteq Readable' \/ UNCHANGED <<stays, vars>>
      BY <2>2, BesideIs
    <3>2. ReaderTyped'
      BY <3>1 DEF ReaderTyped
    <3>3. CASE stays' \subseteq Readable'
      BY <3>1, <3>2, <3>3, FoundBeside
    <3>4. CASE UNCHANGED <<stays, vars>>
      <4>1. UNCHANGED <<content, path, plain, gz, rolled>>
        BY <3>4 DEF vars, disk, history
      <4>2. Readable' = Readable /\ AtPath' = AtPath /\ \A t : FileOf(t)' = FileOf(t)
        BY <4>1 DEF Readable, AtPath, FileOf
      <4> QED BY <3>1, <3>2, <3>4, <4>1, <4>2 DEF Found, Wanting
    <3> QED BY <3>1, <3>3, <3>4
  <2> QED BY <2>1, <2>2
<1> QED BY <1>1, <1>2, FilesInOrder, ReaderLooksOn, PTL DEF ReaderSpec

\* An entry that can be read all along is in the answer, unless every listed
\* file of its archive was gone when its turn came, or its file did not read as
\* text - whatever is rolled, compressed or pruned during the read, fails or is
\* taken away (read_recent).
THEOREM StayingIsRead == ReaderSpec => []ReadsWhatStays
<1>1. Found => ReadsWhatStays
  BY DEF Found, ReadsWhatStays, Wanting
<1> QED BY <1>1, ReaderInvariant, PTL

-----------------------------------------------------------------------------
(* The answer is newest first.                                             *)

\* What is in the archive is older than what was read, and stays so: if
\* anything was read, the archive is not written to any more.
ComesNext(t) ==
    /\ t \in DOMAIN rolled
    /\ \A e \in EntriesIn(FileOf(t)), d \in Range(out) : e < d
    /\ out # <<>> => live.file # rolled[t]

Reading ==
    /\ reading = "off" => out = <<>>
    /\ calm =>
          /\ Descending(out)
          /\ reading = "list" => \A t \in DOMAIN rolled : ComesNext(t)
          /\ reading = "archives" => \A f \in listed : ComesNext(f[1])

LEMMA StillNext ==
    ASSUME Inv, Inv', [Next]_vars, out' = out, NEW t, ComesNext(t)
    PROVE  ComesNext(t)'
<1>1. /\ t \in DOMAIN rolled /\ t \in DOMAIN rolled' /\ rolled'[t] = rolled[t]
      /\ rolled[t] \in Files
  BY ArchiveGrows DEF ComesNext
<1>2. rolled'[t] # path'
  BY <1>1 DEF Inv, Names
<1>3. CASE out = <<>>
  <2>1. Range(out) = {}
    BY <1>3 DEF Range
  <2> QED BY <1>1, <1>3, <2>1 DEF ComesNext
<1>4. CASE out # <<>>
  <2>1. live.file # rolled[t]
    BY <1>4 DEF ComesNext
  <2>2. live'.file # rolled'[t]
    BY <1>1, <1>2, <2>1, FilesMove
  <2>3. content'[rolled[t]] = content[rolled[t]]
    BY <1>1, <2>1, FilesGrow DEF Puts
  <2>4. FileOf(t)' = FileOf(t)
    BY <1>1, <2>3 DEF FileOf
  <2> QED BY <1>1, <2>2, <2>4 DEF ComesNext
<1> QED BY <1>3, <1>4

LEMMA ReadingBeside ==
    ASSUME Inv, Inv', Reading, [Next]_vars, UNCHANGED <<reading, out, listed>>,
           calm' => calm /\ (reading = "list" => rolled' = rolled)
    PROVE  Reading'
<1>1. reading = "list" /\ calm' => \A t \in DOMAIN rolled' : ComesNext(t)'
  BY StillNext DEF Reading
<1>2. reading = "archives" /\ calm' => \A f \in listed : ComesNext(f[1])'
  BY StillNext DEF Reading
<1>3. ASSUME calm' PROVE /\ Descending(out')
                         /\ reading' = "list" => \A t \in DOMAIN rolled' : ComesNext(t)'
                         /\ reading' = "archives" => \A f \in listed' : ComesNext(f[1])'
  BY <1>1, <1>2, <1>3 DEF Reading
<1>4. reading' = "off" => out' = <<>>
  BY DEF Reading
<1> QED BY <1>3, <1>4 DEF Reading

LEMMA ReadingLive ==
    ASSUME Inv, InOrder, ReadLive
    PROVE  Reading'
<1>1. /\ out' \in {TakenFrom(AtPath), <<>>} /\ reading' = "list"
      /\ UNCHANGED <<content, path, live, rolled>>
  BY DEF ReadLive, vars, disk, sink, history
<1>2. AtPath \in Lines
  BY FilesTyped DEF Inv, TypeOK, AtPath, Lines
<1>3. Sorted(AtPath)
  BY NoEntries DEF Inv, TypeOK, AtPath, InOrder
<1>4. Range(out') \subseteq EntriesIn(AtPath) /\ Descending(out')
  <2>1. CASE out' = TakenFrom(AtPath)
    BY <2>1, <1>2, <1>3, TakenAll
  <2>2. CASE out' = <<>>
    BY <2>2 DEF Range, Descending
  <2> QED BY <1>1, <2>1, <2>2
<1>5. path = NoFile => out' = <<>>
  <2>1. path = NoFile => Cardinality(Whole(AtPath)) = 0
    <3>1. Whole(<<>>) = {}
      BY DEF Whole
    <3> QED BY <3>1, FS_EmptySet DEF AtPath
  <2> QED BY <1>1, <2>1 DEF TakenFrom
<1>6. ASSUME NEW t \in DOMAIN rolled PROVE ComesNext(t)'
  <2>1. CASE path = NoFile
    <3>1. Range(out') = {} /\ out' = <<>>
      BY <1>5, <2>1 DEF Range
    <3> QED BY <1>1, <3>1 DEF ComesNext
  <2>2. CASE path # NoFile
    <3>1. \A d \in EntriesIn(FileOf(t)), e \in EntriesIn(AtPath) : d < e
      BY <2>2 DEF InOrder, Older, AtPath, FileOf
    <3>2. live.file # rolled[t]
      BY <2>2 DEF InOrder
    <3>3. FileOf(t)' = FileOf(t)
      BY <1>1 DEF FileOf
    <3> QED BY <1>1, <1>4, <3>1, <3>2, <3>3 DEF ComesNext
  <2> QED BY <2>1, <2>2
<1>7. \A t \in DOMAIN rolled' : ComesNext(t)'
  BY <1>1, <1>6
<1> QED BY <1>1, <1>4, <1>7 DEF Reading

LEMMA ReadingArchive ==
    ASSUME Inv, InOrder, ReaderTyped, Reading, NEW t \in Tags, ReadArchive(t)
    PROVE  Reading'
<1>0. /\ reading = "archives" /\ reading' = "archives" /\ calm' = calm
      /\ IsNewest(t) /\ listed' = {f \in listed : f[1] # t}
      /\ UNCHANGED <<content, path, live, rolled>>
  BY DEF ReadArchive, vars, disk, sink, history
<1>1. \A u : FileOf(u)' = FileOf(u)
  BY <1>0 DEF FileOf
<1>2. CASE ~calm
  BY <1>0, <1>2 DEF Reading
<1>3. CASE out' = out
  BY <1>0, <1>1, <1>3 DEF Reading, ComesNext
<1>4. CASE /\ calm /\ t \in DOMAIN rolled /\ out' = out \o TakenFrom(FileOf(t))
           /\ Range(out') = Range(out) \cup EntriesIn(FileOf(t))
  <2>1. ComesNext(t) /\ Descending(out)
    BY <1>0, <1>4 DEF Reading, IsNewest
  <2>2. FileOf(t) \in Lines /\ Sorted(FileOf(t))
    BY <1>4, FilesTyped DEF Inv, TypeOK, FileOf, InOrder
  <2>3. TakenFrom(FileOf(t)) \in Seq(Tags) /\ Descending(TakenFrom(FileOf(t)))
        /\ Range(TakenFrom(FileOf(t))) = EntriesIn(FileOf(t))
    BY <2>2, TakenAll
  <2>4. \A e \in Range(TakenFrom(FileOf(t))), d \in Range(out) : e < d
    BY <2>1, <2>3 DEF ComesNext
  <2>5. Descending(out')
    BY <1>4, <2>1, <2>3, <2>4, ConcatIs DEF ReaderTyped
  <2>6. ASSUME NEW f \in listed, f[1] # t PROVE ComesNext(f[1])'
    <3>1. ComesNext(f[1]) /\ f[1] \in DOMAIN rolled
      BY <1>0, <1>4 DEF Reading, ComesNext
    <3>2. f[1] < t
      <4>1. f[1] \in Nat /\ t \in Nat /\ f[1] <= t
        BY <1>0, LogRotationConstants DEF ReaderTyped, IsNewest, Tags
      <4> QED BY <2>6, <4>1
    <3>3. Older(FileOf(f[1]), FileOf(t))
      BY <1>4, <3>1, <3>2 DEF InOrder, FileOf
    <3>4. live.file # rolled[f[1]]
      <4>1. DOMAIN rolled = 1..Rolls /\ Rolls \in Nat
        BY LogRotationConstants DEF Inv, RollsCounted, TypeOK
      <4>2. f[1] # Rolls
        BY <1>4, <3>1, <3>2, <4>1
      <4> QED BY <3>1, <4>2 DEF InOrder
    <3>5. \A e \in EntriesIn(FileOf(f[1])), d \in Range(out') : e < d
      BY <1>4, <3>1, <3>3 DEF ComesNext, Older
    <3> QED BY <1>0, <1>1, <3>1, <3>4, <3>5 DEF ComesNext
  <2>7. \A f \in listed' : ComesNext(f[1])'
    BY <1>0, <2>6
  <2> QED BY <1>0, <2>5, <2>7 DEF Reading
<1> QED BY <1>2, <1>3, <1>4, ArchiveTaken DEF ReaderTyped

LEMMA ReadingNext ==
    ASSUME Inv, Inv', InOrder, ReaderTyped, Reading, [ReaderNext]_rvars
    PROVE  Reading'
<1>1. CASE ListArchives
  <2>1. /\ reading = "list" /\ reading' = "archives" /\ listed' = Stored
        /\ UNCHANGED <<content, live, rolled, out, calm>>
    BY <1>1 DEF ListArchives, vars, disk, sink, history
  <2>2. \A f \in Stored : f[1] \in DOMAIN rolled
    BY DEF Stored, Kinds, Inv, Names
  <2>3. \A t : ComesNext(t)' <=> ComesNext(t)
    BY <2>1 DEF ComesNext, FileOf
  <2> QED BY <2>1, <2>2, <2>3 DEF Reading
<1>2. CASE Answer
  <2>1. reading = "archives" /\ reading' = "done" /\ UNCHANGED <<out, calm>>
    BY <1>2 DEF Answer
  <2> QED BY <2>1 DEF Reading
<1>3. CASE ~Read
  BY <1>3, BesideIs, ReadingBeside
<1> QED BY <1>1, <1>2, <1>3, ReadingLive, ReadingArchive DEF Read

\* The answer is newest first and has no entry twice, unless a roll came
\* between the read of the live file and the listing (read_recent).
THEOREM ReadNewestFirst == ReaderSpec => []NewestFirst
<1>1. ReaderInit => Reading
  BY NoEntries DEF ReaderInit, Reading
<1>2. Reading => NewestFirst
  BY DEF Reading, NewestFirst, Descending
<1> QED BY <1>1, <1>2, ReadingNext, ReaderInvariant, PTL DEF ReaderSpec
=============================================================================
