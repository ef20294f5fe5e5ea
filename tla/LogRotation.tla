----------------------------- MODULE LogRotation -----------------------------
(***************************************************************************)
(* JsonLinesSink: entries appended to the live file at a configured path,  *)
(* which an operator may remove, move or replace; size-based rolling to    *)
(* archives; one background task per roll that compresses the archive and  *)
(* prunes old ones.  Operations on files fail, and the process may be      *)
(* killed and started again at any step.                                   *)
(*                                                                         *)
(* A file is a number and keeps its lines when its names are gone (content *)
(* is a history too).  An archive's tag is the number of its roll: the     *)
(* clock that dates archives is taken to go forward.                       *)
(***************************************************************************)
EXTENDS Integers, FiniteSets, Sequences, Functions

CONSTANTS
    MaxLines,       \* of the live file (Rotation::max_bytes), 0 = never roll
    Keep,           \* archives kept (Rotation::keep), 0 = all
    Compress,       \* Rotation::compress
    Faulty,         \* operations that may fail, out of Operations
    Entries,        \* bound: entries emitted
    Faults,         \* bound: failures
    Meddles,        \* bound: interventions at the live path
    Restarts        \* bound: restarts of the process

Operations == {"stat", "rename", "open", "write", "gzip"}

ASSUME LogRotationConstants ==
    /\ MaxLines \in Nat /\ Keep \in Nat /\ Compress \in BOOLEAN
    /\ Faulty \subseteq Operations
    /\ {Entries, Faults, Meddles, Restarts} \subseteq Nat

VARIABLES
    content,    \* file -> its lines
    path,       \* the file at the configured path, or NoFile
    plain,      \* tag -> file, of the archives not compressed
    gz,         \* tag -> lines, of the compressed ones
    tmp,        \* tag -> lines, of the .gz.tmp files
    live,       \* LiveFile: file, size, failed_rolls, backing off or not
    at,         \* of the emit under way
    entry,      \* the last entry emitted
    task,       \* tag -> the background task of its roll
    doomed,     \* tag -> <<tag, kind>>, what that task has left to delete
    rolled,     \* history: tag -> the file that was renamed to it
    taken,      \* history: files the operator removed or moved
    disturbed,  \* history: something happened to the path during this emit
    budget      \* failures, interventions and restarts left

disk == <<content, path, plain, gz, tmp>>
sink == <<live, at, entry>>
background == <<task, doomed>>
history == <<rolled, taken, disturbed>>
vars == <<disk, sink, background, history, budget>>

NoFile == 0
Files == 1..Len(content)
Tags == 1..Entries
Archives == DOMAIN plain \cup DOMAIN gz
Kinds == {"plain", "gz"}

\* A line is whole, the torn start of an entry, or an entry glued to one.
Line == [entry : Tags, form : {"whole", "torn", "glued"}]
Lines == Seq(Line)

TypeOK ==
    /\ content \in Seq(Lines) /\ path \in Files \cup {NoFile}
    /\ DOMAIN plain \subseteq Tags /\ \A t \in DOMAIN plain : plain[t] \in Files
    /\ DOMAIN gz \cup DOMAIN tmp \subseteq Tags
    /\ \A t \in DOMAIN gz : gz[t] \in Lines
    /\ \A t \in DOMAIN tmp : tmp[t] \in Lines
    /\ live \in [file : Files, size : Nat, failed : Nat, waiting : BOOLEAN]
    /\ at \in {"idle", "stat", "reopen", "ready", "renamed", "vanished", "write"}
    /\ entry \in 0..Entries
    /\ task \in [Tags -> {"none", "copy", "name", "unlink", "list", "prune"}]
    /\ doomed \in [Tags -> SUBSET (Tags \X Kinds)]
    /\ DOMAIN rolled \subseteq Tags /\ \A t \in DOMAIN rolled : rolled[t] \in Files
    /\ taken \subseteq Files /\ disturbed \in BOOLEAN
    /\ budget \in [{"faults", "meddles", "restarts"} -> Nat]

Opened(file, size) == [file |-> file, size |-> size, failed |-> 0, waiting |-> FALSE]

Init ==
    /\ content = <<(<<>>)>> /\ path = 1
    /\ plain = <<>> /\ gz = <<>> /\ tmp = <<>>
    /\ live = Opened(1, 0) /\ at = "idle" /\ entry = 0
    /\ task = [t \in Tags |-> "none"] /\ doomed = [t \in Tags |-> {}]
    /\ rolled = <<>> /\ taken = {} /\ disturbed = FALSE
    /\ budget = [faults |-> Faults, meddles |-> Meddles, restarts |-> Restarts]

Spend(what) == budget[what] > 0 /\ budget' = [budget EXCEPT ![what] = @ - 1]
Fails(operation) == operation \in Faulty /\ Spend("faults")
Without(f, t) == Restrict(f, DOMAIN f \ {t})
With(f, t, x) == [u \in DOMAIN f \cup {t} |-> IF u = t THEN x ELSE f[u]]

\* Seeded bug: the size of a file that was there is not looked up.
OpenEmpty ==
    /\ path' = IF path = NoFile THEN Len(content) + 1 ELSE path
    /\ content' = IF path = NoFile THEN Append(content, <<>>) ELSE content
    /\ live' = Opened(path', 0)

\* open_append: the file at the path, created if there is none.
Open ==
    /\ path' = IF path = NoFile THEN Len(content) + 1 ELSE path
    /\ content' = IF path = NoFile THEN Append(content, <<>>) ELSE content
    /\ live' = Opened(path', Len(content'[path']))

-----------------------------------------------------------------------------
(* Seeded bugs.                                                             *)

\* The open file is never compared with the one at the path.
FollowPathNever ==
    /\ at = "stat" /\ at' = "ready"
    /\ UNCHANGED <<disk, live, entry, background, history, budget>>

\* The task starts before the new live file is open.
RecreateLate ==
    /\ at \in {"renamed", "vanished"} /\ at' = "write"
    /\ task' = IF at = "renamed" THEN [task EXCEPT ![Cardinality(DOMAIN rolled)] = "copy"] ELSE task
    /\ \/ Open /\ UNCHANGED <<budget, disturbed>>
       \/ /\ Fails("open") /\ disturbed' = TRUE /\ UNCHANGED <<content, path>>
          /\ live' = [live EXCEPT !.failed = @ + 1, !.waiting = TRUE]
    /\ UNCHANGED <<plain, gz, tmp, entry, doomed, rolled, taken>>

\* One archive more is kept.
ListOneMore(t) ==
    /\ task[t] = "list" /\ task' = [task EXCEPT ![t] = "prune"]
    /\ LET tags == DOMAIN plain \cup DOMAIN gz
       IN  doomed' = [doomed EXCEPT ![t] =
               {f \in tags \X Kinds : Keep > 0 /\ Cardinality({u \in tags : u > f[1]}) > Keep}]
    /\ UNCHANGED <<disk, sink, history, budget>>

-----------------------------------------------------------------------------
(* emit, by the one writer task.                                            *)

\* The sink's lock is the writer's for the whole emit.
Emit ==
    /\ at = "idle" /\ entry < Entries
    /\ entry' = entry + 1 /\ at' = "stat" /\ disturbed' = FALSE
    /\ UNCHANGED <<disk, live, background, rolled, taken, budget>>

FollowPath ==
    /\ at = "stat"
    /\ \/ at' = (IF path = live.file THEN "ready" ELSE "reopen") /\ UNCHANGED <<budget, disturbed>>
       \/ Fails("stat") /\ at' = "ready" /\ disturbed' = TRUE
    /\ UNCHANGED <<disk, live, entry, background, rolled, taken>>

Reopen ==
    /\ at = "reopen" /\ at' = "ready"
    /\ \/ Open /\ UNCHANGED <<budget, disturbed>>
       \/ Fails("open") /\ disturbed' = TRUE /\ UNCHANGED <<content, path, live>>
    /\ UNCHANGED <<plain, gz, tmp, entry, background, rolled, taken>>

MustRoll ==
    /\ MaxLines > 0 /\ ~live.waiting
    /\ live.size > 0 /\ live.size + 1 > MaxLines

\* ROLL_RETRY is over.
RetryDue ==
    /\ live.waiting
    /\ live' = [live EXCEPT !.waiting = FALSE]
    /\ UNCHANGED <<disk, at, entry, background, history, budget>>

\* A roll that failed: appending goes on.
BackOff ==
    /\ live' = [live EXCEPT !.failed = @ + 1, !.waiting = TRUE]
    /\ at' = "write"

\* roll moves whatever is at the path now.
Rename ==
    /\ at = "ready" /\ MustRoll
    /\ \/ /\ path # NoFile /\ path' = NoFile
          /\ LET t == Cardinality(DOMAIN rolled) + 1
             IN  plain' = With(plain, t, path) /\ rolled' = With(rolled, t, path)
          /\ at' = "renamed" /\ UNCHANGED <<live, budget>>
       \/ path = NoFile /\ at' = "vanished" /\ UNCHANGED <<path, plain, rolled, live, budget>>
       \/ Fails("rename") /\ BackOff /\ UNCHANGED <<path, plain, rolled>>
    /\ UNCHANGED <<content, gz, tmp, entry, background, taken, disturbed>>

\* The rest of roll.  No task if the new live file cannot be opened.
Recreate ==
    /\ at \in {"renamed", "vanished"}
    /\ \/ /\ Open /\ at' = "write"
          /\ task' = IF at = "renamed"
                     THEN [task EXCEPT ![Cardinality(DOMAIN rolled)] =
                               IF Compress THEN "copy" ELSE "list"]
                     ELSE task
          /\ UNCHANGED <<budget, disturbed>>
       \/ Fails("open") /\ BackOff /\ disturbed' = TRUE /\ UNCHANGED <<content, path, task>>
    /\ UNCHANGED <<plain, gz, tmp, entry, doomed, rolled, taken>>

\* What the next write appends to: the rest of a torn line, or a new one.
EndsTorn(file) == content[file] # <<>> /\ content[file][Len(content[file])].form = "torn"

Put(form) ==
    content' = [content EXCEPT ![live.file] = Append(@, [entry |-> entry, form |-> form])]

Write ==
    /\ at = "write" \/ (at = "ready" /\ ~MustRoll)
    /\ at' = "idle"
    /\ \/ /\ Put(IF EndsTorn(live.file) THEN "glued" ELSE "whole")
          /\ live' = [live EXCEPT !.size = @ + 1] /\ UNCHANGED budget
       \/ Fails("write") /\ Put("torn") /\ UNCHANGED live
       \/ Fails("write") /\ UNCHANGED <<content, live>>
    /\ UNCHANGED <<path, plain, gz, tmp, entry, background, history>>

-----------------------------------------------------------------------------
(* The background task of the roll with tag t.                              *)

Stage(t, s) == task' = [task EXCEPT ![t] = s]

\* gzip_in_place: the archive to .gz.tmp, a rename to .gz, the archive removed.
Copy(t) ==
    /\ task[t] = "copy"
    /\ \/ /\ t \in DOMAIN plain /\ Stage(t, "name")
          /\ tmp' = With(tmp, t, content[plain[t]]) /\ UNCHANGED budget
       \/ t \notin DOMAIN plain /\ Stage(t, "list") /\ UNCHANGED <<tmp, budget>>
       \/ Fails("gzip") /\ Stage(t, "list") /\ UNCHANGED tmp
    /\ UNCHANGED <<content, path, plain, gz, sink, doomed, history>>

Name(t) ==
    /\ task[t] = "name"
    /\ \/ /\ gz' = With(gz, t, tmp[t]) /\ tmp' = Without(tmp, t)
          /\ Stage(t, "unlink") /\ UNCHANGED budget
       \/ Fails("gzip") /\ Stage(t, "list") /\ UNCHANGED <<gz, tmp>>
    /\ UNCHANGED <<content, path, plain, sink, doomed, history>>

Unlink(t) ==
    /\ task[t] = "unlink" /\ Stage(t, "list")
    /\ \/ plain' = Without(plain, t) /\ UNCHANGED budget
       \/ Fails("gzip") /\ UNCHANGED plain
    /\ UNCHANGED <<content, path, gz, tmp, sink, doomed, history>>

\* prune_archives lists the directory, then removes file by file.
Newer(t) == {u \in Archives : u > t}
Stored == {f \in Tags \X Kinds :
              f[1] \in (IF f[2] = "plain" THEN DOMAIN plain ELSE DOMAIN gz)}

List(t) ==
    /\ task[t] = "list" /\ Stage(t, "prune")
    /\ doomed' = [doomed EXCEPT ![t] =
           {f \in Stored : Keep > 0 /\ Cardinality(Newer(f[1])) >= Keep}]
    /\ UNCHANGED <<disk, sink, history, budget>>

\* In any order; a file that is gone already is only warned about.
Prune(t) ==
    /\ task[t] = "prune"
    /\ \/ \E f \in doomed[t] :
              /\ doomed' = [doomed EXCEPT ![t] = @ \ {f}]
              /\ plain' = (IF f[2] = "plain" THEN Without(plain, f[1]) ELSE plain)
              /\ gz' = (IF f[2] = "gz" THEN Without(gz, f[1]) ELSE gz)
              /\ UNCHANGED task
       \/ doomed[t] = {} /\ Stage(t, "none") /\ UNCHANGED <<plain, gz, doomed>>
    /\ UNCHANGED <<content, path, tmp, sink, history, budget>>

-----------------------------------------------------------------------------
(* The operator, and the process's end.                                     *)

\* The live file is removed or moved out of sight, or another one put there.
Meddle ==
    /\ path # NoFile /\ Spend("meddles")
    /\ taken' = taken \cup {path} /\ disturbed' = TRUE
    /\ \/ path' = NoFile /\ UNCHANGED content
       \/ content' = Append(content, <<>>) /\ path' = Len(content')
    /\ UNCHANGED <<plain, gz, tmp, sink, background, rolled>>

\* Killed at any point, and started again (JsonLinesSink::open_with).
Restart ==
    /\ Spend("restarts")
    /\ Open /\ at' = "idle"
    /\ task' = [t \in Tags |-> "none"] /\ doomed' = [t \in Tags |-> {}]
    /\ UNCHANGED <<plain, gz, tmp, entry, history>>

Sink == Emit \/ FollowPath \/ Reopen \/ Rename \/ Recreate \/ Write
Task(t) == Copy(t) \/ Name(t) \/ Unlink(t) \/ List(t) \/ Prune(t)

Next ==
    \/ Sink \/ RetryDue
    \/ \E t \in Tags : Task(t)
    \/ Meddle \/ Restart

Spec == Init /\ [][Next]_vars

\* An emit goes on once begun, and started tasks run on threads of their
\* own; nothing makes entries come.
Fairness ==
    /\ WF_vars(FollowPath \/ Reopen \/ Rename \/ Recreate \/ Write)
    /\ \A t \in Tags : WF_vars(Task(t))

-----------------------------------------------------------------------------
(* Safety.                                                                  *)

Outnumbered(t) == Keep > 0 /\ Cardinality(Newer(t)) >= Keep

\* What was written stays where it can be read: in the live file or, whole,
\* in an archive, unless Keep newer archives made that one go or an operator
\* took the file ("Entries are never truncated by rolling", Rotation; "a .gz
\* on disk is always complete", gzip_in_place) - however rolls, tasks,
\* failures and kills interleave.
NothingLost ==
    \A f \in Files : content[f] # <<>> =>
        \/ f = path \/ f \in taken
        \/ \E t \in DOMAIN rolled :
              /\ rolled[t] = f
              /\ \/ t \in DOMAIN plain
                 \/ t \in DOMAIN gz /\ gz[t] = content[f]
                 \/ Outnumbered(t)

Written == {f \in Files : content'[f] # content[f]}

\* A line goes to the file at the path, unless something happened to the
\* path during the emit or the file could not be opened (follow_path: never
\* "in a file nobody reads").
WritesFollowPath == [][\A f \in Written : f = path \/ disturbed]_vars

\* The live file outgrows the limit only after a roll of it failed, also when
\* it was there before the process (Rotation::max_bytes; torn lines are not
\* counted, here and in LiveFile::size).
Counted(lines) == Cardinality({i \in DOMAIN lines : lines[i].form # "torn"})

RollsInTime ==
    [][\A f \in Written :
          (MaxLines > 0 /\ Counted(content'[f]) > MaxLines) => live.failed > 0]_vars

-----------------------------------------------------------------------------
(* Liveness.                                                                *)

\* Every archive ends up compressed or deleted, and no more than Keep stay,
\* although tasks of several rolls delete each other's files.
ArchivesSettle ==
    <>[](/\ Compress => DOMAIN plain = {}
         /\ Keep > 0 => Cardinality(Archives) <= Keep)
=============================================================================
