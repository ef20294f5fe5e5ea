------------------------------ MODULE LogReader ------------------------------
(***************************************************************************)
(* One read of the query log (read_recent: GET /api/hive/queries) while    *)
(* the sink rolls, compresses and prunes: the live file first, then the    *)
(* archives of one listing of the directory, newest first.  The limit is   *)
(* taken to be out of reach, and files that are there can be opened.       *)
(***************************************************************************)
EXTENDS LogRotation

VARIABLES
    reading,    \* how far the read is
    out,        \* the entries read, in order
    listed,     \* archive files listed and not tried yet
    stays,      \* history: entries readable at every moment of the read so far
    unseen,     \* history: entries of files that were gone, or did not read as
                \* text, when their turn came
    calm        \* history: nothing was rolled between the read of the live
                \* file and the listing

reader == <<reading, out, listed, stays, unseen, calm>>
rvars == <<vars, reader>>

ReaderInit ==
    /\ Init
    /\ reading = "off" /\ out = <<>> /\ listed = {} /\ stays = {} /\ unseen = {}
    /\ calm = TRUE

\* The lines that parse.
Whole(lines) == {i \in DOMAIN lines : lines[i].form = "whole"}

\* Seeded bug: the lines are taken as they come.
TakenInOrder(lines) ==
    [k \in 1..Cardinality(Whole(lines)) |->
        lines[CHOOSE i \in Whole(lines) :
                  Cardinality({j \in Whole(lines) : j <= i}) = k].entry]

\* take_from: the entries of the lines that parse, last first.
TakenFrom(lines) ==
    [k \in 1..Cardinality(Whole(lines)) |->
        lines[CHOOSE i \in Whole(lines) :
                  Cardinality({j \in Whole(lines) : j >= i}) = k].entry]

AtPath == IF path = NoFile THEN <<>> ELSE content[path]
EntriesIn(lines) == {lines[i].entry : i \in Whole(lines)}
Readable ==
    UNION ({EntriesIn(AtPath)} \cup {EntriesIn(content[plain[t]]) : t \in DOMAIN plain}
                               \cup {EntriesIn(gz[t]) : t \in DOMAIN gz})

\* The newest archive left.
IsNewest(t) == (\E f \in listed : f[1] = t) /\ \A f \in listed : f[1] <= t

-----------------------------------------------------------------------------
(* A file is read as text, all of it or nothing (read_to_string): nothing   *)
(* if a line in it breaks off within a character.                           *)

\* The sink is about to append to file f, or at it.
Writing(f) == f = live.file /\ (at = "write" \/ (at = "ready" /\ ~MustRoll))

\* May a line break off so?  One that is torn, or that an entry is glued to.
Torn(lines) == \E i \in DOMAIN lines : lines[i].form # "whole"

MayBreak(f) == Writing(f) \/ Torn(content[f])

\* A file that does not read counts as empty (unwrap_or_default).
ReadLive ==
    /\ reading = "off" /\ reading' = "list"
    /\ stays' = Readable
    /\ \/ out' = TakenFrom(AtPath) /\ UNCHANGED unseen
       \/ /\ path # NoFile /\ MayBreak(path)
          /\ out' = <<>> /\ unseen' = EntriesIn(AtPath)
    /\ UNCHANGED <<vars, listed, calm>>

\* ArchiveName::list: what is there, now.
ListArchives ==
    /\ reading = "list" /\ reading' = "archives"
    /\ listed' = Stored
    /\ UNCHANGED <<vars, out, stays, unseen, calm>>

There(t, kind) == <<t, kind>> \in listed \cap Stored
LinesIn(t, kind) == IF kind = "plain" THEN content[plain[t]] ELSE gz[t]

\* Seeded bug: only the first listed file of an archive is tried.
ReadArchiveOnce(t) ==
    /\ reading = "archives" /\ IsNewest(t)
    /\ listed' = {f \in listed : f[1] # t}
    /\ \/ \E kind \in Kinds :
              /\ There(t, kind) /\ (kind = "gz" => <<t, "plain">> \notin listed)
              /\ out' = out \o TakenFrom(LinesIn(t, kind))
       \/ <<t, "plain">> \in listed \ Stored /\ UNCHANGED out
    /\ UNCHANGED <<vars, reading, stays, unseen, calm>>

\* May the listed file of this kind not read?
MayFail(t, kind) ==
    IF kind = "plain" THEN MayBreak(plain[t]) ELSE Torn(gz[t])

\* The newest archive left: its plain file if that is there and reads, else its
\* .gz, else nothing.
ReadArchive(t) ==
    /\ reading = "archives" /\ IsNewest(t)
    /\ listed' = {f \in listed : f[1] # t}
    /\ \/ \E kind \in Kinds :
              /\ There(t, kind)
              /\ kind = "gz" /\ There(t, "plain") => MayFail(t, "plain")
              /\ out' = out \o TakenFrom(LinesIn(t, kind)) /\ UNCHANGED unseen
       \/ /\ \A kind \in Kinds : There(t, kind) => MayFail(t, kind)
          /\ unseen' = unseen \cup EntriesIn(content[rolled[t]]) /\ UNCHANGED out
    /\ UNCHANGED <<vars, reading, stays, calm>>

Answer ==
    /\ reading = "archives" /\ listed = {} /\ reading' = "done"
    /\ UNCHANGED <<vars, out, listed, stays, unseen, calm>>

Read == ReadLive \/ ListArchives \/ (\E t \in Tags : ReadArchive(t)) \/ Answer

ReaderNext ==
    \/ /\ Next
       /\ stays' = stays \cap Readable'
       /\ calm' = (calm /\ (reading = "list" => rolled' = rolled))
       /\ UNCHANGED <<reading, out, listed, unseen>>
    \/ Read

ReaderSpec == ReaderInit /\ [][ReaderNext]_rvars

ReaderFairSpec == ReaderSpec /\ Fairness

-----------------------------------------------------------------------------
\* What can be read all along is in the answer, unless every listed file of
\* its archive was gone when its turn came, or its file did not read as text: a
\* roll during the read hides nothing, as the live file is read first
\* (read_recent).
ReadsWhatStays == reading = "done" => stays \ Range(out) \subseteq unseen

\* The answer is newest first, and no entry is in it twice, unless a roll came
\* between the read of the live file and the listing (read_recent).
NewestFirst == calm => \A i, j \in DOMAIN out : i < j => out[i] > out[j]
=============================================================================
