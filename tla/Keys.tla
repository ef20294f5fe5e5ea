-------------------------------- MODULE Keys --------------------------------
(***************************************************************************)
(* Which of the configured keys a backend is sent (Credentials in           *)
(* discovery.rs).  A URL is a sequence of characters, its scheme left out   *)
(* (normalize_base_url puts in a missing one); only the slash matters.      *)
(***************************************************************************)
EXTENDS Integers, FiniteSets, SequencesExt

\* normalize_base_url: without trailing slashes.
Normalized(url) ==
    SubSeq(url, 1, Max({0} \cup {i \in DOMAIN url : url[i] # "/"}))

\* Seeded bug: a key is sent to whatever begins like its URL.
CoversText(prefix, url) == IsPrefix(prefix, url)

\* The URL itself, or one below it on a path boundary.
Covers(prefix, url) ==
    /\ IsPrefix(prefix, url)
    /\ Len(url) > Len(prefix) => url[Len(prefix) + 1] = "/"

\* Of two entries, the one that Credentials::new sorts first: the longer, of
\* equally long ones the earlier.
Longer(entries, i, j) ==
    LET a == Len(Normalized(entries[i]))
        b == Len(Normalized(entries[j]))
    IN a > b \/ (a = b /\ i < j)

Ordered(entries) ==
    LET Position(i) == Cardinality({j \in DOMAIN entries : j = i \/ Longer(entries, j, i)})
    IN [n \in DOMAIN entries |-> CHOOSE i \in DOMAIN entries : Position(i) = n]

\* for_url: the entry whose key is sent to url, or 0.
ForUrl(entries, url) ==
    LET order == Ordered(entries)
        hits == {n \in DOMAIN order : Covers(Normalized(entries[order[n]]), Normalized(url))}
    IN IF hits = {} THEN 0 ELSE order[Min(hits)]

-----------------------------------------------------------------------------
\* What for_url promises: on the way up from the URL to its host, the first
\* entry of the first place that has any.
Nearest(entries, url) ==
    LET own == Normalized(url)
        above == {n \in 0..Len(own) : n = Len(own) \/ own[n + 1] = "/"}
        At(n) == {i \in DOMAIN entries : Normalized(entries[i]) = SubSeq(own, 1, n)}
        having == {n \in above : At(n) # {}}
    IN IF having = {} THEN 0 ELSE Min(At(Max(having)))
=============================================================================
