------------------------------- MODULE Readers -------------------------------
(***************************************************************************)
(* What hivLLM reads without a state of its own: the model of a request,   *)
(* from its URL, a JSON body or an uploaded form (parse_request in hive.rs, *)
(* multipart.rs); the key a backend is sent (module Keys); and the          *)
(* endpoints that several finders found (merge_endpoints).  Each is an      *)
(* action: some input, and what the code makes of it.                       *)
(*                                                                         *)
(* A form is a sequence of tokens: the delimiter, a line break, two dashes, *)
(* a block of headers, any other byte.                                      *)
(***************************************************************************)
EXTENDS Integers, SequencesExt, Keys

CONSTANTS
    Models,         \* names of models
    Heads,          \* header blocks of a form's parts
    Header,         \* what each of them says: [name, file]
    Contents,       \* what a part may hold: sequences of tokens
    MaxParts,       \* bound on the parts of a form
    Urls,           \* base URLs: sequences of characters
    MaxEntries,     \* bound on the keys that are configured
    Endpoints,      \* endpoints that are found: [url, source, id, models, paths]
    MaxFound,       \* bound on the endpoints one finder finds
    Nothing

ASSUME ReadersConstants ==
    /\ {MaxParts, MaxEntries, MaxFound} \subseteq Nat
    /\ \A c \in Contents : c \in Seq(ToSet(c)) /\ "delimiter" \notin ToSet(c)
    /\ Heads \cap {"delimiter", "newline", "dashes"} = {}
    /\ Nothing \notin Contents \cup {<<m>> : m \in Models}
    /\ \A h \in Heads : {"name", "file"} \subseteq DOMAIN Header[h]
    /\ \A u \in Urls : u \in Seq(ToSet(u))
    /\ \A e \in Endpoints : {"url", "source", "id", "models", "paths"} \subseteq DOMAIN e

VARIABLES
    job,        \* which operation: "none", "request", "key" or "merge"
    given,      \* its input
    result      \* what the code makes of it

readersVars == <<job, given, result>>

-----------------------------------------------------------------------------
(* Forms (multipart.rs).                                                   *)

Delimiter == "delimiter"
NewLine == "newline"
Dashes == "dashes"
Blank == <<NewLine, NewLine>>

StripPrefix(raw) == IF raw # <<>> /\ Head(raw) = NewLine THEN Tail(raw) ELSE raw
StripSuffix(raw) == IF raw # <<>> /\ Last(raw) = NewLine THEN Front(raw) ELSE raw

\* The part between two delimiters, if it has a blank line and a name.
PartOf(between) ==
    LET raw == StripSuffix(StripPrefix(between))
        blank == {i \in 1..(Len(raw) - 1) : SubSeq(raw, i, i + 1) = Blank}
        split == Min(blank)
        heads == {i \in 1..(split - 1) : raw[i] \in Heads}
        says == Header[raw[Min(heads)]]
    IN IF blank = {} \/ heads = {} \/ says.name = Nothing THEN <<>>
       ELSE <<[name |-> says.name, file |-> says.file,
               content |-> SubSeq(raw, split + 2, Len(raw))]>>

\* Seeded bug: the end of the body closes its last part.
MarksToEnd(body) ==
    {i \in 1..(Len(body) + 1) : i = Len(body) + 1 \/ body[i] = Delimiter}

\* Where delimiters are, up to the one that closes the body.
Marks(body) ==
    LET all == {i \in DOMAIN body : body[i] = Delimiter}
        closing == {i \in all : i < Len(body) /\ body[i + 1] = Dashes}
    IN {i \in all : \A c \in closing : i <= c}

\* From each of them to the next.
Parse(body) ==
    LET After(i) == {j \in Marks(body) : j > i}
    IN FlattenSeq([i \in DOMAIN body |->
         IF i \notin Marks(body) \/ After(i) = {} THEN <<>>
         ELSE PartOf(SubSeq(body, i + 1, Min(After(i)) - 1))])

\* The first text field of a name.
Field(parts, name) ==
    LET those == {i \in DOMAIN parts : ~parts[i].file /\ parts[i].name = name}
    IN IF those = {} THEN Nothing ELSE parts[Min(those)].content

Files(parts) == SelectSeq(parts, LAMBDA p : p.file)

\* What is logged of a form: of fields of one name, the last.
Describe(parts) ==
    LET texts == {i \in DOMAIN parts : ~parts[i].file}
    IN [form |-> [x \in {parts[i].name : i \in texts} |->
                    parts[Max({i \in texts : parts[i].name = x})].content],
        files |-> Files(parts)]

-----------------------------------------------------------------------------
(* Requests (parse_request).  A query's model is a name, or Nothing if it  *)
(* is empty or not there; a JSON body has a model unless it is not a string *)
(* or the body is no object.                                               *)

Json == [type : {"json"}, object : BOOLEAN, model : Models \cup {Nothing}, stream : BOOLEAN]
Garbage == [type |-> "garbage"]
Form(body) == [type |-> "form", body |-> body]

Refused(logged) == [ok |-> FALSE, logged |-> logged]

ParseForm(query, body) ==
    LET parts == Parse(body)
        named == IF query # Nothing THEN <<query>> ELSE Field(parts, "model")
    IN IF named = Nothing THEN Refused(Describe(parts))
       ELSE [ok |-> TRUE, model |-> named, forwarded |-> body, logged |-> Describe(parts),
             stream |-> Field(parts, "stream") = <<"true">>]

ParseJson(query, value) ==
    LET own == IF value.object THEN value.model ELSE Nothing
        named == IF query # Nothing THEN query ELSE own
        written == IF value.object THEN [value EXCEPT !.model = named] ELSE value
    IN IF named = Nothing THEN Refused(value)
       ELSE [ok |-> TRUE, model |-> <<named>>, forwarded |-> written, logged |-> written,
             stream |-> value.object /\ value.stream]

ParseRequest(query, content) ==
    CASE content.type = "form" -> ParseForm(query, content.body)
      [] content.type = "json" -> ParseJson(query, content)
      [] content.type = "garbage" -> Refused(Nothing)

-----------------------------------------------------------------------------
(* Endpoints found more than once (merge_endpoints).                       *)

\* Seeded bug: of a model that is known already no further routes are taken.
MergePathsOnce(old, new) == [m \in DOMAIN old \cup DOMAIN new |->
                                IF m \in DOMAIN old THEN old[m] ELSE new[m]]

MergePaths(old, new) == [m \in DOMAIN old \cup DOMAIN new |->
                            (IF m \in DOMAIN old THEN old[m] ELSE {})
                                \cup (IF m \in DOMAIN new THEN new[m] ELSE {})]

Merged(old, ep) ==
    [old EXCEPT !.models = @ \cup ep.models,
                !.source = IF ep.source = "static" THEN "static" ELSE @,
                !.id = IF @ = Nothing THEN ep.id ELSE @,
                !.paths = MergePaths(@, ep.paths)]

\* by_url with one more endpoint.
Add(byUrl, ep) ==
    [u \in DOMAIN byUrl \cup {ep.url} |->
        IF u # ep.url THEN byUrl[u]
        ELSE IF u \in DOMAIN byUrl THEN Merged(byUrl[u], ep) ELSE ep]

\* After each of them; byUrl[0] is the empty map.
MergeEndpoints(discovered, static) ==
    LET all == discovered \o static
        byUrl[n \in 0..Len(all)] == IF n = 0 THEN <<>> ELSE Add(byUrl[n - 1], all[n])
    IN byUrl[Len(all)]

-----------------------------------------------------------------------------
\* What clients upload: some bytes, the parts of a form, its end; as much of it
\* as arrives.
Parts == [head : Heads, content : Contents]

Written(form) ==
    FlattenSeq([n \in DOMAIN form |->
        <<Delimiter, NewLine, form[n].head>> \o Blank \o form[n].content \o <<NewLine>>])
    \o <<Delimiter, Dashes, NewLine>>

ReadForm ==
    \E form \in SeqOf(Parts, MaxParts), query \in {Nothing} \cup Models :
        \E cut \in 0..Len(Written(form)) :
            /\ given' = [form |-> form, query |-> query, content |-> Form(SubSeq(Written(form), 1, cut))]
            /\ result' = ParseRequest(query, given'.content)

ReadJson ==
    \E query \in {Nothing} \cup Models, content \in Json \cup {Garbage} :
        /\ given' = [form |-> <<>>, query |-> query, content |-> content]
        /\ result' = ParseRequest(query, content)

FindKey ==
    \E entries \in SeqOf(Urls, MaxEntries), url \in Urls :
        /\ given' = [entries |-> entries, url |-> url]
        /\ result' = ForUrl(entries, url)

Merge ==
    \E discovered \in SeqOf({e \in Endpoints : e.source # "static"}, MaxFound),
       static \in SeqOf({e \in Endpoints : e.source = "static"}, MaxFound) :
        /\ given' = [discovered |-> discovered, static |-> static]
        /\ result' = MergeEndpoints(discovered, static)

ReadersInit == job = "none" /\ given = Nothing /\ result = Nothing

ReadersNext ==
    /\ job = "none"
    /\ \/ job' = "request" /\ (ReadForm \/ ReadJson)
       \/ job' = "key" /\ FindKey
       \/ job' = "merge" /\ Merge

ReadersSpec == ReadersInit /\ [][ReadersNext]_readersVars

-----------------------------------------------------------------------------
(* Properties.                                                             *)

\* The parts of a form whose end, the next delimiter, has arrived, and that
\* have a name.
Arrived(form, body) ==
    LET End(n) == Len(Written(SubSeq(form, 1, n))) - 2
        Says(n) == Header[form[n].head]
    IN FlattenSeq([n \in DOMAIN form |->
         IF End(n) > Len(body) \/ Says(n).name = Nothing THEN <<>>
         ELSE <<[name |-> Says(n).name, file |-> Says(n).file, content |-> form[n].content]>>])

\* A request is routed by the model its URL names, or else its body, and that
\* body is the one the backend gets: a JSON object's model is what it is routed
\* by.  Of an upload, wherever it is cut and whatever its parts hold, exactly
\* the parts that came whole count, a field with its whole value, and what is
\* no text field is no model (multipart::parse, parse_request).  Of the
\* log's copy of a form the names are compared, not the values.
RequestsReadRight ==
    job = "request" =>
        LET query == given.query
            content == given.content
            arrived == Arrived(given.form, content.body)
            models == {i \in DOMAIN arrived : arrived[i].name = "model" /\ ~arrived[i].file}
        IN CASE content.type = "garbage" -> ~result.ok
             [] content.type = "json" ->
                  /\ result.ok <=> query # Nothing \/ (content.object /\ content.model # Nothing)
                  /\ result.ok /\ content.object => result.model = <<result.forwarded.model>>
                  /\ result.ok /\ query # Nothing => result.model = <<query>>
             [] content.type = "form" ->
                  /\ result.ok <=> query # Nothing \/ models # {}
                  /\ result.ok => result.model = IF query # Nothing THEN <<query>>
                                                 ELSE arrived[Min(models)].content
                  /\ result.logged.files = Files(arrived)
                  /\ DOMAIN result.logged.form = {p.name : p \in {q \in ToSet(arrived) : ~q.file}}

\* A backend gets the key of the nearest URL on the way up from its own that
\* has one, and no key that belongs to a host or a path that only begins like
\* it ("never http://gpu:80001"), however the entries are ordered and written.
NearestKey == job = "key" => result = Nearest(given.entries, given.url)

\* What merged says of the endpoints found.
KeepsAll(merged, found) ==
    LET There(u) == {e \in found : e.url = u}
        Routes(u, m) == UNION {e.paths[m] : e \in {d \in There(u) : m \in DOMAIN d.paths}}
    IN /\ DOMAIN merged = {e.url : e \in found}
       /\ \A u \in DOMAIN merged :
            /\ merged[u].url = u
            /\ merged[u].models = UNION {e.models : e \in There(u)}
            /\ \A m \in DOMAIN merged[u].paths : merged[u].paths[m] = Routes(u, m)
            /\ UNION {DOMAIN e.paths : e \in There(u)} = DOMAIN merged[u].paths
            /\ merged[u].source = "static" <=> \E e \in There(u) : e.source = "static"
            /\ merged[u].id = Nothing <=> \A e \in There(u) : e.id = Nothing

\* Whatever finders find, in whatever order: one endpoint for each URL, with
\* every model and every route that any of them found there, marked static if
\* the operator named it.  Models' metadata and the order of models and routes
\* are left out.
MergeKeepsAll ==
    job = "merge" => KeepsAll(result, ToSet(given.discovered \o given.static))
=============================================================================
