# HivLLM in TLA+

HivLLM is a proxy that gathers OpenAI-compatible backends (vLLM, Ollama, other
HivLLM instances, ...) into one "hive" and routes each request by model to the
least loaded backend. This directory holds TLA+ models of it, the TLC
configurations that check them, and TLAPS proofs. Paths below are those of the
repository (`src/hive.rs` is `src/src/hive.rs` in `PROJECT.json`).

To check a module: `tlc -config <cfg> <MC module>`; to check proofs:
`tlapm <...Proofs>.tla`.

## The system

| component | state | operations | talks to |
|---|---|---|---|
| Request proxy, `hive.rs` `proxy_by_model` | per request: candidates, attempt, in-flight guard, stream task | parse, rank, filter by Via, send, fail over, drain, read or stream, log, answer; cancelled when the client leaves | balancer state, backends over HTTP, log queue |
| Load balancer, `hive.rs` `candidates`/`aggregate_load`, `load.rs` | `loads`, `inflight`, `cooldown`, `rr` | rank and rotate, count, cool, poll, report an aggregate to peers | proxy, membership, peer hives |
| Membership, `hive.rs` `refresh`/`set_endpoints` | `endpoints`, `missed_scans`, `scan_lock` | serialised scan passes, grace for missing members, self filter, install | discovery, Docker watcher, balancer |
| Path vector, `hive.rs` `advertised_paths`/`without_self`/`without_visited`, `discovery.rs` `hive_paths` | per member and model: routes as lists of hive ids | advertise, record, drop routes through oneself, refuse visited hives | other hives |
| Discovery, `discovery.rs` | none (credentials are fixed) | list ports, probe, merge | backends, `ss`, `docker` |
| Docker watcher, `docker.rs` | the event subscription | wait, coalesce, trigger a scan, reconnect | Docker API, membership |
| Log queue, `logging.rs` `RequestLogger` | bounded channel, writer task | log, flush | proxy, log file |
| Log file, `logging.rs` `JsonLinesSink` | live file, its size, archives | append, roll, gzip, prune, read back | file system |
| Stream reconstruction, `logging.rs` `TeeStream`/`StreamAcc` | line buffer, accumulated answer | feed, summarise | proxy |
| Lifecycle, `main.rs` | background tasks | first scan, loops, graceful shutdown and flush | all |
| Configuration, multipart reader, API key and CORS layers | none | parse, check | proxy |

Everything runs on a multi-threaded tokio runtime: any two handlers, scans and
polls interleave at every await, and between threads at every lock. Hard to
test, and so what the properties are about: exits of a cancelled or failing
handler, state read twice around an await, the order of log and answer,
failover lists under concurrent failures, ties and wrap-around in the rotation,
overlapping scans, routes that circulate between hives, lost Docker events, a
full log queue, rolling beside compression, shutdown. `PROJECT.json` lists each
at its line.

## Modules

### `Ranking` (with `OrderProofs`)

Pure operators: `EffectiveLoad` (`load::effective_load`), the rank key order
`RankedBefore`, `Tied`, `Place`, `Candidates` (`Hive::candidates`: stable sort
by (cooling, effective load), each run of equal keys rotated by the turn),
`NextTurn` and `AggregateLoad`. A backend is a natural number, its position in
the endpoint list, which the code keeps sorted by base URL; that is what makes
the stable sort a definition by counting: a member's place is one more than the
number of members ahead of it plus its rotated index in its run.

### `Balancer` (with `SequentialProofs`, `MCBalancer`)

One model's view in one hive (members, polled loads, counts, cooling backends,
turn) under arbitrary change, with `Decide` for a routing decision. It isolates
what a decision promises from what happens to the request afterwards.

### `Proxy` (with `ProxyProofs`, `MCProxy`)

The request path. `pc[r]` is the await the handler of `r` is suspended at:

| stage | code | leaves by |
|---|---|---|
| idle | before `proxy_by_model` | `Receive` (parsed, or 400) |
| routing | `hive.candidates(..).await` | `Rank` |
| filtering | `hive.without_visited(..).await` | `Filter` (404, 502 loop, or on) |
| sending | the top of the candidate loop | `Send` (`track_inflight`) |
| waiting | `req.send().await` | `Answer`, `ReadTimeout`, `Unreachable` |
| draining | `resp.text().await` of a refusal | `Drain` |
| reading | `resp.bytes().await` | `ReadBody` (whole, timed out, cut) |
| logging | `log_query(..).await` | `Log`: entry queued, guard dropped, answer handed to the server |
| answering | the server writes the answer out | `Deliver` |
| streaming | the spawned task at `rx.await` | `Settle`: the oneshot was sent on, or its sender is gone |
| settling | `log_query(..).await` of that task | `LogStream`: entry queued, guard dropped |
| done, gone | answered and logged; cancelled | |

A streamed answer is a `body` (`TeeStream`) with a `oneshot` to that task. `EndBody`:
`poll_next` came to the end and sends. `BreakBody`: the backend's side failed, which is
noted and passed on, but nothing is sent. `DropBody`: the server lets go of a body that
broke, or whose client left, and the sender goes with it. What the task then says of the
stream is `StreamError`.

`ClientGone` drops the handler's future at any of its awaits, or the answer before it is
delivered. `Rescan`,
`RefreshLoad` and `CoolOff` are what the rest of the hive does to the state the
path reads. The list of candidates is kept as the set `left` with their
`place`s; `at` is the candidate being tried. `verdict` is what each attempt came
to, and `shunned` (history) is who was cooling when the request was ranked.

Abstractions: one model; the four classes of upstream status the handler tells
apart (`ok`, `busy` = 429/503, `broken` = 500/502, `refused` = other); payloads,
headers, authentication and wording left out; a member on the request's Via path
is a member of `via[r]` (routes are the subject of `HiveMesh`); a
cooldown may run out at any moment, since the model has no clock; `candidates`
is one step, as is everything between two awaits that touches shared state once.

### `Membership` (with `Scans`, `MembershipProofs`, `MCMembership`)

The scan passes of one hive. A pass (`main`'s first scan, its timer loop, the
Docker watcher) waits at `scan_lock` (`queue`: tokio's mutex is first come, first
served), makes its listings (`Begin`), runs its probes (`Probe`, in any order, each
one step at the moment the answer is made) and installs (`Install`: the merge of
`merge_endpoints`, the self filter of `without_self`, `carry_over_missing` and
`set_endpoints` with its sweep of the round-robin counters, one critical section
under the write lock of the endpoints). Meanwhile `Change` moves the backends and
`Route` makes counters. `Jobs` says how each base URL is looked for: pinned, as a
labeled container, or as a port of the machine; in every pass (`sure`: pinned URLs,
well-known and extra ports) or only if one of the listings that can show it does (the
Docker API, `docker ps`, `ss`). `listed` is the lines of a pass's listings, each of which
may fail and then shows nothing; a port that `docker ps` shows carries the label of a
container. A backend that no pass is sure to probe (`OnlyListed`) may be missed while it
serves. A container has one port to probe.

`Scans` is the abstract specification: no passes, no probes, no lock, a `Scan` is
one step in which every backend either answered, with models it had at some time
since the scan before, or was not serving at some time since then, or only listings tell of it; a
member that did not answer keeps its place until it has missed `Patience` scans in a row. `Membership` implements it with the map
`silent <- missed`; `since` (history) is what a backend has been since the last
install.

Left out: the routes of hive members (`HiveMesh`), and `refresh_load` (`LoadPolls`;
its effect on the balancer is `Balancer`'s `Poll` and `Proxy`'s `RefreshLoad`).

### `HiveMesh` (with `HiveMeshProofs`, `MCHiveMesh`)

Several hives that know each other's addresses (`Links`), for one model. `view[h][p]`
is what hive `h` has installed of place `p` (another hive, or `Own`, its own backend): is
it a member, under which instance id, with which routes. `Scan(h)` is one pass: `Found`
asks every place (`Adverts` is `advertised_paths`: loop-free routes, `MaxHops`, the
shortest `MaxPaths`), `Received` is `hive_paths` (the member's id in front), `Taken` is
`without_self`, `carry_over_missing` and the installation. Probes in the set `quiet` are
answered too late. `Crash` and `Start` stop a hive and start it under a new id, with an
empty view. One request is a chain of frames, `call`, one for each hive it is at:
`Arrive`, `Filter` (`without_visited`, a second look at the members), `Send`, and
`Reply`/`PassOn`, which carry 502 back to the next candidate of the hive before and
everything else back to the client.

Abstractions: a scan is one step (`Membership` shows what passes amount to), candidates
come in any order (`Balancer`), of a hive's backends there is one (`Own`), an
answer is one of ok, 404 and 502 (`Proxy` has the others).

### `LoadPolls` (with `LoadPollsProofs`, `MCLoadPolls`)

How the load of one model gets from servers through hives. `StartPoll` takes the
snapshot of the members, `Hear` is one probe at the moment its answer is made
(`MetricsSay`, `LoadSays`: the chain of probes of a server, by its kind; `HiveSays`:
`aggregate_load` of the hive asked, taken if exact), `HearNothing` a lost one, `EndPoll`
the replacement of the load map. Meanwhile servers get busy (`Work`), requests fly
(`Fly`, `Land`: the in-flight counts) and scans change members (`Scanned`). `had` (history)
is every number a server has had. Left out: the text of `/metrics`.

### `StreamLog` (with `LoggingProofs`, `MCStreamLog`)

`TeeStream`, `feed_sse`, `StreamAcc` and the task that logs a stream. Bytes are positions;
a script is the events of a stream's lines, each line with a length; `Feed(to)` passes a
chunk that ends anywhere. `Ending` is the lines that end in it as the buffer has them,
`Heard` what they say, `TooLong` and `skipping` are the line limit. `Apply` merges a chat chunk (`ApplyChoice`, `MergeToolCall`)
or a Responses event (`ApplyResponsesEvent`, `ApplyFinal`); `Summary` is what is logged.
`WholeChat` and `WholeResponse` define, from the lines alone, the complete answer the
events add up to; the entry must be that of `ExtractResponse` on it. Left out: UTF-8 and
JSON parsing (what is left of a skipped line's text may read as an event, `Remnant`).
`Chats` and `Streamed` are the streams a backend may send: chat chunks, or events of the
Responses API of which no text comes after the final object (which is what makes that
object final: `response.completed` is the last event of a response). `usage` is not
compared: the entry has the last one of the stream.

### `Keys` (with `OrderProofs`) and `Readers` (with `SequentialProofs`, `MCReaders`)

The pure parts of the request path and of discovery. `Keys` has `Credentials`: a URL is a
sequence of characters, `Ordered` the list that `new` sorts, `ForUrl` the entry that
`for_url` finds in it, and `Nearest` what that is meant to be, said without a list. `Readers`
has each part as one action on an input: `ParseRequest` (`parse_request` with
`multipart::parse`, `field`, `describe`), `ForUrl`, `MergeEndpoints` (`merge_endpoints`: models, routes,
id and static mark; not `model_meta`, nor the order of the result). A form is a sequence of tokens (delimiter, line break, dashes, header block, byte), cut
anywhere. Left out: the syntax of a header line, scheme and host parsing.

### `LogQueue` (with `FlushedLog`, `LoggingProofs`, `MCLogQueue`)

`RequestLogger` between its callers and the file. A caller is also its message: a
handler or a stream's task (an entry), a reader or the shutdown (a flush). `Call`
is the call of `log` or `flush`; `Reserve` and `Push` are the two halves of tokio's
`Sender::send` (a permit, then the slot: callers holding permits may push in any
order, and one that leaves gives its permit back, `Cancel`); `TakeEntry`,
`AnswerFlush` and `Emit` are the writer's loop; `Signal`, `Settle` and `Exit` are
`run` after `axum::serve`: no new connection, every request over, the 200 ms pause,
the flush, the end. `accepted` and `asked` are histories. Permits are handed out in
any order here, first come first served in tokio: more behaviours, same properties.
A handler drops its entry if its client leaves while it waits for room.

`FlushedLog` is the abstract specification: a log without channel, permits or writer, to
which an entry is accepted (`Accept`), whose file follows what was accepted (`Write`), and
whose flush (`Ask`, `Return`) returns once everything accepted before it is in the file,
unless its caller leaves first (`Leave`). `LogQueue` implements it (`QueueIsUnseen`) with
`written <- file`, and a flush that is waiting in any stage between call and answer
(`FlushStates`).

### `LogRotation` (with `LogRotationProofs`) and `LogReader` (with `MCLogRotation`, `MCLogReader`)

`JsonLinesSink` and `read_recent`. A file is a number whose lines are in
`content`; `path`, `plain`, `gz` and `tmp` are the names that lead to files. An
emit goes through `at`: `FollowPath` (the `stat`), `Reopen`, `Rename` and `Recreate`
(`roll`), `Write`; each of these is one system call at which the background tasks, the
operator (`Meddle`), a kill (`Restart`) or a reader may come in between. Task `t`
is the `spawn_blocking` of the roll with tag `t`: `Copy`, `Name`, `Unlink`
(`gzip_in_place`), `List`, `Prune` (`prune_archives`, which in the model deletes in
any order). `Faulty` says which operations may fail. `LogReader` adds one read:
`ReadLive`, `ListArchives`, then `ReadArchive` newest first. Its histories: `stays`,
the entries that could be read at every moment of the read; `unseen`, the entries of files
that were gone at their turn or did not read as text; `calm`, that no roll came between the read
of the live file and the listing. A file is read as text, all of it or nothing
(`read_to_string`): one that is being appended to, or has a torn line, may break off within
a character and then counts as empty (`MayBreak`, `MayFail`).

Abstractions: an entry has size one and `MaxLines` is the size limit; tags are
numbers, which assumes a clock that goes forward and a live file whose name has an
extension; a read has no limit, and can open the files that are there; one process and one sink write the file (a second
one is warned about by `open_append`, and its rolls may lose lines).

## Runs

| run | configuration | bounds | shows |
|---|---|---|---|
| balancer | `MCBalancer.cfg` | 3 backends, 3 loads, at most 1 in flight each, turn modulo 4, 3 decisions remembered | `EveryMemberOnce`, `NeverBeforeBetter`, `TiesTakeTurns` |
| proxy_pair | `MCProxyPair.cfg` | 2 requests (symmetric), 2 backends, the second may leave, the first may be a visited hive | `InflightExact`, `LogTellsTruth`, `CoolingAskedLast` |
| proxy_deep | `MCProxyDeep.cfg` | 1 request, 3 backends, every scan and poll, turn modulo 4 | `OnlyFailuresRetried`, `GivesUpLast`, `Answered`, `StreamSettled` |
| membership | `MCMembership.cfg` | 1 backend with 2 probes (pinned, and a port that `ss` and `docker ps` may show), 4 conditions (down, this hive, up with no model or one), drop_after 2, 3 passes | `ScansAreAtomic`, `ListFollows`, `PassesEnd`, `CountersGo` |
| mesh | `MCHiveMesh.cfg` | 3 hives in a ring, two of them with a backend, requests arriving at two of them, 1 fault, drop_after 2, 2 hops, 1 advertised route | `RoutesLeadOn`, `SentBackOnlyIfLost`, `GhostsDie`, `SettledServes` |
| loads | `MCLoadPolls.cfg` | 2 hives in a chain and a server of 5 kinds, 2 numbers, 1 request in flight, 1 lost poll, members that come and go | `ExactIsFact`, `StaleFactsDie` |
| loads_circulate | `MCLoadPollsMutual.cfg` | 2 hives that are members of each other, each with a server | the disagreement below |
| log_queue | `MCLogQueue.cfg` | 2 handlers, 1 stream, 1 reader and the shutdown, channel of 2 | `KeptInOrder`, `FlushCovers`, `ExitKeepsAnswered`, `QueueIsUnseen`, `CallsSettle`, `ShutsDown` |
| log_rotation | `MCLogRotation.cfg` | 4 entries, a roll per entry, 1 archive kept, 1 failure of any kind, 1 intervention, 1 kill | `NothingLost`, `WritesFollowPath`, `RollsInTime` |
| log_reader | `MCLogReader.cfg` | 3 entries, a roll per entry, 1 archive kept, 1 rename or write that fails, 1 intervention, no kill | `ReadsWhatStays`, `NewestFirst`, `ArchivesSettle` |
| stream_log | `MCStreamLog.cfg` | 3 streams of up to 5 lines of length 1, 2 or 4, limit 1, any chunks | `EntryRebuilds`, the bound on the buffer (`StreamTypeOK`) |
| readers | `MCReaders.cfg` | forms of up to 2 parts, cut anywhere; up to 3 keys for 8 URLs; up to 2 + 2 endpoints | `RequestsReadRight`, `NearestKey`, `MergeKeepsAll` |

The type invariants are checked along the way; those of `Balancer`, `HiveMesh`,
`LogRotation` and `LoadPolls` are proved (below) and not run.

Three backends give a run of three tied ones and a backend between two of
another rank; a turn modulo 4 wraps within a run of three, which the bound
excludes from `TiesTakeTurns` (once in 2^64 decisions a backend goes first twice).
Two requests are what two handlers can do to one backend's count and cooldown;
the proofs cover the other sizes.

One backend in two probes shows what a pass can get wrong about it (probes that
disagree, an answer older than another pass's install, a miss counted twice), as
no step of a pass relates two backends; drop_after 2 has a scan kept and a scan
that ends the grace, and three passes let two wait while one probes.

In the ring a request may pass all hives and come back to the first; `MaxHops` 2
cuts routes that pass all three, `MaxPaths` 1 drops one of the two a hive may know of
the two backends, drop_after 2 keeps a ghost for a scan, which is what circulating
routes live on. The one fault is a lost probe or a hive that starts again under a
new id. Requests arrive at a hive with a backend and at the one without, the two that
differ. In the chain of loads a number passes a hive on its way, and with it everything
that may make it look exact: a server without `/metrics`, one whose `/load` always says
0, a hive's own count; two numbers let an old and a new one differ. For the
disagreement two servers and one link that comes and goes are enough.

Lines of length 1, 2 and 4 with limit 1 are within the limit, over it in one chunk or
two, and over it so far that a part of them is discarded and the rest is still too long.
A form with two parts has a first and a last of a name; the contents have every
token that could be taken for structure.

Five messages on two slots keep the channel full while its callers and the writer
can move. Four entries with a roll each give three archives: one task prunes what
another is still compressing while a third is new; the two archives of log_reader
are the least for that. The reading run has a rename that fails, which puts two lines
into one file, or a write that tears a line, and no failure of a task, so `ArchivesSettle` is claimed for tasks that
succeed; log_rotation has failures of every kind, one at a time. Deadlock is not checked where the process ends or the entries run out.

The operators headed "Seeded bug" are broken variants of a step or operator;
putting one in the place of the original makes TLC find the property violated
that is meant to notice it (`mutants` in `PROJECT.json`).

Fairness: `Proxy`'s `FairSpec` assumes that a handler, or a stream's task, that can move
moves (`WF_vars(Handler(r))`), and that the server drops a body that has failed
(`BreakOff`: hyper ends the connection on an error of the body). A handler waits for its backend, and that wait is
bounded by the connect timeout (5 s) and the read timeout (600 s by default;
with `--read-timeout 0` the assumption is the operator's), for its body under
the same read timeout, given that a body is finite, and for the log queue, which
its writer empties. Nothing is assumed to end a stream or break it, to make a client take its answer or leave,
or to run a scan. `Membership`'s `FairSpec` assumes that the timer comes round
(`--scan-interval` is 30 s by default; with 0 its liveness is not claimed) and that
a pass that can move moves: every probe has a 2 s timeout and every helper command
one of 5 s. It assumes nothing of the Docker watcher or of the backends.
`LogQueue`'s `FairSpec` assumes that callers with room, the writer and `main` go on
(the runtime polls what is ready, and a write to a file ends); not that requests
come, that clients stay or that the signal arrives. `Settle` is fair because
`ShutsDown` is about the queue: that the requests before it end is `Proxy`'s
`Answered`. `LogRotation`'s assumes that an emit once begun and a started task go on.
`HiveMesh`'s assumes the scan timer of every hive that runs, and that a request goes on
(its client stays; timeouts as in `Proxy`); not that a hive starts again or that a
backend stays. `LoadPolls`'s assumes that polls come round (`--load-interval` is not 0)
and end, as every probe has a timeout.

## Where code and documentation part

- *loads_circulate*: two hives that are members of each other, each with a server of
  its own, can hand an old exact number to each other for ever after both servers have
  become busier: `aggregate_load` includes what another hive reported, `/load` does not
  leave out the hive that asks. `README.md:62-67` has it that "a stale number can't
  circulate hive-to-hive as fact". Without such a cycle it cannot (run *loads*), and in
  a cycle the number is one a server has had (`ExactIsFact`, proved). Two such hives
  that know each other from the start, with servers that are busy, never report
  anything exact: to each the other's unknown load counts as 0, the minimum.

Seen in the code and not run here:

- A 429 or 503 from the last (or only) candidate starts no cooldown, since
  `mark_failed` sits under `!is_last` (`README.md:49` has every such backend cool).
- A query whose client leaves before its answer has no log entry; one whose client
  closes the connection right after `[DONE]` may be logged as "ended before completion".
- A container member that is missing from one scan leaves at once, although all that is
  known is that one probe was late or one listing failed. A port that is neither pinned,
  well known nor extra is missed as well, up or not, when `ss` and `docker ps` fail.
- A write that fails half way leaves a line without its end; the next entry is appended
  to it and neither can be parsed.
- A line that broke off so within a character, or that is being written and has come so far,
  hides its whole file from a read: `read_to_string(..).unwrap_or_default()` gives no text
  (`logging.rs:1014`; `read_archive` likewise), although `logging.rs:998-999` says that "lines
  that don't parse (e.g. one being written) are skipped".
- An archive that is compressed between the listing and its turn is skipped by a read,
  since only the name of its plain file was listed; older archives follow
  (`ReadsWhatStays` allows this and a file that does not read, and nothing else).
- `read_recent` reads the live file and then lists the archives (`logging.rs:1014-1015`). If
  the log rolls in between, the archive listed first is the file just read, and its entries
  come a second time, after older ones (`logging.rs:998-999` and `README.md:99` have "newest
  first"). `NewestFirst` allows this and nothing else; the other order of the two steps
  would let a roll hide the live file's entries.
- `aggregate_load` disregards the cooldown, so the load a hive tells its peers may
  be that of a backend it would itself try last (`hive.rs:336` calls it "the load the
  next request would face").
- `candidates` and `without_visited` each read the endpoint list; a visited hive that
  a scan drops in between is not excluded any more but is still a candidate. And a hive may
  get its own request back where a list has it under an id from before its last start, which
  the request's path does not name (`README.md:70-73`). `SentBackOnlyIfLost` allows these two
  and nothing else.
- A peer that has just lost a model answers 404, which is passed on although another
  candidate serves it (`README.md:49-51`, `hive.rs:820-833`). `SettledServes` has this end
  once every hive and every backend has settled. It need not end before: if a hive with a
  backend that stays knows a peer whose own backend comes and goes, requests it sends there
  may be answered 404 again and again.
- `without_self` drops an address that now leads to this hive before
  `carry_over_missing` sees it, which then keeps the former member as missing.
- Of two form fields of one name the first routes the request and the last is logged
  (`RequestsReadRight` compares what routes and the names that are logged, not their values).
- An SSE line over the limit is kept if it arrives in one chunk.

## Proofs

All for any number of requests, backends, loads and probes, assuming only
`ProxyConstants`, `BalancerConstants`, `MeshConstants`, `PollConstants`,
`LogQueueConstants`, `LogRotationConstants` (finite sets, types),
`MembershipConstants` (types; two probes of one base URL are a pinned one and
another, and a pinned one is sure), `ReadersConstants` (types; no part holds the delimiter, which its client chooses
so, and a header block is no line break) or `StreamLogConstants` (types; every stream is one of
`Chats` or `Streamed`).

- `OrderProofs`: places are distinct (`PlacesDiffer`), lie in 1..n
  (`PlaceInRange`) and respect the rank (`BetterIsFirst`). The argument counts:
  if b is ranked before c, everyone ahead of b and everyone tied with b is ahead
  of c (`AheadGrows`), and a rotation stays inside its run (`OffsetInRun`,
  `OffsetsDiffer`). An injection between sets of one size is onto, so the
  candidate list is a permutation (`CandidatesArePlaced`). Who is first at two turns
  has the same index modulo the size of its run, so it is first again only after as many
  turns as there are members tied (`FirstAgain`). The same counting sorts the keys
  (`KeysAreOrdered`); the first that covers a URL is then no shorter than any other that
  does, and who covers it lies on its way up (`CoversIsAbove`): that is the nearest
  (`ForUrlIsNearest`, for any alphabet, entries and URL; `NearestKey` compares the two sides).
  Induction is proved there once as a fact about sets: a set of numbers that is not empty
  has a least element (`LeastExists`, from the library's well-founded `<`), so a set with 0
  and every successor has all numbers (`EveryNumber`) and one with `<<>>` and every `Append`
  all sequences (`EverySequence`). The lemmas on flattening (`FlattenNext`, `PickedNext`,
  `JoinedNext`) come from it.
- `SequentialProofs`: type correctness of `Balancer`, `EveryMemberOnce`, `NeverBeforeBetter`,
  and `TiesTakeTurns`: as long as the view stays, every remembered decision chose who is first
  at its turn, and one turn went by with each (`Remembered`); by `FirstAgain` none of the
  tied is then first twice within as many decisions. It assumes a turn space no smaller than the number of backends
  (`BalancerConstants`; it is 2^64 in the code), and says nothing of the wrap-around itself.
  Of `Readers`, all three properties. `NearestKey` is `ForUrlIsNearest`. `MergeKeepsAll`: adding
  one endpoint adds what it brings and nothing else (`AddKeepsAll`), so every beginning of the
  list found is merged without loss (`MergeKeeps`, by induction). `RequestsReadRight` rests on
  `FormIsRead`: blocks keep their places as more are written (`MarkedNext`), so the delimiters of
  a form are where its blocks begin and nowhere else (`WrittenStructured`), at one of them the
  part behind is taken if the next has arrived (`TakenAt`), what is between the two reads as
  that part (`PartIsRead`), and elsewhere nothing is taken (`TakenNowhere`).
- `ProxyProofs`: `TypeOK` is not inductive alone (a guard must be known to be on
  a backend, a drained answer to be retryable), so `TypeCorrect` proves it with
  `AttemptKnown`. `InflightNeverLeaks` adds one guard's worth of counting per
  step (`GuardTaken`, `GuardDropped`, `SameGuards`); it implies that the drop's
  `saturating_sub` never saturates. `OnlyFailuresAreRetried`,
  `FailoverIsComplete` and `LogIsTruthful` follow from one invariant,
  `AllAccountable`, which says at each stage what the answer will rest on; `LogIsTruthful`
  also from `AllTeed`, which says how body, oneshot and the task's stage go together.
  `FailedComeLast` rests on `BetterIsFirst` through `AllShunning`.

- `MembershipProofs`: `Spec => ScansAreAtomic`, by `InstallIsScan`: every install is
  one abstract scan, every other step of a pass is invisible. It rests on
  `OnePass` (a probing pass is the head of the queue, so there is one) and on
  `FoundSince` (what a pass has found was so since the last install), which only
  `OnePass` makes inductive: an install empties the history, so no other pass may
  hold findings then.

- `LoggingProofs`: `FlushCovers` rests on two facts: an accepted entry is in the
  file, at the writer or in the channel (`Somewhere`), and what a flush in the
  channel must cover is written or in front of it (`InFront`); the writer's turn at the
  flush then finds nothing ahead. `ExitKeepsAnswered` adds that no request is under
  way once the server has stopped (`Quiet`), so the shutdown's flush covers all of
  them (`Covered`). The channel's bound needs the permits counted (`PermitsFit`).
  `KeptInOrder`: the file, the entry at the writer and the entries in the channel, one after
  the other, are what was accepted (the filter over the channel is reasoned about through
  the number of entries in front of each place). On these facts rests the refinement,
  `QueueImplementsLog`: `Push` of an entry accepts it, `Emit` writes, `Call` of a flush asks,
  `AnswerFlush` returns, a departure leaves, and every other step is invisible.
  Any number of callers, any capacity (`LogQueueConstants`).
  `StreamTypeOK` and `EntryRebuilds` come from one invariant, `StreamInv`, for any streams,
  lengths and cuts. `EntryRebuilds` says nothing until the entry is made, so what it rests on
  must be said at every byte: where the buffer begins (`Buffered`: at the start of a line, or
  within one that is over the limit and being skipped), and that what
  was accumulated is what the lines up to there say, with every line up to the limit and some
  of the longer ones (`HeardWhole`); `EntryMade` carries it into the entry. A chunk keeps it
  (`FeedKeeps`): the lines that end in it are heard in order, the first only if it is not the
  rest of a skipped one (`FeedHears`). What is left is about sequences, by induction on
  the events: merging a chunk's deltas one by one adds up to the choices of the complete answer
  (`ChatRebuilt`: contents, reasonings and arguments are concatenated, of ids the first and of
  finish reasons the last is kept, `FirstNext`, `MergeAll`), and so do a response's deltas, with
  the final object for what they left out (`ResponseRebuilt`).

- `HiveMeshProofs`: `RoutesLeadOn` is inductive with types, `DownIsBlank` (a hive that
  is down knows nothing), `OwnIsDirect` and `IdsAreTheirs` (a member is known under an id
  it has had, and not under this hive's). `FoundRoutes` is the core: the routes a probe
  brings have the member in front and pass no hive twice, because what was advertised
  leaves out the member's own id; `TakenIsGood` carries it through the installation.
  `NeverSentBackToKnown` needs two facts more about a request: the ids of the hives it is
  at are on its Via path under the ids they run with, as a hive that stops takes its requests
  with it (`Chain`), and every route of a listed hive starts with the id it is listed under
  (`WayLeadsBack`), so the filter catches it unless that is an older one. That its present
  id is on the path does not help then, so the exception is about the list's id.

- `LoadPollsProofs`: every exact load a hive keeps, or was told in a running poll, is one
  some server has had (`AllFacts`). An aggregate is one of the loads it is taken from
  (`AggregateIsOne`: a set of naturals has a least element), and an effective load is
  exact only if the polled one was (`ExactWasFact`). This holds in cycles of hives too;
  that old facts die does not.

- `LogRotationProofs`: `NothingLost` rests on `Names` (every file is at the path, was taken
  by the operator, or was rolled under one tag), `Copies` (a compressed archive is equal to
  the file that was rolled, since that file is never the live one again: the task
  starts after the new live file is open) and `Kept` (an archive without plain or compressed
  form was outnumbered, and so is whatever a task still has to delete). Tasks prune beside
  each other, so that must be stable: `OutnumberedLess` shows that removing an
  outnumbered archive leaves everyone outnumbered who was. `WritesFollowPath` needs only
  `Following` beside it; `RollsInTime` needs `Sized`: the sink's count is no less than the
  lines of the live file, and where a line is due there is room or a roll has failed.
  The reader's two properties are about the same invariant and one more, for any number of
  entries, archives, failures and interventions. `Found`, for `ReadsWhatStays`: at each
  stage of a read, what stays readable is in the answer, or is in an archive still listed or
  to be listed, or is in a file that was gone or did not read. `Fresh` and `InOrder`, for `NewestFirst`: an entry about to be written is newer
  than all that were, and the files, in the order of their tags and the live one last, hold ascending entries, although
  a writer may still append to the archive it had open; `Reading` says that what is still to
  be read is older than what has been (`ComesNext`).

Every invariant and every action property of the runs is thus a theorem, the two refinements
included. Model-checked only are the liveness properties (`Answered`, `StreamSettled`,
`ListFollows`, `PassesEnd`, `CountersGo`, `CallsSettle`, `ShutsDown`, `ArchivesSettle`, `GhostsDie`,
`SettledServes`, `StaleFactsDie`): liveness under fairness and ENABLED are beyond the prover.

## Plan

What is left, in this order:

1. The refinement of one hive of `HiveMesh` by `Membership` with routes, that is, a mesh
   whose scans overlap.
2. The log file's name with and without an extension (a `.gz.tmp` is an archive of its
   own to `tag_of` without one), and a second process on the same file.

## Not modelled

- Configuration (`config.rs`): flags over a file over defaults, secrets read from a file;
  each value is a single expression, and none has a state. The models take them
  as constants.
- API key and CORS layers, routes, the handlers that only list what is installed: stateless.
- Reading the output of `ss` and `docker ps`, joining URLs, the text of `/metrics`, the
  syntax of a form's header lines: text without state. Wrong text gives a missing backend
  or an unknown load, which the models have.
- The Docker event stream, its coalescing and its reconnection: all that comes of it is
  when a pass is asked for, and in `Membership` that is any time or never.
- The 200 ms pause before the last flush: a matter of clock time; `LogQueue` lets a stream's
  task log at any moment and claims its entry only if a flush comes after it.
- Docker image and packaging.
