# Maxwell in TLA+

Maxwell watches a torrent client, converts every finished download to an mp4,
and uploads the result to object storage, while a VPN gate decides what may
run: downloads need the VPN (`SAFE`), uploads need the home network
(`UNSAFE`). This directory holds a TLA+ model of the program under `src/`, the
TLC configurations that check it on small instances, and machine-checked
proofs of what holds on every instance.

`PROJECT.json` maps every definition to the lines of code it stands for.

## 1. Inventory

| Component | State | Operations | Hard behaviours | What makes it correct |
|---|---|---|---|---|
| Job tables, `internal/queue/store.go` | rows of `downloads`, `conversion_jobs`, `upload_jobs`, `links` (and an `events` log) | insert-or-ignore, next queued, mark running / done / failed, pause, resume, record a link | two callers between two statements; a failed statement; restart | one row per key; the attempt budget; final rows stay final; done, URL and link together |
| Pipeline service, `internal/app/service.go` | none of its own: locals of the calls in progress | `SyncCompletedDownloads`, `ProcessOnce` (one conversion, one upload), pause/resume of jobs and torrents, `AddMagnet` | a claim that is a read and then a write; outcomes decided on what was read before a long call; one step of several failing | no attempt beyond the limit; nothing finished is redone; everything finished is handed on |
| Drivers, `internal/cli/cli.go`, `internal/web/server.go` (`handleRunOnce`) | a ticker; a deadline per cycle; the web command's listener and worker | web loop (4 s), `run --forever` (8 s), `run --cycles`, run-once request; start and shutdown | they run next to each other, in one process or several; deadline during a conversion; signal, failing listener, kill | a loop that goes on whatever fails; the store is closed after the last cycle; the command can be stopped |
| Converters, `internal/convert/converter.go` | the output file | copy or ffmpeg | truncated output after an error; two writers | only whole videos are published |
| Uploaders, `internal/storage/*.go` | remote objects | upload a file under a key | stored although the reply says error; upload repeated | a link names a stored object |
| VPN policy and detector, `internal/vpn` | cache of the public address | `Check`, `Evaluate` | slow lookups overtaking each other; stale cache; check-then-act by its callers | `SAFE` only on evidence that is current |
| Torrent clients, `internal/torrent` | cookie jar, login flag, session id, token, shared by all goroutines | list, add, pause, resume | session dropped by the program; concurrent handshakes; lost answers; retries | success means done; nothing is added twice; a usable session is found again |
| Event bus, `internal/events/bus.go`, and the live stream of the web server | subscriber channels; one handler per stream | subscribe, unsubscribe, publish; send overview, send message, return | publish against close; full buffer; dead connections | never sends on a closed channel; never blocks the pipeline; a dead connection's channel leaves the bus |
| Web server and page, `internal/web/server.go` | the page's EventSource, what it shows | forwards requests; the page reconnects, refreshes, renders | requests next to the loop; lost and overtaking replies; restart of the server | as the service; the page comes to show the data |
| Configuration, `internal/config`, and service wiring, `internal/app/bootstrap.go` | the YAML file | load onto defaults, validate, save in place; build a service | a file cut short is a valid one; older schema | a service opens what the operator configured |
| qBittorrent setup, `internal/cli/qbittorrent_setup.go` | qBittorrent's ini file, its process | edit, save the configuration, restart, verify; at every service build and on demand | two files written one after the other; kills in between; a program that runs on with old preferences | the files end in step; nothing of the operator's is lost; the command answers |

Interaction: a driver calls the service; the service calls the gate, the
torrent client, the converter, the uploader and the store, one after the other
and without a lock over them; what the drivers and the operator share is the
database, the processed directory and the remote storage. There is no claim
token, lease or transaction around a job: the status column is all the
coordination there is.

`PROJECT.json` lists the hazards of the code, each at its line, with the
properties that cover it or a note why none does.

## 2. Modules

| Module | Stands for |
|---|---|
| `JobQueue` | the SQL statements on a job table, as operators on a sequence of rows |
| `Pipeline` | the service and its drivers, call by call, with the operator, failures and crashes |
| `JobLifecycle` | the abstract specification of a job table as its readers see it |
| `MCPipeline` | output naming and symmetry for TLC |
| `VpnDetector` | the VPN policy, and the detector with its cache, asked by several callers at once |
| `VpnGuard` | the sync's `PauseAll` and `AddMagnet` against the detector (extends `VpnDetector`) |
| `MCVpnGuard` | networks for TLC: a VPN, a VPN that leaks the home address, no VPN |
| `EventBus` | `Subscribe`, `Unsubscribe` and `Publish`, send by send, with the lock |
| `WebCommand` | `cmdWeb` with its listener, its worker and the requests, from start to exit or kill (extends `EventBus`) |
| `LivePage` | the stream handlers and the page at the other end (extends `WebCommand`) |
| `TorrentSession` | one torrent client shared by several callers: login, cookie, session id, token, retry |
| `IniFile` | `iniDoc` and the edit of `ensureQBitWebUI`, as operators on the lines of the preferences |
| `ClientSetup` | configuration, preferences and program under builds, setups, kills and edits |
| `MCClientSetup` | preferences and configurations for TLC |
| `JobQueueProofs` | what each statement does to a table, as lemmas |
| `PipelineProofs` | types and unique keys, for any drivers |
| `SoloProofs` | budget, claims, finality, the refinement of `JobLifecycle` and stranded jobs, for a single driver |
| `HandoverProofs` | what is handed from syncs to conversions to uploads to links is really there |
| `VpnProofs` | types, the validity in seconds, and the age of cached addresses |
| `LivePageProofs` | types, no send on a closed channel, no exit before the worker, for any publishers and streams |
| `SessionProofs` | types, what success and failure of a call mean, and no repetition, for any callers |
| `ClientSetupProofs` | what the edit does to any lines; types, and what the files come to, for any preferences and kills |

### How Pipeline corresponds to the code

*Tables.* `conv` and `upl` are the two job tables. They have the same shape and
the same statements, so `JobQueue` models both. A row is its unique key, its
status, its `attempts`, and `due` (`next_attempt_at <= now`). An id is a
position: ids are given in order and no row is ever deleted. A conversion's key
is its torrent (the code uses the input path and the preset, the preset being
one per configuration); an upload's key is the output file and the day, because
`objectKeyForUpload` puts the date of queueing in the object key.

*Drivers.* `pc[d]` names the call driver `d` is about to make, and the other
locals are the variables of the Go functions that are still used afterwards:
the completed torrents left in the list (`todo`, `cur`), the job id (`job`) and
the attempt number (`att`). A step is one call with everything the code does up
to the next one; a call to the store is one SQL statement (or, for
`MarkUploadDone`, one transaction) and thus atomic. So drivers and the operator
interleave exactly where the code lets them.

| Actions | Function |
|---|---|
| `SyncStatus`, `SyncPauseAll`, `SyncList`, `SyncDone`, `SyncRecord`, `SyncEnqueue` | `SyncCompletedDownloads` |
| `ConvNext`, `ConvMark`, `ConvStart`, `ConvFinish`, `ConvFailed`, `ConvDone`, `ConvEnqueueUpload` | `processConversionOnce` |
| `UplStatus`, `UplNext`, `UplMark`, `UplPut`, `UplFailed`, `UplDone` | `processUploadOnce` |
| `PauseConversionJob`, `ResumeConversionJob`, `PauseUploadJob`, `ResumeUploadJob`, `PauseTorrent`, `ResumeTorrent` | the service functions of these names |
| `Crash` | the end of one or more drivers at any point; the next cycle starts afresh |

`LoopDrivers` go on to `ProcessOnce` after a failed sync, as the web loop and
`run --forever` do; the others (`run --cycles`, the run-once request) give up
the cycle.

*Failures.* The detector, the torrent client, the converter and the uploader
may fail at every call, without limit. A store call may fail without effect
(the database refuses, or the cycle's context has ended: after the 45 s of a web
cycle, or on SIGTERM); a process may die. Both count as faults and `MaxFaults`
bounds them. A statement that was applied although its caller saw an error is
the statement followed by a crash of that driver, except at the two places
that ignore the error, where it makes no difference to what follows.

*Files.* `content` says what an output file holds: nothing, a video cut short
or being written (`Partial`), the whole video of a torrent, or what is left of a
file that two conversions had open at once (`Mixed`). What such a file holds when one of them
ends depends on who truncated it last and how much each had written;
`ConvFinish` leaves open whether it is whole. `UplPut` stores what the
file holds at that moment under the object key. Its reply may be an error
although the object is stored. The URL is a function of the key, as for the
S3-compatible uploaders.

*The environment.* Torrents complete, the VPN state changes at any time, the
date changes (`MaxDay` times), back-offs elapse.

*Left out:* the events table and the bus (nothing in the pipeline reads them),
error texts, `final_url` and `updated_at`, list and stats queries, the length
of a back-off (it is running or over).

### How VpnDetector and VpnGuard correspond to the code

`Pipeline` takes the gate's answer as an input, so that any detector is
covered; what the detector answers, and when, is the subject of these two
modules.

*A check* (`Gate.Status`, `SystemDetector.Check`,
`publicIPAndASNMaybeCached`) is four steps, at the points where another caller
can come between: `ReadRoute` (default route, interfaces, SSID, interface
address), `ReadCache` (the clock and the copy of the cache under the read
lock), `Lookup` (without a lock), `Store` (under the write lock). Whichever
step ends the check evaluates what it has, so `Answer` is part of it.
`read`, `seen` and `got` are the check's locals.

*The cache* is an address with its ASN and the ticks it stays valid (`left`
stands for `ExpireAt` minus now). `Store` starts the validity at the clock
reading of `ReadCache`, so `elapsed` counts the ticks since then. `age` is not in the code: it
says how long ago the address was looked up, which `ValidIsRecent` compares
with the validity. It is forgotten when the entry expires, because the code
then puts no limit on how old an address it falls back to.

*The network* is what the default route goes through, whether the machine is
at home, and its public address. The commands (`route`, `ip`, `ifconfig`) work or fail
together, the address services too. A missing default route is an error of
the command, as on both systems that `defaultRouteInterface` supports, so the
gate then answers `UNKNOWN` with an error, `ERROR` in the model. The ASN is reduced to whether it is in
`allowed_vpn_asns`; some services do not tell it.

*Callers.* `Loops` run the first part of `SyncCompletedDownloads` again and
again; `Adders` run `AddMagnet`, at any time and any number of times. Acting on an answer is a
step of its own: the network may change between the answer and `PauseAll` or
the add. The torrent client either carries a request out or does nothing. A
torrent that was added waits for its first peer (`waiting`), then it downloads
(`PeersFound`). `PauseAll` may miss the waiting ones, because Transmission's client asks
to stop the "recently-active" torrents only (`transmission.go:179`); the next sync sees them
again. `Pipeline`, where no property is about a torrent that must be paused, lets the sync pause all.

### How EventBus, WebCommand and LivePage correspond to the code

*The bus.* The page answers every message in the same way (it looks again),
so a channel is a number of messages (`queued`). `Publish` holds the read lock
for all its sends. `left[p]` is what publisher `p` has still to visit, and the
write lock, which `Subscribe` and `Unsubscribe` take, is free when no publisher
has anything left. Handlers may take a message between two sends of one
`Publish`. A channel that is closed drops what it held.

*The command.* `main` is where `cmdWeb` is: serving, waiting for the worker
(`draining`: after a signal, or after the listener failed), in `Shutdown`
(`stopping`), ended (`down`) or killed. The worker's cycles and the requests are
publishers: they change the data (`version`) and publish the change afterwards.
Some changes are not published (a job that starts or fails), some messages come
without a change. When the process ends, its memory (bus, handlers, requests)
is gone and the data stay; it may be started again.

*The page.* `es` is its `EventSource`; a connection not in `live` is gone,
whether or not the two ends know. The overview comes over the stream, at once and
at every tick (`SendOverview`). It is also fetched: when the page is loaded, at the refresh button and after a
run-once that was asked for there (`RefreshOverview`, at any time and any number of
times), and after an error message on the stream (`SendOverviewError`). By itself, then, only
the stream renews it, and the replies to those fetches may come later than what
the stream has sent since. The panes come with
`refreshCollections`: at the load, every 5 s, at the buttons (`RefreshPanes`) and at every message but those the
page does not listen to. A button asks for both at once; since the server may answer the
requests in any order and at any distance, these are two steps. A fetch reads the data when the server handles it;
its reply may be under way for any time, and the last one to arrive is shown.
Replies that bring the same version are one element of a set. The four fetches of
one refresh are one, since `Promise.all` renders all or nothing.

*Left out:* reading the overview and sending it are one step (the handler does
nothing in between, and the next tick sends it again); the mode without
`EventSource` (`startPolling`), which polls; kept-alive connections of the fetches; login.

### How TorrentSession corresponds to the code

A call is one request for one torrent or for all, as the service makes them.
`at` is where the caller is (`ensureLogin` or `ensureToken` before the call,
Transmission's retry after it), `wire` its request or the answer, with the token
or session id (`sid`) and the cookie (`sent`) they carry. The client keeps three things
between calls: `cookie`, the session of the cookie in its jar (qBittorrent,
uTorrent); `token`, that of uTorrent's token or Transmission's session id; and
qBittorrent's flag `loggedIn`. uTorrent's two pieces are written at two moments, the cookie by
`Do` when the header of the answer is there (`CookieSet`), the token when its body has
been read (`LoggedIn`), and read at two, the token under the lock (`ReadToken`) and the cookie by the `Do`
of the call (`Call`). So the cookie of one handshake may meet the token of another, and uTorrent
refuses such a call. The steps of different callers interleave
at every point where the code waits for an answer or a lock.

The programs are external, modelled by what the clients suppose of them: a
request is done if and only if its answer is 200, and the configured password
is right. A program may drop all its sessions (`epoch`), be down and come back. A request or an answer may be lost or come too
late; an answer may also break off between uTorrent's header and its body. A login gets a new session, or the one whose cookie it
brings. Go's HTTP client repeats a GET by itself when a kept-alive connection
breaks (`Resend`); uTorrent's calls are GETs. A request the client has given up
is not done later. `applied` counts how often the program did what the
current call asks, `disturbed` tells whether the program or the network failed during it, and
`crossed` whether two handshakes have ever been under way at once; the
code has none of them.

### How IniFile and ClientSetup correspond to the code

`IniFile` has `iniDoc` line by line: a line is a header, a blank, a comment or an
entry, and an entry knows whether it is written without spaces, because `Set`
compares whole lines. `EnableWebUI` is the edit of `ensureQBitWebUI`: the four
calls of `Set`, one after the other, with what they report as changed.

In `ClientSetup`, `ini` is the lines of the preferences, and `ReadIni` applies that
edit to them; `doc[c]` is what command `c` is about to write. A command is a
service build (`BuildBegins`, `Probe`, ..., `Build`, with `tryAutoSetupQBit`
before `app.Build`) or `torrents setup-qbittorrent` (`SetupBegins`, ..., `Stop`,
`Launch`, `Wait`); they share the steps in the middle. Each `os.WriteFile` is two steps,
since it truncates first (`CutIni`, `WriteIni`, `CutConfig`, `WriteConfig`), and
a kill may fall between any two. `file.text` is a partial function, because
`Load` fills what is missing with defaults. `dsn` and `path` stand for the
settings that the setup has no business with; a URL other than those of the two ports
stands for every configuration that the automatic setup leaves alone. `Stop` may
end the command that does it (section 4).

qBittorrent is external: it reads its preferences when it starts, listens if they enable
its interface, ignores a second start, and obeys a signal to end. That it may
write its preferences itself when it ends is left out, as the code counts on it
not to undo the edit. A start takes less than the 25 s that the setup waits.

## 3. Runs

| Run | Instance | Question |
|---|---|---|
| `solo` | one loop, two torrents with one output file, two attempts, operator, one fault, one midnight | does one driver keep its promises, whatever the operator and one fault do? |
| `duo` | loop and run-once, one torrent, two attempts, one fault | what survives two drivers interleaved at every call? |
| `flow` | one fair loop, two torrents, operator, no store faults | is everything queued settled, and everything finished handed on? |
| `guard` | a fair loop and a caller that adds, three networks, failing commands, lookups and torrent client | does nothing download in the end once the VPN stays off, whatever was cached or under way? |
| `web` | worker and one request, two streams, one fault | does the bus, the command and the page live through full channels, lost connections, shutdown, kill and restart? |
| `session` | a fair loop and a second caller on one client, three faults | what do success and failure of a call mean, and does the client find a session again? |
| `setup` | one command after the other, preferences of up to two lines, one kill, an operator, the program | what do the files and the program come to, wherever a command is killed? |
| `overrun` | two drivers, no faults | attempts beyond `max_attempts` (finding) |
| `latepause` | one loop and the operator | a paused job starts (finding) |
| `missing` | one fair loop, one fault | an upload is never queued (finding) |
| `stuck` | one fair loop, one fault | a job stays running for ever (finding) |
| `unknown` | as `guard` | `UNKNOWN` does not pause (finding) |

`solo` checks:

- `TypeOK`.
- `AttemptBudget`: at most `max_attempts` starts, a waiting job has attempts
  left, a failed one has none.
- `ClaimHeld`: what the driver read before a long conversion or upload still
  holds when it writes the outcome.
- `StrandedByFault`: a running row that nobody works on costs one fault each.
- `LinkedVideoWhole`: a published link is to a whole video of the file it names,
  although uploads and conversions share a directory and any may be cut short.
  Only if conversions of two torrents with that output file have been started
  (`Contested`) may it be a part of one.
- `ConvertedIsKept`: the file of a finished conversion keeps its video until it
  is uploaded, and afterwards, unless it is contested.
- `OneUploadPerConversion`: a file has no more uploads, on all days together, than
  conversions to it have finished, although the database would allow it.
- `FinalIsFinal`: done and failed rows never change.
- `ImplementsLifecycle`: both tables implement `JobLifecycle`.

`duo` checks what needs no single driver: `OneRowPerKey`, `QueuedIsRecorded`,
`UploadFollowsConversion`, `LinkIsBacked`.

`flow` checks `DoneIsHandedOn` and three liveness properties:
`ConversionsSettle` (although every sync may fail), `UploadsSettle` (once the VPN
stays off) and `RunningEnds`.

`guard` checks `TypeOK`, `ValidIsRecent` (a valid cache entry is never older
than the validity, however slow and in whatever order lookups are stored),
`ExposurePauses` (once the VPN stays off, or leaks the home address, nothing is
downloading any more in the end, including what an add that had been cleared before
still brings in) and `ProtectionIsSeen` (an address cached without VPN does not
refuse adds for ever).

`web` checks:

- `TypeOK`, and `NoSendOnClosed`: no `Publish` sends on a channel that
  `Unsubscribe` has closed meanwhile.
- `WorkerDrained`: short of a kill, the command does not end, and so does not
  close the store, before its worker has returned.
- `StopEnds`: asked to stop, it ends, although a stream stays open for ever.
- `PublishEnds`: a publisher is held up neither by a full channel nor by a handler
  that waits for the lock.
- `DeadStreamLeavesBus`: the channel of a lost connection leaves the bus, although
  nobody tells the handler and the bus may be in use all the time.
- `PanesCatchUp`, `OverviewCatchesUp`: if the server stays up, the page comes to
  show the current data and keeps showing them.

`session` checks:

- `TypeOK`, and `OkMeansApplied`: success is reported only for what was done.
- `AppliedAtMostOnce`: a call of qBittorrent or Transmission is never done twice.
- `FailsForAReason`: a call fails only after a failure of the program or the
  network during it, with a dropped session in a client that does not renew
  it, or, for uTorrent, with the cookie of one handshake and the token of another, which takes two
  handshakes under way at once. Callers of qBittorrent and Transmission never make each
  other's calls fail.
- `SessionRecovers`: once the program stays up, calls succeed again and again, for
  clients that renew their session or whose session was never dropped (and is
  not such a mixture).

`setup` checks:

- `TypeOK`, and `SettingsKept`: only a kill inside `Save`'s own write can lose what the
  operator configured; at every other point a kill, and any number of builds and setups,
  leave the database that a service opens.
- `FilesAgree`: a command that got to the end of its setup leaves preferences and
  configuration with the same port and no password, whatever earlier ones
  were killed at.
- `ChangeTakesEffect`: a setup that changed the preferences ends with a program that
  can be reached.
- `EditIsExact`: as a map from section and key to value, the preferences are written with
  the four settings and otherwise as they were read; every old line is found again in the
  same order, a setting perhaps with another value, and what is new is a setting, or the
  header of a new section (with a blank line) behind all old lines; and preferences that say already what is wanted are not written, nor the program
  restarted for them.
- `SetupAnswers`: a setup that has written its files comes to an end, with an answer unless
  it is killed.

### Bounds

Two torrents suffice for every interaction between jobs in `Pipeline`: order in
the queue, a list of more than one completed torrent, and a conversion next to
another file's upload (`duo`, `flow`) or the upload of the file being converted
(`solo`, where the two torrents share their output). Two attempts are the least that have a first, a retried and
a last one. One fault reaches every single interruption point; properties that
count faults say so. One midnight is the least that gives a file two possible
object keys. Two drivers with one torrent reach every pair of positions on the
same job, which is where drivers meet. `VPNReadings` are the answers a run lets the gate give. The pipeline asks two
things of an answer: is it `SAFE` (no pause) and is it `UNSAFE` (uploads may
go). `UNKNOWN` pauses like `UNSAFE` and holds uploads like `SAFE`, each shown
by another reading, and the runs leave it out. An `ERROR` ends the sync: `duo` and
`flow` have it; in `flow` it also stands for every answer that holds the uploads,
in place of `SAFE`. `solo` has no `ERROR` reading, but a provider that fails at
`SyncList` ends its syncs in the same way.

`guard` has one loop and one adder, which share the detector and one torrent:
two checks are enough for one to overtake the other between any of its steps.
The validity is one tick: an entry expires before, while or after another
check is under way. One thing is out of order at a time (the commands,
the lookups or the torrent client), each for any length of time and any number of
times; the three networks follow each other in any order.

`web` has two streams because an old handler may still be on its way out when the
page has reconnected, and two publishers because the lock is shared between
them. A channel of one message is full at once. One change of the data is the least
that can be missed; one fault is any of a signal, a failing listener, a kill, a lost connection, an
error in a handler or a refresh that fails in part, at any point. `session`
has the loop and one more caller, which is enough for a session to be replaced
under a call, and three faults: a call, its retry and the next call may each meet one.

`setup` has preferences of up to two lines, each of eight kinds: two section headers,
a comment, a setting that the code changes to another value, a port that is a number,
one that is written with spaces, one that is no number, and a key of the operator's.
The edit makes them longer, and the next command reads that; two lines are
enough for an entry in its section, outside of it, or under the other one, and for two
headers. There are two ports, and of every setting of the configuration the cases
absent, present and (for the database) blank. One kill reaches every point between two
steps; what it left is then read by any number of commands. Commands, edits and
starts of the program are not bounded. The runs have one command at a time: two at
once read and write the same two files without order, and nothing in the code would
keep `SettingsKept`.

`duo` runs without the operator and on one day: with them it takes far longer
and they add nothing to its four properties that `solo` does not show.

### Fairness

`LiveSpec` asks for weak fairness of every loop driver's step and of the clock.
The first is the ticker (`startWebPipelineLoop`, `cmdRun`) together with calls
that return. HTTP calls have client timeouts (10 s, 20 s), and a cycle of the
web loop has 45 s for all it does; a deadline is an error that the model
allows. `run --forever` gives its cycles no deadline, so there the fairness
also supposes that ffmpeg and the detector's commands end by themselves. The second is the passing of time.
Nothing is asked of the operator, the torrents, the VPN or a run-once driver. In
the liveness runs that show a defect (`missing`, `stuck`), the fault is one
event and the loop runs on fairly for ever after it.

`VpnGuard!LiveSpec` asks for weak fairness of the loop (as above), of an add
that has begun (10 s), and of time. Adds need not begin and the network need not
change. `ExposurePauses` and `ProtectionIsSeen` are about a network that in the
end stays as it is and parts that in the end work: without a working torrent client, for
instance, nothing could pause.

`LivePage!LiveSpec` asks for weak fairness of the steps of a publisher (cycles
and requests have deadlines), of the main goroutine's, of the tickers, intervals
and the reconnection, and of the notice that a connection is gone, which
the TCP keep-alive of both hosts gives in the end. It asks for strong fairness in two
places. `Cancelled`, because the worker's `select` picks at random among the
ready cases, so that the ticker cannot win for ever. The handler's steps that
take the bus's write lock, because a waiting writer of a `sync.RWMutex` holds
off new readers. Requests, changes, faults, signals and restarts need not happen.

`ClientSetup!LiveSpec` asks for weak fairness of the last steps of a setup (`Stop`,
`Launch`, `Wait`): the wait is limited to 25 s, and the programs that the other two
start (`pkill`, `open` and the like) are supposed to end by themselves.

`TorrentSession!LiveSpec` asks for weak fairness of the loop's calls and of a
program that is up.

## 4. What the findings show

- `overrun`: `NextQueuedConversion` and `MarkConversionRunning` are two
  statements, the second has no status guard, and `MarkConversionFailed` decides
  on the attempt number read by its caller. Two drivers can therefore run the same job,
  and the slower failure re-queues a job whose attempts are used up.
- `latepause`: in the same window a pause by the operator is confirmed and
  then overwritten. `JobLifecycle!Start` allows a start from `paused` for that
  reason.
- `missing`: nothing queues the upload of a conversion that is already done.
- `stuck`: nothing ever resets a running row. The 45 s deadline of a web cycle
  leads here as well: it ends the conversion and then the statement that would record
  its failure.
- `unknown`: while a command of the detector fails, `Gate.Status` answers
  `UNKNOWN` together with an error, and the sync returns the error before it
  reaches `PauseAll`. The `UNKNOWN` that pauses is the one that `Evaluate` gives
  (a tunnel that leaks the home address).

Not runs of their own, but seen while modelling:

- `ResumeTorrent` (`service.go:136`) asks nobody, so a download runs without VPN from
  the resume to the next sync.
- `buildOutputPath` keeps only the sanitized stem of a name (lower case, no extension, other
  characters deleted or replaced), so two torrents may
  share an output file and an object key. The second conversion then overwrites the
  first one's video and its upload is ignored as a duplicate if both are queued on one
  day; and if the first upload reads the file while the second conversion writes it, a part is
  published. Nothing has to fail for this. What can still be said of such a file is what
  `LinkedVideoWhole`, `ConvertedIsKept` and `OneUploadPerConversion` say.
- With two drivers an upload may also publish a part of a video of a single torrent: both run the same
  conversion (see `overrun`), the quicker one queues the upload and it is
  read while the slower one still writes.
- Two of uTorrent's first calls at the same moment (the loop's and a request's) can leave the
  cookie of one handshake in the jar with the token of the other (`utorrent.go:74` and `:92`). If uTorrent
  gave them different sessions, no later call succeeds: `ensureToken` asks for
  no other token as long as it has one. `FailsForAReason` and `SessionRecovers` name this case.
- Transmission's client pauses the "recently-active" torrents only, so a sync may
  leave a torrent that has no peers yet; once it downloads the next sync pauses it.
- An empty configuration is a valid one. `Save` (`config.go:174`) empties the file before it
  writes it, and it is called not only by the setup command but by every service
  build that finds qBittorrent not answering within 300 ms. What reads the file in between (the
  next start after a kill, or another command) works with the default database and may
  save the defaults for good. `SettingsKept` therefore excepts a kill at that point.
- `Load` starts from `Default()`, whose dsn is not blank, so the fallback to
  `database.path` (`config.go:192`) is reached only with an explicitly blank dsn.
- The pattern of `pkill -f` (`qbittorrent_setup.go:286`) is part of the setup command's
  own name, so on systems whose `pkill` matches it the setup ends itself. Run
  again, the command finds the preferences unchanged, only starts the program,
  and succeeds.
- The program is restarted if this run changed the preferences
  (`qbittorrent_setup.go:89`); what counts is whether the running program has read them. The
  automatic setup, which changes them without a restart, leads there: afterwards the setup
  command fails as often as it is given, until somebody restarts qBittorrent.
  `ChangeTakesEffect` therefore speaks of a setup that changed them.

Further: `SystemDetector` never reports the lack of
a default route except as an error, so the branch of `Evaluate` for a home
network without default route is out of its reach; it asks `route -n get
default` and `ifconfig -l` on Linux too, where the usual tools of these names
do not take those arguments. And with a tunnel up and no public address at all (no
lookup has ever succeeded) the state is `SAFE`. The page's panes are fetched by
one `Promise.all`, so while the torrent program does not answer, the queue, links
and events are not refreshed either. And qBittorrent with a password and uTorrent
keep a session that the program has dropped until the process is started
again: every later call fails, which is why `SessionRecovers` leaves that case
out and `FailsForAReason` names it.

The single-driver properties fail with two drivers (`AttemptBudget`,
`ClaimHeld`, `FinalIsFinal`, `LinkedVideoWhole`, `ConvertedIsKept`). The automatic setup also drops the configured
password whenever the program is slow to accept, and `MAXWELL_VPN_FORCE_STATE=UNKNOWN` (README)
is not among the values that `newDefaultGate` knows: it leaves the real detector in place.

## 5. Proofs

From the named assumptions of `Pipeline` alone (`OutputAssumption`,
`DriverAssumption`, `BoundAssumption`, `ReadingAssumption`, `NameAssumption`),
for any number of drivers and nothing supposed of their interleaving:

- `TypeCorrect`: `Spec => [](TypeOK /\ Handles)`. `TypeOK` is not inductive: the
  updates of row `job[d]` keep the table a sequence of rows only if that row
  exists. `Handles` says so, and holds because no statement removes a row.
- `KeysStayUnique`: `Spec => []OneRowPerKey`. Every step either leaves the keys
  of a table alone (it updates one row) or appends a row whose key is new. This
  is `StepsAreTableSteps`; uniqueness follows from it and the lemma on
  `InsertIgnore`.
- `QueuedWasRecorded`, `UploadsWereConverted` and `LinksAreBacked` prove
  `QueuedIsRecorded`, `UploadFollowsConversion` and `LinkIsBacked`. None is
  inductive, since a driver acts on what it read or did some calls ago. The
  argument has two halves. What a driver relies on only grows, whoever else
  steps: downloads stay recorded, torrents complete, rows keep their keys and
  stay attempted, a file once opened and an object once stored are not nothing
  again, links stay (`DownloadsGrow`, `ConvChanges`, `UplChanges`,
  `FileChanges`). And where it stands, it can rely on it (`Lists`, `Converts`,
  `Stores`), because of the order of its own calls (`SyncFlow`, `ConvertFlow`,
  `UploadFlow`).

- `FaultlessHandsOn`: `Spec => [](faults = 0 => DoneIsHandedOn)`, again for any drivers. The
  driver that makes a row done goes on to queue its upload, and nothing but a
  failed store call or a crash, which are counted, takes it from there.

With the assumption `SoleDriver` (`\A d, e \in Drivers : d = e`):

- `SoloWithinBudget`, `SoloClaimHeld`, `SoloFinal` prove `AttemptBudget`,
  `ClaimHeld` and `FinalIsFinal`. `AttemptBudget` alone is not inductive: a start
  writes the attempt number the driver read earlier. `SoloInv` adds what the
  driver knows of its row (`Picked` between reading and marking: the row is still
  queued, or was paused, with the attempts that were read; `Held` from then
  on) and that rows that wait for nothing have no back-off running.
- `SoloImplements` proves `ImplementsLifecycle`. `JobSteps` says which statement
  a step executes and, by `SoloInv`, on a row in which state; `StepsMap` takes
  each of them to a step of `JobLifecycle` or to a stutter (a back-off that
  elapses, an insert that is ignored).
- `SoloStrandedByFault` proves `StrandedByFault`. A step strands a row only if
  a fault is counted in it, and then one row only (`StrandsAtMostOne`): by `SoloInv`
  the driver is the only one to claim anything, so a row that is running and not
  its own was stranded before. What is left is a count of finite sets.
- `SoloLinksWhole` and `SoloKeepsConverted` prove `LinkedVideoWhole` and
  `ConvertedIsKept`, for any `OutputOf`, with as many torrents to a file as there may be. `WholeInv` adds what the
  driver knows of its own file and object (`Makes`), and that a queued file has a finished
  conversion. The core is `WritesShared`: the conversion the driver is at is running, so if
  it writes the file of a finished conversion, that one is of another torrent, and
  the file is contested from then on (`SharedStays`).
- `SoloUploadsOnce` proves `OneUploadPerConversion`. `CountInv` counts the upload the driver is
  about to queue as one of the file's: then making a conversion done adds one to both
  sides, and queueing the upload, or ignoring it as a duplicate, adds nothing. As the conversion is
  final, none of them can be counted twice on another day.

`JobQueueProofs` has one lemma per statement; the proofs of the steps use those
lemmas and not the definitions of the statements.

From the named assumptions of `VpnDetector` and `VpnGuard` (`NetworkAssumption`,
`TTLAssumption`, `CallerAssumption`), with any number of callers:

- `GuardTypeCorrect`: `Spec => []TypeOK`; `TypeOK` is inductive.
- `CacheStaysRecent`: `Spec => []ValidIsRecent`. `ValidIsRecent` is not
  inductive, since `Store` writes an address looked up earlier. `Recent` adds
  `LookedUpSince`: an address about to be stored is no older than its check's
  reading of the clock, from which the validity counts. Had the code counted
  from the moment of storing, it would not hold (this is the mutant `StoreFromNow`).
- `ValidityIsBounded`: every configured check interval gives 15 to 120 s.

From the named assumptions of `EventBus`, `WebCommand` and `LivePage`
(`BufferAssumption`, `WorkerAssumption`, `WebBounds`, `NoneAssumption`), with any
number of publishers and streams:

- `NoPanic`: `Spec => []NoSendOnClosed`. The invariant is inductive with the types: `Subscribe` and
  `Unsubscribe` change `subs` only when no publisher has anything left, and a
  process that ends takes bus and publishers with it.
- `DrainsFirst`: `Spec => WorkerDrained`. It needs `StopsDrained`: in `Shutdown` the
  worker has returned, and nothing brings it back.
- `LiveTypes`: `Spec => []TypeOK`.

From `SessionAssumption`, with any number of callers:

- `SuccessIsDone` and `NothingTwice` prove `OkMeansApplied` and
  `AppliedAtMostOnce`. Neither is inductive; `DoneOnce` adds what a request that
  is still under way says about `applied`: a 200 to the call means done, a refusal or
  a request not yet served means not done, so the one retry repeats nothing.
- `FailureHasReason`: `Spec => FailsForAReason`. `Reasons` says for every kind of
  answer why it came; its core is that Transmission's retry carries the session id
  that the program has just given, so that only a failure in between refuses it. For
  uTorrent, `Uncrossed` says that as long as no two handshakes were under way at once,
  one handshake at most is under way, only while there is no token, and cookie and token
  agree wherever they are written and read.
- `SessionTypes`: `Spec => []TypeOK`.

From the named assumptions of `ClientSetup` (`SetupAssumption`, `DocumentAssumption`:
preferences are sequences of lines; `TextAssumption`: what an operator writes
has some of the four fields), for preferences of any length and any lines:

- The first part is about the operators of `IniFile`. `Found` and `Get` are minima
  of sets, and `Set` shifts lines; neither is easy to reason about. `Says(lines, s,
  k, line)` states what they mean: `line` is the first entry for `k` under the first
  header `s`. `SetSays` is the law of `Set` in these terms, from one lemma for each
  of its three ways (`SetReplaces`, `SetInserts`, `SetAppends`): afterwards the lines say
  what they are told, say of every other section and key what they said, and the old
  lines are kept. `EnableWebUISays` puts four of them together, and
  `SetNoChange` accounts for what is reported.
- `SecondSetupChangesNothing` follows: the edit made again for one port changes nothing.
- `SetupTypes`: `Spec => []TypeOK`, for any number of commands at once.

And when commands work one at a time (`Spec /\ []OneAtWork`): any number of them may
be up or have ended, but only one is between its first step and its last. Without
it these do not hold, since nothing keeps a command from reading what another one is writing:

- `SetupKeepsSettings` proves `SettingsKept`. `SettingsInv` adds that a command
  on its way to the configuration file carries the operator's settings in `cfg`.
- `SetupTakesEffect` and `SetupEditIsExact` prove `ChangeTakesEffect` and `EditIsExact`
  from one invariant, `FilesInv`: for every point of a command, how far it has brought
  preferences, configuration and program in step with the port it settled on. It needs
  that settled preferences are read as they were written (`SettledReads`), which is
  the law of `Set` again. `OthersInStep` is where the other commands come in.
- `SetupFilesAgree` proves `FilesAgree` from `FilesInv` and `StaysInEffect`, with the
  stronger assumption `SoleCommand` (`\A c, d \in Commands : c = d`): while a service is up
  another command may set another port, in the middle of which the files do not agree.

With this, every invariant and every action property of the runs is proved, the
single-driver ones and those about commands at work one at a time under that
assumption. Only model-checked is liveness: liveness under fairness and `ENABLED` are beyond the prover.
No module declares a `RECURSIVE` operator.

## 6. Plan

Left to model, in this order:

1. `RetryBackoff`: the arithmetic of the back-off with its width.
2. The Google Drive and OneDrive uploaders in `Pipeline`, where a repeated
   upload makes another object.
3. The deadline that `run --cycles` gives all its cycles together.
4. Two commands at once in `ClientSetup`, as soon as something in the code orders them.

Left to prove: what holds of the job tables with several drivers (how far
`AttemptBudget` can be overrun), and the back-off once it is modelled.

### Not modelled

The search for qBittorrent's preferences file and the setup's `--start=false` and
`--verify=false`; the checks of `Validate` that look at one field; what
`bootstrap.go` does besides loading the configuration (it makes objects and
directories); decoding of requests, rendering and the
metrics of the web server; parsing of the torrent programs' lists; the events
table; `OpenTorrentFolder`, which starts a file browser; printing.

## 7. Running

    tlc -workers 2 -config solo.cfg MCPipeline
    tlc -workers 2 -config guard.cfg MCVpnGuard
    tlc -workers 2 -config web.cfg LivePage
    tlc -workers 2 -config session.cfg TorrentSession
    tlc -workers 2 -config setup.cfg MCClientSetup
    tlapm SoloProofs.tla
    tlapm HandoverProofs.tla
    tlapm ClientSetupProofs.tla
