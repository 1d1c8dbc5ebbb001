# A verification of muc

muc keeps a fleet of Linux and macOS hosts in view: a client on every host
publishes check-ins over NATS, a server stores them in bbolt, offers an API and
a dashboard, and sends commands back — update, reboot, check in, benchmark — to
hosts that have opted in. The specifications in this directory model the parts
of muc where the order of events decides the outcome; TLC checks them on small
instances, and TLAPS proves every safety property those runs check, for every
value of the constants; liveness is left to TLC.

Paths below are relative to `src/`.

Contents: [inventory](#inventory), [what is hard](#what-is-hard-here),
[modules](#the-modules), [runs](#the-runs),
[disagreements](#where-the-code-and-its-documents-disagree),
[fairness](#fairness), [proofs](#what-is-proved),
[limits](#what-is-only-model-checked-and-what-is-not-modelled),
[plan](#plan), [how to run](#running-it).

## Inventory

### The client, `client/` (one process per host)

| Part | State it keeps | Operations | Correct when |
|---|---|---|---|
| Update runner, `remoteupdate.go` | `running`, the slot, under a mutex; the command's context; the output streamer's `pending`, `seq`, `streamed`, `capped`; the tail | `handleUpdate` claims the slot and answers; `run` announces, executes in a transient systemd unit or as a child, streams output, reports, asks for a check-in, releases | one run at a time; a record never says more than happened; the slot always comes back; chunks are numbered and abut; the last output leaves before the final record |
| Reboot listener, `remotereboot.go` | `inProgress`, under a mutex | `decide` asks the runner and whether a reboot is due; the record goes out, then the command | no reboot under a run; announced before it happens; a reboot that fails frees the listener |
| Check-in listener, `remotecheckin.go` | time of the last accepted command | rate limit, a non-blocking send on `recheckNow` | an accepted command leads to a check-in |
| Benchmark listener, `remotebenchmark.go`, `benchmark/` | `running`, time of the last run | refuses when it runs already, when the host is loaded, or too soon; runs; publishes | never two at once on a host, never too often |
| Main loop, `main.go`, `recheck.go`, `pkgdb.go` | the connection, the last fingerprint, ticker, settle timer, signal channel, `recheckNow` | checks in on poll, signal and demand | no change of the package database goes unreported, and the loop does not feed itself |
| Host facts, `hostinfo/` | none | asks a ladder of tools whether a reboot is due, tailscaled and its CLI for the tailnet; compares kernel versions; reads `/proc` and `/etc` | no false alarm, and nothing that is due goes unsaid by a tool that can tell |
| Pending updates, `updates/` | none; the managers' metadata is on the host | every package manager is asked in turn, with or without a refresh, and the answers merged | "current" is said of no host that lacks an update it should know of |
| Discovery of the server, `discovery/` | none | Consul, DNS, configuration, in that order | first answer wins |
| Configuration, logging, metrics | read once | | |

### The server, `server/` (one process)

| Part | State it keeps | Operations | Correct when |
|---|---|---|---|
| Subscriptions, `nats/subscriber.go`, `nats/reboot.go` | one goroutine per subject | read a record, merge, save it, write a line, for check-ins and three kinds of results; live output | nothing newer is overwritten; a host "rebooted" only when it booted; a record that shows has its line |
| Command requests, `nats/updates.go`, `checkin.go`, `benchmark.go` | none | a NATS request with a ten-second timeout | an outcome never denies what the host did |
| System store, `storage/bbolt.go` | the `systems` bucket; a channel of updates | `GetSystem`, `SaveSystem`, `DeleteSystem`, each one transaction | |
| Group store and API, `storage/groups.go`, `api/groups.go`, `models/groups.go` | the `groups` bucket | handlers of several transactions each | one group per name; only a delete loses a group; a deleted host stays out |
| Derived groups, `models/derived.go` | none | computed from the records when a group is listed or acted on | the reserved names are never stored; a host is in a group exactly while its record says so |
| Operations log, `storage/operations.go`, `api/operations.go` | the `operations` bucket, numbered by `NextSequence` | append with trimming, pages by cursor | the newest lines and all of them; pages exact |
| Actions API, `api/actions.go` | a goroutine per member of a request | ladder of checks, request, log line, summary | one line and one result per member; an answer in bounded time |
| Benchmark scheduler, `api/hardware.go` | `asked`, per host | one host per tick, the most overdue first | no two timed together; no host starves |
| Live output, `runlog/runlog.go` | one buffer per host, a channel of events | append, bounded | a reader never sees spliced text |
| WebSocket relay, `web/server.go` | clients; two channels | a goroutine per message and connection; no order, no repetition | a page that missed nothing shows what is stored |
| Consul registrar, `consul/consul.go` | what is registered, a retry interval | sweep, sleep, stop | in discovery while up, out of it after Stop |
| Tailscale merge, `models/tailscale.go` | none | folds what a check-in says of the tailnet into what is stored | the tailnet a host was last seen on stays known |
| Start-up, embedded NATS, configuration, metrics | wiring | | |

### The browser, `server/web/static/`

| Part | State it keeps | Operations | Correct when |
|---|---|---|---|
| Operations page, `operations.js` | rows, `newestSeq`, `oldestSeq`, `host`, `loadingOlder` | load, refresh every 30 s, show older, choose a host | the table is a stretch of the log without gaps, of the chosen host |
| Dashboard, `app.js` | `systemsData`, live text per run, the socket; `pendingCheckIns`, `pendingReboots`, `startingUpdates` with their timers | list, replace a row by what arrives, seed, append, reconnect; ask and wait for the record that answers; delete | a row agrees with the store; a button is held while, and only while, its request is open; what it shows of a run is what the run wrote |
| Hardware page, sidebar, theme | preferences | rendering | |

`client/dist` and `client/scripts` package the client; the unit file's
`Restart=always` and `KillMode=process` matter to the update runner and are used
in its model.

### How the parts meet

- Client to server: `muc.checkin`, and one subject each for update results,
  update output, reboot results and benchmark results. NATS core delivers at
  most once, in order per subject and publisher. The server reads each subject
  in a goroutine of its own, so *order holds within a subject and not across*.
- Server to client: a NATS request on the host's subject, an answer or a
  timeout. The host acts after it has answered, so a timeout says nothing.
- Server to store: bbolt transactions. Each is atomic; a handler makes several.
- Server to browser: two Go channels of bounded size, each drained by a
  goroutine that starts one goroutine per message, and the API.
- On a host: the update runner and the check-in listener ask the main loop
  through `recheckNow`; the reboot listener asks the runner; a path unit
  watching the package database sends SIGUSR1. The transaction itself belongs to
  systemd or to a process that outlives the client.

### What is hard here

`PROJECT.json` lists forty hazards, each at its line. They come in these groups:

1. *Several transactions that look like one*: a record read, merged and saved
   by four goroutines (`subscriber.go:153`); a group looked up and then written
   (`groups.go:159`, `groups.go:298`); a list and a stream of one page
   (`app.js:899`).
2. *Asked once, used later*: the reboot listener's question about runs
   (`remotereboot.go:144`), the check-in that put a host in the group
   `state:needs-reboot` (`remotereboot.go:146`), the fingerprint of the package
   database (`main.go:521`), the uptime a boot is dated by (`reboot.go:131`).
3. *State that dies with a process while its work goes on*: the slot
   (`remoteupdate.go:157`).
4. *Order across subjects, goroutines and fetches*: results and output
   (`subscriber.go:284`), the relay (`server.go:131`), two fetches of one page
   (`operations.js:107`), the line of a request (`actions.go:114`), the answer to a
   press and the record that it waits for (`app.js:655`, `app.js:1898`).
5. *Bounded things that drop or stop*: `recheckNow`, the event and update
   channels, the live buffer, the limit of the stream, the ten thousand lines of
   the log.
6. *Must happen in the end*: a slot freed, a change reported, a request
   answered, a host measured, a server discoverable, a button given back — and a loop that must come
   to rest although its own reads wake it.

## The modules

`RunSlot` and the specifications inside `HostCommands` aside, a module models
one part; `OperationsPage` composes page and log, `OutputPane` composes host,
server and page. Each module `M` that is checked has `MCM`, which declares its
model values, and each configuration names one question. In a module, an
operator preceded by `Slip:` is the operation after it as a plausible mistake
would have written it; it is used by nothing in the module and exists so that
each property can be shown to notice the mistake (`PROJECT.json`, "mutants").

Components whose proofs are about one side of the system share a module of
proofs, which EXTENDS them all; in those components `Init`, `Next`, `Spec`,
`vars` and `TypeOK` carry the component's name (`GroupsSpec`, `RecheckNext`,
`paneVars`, `PageTypeOK`).

| Module | Models | Lines | Proofs in |
|---|---|---|---|
| `RunSlot` | what "one at a time" means, abstractly | | |
| `HostCommands` | update runner, reboot listener, client process, transactions, machine | `client/remoteupdate.go`, `remotereboot.go`, the unit file | `HostCommandsProofs` |
| `RecheckLoop` | main loop and all that wakes it | `client/main.go`, `recheck.go`, `pkgdb.go`, `remotecheckin.go` | `SchedulesProofs` |
| `SystemRecords` | one host's record, the four handlers, log lines | `server/nats/subscriber.go`, `reboot.go`, `storage/bbolt.go` | `SystemRecordsProofs` |
| `Groups` | groups bucket and the handlers over it | `server/storage/groups.go`, `api/groups.go` | `ServerProofs` |
| `Dispatch` | a request from the dashboard, end to end | `server/api/actions.go`, `nats/*.go` | `DispatchProofs` |
| `OperationsLog` | the log and its pages | `server/storage/operations.go` | `ServerProofs` |
| `OperationsPage` | a page over the log (EXTENDS `OperationsLog`) | `static/operations.js`, `api/operations.go` | `ServerProofs` |
| `OutputStream` | output of runs leaving the host | `client/remoteupdate.go` | `ReportsProofs` |
| `OutputPane` | … to the page (EXTENDS `OutputStream`) | `subscriber.go`, `runlog.go`, `web/server.go`, `app.js` | `ReportsProofs` |
| `Benchmarks` | scheduler, button and hosts | `server/api/hardware.go`, `client/remotebenchmark.go` | `SchedulesProofs` |
| `ConsulRegistrar` | the registration loop, Stop, the agent | `server/consul/consul.go` | `ServerProofs` |
| `PendingUpdates` | the update check, the managers' metadata, updates published and installed | `client/updates/*.go`, `client/main.go` | `PendingUpdatesProofs` |
| `HostFacts` | what a host says of a reboot and of its tailnet, what the record keeps, the derived groups, a reboot asked of one | `client/hostinfo/reboot.go`, `version.go`, `tailscale.go`, `server/models/tailscale.go`, `derived.go` | `ReportsProofs` |
| `Dashboard` | one host's row and buttons on one page, from the store through channel, relay and list | `static/app.js`, `server/web/server.go`, `storage/bbolt.go`, `api/routes.go` | `DashboardProofs` |

### HostCommands

The state is the code's: `slot` is `updateRunner.running`, `inProgress` the
listener's field, `recheck` whether `recheckNow` is full. `runPc[r]` and
`rebootPc[q]` say where a goroutine stands; the code between two of its values is
what no other goroutine can tell apart from one step. A run goes `accepted`
(the slot is claimed and the answer sent), `announced` (record "running"
published), `executing` (`cmd.Run`), `exited`, `reported` (final record),
`rechecked`, `done` (the deferred release). `tx[r]` is the package transaction,
which is *not* part of the client: when the client dies its goroutines are `lost`
and the transaction goes on, whether it was started as a unit or directly, since
the unit file spares children. When the machine goes down a running transaction
is `cut`. The 30-minute context is `RunTimesOut`: it ends the wait for a
transient unit, but for a direct run only the wrapper is killed and the wait goes
on until the package manager lets go of the pipe.

`AskAboutRuns` and `Decide` are two steps because the reboot listener holds its
own mutex over both but the runner's only during the question. `seen[q]` is a
history variable: the runs that had arrived when `q` asked.

`UpdateSlot` and `RebootSlot` are `INSTANCE RunSlot WITH` a refinement mapping
(the holder is whichever goroutine holds the slot, computed from `runPc`; served
is whoever has left `idle` by being accepted). That the concrete runner
implements it says more than mutual exclusion: no job takes the slot twice.

### RecheckLoop

`db` counts the writes to the package database; `lastDB` is the fingerprint the
loop keeps, `collected` the version the last check read and `report` the version
in the last check-in the server got. `timer` and `tick` are the settle timer and
its channel (both, because a Go timer that fired keeps its tick), `tickerC` the
poll, `sig` the signal channel of one, `recheckNow` another. A check is three
steps — fingerprint, collect, publish — with writes and signals between them;
without a connection it does nothing, and when the facts cannot be collected
(`CollectFails`) it ends after the first, with the fingerprint recorded and
`failed` set. `owed` follows a check-in that was promised until one begun after
the promise is published. `pathPending` is the path unit about to
fire; it fires on the client's own reads as well, which is why the loop compares
fingerprints before it acts. `missed` notes a signal sent before `signal.Notify`.

### SystemRecords

One host. `queue[s]` and `handler[s]` are the messages and the goroutine of each
of the four subjects. A handler reads (`GetSystem`), saves the merged record
(`SaveSystem`) and may have a line to write after that; the three are separate
steps. Time goes in ticks of the server's clock; a boot takes one. A check-in
carries the uptime the host read at `readAt`, and `Dated` is the boot the server
makes of it, its own clock less that uptime: a check-in that was under way for
long shows a boot that much too late, and `slowest` keeps the longest. `raced` is
history as well: some save overwrote a record newer than the one its handler had
read. A line that the log does not take is dropped, as the code does, and kept in
`unwritten`. A failed write of record or log, a server restart and a deletion
share the bound `MaxTroubles`.

### Groups

`groups` is the bucket, a function from keys (`ToLower` of the name) to groups.
`Lower` and `Folded` are constants, because the code folds case in two ways —
`strings.ToLower` for keys and `strings.EqualFold` for comparisons — which agree
on ASCII only. A handler of one transaction is one action (`AtOnce`); one of two
is `Begin` and `Handle`, with what it read kept in `req[c]` between them.
`evicted` holds the hosts deleted since they were last put in a group.

### Dispatch

`job[r][h]` is a member's goroutine on its way through `attempt`; `wire[r][h]`
the command and its answer in NATS; `run[r][h]` what the host makes of it, and
`heard[r][h]` how much of that the result handler has written to `log`. The
ladder of checks over the stored `record` is `Ladder` with `MayAsk`; what the host
itself does depends on `client[h]` as it is by then, which may have changed since
the record was stored. An append that fails (`LoseLine`) is reported and the
request or the result goes on without its line; `unwritten` says for whom.

### OperationsLog and OperationsPage

`log` is the bucket, a function from sequence numbers to hosts; `seq` the
bucket's counter. `GetOperations` is the cursor walk, a recursive function with
`Seek`'s landing rule; `PagesAreExact` compares it with its reference definition
`NewestOf(Eligible(h, before), limit)` in every state, for every cursor and
limit. `OperationsPage` adds the page: a fetch is sent, evaluated by the server
and handled when its answer comes, and two of them overtake each other.
`overlapped` is a history variable: a fetch was sent while another was under way.

### OutputStream and OutputPane

Text is counted in pieces, numbered in each run, so that a text is a sequence of
numbers and a splice is visible as a jump. `outputs` and `results` are all the
chunks and records the host ever sent on the two subjects; `heard` is how far
the server got in each, so a lost message is one skipped. Of what a run writes
the model keeps whether it is white space: a wrapped run that printed nothing
else gets the journal's text as the output of its record (`journal`), which no
chunk carried. `buffer` is runlog's
`RunOutput` of the host, `events` and `updates` the two channels, `deliveries`
the set of messages whose goroutines have not written yet. `page` is one
dashboard: its list request, its seed request, the live text and the last record
it knows of.

### Benchmarks

Time is counted in scheduler ticks and kept as ages: `record[h].bench`,
`record[h].seen`, `asked[h]`, `host[h].since`. `Tick` is the scheduler, with the
order of `ComesBefore` (no benchmark first, then the oldest, then by name);
`Press` is the button; a call is answered by the host's own `MayAccept`. A call
that is given up on (`TimesOut`) is still on its way and may be accepted late.
`Loaded` are hosts that refuse every time.

### ConsulRegistrar

`pc` walks through one sweep (`list`, then `sweep` with the services `left`) and
the sleep; `known` is what the agent listed, `listed` whether it answered.
`retry` and `wait` count in steps of the first retry interval. The agent is
external: `up`, and `has[s]` — "no", "critical" right after a registration,
"passing" once its check ran. `overdue` is a clock over the property: how long
an agent that answers has lacked a service.

### PendingUpdates

A check is a walk of `turn` through the managers of the operating system, in the
order of `getLinuxUpdates`; `answers` are the `UpdateResult`s, `Merged` and
`Status` what becomes of them. An update is known by the kind of line its manager
prints of it, which is the set of its `Oddities`: what dnf's validators reject
(a line with "rpm", "metadata", a bar or a size in it, a name, version or
repository of unusual form), or a path nixos-rebuild does not print under "paths
will be fetched". `Accepts` is what each parser makes of such a line. Of a
manager's updates the model keeps three things: `known`, the lines of those its
metadata lists that are not installed; `unseen`, for each line the age of the
oldest published update the metadata does not list; and `age`, of the metadata of
dnf and yum. One step asks one manager and takes every path of its collector: apt
and zypper refresh as root and distrust an empty list otherwise, but apt-get
succeeds with less than all indexes; dnf descends its ladder, the last rung of
which is marked as a lower bound; yum says nothing of what it leaves out and has
its chatter counted as updates; nixos answers although something went wrong; brew
is not asked to refresh. `trouble` and `missed` are history: what went wrong with
whose query, and who did not tell of an update that was due — one in a line its
parser accepts, which the metadata lists or which is older than
`dnfMetadataExpire`. What a parser passes over no property promises to report:
`parseDnfUpdates` prefers to miss an update (`updates_dnf.go:367-368`, and
`TestParseDnfUpdates` asserts it), so that a host whose only updates are those of
rpm itself, or come from a repository with "rpm" in its name, is current to muc.

### HostFacts

One host and its record. `machine` says which tools the host has and what its
operating system is called; `running` and `installed` are its kernels, numbered
in the order of their release, while `Kernels` gives the version each number
stands for: `CompareVersions` works on the versions and the properties on the
order. A version is the sequence of its runs of digits and letters. `Kernels` are
rpm's names, with the architecture at their end; on SUSE, `uname` gives one of
`Flavours` for the kernel that runs, and `ComparedToRunning` compares the two.
`LinuxRebootRequired` is the ladder, given how each tool exits; `Exits` lets a
tool work, be killed, or fail with 1. What the tailnet looks like to the host,
`tailnet`, changes to anything `TailscaleStatus` can make of what the daemon's
socket, its CLI and the interfaces say. Packages are installed, the host boots
and check-ins are lost between `Collect`, `PublishCheckIn` and `ReadForCheckIn`.
The check-in's handler and that of a result (of runs, reboots and benchmarks, any
of them) hold in `handling` what they read until they save it; either may fail to.
`ResolveGroup`, `Attempt` and `Decide` are a reboot asked of a derived group,
which looks at three states in turn: the record that makes the group, the record
the ladder of checks reads, and the host. `seenOn`, `raced` and `excused` are
history.

### Dashboard

Records are numbered as they are saved, so that newer and older are numbers; a
run and a reboot are known by the number of their first record. `channel` is the
channel of updates, `writing` the copies whose goroutines have not written yet
(a set, since they overtake each other), `row` what the page shows. `marks` are
`pendingCheckIns`, `pendingReboots` and `startingUpdates`, with what the page
knew when it marked the button; `presses` the requests with their answers.
`CheckIn`, `RunStarts` and the other host steps are cut down to the records that
come of them: which of them can happen when is `HostCommands` and
`SystemRecords`. As there, the subscription that takes the message reads the
stored record (`Merge`) and saves what it made of it (`Save`) in two steps, with
the two others and the deletions in between; `raced` is history, and says that
one saved over a record it did not read. A check-in may also close a reboot
before it is over, or not yet, since the boot is reckoned from an uptime that was
read some time ago (`back`). `behind` is history: the page missed the newest record, or put
an older one over it, and no newer one has reached it since. `unsure` is history:
the page let go of a reboot by a timer, an error, a record lost or deleted or an
overtaken message or closed by a check-in too early, or it was pressed from a row
that did not show the host's last reboot, so that its button says nothing of the
host any more. The cases of the overtaken message and of the row take more records than the run has: the proof of `OneRebootAtATime` did
not go through without them, and TLC then found both on a larger instance.

## The runs

A configuration named in `PROJECT.json` is a run; the others in this directory
are the counterexamples of [the section after this one](#where-the-code-and-its-documents-disagree).
Deadlock is checked except in `host` and `consul`, where the system may stop
(all commands served and the machine left as it is; a server shut down), and in
`pane` and `dashboard`, where all pieces of the one run are shown and all records
saved in the end. In the others
something that no bound counts is always possible: a check-in, a tick, a poll, a
refresh of the page, a deletion.

| Run | Instance | Properties and what they show |
|---|---|---|
| `host` | two commands out of two updates and two reboots; the client dies at most once, the machine goes down at most once | `OverlapHasACause`: two transactions together only after a client death or an abandoned unit. `RecordsAreHonest`: a final record says what the transaction did or that time ran out. `RebootSparesRunsItSaw`: a reboot runs under nothing that had arrived when it asked. `UpdatesAreServedOnce`: the runner implements `RunSlot`. `RunsFreeTheSlot`: however long package managers hang, the slot comes back of every run but a direct one whose package manager never ends |
| `recheck` | two writes, two commands, one lost connection, one failed collection | `NothingSkippedUnseen`: a check the fingerprint lets the loop skip would have found nothing new, unless the last one failed. `Quiesces`: the loop's own reads do not keep it busy. `ChangesAreReported`: without the poll, a change shows in a check-in unless its signal was missed, the connection lost or the check for it failed. `CatchesUp`: with the poll, every change shows. `PromisesAreKept`: without it, every accepted command leads to a check-in that began after it, however busy the loop was |
| `records` | one run, reboot or benchmark, three ticks with a boot at any of the first two, two troubles (failed writes of record or log, server restarts, deletions), one check-in waiting | `RebootedMeansBooted`: no check-in ends a reboot that has not happened, unless it was longer under way than the machine had been up when it was asked. `CurrentUnlessRaced`: the record is what the result handlers saved last, unless two handlers overlapped. `ShownMeansLogged`: what the record shows is in the log or about to be, or its line was reported as one that could not be written; and no line is there twice, but "rebooted" where a write failed or handlers overlapped. `RebootsAreNoticed`: in the end, a reboot that happened shows as such |
| `groups` | two hosts, four names of which two differ in case and one is reserved, two handlers at once, four requests | `NoLookalikes`: one group for all spellings of a name. `OnlyDeletesLoseGroups`: no rename loses a group or its members. `EvictedUnlessRaced`: a deleted host is written back only by a member removal that had read the group before |
| `dispatch` | two hosts, one request for any of them, a restart, check-in or deletion, one lost message or line | `AnsweredMeansLogged`: by the time of the answer every member has exactly one "requested" line, or the log did not take it and that was reported. `NotDoneMeansNotDone`: skipped, refused and unreachable are said only of commands the host did not take. `StoriesAreInOrder`: the lines of the results are in the order of the run and not doubled. `RequestsAreAnswered`: hosts that never answer included |
| `oplog` | a log that keeps three of four lines about two hosts, pages of two, two fetches under way, one switch of host, one failure | `KeepsTheNewest`, `PagesAreExact`: trimming and the cursor, off by none. `OrderlyTable`: with one fetch at a time the table is a stretch of the log, of the chosen host, and the cursors fit it |
| `pane` | one run of four pieces, any of them blank; stream limit 3, tail 2, buffer 2, channels of 1; one message lost; two loads or reconnects of the page | `ReportsAreComplete`: before a record says ended, all output was sent or the note that it stops; what else its output shows is the journal's, of a run that printed nothing. `HeardMeansUnspliced`: while the server hears every chunk, full channels, overtaking, reloads and seeds never splice the pane |
| `bench` | three hosts, the first of which always refuses; a result is due after 4 ticks, a host is asked again after 3; one press; one change (host down or up, deletion, restart, late or lost call, lost result) | `ScheduledApart`: no two runs of the scheduler at once. `EveryHostIsMeasured`: hosts that always refuse do not starve the rest, as long as there are no more hosts than ticks between two requests to the same one |
| `consul` | two services, reassertion after 3, retries up to 4, three faults | `StoppedStaysOut`: nothing re-registers what Stop removed. `DelayIsBounded`: an agent that answers lacks a service no longer than the longest wait. `StaysDiscoverable`: an agent up for good has all services passing for good |
| `updates` | hosts with apt and nixos, dnf (and yum), yum, zypper, brew or nothing, root or not, with sudo or not; updates in a line that is read and, of dnf and nixos, one that is not; metadata expires after 1 tick, by the repositories' own setting after 2; one query goes wrong | `CurrentMeansFresh`: a host reported as current lacks no update that is due and printed in a line its parser takes for one, unless its manager (brew, apt, yum, nixos) kept a failure to itself. `NoticedInTheEnd`: as root, an update in such a line is reported or gone in the end |
| `facts` | a host for each rung of the ladder and one without tools, three kernels of which two are installed at a time, two tailnets, a check-in's and a result's handler, three events | `TailnetIsRemembered`: whatever the host can or cannot tell from one check-in to the next, its record names the tailnet it was last seen on, unless a handler saved over a record it had not read, and then again from the next sighting on. `SparesTheSettled`: however old the record is that put it in the group, no host goes down for a reboot that is not due, apart from two answers: of a `needs-restarting` that fails with the exit code for "yes", and of a SUSE host whose `zypper` was killed. `GroupFollows`: a host that is due and can tell gets into `state:needs-reboot`, one that is not gets out of it |
| `dashboard` | three records read and saved in two steps, one press of one of three buttons or of a group's, one trouble (a lost connection, a failed list, a deletion by this page or another), a channel of one | `RowsAgree`: once nothing is on its way, a page that did not miss the newest record shows it, and has no row for a host that is gone. `ChecksAreReleased`: the record that answers a check-in lets the button go whether it comes before the answer or after. `OneRebootAtATime`: a host on its way down is not offered to be rebooted. Both of a store in which no handler saved over a record it did not read. `ControlsComeBack`: no button is held for good |

### Bounds

Every bound is a constant named in a guard (`MaxCommands`, `MaxTime`,
`MaxTroubles`, …) and declared as a bound where the constant is declared. For
the safety properties the proofs below do without them; for liveness they are
all there is. They are chosen so that the case each property is about happens with room to spare:

- `host`: a slot is contended by two, so two commands of each kind reach every
  interleaving of claim, question, launch and release; a third finds a state two
  can produce. One death and one boot each meet every point of a run.
- `recheck`: a write that lands before, during and after a check, and a second
  one behind the settle timer of the first.
- `records`: `CurrentUnlessRaced` needs a result and a check-in around it;
  `RebootedMeansBooted` a request, a check-in of the boot before and one of the
  boot after, and time for one to be late; the safety properties were also
  checked with four ticks. Two troubles let a failed write meet a restart.
- `groups`: two handlers suffice for every race of two transactions, four
  requests for a create on either side of it and a delete. The names hold one of
  each kind the code tells apart.
- `dispatch`: members of a request share nothing but the log and the wait for
  all, so two are enough; the actions are one with results (`reboot`) and one
  without (`checkin`) because `update` climbs the same ladder as `reboot`, and
  `benchmark` is never fanned out. `MaxLosses` counts messages lost and lines
  that the log does not take.
- `oplog`: a page smaller than the log, a log smaller than what is appended, so
  that pages end at, before and beyond the cutoff.
- `pane`: four pieces pass every limit — stream, buffer, tail, both channels —
  by at least one.
- `bench`: `HostCount = RetryAfter`, the tightest case in which
  `EveryHostIsMeasured` is promised; `OldestAge` is one more than `MaxAge` so
  that a host more overdue than another comes first.
- `consul`: two services, so that a sweep is interrupted between them;
  `Reassert` and `MaxRetry` differ, so that the longest wait is one and not the
  other.
- `facts`: three events let packages change and a host boot on either side of a
  lost check-in, a host join, leave and fall silent, and a result's handler save
  between a check-in's read and its save. The kernels differ as numbers and as
  texts, in length, in zeros and in words.
- `dashboard`: three records are the one a page begins with, one that answers
  and one that overtakes it; two handlers can have one each in hand. An instance
  with four records and the reboot button alone has 4.4 million states and was
  checked for the inductive invariant.
- `updates`: a host with two managers, of which either can be the one that
  fails; `RepoExpire` above `Expire`, so that metadata is stale for the client
  and not for the repositories. The parsers split lines into those they take and
  those they do not, so that two kinds of lines are enough, and one for the
  managers that take all (`Prints`).

Type invariants of the modules whose runs do not list them hold on the same
instances (name the module's `...TypeOK` in its configuration to check). All are
proved, by a theorem or as a part of an inductive invariant, except those of
`OutputPane` and `HostFacts`, of which the proofs need, and prove, a part, and
that of `Dispatch`, whose proof has the types in a sharper form (`ServerTyped`,
`HostsTyped`, `BudgetTyped`).

Symmetry is used in `groups` alone, over the handlers and hosts, which no
constant tells apart; its properties are safety properties.

## Where the code and its documents disagree

The properties above are what holds. Where a comment or the manual promises
more, the promise is stated as a property too, under *"What the comments and the
README say, and the code does not do"* in each module. Each fails, with
a short counterexample, in a configuration beside the runs or, where the table
names a run, in that run's configuration with the property named in place of its
own and `CHECK_DEADLOCK FALSE`.

| Configuration | Property | What it shows |
|---|---|---|
| `host_reboot_under_update` | `NoRebootUnderAnUpdate` | the reboot listener asks about runs once; an update accepted after the question and before the command is executing when the machine goes down (`remotereboot.go:72-73` "Rebooting under one would kill a package transaction mid-write") |
| `records_lost_update` | `EndedRunsStayEnded` | a check-in whose handler read the record before a result was saved puts the older run back when it saves (`subscriber.go:163-165` carries the run forward so that it survives) |
| `host_overlap` | `OneRunAtATime` | a client restarted under a run starts with a free slot and accepts another (`README.md:464` "One run at a time per host") |
| `host_hung` | `NoRunKeepsTheSlot` | a direct run past its timeout keeps the slot as long as its package manager hangs: the context kills the script, the pipe stays open and no `WaitDelay` is set (`remoteupdate.go:44-46` "to stop a run that is wedged ... from occupying the host forever") |
| run `oplog` | `NoGaps` | an older page that was asked for before a refresh redrew the table is appended below lines it does not follow (`RowsAreOfTheHost` fails likewise: the answer for the host that was left arrives last and is drawn) |
| run `recheck` | `FailedChecksAreMadeUpFor` | the fingerprint is recorded before the facts are collected; when that fails nothing is published, and the next signal finds the database unchanged (`main.go:505-510`: a transaction "still differs and gets looked at") |
| `recheck_startup` | `ChangesAreReportedPromptly` | a signal before `signal.Notify`, during the first check, is lost; the change waits for the poll |
| `groups_creates` | `CreatesAreNew` | two simultaneous creations of one name both succeed, the second replacing the first |
| run `groups` | `DeletedRowsKeepTheirGroups` | the manual says a group keeps naming a deleted host; `DeleteSystem` takes it out |
| run `groups` | `EvictedHostsStayOut` | removing one member writes back another that was deleted in between |
| `groups_lookalikes` | `NoLookalikes` with Unicode names | `ToLower` and `EqualFold` differ on the long s, and on the two sigmas: two lookalike groups |
| run `dispatch` | `ResultsShareTheId` | a request that timed out is logged without its id, so the results that follow match nothing |
| `dispatch_story` | `RequestedComesFirst` | "requested" is written after the answer and may follow "running" |
| `pane_end` | `EndIsShown` | a page that watched a run past the stream limit keeps showing the live text, which ends there; the saved tail, which has the end, is shown only to pages that have nothing else |
| run `pane` | `LastLinesComeFirst` | results and output are two subscriptions: the record of the end overtakes the last chunk |
| run `pane` | `MarksAreEarned` | chunks that overtake each other in the relay are marked as dropped output although none was |
| `pane_splices` | `PaneNeverSplices` | a chunk lost before the server leaves no trace in the live buffer; a page seeded from it shows the two sides as one |
| run `bench` | `NeverTwoAtOnce` | the button starts a benchmark while the scheduler's runs elsewhere |
| `failures_reported` | `FailuresAreReported` | a dry run of nixos that fails with some output, or a channel that does not update, passes for a success with nothing pending (`updates_common.go:15-18` has a check that exits non-zero as failed) |

Others came up in the modules that are exact about them, and the properties
there name the exception:

- `HostFacts`: "any uncertainty (... command errors) yields false ... never a
  false alarm" (`hostinfo/reboot.go:23-26`). `needs-restarting` that fails exits
  with 1 like one that says yes, and `linuxRebootRequired` believes it: without
  `excused`, `SparesTheSettled` has a counterexample in which a host that needs no
  reboot takes one.
- `HostFacts` on SUSE, when `zypper` is killed: the running kernel is 6.9-default
  to `uname` and 6.9.x86_64 to rpm (`reboot.go:98-99` has them match), and x comes
  after default, as any build number of rpm's would (`version.go:57-64`), so that
  the kernel that runs counts as newer than itself. The same sentence, and the
  same `excused`.
- `HostFacts` again: "a host that has left its tailnet ... keeps the tailnet it was
  last seen on" (`subscriber.go:156-159`). A benchmark's handler that read the
  record before a check-in named the tailnet saves the older entry over it
  (`benchmark.go:88-95`): without `~raced`, `TailnetIsRemembered` has a
  counterexample.
- `Dashboard`: a group's action "should look like" as many presses, with the same
  release (`app.js:647-650`). The rows are marked when the answer comes, by what
  they show then; a check-in that arrived first is what they show, and only the
  timer lets go. Without `~GroupsAsked`, `ChecksAreReleased` has a counterexample.
- `Dashboard` again: "a record with a different id is the one we asked for"
  (`app.js:1877`) leans on a store that only moves forward. A check-in whose
  handler read before the reboot was on record puts the older reboot back: the
  page drops its mark on the newer record, shows the older one next and offers to
  reboot a host that goes down. Without `~raced`, `OneRebootAtATime` has that
  counterexample.

## Fairness

Liveness is checked under weak fairness per goroutine step, never on the
next-state relation as a whole, and no fault or outside event is ever fair.

- `HostCommands!FairSpec`: each goroutine of the Go runtime goes on when it can
  (`RunSteps`, `RebootSteps`), contexts expire, systemd restarts the client
  (`Restart=always`), a machine going down goes down and boots. Nothing is
  assumed of package managers, so it is the timeout that frees the slot of a run
  in a unit; `RunsFreeTheSlot` leaves out a direct run whose package manager
  never ends, and `host_hung` shows that one.
- `RecheckLoop!RecheckFairSpec`: the steps of a check are weakly fair; the cases of the
  loop's `select` are strongly fair, because Go picks among ready cases at random
  and a case that is ready again and again is picked in the end. The timer, the
  path unit and NATS's reconnect are weakly fair. The poll is not: it is the
  antecedent of the properties, `Polling` for those that lean on it and
  `PollEnds` for those that must hold without it.
- `SystemRecords!FairSpec`: subscription goroutines and the clock go on; a host
  that is up checks in again and again with a readable uptime
  (`SF CheckIn(TRUE)`, strong because a full queue interrupts it). Deletions and
  failures are not fair.
- `Dispatch!FairSpec`: only the server's goroutines and its own request timeout.
  No host need ever answer.
- `Benchmarks!BenchFairSpec`: ticks, check-ins of hosts that are up, ends of runs and
  answers. `SF Agree(h)`: a host that is asked again and again, and is not
  `Loaded`, agrees in the end.
- `ConsulRegistrar!RegistrarFairSpec`: the loop's steps, the passing of time, and the
  agent's checks. That the agent comes up is not assumed but the antecedent of
  `StaysDiscoverable`.
- `HostFacts!FactsFairSpec`: a client collects again and again with tools that work,
  publishes, and the server's handlers read and save. Packages, boots, results,
  failures and losses are not fair.
- `Dashboard!FairSpec`: the timers of the page run out, and a request is answered
  and its answer handled. No host need do anything.
- `PendingUpdates!FairSpec`: the client goes on with its check and begins another
  one, as its poll makes it, and time passes. That every query ends is an
  assumption about the host: the collectors set no timeout.

## What is proved

TLAPS checks every proof to its last leaf; no fact is assumed but the named
`ASSUME`s, which say that bounds are numbers, limits positive, names closed
under folding, and special values distinct from the rest. TLC evaluates them on
every run.

Every safety property of a run, invariant or action property, is the statement
of one of these theorems, but for the second half of `ShownMeansLogged`. The last
column says what has to be known beside the property to carry it from one step to
the next.

**On the host** (`HostCommandsProofs`, `SchedulesProofs`, `PendingUpdatesProofs`,
`ReportsProofs`)

| Theorem: property | For every … | Argument |
|---|---|---|
| `SlotSafety`: `SlotHeldByOneRun` | set of commands, number of deaths and boots | inductive with `TypeOK`: the flag is set exactly while one goroutine is active, step by step |
| `RebootSlotSafety`: `RebootSlotHeldByOne` | | `RebootInv`: one command is decided at a time and only while none is accepted, so nothing is accepted between question and answer |
| `OverlapSafety`: `OverlapHasACause`; `HonestRecords`: `RecordsAreHonest` | | `TransactionInv`: where a goroutine stands fixes what its transaction and its record can be; with one run in the slot, a second running transaction has lost its goroutine or was given up on |
| `RebootSparesSeenRuns`: `RebootSparesRunsItSaw` | | `SeenInv`: the runs a listener saw have arrived and none holds the slot, and a run never takes it again |
| `RebootAnnounced`: `RebootAnnouncedFirst`; `RecordsAdvance`: `RecordsOnlyAdvance` | | what is published is a function of how far the goroutine is |
| `UpdatesRefineRunSlot`: `UpdatesAreServedOnce`; `RebootsRefineRunSlot`: `RebootsAreServedOnce` | | every step maps to a `RunSlot` step or a stutter; deaths and reboots map to `Leave` |
| `SkippingIsSafe`: `NothingSkippedUnseen` | number of writes, commands, lost connections | `FingerprintFirst`: the fingerprint is never of a later database than the one the check collected |
| `NoStaleTickSafety`, `ChangesStayPending`, `PromisesStayQueued`, `LoopTypeCorrect` | | with `PendingSinceFirstCheck`: a change not looked at is in the path unit, the signal channel, the timer or its tick, or was missed at start-up |
| `CurrentIsFresh`: `CurrentMeansFresh`; `PendingUpdatesProofs!TypeCorrect` | hosts, lines, expiries, failures | `UnseenIsRecent`: what the metadata of dnf or yum does not list was published after all of it was downloaded, so that metadata younger than the expiry lacks nothing due; `MissesShow`: a manager asked that did not tell says in its answer that it does not know, or never says so |
| `TailnetRemembered`: `TailnetIsRemembered` | machines, kernels, tailnets, bounds | `MergeRemembers`: the merge keeps the last name unless the report has one; `MemoryInv`: what the handlers hold is typed and, as long as nothing was saved over what its writer had not read, a stored host's entry names the tailnet it was last seen on; `ForgottenIsUnseen`: a host not stored owes no memory |
| `SettledAreSpared`: `SparesTheSettled` | the same, where the version of a later kernel compares as newer (`KernelsInOrder`) | `KernelsInv`: the kernel that runs is one that is installed. `LadderIsRight` takes the rungs in turn; on the last one, where versions of kernels are compared, the search for the newest ends at one that is installed, by induction over the list, and it says yes only if that one is above the kernel that runs |
| `LadderIsExact` | the same, where the kernels compare as they were released (`KernelsRanked`) | the other direction, the safety behind `GroupFollows`: what `NewestVersion` returns has no later one beside it, again by induction, so that a host whose tools work says so whenever a reboot is due that they can tell, and never otherwise |
| `StreamSafety`, `StreamsAbut`: `ChunksAbut`; `ReportsComplete`: `ReportsAreComplete` | runs, pieces, limits | `GoesOn`: the streamer continues from the last chunk of its run; `AllIsCounted`: what was written is sent or pending until it is capped; `EndsAreSettled`: an end is reported after its last chunk; `BlankSoFar`: a run that has printed nothing has sent nothing but white space |

**In the server** (`SystemRecordsProofs`, `DispatchProofs`, `SchedulesProofs`,
`ServerProofs`)

| Theorem: property | For every … | Argument |
|---|---|---|
| `RebootsReallyHappened`: `RebootedMeansBooted` | commands, time, troubles, queue length | `RecordInv`: what is said of the stored record holds of each record a handler has read and not yet saved; no uptime on its way goes back to a boot to come, so that no check-in shows one later than the last boot plus the longest delay (`Reach`) |
| `RecordsAreCurrent`: `CurrentUnlessRaced` | | the same: without a race what a handler has read is still what is stored |
| `RecordsAreTold`: `ShownMeansTold`, the first half of `ShownMeansLogged` | | `LogInv`: what a handler holds has its line too, so that a save that carries an older run forward shows nothing new |
| `ResultsAddNoHost`: `OnlyCheckInsAdd` | | a result handler holds the record of a host that was known when it read |
| `EveryAttemptIsLogged`: `AnsweredMeansLogged` | hosts, requests, actions, changes, losses | `MembersInv`, `LinesInv`: one attempt per member, one line per finished attempt or one failed append, so the positions in the log of the lines of one attempt are one or none |
| `ReportedUndoneIsUndone`: `NotDoneMeansNotDone` | | `CommandInv`: while a command or a refusal is on the wire the host has not taken it, and a job that says so has nothing on the wire |
| `StoriesAreTold`: `StoriesAreInOrder` | | `StoryInv`: how much of a story was heard bounds which lines it can have |
| `OneRunOfTheScheduler`: `ScheduledApart` | hosts, intervals, presses | `OneInHand`: a host is in hand while the scheduler's call to it or the run of it is under way; there is one at most, and none when a tick is due. It rests on what the model says of time: a call and a run take seconds, and are over before the next tick, two minutes later |
| `FreshResultsAreKept`: `FreshAreLeftAlone` | | `FreshInv`: a host that the scheduler has asked has no fresh result, or accepted something too recently to accept again, or is down; it takes a client that goes down and comes up, two changes, to forget the second |
| `OneGroupPerName`: `NoLookalikes` | systems, names, clients, requests, and foldings where `Lower` and `Folded` agree | `WellFormed`: a group lies under the key of its name and its name is not reserved. It needs `NothingDerivedInHand`, that what a handler is about to write is not reserved either |
| `FoundByTheirName`, `DerivedNamesStayFree`, `GroupsTypeCorrect` | | parts of the same invariant |
| `GroupsAreKept`: `OnlyDeletesLoseGroups` | any folding | a key that goes is deleted, or is the old key of a rename, which stores the same members under the new one in the same transaction |
| `EvictedStayOut`: `EvictedUnlessRaced` | | `NothingNewInHand`: a removal that nobody overtook holds members that are all still stored |
| `KeepsNewest`: `KeepsTheNewest`; `LogIsAppendOnly` | size of the log | the keys are an interval that moves by one |
| `CursorReadsPages`: `PagesAreExact` | log, host, cursor, limit | by induction over the walk: whatever was collected when it reaches a key, it returns that and then the newest lines below, in order, up to the limit |
| `StopIsFinal`: `StoppedStaysOut`; `BoundedDelay`: `DelayIsBounded`; `NoNeedlessReset`: `HealthyIsLeftAlone`; `RegistrarTypeCorrect` | services, intervals, faults | `GoneFirst`: nothing is deregistered before the loop is gone; `SweptIsThere` and `ListHolds`: what an answering agent lacks is still ahead of the sweep; `WakesInTime`: time lacking plus time to sleep never exceeds the longest wait |

**In the browser, and across** (`ServerProofs`, `ReportsProofs`,
`DashboardProofs`)

| Theorem: property | For every … | Argument |
|---|---|---|
| `TableIsOrderly`: `OrderlyTable` | hosts, size of log and page | `FetchInv`: a page that was served is a stretch of the log without gaps and stays one while the log moves on, because it loses only lines older than all that are kept; `TableInv`: an older page under way continues the rows shown |
| `PressesAreKept`: `BusyMeansFetching` | the same, whatever fetches fail or overlap | `BusyInv`: the button is disabled exactly while a fetch of older lines is under way, and there is one at most; removing any other fetch from among them keeps both |
| `PagesOnlyRead` | | the composition of log and page implements the log alone, so that `KeepsNewest`, `LogIsAppendOnly` and `CursorReadsPages` hold of it |
| `PaneStreams` | runs, pieces, limits, channels | the composition of host, server and page implements the stream alone, so what is proved of the one holds of the other |
| `HeardIsUnspliced`: `HeardMeansUnspliced` | | `Numbered`: the chunks of a run count on by one; `OnlyWhatWasSent`; `BufferFollows`: the live buffer ends with the last chunk heard; `PaneHolds`: so do the page's text and a seed on its way, of some chunk |
| `NumbersAreRight`: `NumbersMatchTexts` | the same, whatever is lost | `NumbersInv`: the buffer, the page's text and an answered seed each go by the number of the chunk their last piece came with, and `OnlyWhatWasSent` ties a chunk on its way to what the host sent |
| `RowsFollowTheStore`: `RowsAgree` | records, presses, troubles, size of the channel | `RowInv`: the row shows the stored record, or the record, the list or the answer to a deletion is on its way to it, unless the page is behind |
| `ChecksLetGo`: `ChecksAreReleased` | | `CheckInv`: a button held for no check that is under way waits for a record above what it was told of, and that record is on its way. `HandInv` says what a handler makes of the record it read |
| `RebootsOneAtATime`: `OneRebootAtATime` | | `RebootInv`: a reboot that is not on record holds the button, and every record saved so far is known to it; one that is on record is repeated by all later records, and the button is held until one of these is shown. `MadeInv`: what the handlers have in hand repeats it too, or was made of an older record |

None of the invariants is inductive alone: `RebootSlotHeldByOne` fails from a
state with two commands being decided, `NothingSkippedUnseen` from one whose
fingerprint is ahead of what was read, `NoLookalikes` from one where a handler
holds a group with a reserved name, `DelayIsBounded` from one that sleeps
longer than is left, `CurrentMeansFresh` from one whose answers hide what was
missed, `TailnetIsRemembered` from one whose host was seen before it was stored,
`RebootedMeansBooted` from one where a handler holds a record that says so too
early, `ScheduledApart` from one with two calls under way, `RowsAgree` from one
that is not quiet and has nothing on its way that would help. The strengthenings
were checked with TLC on the runs' instances before they were proved.

Four hypotheses are not `ASSUME`s. `OneGroupPerName` asks for a folding that
agrees with lower case, and `groups_lookalikes` shows what becomes of names for
which it does not. `SettledAreSpared` asks for `KernelsInOrder`, that
`CompareVersions` puts no earlier kernel above a later one. `MCKernels` satisfies
it, and a distribution that numbered its kernels backwards would not: the host
then asks for a reboot that nobody needs. `LadderIsExact` asks for `KernelsRanked`,
the same in both directions: two kernels that compare as equal hide one another.
`MCKernels` satisfies that as well. `ShownMeansTold` itself speaks of a
server that did not restart, as nothing writes the line a dead handler held.

What follows from the recursion of a definition is proved by induction over the
numbers, in the form of a least or a greatest one for which the claim fails
(`WFMin` of the library): the cursor walk, and the search for the newest kernel.

Properties that no run lists, because a stronger or a deeper one is listed (name
them in a configuration to check): `RunsAreLogged` and `RebootsFreeTheSlot`, which
are liveness, and these, which are proved: `BusyMeansFetching`,
`NumbersMatchTexts`, `FreshAreLeftAlone`, `SlotHeldByOneRun`,
`RebootSlotHeldByOne`, `RebootAnnouncedFirst`,
`RecordsOnlyAdvance`, `RebootsAreServedOnce`, `AppendOnly`, `NoStaleTick`,
`ChangesArePending`, `PromisesAreQueued`, `NamedByTheirKey`,
`NothingShadowsDerived`, `ChunksAbut`, `OnlyCheckInsAdd`, `HealthyIsLeftAlone`,
and the type invariants.

## What is only model-checked, and what is not modelled

Only model-checked: liveness, which the prover's rules for fairness and `ENABLED`
do not reach: `RunsFreeTheSlot`, `Quiesces`, `ChangesAreReported`, `CatchesUp`,
`PromisesAreKept`, `RebootsAreNoticed`, `RequestsAreAnswered`,
`EveryHostIsMeasured`, `StaysDiscoverable`, `NoticedInTheEnd`, `GroupFollows`,
`ControlsComeBack`, and the two named above that no run lists; and that no line is
logged twice (`ToldOnce`, in `ShownMeansLogged`). Likewise, of course,
the counterexamples, which are traces.

Abstracted where modelled: texts are pieces, times are ticks or ages, names are
model values; log output, metrics and rendering are left out. Clock skew is not
modelled: a host whose clock is wrong can have its benchmark dated in the future,
which the code does not compensate (a boot is dated by the server's clock alone).
The choice of NATS options, TLS and access control are configuration. A message
NATS delivers twice is not modelled since the client library does not resend core
messages.

Not modelled: the readers of CPU, memory, disk and virtualization and how the
CLI of tailscaled is found (they read files and change nothing); discovery, configuration and metrics; of the
dashboard the checkbox that arms a reboot, the group editor, sorting, filtering,
dialogs and drawing, and that a page gives up reconnecting after its last
attempt. The timer of an
accepted update is not cancelled by the run's record and may let go of a later
press (`app.js:1930`); the model has it (`UpdateTimer`), and no property forbids
it, since the server and the host refuse a second run.

## Plan

Done: client, server and pages as above, host facts and the dashboard's rows and
buttons included.

Next, to extend the model:

1. *Compositions*: `Dispatch` with `HostCommands`, so that what the server says
   of a request is checked against the real runner and not against an offer;
   `SystemRecords` with `OutputPane`, where the record of a run meets its text.
2. *Abstract specifications*: a record per host that only moves forward, which
   `SystemRecords` implements where handlers do not overlap; the page as a
   window on the log, which `OperationsPage` implements where fetches do not.

3. *The answers of the Groups API*: an update that is refused after it has
   replaced the members (`groups.go:204`).

The runs above cover each question once; a new module's run takes the place of
a weaker one where two ask nearly the same.

Then, to prove:

4. The refinements of item 2, and `ToldOnce`.
5. That `CompareVersions` orders the versions it is given, from which
   `KernelsInOrder` would follow for kernels named by a distribution's rules.

## Running it

    tlc -config host.cfg MCHostCommands        # any configuration and its MC module
    tlapm HostCommandsProofs.tla               # any module ...Proofs

Runs take between three seconds and two and a half minutes, proofs up to a few
minutes each. `PROJECT.json` lists components, runs, the mutant each property
notices, the lines each definition models, hazards and theorems.
