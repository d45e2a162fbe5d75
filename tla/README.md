# celloc in TLA+

This directory specifies [celloc](../src/README.md): `geolocd`, a daemon on a router that turns
WiFi scans and the modem's serving cell into a position served over the gpsd protocol, and
`geoinflux`, which reads that position and writes it to InfluxDB. The modules are translated from
the Go source; `PROJECT.json` maps every definition to the lines it stands for.

## Inventory

```
 iw scan ─┐                                            ┌─ handleConn ─ reader     gpsd clients
 AT cmd  ─┼─ wifi.Source ─ pollOnce/pollLoop ─► cur ─►─┼─ handleConn ─ reader ──► e.g. geoinflux ─► InfluxDB
 provider ┘   (cached fix)   (ticker)     atomic.Value └─ Serve / closer            (uploader)
```

| Component | State | Operations | What is hard | What makes it correct |
| --- | --- | --- | --- | --- |
| Position source and poll loop (`source/wifi`, `cmd/geolocd`) | cached fix and its time, published fix, `hadFix`, ticker, context | `Fix` = scan, read cell, resolve, store or fall back; `pollOnce`, `pollLoop` | every call may hang or fail; ticks are dropped; cancellation races a tick | a position is withdrawn when and only when it must be, never goes back, polls are bounded, the provider's quota holds |
| gpsd server (`gpsd/server.go`) | per connection: handler, reader, channel, `watching`, ticker | `Serve`, `handleConn`, `handleCmd`, `sendFix` | select among commands, ticks and shutdown; writes without deadline; goroutine lifetimes | each client sees a well-formed session; nothing leaks; shutdown ends `Serve` |
| Uploader (`cmd/geoinflux`) | `lastFix`, `lastStatus`, `lastConnected`, connection | `run`, `stream`, `onTPV`, `disconnected` | dials, reads and writes that hang while TPVs queue; reconnects | debouncing holds, InfluxDB is told of connection changes in time, nothing queues up |
| gpsd client (`gpsd/client.go`) | connection, read deadline | `Dial`, `Watch`, `ReadTPV` | a stalled connection | every read is bounded (modelled with the uploader) |
| Scan parsing and merge (`wifiscan`) | per scan: access point being read, merged map | `ParseScan`, `Scan` | lines in any order or missing, interfaces that fail or overlap | each BSSID once, with its own name and its strongest signal |
| AT runner, serving cell, `qeng` | none | `Run`, `ServingCell`, `ParseServingCell` | firmware variants, lines cut short | the anchor is the one the modem described |
| Providers (`google`, `unwiredlabs`) | none | `Resolve`, `ParseResponse` | error bodies with status 200 | no location from an error |
| Reports (`gpsd/report.go`) | none | `TPVFromFix`, `FixFromTPV` | the zero time, pointers | what the uploader reads is what the router resolved |
| Line protocol (`influx`) | none | `FixLine`, `StatusLine`, `Write` | empty tags, missing time | one well-formed point per line |
| Rate limiter (`ratelog`) | last time per key | `Allow` | none: no limiter is shared between goroutines | at most one line per period |
| Configuration (`uciconf`) | none | `ParseUciShow` | overflow, empty values | sane values whatever `uci` holds |
| Supervision (procd, the init script, `run`) | instance, its hashed file, respawn count; staged and committed options | start, reload, respawn, exit | each restart forgets the cache and asks the provider; `uci show` also prints what is not committed | it is always tried again, and runs on what was committed |
| Key script (`scripts/`) | cloud project, keys, cap; the router's option | create or reuse key, restrict, cap, deploy | steps that fail half-way, listings that look empty | re-running converges, no key reaches the router unguarded |

The poll loop and the server share only `cur`, an `atomic.Value`; the server and the uploader share
only a TCP connection; the script and the daemon share only `uci`'s options. That is why the parts are
modelled separately, each with its neighbour as an environment that does no more than the neighbour's module
allows: `GpsdServer` has positions that are resolved and withdrawn as `PositionFeed` says, `Uploader` any stream
of TPVs. Three modules put parts together where a property spans them:

- `Resolution` extends `ServingCell`: from the modem's text to the provider's request and the fix.
- `StreamFeed` extends `Uploader`: from geolocd's position, as `PositionFeed` promises it, to InfluxDB.
- `Deployment` extends `KeyScript` and `Supervisor`, and that `UciConf`: from the cloud's key to the daemon that uses it.

## Modules

| Module | Role |
| --- | --- |
| `FixData` | `source.Fix` as data; extended by the modules of the daemon |
| `PositionFeed` | abstract: what geolocd promises about the position it serves |
| `PollLoop`, `MCPollLoop` | the source and the poll loop, in time |
| `PollLoopProofs` | theorems about `PollLoop`, with their proofs |
| `GpsdSession` | abstract: what one gpsd client may rely on |
| `GpsdServer`, `MCGpsdServer` | `Serve`, handlers and readers with their clients |
| `Uploader`, `MCUploader` | `geoinflux`, in time |
| `UploaderProofs` | theorems about `Uploader`, with their proofs |
| `StreamFeed`, `MCStreamFeed` | a position's way from geolocd to InfluxDB, around `Uploader` |
| `StreamFeedProofs` | theorems about `StreamFeed`, with their proofs |
| `WifiScan`, `MCWifiScan` | `Scanner.Scan` with `ParseScan`, line by line |
| `ServingCell` | the AT reply, its decoding and the choice of the anchor cell |
| `Resolution`, `MCResolution` | `Source.resolve` with both providers' clients, around `ServingCell` |
| `WifiScanProofs`, `ResolutionProofs` | theorems about `WifiScan`, and about `ServingCell` and `Resolution`, with their proofs |
| `Reports`, `MCReports` | fix to TPV to fix to InfluxDB points, as data |
| `ReportsProofs` | theorems about `Reports`, with their proofs |
| `UciConf` | `ParseUciShow` and `run`'s choice of a source |
| `Supervisor` | geolocd's process under procd, and `uci` |
| `KeyScript` | the key script and the cloud |
| `Deployment`, `MCDeployment` | both of them, and the requests that are made with the key |
| `DeploymentProofs`, `GpsdServerProofs` | theorems about `Deployment` and `GpsdServer`, with their proofs |

Next to some definitions a module holds variants of it whose comment calls them mutants. They are
not used by the specification: each is a plausible bug, and a property is kept only if substituting
one makes its run fail. The pairs are listed in `PROJECT.json`.

### PollLoop

`pc` is where the polling goroutine is: in one of the calls `scan` (one per interface), `cell` (the
AT command) and `resolve` (the provider request), in `pollLoop`'s `select`, or stopped. Each call's
return is one action: `ScanIface`, `ReadCell`, and `ResolveOK` or `ResolveErr`. The action that ends
a poll also does what `Source.Fix` and `pollOnce` do after it: store or fall back, publish,
set `hadFix`, and create the ticker after the first poll. `TickerFire` delivers a tick into the
channel of capacity one. `Cancel` is the signal.

Time is a counter. A call may succeed up to `Deadline` (its own timeout and the poll's context,
whichever is earlier) and must have returned by `MustReturnBy`: for a subprocess that is `WaitDelay`
later, because a killed helper's child may hold its pipes, and at once when the context was already done.
`Tick` is disabled when that instant is reached, when a select has a ready case, and when the ticker is due.
So a goroutine that can run does so within the unit; scheduling delays below a unit are the
model's one idealisation. `MaxTime` bounds the clock.

Abstracted: coordinates, what an access point is beyond its identity, how a response is parsed, log
lines and their throttling (`lastLogMsg`, `scanLogs`), which nothing else reads.

### Resolution

`ScanReturns` gives the scan, `CellStep` is a step of `ServingCell` (AT runner and `qeng`), and `Send`, `NothingToSend`, `TransportFails`,
`GoogleAnswers` and `UnwiredAnswers` are the rest of `resolve` with the provider's client and parser. A request is a record with the
provider's own field names, so that a swapped field (`cid` for `lac`) is seen; `Intact` compares each with the field the modem meant. An answer is its code and what
`ParseResponse` looks at: which coordinates are there, the reason, the status, the words of the message.

### UciConf, Supervisor, KeyScript and Deployment

`staged` is what `uci show` prints, which includes `uci set` without `uci commit`; `committed` is the file. `proc` is the process: loading, in its first poll
(before the ticker that may panic), serving, waiting for procd's respawn, or given up. `Exit` is procd's side of an exit, with its threshold and `respawn 3600 5 0`;
`Reload` restarts the instance if the hashed file changed. procd, `uci` and the cloud are external, modelled from the parameters with which the init script and the key script call them.

`KeyScript` has a step per block of the script; `Fails` may end it anywhere, as `set -e` does, after which it can be run again. `CreateKey` is possible although there are keys: a
listing that fails looks empty (`|| true`). `Reconcile` is the cloud, which applies the wanted cap late or not at all. The script's last step, on the router, is three commands without `&&`, each of which may fail: `SetKey`,
`CommitKey`, `RestartDaemon`. An ssh connection that breaks is taken to end the remote commands too (`Fails`). `billed` counts the day's requests that the
provider has answered; those above `Cap` are counted once, since one is enough to tell.

### PositionFeed

Two variables, `now` and `cur`. `cur` changes only to a fix resolved at that instant, or to
"no fix" once the served one is `StaleAfter` old; and time does not pass a fix's `MaxServedAge`.
`PollLoop` implements it under the identity mapping. Polls, calls, cache and ticker are what it hides.

### GpsdServer and GpsdSession

Per connection, `conn` is the handler goroutine and `reader` the reader goroutine. The handler blocks at two places only:
in its `select` (`out` is empty) and in `conn.Write` of the first report in `out`. `HandleCmd`
and `HandleTick` are the cases of the select and put into `out` what the code writes next;
`WriteOK` takes one report, `WriteError` ends the handler. `Load` puts the position into a report
when `Provider` is called, which is before the write that may block. The reader offers one line at a time (`offer`) and ends when
it sees the handler's `done`, end of file, or a line longer than the scanner's buffer.
`Return` is the deferred calls. `ServeEnds` is a failing `Accept`: the process ends with it.

A client (external) dials, sends lines, reads reports or does not, and hangs up, whenever it likes.
`GpsdSession` says what it is sent: VERSION first, a TPV only while the last WATCH told it so, SKY right after each TPV, WATCH
right after DEVICES, and positions whose time never decreases. `Sessions` states that each
connection is such a session.

### Uploader

`pc` is the call that `run`'s goroutine is in: `dial`, `read`, the two writes of `onTPV`
(`status`, `geoWrite`), the write of `disconnected` (`lost`), and the `wait` before the next dial;
`top` and `geo` are points between calls, where no time passes. `feed` holds reports that have
arrived and wait, with the instant they did. `captured` is `onTPV`'s `now`, read before the status
write: the geo point is debounced against it. A write's result is only logged, so
`WriteDone` covers success and failure. `Dial` has no timeout in the code; `DialTimeout` is the kernel's.

### StreamFeed

A position is the time of its fix. `Send` is `sendFix`: it loads `served` into `flight`, which stands for the handler's
blocked write, both kernels and the network; `Deliver` moves the oldest into geoinflux's socket, where `cargo` runs in step with
`Uploader`'s `feed`; `doing` is the position `onTPV` is working on. `Publish`, `Withdraw` and the guard of `Pass` are
`PositionFeed`'s promises, for which `PollLoop` is proved to be good; `Restart` is a daemon that ends and comes back without its handlers and without
its cached fix, which `PositionFeed` does not have. What its handlers had sent is still delivered; geoinflux's end of the connection is not told at once, but when a close arrives (`Lost`), or never, as when
the router lost power, and then only the read deadline tells. Every other action is one of `Uploader`'s with what it does to the pipe, and
`StreamFeedProofs` proves that a `StreamFeed` is an `Uploader`. Both machines read one clock.

### WifiScan, ServingCell and Reports

These three are sequential; what they add to the modules above is the data. `PollLoop` needs of a scan only the set of
BSSIDs and of the AT command only whether there is a cell; how these come about is here.

`WifiScan` has one action per line of an output (`ReadLine`) and per merged access point (`Merge`). A line is its kind and
its value. The parser is compared with `Entry`, which looks at a whole output at once: an access point per BSS line, with
the last level and name before the next one; `Lists` says that a sequence has those that are kept, in their order. The merge is compared
with `Strongest` over all that was heard.

`ServingCell` decodes fields by position. A field here records which field the modem meant and which line it is in, so the
reference, `Describes`, can go by names: `AnchorRight` fails if a position is off by one anywhere, if a line cut short is half read, or if
two lines are mixed. Which fields a modem sends (`Format`, and `Sent` of a line that ends early) is external; it is the format that the comment of `qeng` lists.

`Reports` follows one TPV, from geolocd or from another gpsd, through both programs. Its clock counts fractions of a
millisecond, since TPVs carry milliseconds.

## Checks

`tlc -config <cfg> <module>` runs one; their times are below the table.

| Run | Property | Shows |
| --- | --- | --- |
| `poll` | `ServedAgeBounded`, `YoungFixServed`, `Attributed`, `OneRequestPerInterval`, `BudgetKept`, `StopsPromptly`, `PollBounded`, `FeedSpec`, `KeepsPolling` | Two interfaces and an interval (3) shorter than a poll that hangs (up to 5), so ticks are dropped and polls run back to back: every bound, `PollLoop` implements `PositionFeed`, and from its select it always polls again. |
| `stale_served` | `StaleIsNoFix` (violated) | The documentation's "no-fix is served when the last fix is older than `StaleAfter`" holds only at polls. |
| `server` | `WatchingTold`, `Sessions`, `NoLeak`, `Shutdown`, `StreamsOn` | Every command, overlong lines, blocked writes, hang-ups and changing positions; goroutines end with their client, `Serve` ends although a handler blocks, streaming does not starve, whatever a client floods. |
| `uploader` | `StatusTells`, `NoBacklog`, `SilenceBounded`, `GeoSpacing`, `StatusPaced`, `Stops` | Stalls, drops, slow dials and slow writes in every order; SIGTERM ends the uploader, whatever it blocks in. |
| `stream_feed` | `Pipeline`, `PointAge`, `LossTold`, `PointsAdvance` | Lost connections, a network that stalls, a daemon that dies with TPVs still on their way: points never go back in time, their age is bounded, and InfluxDB hears in time of a position that is gone. |
| `scan_merge` | `TypeOK`, `ParserRight`, `MergeRight` | Outputs that mix, repeat and omit lines, on interfaces that overlap or fail. |
| `scan_error` | `ErrorOnlyIfAllFailed` (violated) | One interface fails, the other hears nothing: the error of the first. |
| `resolution` | `AnchorRight`, `RequestTells`, `FixFromAnswer`, `QuotaNamed` | Every technology, in any order, cut short anywhere, unreadable numbers, through either runner; both providers, every class of answer. |
| `null_island` | `NoFabricatedCoordinate` (violated) | A Google answer whose location lacks a coordinate becomes a fix at 0. |
| `reports` | `TypeOK`, `RoundTrip`, `PointHonest`, `PointWritten`, `AgeTrue` | Every fix geolocd serves, every TPV another gpsd may send. |
| `deployment` | `Guarded`, `UpToDate`, `KeepsTrying` | Two runs of the script that may fail anywhere, an operator who edits, a failing load or crash, and procd. |
| `second_key` | `OneKey` (violated) | A listing of the keys that fails makes a second key. |

`tlc` with two workers takes about two and a half minutes for `uploader`, between one and two for `poll`, `server`, `stream_feed` and `deployment`, and seconds for
the others. Types are checked by a run where the data is most of the model; theorems state them for the other modules too.

### Bounds

*Poll loop.* One unit stands for about 20 s: `ExecTimeout` and `HTTPTimeout` are 1, as is
`WaitDelay`, which rounds it up. `PollTimeout` is 4: the calls of a poll with two interfaces, if they all ignored the poll's context, would outlast it as they would in
the program (2 · 21 s + 21 s + 15 s against 60 s). Polls that hang last 5: a tick waits at
the end of each, the next begins at once, and soon a tick finds another one waiting and is dropped. `StaleAfter` is 6, twice the interval, which is above `StaleFloor`. `MaxTime` (18) exceeds `MaxServedAge` (14), so
a fix can be resolved, age, and be withdrawn. Two access points with `MinAPs` 2 give scans below, at and above the
threshold, on one interface or both; one cell is enough, since cells are only compared with `NoCell`. `stale_served` has one interface and a longer clock.
That the request keeps its whole timeout where the timeouts fit, as they do for one interface, is theorem `FullRequest`.

*Server.* Connections share only `cur` and the context, so one client, which may dial again and again, shows every interleaving of
its own goroutines with those; `InboxCap` and `WireCap` of 1 give empty, full and blocked. Two positions
give an older and a newer one. A client's line is a count until `HandleCmd` looks at it: that it chooses the command only then takes nothing away, since nothing before looks at it.
`StreamsOn` needs commands that write no TPV themselves (`?VERSION`, `?DEVICES`, an unknown one) to be about the ticker, and they are all there.

*Uploader.* `MinInterval` 3 to `WriteTimeout` 1 is the program's default ratio; the dial and read timeouts
are shortened to 2 so that several connections fit below `MaxTime`. `FeedCap` 2 lets a TPV wait behind another one during two writes.
`MaxTime` (11) exceeds `SilenceBound` (10).

*Stream.* `WriteTimeout` is 0: with longer writes the bounds that `PointAge` and `LossTold` state move out of the clock's reach, and a bound that no
behaviour can pass shows nothing. At these values (`MinInterval` 1, `ReadTimeout` 1, `MaxServedAge` 2, two TPVs in flight and one in the socket) `LossTold` allows 7, and
`MaxTime` is 9, so that a position withdrawn after time 0 can be known as a fix for longer if the uploader forgets to report a loss, and the mutant's run shows one that is. `Uploader`'s own run has the slow writes.
`View` lets TLC take two states for one if they differ only in what no action of the module and no property of the run looks at; its comment lists them.

*Resolution.* Two access points with `MinAPs` 2, as in the poll loop; they are interchangeable. `null_island` needs one line of the modem.

*Deployment.* A second is 2 and `Int64` is 8, so that an interval of 7 wraps around to a negative duration, as about 9.3 billion seconds do in the program; the default, 1, does not.
The operator sets the interval to the one and back, which gives files that differ and files that are the same again. Two runs of the script with three names give a reused key, a second key after a failed listing, and a run that
finds what the first left (`second_key` is the shortest of these); the project is new or has a key that is not restricted. `Cap` is 1: one request too many is enough. A fault is either a failing `uci show` or a crash, of the first poll or later.

*Scan.* Four lines are two complete blocks with one line each beyond their BSS line, or one block with repeated lines; with
two interfaces the same BSSID is heard up to four times, at two levels or none. *Serving cell.* Three lines give each order of LTE, NSA and SA; two unreadable numbers
hit every pair of identifiers. *Reports.* Five instants around two millisecond boundaries, clock readings before and after.

### Fairness

`LiveSpec` of `PollLoop`, `GpsdServer` and `Uploader` assumes that runnable goroutines run, that calls bounded by a context or a
timeout return, that due ticks fire, and that time passes. In the server, strong fairness of
`HandleTick`, and of `HandleCmd` or `SeeEOF`, which are the two outcomes of one receive, stands for Go's `select`, which picks at random among the ready cases and
so never passes one over for ever; weak fairness would let a client that floods commands starve the ticker. Nothing
is assumed of clients, of the router's stream, of the network, nor of `Accept`. `Deployment`'s assumes that procd respawns and that the daemon loads and polls (weak fairness of `StartsUp` and
`Polls`); nothing of the operator or the script, so `KeepsTrying` speaks of a configuration that stays good from some time on.

### Disagreements between code and documentation

Four runs are expected to fail; each states a sentence of the repository that the code does not
keep, quoted in `PROJECT.json`. `StaleIsNoFix`: staleness is looked at only when a poll fails, so
with `wifi_interval` 300 s a fix can be served for up to 15 minutes and a poll where the documentation says 10.
`NoFabricatedCoordinate`: "a missing coordinate is never turned into 0,0" is true of Unwired Labs' parser, which decodes coordinates into pointers; Google's decodes them into
numbers, so a location object that lacks one gives 0. `ErrorOnlyIfAllFailed`: `Scan` "returns an error only when every interface failed and no APs were collected", but
one failed interface suffices if the others heard nothing. `OneKey`: the script is "safe to re-run" and reuses a key "with the same display name", but a listing that fails
looks like one without keys, and a second is made.

The raw ubus reply is handed on "so qeng can still scan it", but in JSON the quotes are escaped and nothing is recognised: `AnchorRight` (`Described` in `Resolution`) takes such content for one without a cell.

Two sentences are true only roughly, and the properties state what holds instead. Geo points are debounced by
`minInterval`, but from a clock reading before the status write, so the next may come up to a write's timeout early (`GeoSpacing`). The status is
written "every upload interval", but not while a dial or read hangs (`SilenceBounded`).

## Proofs

`PollLoopProofs` proves, for all constants that satisfy `PollLoopAssumption` and `NoCellAssumption`:

| Theorem | Statement |
| --- | --- |
| `TypeCorrect` | `Spec => []TypeOK` |
| `ServedAge` | `Spec => []ServedAgeBounded` |
| `YoungFix` | `Spec => []YoungFixServed` |
| `PollIsBounded` | `Spec => []PollBounded` |
| `Stopping` | `Spec => []StopsPromptly` |
| `Refinement` | `Spec => FeedSpec` |
| `Quota` | `Spec => []OneRequestPerInterval` |
| `Attribution` | `Spec => []Attributed` |
| `RequestBudget` | `Spec => []BudgetKept` |
| `FullRequest` | the request has its whole `HTTPTimeout` left in the poll's context, if the scans' and the AT command's timeouts and grace plus `HTTPTimeout` fit into `PollTimeout` |

The argument. None of the bounds is inductive alone: how old a served fix can get depends on when the
poll began that may withdraw it, that on the ticker, and the ticker on how long polls take. The invariant
`IInv` ties these together:

- `TickerInv`: once the first poll has created the ticker, its next tick is due within one interval;
  until then nothing was served. `QuotaInv`, for `OneRequestPerInterval`, adds up the requests sent, the
  one the poll in progress may still send and the one a waiting tick stands for, and bounds them by the ticker's next instant.
- `CallInv`: the current call began within the current poll, which is not overdue. It is kept because time passes only
  before `MustReturnBy`, which lemma `MustReturnBound` puts below the poll's deadline, and below the
  cancellation, plus `WaitDelay`; `PollBounded`, and with `CancelInv` `StopsPromptly`, follow.
- `CacheInv`: the served fix is the cached one or none; none only if the cached one is old enough.
- `AgeInv`: the poll that looks at a served fix next begins, or the one in progress began, before the
  fix is `StaleAfter` plus an interval old; with `CallInv` this gives `ServedAgeBounded`.

`Refinement` uses `IInv` for both of `PositionFeed`'s guards. `BudgetInv`, for `RequestBudget`, bounds the
time at which call *i* of a poll begins; it needs a lemma on products, `TimesMonotone`, because it
multiplies by the number of interfaces scanned. `AttributionInv`, for `Attributed`, carries the decision to ask, taken before
the request, to the answer, and from there to the cache that later polls fall back to.

`UploaderProofs` proves, for all constants that satisfy `UploaderAssumption`:

| Theorem | Statement |
| --- | --- |
| `UploaderTypes` | `Spec => []TypeOK` |
| `Telling` | `Spec => []StatusTells` |
| `Spacing` | `Spec => GeoSpacing` |
| `Pacing` | `Spec => StatusPaced` |
| `NothingQueues` | `Spec => []NoBacklog` |
| `Heard` | `Spec => []SilenceBounded` |

For the first three its invariant has independent parts, each proved inductive on its own. `ToldInv` says what was last reported at
every point of `run`, the write in progress included. `GeoInv` bounds how far the clock may run ahead of `captured` and of
`lastFix`; the difference of at most `WriteTimeout` is what `GeoSpacing` allows below `MinInterval`. `LostInv`
says that between two failing streams lies a full `RetryDelay`, unless the process is told to stop.

`BusyInv`, for `NoBacklog`, names an instant `from`, the last at which the uploader waited for a report: all that waits now arrived since, and the uploader has since done nothing but
write, at most once of each kind (`Spent`), because a second write is not due before `MinInterval`. That is why two writes must fit into it.

`SilentInv`, for `SilenceBounded`, gives each point of `run` the part of the bound that may be spent there: once the debounce has run out
the next TPV writes a status, each other report lets a read begin anew (at most `MaxOthers` between TPVs), and a failed read leads through the loss, the delay and the dial to a write. The proof
showed that the bound stated at first was true only of writes shorter than the debounce; a slower write counts in its place (`Later`).

`ReportsProofs` proves, for all constants that satisfy `ReportsAssumption`:

| Theorem | Statement |
| --- | --- |
| `TripRound` | `Spec => []RoundTrip` |
| `Honesty` | `Spec => []PointHonest` |
| `NothingLost` | `Spec => []PointWritten` |
| `AgesTold` | `Spec => []AgeTrue` |
| `ReportTypes` | `Spec => []TypeOK` |

The invariant says that the TPV is the one made of the fix and the points those made of the TPV; the rest is data. Lemma `Inverse` is the round trip;
`FormatBound` and `RoundBound` are the arithmetic of milliseconds. The assumption that no instant lies in the zero time's millisecond is needed: such a
fix would arrive without a time. `ReportTypes` needs that an instant cut to its millisecond is one as well, since a TPV's time is that.

`StreamFeedProofs` proves, for all constants that satisfy `UploaderAssumption` and `StreamAssumption`:

| Theorem | Statement |
| --- | --- |
| `Implements` | `StreamSpec => Spec`, that is, what `UploaderProofs` proves holds here too |
| `InOrder` | `StreamSpec => []Pipeline` |
| `PointsInOrder` | `StreamSpec => PointsAdvance` |
| `PointsFresh` | `StreamSpec => []PointAge` |
| `LossReported` | `StreamSpec => []LossTold` |

`Pipeline` is itself inductive, given the types: it orders each stage of the way against the next, from the last point to what geolocd serves now, so that a step which moves a position by one stage needs only its neighbours.
A restart forgets `served` and leaves alone what is in `flight`, and a fix resolved later has the current time, which no position on its way exceeds.

The bounds on time need to know of every position on its way by when `onTPV` will have it. `SocketAt` and `FlightAt` say so: the writes of the TPVs
ahead of it in the socket, and a `Gap` for each ahead of it in flight. Lemma `NoLater` is the heart: no step moves these instants back, since every write, wait and
report on the way was counted. `WayInv` has the bounds of the queues and calls, so that a position just sent arrives within `Transit`; `TimesInv` and `HeldInv` keep that, for the
positions on their way and for the one that `onTPV` holds; `GoneInv` has by when, after the withdrawal, a TPV is read that still says there is a fix, and the next one or the failing read after it.
`MaxServedAge` must not be 0: `PositionFeed` serves a fix at its own instant.
`GoneInv` showed that a debounce of 0 still costs the instant of the write, hence `Later(MinInterval, 1)`.

`WifiScanProofs` proves, for all constants that satisfy `WifiScanAssumption`, and so for outputs of any length and any number of interfaces:

| Theorem | Statement |
| --- | --- |
| `ScanTypes` | `Spec => []TypeOK` |
| `Parsing` | `Spec => []ParserRight` |
| `Merging` | `Spec => []MergeRight` |

`ParseInv` says of the parser's one access point that it is the `Entry` of the last BSS line, and of those it has flushed that they are the earlier ones: a line
changes what the text says (`Said`) for the last block only, which lemmas `SaidNow` and `SaidAgain` prove for every kind of line. The merge is
compared with the reference at each step (`Merged(n)`, for the first `n` access points heard), with `Count` as the place that the loop has reached.
`Shape` says in which phase which variables are empty.

`ResolutionProofs` proves, for all constants that satisfy `ServingCellAssumption` and `Resolution`'s assumptions:

| Theorem | Statement |
| --- | --- |
| `Anchor` | `Spec => []AnchorRight`, for `ServingCell` alone |
| `Resolving` | `ResolutionSpec => []ResolutionInv` |
| `AnchorOfResolve` | `ResolutionSpec => []AnchorRight` |
| `Tells` | `ResolutionSpec => []RequestTells` |
| `Fixes` | `ResolutionSpec => []FixFromAnswer` |
| `Quota` | `ResolutionSpec => []QuotaNamed` |

The decoder goes by positions, `Describes` by names. Lemma `LineRight` says that they agree on every line, of any technology, with or without its prefix, cut
short anywhere and with any numbers unreadable; `Body`, `Places` and `FieldRead` are its steps. `Match` lifts this to the whole
reply: per technology, the first cell that can be located is the first tower described. It is inductive because a line appended leaves a
first one where it is (`MinStays`), and gives `AnchorRight` when the text ends. `ResolutionInv` adds that what was asked, and what became of the answer, are functions of what
was scanned, read and answered; lemmas `AskedIsRight`, `Located` and `CapOfGoogle` compare these functions with the properties, field by field and class by class.

`GpsdServerProofs` proves, for all constants that satisfy the assumptions of `GpsdServer`, and so for any number of connections:

| Theorem | Statement |
| --- | --- |
| `TypeCorrect` | `Spec => []TypeOK` |
| `SwitchTold` | `Spec => []WatchingTold` |
| `SessionsImplemented` | `Spec => Sessions`: every connection is a `GpsdSession` |

What a client has been sent says too little of what comes next, because the handler's reports wait in `out` behind a write that blocks. `IInv` therefore has, per connection, what `out` may hold
at each point of the handler: VERSION only first, a WATCH after each DEVICES, a SKY after each TPV, and in `Held` the position of a TPV that waits, which is between the last one written and the one served now.

`DeploymentProofs` proves, for all constants that satisfy `SupervisorAssumption`, `UciConfAssumption` and `KeyScriptAssumption`:

| Theorem | Statement |
| --- | --- |
| `RunsOnCommitted` | `DeploymentSpec => []UpToDate` |
| `KeyIsGuarded` | `DeploymentSpec => []Guarded` |

`RunsInv` follows the file from `committed` to the hashed instance and the loaded `config`. `GuardInv` ties the script's step to the cloud's state (`ScriptInv`), the key to where it may be (`FileInv`) and the requests to the cap (`BilledInv`): past the cap's wait the cap in force is no
higher than asked for, or the run waived it; the key that the script carries or that is staged is restricted; and unless one was waived, no key is staged or loaded before the cap is in force. Requests are counted only below the cap, hence `billed <= Cap`.

Only model-checked: liveness (`KeepsPolling`, `NoLeak`, `Shutdown`, `StreamsOn`, `Stops`, `KeepsTrying`), which needs fairness and ENABLED, beyond the provers. Every
other property that holds has a theorem. The four that do not hold have a counterexample.

`ServingCell` was put in a form that can be reasoned about without changing what it does: `Format` is a function, what was found in a line is appended by
`AddTo` rather than by enumerating a set, and the fields that came before a line ended have a name, `Sent`.

## Plan

Done: all modules of the first plan, and a theorem for each of their safety properties, action properties and refinements. What could still be proved:

1. Safety parts of the liveness properties: for `NoLeak` and `Shutdown`, that a handler that has returned leaves its reader only steps that lead to its end; for `Stops`, that no
   dial or write begins after the cancellation.
2. `Deployment`: types of `Supervisor` and `KeyScript` as theorems of their own.

## Not modelled

- Coordinates in the poll loop; JSON, HTTP, URLs and line-protocol text; DNS and TLS. The properties need which field holds what, not how it is spelt.
- The rate limiter (`ratelog`) and log lines: nothing else reads them, and no limiter is shared between goroutines.
- `geoinflux.service`: `Restart=always` for a program that keeps no state. Packaging, documentation and CI have no behaviour.
- Of the key script: its flags' syntax and the order in which the cloud lists several keys (any is taken).

Limits of what is modelled. `UpToDate` excepts a daemon that has loaded options not committed yet (`astray`): the code reads `uci show`, procd hashes the file, and nothing reconciles the two before the next
change. An edit that is reverted before procd looks leaves the hash as it was, which `UpToDate` covers. `Guarded` excepts `-q 0`, which the script documents as leaving the cap alone. The script's 24 looks at the cap are one
wait that succeeds or fails.
