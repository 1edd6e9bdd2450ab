# Dragino IoT Mesh firmware: specifications, model checking and proofs

This directory specifies the parts of the firmware that have logic of their own:
the programs a Dragino box (MS14, HE, Yun Shield) adds to OpenWrt to turn lines
from a microcontroller into channels, to relay the channels to a server, to
register the box with a cloud service, to keep its DNS name current, to derive its
network from one page of settings, to show its traffic and to drive its telephone
ports. The specifications are TLA+, translated from the source; TLC checks small
instances and TLAPS proves the theorems for every instance.

Paths below: `P` is `src/package/dragino2/files`, `L` is
`src/package/luci-0.11/applications/luci-sensor`, `D` is
`src/package/ddns-scripts/files`, `V` is
`src/package/luci-app-dragino-voip-webpanel/files`, `bwc` is
`src/package/luci-0.11/modules/admin-full/src/luci-bwc.c`, `chan_lantiq` is
`src/packages_12.09/net/asterisk-1.8.x/src-lantiq/channels/chan_lantiq.c`.

## 1. Inventory

| component | code | state it keeps | operations | talks to |
|---|---|---|---|---|
| Sensor channel store | `P/usr/lib/lua/dragino/utility.lua`, `L/root/usr/sbin/set_sensor_value` | one file per channel in `/var/iot/channels` (RAM): newest value, mtime | write a value, read value and mtime, list all | everything below, through files |
| UART routing | `P/usr/lib/lua/dragino/uart_routing.lua` | the patterns of the channels | dispatch a line to every channel it matches | MCU, channel store |
| TCP client | `L/root/etc/iot/scripts/tcp_client.lua` | the socket, last value and mtime of each upload channel, three timers | receive, upload on change, upload periodically, keep alive, reconnect | channel store, TCP server |
| Cumulocity client | `P/usr/lib/lua/dragino/iot/cumulocity.lua` | uci option `iot.general.GlobalID`; the service's objects | -g register, -d delete, -u/-a describe, -p post, -ga/-sa/-ca alarms | HTTP service, uci |
| Xively, Yeelink relays | `P/.../iot/xively.lua`, `yeelink.lua`, `L/.../xively_routine.lua` | a timer | timed upload of all channels; fetch actuators | channel store, HTTP services |
| Dynamic DNS updater | `D/usr/lib/ddns/*.sh`, `D/etc/hotplug.d/iface/25-ddns` | pid file and time of the last update in `/var/run/dynamic_dns`; registered and current address | start on ifup, stop the predecessor, check, update, sleep | netifd, name server, provider |
| Service supervision | `L/root/etc/init.d/iotd`, `P/etc/init.d/dragino.init`, `luci-reload`, `ucitrack` | the processes that run | find by name, kill, start | web interface, daemons |
| Network configuration | `src/files-IoT/usr/bin/config_secn`, `config_secn-2`, `set-mesh-gw-mode.sh` | uci packages secn, network, wireless, dhcp | map the secn options onto the others, commit, restart | uci, netifd, dnsmasq |
| Bandwidth collector | `bwc` | four databases in `/var/lib/luci-bwc`, a pid file, a countdown | be started or kept alive by a page, sample once a second, print | web pages (signal, shared mapping), kernel counters |
| Telephone ports | `chan_lantiq` | per port: state, owner channel, dial buffer, timer | hook and digit events, dial by '#' or by timer, ring, answer, hang up | TAPI device, scheduler thread, Asterisk |
| VoIP configuration | `V/usr/bin/config2*`, `V/usr/lib/lua/dragino/asterisk_ami.lua` | uci package voip, `/etc/asterisk/*.conf`, temporary files | generate servers, clients, extensions; query Asterisk | uci, Asterisk |
| MCU programming, Bridge | `L/root/usr/bin/run-avrdude`, `reset-mcu`, `run-bridge`, `kill-bridge` | GPIO 19 and 20 | export, flash, unexport; kill and start the Bridge | GPIO, avrdude |
| NTP client start | `src/package/ntpclient/files/ntpclient.hotplug` | the running client | start on ifup, stop on ifdown | netifd |
| Vendored and generated | LuCI, the packages feed, `src/platform`, build scripts | - | - | - |

What is hard, and what would make each part correct:

* **Channel store and its users.** Writers and readers share files with no lock.
  `echo v > file` truncates before it writes, a reader takes the mtime after the
  value, mtimes have whole seconds. Correct: a value that stays in a channel
  reaches the server; nothing is passed over.
* **TCP client.** Failures of `send` are ignored, a closed peer is noticed only
  after a send, one timer serves both the keep-alive and the reconnection.
  Correct: uploads survive server restarts, and the connection comes back.
* **Cumulocity client.** Every invocation is a process with a snapshot of the
  configuration; requests get lost before or after the service has acted;
  scripts are killed; two run at once. Correct: the id in the configuration is
  that of an object that exists, and the box has one identity.
* **Dynamic DNS.** A new updater kills the old one, whose request goes on; name
  servers are out of date; updates are lost. Correct: one updater at a time, and
  the record becomes the address of the interface.
* **Supervision.** Processes found by name are killed and started by scripts
  that may overlap. Correct: one daemon per enabled service, and the last
  settings win.
* **Network configuration.** Pages save and commit while a run is under way, and
  the request for a run may be lost; the result may depend on the mode before; a
  power cut between the commits mixes two modes. Correct: a run leaves what is in
  use of one mode, that of the settings saved before it.
* **Bandwidth collector.** Every client may start the collector, the signal that
  keeps it alive races with its countdown, and readers have its database mapped
  while it moves the rows. Correct: ordered and well-formed output, nothing lost
  to a kill, an end when nobody looks.
* **Telephone ports.** The receiver, the monitor thread, the timer's thread and
  Asterisk act on a port, each with an older view of the others. Correct: dialling
  and calls end, the bell has a caller, the driver knows where the receiver is.
* **VoIP configuration.** Sections are deleted while they are being walked, a
  flag of one server leaks into the next. Correct: the generated file lists
  every client and server of the configuration, with its own flags.
* **MCU programming.** Two uploads share one GPIO line. Correct: the line is
  connected for as long as avrdude runs.

`PROJECT.json` lists these hazards at their lines, with the property that covers each
or the reason why none does; those of the components that are not modelled are only here.

## 2. Modules

| module | what it is |
|---|---|
| `DeviceIdentity` | abstract: a box adopts the identity of an object that exists, and only an object it does not hold disappears |
| `Cumulocity` | the client's commands, request by request; `ImplementsIdentity` refines `DeviceIdentity` |
| `MCCumulocity`, `CumulocityProofs` | instances for TLC; theorems |
| `ChannelStore` | the files, their mtimes and their writers (UART router, sketches): shared state that others compose with |
| `TcpClient` | the daemon's loop over a `ChannelStore`, the server and the clock |
| `MCTcpClient`, `TcpClientProofs` | instances; theorems |
| `DdnsUpdater` | updater processes, their files, requests under way, provider and interface |
| `MCDdnsUpdater`, `DdnsUpdaterProofs` | instances; theorems |
| `SampleWindow` | abstract: what a database shows, a window of the newest samples |
| `BandwidthCollector` | collectors, clients, pid file and database, memory access by memory access; `ImplementsWindow` refines `SampleWindow` |
| `MCBandwidthCollector`, `BandwidthCollectorProofs` | instances; theorems |
| `ServiceReload` | `luci-reload` with its lock, the init scripts it runs, and the daemons |
| `MCServiceReload`, `ServiceReloadProofs` | instances; theorems |
| `SecnConfig` | the pages of the network settings, `config_secn`, its commits and the power |
| `MCSecnConfig`, `SecnConfigProofs` | instances; theorems |
| `LantiqChannel` | a telephone port between receiver, device, monitor and scheduler threads, and Asterisk |
| `MCLantiqChannel`, `LantiqChannelProofs` | instances; theorems |

Operators called "wrong variant" stand beside the definition they distort: each
is a slip that this code could have had, and a property is checked to tell it from the
real step. No specification uses them, and they translate nothing: `map` does not
name them.

Where the system relies on something that no code enforces (that two pages do not ask in
the same moment, that nobody starts a script by hand beside another), the actions do not
know of it. It is a predicate of its own, `InTurn`, and a specification of its own,
`SerialSpec == Init /\ [][Next /\ InTurn]_vars`; a run and a theorem say by the
specification they name whether they need it. `Cumulocity` has a constant for it
(`Overlap`), and `LantiqChannel` a history variable (`calm`), because only two of its
properties need it.

### Cumulocity

One HTTP request is one step: what the service does, the code the script sees,
and what the script does up to its next request or write. A process is a record
`client[c]`: where it is (`pc`), its command, the snapshot of the GlobalID it
took when it was loaded (`svc`), the id it works with and the measurement types
it carries. `get_GlobalID` is `Start` (id known), `Identify` (`is_registered`),
`CreateObject`, `CreateExternalID`, `SaveGid`; the commands follow it: `-u` is
`UpdateMeasurementTypes`, `-a` is `GetObject` and then the same, `-p` is
`PostMeasurements`, `-d` is `Identify`, `ForgetGid`, `DeleteDevice`, `-sa` is
`RaiseAlarm`, `-ga` is `ListAlarms`, and `-ca` is the same followed by one
`ClearAlarm` for each alarm of the list. With an id from the user `-ga` and `-sa`
(`StartFor`) and with an alarm's `-ca` (`StartClear`) ask for no GlobalID. The
script decodes only the first piece of an answer, so a list of more than
`FirstPiece` alarms makes `-ca` end with an error and clear none. Code 0
stands for every answer the script does not recognise, the transport's error
string included, and `Acted` says that the service may have acted all the same.
Around the script: `Crash` (a kill between two steps), `EraseConfig` (reset to
defaults), `OperatorDeletes` (device removed in the web page of the service).

Two details of the code shape the model. After nearly every request the script
evaluates `debug >= 1`; without `iot.general.debug` the variable is `false`, the
comparison raises an error and the script ends there (`AfterRequest`). And
`uci:delete` acts on the copy of the package that the script loaded: an option
that was not there then is not deleted (`ForgetGid`; behaviour of the uci
library, which is external).

### ChannelStore and TcpClient

A channel file holds a value or nothing (`Blank`). Absolute times are not kept:
what `tcp_client.lua` does with an mtime is to compare it with the `update_time`
it remembers, so `newer[ch]` is the outcome of that comparison and `touched[ch]`
says that the file's mtime is the current second, in which case another write
does not make it newer. A writer's `job` is what the patterns have captured from a line, a
value for each channel that matches, and the file it has open: `Truncate` and `Fill` are
the two halves of `echo v > file`, channel after channel, and nothing keeps two writers, or
a writer and a reader, apart.

A pass of the daemon is `Top`, `Receive` (repeated while there are lines; the line is
then written by `Dispatch`, the daemon being one of the writers), `ReadValue` and `StatAndSend` per upload channel, `Post`, `Alive`. `pairs` gives
no order, so channels are read in any order. `conn` is `none` (nil), `up`, `half`
(closed by the peer, unnoticed: `getpeername` still answers) or `reset`
(something was sent after that). The timers are ages: `postAge` since
`old_time`, `aliveAge` since `alive_old_time`, `aliveTop` the latter as measured
at the top of the pass, which is what the code compares and restarts from.

### DdnsUpdater

One section of `/etc/config/ddns`. `IfUp` starts a process, whatever others there are;
`ReadPid`, `KillOld`, `ClaimPid` are the hand-over by pid file, `LoadLastUpdate` and
`Lookup` the rest of the start, `GetCurrentIp`, `Decide`, `SendUpdate`, `Record`,
`WriteTime`, `Wake` the endless loop. `Record` truncates the file with the time of the update
and `WriteTime` fills it; an updater killed in between leaves it empty (`Cut`), and the
arithmetic on its content ends every later one (`LoadFails`). The address may change with
no ifup (`AddressChanges`), which starts nobody. A request lives on when its process is
killed (`Answer` is a step of the provider, not of the updater). `Older` caps ages where
"longer than force_interval" begins.

### BandwidthCollector

`daemon[d]` is a collector: `TruncatePid` and `WritePid` are `writepid`, then the
loop of `run_daemon`: `Stat`, `CreateFile`, `ZeroRow` make a database, `Sample`,
`Compare`, `ShiftRow` (one row of the `memmove`), `StoreRow` are `update_file`, `Tick`
ends the sleep, `LoadCountdown` and `StoreCountdown` are `countdown--`, `UnlinkPid` is
the end. `client[c]` is a page's process: `ReadPid`, `Ping`, `SendSignal`, `Fork` are
`check_daemon`, `OpenFile` and `PrintRow` the dump of the live mapping, which prints a
comma after each row but the last place. A row is its time, 0 where there is none. The
four kinds of database are handled alike, so there is one. `InTurn` is the assumption that no
page asks while another is still looking for the collector or starting it.

### ServiceReload

`Save` is a page that stages a setting (which `uci get` shows to the scripts at once) and
may be about to ask for a run; `Trigger` is servicectl forking `luci-reload`, `LoseRequest` a
request that never comes. `Lock` and `Done` are the lock of `luci-reload`; between
them `GetEnable`, `ListProcesses`, `KillFound`, `StartService` are the body of
`start_iot_services` (and of `load_uart` in `dragino.init`) for one service after the
other, in any order. `KillFound` kills what was found only if it is one process: of two
the shell's test is an error. `StartByHand` runs a script without the lock, at any time;
`InTurn` is the assumption that no other run works meanwhile. Daemons crash at any time.
Two history variables: a service in `fallen` has ended by itself and need not run, one in
`unasked` has been changed by a page with no run asked for since.

### SecnConfig

`view` is what `uci get` shows, `file` what is committed; a power cut makes the first the
second. A page is `Save`, which stages, and may go on: `PageCommitsSecn` commits the
package (for the mesh page, whose map is chained to network and wireless,
`PageCommitsNetwork` and `PageCommitsWireless` follow, with whatever a run has staged there), and
`Trigger` is the request for a run, which may be lost. A run is `ReadAccessPoint`, `ReadWan`,
`MapWan`, the three commits and `Reload`. `MapWan` writes options of secn back, which is why
a page that saves in the middle of a run does not simply wait for the next one, and
`CommitSecn` commits what pages have staged. `unread` is a history variable: a page has
changed secn since the last run began; `cut`: the power has gone off in the middle of a run
and no run has ended since. Options that are copied (addresses, keys, modem) are left out,
as is the package dhcp, which has no modes.

### LantiqChannel

`events[p]` are the doings of the person that wait in the device; `Monitor` takes the
first one: `OnHookEvent`, `OffHookEvent` (or `FeedFails`, if the device refuses), `DigitEvent`,
`HashEvent`. `Request`, `Call`, `HangUp` are what Asterisk asks for: `Request` makes its
channel the owner of the port whoever was it before, and `HangUp` clears the owner
whichever channel ends. These handlers hold `iflock` to their end, hence one step each; that
the monitor fetches an event under one hold and handles it under the next makes no
difference, as nobody else takes events. The handler of the dial timer holds no lock and is
three steps: the entry leaves the scheduler (`TimerExpires`), the timer is forgotten and
the state looked at (`DialTimeout`), and the number is dialled, whatever has happened since
(`DialTimedOut`). `sched[p]` counts the entries the port has forgotten (`orphans`), which
fire too. `calm` says that so far the surroundings have been as one expects (`Calmly`):
nobody asked for a port in use, Asterisk ended what it was asked to before the next
doing of the person was handled, nothing came between the steps of the timer's handler,
and the device refused nothing.

`tcp_client.lua` and `xively_routine.lua` end their lines with carriage returns
alone. `PROJECT.json` gives their lines as 1 and names the lines counted at
carriage returns in the symbol or the text.

## 3. Runs

| run | instance | shows |
|---|---|---|
| `cumulocity_serial` | 1 script at a time, every command, 3 ids, 2 types, 1 alarm; lost requests, kills, resets | the GlobalID never dangles, requests reach existing objects, box and service agree on the identity, `-a` drops no type, `DeviceIdentity` is implemented |
| `cumulocity_reliable` | 3 ids, 2 alarms; nothing lost, device removed in the web page, fairness | between runs the box has at most one object, the one its config and its MAC lead to; `-g` registers it; `-ca` clears every alarm |
| `tcp_periodic` | 2 channels, one uploaded and written by the daemon and one other writer; server restarts, lines in pieces, lines that match both channels | with a periodic upload the last value reaches the server, though writes fall into one second, into a read or into each other; a closed connection is replaced |
| `ddns_converges` | 2 processes that may start together, outages, stale DNS, ifdown, address changes without ifup | somebody always looks after the domain; once address and provider settle the record becomes the address; both but for an update file cut off |
| `ddns_overlap` | 2 processes that start together | violated: both go on |
| `ddns_cut` | 2 processes, ifdown | violated: an updater killed between truncating and writing the update file leaves one that no later updater survives |
| `bwc_collects` | 2 clients, 2 collectors, 3 rows, clock to 3; kills in any step, the clock set back; checks in turn (`SerialSpec`) | output in order and well formed; samples stay; `SampleWindow` is implemented; the collector ends when nobody looks |
| `service_reload` | 2 services of one script, 3 processes, 2 pages and the reloads they may ask for, 1 start by hand, in turn (`SerialSpec`), crashes | never two daemons of a service; settings a run was asked for are what runs; whoever waits for the lock is served |
| `secn_modes` | 3 modes, 1 browser that saves, applies and may never ask for the run, one run at work and one that waits, power cuts | when a run has ended uncut, what is committed and in use is that of the settings saved before it; what is in use is of one mode |
| `lantiq_calls` | 1 port, 2 channels, 1 digit and '#', 2 events in the device, second callers, refusals and every race of the timer | dialling is timed and ends, the owner lives, the bell has a caller; in calm behaviours the port knows the receiver and calls end |
| `lantiq_leftover` | the same | violated: the digits of a number given up are dialled with the next one |
| `lantiq_second_call` | the same | violated: of two callers the one that ends takes the port from the other's call |

The violated runs are disagreements between the code and a comment, a help text
or a configuration page, quoted under `findings` in `PROJECT.json`.

**Bounds and why they suffice.** Three ids are what a box and a service need to
disagree: the id saved, the id mapped and one more to be created; when all ids
are used a create is refused, which the code treats as any failure. Two types
tell "appended" from "replaced"; two alarms tell the first from the rest. Two values tell the last value from an
earlier one. The waits of 10 and 60 seconds are 0 and 0, or 0 and 1, in the
instances (the code compares with `>`, so one second must pass, or two), and the
upload interval is 1: a second may pass at any point of a pass, so the timers
still expire in every order relative to the loop. `MaxLines` bounds the
lines the server sends: one, beside the writes of the other writer, is two writers in a
file. Two ddns slots hold a predecessor and its successor; a slot is taken again only when its
request has ended, so a third process is one whose predecessor left no request. `ForceInterval` and `CheckInterval`
are 1: a second may pass before, during and after each check.
Two collectors and two clients make every pair of them; three rows have a first, a
middle and a last one, which is all a shift tells apart; the clock goes to 3 so that it
can be set back and pass its former value. `Timeout` is 0: the countdown then runs out in the
pass after the last signal, so that the signal races with the end. Three processes hold the daemons of
two services and one too many; a start without a free one waits. Three runs are two from
pages, that meet at the lock, and one by hand. The other script, `dragino.init`, has one
service and meets these only at the lock. With `MaxWaiting` 1 a run works while another waits; a third would
find the same settings as the second. One port: ports share nothing but the lock; two
channels are the call that ends and the one that begins. Two events hold a receiver that is
lifted and replaced, or a digit and '#'; one digit makes a number that is found, two one that is
not, and one entry that no port knows of (`MaxOrphans`) a timer that fires for the
wrong number. The two `Choices` are the modes that write options of secn back, and
the box is shipped with a third; the others ("Disable", "Static", and the modem, whose branch
leaves the station as it was) are in the theorems and not in the run.

**Fairness.** Scripts and daemons are processes of a preemptive kernel that
are not blocked for ever: weak fairness of their steps. HTTP requests and `wget`
end (their own timeouts). Time passes: weak fairness of `Tick`. `TcpClient`
also assumes that the server finishes the lines it begins (`ServerCompletes`):
without that `client:receive`, which has no timeout, blocks the daemon for ever (line
82), and no property of it could hold. `luci-reload` waits for its
lock in the kernel, which serves whoever waits: strong fairness of `Lock` (of
`Lock /\ InTurn` in `FairSerialSpec`). In `bwc_collects` the fairness is the same with and
without `InTurn`, which only keeps clients from asking. The monitor thread handles the events
that wait (weak fairness: nobody takes them from it), the scheduler thread the entries whose
time has come, which a digit may put off for a while (strong fairness of `TimerExpires`);
Asterisk does what it has been asked to (`Call`, `HangUp` when due). Nobody is obliged to lift a receiver, save a
page, look at a graph, start a script, write a channel, bring an interface up or restore a provider; `RecordConverges` and
`LastValueUploaded` are conditional on the environment settling.

## 4. Proofs

TLAPS checks, for every value of the constants:

* `CumulocityProofs`: `TypeCorrect`; under `Disciplined` (a `-d` never overlaps
  another script and nobody removes the device in the web page)
  `InductiveInvariantHolds`, hence `LocalGidNeverDangles` and
  `RequestsReachLiveDevices`; and `Refinement`, that the specification implements
  `DeviceIdentity`. When scripts do not overlap (`~Overlap`), with any faults, removal in
  the web page included: `OneIdentityAlways`. When, besides,
  `DebugSet` holds and the only fault is that removal: `AlwaysRegisteredOrNot`.
* `TcpClientProofs`: `TypeCorrect`; with sending on change, a server that never closes, and
  writes of upload channels that each have a second of their own (`Calm`, `CalmSpec`),
  `SendsOnChange`: what is not newer than the client knows is what the server has. The runs
  check no such thing: they are about the races that `CalmSpec` excludes.
* `DdnsUpdaterProofs`: `TypeCorrect` and `DomainNeverAbandoned`, for ifups at any time; for ifups
  so far apart that one updater has taken its place before the next starts (`SerialSpec`),
  `SerialOneUpdater` and `PidFileAlwaysNamesUpdater`.
* `BandwidthCollectorProofs`: `TypeCorrect`; for checks in turn (`SerialSpec`)
  `InductiveInvariantHolds`, hence `PrintsWellFormed`, `PrintsForward`,
  `SamplesStay`, and `Refinement`, that the specification implements `SampleWindow`; for any
  length of the database and any number of clients. That there is one collector then is
  a part of the invariant and not claimed of the code.
* `ServiceReloadProofs`: `TypeCorrect`; with runs by hand in turn (`SerialSpec`),
  `InductiveInvariantHolds`, hence `NeverTwo` and `SettingsTakeEffect`. The exclusion of two
  runs of `luci-reload` is not assumed; it is what the lock does.
* `SecnConfigProofs`: `TypeCorrect`, `InductiveInvariantHolds`, hence `RunsSettleWhatWasSaved`
  and `LiveIsOfOneMode`, for pages that save, apply, and lose their request at any time. Both
  are silent about the time between a power cut in the middle of a run and the end of the
  next run, and the first about settings that no run has begun after; `unread` and `cut` say so.
* `LantiqChannelProofs`: `TypeCorrect`, `DialingAlwaysTimed`, `OwnerAlwaysLives` and
  `AlwaysRingsForACaller`, with second callers, slow hang-ups, refusals and every race of the
  timer, for any number of ports, channels and waiting events and any dialplan.

`LocalGidLive` alone is not inductive: a script may hold an id on its way to
`SaveGid`, so `InductiveInvariant` adds that ids held by scripts are those of
existing objects (`ScriptsHoldLiveIds`), that the mapping is
(`MappedLive`), and that the one command that removes objects runs alone, has
seen the GlobalID it forgets, and has forgotten it before it goes for the object
(`DeleteRunsAlone`); the last point rests on the order of lines 563-567. The
refinement follows: every step of a script is a step of `DeviceIdentity` or a
stutter, and `DeleteDevice` is `Retire`, whose guard is `DeleteRunsAlone`.
`OneIdentity` needs `RegistersAlone`: a script that registers does so with no id in the
config, and the MAC leads nowhere but to its own object; neither survives a second script
beside it. `RegisteredOrNot` says nothing while a
script runs, so `ObjectAccountedFor` says who answers for the object then: the script that
creates, maps, saves or removes it, by the id it holds.
`NothingMissed` needs that the value just read is still the file's
(`ReadIsCurrent`), that a file being rewritten is empty and newer
(`RewrittenIsNewer`), that the daemon reads only while connected and that it
has cached what it has seen. `NeverAbandoned` needs that no updater finds itself in the pid
file (`NotItsOwnPredecessor`): whoever is killed leaves his killer. `OneUpdater` needs that the
pid file names the updater that loops and that an updater claims it only when no other one loops.

`BandwidthCollector`: that the rows are in order is inductive only together with two facts
about the collector that moves them: its sample is newer than the last row, and there is no
other collector; the latter rests on the pid file naming it from its first pass to
its end. Rows in order mean that values only rise while a row is being moved
(`Rising`), and that is what a reader needs: the last time it has printed is never above the row it
will print next, and a comma behind a row promises a later row with a time.
What the database shows (`Shown`) while rows are copied is the window with the sample already
in it: the rows below the one being copied as they are, those above one place on, the
sample last. The proof states that for a state as an operator of the rows and of the collector that
moves them (`Half`, `Seen`) and shows that no copy changes it; taking a sample in is `Append`. A
collector killed half-way is `Interrupt`, which holds because the row copied last stands in
the database twice (`RowsCopied`).
`ServiceReload`: a service that does not fit the settings is always on the list of a run that
has not reached it, or in the hands of one that knows what is wanted
(`NothingForgotten`, `WorkKnown`) or waits to be asked for (`unasked`), because a page saves
before it asks and asks before it queues for the lock; and the process list a run works
with, of at most one process, stays true because only one run is active.
`SecnConfig`: what a run has staged follows from what it has read (`Staged`), stays as it is until
it is committed (`Committed`), and what it has read is what secn says unless a page
has changed it since (`Fresh`); the third is where the options written back come in.

`LantiqChannel`: the three are inductive together with the types and `ChannelsInOrder` (a live
channel has a port, and only one that rings is answered). `DialingIsTimed` lives on the entries
the port has forgotten: the handler's `dial_timer = 0` loses the name of a newer entry and
not the entry. `OwnerLives` holds because `ast_lantiq_hangup` clears the owner for whichever
channel it is called, the very thing that breaks `BusyMeansHungUp`.

Only model-checked: every liveness property (`RegistersEventually`, `ClearsAll`,
`LastValueUploaded`, `ReconnectsEventually`, `RecordConverges`, `CollectorsEnd`, `RunsEnd`,
`DialingEnds`, `CallsEnd`): liveness under fairness is beyond the prover. Also only
model-checked: `AppendKeepsTypes`, which is about one `-a` (its proof needs `~Overlap` and
would say no more), and `KnowsTheHook`, which is about calm behaviours. Every other
invariant, every action property and both refinements that a passing run checks are
theorems, under the assumptions above.

## 5. Not modelled

* The components marked `not_modelled` in `PROJECT.json`, with their reasons.
* Patterns, JSON, URLs and log texts: data. Which channels a line matches is a
  choice of the environment.
* A peer that disappears without closing its connection; a server that sends
  without pause and keeps the daemon in its receive loop (`MaxLines` excludes it).
* A client that only receives: it sends nothing, so a
  closed connection is never noticed (`ReconnectsEventually` is stated for a
  client with something to send).
* `iot.general.debug` unset: the model has it (`DebugSet`), the proofs hold for
  it, but no run needs it: every command then ends at its first request.
* Reuse of process ids by the kernel.
* Disciplines the code does not enforce. Outside them the properties do not hold, and the
  specifications show it without them: a `-g` beside a `-d` saves the
  id of a deleted object, and of two `-a` one loses its type (`Overlap`); without a periodic
  upload, two writes to a channel in one second look like one (`Spec` and not `CalmSpec`); two
  clients whose checks overlap start two collectors, the first of which to end removes the
  other's pid file; a script started by hand or at boot beside `luci-reload` leaves two
  daemons, which no later run kills (both `Spec` and not `SerialSpec`); a second caller, a slow
  hang-up or the dial timer between two steps leaves a telephone port that no longer
  knows the receiver (`~calm`). `-a` on a device that has no list of types yet has no
  effect (`GetObject` ends there).
* `luci-reload` killed while it holds its lock, which then stays taken.
* `chan_lantiq`: voice frames, jitter statistics, loading and unloading the module, and bell and
  tones (hence `ast_lantiq_indicate`), requests for a port that does not exist, which leave
  `iflock` locked, more digits than the buffer holds, and the scheduler thread reading `pvt` in
  the middle of another handler.
* `SecnConfig`: the user's `ap_disable` is lost when a run writes it back over a page's; a box that
  goes from WiFi to USB-Modem stays a station; "Disable" empties `network.wan.proto`, and the branch
  on the mode of the address sets it again (`NetworkFor` has it so); DHCP, `config_secn-2`, the
  mesh and ping scripts.
* By lines most of the repository's C is not the firmware's own: LuCI's bundled libraries
  (axTLS, px5g), MySQL's generated tables, the packages feed (openl2tp, ttcp, wattsup), splash
  images and kernel drivers. It is listed as vendored and left aside; the firmware's logic is in Lua and shell.

## 6. Plan

1. Proofs: one updater as an abstract specification that `DdnsUpdater` implements; what
   `TcpClient` keeps when writers race (what the cache holds has been sent or will be
   with the next periodic upload); the safety parts of the liveness arguments (that a step
   of `chan_lantiq` towards the end of dialling is never undone).
2. `VoipConfig`: the walk with deletion, against the reference "every client with
   a number is written".
3. `RelayRoutines`: Xively and Yeelink over `ChannelStore`, and `McuUpload`.
4. `ntpclient.hotplug` beside `ServiceReload`, and a box on which `SecnConfig`'s reload
   raises the `ifup` that `DdnsUpdater` starts on.
