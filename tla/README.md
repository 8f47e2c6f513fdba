# A TLA+ model of rtndev

rtndev is a feed of Entware packages. Most of it is recipes that build programs
whose source lives elsewhere. What it brings along as source of its own, and what
runs all the time on the routers and NAS boxes Entware is made for, is small and
concurrent: a daemon that stops idle disks, the control of all services, a proxy
for live video, and tools that talk to a UPS. These are the parts modelled here.

## Inventory

| part | source | state it keeps | operations | what is hard |
|---|---|---|---|---|
| sd-idle | `sd-idle/src/sd-idle-2.6.c` | `_managing`, `_spinning` (32 bits), `_idletimes`, `_diskstats`, times | options; a pass over `/proc/diskstats`; STOP | lines are old when they are used, a STOP fails, disks come and go, the counter overflows |
| service control | `entware-opt/files/rc.func` | none but the process names | start, stop, restart, kill, check, reconfigure | no lock and no pid: cron, boot and users overlap; launches and shutdowns outlast the waits |
| whole system | `entware-opt/files/rc.unslung` | position in the sorted list | run all scripts with one action | order, a sourced script that exits |
| hlspxd session | `hlspxd/src/videoviewer.cpp` and patches | playlist, history `TsList`, `MaxHistLen`, counters | select a variant, scan, prune, play, read again | lost and old playlists, redirects, a bounded history, clients that leave |
| hlspxd streams and HTTP client | `hlspxd/src/utils.h`, `utils.cpp`, `videoviewer.cpp` | two buffers per stream, the socket, the state of the iostream | request, follow a redirect, read a response, copy a segment | partial sends, timeouts as swallowed exceptions, a signal that clears a failure |
| hlspxd server | `hlspxd/src/utils.cpp`, `hlspxd.cpp`, `platform.cpp` | sockets, `vview`, handlers | accept, fork, close; signals | sockets held by several processes, signals at the wrong moment |
| UPS tools | `25volt/src/usb_ups_apc_smart.c`, `usb_ups_powercom_wow.c` | a handle, a claim; the interface in the kernel | detach, claim, test, silence, read, release, attach | tools overlap, claims that fail are ignored, the UPS is unplugged, results narrowed to 8 bits |
| scripts with their own code | `deluge/files/S80deluged`, `S81deluge-web`, `rtorrent-easy-install`, `fake-hwclock` | – | start, stop, restart | fixed waits |
| cron | `cron/files/*`, `cron/patches/200-crond.patch` | mtime of the database | run-parts, reload | one maximum of three mtimes, overlapping runs |
| airprint, uudecode | `airprint/files/*.py`, `zork/files/uudecode.c` | – | convert | bounds |
| patches to other programs | `bacula`, `sitecopy`, `watchdog`, ... | – | – | the patched program is not in the repository |
| recipes, configuration | Makefiles, `*.conf` | – | – | no behaviour |

How they interact: a user, the boot scripts of the box and what a user has cron run
call `rc.unslung` or a single `S??name` script, which sources
`rc.func`; that starts, signals and polls the daemons, hlspxd and sd-idle among
them, by name. An hlspxd client triggers a child process, whose session fetches
playlists and segments from origin servers through the HTTP client and copies
them into the stream to the client. sd-idle only knows the kernel: it reads
counters and sends STOPs. The UPS tools are run by hand, by web pages or by cron,
possibly several at a time; all they share is the USB interface.

What makes each part correct: sd-idle stops idle disks, only those, and once per
rest; a script's exit status means what it says and a run of start brings up
what it may; services keep their order; a viewer gets the segments in order and once,
byte by byte, and its session ends; a server leaves no socket or child behind; a
UPS tool that reports success had the UPS to itself, and the kernel driver gets
its UPS back.

## Modules

| module | models |
|---|---|
| `SdIdle` | the daemon, one action per step of `main` and `_manage`, and the disks around it |
| `RcFunc` | shells that run scripts, and the daemons |
| `RcUnslung` | extends `RcFunc`: a shell that runs `rc.unslung`, or single scripts, among others that do |
| `Playback` | abstract: segments are published in order, and played in order, each at most once |
| `HlsViewer` | one session of hlspxd, with origin, hosts and client; implements `Playback` |
| `Delivery` | abstract: a receiver gets the bytes of one segment after the other, of each a prefix |
| `HlsRelay` | fetching and copying segments, byte by byte; implements `Delivery` |
| `HlspxdServer` | the processes of hlspxd, their sockets and signals |
| `UpsTool` | the two UPS tools, any number of which share an interface |
| `MC...` | instances for TLC |
| `..._proofs` | theorems about each of these modules, checked by TLAPS; `RcUnslung_proofs` extends `RcFunc_proofs` |

Definitions named `Operation_Something` under a comment "Fault" are wrong versions of
the operation that follows. They are no part of any specification: each shows that a
property notices the fault.

### SdIdle

`pc` is the position in `main` and `_manage`. `ParseOption` is one turn of the option
loop. A pass is `OpenDiskstats`, any number of `FillBuffer` (a `read(2)` behind `fgets`,
which brings the lines of some more disks as they are now) and `ManageLine` (one line:
`DiskIdle` or `DiskActive`), and `EndOfFile`; then `Sleep`, the only step in which time
passes. A line is a number that grows with every change of its text, and whether an I/O
is in progress. Words of flags are sets of bit numbers, 32 for 26 disks. `quiet`,
`snapquiet`, `stopline` and `sent` are observed only.

An I/O in progress that ends because of an unplugged disk changes the line. Disk
letters that are not a to z are dropped by the parser and are not in the model.
A number that does not fit an `int` arrives as whatever `strtol` leaves, so the model
takes any `int`.

### RcFunc and RcUnslung

A caller is a shell; `sh[c]` holds its place in the script, the daemon (`idx` into
`PROCS`) and the wait counter. Each command that looks at or changes the processes is one
action. A process is forked (still called `sh`, so that neither `pidof` nor `killall`
sees it), up, or dying. `Timely` says that launches and shutdowns end within the wait;
the run that asks for exit statuses assumes it, the one about overlapping scripts does not.
`old` is observed only: the processes a restart has to replace.

`RcUnslung` runs the scripts of `todo` with the shell `Boot`; while it does not, `Boot`
may run single scripts, as the other shells always may. `Invoke` of `RcFunc` is the
call of a script. A script whose name ends in `.sh` is sourced, so that its exit
(an unknown action, a fork that fails, a missing binary) is that of `rc.unslung`.
`Name(s)` is what `sort` compares, character by character: the digits after the `S` and
the rest of the name, as numbers in the order of the C locale. `Before` is that order,
so that `S10bar` comes before `S1foo`; `Lower` is the numerical order of the comment, and
several scripts may have the same number, as `S80bacula-dir` and `S80bacula-fd` have.
Variables that one sourced script leaves to the next are not modelled; no script of
the repository is sourced. `orderly` is observed only.

### HlsViewer, HlsRelay and HlspxdServer

The three are views of one program at different distances. In `HlspxdServer` a session is
one state of a child; in `HlsViewer` it is the loop of `VideoViewer::Run`, for which a
segment is one step, `PlaySegment`; `HlsRelay` is what happens in that step.

The while loop of `VideoViewer::Run` is scanned one record at a time (`ScanSegment`,
`ScanBad`, `ScanEndList`), then `NothingNew` or `SomethingNew` (which prunes the history
and walks back over it), `PlaySegment` for each segment, `Played`, `ReadAgain`. Every read
can fail or come from another host. A playlist read can be `Lag` segments old.
`MEDIA-SEQUENCE` only reaches the log and is left out, as are the durations and the pacing.

In `HlsRelay` a stream is a record: is its socket valid, is the iostream bad, what is in
its output buffer and in its input buffer. `output_buffer(s)` is the set of what a send
may come to: all is sent, or the stream goes bad, some bytes may have left, and the
buffer keeps them all. `Puts(s, bytes)` is one round of `xsputn`: fill the buffer up to
its last place, then `overflow` puts one byte there and sends. `Segment`, `Connect`,
`SendRequest`, `Flush`, `StatusLine`, `HeaderLine` and `Answer` are `getResponce`;
`Copy`, `Read`, `ReadDone`, `Write`, `WriteDone` are the copy loop, `Underflow` and
`ReadFails` what either does for more input. `Stop` is the SIGHUP handler, which closes
the stream to the client between any two steps, and clears its state. A line and a byte
are one item each. The iostream swallows the exceptions of `socketbuf`; that is why a
timeout is like an end of the stream. `FlushChecks` tells newer C++ libraries, whose
`flush` does nothing to a stream that is bad, from older ones. `asked`, `received` and
`copied` say what the origin and the client have got and what was read.

`HlspxdServer` follows the sockets: `holders[c]` are the processes that hold the
connection of client `c`, `ListenSocket` those that hold the listening socket. A child
passes through forked, default (SIGHUP kills), deaf (SIGHUP is handled, `vview` is not
set, the death of the server is not heard of), reading (it is heard of, and lost),
running, stopping, gone. That a stopped session ends is `SessionEnds` of `HlsViewer` and
fairness of `RunReturns` here. The windows in which a signal is lost are in the model: a
SIGTERM outside `accept`, a SIGHUP before `vview` is set.

### UpsTool

Both programs are one `main` in two variants, and one module: `invoked[t]` says which,
and with which options. `bound` is the state of the interface in the kernel: it
belongs to the kernel driver, a process, or nobody. Each call into libusb is one action;
`Message` is `usb_control_msg`, which claims a free interface in passing, as usbfs does,
without libusb knowing (`claimed`), so that `usb_release_interface` fails afterwards.
Whether a message succeeds, and whether a failed one has arrived, is open. An unplugged
UPS leaves stale handles, a UPS plugged in is bound to the kernel driver. The
values read are left out; `told`, `obeyed` and `alone` are observed only. The end of the
process, killed or not, closes the handle. The status of an APC is behind
`PRINT_STATUS`, which is not defined.

## Runs

| run | instance | shows |
|---|---|---|
| `sd_idle_disks` | 2 disks, 10 command lines, 2 changes of each line, int up to 4 | all properties of `SdIdle`: the inductive invariant of the proofs, and liveness |
| `sd_idle_no_disks` | every disk excluded | violated: excluding all disks does not end the daemon |
| `unslung_one` | 1 shell with any request, cron or user, on 2 scripts with 3 daemons; `rc.unslung` start and stop; 1 crash | exit statuses mean what they say; numerical order of calls and of the services themselves; the inductive invariant of the proofs |
| `unslung_restart` | 1 shell, 3 scripts of which two have the same number, restart | violated: restart starts in reverse order |
| `unslung_cron` | 2 shells, 4 scripts: two enabled, one of them sourced, one disabled, one without binary; starts and unknown actions; 1 crash, no timing assumed | a run of start brings up what it may; every script has its turn, the run ends |
| `hls_live` | 5 master playlists; 6 segments, window of 3 | refinement of `Playback`, the variant is the one asked for, nothing is played twice, completeness, termination; the inductive invariant |
| `hls_forgotten` | 8 segments, window of 3, cache one behind | violated: a segment forgotten by the history is played again |
| `hls_moved` | 3 segments, redirected | violated: a redirected segment is played again |
| `hls_relay` | 3 segments of 7 bytes, requests of 5 items, buffers of 3, 3 attempts, old library | refinement of `Delivery`; nothing lost while the client's stream is good; responses are those of the request; termination |
| `hlspxd_server` | 3 clients, 3 signals | which sockets are open in which state; they are released, sessions follow the server |
| `ups_tools` | 2 tools, each one of 10 invocations, 1 unplugging | exit status 0 means undisturbed; the kernel driver comes back; tools end |
| `ups_command` | 1 tool with a command | violated: OK is printed for a command that was not carried out |

Bounds. Two disks are enough for one line to age while another is looked at; two changes
of a line give a stop, a wake and a second stop, and an int of 4 lets the
counter of a disk at rest overflow within a few passes. Three process slots
hold two instances of a daemon and a third that is still being forked. A window of three
segments is the first whose history is pruned while a playlist still grows: it stays at four.
Six readings without news end a session, so `emptCnt` is not bounded further. In
`hls_relay` a request takes two sends, a segment three, with a rest in the buffer that
meets the next segment; a response fits neither into one `recv` nor ends where one does;
three segments let one break off between two others. Three clients
are one more than a stray descriptor needs. Two tools are enough for each to hold what
the other wants at any of its steps; the loops of 8 dummy reads and 6 reports are 2
reads long there, since all reads of a loop are alike. `MaxSeg` bounds what an origin
publishes: `SessionEnds` therefore says that a session ends once its stream has stopped
or its client is gone, not that a stream stops. The interesting cases of the redirects make
the list of played segments grow without end, which is why `hls_moved` looks for a
violation only. What is proved (see below) holds without these bounds.

Fairness. The daemon, the shells, the server and its children, the tools are processes
that the kernel schedules: weak fairness. Every wait in `HlsRelay` has a timeout in the
code (`select`, `connect`), as has every USB message (5 seconds), so that these steps come
to some end. Nothing is assumed of disks, clients, origins, signals and callers.
In particular nothing calls a script again: the `crontab` of the
repository only runs `run-parts` on directories. Launches and exits of daemons end in the
end; how long they take is open unless `Timely`.

`BootStartsServices` says of a run of `rc.unslung start` that each service it may start
(enabled, with its binary, executable) has all its processes at some moment, from which
on only a crash can take them away as nobody is asked to stop anything. What excuses it is
part of the formula: a crash after the run began (`crashes > n`), no room for a process of
that service (`ForkFailed`), or a sourced script that has ended the run (`Aborted`). A launch
that outlasts the wait, a script before it that fails, is disabled or has no binary, and
the scripts of the other shell are no excuse.

## Findings

1. `-d '!abcdefghijklmnopqrstuvwxyz'` leaves no disk to manage, but bits 26 to 31, so the
   daemon runs (`sd-idle-2.6.c:245`, message at line 247).
2. `rc.unslung restart` starts in reverse numerical order (`rc.unslung:21`, comment at
   line 6).
3. The history of hlspxd can be too short (`videoviewer.cpp:273`): it grows only when a
   playlist brings at least `MaxHistLen` segments, so that it stays at 4 for a stream first
   read with two segments. After a lost segment a playlist from a cache one segment behind
   brings that segment to the end of the list; one that the playlists still show falls out
   of its front, and is played again (`hls_forgotten`).
4. hlspxd plays a redirected segment twice, because the list element is overwritten
   (`videoviewer.cpp:289`); the comment of patch 100 calls what it plays "unplayed".
5. `send_test` and `send_boff` return `uint8_t`, so that the -1 of a failure is 255 for
   `main`, whose test `ret < 0` never holds: the UPS tools print "OK" and never "Failed"
   (`usb_ups_apc_smart.c:347` and 360, `usb_ups_powercom_wow.c:314` and 327).

## Remarks

Behaviour the models show, or were built around, for which there is no run:

- A failed STOP clears the spinning bit (`sd-idle-2.6.c:441`, comment at line 91): the
  disk spins on and is not sent another STOP before its next I/O and rest.
- Two overlapping starts run two instances of a daemon (`rc.func:21`), as does a start
  after a launch that has outlasted the wait (`rc.func:30`): `AtMostOneInstance`
  holds only if scripts that overlap are for different daemons, and launches are timely.
- A stop does not see what an overlapping start has just forked, and a restart whose daemon
  takes longer than the wait to end finds it running, reports success, and has nothing
  left when it is gone (`rc.func:54`).
- A session whose request is still being read when the server ends outlives it
  (`utils.cpp:307`, 386); `SessionsFollowServer` is about those that run.
- Numbers of different length do not sort as numbers (`rc.unslung:23`).
- A segment that breaks off counts as played, and the next one follows in the middle of
  it; up to 751 bytes of the last segment are never sent, because `flush` is commented out
  (`videoviewer.cpp:315`) and `~socketstream` closes the socket before `~socketbuf`
  flushes it. `Delivery` and `NothingLost` state what holds in spite of this.
- Values a UPS tool could not read are printed as 6553 or 65535, and its exit status is 0;
  `ExitZeroAlone` is about the interface, not about the values.
- The WOW tool reads one byte of a status of twelve flags (`usb_ups_powercom_wow.c:166`):
  flags from bit 8 on (communication lost, overload) are shown as off, unless the answer
  was missing altogether.
- A UPS tool that is killed between detach and attach leaves the UPS without its
  driver. So does a tool by itself whose attach finds the interface claimed by
  another one, unless that was given `-a`, too.

## Proofs

Every safety property that a passing run checks, invariant, action property or refinement,
is a theorem. Unless a hypothesis is named here, a theorem follows from the `ASSUME` of its
module alone, for all values of the constants.

`SdIdle_proofs`, for any number of disks, any command line, any times and any `IntMax`:

- `TypeCorrect`, `NeverOverdue` (`SpinningBelowLimit`),
- `StopsOnlyIdleDisks` (`StopOnlyWhenIdle`) and `StopsOncePerRest` (`NoSecondStop`),
- all from `Invariant`: `Spec => []SdIdleInv`;
- `BelievedRestWasStopped`: a disk whose `_spinning` bit is clear is managed, and its last
  STOP was for the line that is saved (`RestInv`); `EveryPassCounts`: a pass that finds
  the line of a spinning disk unchanged sends the STOP or counts further, and `CountsUp` is
  enough for the int not to overflow on the way.

None of the properties is inductive. That a disk about to be stopped has been quiet
for `idletime` relates a counter of the daemon to the past of the disk, through a line that
was read earlier. `SdIdleInv` therefore follows the line on its way: the saved one is no
newer than the one in the buffer, which is no newer than the kernel's (`LineOrder`);
while they are equal the counter is at most the time the line has not changed, with
a checktime in hand for disks the pass has still to look at (`CounterIsQuiet`, `Due`), and
the same for the copy in the buffer (`BufferedIsQuiet`). `SpinsForAReason` says that a
disk stopped on its saved line has its bit set again only if a change of the line is on
its way. The proof that a step preserves it is split by who moves: a pass that reads
lines (`FillStep`), the treatment of one line (`LineStep`), the disks (`WorldStep`), and
the steps that change no disk (`QuietStep`). `Cap` is needed because `quiet` is only kept
up to `IntMax`, which is also why the overflow of the counter does no harm.

`RcFunc_proofs`, for any scripts, processes and requests:

- `TypeCorrect` (`TypeOK`), for any number of overlapping shells and any timing,
- `OneInstance` (`AtMostOneInstance`), `StopStops` (`StopLeavesNone`), `RestartReplacesAll`
  (`RestartReplaces`) and `RefusedRestart` (`RefusedRestartStops`), under the hypotheses
  `[]Disjoint` (shells whose scripts overlap in time run them for different daemons) and
  `Timely` (launches and shutdowns end within the wait),
- from `Invariance`: `Spec /\ []Disjoint => []RcInv`, under the same hypotheses,
- `ScriptsAdvance`, for any number of overlapping shells and any timing.

Both hypotheses are needed: without a lock two shells start two instances of one daemon,
and a launch that outlasts the wait is not seen by the next start (see Remarks).
`[]Disjoint` is about what the shells are asked, and one shell fulfils it always
(`AloneDisjoint`), which gives `AloneInvariance`; the runs check that case. Crashes may come
at any moment.
`RcInv` is a part about the processes and one for each shell (`ShellInv`), which ties the
place of the shell to the processes of the script it runs. A step of one shell touches
processes of daemons it `Owns` only; those of another shell are not among them, so its
`ShellInv` stays as it was. A process that has been forked but
is not visible yet is always one somebody waits for (`LaunchesAwaited`); this is what
makes the test of `pidof`, which does not see it, sufficient. Whatever `killall` has
signalled is dying, and gone when the wait is over (`StopsComplete`). The status of the
loop is that of its last turn (`StatusMeansLast`), and a restart has nothing left of the
daemons it has passed (`RestartSoFar`, which looks at the pids of `old`). Commands that
leave the processes alone are one lemma, `QuietStep`, for all places `QuietMove` lists;
what is left are forks, signals and the processes' own steps.

`RcUnslung_proofs`, for any number of scripts:

- `UTypeCorrect`, and `EveryScriptVisited` (`RunVisitsAll`), for overlapping shells and
  any timing: what is behind and before the loop are all executable scripts (`RunCovers`);
- `NumericalOrder` (`StartedInOrder`), from `RunSorted`, when rc.unslung is not asked to
  restart (`unslung_restart` shows why) and the numbers of the scripts have equally many
  digits. `LowerBefore` is the step from the numbers to the names: `sort` then decides at the
  highest digit that differs, whatever follows the digits. With `S1foo` and `S10bar` the
  order of the starts is not that of the numbers; all names of the repository have two digits;
- `ImplementsRcFunc`: the composition implements `RcFunc`, with the runs of rc.unslung
  among the requests; the list of scripts is hidden;
- `UInvariance`, `UOneInstance`, `UExits`: what `RcFunc_proofs` says, when one of the
  shells also runs rc.unslung (`[]Disjoint`, `Timely`). A step of the composition is one of
  `RcFunc`, so these reuse its lemmas;
- `RunsAdvance`, for overlapping shells and any timing;
- `OrderInvariance` (`OrderInv`) and from it `OrderKept` (`KeepsOrder`), under `Setting`:
  one shell (`OneCaller`), `Timely`, and in addition every script is
  enabled and has its binary, no run is for cron (which may not start what is not
  critical), daemons have names of their own, there is a slot for each, and numbers have equally many
  digits. When a script
  does not start anything, or a fork fails, the loop goes on, and services start without
  those before them. `OrderInv` is about the run as a whole: the services it has visited are
  entirely up (`StartInv`) or gone (`StopInv`), those it has not are as they were.

`HlsViewer_proofs`, for playlists, histories and master playlists of any length:

- `WalkStaysInside` (`ReadPosInRange`), for any age of the cache and redirects. That the
  walk back from `TsList.end()` stays inside the list depends on a step before: the front
  of the list has just been erased. `ViewerInv` says that what a scan has added is in the
  list and counted in `uniqts`; the history is made longer than `uniqts` before it is pruned
  (`LastOfList`), so that this still holds afterwards.
- `EndedStreamIsComplete` (`EndedIsComplete`), for the same. `CompleteInv` says that, as
  long as the client listens, everything in the history has been played or is pending.
- `QualityIsHonoured` (`QualityHonoured`), by what the rank of a variant says of its
  bandwidth.
- `PlaysOnlyUnplayed` (`OnlyUnplayed`) and `ImplementsPlayback` (`PlaysInOrder`: the
  refinement of `Playback`), under `NeverBack`: a playlist is never older than the
  one before, and nothing is redirected. `hls_forgotten` and `hls_moved` show what happens
  otherwise. Segments may be lost between two reads, and windows may be of any size. The
  invariant `InOrderInv` relates the history to the last playlist: its end is made of the
  segments of that playlist that have been seen, without a gap (`Remembers`), and no pruning
  reaches them, since `MaxHistLen` ends up above `uniqts`. A segment that has left the
  playlist may have left the history, too; as playlists do not go back it is not asked for.

`HlsRelay_proofs`, for requests, segments and buffers of any size and both kinds of
library:

- `NothingIsLost` and `ResponsesAreOurs`, and with them that no buffer is written beyond
  its end, from `StreamInv`. It adds to the two properties what a step relies on:
  `RoomToWrite`, that a stream that is about to be written to has room even if a signal has
  just cleared a failure that left its buffer full, and `RequestInTransit`, the request's
  counterpart of `NothingLost`. `PutsBytes` says what one round of `xsputn` does to sent,
  kept and remaining bytes, `Regroup` that this keeps their concatenation; steps that only
  read or move on are covered by `QuietStep`.
- `ImplementsDelivery` (`Delivers`: the refinement of `Delivery`), from `RelayInv`. `StreamInv`
  says that bytes are not lost between buffers; it does not say that those read belong where
  they are. `ResponseComes` and `BodyComes` follow the response from the origin to the copy
  loop: while the stream of the origin is good, what is still to come is the rest of the
  response to the request that was made. `GotInOrder` says that what has been read is in
  order and ends where the rest begins, `SentIsCopied` that the client has the first part
  of it (`Prefix`). The refinement mapping takes `received`, which is in order as a prefix of
  what is.

`HlspxdServer_proofs` proves `NoStrayDescriptors` (`NoStrayDescriptor`) for any set of
clients. A fork hands
everything the server holds to the child, so the invariant has to bound what the server
holds: `DescriptorInv` says that it holds the connection it has accepted last and no
other. Steps that only close sockets keep it (`ClosingStep`); what is left are `Accept`
and `Fork`. `ServiceInv` adds the states: only a child that has just been forked still has
the listening socket, only one that serves has its connection, and a connection that is
waiting or about to be forked for has no child yet; the run checks it. It gives `OnlyForkedHoldPort`,
`AbandonedSoonClosed` and `ChildrenGoForward`.

`UpsTool_proofs` proves `WellEndedWasAlone` (`ExitZeroAlone`) and `DriverIsBack`
(`DriverComesBack`) for any number of tools, options and unpluggings. `UpsInv` ties
what libusb believes to what the kernel has: who knows of a claim and has still the UPS
of its handle has the interface bound and to itself; a process that has it bound
without knowing will fail at `release:` (`Doomed`), and with it goes its exit status. A
detached interface has a `Friend`: a tool that is still going to attach the driver, or
one that is to blame. The proof goes by what a step does to the hold of the others:
`MessageStep`, `SessionStep`, `ExitStep`, and the steps that bind or unbind.

Only model-checked: all liveness, which is beyond the prover, as are `ENABLED` and with
it weak fairness. What is proved of it, without bounds, is the part that is safety: that a
step of the program takes it forward in an order with no endless ascent, and that no
step of anyone else takes it back; or what the states it may be stuck in can be.
What is left to TLC is that a program that has not ended can take a step.

| liveness property, model-checked | its safety part, proved |
| --- | --- |
| `IdleDiskIsStopped`, `WakeIsNoticed` | `EveryPassCounts`, `BelievedRestWasStopped` |
| `ScriptsEnd` | `ScriptsAdvance`: by the PROC, the place in `start`, `stop`, `restart`, the counter of the wait |
| `RunEnds` | `RunsAdvance`: by the scripts left, then by `ScriptsAdvance` |
| `ToolsEnd` | `EveryStepAdvances` of `UpsTool_proofs`: by the place in `main`, then by the reports read |
| `RelayEnds` | `EveryStepAdvances` of `HlsRelay_proofs`: by the segment, the attempts left, the bytes to come, the bytes to put |
| `SessionEnds` | `StoppedGoesForward`, for a session SIGHUP has stopped: by the reads with nothing new, then by the records scanned |
| `PortFreed` | `OnlyForkedHoldPort`: after the exit only children that have not closed it yet hold the port |
| `ClientsReleased` | `AbandonedSoonClosed`: a connection nobody serves is held from accept to closesocket, by the server alone |
| `SessionsFollowServer` | `ChildrenGoForward`: from fork to exit, and a stopped session never runs again |
| `BootStartsServices` | `EveryScriptVisited` and `RunsAdvance`: no script is left out, and the run comes to each; that a launch ends is fairness |

## Not modelled, and the plan

Not modelled because the repository has only a patch: bacula's `killproc`, sitecopy, the
watchdog and others. Recipes and configuration have no behaviour. The parsing of URIs,
of requests and of playlists in hlspxd is abstracted to its outcomes.

Next, in this order:

1. proofs with weaker hypotheses: `OnlyUnplayed` for caches whose age the history covers,
   `KeepsOrder` for the services a run may start when others are disabled;
2. `Deluge` (restart with a fixed wait) as a variant of the service control;
3. `HlspxdService`: `rc.func` with the processes of `HlspxdServer`, since a
   restart waits for children that end with their streams;
4. `CronDatabase` (the mtime gate) and `RunParts` (overlapping runs);
5. `Uudecode` and the bounded lists of `airprint-generate` as functions on bounded inputs.
